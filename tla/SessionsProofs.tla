----------------------------- MODULE SessionsProofs -----------------------------
(***************************************************************************)
(* Theorems about Sessions, for every set of users, events and handlers,   *)
(* all lifetimes and any run of the clock.                                 *)
(***************************************************************************)
EXTENDS Sessions, UserAccountsProofs

-----------------------------------------------------------------------------
(* The inductive invariant, beside that of the accounts.                   *)

(* The times are numbers and the client's user is one.                     *)
TimesOK ==
  /\ clock \in Nat
  /\ session \in [user : UserId \cup {None}, access : Nat, refresh : Nat, login : Nat, renewed : Nat]
  /\ \A x \in Handler : read[x].began \in Nat

(* The login's refresh token covers its access token's request, and that   *)
(* of a refresh under way: no login comes in between.                      *)
Refreshable ==
  /\ session.user # None =>
       session.refresh = session.login + RefreshTTL /\ session.renewed < session.refresh
  /\ \A x \in Handler :
       read[x].pc = "refresh" => session.user # None /\ read[x].began < session.refresh

(* Premium that events of user u grant and that lasts beyond a moment.     *)
GoodAt(u, ent, time, events) ==
  /\ ent.until \in {None, Garbled} \/ time < ent.until
  /\ Granted(u, ent.until, events)

(* What a briefing request knows at each of its calls.                     *)
ReadGood(r, events, now) ==
  /\ r.pc \in {"gate", "limit", "fetch", "answered"} =>
       /\ r.began <= now
       /\ r.ent \in Entitlement
       /\ r.ent.premium => Granted(r.user, r.ent.until, events)
  /\ (r.pc \in {"limit", "fetch", "answered"} /\ r.history) =>
       r.ent.premium /\ GoodAt(r.user, r.ent, r.began, events)
  /\ (r.pc \in {"fetch", "answered"} /\ r.premium) => GoodAt(r.user, r.ent, r.began, events)
  /\ (r.pc \in {"fetch", "answered"} /\ r.history /\ ~r.premium) =>
       r.ent.until \in Nat /\ r.ent.until <= now
  /\ r.pc = "answered" => r.shown \in Nat /\ (~r.premium => r.shown <= FreeItems)

ReadsGood == \A x \in Handler : ReadGood(read[x], applied, clock)

ReadDomain == DOMAIN read = Handler

SessionInv == ReadDomain /\ TimesOK /\ Refreshable /\ ReadsGood

-----------------------------------------------------------------------------
(* Sessions adds to the accounts: each step is one of theirs or leaves     *)
(* them alone.                                                             *)
LEMMA StepIsAccounts ==
  ASSUME [SNext]_allVars
  PROVE  [Next]_vars
<1>1. CASE Accounts
  BY <1>1, Zenon DEF Accounts, Next
<1>2. ASSUME NEW x \in Handler, LoginAnswered(x)
      PROVE  Next
  BY <1>2, Zenon DEF LoginAnswered, Next, Request
<1>3. CASE ~Accounts /\ ~(\E x \in Handler : LoginAnswered(x))
  BY <1>3 DEF SNext, allVars, Tick, VerifyRefresh, Refreshed, Authorize, Gate, ChooseLimit, Respond, EndRead
<1> QED
  BY <1>1, <1>2, <1>3

(* Every behaviour of Sessions is one of UserAccounts, so the theorems     *)
(* about the accounts hold for it.                                         *)
THEOREM SessionsAreAccounts == SSpec => Spec
<1>1. SInit => Init
  BY DEF SInit
<1>2. [SNext]_allVars => [Next]_vars
  BY StepIsAccounts
<1> QED
  BY <1>1, <1>2, PTL DEF SSpec, Spec

LEMMA SessionStepCases ==
  ASSUME SNext
  PROVE  \/ Accounts
         \/ Tick
         \/ \E x \in Handler : LoginAnswered(x) \/ VerifyRefresh(x) \/ Refreshed(x)
         \/ \E x \in Handler, history \in BOOLEAN : Authorize(x, history)
         \/ \E x \in Handler : Gate(x) \/ ChooseLimit(x) \/ Respond(x) \/ EndRead(x)
BY Zenon DEF SNext

(* No step takes an applied event away.                                    *)
LEMMA AppliedStays ==
  ASSUME [Next]_vars
  PROVE  applied \subseteq applied'
BY DEF Next, Request, Webhook, LoginKnown, LoginNew, LoadForPreferences, LoadForLegal, Save,
       WebhookIgnored, WebhookDuplicate, WebhookRecord, WebhookUnknownUser, WebhookLoad,
       WebhookUpdate, Die, Propagate, Replicate, vars

(* What a request knows stays true as events are applied and time passes.  *)
LEMMA KnowledgeStays ==
  ASSUME NEW r, NEW events, NEW more, events \subseteq more,
         NEW now \in Nat, NEW later \in Nat, now <= later, r.began \in Nat,
         ReadGood(r, events, now)
  PROVE  ReadGood(r, more, later)
<1>1. \A u, until : Granted(u, until, events) => Granted(u, until, more)
  BY DEF Granted
<1>2. r.pc \in {"gate", "limit", "fetch", "answered"} => r.ent.until \in Nat \cup {None, Garbled}
  BY DEF ReadGood, Entitlement
<1> QED
  BY <1>1, <1>2 DEF ReadGood, GoodAt

-----------------------------------------------------------------------------
LEMMA InitSession ==
  ASSUME SInit
  PROVE  SessionInv
BY DEF SInit, SessionInv, ReadDomain, TimesOK, Refreshable, ReadsGood, ReadGood, NoRead

Reads(x, r) == read' = [read EXCEPT ![x] = r]
Later == clock' \in Nat /\ clock <= clock'
ReadsAfter == ReadDomain' /\ ReadsGood' /\ \A y \in Handler : read'[y].began \in Nat

(* A step that changes at most one request, to one that is good.           *)
LEMMA ReadMoves ==
  ASSUME SessionInv, [Next]_vars, Later,
         NEW x \in Handler, NEW r, Reads(x, r),
         r.began \in Nat, ReadGood(r, applied', clock')
  PROVE  ReadsAfter
<1> USE DEF Reads, Later, ReadsAfter
<1>1. ReadDomain'
  BY DEF SessionInv, ReadDomain
<1>2. read'[x] = r
  BY DEF SessionInv, ReadDomain
<1>3. ASSUME NEW y \in Handler, y # x
      PROVE  ReadGood(read'[y], applied', clock') /\ read'[y].began \in Nat
  <2>1. read'[y] = read[y]
    BY <1>3 DEF SessionInv, ReadDomain
  <2>2. ReadGood(read[y], applied, clock) /\ read[y].began \in Nat /\ clock \in Nat
    BY DEF SessionInv, ReadsGood, TimesOK
  <2>3. applied \subseteq applied'
    BY AppliedStays
  <2> QED
    BY <2>1, <2>2, <2>3, KnowledgeStays
<1> QED
  BY <1>1, <1>2, <1>3 DEF ReadsGood

(* A step that changes no request.                                         *)
LEMMA ReadsStay ==
  ASSUME SessionInv, [Next]_vars, Later, read' = read
  PROVE  ReadsAfter
<1> USE DEF Later, ReadsAfter
<1>1. ASSUME NEW y \in Handler
      PROVE  ReadGood(read[y], applied', clock')
  <2>1. ReadGood(read[y], applied, clock) /\ read[y].began \in Nat /\ clock \in Nat
    BY DEF SessionInv, ReadsGood, TimesOK
  <2>2. applied \subseteq applied'
    BY AppliedStays
  <2> QED
    BY <2>1, <2>2, KnowledgeStays
<1> QED
  BY <1>1 DEF SessionInv, ReadDomain, ReadsGood, TimesOK

(* A request that is over knows nothing.                                   *)
LEMMA NoReadGood ==
  ASSUME NEW events, NEW now
  PROVE  ReadGood(NoRead, events, now) /\ NoRead.began = 0 /\ NoRead.pc = "idle"
BY DEF ReadGood, NoRead

(* The tokens.                                                             *)
LEMMA TokenStep ==
  ASSUME IInv, SessionInv, NEW x \in Handler,
         LoginAnswered(x) \/ VerifyRefresh(x) \/ Refreshed(x)
  PROVE  SessionInv'
<1> USE LifetimeAssumption
<1>0. [Next]_vars
  BY StepIsAccounts, Zenon DEF SNext
<1>1. CASE LoginAnswered(x)
  <2>1. h[x].user \in UserId
    BY <1>1 DEF LoginAnswered, Save, IInv, TypeOK, HandlerState
  <2>2. read' = read /\ clock' = clock
    BY <1>1 DEF LoginAnswered
  <2>3. ReadsAfter
    BY <1>0, <2>2, ReadsStay DEF SessionInv, TimesOK, Later
  <2>4. TimesOK'
    BY <1>1, <2>1, <2>2, <2>3 DEF LoginAnswered, SessionInv, TimesOK, ReadsAfter
  <2>5. Refreshable'
    BY <1>1, <2>2 DEF LoginAnswered, SessionInv, TimesOK, Refreshable
  <2> QED
    BY <2>3, <2>4, <2>5 DEF SessionInv, ReadsAfter
<1>2. CASE VerifyRefresh(x)
  <2> DEFINE r == [NoRead EXCEPT !.pc = "refresh", !.user = session.user, !.began = clock]
  <2>1. read' = [read EXCEPT ![x] = r] /\ clock' = clock /\ session' = session
    BY <1>2 DEF VerifyRefresh, Refreshing
  <2>2. r.began = clock /\ r.pc = "refresh"
    BY DEF NoRead
  <2>3. ReadGood(r, applied', clock')
    BY <2>2 DEF ReadGood
  <2>4. ReadsAfter
    <3>1. Reads(x, r) /\ Later /\ r.began \in Nat
      BY <2>1, <2>2 DEF Reads, Later, SessionInv, TimesOK
    <3> QED
      BY <1>0, <2>3, <3>1, ReadMoves, Zenon
  <2>5. TimesOK'
    BY <2>1, <2>4 DEF SessionInv, TimesOK, ReadsAfter
  <2>6. Refreshable'
    BY <1>2, <2>1, <2>2 DEF VerifyRefresh, Valid, SessionInv, ReadDomain, Refreshable
  <2> QED
    BY <2>4, <2>5, <2>6 DEF SessionInv, ReadsAfter
<1>3. CASE Refreshed(x)
  <2>1. read' = [read EXCEPT ![x] = NoRead] /\ clock' = clock
    BY <1>3 DEF Refreshed
  <2>2. NoRead.began \in Nat /\ ReadGood(NoRead, applied', clock')
    BY NoReadGood
  <2>3. ReadsAfter
    <3>1. Reads(x, NoRead) /\ Later
      BY <2>1 DEF Reads, Later, SessionInv, TimesOK
    <3> QED
      BY <1>0, <2>2, <3>1, ReadMoves, Zenon
  <2>4. session' = [[session EXCEPT !.access = clock + AccessTTL] EXCEPT !.renewed = read[x].began]
    BY <1>3 DEF Refreshed
  <2>5. TimesOK'
    <3>1. clock + AccessTTL \in Nat /\ read[x].began \in Nat /\ clock' \in Nat
      BY <2>1 DEF SessionInv, TimesOK
    <3>2. session' \in [user : UserId \cup {None}, access : Nat, refresh : Nat, login : Nat, renewed : Nat]
      BY <2>4, <3>1 DEF SessionInv, TimesOK
    <3> QED
      BY <2>3, <3>1, <3>2 DEF TimesOK, ReadsAfter
  <2>6. Refreshable'
    BY <1>3, <2>1, <2>4, NoReadGood DEF Refreshed, SessionInv, TimesOK, ReadDomain, Refreshable
  <2> QED
    BY <2>3, <2>5, <2>6 DEF SessionInv, ReadsAfter
<1> QED
  BY <1>1, <1>2, <1>3

(* A briefing request gets its profile.                                    *)
LEMMA AuthorizeStep ==
  ASSUME IInv, SessionInv, NEW x \in Handler, NEW history \in BOOLEAN, Authorize(x, history)
  PROVE  SessionInv'
<1>0. [Next]_vars
  BY StepIsAccounts, Zenon DEF SNext
<1>1. session.user \in UserId
  BY DEF Authorize, SessionInv, TimesOK
<1>2. PICK p \in Readable(session.user) \ {None} :
        read' = [read EXCEPT ![x] = [NoRead EXCEPT !.pc = IF history THEN "gate" ELSE "limit",
                                                   !.user = session.user, !.ent = p.ent,
                                                   !.history = history, !.began = clock]]
  BY DEF Authorize
<1>3. p \in Profile /\ Sound(session.user, p, applied)
  BY <1>1, <1>2 DEF Readable, IInv, TypeOK, CopiesSound
<1> DEFINE r == [NoRead EXCEPT !.pc = IF history THEN "gate" ELSE "limit",
                               !.user = session.user, !.ent = p.ent,
                               !.history = history, !.began = clock]
<1>4. /\ r.pc = (IF history THEN "gate" ELSE "limit")
      /\ r.user = session.user /\ r.ent = p.ent /\ r.history = history /\ r.began = clock
  BY DEF NoRead
<1>5. clock' = clock /\ session' = session /\ applied' = applied /\ clock \in Nat
  BY DEF Authorize, vars, SessionInv, TimesOK
<1>6. p.ent \in Entitlement /\ (p.ent.premium => Granted(session.user, p.ent.until, applied))
  BY <1>2, <1>3 DEF Profile, Sound, Sourced
<1>7. ReadGood(r, applied', clock')
  BY <1>4, <1>5, <1>6 DEF ReadGood
<1>8. ReadsAfter
  <2>1. Reads(x, r) /\ Later /\ r.began \in Nat
    BY <1>2, <1>4, <1>5 DEF Reads, Later
  <2> QED
    BY <1>0, <1>7, <2>1, ReadMoves, Zenon
<1>9. TimesOK'
  BY <1>5, <1>8 DEF SessionInv, TimesOK, ReadsAfter
<1>10. Refreshable'
  BY <1>2, <1>4, <1>5 DEF SessionInv, ReadDomain, Refreshable
<1> QED
  BY <1>8, <1>9, <1>10 DEF SessionInv, ReadsAfter

(* A briefing request takes its next step, which changes nothing else.     *)
LEMMA RequestMoves ==
  ASSUME SessionInv, NEW x \in Handler, NEW r, Reads(x, r), UNCHANGED <<vars, clock, session>>,
         r.pc # "refresh", r.began \in Nat, ReadGood(r, applied, clock)
  PROVE  SessionInv'
<1>1. applied' = applied /\ clock' = clock /\ session' = session /\ [Next]_vars
  BY DEF vars
<1>2. Later
  BY <1>1 DEF Later, SessionInv, TimesOK
<1>3. ReadGood(r, applied', clock')
  BY <1>1
<1>4. ReadsAfter
  BY <1>1, <1>2, <1>3, ReadMoves, Zenon
<1>5. TimesOK'
  BY <1>1, <1>4 DEF SessionInv, TimesOK, ReadsAfter
<1>6. Refreshable'
  BY <1>1 DEF Reads, SessionInv, ReadDomain, Refreshable
<1> QED
  BY <1>4, <1>5, <1>6 DEF SessionInv, ReadsAfter

LEMMA BriefingStep ==
  ASSUME SessionInv, NEW x \in Handler,
         Gate(x) \/ ChooseLimit(x) \/ Respond(x) \/ EndRead(x)
  PROVE  SessionInv'
<1>0. /\ ReadGood(read[x], applied, clock) /\ read[x].began \in Nat /\ clock \in Nat
      /\ UNCHANGED <<vars, clock, session>>
  BY DEF SessionInv, ReadsGood, TimesOK, Gate, ChooseLimit, Respond, EndRead
<1>1. CASE Reads(x, NoRead)
  <2>1. ReadGood(NoRead, applied, clock) /\ NoRead.began \in Nat /\ NoRead.pc # "refresh"
    BY NoReadGood
  <2> QED
    BY <1>0, <1>1, <2>1, RequestMoves, Zenon
<1>2. ASSUME Gate(x), ~Reads(x, NoRead)
      PROVE  SessionInv'
  <2> DEFINE r == [read[x] EXCEPT !.pc = "limit"]
  <2>1. PremiumActive(read[x].ent) /\ Reads(x, r) /\ read[x].pc = "gate"
    BY <1>2 DEF Gate, Reads
  <2>2. r.pc = "limit" /\ r.began = read[x].began
    BY <2>1
  <2>3. ReadGood(r, applied, clock)
    BY <1>0, <2>1 DEF ReadGood, PremiumActive, GoodAt, Entitlement
  <2> HIDE DEF r
  <2> QED
    BY <1>0, <2>1, <2>2, <2>3, RequestMoves, Zenon
<1>3. ASSUME ChooseLimit(x)
      PROVE  SessionInv'
  <2> DEFINE r == [read[x] EXCEPT !.pc = "fetch", !.premium = PremiumActive(read[x].ent)]
  <2>1. Reads(x, r) /\ read[x].pc = "limit"
    BY <1>3 DEF ChooseLimit, Reads
  <2>2. r.pc = "fetch" /\ r.began = read[x].began
    BY <2>1
  <2>3. ReadGood(r, applied, clock)
    <3> DEFINE ent == read[x].ent
    <3>1. /\ r.user = read[x].user /\ r.ent = ent /\ r.history = read[x].history
          /\ r.premium = PremiumActive(ent)
      BY <2>1
    <3>2. /\ read[x].began <= clock /\ ent \in Entitlement
          /\ ent.premium => Granted(read[x].user, ent.until, applied)
          /\ read[x].history => ent.premium /\ GoodAt(read[x].user, ent, read[x].began, applied)
      BY <1>0, <2>1 DEF ReadGood
    <3>3. ent.premium \in BOOLEAN /\ ent.until \in Nat \cup {None, Garbled}
      BY <3>2 DEF Entitlement
    <3>4. PremiumActive(ent) => GoodAt(read[x].user, ent, read[x].began, applied)
      BY <1>0, <3>2, <3>3 DEF PremiumActive, GoodAt
    <3>5. (read[x].history /\ ~PremiumActive(ent)) => ent.until \in Nat /\ ent.until <= clock
      BY <1>0, <3>2, <3>3 DEF PremiumActive
    <3> HIDE DEF ent, r
    <3> QED
      BY <2>2, <3>1, <3>2, <3>4, <3>5 DEF ReadGood
  <2> HIDE DEF r
  <2> QED
    BY <1>0, <2>1, <2>2, <2>3, RequestMoves, Zenon
<1>4. ASSUME Respond(x)
      PROVE  SessionInv'
  <2> DEFINE limit == IF read[x].premium THEN PremiumItems ELSE FreeItems
  <2>1. PICK n \in BriefingSizes :
          read' = [read EXCEPT ![x].pc = "answered", ![x].shown = IF n <= limit THEN n ELSE limit]
    BY <1>4 DEF Respond
  <2> DEFINE r == [read[x] EXCEPT !.pc = "answered", !.shown = IF n <= limit THEN n ELSE limit]
  <2>2. Reads(x, r) /\ read[x].pc = "fetch"
    BY <1>4, <2>1 DEF Respond, Reads
  <2>3. r.pc = "answered" /\ r.began = read[x].began
    BY <2>2
  <2>4. ReadGood(r, applied, clock)
    BY <1>0, <2>2, ItemsAssumption DEF ReadGood, GoodAt
  <2> HIDE DEF r
  <2> QED
    BY <1>0, <2>2, <2>3, <2>4, RequestMoves, Zenon
<1>5. EndRead(x) => Reads(x, NoRead)
  BY DEF EndRead, Reads
<1> QED
  BY <1>1, <1>2, <1>3, <1>4, <1>5

LEMMA SessionStep ==
  ASSUME IInv, SessionInv, [SNext]_allVars
  PROVE  SessionInv'
<1>0. [Next]_vars
  BY StepIsAccounts
<1>1. ASSUME session' = session, read' = read, Later
      PROVE  SessionInv'
  <2>1. ReadsAfter
    BY <1>0, <1>1, ReadsStay
  <2>2. TimesOK'
    BY <1>1, <2>1 DEF SessionInv, TimesOK, ReadsAfter, Later
  <2>3. Refreshable'
    BY <1>1 DEF SessionInv, Refreshable
  <2> QED
    BY <2>1, <2>2, <2>3 DEF SessionInv, ReadsAfter
<1>2. CASE UNCHANGED allVars \/ Accounts \/ Tick
  <2>1. session' = session /\ read' = read /\ (clock' = clock \/ clock' = clock + 1)
    BY <1>2 DEF allVars, sessionVars, Accounts, Tick
  <2>2. Later
    BY <2>1 DEF Later, SessionInv, TimesOK
  <2> QED
    BY <1>1, <2>1, <2>2
<1> QED
  BY <1>2, SessionStepCases, TokenStep, AuthorizeStep, BriefingStep, Zenon

-----------------------------------------------------------------------------
(* The session part of the state stays sound.                              *)
THEOREM SessionInvariant == SSpec => []SessionInv
<1>1. SInit => SessionInv
  BY InitSession
<1>2. IInv /\ SessionInv /\ [SNext]_allVars => SessionInv'
  BY SessionStep
<1> QED
  BY <1>1, <1>2, SessionsAreAccounts, Invariant, PTL DEF SSpec

(* A login ends with its refresh token, however often it is refreshed      *)
(* (refresh_access).                                                       *)
THEOREM SessionsEndHolds == SSpec => []SessionsEnd
<1>1. SessionInv => SessionsEnd
  BY DEF SessionInv, Refreshable, SessionsEnd
<1> QED
  BY <1>1, SessionInvariant, PTL

(* A premium answer rests on an applied activation that had not expired    *)
(* when the request came (get_for_date).                                   *)
THEOREM PremiumReadHasSourceHolds == SSpec => []PremiumReadHasSource
<1>1. SessionInv => PremiumReadHasSource
  <2> SUFFICES ASSUME SessionInv, NEW x \in Handler, read[x].pc = "answered",
                      read[x].history \/ read[x].shown > FreeItems
               PROVE  \E e \in applied : /\ EventUser[e] = read[x].user
                                         /\ EventKind[e] = "activation"
                                         /\ \/ Expiration[e] \in {None, Garbled}
                                            \/ read[x].began < Expiration[e]
    BY DEF PremiumReadHasSource
  <2>1. ReadGood(read[x], applied, clock)
    BY DEF SessionInv, ReadsGood
  <2>2. read[x].history \/ read[x].premium
    BY <2>1, ItemsAssumption DEF ReadGood
  <2>3. GoodAt(read[x].user, read[x].ent, read[x].began, applied)
    BY <2>1, <2>2 DEF ReadGood
  <2> QED
    BY <2>3 DEF GoodAt, Granted
<1> QED
  BY <1>1, SessionInvariant, PTL

(* A request that passed the history gate loses its tier only to expiry.   *)
THEOREM TierDropsOnlyByExpiryHolds == SSpec => []TierDropsOnlyByExpiry
<1>1. SessionInv => TierDropsOnlyByExpiry
  BY NoneAssumption, GarbledAssumption
     DEF SessionInv, ReadsGood, ReadGood, GoodAt, TierDropsOnlyByExpiry
<1> QED
  BY <1>1, SessionInvariant, PTL
=============================================================================
