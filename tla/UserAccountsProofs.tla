--------------------------- MODULE UserAccountsProofs ---------------------------
(***************************************************************************)
(* Theorems about UserAccounts, for every set of users, identities, events *)
(* and handlers, with or without consistent reads.                         *)
(***************************************************************************)
EXTENDS UserAccounts, TLAPS

-----------------------------------------------------------------------------
(* The inductive invariant.                                                *)

(* Nothing deletes a user: one that a replica shows or a webhook is about  *)
(* to update exists.                                                       *)
UsersStay ==
  /\ \A u \in UserId : replica[u] # None => users[u] # None
  /\ \A x \in Handler : h[x].pc = "update" => users[h[x].user] # None

(* The flag of one profile agrees with the rest of it.                     *)
Agrees(p) == p.onboarded <=> (p.prefs /\ p.legal)

(* The entitlement of one profile comes from events of user u among these. *)
Sourced(u, p, events) ==
  /\ p.ent.premium => Granted(u, p.ent.until, events)
  /\ ~p.ent.premium => p.ent.until = None
  /\ p.ent.last # None => p.ent.last \in events /\ EventUser[p.ent.last] = u

Sound(u, p, events) == p # None => Agrees(p) /\ Sourced(u, p, events)

(* The profile that a handler is about to put, or has read for a webhook.  *)
InHand(s) == IF s.pc = "save" THEN s.copy ELSE s.base

(* Every copy of a profile is sound: the stored one, the one in the index, *)
(* the replica's and the one in the hand of a handler.                     *)
CopiesSound ==
  /\ \A u \in UserId :
       Sound(u, users[u], applied) /\ Sound(u, gsi[u], applied) /\ Sound(u, replica[u], applied)
  /\ \A x \in Handler :
       h[x].pc \in {"save", "update"} => Sound(h[x].user, InHand(h[x]), applied)

(* The profile q has all that p has.                                       *)
Keeps(p, q) == q.ent = p.ent /\ (p.legal => q.legal) /\ (p.prefs => q.prefs)

(* A handler puts nothing less than it has read.                           *)
NothingDropped ==
  \A x \in Handler :
    (h[x].pc = "save" /\ h[x].base # None) => Keeps(h[x].base, h[x].copy)

Delivering(x, e) == h[x].pc \in {"load", "update"} /\ h[x].event = e

(* An event with an id belongs to the delivery that recorded it, which has *)
(* not applied it yet.                                                     *)
OneDelivery ==
  /\ Identified \cap applied \subseteq recorded
  /\ \A x \in Handler, e \in Identified : Delivering(x, e) => e \in recorded \ applied
  /\ \A x, y \in Handler, e \in Identified : (Delivering(x, e) /\ Delivering(y, e)) => x = y

IInv == TypeOK /\ UsersStay /\ CopiesSound /\ NothingDropped /\ OneDelivery
        /\ IdentifiedAppliedOnce

-----------------------------------------------------------------------------
LEMMA StepCases ==
  ASSUME Next
  PROVE  \/ \E x \in Handler, id \in Identity : LoginKnown(x, id) \/ LoginNew(x, id)
         \/ \E x \in Handler, u \in UserId : LoadForPreferences(x, u) \/ LoadForLegal(x, u)
         \/ \E x \in Handler, e \in Event : WebhookIgnored(x, e) \/ WebhookDuplicate(x, e)
                                            \/ WebhookRecord(x, e)
         \/ \E x \in Handler : Save(x) \/ WebhookUnknownUser(x) \/ WebhookLoad(x)
                               \/ WebhookUpdate(x) \/ Die(x)
         \/ \E u \in UserId : Propagate(u) \/ Replicate(u)
BY Zenon DEF Next, Request, Webhook

(* The helpers keep profiles profiles.                                     *)
LEMMA ProfileTypes ==
  /\ \A id \in Identity : NewProfile(id) \in Profile
  /\ \A p \in Profile : SetPreferences(p) \in Profile /\ SetLegal(p) \in Profile
  /\ \A ent \in Entitlement, e \in Event : Entitled(ent, e) \in Entitlement
<1>1. \A p \in Profile : WithOnboarding(p) \in Profile
  BY DEF WithOnboarding, Profile
<1>2. \A p \in Profile : [p EXCEPT !.prefs = TRUE] \in Profile /\ [p EXCEPT !.legal = TRUE] \in Profile
  BY DEF Profile
<1>3. \A p \in Profile : SetPreferences(p) \in Profile /\ SetLegal(p) \in Profile
  BY <1>1, <1>2 DEF SetPreferences, SetLegal
<1>4. \A id \in Identity : NewProfile(id) \in Profile
  BY DEF NewProfile, NoEntitlement, Profile, Entitlement
<1>5. ASSUME NEW ent \in Entitlement, NEW e \in Event
      PROVE  Entitled(ent, e) \in Entitlement
  <2>1. EventKind[e] \in {"activation", "revocation", "other"}
    BY EventKindAssumption
  <2>2. Expiration[e] \in Nat \cup {None, Garbled}
    BY ExpirationAssumption
  <2> QED
    BY <2>1, <2>2 DEF Entitled, Entitlement
<1> QED
  BY <1>3, <1>4, <1>5

(* A handler that is about to put a copy.                                  *)
LEMMA WillSaveType ==
  ASSUME NEW kind \in Kind, NEW u \in UserId,
         NEW base \in Profile \cup {None}, NEW p \in Profile
  PROVE  /\ WillSave(kind, u, base, p) \in HandlerState
         /\ WillSave(kind, u, base, p).pc = "save"
         /\ WillSave(kind, u, base, p).user = u
         /\ WillSave(kind, u, base, p).copy = p
BY DEF WillSave, HandlerState

(* What a handler holds, by its next call.                                 *)
Holds(s) ==
  /\ s.pc \in {"save", "update"} => s.user # None
  /\ s.pc = "save" => s.copy # None
  /\ s.pc = "update" => s.base # None
  /\ s.pc \in {"load", "update"} => s.event # None
  /\ s.pc = "update" => s.user = EventUser[s.event]

LEMMA TypeStep ==
  ASSUME TypeOK, UsersStay, [Next]_vars
  PROVE  TypeOK'
<1> USE EventUserAssumption, IdentifiedAssumption, NoneAssumption
<1>0. TypeOK <=>
        /\ users \in [UserId -> Profile \cup {None}]
        /\ gsi \in [UserId -> Profile \cup {None}]
        /\ replica \in [UserId -> Profile \cup {None}]
        /\ recorded \in SUBSET Identified
        /\ applied \in SUBSET Event
        /\ reapplied \in SUBSET applied
        /\ returned \in SUBSET Event
        /\ h \in [Handler -> HandlerState]
        /\ \A x \in Handler : Holds(h[x])
  BY DEF TypeOK, Holds
<1>idle. Idle \in HandlerState /\ Holds(Idle)
  BY DEF Idle, HandlerState, Kind, Holds
(* A handler moves to a state of its type and nothing else changes type.   *)
<1>move. ASSUME NEW x \in Handler, NEW s \in HandlerState, Holds(s), h' = [h EXCEPT ![x] = s]
         PROVE  h' \in [Handler -> HandlerState] /\ \A y \in Handler : Holds(h'[y])
  BY <1>0, <1>move
<1>1. ASSUME NEW x \in Handler, NEW id \in Identity, LoginKnown(x, id) \/ LoginNew(x, id)
      PROVE  TypeOK'
  <2>1. PICK u \in UserId, base \in Profile \cup {None}, p \in Profile :
          h' = [h EXCEPT ![x] = WillSave("login", u, base, p)]
    BY <1>0, <1>1, ProfileTypes DEF LoginKnown, LoginNew
  <2>2. WillSave("login", u, base, p) \in HandlerState /\ Holds(WillSave("login", u, base, p))
    BY WillSaveType DEF Kind, Holds
  <2>3. h' \in [Handler -> HandlerState] /\ \A y \in Handler : Holds(h'[y])
    BY <1>move, <2>1, <2>2
  <2> QED
    BY <1>0, <1>1, <2>3 DEF LoginKnown, LoginNew, TypeOK, Holds
<1>2. ASSUME NEW x \in Handler, NEW u \in UserId, LoadForPreferences(x, u) \/ LoadForLegal(x, u)
      PROVE  TypeOK'
  <2>1. PICK kind \in Kind, base \in Profile, p \in Profile :
          h' = [h EXCEPT ![x] = WillSave(kind, u, base, p)]
    BY <1>0, <1>2, ProfileTypes DEF LoadForPreferences, LoadForLegal, Readable, Kind
  <2>2. WillSave(kind, u, base, p) \in HandlerState /\ Holds(WillSave(kind, u, base, p))
    BY WillSaveType DEF Holds
  <2>3. h' \in [Handler -> HandlerState] /\ \A y \in Handler : Holds(h'[y])
    BY <1>move, <2>1, <2>2
  <2> QED
    BY <1>0, <1>2, <2>3 DEF LoadForPreferences, LoadForLegal, TypeOK, Holds
<1>3. ASSUME NEW x \in Handler, NEW e \in Event, WebhookIgnored(x, e) \/ WebhookDuplicate(x, e)
      PROVE  TypeOK'
  BY <1>3 DEF WebhookIgnored, WebhookDuplicate, TypeOK
<1>4. ASSUME NEW x \in Handler, NEW e \in Event, WebhookRecord(x, e)
      PROVE  TypeOK'
  <2> DEFINE s == [Idle EXCEPT !.pc = "load", !.kind = "webhook", !.event = e]
  <2>1. s \in HandlerState /\ Holds(s)
    BY DEF Idle, HandlerState, Kind, Holds
  <2>2. h' = [h EXCEPT ![x] = s]
    BY <1>4 DEF WebhookRecord
  <2>3. h' \in [Handler -> HandlerState] /\ \A y \in Handler : Holds(h'[y])
    BY <1>move, <2>1, <2>2
  <2> QED
    BY <1>0, <1>4, <2>3 DEF WebhookRecord, TypeOK, Holds
<1>5. ASSUME NEW x \in Handler, Save(x)
      PROVE  TypeOK'
  <2>1. h[x].user \in UserId /\ h[x].copy \in Profile
    BY <1>0, <1>5 DEF Save, HandlerState, Holds
  <2>2. users' \in [UserId -> Profile \cup {None}]
    BY <1>0, <1>5, <2>1 DEF Save
  <2>3. h' \in [Handler -> HandlerState] /\ \A y \in Handler : Holds(h'[y])
    BY <1>5, <1>idle, <1>move DEF Save
  <2> QED
    BY <1>0, <1>5, <2>2, <2>3 DEF Save, TypeOK, Holds
<1>6. ASSUME NEW x \in Handler, WebhookUnknownUser(x)
      PROVE  TypeOK'
  <2>1. h' \in [Handler -> HandlerState] /\ \A y \in Handler : Holds(h'[y])
    BY <1>6, <1>idle, <1>move DEF WebhookUnknownUser
  <2>2. h[x].event \in Event
    BY <1>0, <1>6 DEF WebhookUnknownUser, HandlerState, Holds
  <2> QED
    BY <1>0, <1>6, <2>1, <2>2 DEF WebhookUnknownUser, TypeOK, Holds
<1>7. ASSUME NEW x \in Handler, WebhookLoad(x)
      PROVE  TypeOK'
  <2> DEFINE u == EventUser[h[x].event]
  <2>1. h[x].event \in Event /\ h[x].pc = "load"
    BY <1>0, <1>7 DEF WebhookLoad, HandlerState, Holds
  <2>2. u \in UserId
    BY <1>7, <2>1 DEF WebhookLoad
  <2>3. PICK p \in Profile :
          h' = [h EXCEPT ![x].pc = "update", ![x].user = u, ![x].base = p]
    BY <1>0, <1>7, <2>2 DEF WebhookLoad, Readable
  <2> DEFINE s == [h[x] EXCEPT !.pc = "update", !.user = u, !.base = p]
  <2>4. s \in HandlerState /\ Holds(s)
    <3>1. h[x] \in HandlerState /\ Holds(h[x])
      BY <1>0
    <3>2. /\ s \in HandlerState /\ s.pc = "update"
          /\ s.user = u /\ s.base = p /\ s.event = h[x].event
      BY <2>2, <3>1 DEF HandlerState
    <3>3. u # None /\ p # None /\ h[x].event # None
      BY <2>1, <2>2
    <3> QED
      BY <3>2, <3>3 DEF Holds
  <2>5. h' = [h EXCEPT ![x] = s]
    BY <2>3
  <2>6. h' \in [Handler -> HandlerState] /\ \A y \in Handler : Holds(h'[y])
    BY <1>move, <2>4, <2>5
  <2> QED
    BY <1>0, <1>7, <2>6 DEF WebhookLoad, TypeOK, Holds
<1>8. ASSUME NEW x \in Handler, WebhookUpdate(x)
      PROVE  TypeOK'
  <2> DEFINE ent == Entitled(h[x].base.ent, h[x].event)
  <2>1. h[x].user \in UserId /\ h[x].event \in Event /\ h[x].base.ent \in Entitlement
    BY <1>0, <1>8 DEF WebhookUpdate, HandlerState, Holds, Profile
  <2>2. ent \in Entitlement
    BY <2>1, ProfileTypes
  <2>3. users' = [users EXCEPT ![h[x].user].ent = ent]
    BY <1>8 DEF WebhookUpdate
  <2>4. h' \in [Handler -> HandlerState] /\ \A y \in Handler : Holds(h'[y])
    BY <1>8, <1>idle, <1>move DEF WebhookUpdate
  <2>5. users' \in [UserId -> Profile \cup {None}]
    <3>1. users[h[x].user] \in Profile
      BY <1>0, <1>8, <2>1 DEF WebhookUpdate, UsersStay
    <3>2. [users[h[x].user] EXCEPT !.ent = ent] \in Profile
      BY <2>2, <3>1 DEF Profile
    <3> QED
      BY <1>0, <2>1, <2>3, <3>2
  <2> QED
    BY <1>0, <1>8, <2>1, <2>4, <2>5 DEF WebhookUpdate, TypeOK, Holds
<1>9. ASSUME NEW x \in Handler, Die(x)
      PROVE  TypeOK'
  <2>1. h' \in [Handler -> HandlerState] /\ \A y \in Handler : Holds(h'[y])
    BY <1>9, <1>idle, <1>move DEF Die
  <2> QED
    BY <1>0, <1>9, <2>1 DEF Die, TypeOK, Holds
<1>10. ASSUME NEW u \in UserId, Propagate(u) \/ Replicate(u)
       PROVE  TypeOK'
  BY <1>10 DEF Propagate, Replicate, TypeOK
<1>11. CASE UNCHANGED vars
  BY <1>11 DEF vars, TypeOK
<1> QED
  BY <1>1, <1>2, <1>3, <1>4, <1>5, <1>6, <1>7, <1>8, <1>9, <1>10, <1>11, StepCases

-----------------------------------------------------------------------------
(* What a step does to the handlers.                                       *)
Move(x, s) == h' = [h EXCEPT ![x] = s]

(* The profile a login or an onboarding request may be about to put, and   *)
(* the one it is made from.                                                *)
Puttable(u, base, p) ==
  \/ p = gsi[u] /\ p # None /\ base = p
  \/ base = None /\ \E id \in Identity : p = NewProfile(id)
  \/ base \in Readable(u) \ {None} /\ (p = SetPreferences(base) \/ p = SetLegal(base))

HasRead(x, u, p) == [h[x] EXCEPT !.pc = "update", !.user = u, !.base = p]

LEMMA HandlerMoves ==
  ASSUME TypeOK, [Next]_vars
  PROVE  \/ h' = h
         \/ \E x \in Handler : Move(x, Idle)
         \/ \E x \in Handler, kind \in Kind, u \in UserId :
              \E base, p : Puttable(u, base, p) /\ Move(x, WillSave(kind, u, base, p))
         \/ \E x \in Handler, e \in Event : WebhookRecord(x, e)
         \/ \E x \in Handler : WebhookLoad(x)
<1> USE DEF Move, Puttable
<1>1. ASSUME NEW x \in Handler, NEW id \in Identity, LoginKnown(x, id) \/ LoginNew(x, id)
      PROVE  \E u \in UserId : \E base, p : Puttable(u, base, p) /\ Move(x, WillSave("login", u, base, p))
  BY <1>1, Zenon DEF LoginKnown, LoginNew
<1>2. ASSUME NEW x \in Handler, NEW u \in UserId, LoadForPreferences(x, u)
      PROVE  \E base, p : Puttable(u, base, p) /\ Move(x, WillSave("preferences", u, base, p))
  BY <1>2, Zenon DEF LoadForPreferences
<1>3. ASSUME NEW x \in Handler, NEW u \in UserId, LoadForLegal(x, u)
      PROVE  \E base, p : Puttable(u, base, p) /\ Move(x, WillSave("legal", u, base, p))
  BY <1>3, Zenon DEF LoadForLegal
<1>4. ASSUME NEW x \in Handler, Save(x) \/ WebhookUnknownUser(x) \/ WebhookUpdate(x) \/ Die(x)
      PROVE  Move(x, Idle)
  BY <1>4, Zenon DEF Save, WebhookUnknownUser, WebhookUpdate, Die
<1>5. ASSUME NEW x \in Handler, NEW e \in Event, WebhookIgnored(x, e) \/ WebhookDuplicate(x, e)
      PROVE  h' = h
  BY <1>5, Zenon DEF WebhookIgnored, WebhookDuplicate
<1>6. ASSUME NEW u \in UserId, Propagate(u) \/ Replicate(u)
      PROVE  h' = h
  BY <1>6, Zenon DEF Propagate, Replicate
<1>7. CASE UNCHANGED vars
  BY <1>7 DEF vars
<1>8. "login" \in Kind /\ "preferences" \in Kind /\ "legal" \in Kind
  BY DEF Kind
<1> HIDE DEF Move, Puttable
<1> QED
  BY <1>1, <1>2, <1>3, <1>4, <1>5, <1>6, <1>7, <1>8, StepCases, Zenon

(* get_by_id has found the user of an event.                               *)
LEMMA LoadedUser ==
  ASSUME TypeOK, NEW x \in Handler, WebhookLoad(x)
  PROVE  \E u \in UserId, p \in Profile :
           /\ u = EventUser[h[x].event] /\ p \in Readable(u)
           /\ h[x].pc = "load" /\ h[x].event \in Event
           /\ Move(x, HasRead(x, u, p))
<1> USE EventUserAssumption, NoneAssumption
<1> DEFINE u == EventUser[h[x].event]
<1>1. h[x].event \in Event /\ h[x].pc = "load"
  BY DEF WebhookLoad, TypeOK, HandlerState
<1>2. u \in UserId
  BY <1>1 DEF WebhookLoad
<1>3. PICK p \in Readable(u) \ {None} :
        h' = [h EXCEPT ![x].pc = "update", ![x].user = u, ![x].base = p]
  BY DEF WebhookLoad
<1>4. p \in Profile
  BY <1>2, <1>3 DEF Readable, TypeOK
<1>5. Move(x, HasRead(x, u, p))
  BY <1>3 DEF Move, HasRead
<1> QED
  BY <1>1, <1>2, <1>3, <1>4, <1>5

(* Users stay.                                                             *)
LEMMA UserKept ==
  ASSUME TypeOK, UsersStay, [Next]_vars, NEW u \in UserId, users[u] # None
  PROVE  users'[u] # None
<1> USE NoneAssumption
<1>1. CASE UNCHANGED users
  BY <1>1
<1>2. ASSUME NEW x \in Handler, Save(x)
      PROVE  users'[u] # None
  BY <1>2 DEF Save, TypeOK
<1>3. ASSUME NEW x \in Handler, WebhookUpdate(x)
      PROVE  users'[u] # None
  <2> DEFINE ent == Entitled(h[x].base.ent, h[x].event)
  <2>1. users' = [users EXCEPT ![h[x].user].ent = ent]
    BY <1>3 DEF WebhookUpdate
  <2>2. CASE h[x].user # u
    BY <2>1, <2>2 DEF TypeOK
  <2>3. CASE h[x].user = u
    <3>1. users[u] \in Profile /\ ent \in Entitlement
      <4>1. h[x].base.ent \in Entitlement /\ h[x].event \in Event
        BY <1>3 DEF WebhookUpdate, TypeOK, HandlerState, Profile
      <4> QED
        BY <4>1, ProfileTypes DEF TypeOK
    <3>2. users'[u] = [users[u] EXCEPT !.ent = ent]
      BY <2>1, <2>3 DEF TypeOK
    <3>3. [users[u] EXCEPT !.ent = ent] \in Profile
      BY <3>1 DEF Profile
    <3> QED
      BY <3>2, <3>3
  <2> QED
    BY <2>2, <2>3
<1> QED
  BY <1>1, <1>2, <1>3, StepCases DEF vars, LoginKnown, LoginNew, LoadForPreferences, LoadForLegal,
     WebhookIgnored, WebhookDuplicate, WebhookRecord, WebhookUnknownUser, WebhookLoad, Die,
     Propagate, Replicate

LEMMA StayStep ==
  ASSUME TypeOK, UsersStay, [Next]_vars
  PROVE  UsersStay'
<1>1. ASSUME NEW u \in UserId, replica'[u] # None
      PROVE  users'[u] # None
  <2>1. users[u] # None
    <3>1. CASE UNCHANGED replica
      BY <1>1, <3>1 DEF UsersStay
    <3>2. ASSUME NEW v \in UserId, Replicate(v)
          PROVE  users[u] # None
      BY <1>1, <3>2 DEF Replicate, TypeOK, UsersStay
    <3> QED
      BY <3>1, <3>2, StepCases DEF vars, LoginKnown, LoginNew, LoadForPreferences, LoadForLegal,
         WebhookIgnored, WebhookDuplicate, WebhookRecord, WebhookUnknownUser, WebhookLoad,
         WebhookUpdate, Save, Die, Propagate
  <2> QED
    BY <2>1, UserKept
<1>2. ASSUME NEW y \in Handler, h'[y].pc = "update"
      PROVE  users'[h'[y].user] # None
  <2>1. CASE h'[y] = h[y]
    <3>1. h[y].user \in UserId /\ users[h[y].user] # None
      BY <1>2, <2>1 DEF TypeOK, HandlerState, UsersStay
    <3> QED
      BY <2>1, <3>1, UserKept
  <2>2. ASSUME NEW x \in Handler, NEW s, Move(x, s), s.pc # "update"
        PROVE  users'[h'[y].user] # None
    BY <1>2, <2>1, <2>2 DEF TypeOK, Move
  <2>3. ASSUME NEW x \in Handler, WebhookLoad(x)
        PROVE  users'[h'[y].user] # None
    <3>1. PICK u \in UserId, p \in Profile : p \in Readable(u) /\ Move(x, HasRead(x, u, p))
      BY <2>3, LoadedUser
    <3>2. CASE x # y
      BY <2>1, <3>1, <3>2 DEF Move, TypeOK
    <3>3. CASE x = y
      <4>1. h'[y].user = u
        BY <3>1, <3>3 DEF Move, HasRead, TypeOK, HandlerState
      <4>2. users[u] # None
        BY <3>1, NoneAssumption DEF Readable, UsersStay
      <4> QED
        BY <4>1, <4>2, UserKept
    <3> QED
      BY <3>2, <3>3
  <2>4. ASSUME NEW x \in Handler, NEW e \in Event, WebhookRecord(x, e)
        PROVE  users'[h'[y].user] # None
    <3>1. [Idle EXCEPT !.pc = "load", !.kind = "webhook", !.event = e].pc # "update"
      BY DEF Idle
    <3> QED
      BY <2>2, <2>4, <3>1 DEF WebhookRecord, Move
  <2>5. Idle.pc # "update" /\ \A kind, u, base, p : WillSave(kind, u, base, p).pc # "update"
    BY DEF Idle, WillSave
  <2> QED
    BY <2>1, <2>2, <2>3, <2>4, <2>5, HandlerMoves
<1> QED
  BY <1>1, <1>2 DEF UsersStay

-----------------------------------------------------------------------------
(* Copies stay sound.                                                      *)
LEMMA SoundKept ==
  ASSUME applied \subseteq applied'
  PROVE  \A u, p : Sound(u, p, applied) => Sound(u, p, applied')
BY DEF Sound, Sourced, Granted, Agrees

LEMMA AppliedGrows ==
  ASSUME [Next]_vars
  PROVE  applied \subseteq applied'
BY StepCases DEF vars, LoginKnown, LoginNew, LoadForPreferences, LoadForLegal, WebhookIgnored,
   WebhookDuplicate, WebhookRecord, WebhookUnknownUser, WebhookLoad, WebhookUpdate, Save, Die,
   Propagate, Replicate

(* A changed copy of a sound profile is sound.                             *)
LEMMA PuttableSound ==
  ASSUME TypeOK, CopiesSound, NEW u \in UserId, NEW base, NEW p, Puttable(u, base, p)
  PROVE  Sound(u, p, applied)
<1> USE NoneAssumption
<1>1. CASE p = gsi[u]
  BY <1>1 DEF CopiesSound
<1>2. ASSUME NEW id \in Identity, p = NewProfile(id)
      PROVE  Sound(u, p, applied)
  BY <1>2 DEF NewProfile, NoEntitlement, Sound, Agrees, Sourced
<1>3. ASSUME base \in Readable(u) \ {None}, p = SetPreferences(base) \/ p = SetLegal(base)
      PROVE  Sound(u, p, applied)
  <2>1. base \in Profile /\ Sound(u, base, applied) /\ base # None
    BY <1>3 DEF Readable, CopiesSound, TypeOK
  <2>2. p.ent = base.ent /\ (p.onboarded <=> (p.prefs /\ p.legal))
    BY <1>3, <2>1 DEF SetPreferences, SetLegal, WithOnboarding, Profile
  <2> QED
    BY <2>1, <2>2 DEF Sound, Agrees, Sourced
<1> QED
  BY <1>1, <1>2, <1>3 DEF Puttable

(* The update of an entitlement from a sound copy leaves the profile sound. *)
LEMMA UpdateSound ==
  ASSUME TypeOK, UsersStay, CopiesSound, NEW x \in Handler, WebhookUpdate(x)
  PROVE  Sound(h[x].user, users'[h[x].user], applied')
<1> DEFINE u == h[x].user
           e == h[x].event
           ent == Entitled(h[x].base.ent, e)
<1>1. /\ u \in UserId /\ e \in Event /\ u = EventUser[e]
      /\ h[x].base \in Profile /\ Sound(u, h[x].base, applied) /\ h[x].base # None
  BY NoneAssumption DEF WebhookUpdate, TypeOK, HandlerState, CopiesSound, InHand
<1>2. users[u] \in Profile /\ Sound(u, users[u], applied)
  BY <1>1 DEF WebhookUpdate, UsersStay, TypeOK, CopiesSound
<1>3. users'[u] = [users[u] EXCEPT !.ent = ent]
  BY <1>1 DEF WebhookUpdate, TypeOK
<1>4. ent \in Entitlement
  BY <1>1, ProfileTypes DEF Profile
<1>5. Agrees(users'[u]) /\ users'[u].ent = ent
  <2>1. users[u] # None /\ Agrees(users[u])
    BY <1>2, NoneAssumption DEF Sound
  <2>2. /\ users'[u].ent = ent /\ users'[u].onboarded = users[u].onboarded
        /\ users'[u].prefs = users[u].prefs /\ users'[u].legal = users[u].legal
    BY <1>2, <1>3 DEF Profile
  <2> QED
    BY <2>1, <2>2 DEF Agrees
<1>6. applied' = applied \cup {e}
  BY DEF WebhookUpdate
<1>7. ent.last = e
  BY DEF Entitled
<1> DEFINE old == h[x].base.ent
<1>8. old.premium => Granted(u, old.until, applied')
  BY <1>1, <1>6 DEF Sound, Sourced, Granted
<1>9. ~old.premium => old.until = None
  BY <1>1 DEF Sound, Sourced
<1>10. /\ ent.premium => Granted(u, ent.until, applied')
       /\ ~ent.premium => ent.until = None
  <2>1. CASE EventKind[e] = "activation"
    <3>1. ent.premium /\ (Expiration[e] # None => ent.until = Expiration[e])
          /\ (Expiration[e] = None => ent.until = old.until)
      BY <2>1 DEF Entitled
    <3>2. Granted(u, Expiration[e], applied')
      BY <1>1, <1>6, <2>1 DEF Granted
    <3> QED
      BY <1>8, <1>9, <3>1, <3>2
  <2>2. CASE EventKind[e] = "revocation"
    BY <2>2 DEF Entitled
  <2>3. CASE EventKind[e] = "other"
    BY <1>8, <1>9, <2>3 DEF Entitled
  <2> QED
    BY <1>1, <2>1, <2>2, <2>3, EventKindAssumption
<1> QED
  BY <1>1, <1>5, <1>6, <1>7, <1>10 DEF Sound, Sourced, Agrees

LEMMA CopiesStep ==
  ASSUME TypeOK, UsersStay, CopiesSound, [Next]_vars
  PROVE  CopiesSound'
<1>0. \A u, p : Sound(u, p, applied) => Sound(u, p, applied')
  BY AppliedGrows, SoundKept
<1>1. ASSUME NEW u \in UserId
      PROVE  Sound(u, users'[u], applied')
  <2>1. CASE users'[u] = users[u]
    BY <1>0, <2>1 DEF CopiesSound
  <2>2. ASSUME NEW x \in Handler, Save(x)
        PROVE  Sound(u, users'[u], applied')
    <3>1. CASE h[x].user # u
      BY <2>1, <2>2, <3>1 DEF Save, TypeOK
    <3>2. CASE h[x].user = u
      <4>1. users'[u] = h[x].copy /\ Sound(u, h[x].copy, applied)
        BY <2>2, <3>2 DEF Save, TypeOK, CopiesSound, InHand
      <4> QED
        BY <1>0, <4>1
    <3> QED
      BY <3>1, <3>2
  <2>3. ASSUME NEW x \in Handler, WebhookUpdate(x)
        PROVE  Sound(u, users'[u], applied')
    <3>1. CASE h[x].user # u
      BY <2>1, <2>3, <3>1 DEF WebhookUpdate, TypeOK
    <3>2. CASE h[x].user = u
      BY <2>3, <3>2, UpdateSound
    <3> QED
      BY <3>1, <3>2
  <2> QED
    BY <2>1, <2>2, <2>3, StepCases DEF vars, LoginKnown, LoginNew, LoadForPreferences,
       LoadForLegal, WebhookIgnored, WebhookDuplicate, WebhookRecord, WebhookUnknownUser,
       WebhookLoad, Die, Propagate, Replicate
<1>2. ASSUME NEW u \in UserId
      PROVE  Sound(u, gsi'[u], applied') /\ Sound(u, replica'[u], applied')
  <2>1. gsi'[u] = gsi[u] \/ gsi'[u] = users[u]
    BY StepCases DEF TypeOK, vars, LoginKnown, LoginNew, LoadForPreferences, LoadForLegal,
       WebhookIgnored, WebhookDuplicate, WebhookRecord, WebhookUnknownUser, WebhookLoad,
       WebhookUpdate, Save, Die, Propagate, Replicate
  <2>2. replica'[u] = replica[u] \/ replica'[u] = users[u]
    BY StepCases DEF TypeOK, vars, LoginKnown, LoginNew, LoadForPreferences, LoadForLegal,
       WebhookIgnored, WebhookDuplicate, WebhookRecord, WebhookUnknownUser, WebhookLoad,
       WebhookUpdate, Save, Die, Propagate, Replicate
  <2> QED
    BY <1>0, <2>1, <2>2 DEF CopiesSound
<1>3. ASSUME NEW y \in Handler, h'[y].pc \in {"save", "update"}
      PROVE  Sound(h'[y].user, InHand(h'[y]), applied')
  <2>1. CASE h'[y] = h[y]
    BY <1>0, <1>3, <2>1 DEF CopiesSound
  <2>2. ASSUME NEW x \in Handler, NEW s, Move(x, s),
               s.pc \in {"save", "update"} => Sound(s.user, InHand(s), applied)
        PROVE  Sound(h'[y].user, InHand(h'[y]), applied')
    <3>1. h'[y] = h[y] \/ h'[y] = s
      BY <2>2 DEF Move, TypeOK
    <3> QED
      BY <1>0, <1>3, <2>1, <2>2, <3>1
  <2>3. ASSUME NEW x \in Handler, NEW kind \in Kind, NEW u \in UserId, NEW base, NEW p,
               Puttable(u, base, p), Move(x, WillSave(kind, u, base, p))
        PROVE  Sound(h'[y].user, InHand(h'[y]), applied')
    <3>1. WillSave(kind, u, base, p).user = u /\ InHand(WillSave(kind, u, base, p)) = p
      BY DEF WillSave, InHand
    <3>2. Sound(u, p, applied)
      BY <2>3, PuttableSound
    <3> QED
      BY <2>2, <2>3, <3>1, <3>2
  <2>4. ASSUME NEW x \in Handler, WebhookLoad(x)
        PROVE  Sound(h'[y].user, InHand(h'[y]), applied')
    <3>1. PICK u \in UserId, p \in Profile : p \in Readable(u) /\ Move(x, HasRead(x, u, p))
      BY <2>4, LoadedUser
    <3>2. HasRead(x, u, p).user = u /\ InHand(HasRead(x, u, p)) = p
      BY DEF HasRead, TypeOK, HandlerState, InHand
    <3>3. Sound(u, p, applied)
      BY <3>1 DEF Readable, CopiesSound
    <3> QED
      BY <2>2, <3>1, <3>2, <3>3
  <2>5. ASSUME NEW x \in Handler, NEW e \in Event, WebhookRecord(x, e)
        PROVE  Sound(h'[y].user, InHand(h'[y]), applied')
    <3>1. [Idle EXCEPT !.pc = "load", !.kind = "webhook", !.event = e].pc = "load"
      BY DEF Idle
    <3> QED
      BY <2>2, <2>5, <3>1 DEF WebhookRecord, Move
  <2>6. Idle.pc = "idle"
    BY DEF Idle
  <2> QED
    BY <2>1, <2>2, <2>3, <2>4, <2>5, <2>6, HandlerMoves
<1> QED
  BY <1>1, <1>2, <1>3 DEF CopiesSound

(* What a handler puts has all that it read.                               *)
LEMMA SettersKeep ==
  \A p \in Profile : Keeps(p, p) /\ Keeps(p, SetPreferences(p)) /\ Keeps(p, SetLegal(p))
BY DEF Keeps, SetPreferences, SetLegal, WithOnboarding, Profile

LEMMA DroppedStep ==
  ASSUME TypeOK, NothingDropped, [Next]_vars
  PROVE  NothingDropped'
<1> SUFFICES ASSUME NEW y \in Handler, h'[y].pc = "save", h'[y].base # None
             PROVE  Keeps(h'[y].base, h'[y].copy)
  BY DEF NothingDropped
<1> USE NoneAssumption
<1>1. CASE h'[y] = h[y]
  BY <1>1 DEF NothingDropped
<1>2. ASSUME NEW x \in Handler, NEW s, Move(x, s),
             s.pc = "save" /\ s.base # None => Keeps(s.base, s.copy)
      PROVE  Keeps(h'[y].base, h'[y].copy)
  <2>1. h'[y] = h[y] \/ h'[y] = s
    BY <1>2 DEF Move, TypeOK
  <2> QED
    BY <1>1, <1>2, <2>1
<1>3. ASSUME NEW x \in Handler, NEW kind \in Kind, NEW u \in UserId, NEW base, NEW p,
             Puttable(u, base, p), Move(x, WillSave(kind, u, base, p))
      PROVE  Keeps(h'[y].base, h'[y].copy)
  <2>1. WillSave(kind, u, base, p).base = base /\ WillSave(kind, u, base, p).copy = p
    BY DEF WillSave
  <2>2. base # None => base \in Profile
    BY <1>3 DEF Puttable, Readable, TypeOK
  <2>3. base # None => Keeps(base, p)
    BY <1>3, <2>2, SettersKeep DEF Puttable
  <2> QED
    BY <1>2, <1>3, <2>1, <2>3
<1>4. ASSUME NEW x \in Handler, WebhookLoad(x)
      PROVE  Keeps(h'[y].base, h'[y].copy)
  <2>1. PICK u \in UserId, p \in Profile : Move(x, HasRead(x, u, p))
    BY <1>4, LoadedUser
  <2>2. HasRead(x, u, p).pc = "update"
    BY DEF HasRead, TypeOK, HandlerState
  <2> QED
    BY <1>2, <2>1, <2>2
<1>5. ASSUME NEW x \in Handler, NEW e \in Event, WebhookRecord(x, e)
      PROVE  Keeps(h'[y].base, h'[y].copy)
  <2>1. [Idle EXCEPT !.pc = "load", !.kind = "webhook", !.event = e].pc = "load"
    BY DEF Idle
  <2> QED
    BY <1>2, <1>5, <2>1 DEF WebhookRecord, Move
<1>6. Idle.pc = "idle"
  BY DEF Idle
<1> QED
  BY <1>1, <1>2, <1>3, <1>4, <1>5, <1>6, HandlerMoves

-----------------------------------------------------------------------------
(* A delivery is the only one for its event.                               *)

(* No handler but x starts to deliver, and x delivers what it delivered or *)
(* what it has just recorded.                                              *)
LEMMA DeliveryMoves ==
  ASSUME TypeOK, [Next]_vars, NEW y \in Handler, NEW e \in Event, Delivering(y, e)'
  PROVE  Delivering(y, e) \/ WebhookRecord(y, e)
<1>1. CASE h'[y] = h[y]
  BY <1>1 DEF Delivering
<1>2. ASSUME NEW x \in Handler, NEW s, Move(x, s), s.pc \notin {"load", "update"}
      PROVE  Delivering(y, e)
  BY <1>1, <1>2 DEF Move, TypeOK, Delivering
<1>3. ASSUME NEW x \in Handler, NEW f \in Event, WebhookRecord(x, f)
      PROVE  Delivering(y, e) \/ WebhookRecord(y, e)
  <2> DEFINE s == [Idle EXCEPT !.pc = "load", !.kind = "webhook", !.event = f]
  <2>1. h' = [h EXCEPT ![x] = s] /\ s.event = f
    BY <1>3 DEF WebhookRecord, Idle
  <2>2. CASE x # y
    BY <1>1, <2>1, <2>2 DEF TypeOK
  <2>3. CASE x = y
    BY <1>3, <2>1, <2>3 DEF TypeOK, Delivering
  <2> QED
    BY <2>2, <2>3
<1>4. ASSUME NEW x \in Handler, WebhookLoad(x)
      PROVE  Delivering(y, e)
  <2>1. PICK u, p : Move(x, HasRead(x, u, p)) /\ h[x].pc = "load"
    BY <1>4, LoadedUser
  <2>2. HasRead(x, u, p).event = h[x].event
    BY DEF HasRead, TypeOK, HandlerState
  <2> QED
    BY <1>1, <2>1, <2>2 DEF Move, TypeOK, Delivering
<1>5. Idle.pc = "idle" /\ \A kind, u, base, p : WillSave(kind, u, base, p).pc = "save"
  BY DEF Idle, WillSave
<1> QED
  BY <1>1, <1>2, <1>3, <1>4, <1>5, HandlerMoves

LEMMA DeliveryStep ==
  ASSUME TypeOK, OneDelivery, IdentifiedAppliedOnce, [Next]_vars
  PROVE  OneDelivery' /\ IdentifiedAppliedOnce'
<1> USE IdentifiedAssumption DEF OneDelivery, IdentifiedAppliedOnce
<1>0. \A y \in Handler, e \in Event : Delivering(y, e)' => (Delivering(y, e) \/ WebhookRecord(y, e))
  BY DeliveryMoves
<1>1. ASSUME NEW x \in Handler, NEW e \in Event, WebhookRecord(x, e)
      PROVE  OneDelivery' /\ IdentifiedAppliedOnce'
  <2>1. /\ recorded' = recorded \cup ({e} \cap Identified) /\ e \notin recorded
        /\ UNCHANGED <<applied, reapplied>>
    BY <1>1 DEF WebhookRecord
  <2>2. e \in Identified => \A y \in Handler : ~Delivering(y, e)
    BY <2>1
  <2>3. \A y \in Handler, f \in Event : WebhookRecord(y, f) => y = x /\ f = e
    <3>1. \A y \in Handler, f \in Event :
            WebhookRecord(y, f) => /\ h[y].pc = "idle" /\ h'[y].pc = "load" /\ h'[y].event = f
                                   /\ \A z \in Handler : z # y => h'[z] = h[z]
      BY DEF WebhookRecord, Idle, TypeOK
    <3> QED
      BY <1>1, <3>1
  <2>4. (Identified \cap applied \subseteq recorded)'
    BY <2>1
  <2>5. ASSUME NEW y \in Handler, NEW f \in Identified, Delivering(y, f)'
        PROVE  f \in recorded' \ applied'
    BY <1>0, <2>1, <2>3, <2>5
  <2>6. ASSUME NEW y \in Handler, NEW z \in Handler, NEW f \in Identified,
               Delivering(y, f)', Delivering(z, f)'
        PROVE  y = z
    BY <1>0, <2>2, <2>3, <2>6
  <2> QED
    BY <2>1, <2>4, <2>5, <2>6
<1>2. ASSUME NEW x \in Handler, WebhookUpdate(x)
      PROVE  OneDelivery' /\ IdentifiedAppliedOnce'
  <2> DEFINE e == h[x].event
  <2>1. /\ applied' = applied \cup {e} /\ recorded' = recorded
        /\ reapplied' = reapplied \cup (applied \cap {e})
        /\ h' = [h EXCEPT ![x] = Idle] /\ Delivering(x, e)
    BY <1>2 DEF WebhookUpdate, Delivering
  <2>2. e \in Event
    BY <1>2 DEF WebhookUpdate, TypeOK, HandlerState
  <2>3. e \in Identified => e \in recorded \ applied
    BY <2>1
  <2>4. \A y \in Handler, f \in Event : Delivering(y, f)' => Delivering(y, f) /\ y # x
    BY <2>1 DEF Delivering, Idle, TypeOK
  <2>5. ASSUME NEW y \in Handler, NEW f \in Identified, Delivering(y, f)'
        PROVE  f \in recorded' \ applied'
    <3>1. Delivering(y, f) /\ y # x
      BY <2>4, <2>5
    <3>2. f # e
      BY <2>1, <3>1
    <3> QED
      BY <2>1, <3>1, <3>2
  <2> QED
    BY <2>1, <2>3, <2>4, <2>5
<1>3. CASE /\ UNCHANGED <<recorded, applied, reapplied>>
           /\ \A y \in Handler, f \in Event : ~WebhookRecord(y, f)
  BY <1>0, <1>3
<1>4. \/ \E x \in Handler, e \in Event : WebhookRecord(x, e)
      \/ \E x \in Handler : WebhookUpdate(x)
      \/ UNCHANGED <<recorded, applied, reapplied>>
  BY StepCases DEF vars, LoginKnown, LoginNew, LoadForPreferences, LoadForLegal, WebhookIgnored,
     WebhookDuplicate, WebhookUnknownUser, WebhookLoad, Save, Die, Propagate, Replicate
<1> QED
  BY <1>1, <1>2, <1>3, <1>4

-----------------------------------------------------------------------------
(* The invariant holds of the specification.                               *)
LEMMA InitInvariant ==
  ASSUME Init
  PROVE  IInv
<1>1. TypeOK
  BY DEF Init, TypeOK, Idle, HandlerState, Kind
<1>2. UsersStay /\ CopiesSound /\ NothingDropped
  BY DEF Init, UsersStay, CopiesSound, NothingDropped, Sound, Idle
<1>3. OneDelivery /\ IdentifiedAppliedOnce
  BY DEF Init, OneDelivery, Delivering, IdentifiedAppliedOnce, Idle
<1> QED
  BY <1>1, <1>2, <1>3 DEF IInv

THEOREM Invariant == Spec => []IInv
<1>1. IInv /\ [Next]_vars => IInv'
  BY TypeStep, StayStep, CopiesStep, DroppedStep, DeliveryStep DEF IInv
<1> QED
  BY <1>1, InitInvariant, PTL DEF Spec

(* Every variable keeps its type.                                          *)
THEOREM TypeCorrect == Spec => []TypeOK
<1>1. IInv => TypeOK
  BY DEF IInv
<1> QED
  BY <1>1, Invariant, PTL

(* onboarding_completed never disagrees with the profile it is stored in.  *)
THEOREM OnboardedIffBothHolds == Spec => []OnboardedIffBoth
<1>1. IInv => OnboardedIffBoth
  BY DEF IInv, CopiesSound, Sound, Agrees, OnboardedIffBoth
<1> QED
  BY <1>1, Invariant, PTL

(* No interleaving of stale copies invents an entitlement or gives it to   *)
(* another user.                                                           *)
THEOREM EntitlementHasSourceHolds == Spec => []EntitlementHasSource
<1>1. IInv => EntitlementHasSource
  BY DEF IInv, CopiesSound, Sound, Sourced, EntitlementHasSource
<1> QED
  BY <1>1, Invariant, PTL

(* Any number of deliveries of an event with an id update its user at most *)
(* once.                                                                   *)
THEOREM IdentifiedAppliedOnceHolds == Spec => []IdentifiedAppliedOnce
<1>1. IInv => IdentifiedAppliedOnce
  BY DEF IInv
<1> QED
  BY <1>1, Invariant, PTL

-----------------------------------------------------------------------------
(* A handler that undoes something of the stored profile has written from  *)
(* another one.                                                            *)
LEMMA UndoStep ==
  ASSUME IInv, [Next]_vars, NEW x \in Handler, NEW u \in UserId,
         h'[x] # h[x], users[u] # None, Undoes(x, u)
  PROVE  /\ h[x].user = u /\ h[x].base # users[u]
         /\ TakesBack(u) => h[x].pc = "save"
<1> USE NoneAssumption
<1>1. TypeOK /\ UsersStay /\ NothingDropped /\ users[u] \in Profile
  BY DEF IInv, TypeOK
<1>2. users'[u] # users[u]
  BY DEF Undoes, TakesBack
<1>3. ASSUME NEW y \in Handler, h' = [h EXCEPT ![y] = Idle]
      PROVE  y = x
  BY <1>1, <1>3 DEF TypeOK
<1>4. ASSUME NEW y \in Handler, Save(y)
      PROVE  /\ h[x].user = u /\ h[x].base # users[u]
             /\ h[x].pc = "save"
  <2>1. y = x
    BY <1>3, <1>4 DEF Save
  <2>2. h[x].user = u /\ h[x].pc = "save" /\ users'[u] = h[x].copy
    BY <1>1, <1>2, <1>4, <2>1 DEF Save, TypeOK
  <2>3. ~Keeps(users[u], h[x].copy)
    BY <2>2 DEF Undoes, TakesBack, Keeps
  <2> QED
    BY <1>1, <2>2, <2>3 DEF NothingDropped
<1>5. ASSUME NEW y \in Handler, WebhookUpdate(y)
      PROVE  h[x].user = u /\ h[x].base # users[u] /\ ~TakesBack(u)
  <2>1. y = x
    BY <1>3, <1>5 DEF WebhookUpdate
  <2> DEFINE ent == Entitled(h[x].base.ent, h[x].event)
  <2>2. h[x].pc = "update" /\ users' = [users EXCEPT ![h[x].user].ent = ent]
    BY <1>5, <2>1 DEF WebhookUpdate
  <2>3. h[x].user = u
    BY <1>1, <1>2, <2>2 DEF TypeOK
  <2>4. users'[u] = [users[u] EXCEPT !.ent = ent]
    BY <1>1, <2>2, <2>3 DEF TypeOK
  <2>5. ~TakesBack(u) /\ users'[u].ent = ent
    BY <1>1, <2>4 DEF TakesBack, Profile
  <2>6. EventKind[h[x].event] = "other" /\ ent.premium # users[u].ent.premium
    BY <2>2, <2>5 DEF Undoes
  <2>7. ent.premium = h[x].base.ent.premium
    BY <2>6 DEF Entitled
  <2> QED
    BY <2>3, <2>5, <2>6, <2>7
<1>6. \/ users' = users
      \/ \E y \in Handler : Save(y) \/ WebhookUpdate(y)
  BY StepCases DEF vars, LoginKnown, LoginNew, LoadForPreferences, LoadForLegal, WebhookIgnored,
     WebhookDuplicate, WebhookRecord, WebhookUnknownUser, WebhookLoad, Die, Propagate, Replicate
<1> QED
  BY <1>2, <1>4, <1>5, <1>6

(* With any number of handlers, lagging reads and logins: an acceptance, a *)
(* preference or an entitlement is lost only to a write from a profile     *)
(* that was not the stored one, and a webhook loses none of the first two. *)
THEOREM UndoneOnlyByStaleCopyHolds == Spec => UndoneOnlyByStaleCopy
<1>1. IInv /\ [Next]_vars =>
        [\A x \in Handler, u \in UserId :
           (h'[x] # h[x] /\ users[u] # None /\ Undoes(x, u)) =>
             /\ h[x].user = u /\ h[x].base # users[u]
             /\ TakesBack(u) => h[x].pc = "save"]_vars
  BY UndoStep
<1> QED
  BY <1>1, Invariant, PTL DEF Spec, UndoneOnlyByStaleCopy
=============================================================================
