-------------------------------- MODULE Sessions --------------------------------
(***************************************************************************)
(* What a client may do with a login and with premium while time passes:   *)
(* the tokens that exchange_oauth issues and refresh_access renews, and    *)
(* GET /briefings, which checks the token, then the entitlement, then cuts *)
(* the briefing to the tier.  The accounts are those of UserAccounts; the  *)
(* same handlers serve these requests.                                     *)
(*                                                                         *)
(* A token is signed and stored nowhere: it is known by its user and its   *)
(* expiry.  One client is followed, with the last token of each kind that  *)
(* it was given; it has one login or refresh under way at a time.  A       *)
(* request that is refused changes nothing.                                *)
(***************************************************************************)
EXTENDS UserAccounts

CONSTANTS
  AccessTTL, RefreshTTL,   \* lifetimes of the tokens
  FreeItems, PremiumItems, \* what a tier shows of a briefing
  BriefingSizes,           \* numbers of items of stored briefings, 0 for no briefing
  MaxTime                  \* bound on the clock

ASSUME LifetimeAssumption == {AccessTTL, RefreshTTL} \subseteq Nat \ {0} /\ MaxTime \in Nat
ASSUME ItemsAssumption == {FreeItems, PremiumItems} \cup BriefingSizes \subseteq Nat

VARIABLES
  clock,    \* now
  session,  \* the client's user, the expiry of its tokens, and the times of its
            \* login and of the request that gave it its access token
  read      \* the refresh or briefing request of each handler

sessionVars == <<clock, session, read>>
allVars == <<vars, sessionVars>>

NoRead == [pc |-> "idle", user |-> None, ent |-> NoEntitlement, history |-> FALSE,
           premium |-> FALSE, shown |-> 0, began |-> 0]

SInit ==
  /\ Init
  /\ clock = 0
  /\ session = [user |-> None, access |-> 0, refresh |-> 0,
                 login |-> 0, renewed |-> 0]
  /\ read = [x \in Handler |-> NoRead]

-----------------------------------------------------------------------------
(* Tokens.                                                                 *)

(* _decode_claims takes a token until the moment it expires.               *)
Valid(expiry) == clock < expiry

(* exchange_oauth issues both tokens once the profile is saved.            *)
LoginAnswered(x) ==
  /\ h[x].kind = "login"
  /\ \A y \in Handler : read[y].pc # "refresh"
  /\ Save(x)
  /\ session' = [user |-> h[x].user, access |-> clock + AccessTTL,
                 refresh |-> clock + RefreshTTL, login |-> clock, renewed |-> clock]
  /\ UNCHANGED <<clock, read>>

Free(x) == h[x].pc = "idle" /\ read[x].pc = "idle"

Refreshing(x) ==
  read' = [read EXCEPT ![x] = [NoRead EXCEPT !.pc = "refresh", !.user = session.user, !.began = clock]]

(* Mutant: the expiry of the refresh token is not checked.                 *)
VerifyRefreshSignature(x) ==
  /\ Free(x)
  /\ \A y \in Handler : read[y].pc # "refresh"
  /\ session.user # None
  /\ Readable(session.user) # {None}
  /\ Refreshing(x)
  /\ UNCHANGED <<vars, clock, session>>

(* refresh_access verifies the refresh token and finds the user.           *)
VerifyRefresh(x) ==
  /\ Free(x)
  /\ \A y \in Handler : read[y].pc # "refresh"
  /\ session.user # None
  /\ Valid(session.refresh)
  /\ Readable(session.user) # {None}
  /\ Refreshing(x)
  /\ UNCHANGED <<vars, clock, session>>

(* It issues an access token; the refresh token stays the same.            *)
Refreshed(x) ==
  /\ read[x].pc = "refresh"
  /\ session' = [session EXCEPT !.access = clock + AccessTTL, !.renewed = read[x].began]
  /\ read' = [read EXCEPT ![x] = NoRead]
  /\ UNCHANGED <<vars, clock>>

-----------------------------------------------------------------------------
(* GET /briefings/today and GET /briefings/{date}.                         *)

(* Mutant: the stored flag is believed, as the feed does.                  *)
FlagOnly(ent) == ent.premium

(* is_premium_active at the clock of the call: no expiration, or one that  *)
(* cannot be parsed, is premium for good.                                  *)
PremiumActive(ent) == ent.premium /\ (ent.until \in {None, Garbled} \/ clock < ent.until)

(* get_current_user: the token names the user, whose profile is loaded.    *)
(* Only a request for a given date passes the history gate.                *)
Authorize(x, history) ==
  /\ Free(x)
  /\ session.user # None
  /\ Valid(session.access)
  /\ \E p \in Readable(session.user) \ {None} :
       read' = [read EXCEPT ![x] = [NoRead EXCEPT !.pc = IF history THEN "gate" ELSE "limit",
                                                  !.user = session.user, !.ent = p.ent,
                                                  !.history = history, !.began = clock]]
  /\ UNCHANGED <<vars, clock, session>>

(* Mutant: a request for a date is not checked.                            *)
GateOpen(x) ==
  /\ read[x].pc = "gate"
  /\ read' = [read EXCEPT ![x].pc = "limit"]
  /\ UNCHANGED <<vars, clock, session>>

(* require_premium_history.                                                *)
Gate(x) ==
  /\ read[x].pc = "gate"
  /\ read' = [read EXCEPT ![x] = IF PremiumActive(@.ent) THEN [@ EXCEPT !.pc = "limit"] ELSE NoRead]
  /\ UNCHANGED <<vars, clock, session>>

(* briefing_limit asks again, at a later moment.                           *)
ChooseLimit(x) ==
  /\ read[x].pc = "limit"
  /\ read' = [read EXCEPT ![x].pc = "fetch", ![x].premium = PremiumActive(read[x].ent)]
  /\ UNCHANGED <<vars, clock, session>>

(* The stored briefing, or an empty one, cut to the limit.                 *)
Respond(x) ==
  /\ read[x].pc = "fetch"
  /\ LET limit == IF read[x].premium THEN PremiumItems ELSE FreeItems
     IN \E n \in BriefingSizes :
          read' = [read EXCEPT ![x].pc = "answered", ![x].shown = IF n <= limit THEN n ELSE limit]
  /\ UNCHANGED <<vars, clock, session>>

(* The handler is done with an answered request, or the request dies.      *)
EndRead(x) ==
  /\ read[x].pc # "idle"
  /\ read' = [read EXCEPT ![x] = NoRead]
  /\ UNCHANGED <<vars, clock, session>>

-----------------------------------------------------------------------------
Tick ==
  /\ clock < MaxTime
  /\ clock' = clock + 1
  /\ UNCHANGED <<vars, session, read>>

(* The requests of UserAccounts, those of other clients and logins whose   *)
(* response is lost included.                                              *)
Accounts ==
  /\ \/ \E x \in Handler : read[x].pc = "idle" /\ (Request(x) \/ Webhook(x) \/ Die(x))
     \/ \E u \in UserId : Propagate(u) \/ Replicate(u)
  /\ UNCHANGED sessionVars

SNext ==
  \/ Accounts
  \/ Tick
  \/ \E x \in Handler :
       \/ LoginAnswered(x)
       \/ VerifyRefresh(x)
       \/ Refreshed(x)
       \/ \E history \in BOOLEAN : Authorize(x, history)
       \/ Gate(x)
       \/ ChooseLimit(x)
       \/ Respond(x)
       \/ EndRead(x)

SSpec == SInit /\ [][SNext]_allVars

-----------------------------------------------------------------------------
(* A login ends: however often it is refreshed and however late the        *)
(* answers come, the request behind an access token came before the        *)
(* refresh token of the login expired.  Refreshing prolongs no login.      *)
SessionsEnd ==
  session.user # None => session.renewed < session.login + RefreshTTL

(* However events, logins that put back old profiles, two readings of the  *)
(* clock and the request interleave: a briefing of an earlier date, or     *)
(* more of a briefing than the free tier shows, goes to a user only on an  *)
(* activation of that user that was applied and had not expired when the   *)
(* request came.                                                           *)
PremiumReadHasSource ==
  \A x \in Handler :
    (read[x].pc = "answered" /\ (read[x].history \/ read[x].shown > FreeItems)) =>
      \E e \in applied : /\ EventUser[e] = read[x].user
                         /\ EventKind[e] = "activation"
                         /\ \/ Expiration[e] \in {None, Garbled}
                            \/ read[x].began < Expiration[e]

(* The gate and the limit each ask the clock.  A request that passed the   *)
(* gate is cut to the free tier only when premium expired while it was     *)
(* served, whatever happens to the stored entitlement meanwhile.           *)
TierDropsOnlyByExpiry ==
  \A x \in Handler :
    (read[x].pc \in {"fetch", "answered"} /\ read[x].history /\ ~read[x].premium) =>
      /\ read[x].ent.until \in Nat
      /\ read[x].began < read[x].ent.until
      /\ read[x].ent.until <= clock
=============================================================================
