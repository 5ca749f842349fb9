------------------------------ MODULE UserAccounts ------------------------------
(***************************************************************************)
(* The users table and everything that writes it: OAuth login, the two     *)
(* onboarding requests and the RevenueCat webhook.  Every request is a     *)
(* read followed by a write of what was read: login and onboarding put the *)
(* whole profile back, the webhook sets the entitlement attributes only.   *)
(* Requests are served by any number of handlers (threads, Lambdas) that   *)
(* interleave between their calls and may die between two of them.         *)
(*                                                                         *)
(* Login finds the user through GSI1, a copy of the table that DynamoDB    *)
(* brings up to date later and that projects every attribute.  get_by_id   *)
(* does not ask for consistent reads, so DynamoDB may answer it from a     *)
(* replica that lags too; ConsistentReads is for a store that never does.  *)
(***************************************************************************)
EXTENDS Naturals, FiniteSets

CONSTANTS
  Identity,      \* (provider, provider_user_id) pairs
  UserId,        \* user ids; new_user_id draws a fresh one
  Event,         \* RevenueCat events
  EventUser,     \* the app_user_id of each event, None when it has none
  EventKind,     \* the class of its type
  Expiration,    \* the expiration each event states, None when it has none
  Garbled,       \* an expires_date that is stored and cannot be parsed
  Identified,    \* the events that carry an id
  Ignored,       \* the sandbox events, in production
  Onboarding,    \* the onboarding requests that are made
  Handler,       \* request handlers
  ConsistentReads, \* get_by_id returns the latest profile
  None           \* no user, no event, no profile

ASSUME EventUserAssumption == EventUser \in [Event -> UserId \cup {None}]
ASSUME EventKindAssumption == EventKind \in [Event -> {"activation", "revocation", "other"}]
ASSUME ExpirationAssumption == Expiration \in [Event -> Nat \cup {None, Garbled}]
ASSUME OnboardingAssumption == Onboarding \subseteq {"preferences", "legal"}
ASSUME IdentifiedAssumption == Identified \subseteq Event /\ Ignored \subseteq Event
ASSUME ConsistentReadsAssumption == ConsistentReads \in BOOLEAN

(* premium_active, premium_expires_at and premium_last_event_id.           *)
Entitlement == [premium : BOOLEAN, until : Nat \cup {None, Garbled}, last : Event \cup {None}]

(* A profile: whether lang and sleep_window are set, whether terms and     *)
(* privacy are accepted (the two are always set together), the stored      *)
(* onboarding_completed flag and the entitlement.                          *)
Profile == [identity : Identity, prefs : BOOLEAN, legal : BOOLEAN,
            onboarded : BOOLEAN, ent : Entitlement]

ASSUME NoneAssumption == None \notin UserId \cup Event \cup Profile \cup Nat
ASSUME GarbledAssumption == Garbled \notin Nat \cup {None}

VARIABLES
  users,      \* the profile of each user id, None when there is none
  replica,    \* the copy of it that get_by_id may read
  gsi,        \* the copy of it in the provider index
  recorded,   \* ids in the webhook idempotency table
  applied,    \* events whose entitlement update was made
  reapplied,  \* events whose update was made more than once
  returned,   \* events for which the webhook has answered 200
  h           \* what each handler is doing

vars == <<users, gsi, replica, recorded, applied, reapplied, returned, h>>

Kind == {"login", "preferences", "legal", "webhook"}
Idle == [pc |-> "idle", kind |-> "login", user |-> None,
         base |-> None, copy |-> None, event |-> None]

NoEntitlement == [premium |-> FALSE, until |-> None, last |-> None]
NewProfile(id) == [identity |-> id, prefs |-> FALSE, legal |-> FALSE,
                   onboarded |-> FALSE, ent |-> NoEntitlement]

Init ==
  /\ users = [u \in UserId |-> None]
  /\ gsi = [u \in UserId |-> None]
  /\ replica = [u \in UserId |-> None]
  /\ recorded = {}
  /\ applied = {}
  /\ reapplied = {}
  /\ returned = {}
  /\ h = [x \in Handler |-> Idle]

-----------------------------------------------------------------------------
(* Login and onboarding.                                                   *)

(* The handler will put this copy, made from the profile that it has read, *)
(* None for a user it has not found.                                       *)
WillSave(kind, u, base, copy) ==
  [pc |-> "save", kind |-> kind, user |-> u, base |-> base, copy |-> copy, event |-> None]

(* get_or_create_from_oauth_identity finds the user in the index; of       *)
(* several, the query's Limit of 1 returns any.                            *)
LoginKnown(x, id) ==
  /\ h[x].pc = "idle"
  /\ \E u \in UserId :
       /\ gsi[u] # None
       /\ gsi[u].identity = id
       /\ h' = [h EXCEPT ![x] = WillSave("login", u, gsi[u], gsi[u])]
  /\ UNCHANGED <<users, gsi, replica, recorded, applied, reapplied, returned>>

Fresh(u) ==
  /\ users[u] = None
  /\ \A y \in Handler : h[y].user # u

(* It finds none and makes a new profile under a fresh id.                 *)
LoginNew(x, id) ==
  /\ h[x].pc = "idle"
  /\ \A u \in UserId : gsi[u] # None => gsi[u].identity # id
  /\ \E u \in UserId :
       /\ Fresh(u)
       /\ h' = [h EXCEPT ![x] = WillSave("login", u, None, NewProfile(id))]
  /\ UNCHANGED <<users, gsi, replica, recorded, applied, reapplied, returned>>

(* Mutant: one of the two is enough.                                       *)
WithOnboardingEither(p) == [p EXCEPT !.onboarded = p.prefs \/ p.legal]

(* _is_onboarding_complete, recomputed from the profile about to be saved. *)
WithOnboarding(p) == [p EXCEPT !.onboarded = p.prefs /\ p.legal]

SetPreferences(p) == WithOnboarding([p EXCEPT !.prefs = TRUE])

SetLegal(p) == WithOnboarding([p EXCEPT !.legal = TRUE])

(* What get_by_id may return for a user id.                                *)
Readable(u) == IF ConsistentReads THEN {users[u]} ELSE {users[u], replica[u]}

(* get_current_user loads the profile, update_preferences changes the copy. *)
LoadForPreferences(x, u) ==
  /\ h[x].pc = "idle"
  /\ "preferences" \in Onboarding
  /\ \E p \in Readable(u) \ {None} :
       h' = [h EXCEPT ![x] = WillSave("preferences", u, p, SetPreferences(p))]
  /\ UNCHANGED <<users, gsi, replica, recorded, applied, reapplied, returned>>

LoadForLegal(x, u) ==
  /\ h[x].pc = "idle"
  /\ "legal" \in Onboarding
  /\ \E p \in Readable(u) \ {None} :
       h' = [h EXCEPT ![x] = WillSave("legal", u, p, SetLegal(p))]
  /\ UNCHANGED <<users, gsi, replica, recorded, applied, reapplied, returned>>

(* DynamoUserRepository.save: a put on condition that there is no item,    *)
(* and when there is one, the same put without the condition.              *)
Save(x) ==
  /\ h[x].pc = "save"
  /\ users' = [users EXCEPT ![h[x].user] = h[x].copy]
  /\ h' = [h EXCEPT ![x] = Idle]
  /\ UNCHANGED <<gsi, replica, recorded, applied, reapplied, returned>>

-----------------------------------------------------------------------------
(* The RevenueCat webhook: process_webhook.                                *)

(* The sandbox filter comes before anything is recorded.                   *)
WebhookIgnored(x, e) ==
  /\ h[x].pc = "idle"
  /\ e \in Ignored
  /\ returned' = returned \cup {e}
  /\ UNCHANGED <<users, gsi, replica, recorded, applied, reapplied, h>>

(* record_event_once finds the id there: the event is a duplicate, 200.    *)
WebhookDuplicate(x, e) ==
  /\ h[x].pc = "idle"
  /\ e \notin Ignored
  /\ e \in recorded
  /\ returned' = returned \cup {e}
  /\ UNCHANGED <<users, gsi, replica, recorded, applied, reapplied, h>>

(* Mutant: the id is put without the condition that it is new.             *)
WebhookRecordAlways(x, e) ==
  /\ h[x].pc = "idle"
  /\ e \notin Ignored
  /\ recorded' = recorded \cup ({e} \cap Identified)
  /\ h' = [h EXCEPT ![x] = [Idle EXCEPT !.pc = "load", !.kind = "webhook", !.event = e]]
  /\ UNCHANGED <<users, gsi, replica, applied, reapplied, returned>>

(* It records the id, or the event has none; the user is read next.        *)
WebhookRecord(x, e) ==
  /\ h[x].pc = "idle"
  /\ e \notin Ignored
  /\ e \notin recorded
  /\ recorded' = recorded \cup ({e} \cap Identified)
  /\ h' = [h EXCEPT ![x] = [Idle EXCEPT !.pc = "load", !.kind = "webhook", !.event = e]]
  /\ UNCHANGED <<users, gsi, replica, applied, reapplied, returned>>

(* The event names no user, or get_by_id finds none: nothing to update.    *)
WebhookUnknownUser(x) ==
  /\ h[x].pc = "load"
  /\ LET u == EventUser[h[x].event] IN u # None => None \in Readable(u)
  /\ returned' = returned \cup {h[x].event}
  /\ h' = [h EXCEPT ![x] = Idle]
  /\ UNCHANGED <<users, gsi, replica, recorded, applied, reapplied>>

(* Mutant: the profile is kept, whose it is is not.                        *)
WebhookLoadForgetsUser(x) ==
  /\ h[x].pc = "load"
  /\ LET u == EventUser[h[x].event] IN
       /\ u # None
       /\ \E p \in Readable(u) \ {None} :
            h' = [h EXCEPT ![x].pc = "update", ![x].base = p]
  /\ UNCHANGED <<users, gsi, replica, recorded, applied, reapplied, returned>>

WebhookLoad(x) ==
  /\ h[x].pc = "load"
  /\ LET u == EventUser[h[x].event] IN
       /\ u # None
       /\ \E p \in Readable(u) \ {None} :
            h' = [h EXCEPT ![x].pc = "update", ![x].user = u, ![x].base = p]
  /\ UNCHANGED <<users, gsi, replica, recorded, applied, reapplied, returned>>

(* Mutant: an event of another type grants premium.                        *)
EntitledByAnything(ent, e) ==
  [premium |-> EventKind[e] # "revocation", until |-> ent.until, last |-> e]

(* _with_metadata: the snapshot to write for an event, from the one read.  *)
(* An activation that states no expiration keeps the one there was.        *)
Entitled(ent, e) ==
  CASE EventKind[e] = "activation" ->
         [premium |-> TRUE,
          until |-> IF Expiration[e] # None THEN Expiration[e] ELSE ent.until,
          last |-> e]
    [] EventKind[e] = "revocation" -> [premium |-> FALSE, until |-> None, last |-> e]
    [] OTHER -> [premium |-> ent.premium, until |-> ent.until, last |-> e]

(* Mutant: the profile that was read is put back with the new entitlement. *)
WebhookPut(x) ==
  /\ h[x].pc = "update"
  /\ users' = [users EXCEPT ![h[x].user] =
                 [h[x].base EXCEPT !.ent = Entitled(@, h[x].event)]]
  /\ applied' = applied \cup {h[x].event}
  /\ reapplied' = reapplied \cup (applied \cap {h[x].event})
  /\ returned' = returned \cup {h[x].event}
  /\ h' = [h EXCEPT ![x] = Idle]
  /\ UNCHANGED <<gsi, replica, recorded>>

(* update_entitlements, on condition that the item exists: it does, since  *)
(* nothing deletes users.                                                  *)
WebhookUpdate(x) ==
  /\ h[x].pc = "update"
  /\ users' = [users EXCEPT ![h[x].user].ent = Entitled(h[x].base.ent, h[x].event)]
  /\ applied' = applied \cup {h[x].event}
  /\ reapplied' = reapplied \cup (applied \cap {h[x].event})
  /\ returned' = returned \cup {h[x].event}
  /\ h' = [h EXCEPT ![x] = Idle]
  /\ UNCHANGED <<gsi, replica, recorded>>

-----------------------------------------------------------------------------
(* A request dies: the process is killed, times out or a call raises.      *)
Die(x) ==
  /\ h[x].pc # "idle"
  /\ h' = [h EXCEPT ![x] = Idle]
  /\ UNCHANGED <<users, gsi, replica, recorded, applied, reapplied, returned>>

(* DynamoDB brings the index entry of a user, or the replica, up to date.  *)
Propagate(u) ==
  /\ gsi[u] # users[u]
  /\ gsi' = [gsi EXCEPT ![u] = users[u]]
  /\ UNCHANGED <<users, replica, recorded, applied, reapplied, returned, h>>

Replicate(u) ==
  /\ ~ConsistentReads
  /\ replica[u] # users[u]
  /\ replica' = [replica EXCEPT ![u] = users[u]]
  /\ UNCHANGED <<users, gsi, recorded, applied, reapplied, returned, h>>

Request(x) ==
  \/ \E id \in Identity : LoginKnown(x, id) \/ LoginNew(x, id)
  \/ \E u \in UserId : LoadForPreferences(x, u) \/ LoadForLegal(x, u)
  \/ Save(x)

Webhook(x) ==
  \/ \E e \in Event :
       WebhookIgnored(x, e) \/ WebhookDuplicate(x, e) \/ WebhookRecord(x, e)
  \/ WebhookUnknownUser(x)
  \/ WebhookLoad(x)
  \/ WebhookUpdate(x)

Next ==
  \/ \E x \in Handler : Request(x) \/ Webhook(x) \/ Die(x)
  \/ \E u \in UserId : Propagate(u) \/ Replicate(u)

Spec == Init /\ [][Next]_vars

-----------------------------------------------------------------------------
HandlerState == [pc : {"idle", "save", "load", "update"}, kind : Kind,
                 user : UserId \cup {None}, base : Profile \cup {None},
                 copy : Profile \cup {None}, event : Event \cup {None}]

(* The type of every variable, and what a handler holds at each call.      *)
TypeOK ==
  /\ users \in [UserId -> Profile \cup {None}]
  /\ gsi \in [UserId -> Profile \cup {None}]
  /\ replica \in [UserId -> Profile \cup {None}]
  /\ recorded \in SUBSET Identified
  /\ applied \in SUBSET Event
  /\ reapplied \in SUBSET applied
  /\ returned \in SUBSET Event
  /\ h \in [Handler -> HandlerState]
  /\ \A x \in Handler :
       /\ h[x].pc \in {"save", "update"} => h[x].user # None
       /\ h[x].pc = "save" => h[x].copy # None
       /\ h[x].pc = "update" => h[x].base # None
       /\ h[x].pc \in {"load", "update"} => h[x].event # None
       /\ h[x].pc = "update" => h[x].user = EventUser[h[x].event]

(* onboarding_completed is stored true exactly when preferences and legal  *)
(* acceptance are both in the same stored profile, however many requests   *)
(* overwrite one another: the flag is recomputed from what is saved.       *)
OnboardedIffBoth ==
  \A u \in UserId :
    users[u] # None => (users[u].onboarded <=> (users[u].prefs /\ users[u].legal))

(* One of these events gave user u premium until then.                     *)
Granted(u, until, events) ==
  \E e \in events : /\ EventUser[e] = u
                    /\ EventKind[e] = "activation"
                    /\ Expiration[e] = until

(* No interleaving makes a user premium, extends premium or names a last   *)
(* event without an event of that user that accounts for it: stale copies  *)
(* and inherited expirations can bring an old entitlement back but never   *)
(* invent one, mix two or move one to another user.                        *)
EntitlementHasSource ==
  \A u \in UserId : users[u] # None =>
    /\ users[u].ent.premium => Granted(u, users[u].ent.until, applied)
    /\ ~users[u].ent.premium => users[u].ent.until = None
    /\ users[u].ent.last # None =>
         users[u].ent.last \in applied /\ EventUser[users[u].ent.last] = u

(* Duplicate and concurrent deliveries of an event with an id make its     *)
(* entitlement update at most once.                                        *)
IdentifiedAppliedOnce == reapplied \cap Identified = {}

(* The step of handler x undoes what others wrote to the profile of u: an  *)
(* acceptance or a preference is gone, or the entitlement is changed by a  *)
(* request, or premium by an event that says nothing of it (CANCELLATION,  *)
(* BILLING_ISSUE, an unknown type).                                        *)
TakesBack(u) ==
  (users[u].legal /\ ~users'[u].legal) \/ (users[u].prefs /\ ~users'[u].prefs)

Undoes(x, u) ==
  \/ TakesBack(u)
  \/ h[x].pc = "save" /\ users'[u].ent # users[u].ent
  \/ /\ h[x].pc = "update"
     /\ EventKind[h[x].event] = "other"
     /\ users'[u].ent.premium # users[u].ent.premium

(* Writes are lost in one way only: a handler writes from a profile that   *)
(* is no longer the stored one, or never was, because another handler      *)
(* wrote in between or its read lagged.  The webhook, which sets its own   *)
(* attributes, takes no acceptance and no preference back even then.       *)
UndoneOnlyByStaleCopy ==
  [][\A x \in Handler, u \in UserId :
       (h'[x] # h[x] /\ users[u] # None /\ Undoes(x, u)) =>
         /\ h[x].user = u /\ h[x].base # users[u]
         /\ TakesBack(u) => h[x].pc = "save"]_vars

(* When the webhook answers 200 for an event of a user that exists, the    *)
(* update of the event was made.  It fails after a death between the       *)
(* record and the update: RevenueCat's retry is taken for a duplicate.     *)
AnsweredIsApplied ==
  [][\A e \in (returned' \ returned) \ Ignored :
       LET u == EventUser[e] IN
         (u # None /\ users[u] # None) => e \in applied']_vars
=============================================================================
