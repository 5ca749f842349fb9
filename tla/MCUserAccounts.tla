----------------------------- MODULE MCUserAccounts -----------------------------
(* Instances of UserAccounts for TLC.  buy lasts until 1, renew states no  *)
(* expiration and gift, for the other user, one that cannot be parsed;     *)
(* anonymous has no id, userless no user, and sandbox comes from the       *)
(* sandbox, in production.                                                 *)
EXTENDS UserAccounts, TLC

CONSTANTS u1, u2, buy, renew, gift, refund, cancel, anonymous, sandbox, userless

KindOf(e) == IF e = refund THEN "revocation"
             ELSE IF e \in {cancel, anonymous} THEN "other" ELSE "activation"
MCEventKind == [e \in Event |-> KindOf(e)]
MCExpiration == [e \in Event |-> IF e = buy THEN 1 ELSE IF e = gift THEN Garbled ELSE None]
MCEventUser == [e \in Event |-> IF e = userless THEN None ELSE IF e = gift THEN u2 ELSE u1]
MCIdentified == Event \ {anonymous}
MCIgnored == Event \cap {sandbox}
Symmetry == Permutations(Handler)

(* returned only records what was answered, for AnsweredIsApplied: no      *)
(* action reads it, so the other runs leave it out of a state's identity.  *)
WithoutAnswers == <<users, gsi, replica, recorded, applied, reapplied, h>>

(* What one run explores: the onboarding of one user with a purchase and a *)
(* cancellation, the entitlements of two users with every event that has   *)
(* an id but the cancellation, and those of one user with a purchase and   *)
(* an event without an id.                                                 *)
OneUser == \A u \in UserId \ {u1} : users[u] = None /\ \A x \in Handler : h[x].user # u
NoOnboarding ==
  /\ \A u \in UserId : users[u] # None => ~(users[u].prefs \/ users[u].legal)
  /\ \A x \in Handler : h[x].kind \in {"login", "webhook"}
AllIdentified == anonymous \notin applied /\ \A x \in Handler : h[x].event # anonymous

Explored ==
  \/ OneUser /\ AllIdentified /\ recorded \subseteq {buy, cancel}
  \/ NoOnboarding /\ AllIdentified /\ cancel \notin recorded
  \/ OneUser /\ NoOnboarding /\ recorded \subseteq {buy}
=============================================================================
