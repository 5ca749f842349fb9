--------------------------- MODULE SummaryLifecycle ---------------------------
(***************************************************************************)
(* What the article pipeline promises a reader of the articles table, with *)
(* the ingesters, the queue and the workers taken away: an article is      *)
(* stored, then listed in the feed, then owed a summary, then settled by   *)
(* the success or the failure of an attempt, and an article's job leaves   *)
(* the queue only once the article is settled.  SummaryPipeline implements *)
(* this specification.                                                     *)
(***************************************************************************)
CONSTANTS
  Article,       \* content hashes
  DoneIsFinal    \* TRUE when a published summary may never be withdrawn

VARIABLES
  stage,         \* how far each article has come
  acknowledged   \* articles one of whose jobs has left the queue for good

Stage == {"unknown", "stored", "listed", "pending", "done", "failed"}
Settled == {"done", "failed"}

lifecycleVars == <<stage, acknowledged>>

Init ==
  /\ stage = [a \in Article |-> "unknown"]
  /\ acknowledged = {}

(* The article moves one stage forward, never skipping one.                *)
Advance(a, from, to) ==
  /\ stage[a] = from
  /\ stage' = [stage EXCEPT ![a] = to]
  /\ UNCHANGED acknowledged

Store(a) == Advance(a, "unknown", "stored")
List(a) == Advance(a, "stored", "listed")
Owe(a) == Advance(a, "listed", "pending")

Publish(a) ==
  /\ stage[a] \in {"pending", "failed"}
  /\ stage' = [stage EXCEPT ![a] = "done"]
  /\ UNCHANGED acknowledged

Fail(a) ==
  /\ stage[a] = "pending" \/ (stage[a] = "done" /\ ~DoneIsFinal)
  /\ stage' = [stage EXCEPT ![a] = "failed"]
  /\ UNCHANGED acknowledged

Acknowledge(a) ==
  /\ stage[a] \in Settled
  /\ acknowledged' = acknowledged \cup {a}
  /\ UNCHANGED stage

Next ==
  \E a \in Article :
    \/ Store(a) \/ List(a) \/ Owe(a)
    \/ Publish(a) \/ Fail(a) \/ Acknowledge(a)

Spec == Init /\ [][Next]_lifecycleVars
=============================================================================
