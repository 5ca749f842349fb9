--------------------------- MODULE MCSummaryConsumers ---------------------------
(* Instances of SummaryConsumers for TLC.                                  *)
EXTENDS SummaryConsumers, TLC

CONSTANTS a1, a2, b1, b2, x1, id1

MCKind == [m \in Message |-> CASE m \in {a1, a2} -> "article"
                               [] m \in {b1, b2} -> "briefing"
                               [] m = x1 -> "unreadable"]
MCKeyOf == [m \in Message |-> CHOOSE k \in Key : TRUE]
=============================================================================
