--------------------------- MODULE MCSummaryPipeline ---------------------------
(* Instances of SummaryPipeline for TLC.                                   *)
EXTENDS SummaryPipeline, TLC

CONSTANTS a1, a2

TwoArticles == {a1, a2}
OneArticle == {a1}
NoManualJob == {}
ReprocessA1 == {[art |-> a1, reprocess |-> TRUE, manual |-> TRUE]}

(* Processes and message ids are interchangeable.                          *)
Symmetry == Permutations(Ingester) \cup Permutations(Worker) \cup Permutations(Message)
=============================================================================
