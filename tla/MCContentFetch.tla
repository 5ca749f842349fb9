----------------------------- MODULE MCContentFetch -----------------------------
(* An instance of ContentFetch for TLC.  Both languages have the shared    *)
(* feed, Portuguese another one before it.  Entry e1 has a long page, so   *)
(* it is a1 or, when the page cannot be read, a2, as e3 always is; e2 has  *)
(* a single date, which does not parse.  They are dated by different       *)
(* fields.                                                                 *)
EXTENDS ContentFetch, MCSummaryPipeline

CONSTANT a3

ThreeArticles == {a1, a2, a3}
MCRegistry == "en" :> <<"shared">> @@ "pt" :> <<"own", "shared">>
MCDocument == "shared" :> <<"e1", "e2", "e3">> @@ "own" :> <<"e4">>
Absent == [type |-> "none", valid |-> FALSE]
Struct == [type |-> "struct", valid |-> TRUE]
Text(valid) == [type |-> "text", valid |-> valid]
MCDateValue ==
  LET only(field, value) == [f \in DateField |-> IF f = field THEN value ELSE Absent]
  IN "e1" :> only("published", Text(TRUE)) @@ "e2" :> only("date", Text(FALSE))
     @@ "e3" :> only("updated_parsed", Struct) @@ "e4" :> only("published_parsed", Struct)
MCPageText == "e1" :> "long" @@ "e2" :> "none" @@ "e3" :> "short" @@ "e4" :> "none"
Either(page, source) == "page" :> page @@ "feed" :> source
MCHashOf == "e1" :> Either(a1, a2) @@ "e2" :> Either(a1, a1)
            @@ "e3" :> Either(a2, a2) @@ "e4" :> Either(a3, a3)
=============================================================================
