----------------------------- MODULE MCSmartBrevity -----------------------------
(* An instance of SmartBrevity for TLC: lengths on both sides of every     *)
(* bound, no word more than twice, s6 of stopwords only; s1 is long, has   *)
(* digits and is often the best.                                           *)
EXTENDS SmartBrevity, TLC

Sentences == {"s1", "s2", "s3", "s4", "s5", "s6"}
MCLength == "s1" :> 161 @@ "s2" :> 160 @@ "s3" :> 20 @@ "s4" :> 201 @@ "s5" :> 200 @@ "s6" :> 19
MCKeywords == "en" :> {"s2"} @@ "pt" :> {"s4"}
Once(words) == [w \in Word |-> IF w \in words THEN 1 ELSE 0]
English == "s1" :> Once({"w1"}) @@ "s2" :> Once({"w1", "w2"}) @@ "s3" :> Once({"w2"})
           @@ "s4" :> Once({"w3"}) @@ "s5" :> Once({"w3", "w4"}) @@ "s6" :> Once({"w4"})
Portuguese == [English EXCEPT !["s3"] = Once({}), !["s5"] = Once({"w4"})]
MCWords == "en" :> English @@ "pt" :> Portuguese
=============================================================================
