------------------------------- MODULE MCSleepFeed -------------------------------
(* An instance of SleepFeed for TLC: days of four ticks, local time one    *)
(* tick ahead; a night from 3 to 1 crosses both the local and the UTC day. *)
(* Articles 2 and 4 have rows in the old partition, 1 and 3 share one, and *)
(* 3 and 4 their published_at.  The title of 3 is similar to those of 1    *)
(* and 2, which are not similar to each other.                             *)
EXTENDS SleepFeed, TLC

MCArticle == 1 .. 4
MCPublished == 1 :> 8 @@ 2 :> 7 @@ 3 :> 9 @@ 4 :> 9
MCTitle == 1 :> {"a", "b"} @@ 2 :> {"b", "c"} @@ 3 :> {"a", "b", "c"} @@ 4 :> {"d"}
MCLength == 1 :> 1 @@ 2 :> 2 @@ 3 :> 3 @@ 4 :> 1
Night == [sleep |-> 3, wake |-> 1]
AfterMidnight == [sleep |-> 0, wake |-> 2]
WholeDay == [sleep |-> 2, wake |-> 2]
WithTier(hours, premium) == [sleep |-> hours.sleep, wake |-> hours.wake, premium |-> premium]
Nights == {WithTier(Night, FALSE), WithTier(Night, TRUE), WithTier(AfterMidnight, TRUE),
           WithTier(WholeDay, FALSE)}
=============================================================================
