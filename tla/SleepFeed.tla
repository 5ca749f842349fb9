-------------------------------- MODULE SleepFeed --------------------------------
(***************************************************************************)
(* GET /while-i-slept: one request against the articles table while the    *)
(* pipeline writes to it.  The request resolves the last completed sleep   *)
(* window of the profile, queries the FEED partitions of that window one   *)
(* by one, reads the SUMMARY item of every row one by one, and answers     *)
(* with one article per story.  Between any two of these calls the         *)
(* pipeline takes steps of SummaryLifecycle.                               *)
(*                                                                         *)
(* Times are ticks since an epoch, UTC unless called local; a day has      *)
(* DayLength of them and local time is Offset ahead (no change of offset   *)
(* is modelled).  A request changes nothing, so one is enough.             *)
(*                                                                         *)
(* No read asks for consistency: a write shows at once in some copies of   *)
(* the table and later in the others, item by item, and every call may be  *)
(* answered by any copy.                                                   *)
(***************************************************************************)
EXTENDS Integers, FiniteSets

CONSTANTS
  Article,       \* content hashes, numbered in their order as strings
  Legacy,        \* articles whose row is in the partition "all"
  Published,     \* published_at of each article
  Title,         \* the tokens normalize_title leaves of each title
  Length,        \* the length of the summary of each article
  Profile,       \* profiles whose owners make the request
  Time,          \* moments at which a request may come
  Requested,     \* values of the limit parameter
  DayLength, Offset,
  FreeLimit, PremiumLimit, DefaultLimit,
  None           \* no limit parameter

ASSUME ArticleAssumption == /\ Article \subseteq Nat
                            /\ Legacy \subseteq Article
                            /\ Published \in [Article -> Int]
                            /\ Length \in [Article -> Nat \ {0}]
ASSUME FiniteAssumption == IsFiniteSet(Article)
ASSUME ProfileAssumption ==
  /\ DayLength \in Nat \ {0}
  /\ Offset \in Int
  /\ Profile \subseteq [sleep : 0 .. DayLength - 1, wake : 0 .. DayLength - 1, premium : BOOLEAN]
ASSUME RequestAssumption ==
  /\ Time \subseteq Int
  /\ None \notin Nat
  /\ Requested \subseteq (Nat \ {0}) \cup {None}
  /\ {FreeLimit, PremiumLimit, DefaultLimit} \subseteq Nat \ {0}
  /\ FreeLimit <= PremiumLimit

VARIABLES
  stage,      \* how far the pipeline is with each article
  everywhere, \* articles whose row every copy of the table has
  texts,      \* lengths of the summary that the copies show, 0 for none
  request,    \* the request: its next call, hours, window, limit and next partition
  rows,       \* the rows the queries have returned, then those kept
  found,      \* the length of the summary read for each row, 0 for none
  answer,     \* the response: the article shown for each cluster
  known       \* what every copy shows all along: articles listed, articles published

vars == <<stage, everywhere, texts, request, rows, found, answer, known>>

(* The queue is no part of what a reader of the table sees.                *)
Pipeline == INSTANCE SummaryLifecycle WITH DoneIsFinal <- FALSE, acknowledged <- {}

Listed == {a \in Article : stage[a] \notin {"unknown", "stored"}}

(* What get_summary makes of the latest SUMMARY item: the text of a DONE   *)
(* item or None.                                                           *)
Text(a) == IF stage[a] = "done" THEN Length[a] ELSE 0
PublishedEverywhere == {a \in Article : texts[a] = {Length[a]}}
NoFunction == [a \in {} |-> 0]
Idle == [pc |-> "idle", now |-> 0, hours |-> [sleep |-> 0, wake |-> 0], start |-> 0, end |-> 0,
         limit |-> 1, premium |-> FALSE, next |-> 0]

Init ==
  /\ stage = [a \in Article |-> IF a \in Legacy THEN "done" ELSE "unknown"]
  /\ everywhere = Legacy
  /\ texts = [a \in Article |-> {Text(a)}]
  /\ request = Idle
  /\ rows = {}
  /\ found = NoFunction
  /\ answer = NoFunction
  /\ known = [listed |-> {}, done |-> {}]

-----------------------------------------------------------------------------
(* resolve_last_sleep_window and resolve_effective_feed_limit.             *)

(* Mutant: the wake time itself still belongs to the night.                *)
EndDayStrict(local, wake) ==
  LET today == local \div DayLength
  IN IF local > today * DayLength + wake THEN today ELSE today - 1

(* The local day on which the last completed window ends.                  *)
EndDay(local, wake) ==
  LET today == local \div DayLength
  IN IF local >= today * DayLength + wake THEN today ELSE today - 1

(* The window always starts on the day before it ends.                     *)
LastWindow(now, p) ==
  LET day == EndDay(now + Offset, p.wake)
  IN [start |-> (day - 1) * DayLength + p.sleep - Offset, end |-> day * DayLength + p.wake - Offset]

(* Mutant: the night never crosses midnight.                               *)
BriefingWindowSameDay(now, p) ==
  LET today == (now + Offset) \div DayLength
  IN [start |-> today * DayLength + p.sleep - Offset, end |-> today * DayLength + p.wake - Offset]

(* The window of GET /briefings/today (_compute_window): it ends today,    *)
(* and starts the day before when the hour of sleep is not the earlier.    *)
BriefingWindow(now, p) ==
  LET today == (now + Offset) \div DayLength
      first == IF p.sleep >= p.wake THEN today - 1 ELSE today
  IN [start |-> first * DayLength + p.sleep - Offset, end |-> today * DayLength + p.wake - Offset]

Cap(premium) == IF premium THEN PremiumLimit ELSE FreeLimit

EffectiveLimit(requested, premium) ==
  LET candidate == IF requested = None THEN DefaultLimit ELSE requested
  IN IF candidate <= Cap(premium) THEN candidate ELSE Cap(premium)

(* query_feed_window: the partitions are the UTC days of the window, and   *)
(* then "all", for which the day after the last stands.                    *)
FirstDay == request.start \div DayLength
LastDay == request.end \div DayLength

(* The router has the profile and resolves window and limit.               *)
Start(now, p, requested) ==
  /\ request.pc = "idle"
  /\ LET window == LastWindow(now, p) IN
       request' = [pc |-> "query", now |-> now, hours |-> [sleep |-> p.sleep, wake |-> p.wake],
                   start |-> window.start, end |-> window.end,
                   limit |-> EffectiveLimit(requested, p.premium), premium |-> p.premium,
                   next |-> window.start \div DayLength]
  /\ known' = [listed |-> everywhere, done |-> PublishedEverywhere]
  /\ UNCHANGED <<stage, everywhere, texts, rows, found, answer>>

(* A profile without a sleep window: 404 before any read of articles.      *)
Refuse ==
  /\ request.pc = "idle"
  /\ request' = [request EXCEPT !.pc = "refused"]
  /\ UNCHANGED <<stage, everywhere, texts, rows, found, answer, known>>

-----------------------------------------------------------------------------
(* query_feed_window.                                                      *)

(* The order of the sorted rows: published_at, then the partition, then    *)
(* the hash, as rows of one partition come in the order of their keys.     *)
Before(a, b) ==
  \/ Published[a] < Published[b]
  \/ /\ Published[a] = Published[b]
     /\ \/ a \notin Legacy /\ b \in Legacy
        \/ (a \in Legacy <=> b \in Legacy) /\ a < b

(* The first n articles of a set, in that order.                           *)
Earliest(n, S) == {a \in S : Cardinality({b \in S : Before(b, a)}) < n}

InWindow(a) == request.start <= Published[a] /\ Published[a] <= request.end

(* What a query may see listed: rows are only ever added, and the copy     *)
(* that answers may lack those that are not everywhere yet.                *)
Views == {view \in SUBSET Listed : everywhere \subseteq view}

(* The rows of the partition at hand, dated by the UTC day of published_at. *)
Partition(view) ==
  IF request.next > LastDay THEN view \cap Legacy
  ELSE {a \in view \ Legacy : Published[a] \div DayLength = request.next}

(* The answer to one query: the first rows of the partition, to the limit. *)
Page(view) == Earliest(request.limit, {a \in Partition(view) : InWindow(a)})

(* Mutant: the last day of the window is left out.                         *)
QueryToLastDay ==
  /\ request.pc = "query"
  /\ \E view \in Views : rows' = rows \cup Page(view)
  /\ request' = [request EXCEPT !.next = IF @ = LastDay - 1 THEN LastDay + 1 ELSE @ + 1,
                                !.pc = IF request.next > LastDay THEN "sort" ELSE "query"]
  /\ UNCHANGED <<stage, everywhere, texts, found, answer, known>>

(* Mutant: the loop runs once too often.                                   *)
QueryOnceMore ==
  /\ request.pc = "query"
  /\ \E view \in Views : rows' = rows \cup Page(view)
  /\ request' = [request EXCEPT !.next = @ + 1,
                                !.pc = IF request.next > LastDay + 1 THEN "sort" ELSE "query"]
  /\ UNCHANGED <<stage, everywhere, texts, found, answer, known>>

Query ==
  /\ request.pc = "query"
  /\ \E view \in Views : rows' = rows \cup Page(view)
  /\ request' = [request EXCEPT !.next = @ + 1,
                                !.pc = IF request.next > LastDay THEN "sort" ELSE "query"]
  /\ UNCHANGED <<stage, everywhere, texts, found, answer, known>>

(* Mutant: each partition is limited, their union is not.                  *)
KeepAll ==
  /\ request.pc = "sort"
  /\ request' = [request EXCEPT !.pc = "summaries"]
  /\ UNCHANGED <<stage, everywhere, texts, rows, found, answer, known>>

(* The merged rows are sorted and cut to the limit.                        *)
SortAndCut ==
  /\ request.pc = "sort"
  /\ rows' = Earliest(request.limit, rows)
  /\ request' = [request EXCEPT !.pc = "summaries"]
  /\ UNCHANGED <<stage, everywhere, texts, found, answer, known>>

-----------------------------------------------------------------------------
(* GetSleepWindowFeedUseCase and deduplicate_articles.                     *)

(* get_summary of the next row, from any copy.                             *)
ReadSummary(a) ==
  /\ request.pc = "summaries"
  /\ a \in rows \ DOMAIN found
  /\ \A b \in rows \ DOMAIN found : ~Before(b, a)
  /\ \E text \in texts[a] :
       found' = [b \in DOMAIN found \cup {a} |-> IF b = a THEN text ELSE found[b]]
  /\ UNCHANGED <<stage, everywhere, texts, request, rows, answer, known>>

(* jaccard_similarity above 0.6; titles without tokens are not similar.    *)
Similar(a, b) ==
  5 * Cardinality(Title[a] \cap Title[b]) > 3 * Cardinality(Title[a] \cup Title[b])

(* The place of an article among the rows.                                 *)
Place(a) == 1 + Cardinality({b \in rows : Before(b, a)})
RowAt(i) == CHOOSE a \in rows : Place(a) = i

(* cluster_articles: an article joins the first cluster that has a similar *)
(* article, or opens a cluster, known by the place of that first article.  *)
Cluster ==
  LET cluster[i \in 1 .. Cardinality(rows)] ==
        LET joins == {cluster[j] : j \in {k \in 1 .. i - 1 : Similar(RowAt(i), RowAt(k))}}
        IN IF joins = {} THEN i ELSE CHOOSE c \in joins : \A d \in joins : c <= d
  IN cluster

Members(c) == {a \in rows : Cluster[Place(a)] = c}

(* Mutant: the first article of the story is shown.                        *)
FirstOf(c) == CHOOSE a \in Members(c) : \A b \in Members(c) : ~Before(b, a)

(* max(...): the first of the articles with the longest summary.           *)
Representative(c) ==
  CHOOSE a \in Members(c) :
    \A b \in Members(c) \ {a} : found[b] < found[a] \/ (found[b] = found[a] /\ Before(a, b))

Respond ==
  /\ request.pc = "summaries"
  /\ rows = DOMAIN found
  /\ answer' = [c \in {Cluster[i] : i \in 1 .. Cardinality(rows)} |-> Representative(c)]
  /\ request' = [request EXCEPT !.pc = "done"]
  /\ UNCHANGED <<stage, everywhere, texts, rows, found, known>>

-----------------------------------------------------------------------------
RequestStep ==
  \/ \E now \in Time, p \in Profile, requested \in Requested : Start(now, p, requested)
  \/ Refuse
  \/ Query
  \/ SortAndCut
  \/ \E a \in Article : ReadSummary(a)
  \/ Respond

(* The pipeline goes on; a published summary may be withdrawn.  The copies *)
(* do not have the change yet, all but one.                                *)
PipelineStep ==
  \E a \in Article :
    /\ \/ Pipeline!Store(a)
       \/ Pipeline!List(a)
       \/ Pipeline!Owe(a)
       \/ Pipeline!Publish(a)
       \/ Pipeline!Fail(a)
    /\ texts' = [texts EXCEPT ![a] = @ \cup {Text(a)'}]
    /\ known' = [known EXCEPT !.done = IF Text(a)' = 0 THEN @ \ {a} ELSE @]
    /\ UNCHANGED <<everywhere, request, rows, found, answer>>

(* The row or the SUMMARY item of an article reaches the last copy.        *)
Replicate ==
  /\ \E a \in Article :
       \/ everywhere' = everywhere \cup ({a} \cap Listed) /\ UNCHANGED texts
       \/ texts' = [texts EXCEPT ![a] = {Text(a)}] /\ UNCHANGED everywhere
  /\ UNCHANGED <<stage, request, rows, found, answer, known>>

Next == RequestStep \/ PipelineStep \/ Replicate

Spec == Init /\ [][Next]_vars

-----------------------------------------------------------------------------
(* The type of every variable; the partition at hand is one of the window. *)
TypeOK ==
  /\ stage \in [Article -> Pipeline!Stage]
  /\ everywhere \in SUBSET Listed
  /\ texts \in [Article -> SUBSET Nat]
  /\ \A a \in Article : Text(a) \in texts[a] /\ texts[a] \subseteq {0, Length[a]}
  /\ request.pc \in {"idle", "query", "sort", "summaries", "done", "refused"}
  /\ {request.now, request.start, request.end, request.next} \subseteq Int
  /\ request.limit \in Nat \ {0}
  /\ request.premium \in BOOLEAN
  /\ request.pc = "query" => request.next \in FirstDay .. LastDay + 1
  /\ rows \in SUBSET Article
  /\ DOMAIN found \subseteq rows
  /\ \A a \in DOMAIN found : found[a] \in {0, Length[a]}
  /\ \A c \in DOMAIN answer : answer[c] \in rows
  /\ known \in [listed : SUBSET Article, done : SUBSET Article]

Selected == request.pc \in {"summaries", "done"}

(* The window is over, and no later one is: the moment of the request is   *)
(* in the DayLength ticks that begin when the window ends.  For hours of   *)
(* sleep that cross midnight or make a full day it is no longer than a     *)
(* day.  (For the others see NightBeginsAtLastBedtime.)                    *)
WindowIsLatest ==
  request.pc \notin {"idle", "refused"} =>
    /\ request.start < request.end
    /\ request.end <= request.now
    /\ request.now < request.end + DayLength
    /\ request.hours.sleep >= request.hours.wake => request.end - request.start <= DayLength

(* "The user's most recent completed sleep window": the night begins when  *)
(* its owner last went to sleep before it ended.  The code does not keep   *)
(* this for those who go to sleep after midnight: the window always starts *)
(* on the day before it ends.                                              *)
NightBeginsAtLastBedtime ==
  request.pc \notin {"idle", "refused"} =>
    \A t \in request.start + 1 .. request.end - 1 : (t + Offset) % DayLength # request.hours.sleep

(* The feed and an empty briefing for today name the same night, though    *)
(* each computes it in its own way: from the hour of waking on, for hours  *)
(* of sleep that cross midnight or make a full day.                        *)
TodayIsTheFeedNight ==
  LET hours == request.hours
      wakeIsPast == (request.now + Offset) % DayLength >= hours.wake
  IN (request.pc \notin {"idle", "refused"} /\ hours.sleep >= hours.wake /\ wakeIsPast) =>
       BriefingWindow(request.now, hours) = [start |-> request.start, end |-> request.end]

(* Whatever is listed meanwhile and however the window falls on the        *)
(* partitions, each queried at another moment, from another copy and to    *)
(* the limit only: an article of the window that every copy listed when    *)
(* the request came is kept, or the limit is used up by articles that come *)
(* before it.                                                              *)
EarliestAreKept ==
  Selected =>
    \A a \in known.listed :
      InWindow(a) => \/ a \in rows
                     \/ /\ Cardinality(rows) = request.limit
                        /\ \A b \in rows : Before(b, a)

(* The rows that a chain of similar rows joins to an article.              *)
Story(a) ==
  LET chain[n \in Nat] ==
        IF n = 0 THEN {a} ELSE {b \in rows : \E c \in chain[n - 1] : b = c \/ Similar(b, c)}
  IN chain[Cardinality(rows)]

(* No story loses its summary to deduplication or to the pipeline's        *)
(* progress: of each row whose summary every copy had when the request     *)
(* came, and that was not withdrawn since, the response shows that summary *)
(* or a longer one of the same story.                                      *)
PublishedStoryIsShown ==
  request.pc = "done" =>
    \A a \in rows \cap known.done :
      \E c \in DOMAIN answer :
        /\ answer[c] \in Story(a)
        /\ found[answer[c]] >= Length[a]

(* The response never has more articles than the tier allows, nor an       *)
(* article from outside the window, nor one article twice.                 *)
AnswerIsWithinTier ==
  request.pc = "done" =>
    /\ Cardinality(DOMAIN answer) <= IF request.premium THEN PremiumLimit ELSE FreeLimit
    /\ \A c \in DOMAIN answer : InWindow(answer[c])
    /\ \A c, d \in DOMAIN answer : answer[c] = answer[d] => c = d
=============================================================================
