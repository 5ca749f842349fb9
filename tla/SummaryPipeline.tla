---------------------------- MODULE SummaryPipeline ----------------------------
(***************************************************************************)
(* The article pipeline: ingesters (scripts/fetch_rss.py driving           *)
(* IngestArticleUseCase) write RAW, FEED and SUMMARY(PENDING) items to the *)
(* single articles table and enqueue a job; workers (the local SQS         *)
(* consumer driving ProcessSummaryJobUseCase) take jobs off the queue,     *)
(* summarise and record DONE or FAILED.  Each action is one call to        *)
(* DynamoDB or SQS, so any two processes interleave between two calls.     *)
(*                                                                         *)
(* A process that is killed and a storage call that raises have the same   *)
(* effect: the call under way is abandoned and its writes stay.  Both, and *)
(* a visibility timeout that runs out on a worker still at work, are       *)
(* faults; a behaviour has at most MaxFaults of them.                      *)
(*                                                                         *)
(* The code's get_item calls do not ask for consistent reads, so DynamoDB  *)
(* may answer with any earlier content of the item.  ConsistentReads says  *)
(* whether it does.                                                        *)
(***************************************************************************)
EXTENDS Naturals, FiniteSets

CONSTANTS
  Article,     \* content hashes (summary_version is always 1)
  Message,     \* SQS message ids
  Ingester,    \* processes that ingest
  Worker,      \* processes that consume the queue
  ManualJob,   \* jobs an operator may put on the queue by hand, once each
  MaxFaults,   \* bound on the faults of a behaviour
  ConsistentReads, \* reads return the latest content of an item
  None         \* no job, no message, no article

Job == [art : Article, reprocess : BOOLEAN, manual : BOOLEAN]

ASSUME ManualJobAssumption == ManualJob \subseteq {j \in Job : j.manual}
ASSUME MaxFaultsAssumption == MaxFaults \in Nat
ASSUME ConsistentReadsAssumption == ConsistentReads \in BOOLEAN
ASSUME NoneAssumption == None \notin Article \cup Message \cup Job

VARIABLES
  raw,         \* articles with a RAW item
  feed,        \* articles with a FEED item
  summary,     \* the SUMMARY item of each article
  versions,    \* every content that item has had, this one included
  sent,        \* the job each message id carries, None before it is sent
  queue,       \* messages SQS holds: sent and not deleted
  hidden,      \* messages of the queue within a visibility timeout
  ing,         \* ingester: the next call of its ingest(), and the article
  wrk,         \* worker: the next call for the message it holds, and locals
  returned,    \* articles for which some ingest() has returned a result
  faults       \* faults so far

vars == <<raw, feed, summary, versions, sent, queue, hidden, ing, wrk, returned, faults>>

Status == {"ABSENT", "PENDING", "DONE", "FAILED"}
Settled == {"DONE", "FAILED"}
IngesterPc == {"idle", "feed", "pending", "enqueue"}
WorkerPc == {"idle", "state", "raw", "llm", "missing", "ack"}

IdleIngester == [pc |-> "idle", art |-> None]
IdleWorker == [pc |-> "idle", msg |-> None, seen |-> "ABSENT", retry |-> 0]
NoSummary == [status |-> "ABSENT", retry |-> 0]
IngestJob(a) == [art |-> a, reprocess |-> FALSE, manual |-> FALSE]

Init ==
  /\ raw = {}
  /\ feed = {}
  /\ summary = [a \in Article |-> NoSummary]
  /\ versions = [a \in Article |-> {NoSummary}]
  /\ sent = [m \in Message |-> None]
  /\ queue = {}
  /\ hidden = {}
  /\ ing = [i \in Ingester |-> IdleIngester]
  /\ wrk = [w \in Worker |-> IdleWorker]
  /\ returned = {}
  /\ faults = 0

-----------------------------------------------------------------------------
(* Ingestion: IngestArticleUseCase.ingest.                                 *)

(* Mutant: the put is unconditional.                                       *)
PutRawAlways(i, a) ==
  /\ ing[i].pc = "idle"
  /\ raw' = raw \cup {a}
  /\ ing' = [ing EXCEPT ![i] = [pc |-> "feed", art |-> a]]
  /\ UNCHANGED <<feed, summary, versions, sent, queue, hidden, wrk, returned, faults>>

(* put_raw_article_if_absent wins: the conditional put created the item.   *)
PutRaw(i, a) ==
  /\ ing[i].pc = "idle"
  /\ a \notin raw
  /\ raw' = raw \cup {a}
  /\ ing' = [ing EXCEPT ![i] = [pc |-> "feed", art |-> a]]
  /\ UNCHANGED <<feed, summary, versions, sent, queue, hidden, wrk, returned, faults>>

(* The conditional put fails: ingest() returns DUPLICATE and does no more. *)
IngestDuplicate(i, a) ==
  /\ ing[i].pc = "idle"
  /\ a \in raw
  /\ returned' = returned \cup {a}
  /\ UNCHANGED <<raw, feed, summary, versions, sent, queue, hidden, ing, wrk, faults>>

(* Mutant: the job is enqueued before the pending item is written.         *)
PutFeedThenEnqueue(i) ==
  /\ ing[i].pc = "feed"
  /\ feed' = feed \cup {ing[i].art}
  /\ ing' = [ing EXCEPT ![i].pc = "enqueue"]
  /\ UNCHANGED <<raw, summary, versions, sent, queue, hidden, wrk, returned, faults>>

(* Mutant: ingest() returns once the feed row is written.                  *)
PutFeedAndReturn(i) ==
  /\ ing[i].pc = "feed"
  /\ feed' = feed \cup {ing[i].art}
  /\ ing' = [ing EXCEPT ![i] = IdleIngester]
  /\ UNCHANGED <<raw, summary, versions, sent, queue, hidden, wrk, returned, faults>>

(* put_feed_index_item is called twice, for the topic and for "all"; the   *)
(* topic is no part of the key or the item, so both calls write one row.   *)
PutFeed(i) ==
  /\ ing[i].pc = "feed"
  /\ feed' = feed \cup {ing[i].art}
  /\ ing' = [ing EXCEPT ![i].pc = "pending"]
  /\ UNCHANGED <<raw, summary, versions, sent, queue, hidden, wrk, returned, faults>>

(* What a conditional put of a fresh PENDING item leaves in the table.     *)
PendingIfAbsent(rec) ==
  IF rec.status = "ABSENT" THEN [status |-> "PENDING", retry |-> 0] ELSE rec

(* A write of the SUMMARY item of an article.                              *)
WriteSummary(a, rec) ==
  /\ summary' = [summary EXCEPT ![a] = rec]
  /\ versions' = [versions EXCEPT ![a] = @ \cup {rec}]

PutPending(i) ==
  /\ ing[i].pc = "pending"
  /\ WriteSummary(ing[i].art, PendingIfAbsent(summary[ing[i].art]))
  /\ ing' = [ing EXCEPT ![i].pc = "enqueue"]
  /\ UNCHANGED <<raw, feed, sent, queue, hidden, wrk, returned, faults>>

(* SQS accepts a job under a message id it has not used.                   *)
Send(m, job) ==
  /\ sent[m] = None
  /\ sent' = [sent EXCEPT ![m] = job]
  /\ queue' = queue \cup {m}
  /\ UNCHANGED hidden

(* The job is sent and ingest() returns CREATED.                           *)
Enqueue(i, m) ==
  /\ ing[i].pc = "enqueue"
  /\ Send(m, IngestJob(ing[i].art))
  /\ returned' = returned \cup {ing[i].art}
  /\ ing' = [ing EXCEPT ![i] = IdleIngester]
  /\ UNCHANGED <<raw, feed, summary, versions, wrk, faults>>

IngesterCrash(i) ==
  /\ ing[i].pc # "idle"
  /\ faults < MaxFaults
  /\ faults' = faults + 1
  /\ ing' = [ing EXCEPT ![i] = IdleIngester]
  /\ UNCHANGED <<raw, feed, summary, versions, sent, queue, hidden, wrk, returned>>

-----------------------------------------------------------------------------
(* The queue.                                                              *)

(* A job that no ingester sends: reprocess is a field of the job schema    *)
(* that the code reads and never sets to true.                             *)
OperatorSend(m, job) ==
  /\ \A n \in Message : sent[n] # job
  /\ Send(m, job)
  /\ UNCHANGED <<raw, feed, summary, versions, ing, wrk, returned, faults>>

Working(m) == \E w \in Worker : wrk[w].msg = m

(* The visibility timeout of a message that a dead or failed call held.    *)
ExpireAbandoned(m) ==
  /\ m \in hidden
  /\ ~Working(m)
  /\ hidden' = hidden \ {m}
  /\ UNCHANGED <<raw, feed, summary, versions, sent, queue, ing, wrk, returned, faults>>

(* The visibility timeout runs out while a worker is still at work.        *)
ExpireEarly(m) ==
  /\ m \in hidden
  /\ Working(m)
  /\ faults < MaxFaults
  /\ faults' = faults + 1
  /\ hidden' = hidden \ {m}
  /\ UNCHANGED <<raw, feed, summary, versions, sent, queue, ing, wrk, returned>>

-----------------------------------------------------------------------------
(* Consumption: poll_once and ProcessSummaryJobUseCase.                    *)

(* Mutant: the message is deleted when it is received.                     *)
ReceiveAndDelete(w, m) ==
  /\ wrk[w].pc = "idle"
  /\ m \in queue \ hidden
  /\ queue' = queue \ {m}
  /\ wrk' = [wrk EXCEPT ![w] = [IdleWorker EXCEPT !.pc = "state", !.msg = m]]
  /\ UNCHANGED <<raw, feed, summary, versions, sent, hidden, ing, returned, faults>>

(* Mutant: no visibility timeout is asked for.                             *)
ReceiveVisible(w, m) ==
  /\ wrk[w].pc = "idle"
  /\ m \in queue \ hidden
  /\ wrk' = [wrk EXCEPT ![w] = [IdleWorker EXCEPT !.pc = "state", !.msg = m]]
  /\ UNCHANGED <<raw, feed, summary, versions, sent, queue, hidden, ing, returned, faults>>

Receive(w, m) ==
  /\ wrk[w].pc = "idle"
  /\ m \in queue \ hidden
  /\ hidden' = hidden \cup {m}
  /\ wrk' = [wrk EXCEPT ![w] = [IdleWorker EXCEPT !.pc = "state", !.msg = m]]
  /\ UNCHANGED <<raw, feed, summary, versions, sent, queue, ing, returned, faults>>

JobOf(w) == sent[wrk[w].msg]

(* Mutant: the receipt is lost before the delete.                          *)
ReadyToAckNothing(w) == [IdleWorker EXCEPT !.pc = "ack"]

(* The worker has an answer for the message and will delete it.            *)
ReadyToAck(w) == [IdleWorker EXCEPT !.pc = "ack", !.msg = wrk[w].msg]

(* What get_item may return for the SUMMARY item of an article.            *)
Readable(a) == IF ConsistentReads THEN {summary[a]} ELSE versions[a]

(* Mutant: SKIPPED is not acknowledged.                                    *)
SkipDoneUnacked(w) ==
  /\ wrk[w].pc = "state"
  /\ \E rec \in Readable(JobOf(w).art) : rec.status = "DONE"
  /\ ~JobOf(w).reprocess
  /\ wrk' = [wrk EXCEPT ![w] = IdleWorker]
  /\ UNCHANGED <<raw, feed, summary, versions, sent, queue, hidden, ing, returned, faults>>

(* get_summary_state finds DONE and the job does not ask for a new one.    *)
SkipDone(w) ==
  /\ wrk[w].pc = "state"
  /\ \E rec \in Readable(JobOf(w).art) : rec.status = "DONE"
  /\ ~JobOf(w).reprocess
  /\ wrk' = [wrk EXCEPT ![w] = ReadyToAck(w)]
  /\ UNCHANGED <<raw, feed, summary, versions, sent, queue, hidden, ing, returned, faults>>

(* The worker keeps the status and retry_count it read in locals; with no  *)
(* item, retry_count is 0, as in the ABSENT record.                        *)
StateRead(w, rec) ==
  [pc |-> "raw", msg |-> wrk[w].msg, seen |-> rec.status, retry |-> rec.retry]

(* Mutant: a DONE item is summarised again.                                *)
ReadStateUnchecked(w) ==
  /\ wrk[w].pc = "state"
  /\ \E rec \in Readable(JobOf(w).art) : wrk' = [wrk EXCEPT ![w] = StateRead(w, rec)]
  /\ UNCHANGED <<raw, feed, summary, versions, sent, queue, hidden, ing, returned, faults>>

(* get_summary_state otherwise.                                            *)
ReadState(w) ==
  /\ wrk[w].pc = "state"
  /\ \E rec \in Readable(JobOf(w).art) :
       /\ rec.status # "DONE" \/ JobOf(w).reprocess
       /\ wrk' = [wrk EXCEPT ![w] = StateRead(w, rec)]
  /\ UNCHANGED <<raw, feed, summary, versions, sent, queue, hidden, ing, returned, faults>>

(* get_raw_article: a read that is not consistent may miss the item.       *)
ReadRaw(w) ==
  /\ wrk[w].pc = "raw"
  /\ \E next \in {"llm", "missing"} :
       /\ next = "llm" => JobOf(w).art \in raw
       /\ next = "missing" => JobOf(w).art \notin raw \/ ~ConsistentReads
       /\ wrk' = [wrk EXCEPT ![w].pc = next]
  /\ UNCHANGED <<raw, feed, summary, versions, sent, queue, hidden, ing, returned, faults>>

(* mark_summary_failed: an unconditional update that creates the item when *)
(* there is none and stores the count the worker computed from its read.   *)
FailedRecord(retry) == [status |-> "FAILED", retry |-> retry + 1]

(* mark_summary_done: unconditional too; an existing retry_count is kept.  *)
DoneRecord(rec) == [rec EXCEPT !.status = "DONE"]

(* Mutant: a failure is tried again at once.                               *)
MarkFailedAndRetry(w) ==
  /\ wrk[w].pc \in {"llm", "missing"}
  /\ WriteSummary(JobOf(w).art, FailedRecord(wrk[w].retry))
  /\ wrk' = [wrk EXCEPT ![w].pc = "state"]
  /\ UNCHANGED <<raw, feed, sent, queue, hidden, ing, returned, faults>>

(* Mutant: a failure is acknowledged and not recorded.                     *)
MarkFailedSilently(w) ==
  /\ wrk[w].pc \in {"llm", "missing"}
  /\ wrk' = [wrk EXCEPT ![w] = ReadyToAck(w)]
  /\ UNCHANGED <<raw, feed, summary, versions, sent, queue, hidden, ing, returned, faults>>

(* RAW_NOT_FOUND (pc "missing") or the summariser raised (pc "llm").       *)
MarkFailed(w) ==
  /\ wrk[w].pc \in {"llm", "missing"}
  /\ WriteSummary(JobOf(w).art, FailedRecord(wrk[w].retry))
  /\ wrk' = [wrk EXCEPT ![w] = ReadyToAck(w)]
  /\ UNCHANGED <<raw, feed, sent, queue, hidden, ing, returned, faults>>

(* The summariser answered.                                                *)
MarkDone(w) ==
  /\ wrk[w].pc = "llm"
  /\ WriteSummary(JobOf(w).art, DoneRecord(summary[JobOf(w).art]))
  /\ wrk' = [wrk EXCEPT ![w] = ReadyToAck(w)]
  /\ UNCHANGED <<raw, feed, sent, queue, hidden, ing, returned, faults>>

(* delete_message: SKIPPED, DONE and FAILED are all acknowledged.          *)
Ack(w) ==
  /\ wrk[w].pc = "ack"
  /\ queue' = queue \ {wrk[w].msg}
  /\ hidden' = hidden \ {wrk[w].msg}
  /\ wrk' = [wrk EXCEPT ![w] = IdleWorker]
  /\ UNCHANGED <<raw, feed, summary, versions, sent, ing, returned, faults>>

(* A table call raised (_process_article_job returns False) or the process *)
(* died, or the delete did not take effect: the message is not deleted and *)
(* stays hidden until its timeout.                                         *)
WorkerCrash(w) ==
  /\ wrk[w].pc # "idle"
  /\ faults < MaxFaults
  /\ faults' = faults + 1
  /\ wrk' = [wrk EXCEPT ![w] = IdleWorker]
  /\ UNCHANGED <<raw, feed, summary, versions, sent, queue, hidden, ing, returned>>

-----------------------------------------------------------------------------
IngesterStep(i) ==
  \/ \E a \in Article : PutRaw(i, a) \/ IngestDuplicate(i, a)
  \/ PutFeed(i)
  \/ PutPending(i)
  \/ \E m \in Message : Enqueue(i, m)
  \/ IngesterCrash(i)

QueueStep(m) ==
  \/ \E job \in ManualJob : OperatorSend(m, job)
  \/ ExpireAbandoned(m)
  \/ ExpireEarly(m)

(* The worker's work on the message it holds.                              *)
Process(w) ==
  \/ SkipDone(w)
  \/ ReadState(w)
  \/ ReadRaw(w)
  \/ MarkFailed(w)
  \/ MarkDone(w)
  \/ Ack(w)

WorkerStep(w) ==
  \/ \E m \in Message : Receive(w, m)
  \/ Process(w)
  \/ WorkerCrash(w)

Next ==
  \/ \E i \in Ingester : IngesterStep(i)
  \/ \E m \in Message : QueueStep(m)
  \/ \E w \in Worker : WorkerStep(w)

Spec == Init /\ [][Next]_vars

(* A started ingest() runs on, run_forever keeps polling and working, and  *)
(* SQS ends every visibility timeout.  Nothing makes a fetch start, an     *)
(* operator send or a fault happen.                                        *)
Fairness ==
  /\ \A i \in Ingester :
       WF_vars(PutFeed(i) \/ PutPending(i) \/ \E m \in Message : Enqueue(i, m))
  /\ \A w \in Worker :
       WF_vars(Process(w)) /\ WF_vars(\E m \in Message : Receive(w, m))
  /\ \A m \in Message : WF_vars(ExpireAbandoned(m))

FairSpec == Spec /\ Fairness

-----------------------------------------------------------------------------
SummaryRecord == [status : Status, retry : Nat]
IngesterState == [pc : IngesterPc, art : Article \cup {None}]
WorkerState == [pc : WorkerPc, msg : Message \cup {None}, seen : Status, retry : Nat]

(* The type of every variable; a process holds something iff it is busy.   *)
TypeOK ==
  /\ raw \in SUBSET Article
  /\ feed \in SUBSET Article
  /\ summary \in [Article -> SummaryRecord]
  /\ versions \in [Article -> SUBSET SummaryRecord]
  /\ sent \in [Message -> Job \cup {None}]
  /\ queue \in SUBSET Message
  /\ hidden \in SUBSET queue
  /\ ing \in [Ingester -> IngesterState]
  /\ wrk \in [Worker -> WorkerState]
  /\ returned \in SUBSET Article
  /\ faults \in 0 .. MaxFaults
  /\ \A i \in Ingester : ing[i].art = None <=> ing[i].pc = "idle"
  /\ \A w \in Worker : wrk[w].msg = None <=> wrk[w].pc = "idle"

Sent == {m \in Message : sent[m] # None}
IngestMessages(a) == {m \in Sent : sent[m] = IngestJob(a)}
Manual(a) == \E m \in Sent : sent[m].manual /\ sent[m].art = a
Ingesting(a) == \E i \in Ingester : ing[i].art = a
Complete(a) == /\ a \in raw \cap feed
               /\ summary[a].status # "ABSENT"
               /\ IngestMessages(a) # {}

(* A job an ingester sent finds its article stored, listed and with a      *)
(* SUMMARY item: ingest() writes all three before it enqueues, and nothing *)
(* removes them, so no consumer ever runs ahead of the table.              *)
JobFollowsArticle ==
  \A m \in Sent : ~sent[m].manual =>
    /\ sent[m].art \in raw \cap feed
    /\ summary[sent[m].art].status # "ABSENT"

(* However many ingesters meet the same content at the same time, it is    *)
(* enqueued once: the conditional put of the RAW item lets one through.    *)
OneJobPerArticle ==
  \A m, n \in Sent :
    (~sent[m].manual /\ ~sent[n].manual /\ sent[m].art = sent[n].art) => m = n

(* A job leaves the queue only with an outcome on record, whatever crashes *)
(* and redeliveries came between: the consumer deletes after it marks.     *)
NoJobLost ==
  \A m \in Sent \ queue : summary[sent[m].art].status \in Settled

(* Only a fault leaves an article stored with no job and nobody at work on *)
(* it; ingest() itself never gives one up half way.                        *)
OrphanNeedsFault ==
  \A a \in raw : Complete(a) \/ Ingesting(a) \/ faults > 0

(* retry_count counts deliveries that failed and nothing retries a FAILED  *)
(* job by itself: with no fault there is one attempt per job sent.         *)
RetriesNeedDeliveries ==
  \A a \in Article :
    summary[a].retry <= Cardinality({m \in Sent : sent[m].art = a}) + faults

(* Every failure counts: the retry_count that a worker read, incremented   *)
(* and stores by another call is behind the stored one only when the       *)
(* article has had a second delivery, after a fault or by hand.            *)
LostIncrementNeedsRedelivery ==
  [][\A w \in Worker :
       LET a == JobOf(w).art IN
         (/\ wrk[w].pc \in {"llm", "missing"} /\ wrk'[w].pc = "ack"
          /\ summary'[a].status = "FAILED")
         => summary'[a].retry > summary[a].retry \/ faults > 0 \/ Manual(a)]_vars

(* A published summary is withdrawn (DONE overwritten) only by a worker    *)
(* that read the item before it was DONE or was told to reprocess it.      *)
PublishedLostOnlyToStaleRead ==
  [][\A a \in Article :
       (summary[a].status = "DONE" /\ summary'[a].status # "DONE") =>
         \E w \in Worker :
           /\ wrk[w].pc \in {"llm", "missing"}
           /\ JobOf(w).art = a
           /\ wrk[w].seen # "DONE" \/ JobOf(w).reprocess]_vars

(* Withdrawing takes a second delivery: with no fault and no manual job    *)
(* for the article, a consumer has its message to itself and DONE stays.   *)
WithdrawalNeedsRedelivery ==
  [][\A a \in Article :
       (summary[a].status = "DONE" /\ summary'[a].status # "DONE") =>
         faults > 0 \/ Manual(a)]_vars

(* Every job sent gets its outcome: finitely many crashes, early timeouts  *)
(* and redeliveries delay it and cannot prevent it.                        *)
EveryJobSettles ==
  \A m \in Message :
    m \in queue ~> (m \in Sent /\ summary[sent[m].art].status \in Settled)

(* No message stays on the queue for ever.                                 *)
QueueDrains == \A m \in Message : m \in queue ~> m \notin queue

(* What ingest() promises of an article it has returned for, by its        *)
(* docstring: RAW, FEED, SUMMARY and a job exist (or someone is still      *)
(* creating them).                                                         *)
IngestedIsComplete ==
  \A a \in returned : Complete(a) \/ Ingesting(a)

-----------------------------------------------------------------------------
(* The refinement of SummaryLifecycle (for pipelines without manual jobs). *)
stage == [a \in Article |->
  CASE summary[a].status = "DONE" -> "done"
    [] summary[a].status = "FAILED" -> "failed"
    [] summary[a].status = "PENDING" -> "pending"
    [] summary[a].status = "ABSENT" /\ a \in feed -> "listed"
    [] summary[a].status = "ABSENT" /\ a \notin feed /\ a \in raw -> "stored"
    [] OTHER -> "unknown"]

acknowledged == {a \in Article : \E m \in Sent \ queue : sent[m].art = a}

(* When a published summary is final.                                      *)
OneConsumerNoReprocess ==
  /\ ConsistentReads
  /\ \A v, w \in Worker : v = w
  /\ \A job \in ManualJob : ~job.reprocess

Lifecycle == INSTANCE SummaryLifecycle WITH DoneIsFinal <- OneConsumerNoReprocess

(* The pipeline implements the life cycle.                                 *)
ImplementsLifecycle == Lifecycle!Spec
=============================================================================
