------------------------- MODULE SummaryPipelineProofs -------------------------
(***************************************************************************)
(* Theorems about SummaryPipeline, for every set of articles, messages,    *)
(* ingesters and workers, every set of manual jobs and every number of     *)
(* faults.                                                                 *)
(***************************************************************************)
EXTENDS SummaryPipeline, FiniteSetTheorems, TLAPS

-----------------------------------------------------------------------------
(* The inductive invariant.                                                *)

(* Whatever SQS holds, and whatever a worker holds, was sent.              *)
HeldWasSent ==
  /\ queue \subseteq Sent
  /\ \A w \in Worker : wrk[w].pc # "idle" => wrk[w].msg \in Sent

(* What an ingester has already written, by its next call.                 *)
WrittenSoFar ==
  \A i \in Ingester :
    /\ ing[i].pc # "idle" => ing[i].art \in raw
    /\ ing[i].pc \in {"pending", "enqueue"} => ing[i].art \in feed
    /\ ing[i].pc = "enqueue" => summary[ing[i].art].status # "ABSENT"

(* The conditional put gives an article to one ingester for good, and      *)
(* until that one enqueues there is no job for it.                         *)
SoleIngester ==
  /\ \A i, j \in Ingester :
       (ing[i].pc # "idle" /\ ing[j].pc # "idle" /\ ing[i].art = ing[j].art) => i = j
  /\ \A i \in Ingester, m \in Sent :
       (ing[i].pc # "idle" /\ ~sent[m].manual) => sent[m].art # ing[i].art

(* A worker about to delete its message has an outcome on record.          *)
AckHasOutcome ==
  \A w \in Worker : wrk[w].pc = "ack" => summary[JobOf(w).art].status \in Settled

(* A worker at work did not read DONE, or was told to reprocess.           *)
ReadAllowsWork ==
  \A w \in Worker :
    wrk[w].pc \in {"raw", "llm", "missing"} => (wrk[w].seen # "DONE" \/ JobOf(w).reprocess)

(* An outcome that was ever on record is replaced only by an outcome.      *)
VersionsFollowed ==
  \A a \in Article : \A rec \in versions[a] \cup {summary[a]} :
    rec.status \in Settled => summary[a].status \in Settled

IInv ==
  /\ TypeOK
  /\ VersionsFollowed
  /\ HeldWasSent
  /\ WrittenSoFar
  /\ SoleIngester
  /\ JobFollowsArticle
  /\ OneJobPerArticle
  /\ AckHasOutcome
  /\ NoJobLost
  /\ ReadAllowsWork
-----------------------------------------------------------------------------
(* Every step is one of the thirteen actions.                              *)
LEMMA StepCases ==
  ASSUME Next
  PROVE  \/ \E i \in Ingester, a \in Article : PutRaw(i, a) \/ IngestDuplicate(i, a)
         \/ \E i \in Ingester : PutFeed(i) \/ PutPending(i) \/ IngesterCrash(i)
         \/ \E i \in Ingester, m \in Message : Enqueue(i, m)
         \/ \E m \in Message, job \in ManualJob : OperatorSend(m, job)
         \/ \E m \in Message : ExpireAbandoned(m) \/ ExpireEarly(m)
         \/ \E w \in Worker, m \in Message : Receive(w, m)
         \/ \E w \in Worker : SkipDone(w) \/ ReadState(w) \/ ReadRaw(w) \/ MarkFailed(w)
                              \/ MarkDone(w) \/ Ack(w) \/ WorkerCrash(w)
BY Zenon DEF Next, IngesterStep, QueueStep, WorkerStep, Process

(* Every variable keeps its type, in particular every record of a process  *)
(* and of the table.                                                       *)
LEMMA TypeStep ==
  ASSUME TypeOK, [Next]_vars,
         \A w \in Worker : wrk[w].pc # "idle" => sent[wrk[w].msg] \in Job
  PROVE  TypeOK'
<1> USE ManualJobAssumption, MaxFaultsAssumption, NoneAssumption
<1> USE DEF TypeOK, SummaryRecord, IngesterState, WorkerState, IngesterPc, WorkerPc, Status,
            IdleIngester, IdleWorker
<1>0. ASSUME NEW a \in Article, NEW rec \in SummaryRecord, WriteSummary(a, rec)
      PROVE  /\ summary' \in [Article -> SummaryRecord]
             /\ versions' \in [Article -> SUBSET SummaryRecord]
  BY <1>0 DEF WriteSummary
<1>1. ASSUME NEW i \in Ingester, NEW a \in Article, PutRaw(i, a)
      PROVE  TypeOK'
  BY <1>1 DEF PutRaw
<1>2. ASSUME NEW i \in Ingester, NEW a \in Article, IngestDuplicate(i, a)
      PROVE  TypeOK'
  BY <1>2 DEF IngestDuplicate
<1>3. ASSUME NEW i \in Ingester, PutFeed(i)
      PROVE  TypeOK'
  BY <1>3 DEF PutFeed
<1>4. ASSUME NEW i \in Ingester, PutPending(i)
      PROVE  TypeOK'
  <2>1. ing[i].art \in Article
    BY <1>4 DEF PutPending
  <2>2. PendingIfAbsent(summary[ing[i].art]) \in SummaryRecord
    BY <2>1 DEF PendingIfAbsent
  <2> QED
    BY <1>0, <1>4, <2>1, <2>2 DEF PutPending
<1>5. ASSUME NEW i \in Ingester, NEW m \in Message, Enqueue(i, m)
      PROVE  TypeOK'
  BY <1>5 DEF Enqueue, Send, IngestJob, Job
<1>6. ASSUME NEW i \in Ingester, IngesterCrash(i)
      PROVE  TypeOK'
  BY <1>6 DEF IngesterCrash
<1>7. ASSUME NEW m \in Message, NEW job \in ManualJob, OperatorSend(m, job)
      PROVE  TypeOK'
  BY <1>7 DEF OperatorSend, Send
<1>8. ASSUME NEW m \in Message, ExpireAbandoned(m) \/ ExpireEarly(m)
      PROVE  TypeOK'
  BY <1>8 DEF ExpireAbandoned, ExpireEarly
<1>9. ASSUME NEW w \in Worker, NEW m \in Message, Receive(w, m)
      PROVE  TypeOK'
  BY <1>9 DEF Receive
<1>10. ASSUME NEW w \in Worker, SkipDone(w)
       PROVE  TypeOK'
  BY <1>10 DEF SkipDone, ReadyToAck
<1>11. ASSUME NEW w \in Worker, ReadState(w)
       PROVE  TypeOK'
  <2>1. JobOf(w).art \in Article
    BY <1>11 DEF ReadState, JobOf, Job
  <2>2. PICK rec \in Readable(JobOf(w).art) : wrk' = [wrk EXCEPT ![w] = StateRead(w, rec)]
    BY <1>11 DEF ReadState
  <2>3. rec \in SummaryRecord
    BY <2>1 DEF Readable
  <2>4. StateRead(w, rec) \in WorkerState /\ StateRead(w, rec).msg # None
    BY <1>11, <2>3 DEF StateRead, ReadState
  <2>5. StateRead(w, rec).pc # "idle"
    BY DEF StateRead
  <2> QED
    BY <1>11, <2>2, <2>4, <2>5 DEF ReadState
<1>12. ASSUME NEW w \in Worker, ReadRaw(w)
       PROVE  TypeOK'
  <2>1. PICK next \in {"llm", "missing"} : wrk' = [wrk EXCEPT ![w].pc = next]
    BY <1>12 DEF ReadRaw
  <2> QED
    BY <1>12, <2>1 DEF ReadRaw
<1>13. ASSUME NEW w \in Worker, MarkFailed(w)
       PROVE  TypeOK'
  <2>1. FailedRecord(wrk[w].retry) \in SummaryRecord
    BY DEF FailedRecord
  <2>2. JobOf(w).art \in Article
    BY <1>13 DEF MarkFailed, JobOf, Job
  <2> QED
    BY <1>0, <1>13, <2>1, <2>2 DEF MarkFailed, ReadyToAck
<1>14. ASSUME NEW w \in Worker, MarkDone(w)
       PROVE  TypeOK'
  <2>1. JobOf(w).art \in Article
    BY <1>14 DEF MarkDone, JobOf, Job
  <2>2. DoneRecord(summary[JobOf(w).art]) \in SummaryRecord
    BY <2>1 DEF DoneRecord
  <2> QED
    BY <1>0, <1>14, <2>1, <2>2 DEF MarkDone, ReadyToAck
<1>15. ASSUME NEW w \in Worker, Ack(w)
       PROVE  TypeOK'
  BY <1>15 DEF Ack
<1>16. ASSUME NEW w \in Worker, WorkerCrash(w)
       PROVE  TypeOK'
  BY <1>16 DEF WorkerCrash
<1>17. CASE UNCHANGED vars
  BY <1>17 DEF vars
<1>18. CASE Next
  BY <1>18, StepCases, <1>1, <1>2, <1>3, <1>4, <1>5, <1>6, <1>7, <1>8, <1>9, <1>10,
     <1>11, <1>12, <1>13, <1>14, <1>15, <1>16
<1>19. QED
  BY <1>17, <1>18

-----------------------------------------------------------------------------
(* Nothing in the table or in what was sent is ever taken back: items      *)
(* stay, a SUMMARY item stays, an outcome may change but not disappear,    *)
(* and a message keeps its job.                                            *)
Kept ==
  /\ raw \subseteq raw'
  /\ feed \subseteq feed'
  /\ \A a \in Article :
       /\ summary[a].status # "ABSENT" => summary'[a].status # "ABSENT"
       /\ summary[a].status \in Settled => summary'[a].status \in Settled
  /\ \A m \in Sent : sent'[m] = sent[m]

LEMMA StepKeeps ==
  ASSUME TypeOK, [Next]_vars
  PROVE  Kept
<1> USE DEF TypeOK, Kept, Sent, Settled
<1> USE DEF SummaryRecord, Status
<1>1. CASE /\ raw \subseteq raw' /\ feed \subseteq feed'
           /\ UNCHANGED <<summary, sent>>
  BY <1>1
<1>2. ASSUME NEW i \in Ingester, PutPending(i)
      PROVE  Kept
  BY <1>2 DEF PutPending, PendingIfAbsent, WriteSummary
<1>3. ASSUME NEW m \in Message, NEW job, Send(m, job), UNCHANGED <<raw, feed, summary>>
      PROVE  Kept
  BY <1>3 DEF Send
<1>4. ASSUME NEW w \in Worker, MarkFailed(w)
      PROVE  Kept
  BY <1>4 DEF MarkFailed, FailedRecord, WriteSummary
<1>5. ASSUME NEW w \in Worker, MarkDone(w)
      PROVE  Kept
  BY <1>5 DEF MarkDone, DoneRecord, WriteSummary
<1>6. CASE UNCHANGED vars
  BY <1>1, <1>6 DEF vars
<1>7. CASE Next
  <2>1. \/ \E i \in Ingester : PutPending(i)
        \/ \E w \in Worker : MarkFailed(w) \/ MarkDone(w)
        \/ \E m \in Message : \E job : Send(m, job) /\ UNCHANGED <<raw, feed, summary>>
        \/ /\ raw \subseteq raw' /\ feed \subseteq feed'
           /\ UNCHANGED <<summary, sent>>
    BY <1>7, StepCases DEF PutRaw, IngestDuplicate, PutFeed, IngesterCrash, Enqueue, OperatorSend,
       ExpireAbandoned, ExpireEarly, Receive, SkipDone, ReadState, ReadRaw, Ack, WorkerCrash
  <2> QED
    BY <2>1, <1>1, <1>2, <1>3, <1>4, <1>5
<1>8. QED
  BY <1>6, <1>7

LEMMA VersionsStep ==
  ASSUME TypeOK, Kept, VersionsFollowed, [Next]_vars
  PROVE  VersionsFollowed'
<1> USE DEF TypeOK, VersionsFollowed
<1>1. CASE UNCHANGED <<summary, versions>>
  BY <1>1
<1>2. ASSUME NEW a \in Article, NEW rec, WriteSummary(a, rec)
      PROVE  VersionsFollowed'
  <2>1. /\ summary' = [summary EXCEPT ![a] = rec]
        /\ versions' = [versions EXCEPT ![a] = @ \cup {rec}]
    BY <1>2 DEF WriteSummary
  <2>2. \A b \in Article : \A old \in versions[b] :
          old.status \in Settled => summary'[b].status \in Settled
    BY DEF Kept
  <2> QED
    BY <2>1, <2>2
<1>3. \/ \E i \in Ingester : PutPending(i)
      \/ \E w \in Worker : MarkFailed(w) \/ MarkDone(w)
      \/ UNCHANGED <<summary, versions>>
  BY StepCases DEF vars, PutRaw, IngestDuplicate, PutFeed, IngesterCrash, Enqueue, OperatorSend,
     ExpireAbandoned, ExpireEarly, Receive, SkipDone, ReadState, ReadRaw, Ack, WorkerCrash
<1>4. ASSUME NEW i \in Ingester, PutPending(i)
      PROVE  VersionsFollowed'
  BY <1>2, <1>4 DEF PutPending, IngesterState
<1>5. ASSUME NEW w \in Worker, MarkFailed(w) \/ MarkDone(w)
      PROVE  VersionsFollowed'
  <2>1. CASE JobOf(w).art \in Article
    BY <1>2, <1>5, <2>1 DEF MarkFailed, MarkDone
(* A write outside the domain changes nothing.                             *)
  <2>2. CASE JobOf(w).art \notin Article
    <3>1. UNCHANGED <<summary, versions>>
      BY <1>5, <2>2 DEF MarkFailed, MarkDone, WriteSummary
    <3> QED
      BY <1>1, <3>1
  <2> QED
    BY <2>1, <2>2
<1> QED
  BY <1>1, <1>3, <1>4, <1>5

-----------------------------------------------------------------------------
(* The part of the invariant that is about ingestion.                      *)
IngestInv == WrittenSoFar /\ SoleIngester /\ JobFollowsArticle /\ OneJobPerArticle

LEMMA IngestStep ==
  ASSUME TypeOK, TypeOK', Kept, IngestInv, [Next]_vars
  PROVE  IngestInv'
<1> USE ManualJobAssumption, NoneAssumption
<1> USE DEF IngestInv, WrittenSoFar, SoleIngester, JobFollowsArticle, OneJobPerArticle, Kept, Sent
<1>1. CASE UNCHANGED <<ing, sent>>
  BY <1>1 DEF TypeOK, Job
<1>2. ASSUME NEW i \in Ingester, NEW a \in Article, PutRaw(i, a)
      PROVE  IngestInv'
  <2>1. \A m \in Sent : ~sent[m].manual => sent[m].art # a
    BY <1>2 DEF PutRaw
  <2>2. \A j \in Ingester : ing[j].pc # "idle" => ing[j].art # a
    BY <1>2 DEF PutRaw
  <2>3. /\ ing' = [ing EXCEPT ![i] = [pc |-> "feed", art |-> a]]
        /\ raw' = raw \cup {a}
        /\ UNCHANGED <<feed, summary, sent>>
    BY <1>2 DEF PutRaw
  <2> QED
    BY <2>1, <2>2, <2>3 DEF TypeOK
<1>3. ASSUME NEW i \in Ingester, PutFeed(i)
      PROVE  IngestInv'
  BY <1>3 DEF PutFeed, TypeOK, IngesterState
<1>4. ASSUME NEW i \in Ingester, PutPending(i)
      PROVE  IngestInv'
  BY <1>4 DEF PutPending, PendingIfAbsent, WriteSummary, TypeOK, IngesterState, SummaryRecord
<1>5. ASSUME NEW i \in Ingester, IngesterCrash(i)
      PROVE  IngestInv'
  BY <1>5 DEF IngesterCrash, IdleIngester, TypeOK
<1>6. ASSUME NEW i \in Ingester, NEW m \in Message, Enqueue(i, m)
      PROVE  IngestInv'
  <2>1. /\ ing[i].pc = "enqueue"
        /\ ing' = [ing EXCEPT ![i] = IdleIngester]
        /\ sent' = [sent EXCEPT ![m] = IngestJob(ing[i].art)]
        /\ UNCHANGED <<raw, feed, summary>>
    BY <1>6 DEF Enqueue, Send
  <2>2. sent'[m].art = ing[i].art
    BY <2>1 DEF TypeOK, IngestJob
  <2>3. \A n \in Message : n # m => sent'[n] = sent[n]
    BY <2>1 DEF TypeOK
  <2>4. \A j \in Ingester : ing'[j].pc # "idle" => j # i /\ ing'[j] = ing[j]
    BY <2>1 DEF TypeOK, IdleIngester
  <2>5. /\ ing[i].art \in raw /\ ing[i].art \in feed
        /\ summary[ing[i].art].status # "ABSENT"
    BY <2>1
  <2>6. WrittenSoFar'
    BY <2>1, <2>4
  <2>7. SoleIngester'
    BY <2>1, <2>2, <2>3, <2>4
  <2>8. JobFollowsArticle'
    BY <2>1, <2>2, <2>3, <2>5
  <2>9. OneJobPerArticle'
    <3>1. ASSUME NEW n \in Sent', ~sent'[n].manual, sent'[n].art = ing[i].art
          PROVE  n = m
      BY <2>1, <2>3, <3>1
    <3> QED
      BY <2>2, <2>3, <3>1
  <2> QED
    BY <2>6, <2>7, <2>8, <2>9
<1>7. ASSUME NEW m \in Message, NEW job \in ManualJob, OperatorSend(m, job)
      PROVE  IngestInv'
  <2>1. sent' = [sent EXCEPT ![m] = job] /\ UNCHANGED <<raw, feed, summary, ing>>
    BY <1>7 DEF OperatorSend, Send
  <2>2. sent'[m].manual
    BY <2>1 DEF TypeOK
  <2> QED
    BY <2>1, <2>2 DEF TypeOK
<1>8. CASE UNCHANGED vars
  BY <1>1, <1>8 DEF vars
<1>9. CASE Next
  <2>1. \/ \E i \in Ingester, a \in Article : PutRaw(i, a)
        \/ \E i \in Ingester : PutFeed(i) \/ PutPending(i) \/ IngesterCrash(i)
        \/ \E i \in Ingester, m \in Message : Enqueue(i, m)
        \/ \E m \in Message, job \in ManualJob : OperatorSend(m, job)
        \/ UNCHANGED <<ing, sent>>
    BY <1>9, StepCases DEF IngestDuplicate, ExpireAbandoned, ExpireEarly, Receive, SkipDone,
       ReadState, ReadRaw, MarkFailed, MarkDone, Ack, WorkerCrash
  <2> QED
    BY <2>1, <1>1, <1>2, <1>3, <1>4, <1>5, <1>6, <1>7
<1>10. QED
  BY <1>8, <1>9

-----------------------------------------------------------------------------
(* The part of the invariant that is about consumption.                    *)
WorkInv ==
  /\ HeldWasSent
  /\ AckHasOutcome
  /\ NoJobLost
  /\ ReadAllowsWork

(* What the invariant says of one worker.                                  *)
WorkerInv(w) ==
  /\ wrk[w].pc # "idle" => wrk[w].msg \in Sent
  /\ wrk[w].pc = "ack" => summary[JobOf(w).art].status \in Settled
  /\ wrk[w].pc \in {"raw", "llm", "missing"} => (wrk[w].seen # "DONE" \/ JobOf(w).reprocess)

LEMMA WorkInvByWorker ==
  WorkInv <=> queue \subseteq Sent /\ NoJobLost /\ \A w \in Worker : WorkerInv(w)
BY DEF WorkInv, WorkerInv, HeldWasSent, AckHasOutcome, ReadAllowsWork

(* The job of a sent message stays, and so does the outcome of its article. *)
LEMMA SentKept ==
  ASSUME TypeOK, Kept
  PROVE  \A m \in Sent :
           /\ m \in Message /\ m \in Sent'
           /\ sent[m] \in Job /\ sent'[m] = sent[m]
           /\ sent[m].art \in Article
           /\ summary[sent[m].art].status \in Settled => summary'[sent[m].art].status \in Settled
<1> SUFFICES ASSUME NEW m \in Sent
             PROVE  /\ m \in Message /\ m \in Sent'
                    /\ sent[m] \in Job /\ sent'[m] = sent[m]
                    /\ sent[m].art \in Article
                    /\ summary[sent[m].art].status \in Settled =>
                         summary'[sent[m].art].status \in Settled
  OBVIOUS
<1>1. m \in Message /\ sent[m] # None /\ sent[m] \in Job
  BY DEF Sent, TypeOK
<1>2. sent'[m] = sent[m] /\ m \in Sent'
  BY <1>1 DEF Kept, Sent
<1>3. sent[m].art \in Article
  BY <1>1 DEF Job
<1> QED
  BY <1>1, <1>2, <1>3 DEF Kept

(* A worker that does not move keeps its part of the invariant.            *)
LEMMA OthersKept ==
  ASSUME TypeOK, Kept, NEW v \in Worker, WorkerInv(v), wrk'[v] = wrk[v]
  PROVE  WorkerInv(v)'
<1>1. CASE wrk[v].pc = "idle"
  BY <1>1 DEF WorkerInv
<1>2. CASE wrk[v].pc # "idle"
  BY <1>2, SentKept DEF WorkerInv, JobOf
<1> QED
  BY <1>1, <1>2

(* What is queued was sent, and what left the queue is settled.            *)
LEMMA QueuePartStep ==
  ASSUME TypeOK, TypeOK', Kept, WorkInv, [Next]_vars
  PROVE  (queue \subseteq Sent /\ NoJobLost)'
<1>1. CASE UNCHANGED <<queue, sent>>
  BY <1>1, SentKept DEF WorkInv, HeldWasSent, NoJobLost, Sent
<1>2. ASSUME NEW m \in Message, NEW job \in Job, Send(m, job)
      PROVE  (queue \subseteq Sent /\ NoJobLost)'
  <2>1. /\ sent' = [sent EXCEPT ![m] = job] /\ queue' = queue \cup {m}
        /\ job # None
    BY <1>2, NoneAssumption DEF Send
  <2>2. Sent' = Sent \cup {m}
    BY <1>2, <2>1 DEF Sent, TypeOK, Send
  <2>3. Sent' \ queue' \subseteq Sent \ queue
    BY <2>1, <2>2
  <2> QED
    BY <2>1, <2>2, <2>3, SentKept DEF WorkInv, HeldWasSent, NoJobLost
<1>3. ASSUME NEW w \in Worker, Ack(w)
      PROVE  (queue \subseteq Sent /\ NoJobLost)'
  <2>1. /\ queue' = queue \ {wrk[w].msg} /\ Sent' = Sent
        /\ sent' = sent /\ summary' = summary
        /\ wrk[w].pc = "ack"
    BY <1>3 DEF Ack, Sent
  <2>2. summary[sent[wrk[w].msg].art].status \in Settled
    BY <2>1 DEF WorkInv, AckHasOutcome, JobOf
  <2> QED
    BY <2>1, <2>2 DEF WorkInv, HeldWasSent, NoJobLost
<1>4. \/ \E m \in Message, job \in Job : Send(m, job)
      \/ \E w \in Worker : Ack(w)
      \/ UNCHANGED <<queue, sent>>
  <2>1. CASE UNCHANGED vars
    BY <2>1 DEF vars
  <2>2. ASSUME NEW i \in Ingester, NEW m \in Message, Enqueue(i, m)
        PROVE  \E job \in Job : Send(m, job)
    <3>1. IngestJob(ing[i].art) \in Job
      BY <2>2 DEF Enqueue, IngestJob, Job, TypeOK, IngesterState
    <3> QED
      BY <2>2, <3>1 DEF Enqueue
  <2>3. ASSUME NEW m \in Message, NEW job \in ManualJob, OperatorSend(m, job)
        PROVE  \E j \in Job : Send(m, j)
    BY <2>3, ManualJobAssumption DEF OperatorSend
  <2>4. CASE Next
    BY <2>2, <2>3, <2>4, StepCases DEF PutRaw, IngestDuplicate, PutFeed, PutPending, IngesterCrash,
       ExpireAbandoned, ExpireEarly, Receive, SkipDone, ReadState, ReadRaw, MarkFailed, MarkDone,
       WorkerCrash
  <2> QED
    BY <2>1, <2>4
<1> QED
  BY <1>1, <1>2, <1>3, <1>4

LEMMA WorkerPartStep ==
  ASSUME TypeOK, TypeOK', Kept, VersionsFollowed, JobFollowsArticle, WorkInv, [Next]_vars,
         NEW v \in Worker
  PROVE  WorkerInv(v)'
<1> USE DEF TypeOK
<1>1. WorkerInv(v) /\ queue \subseteq Sent
  BY WorkInvByWorker
<1>2. CASE wrk'[v] = wrk[v]
  BY <1>1, <1>2, OthersKept
(* A worker that goes on with the message it holds still holds a sent one. *)
<1>3. ASSUME wrk[v].pc # "idle"
      PROVE  /\ wrk[v].msg \in Sent' /\ sent'[wrk[v].msg] = sent[wrk[v].msg]
             /\ JobOf(v).art \in Article
             /\ summary[JobOf(v).art].status \in Settled =>
                  summary'[JobOf(v).art].status \in Settled
  BY <1>1, <1>3, SentKept DEF WorkerInv, JobOf
<1>4. ASSUME NEW m \in Message, Receive(v, m)
      PROVE  WorkerInv(v)'
  <2>1. wrk'[v].pc = "state" /\ wrk'[v].msg = m /\ m \in Sent'
    BY <1>1, <1>4, SentKept DEF Receive, IdleWorker
  <2> QED
    BY <2>1 DEF WorkerInv
<1>5. CASE SkipDone(v)
  <2>1. /\ wrk'[v].pc = "ack" /\ wrk'[v].msg = wrk[v].msg
        /\ wrk[v].pc # "idle" /\ \E rec \in Readable(JobOf(v).art) : rec.status \in Settled
    BY <1>5 DEF SkipDone, ReadyToAck, IdleWorker, Settled
  <2>2. summary[JobOf(v).art].status \in Settled
    BY <1>3, <2>1 DEF Readable, VersionsFollowed
  <2> QED
    BY <1>3, <2>1, <2>2 DEF WorkerInv, JobOf
<1>6. CASE ReadState(v)
  <2>1. /\ wrk'[v].pc = "raw" /\ wrk'[v].msg = wrk[v].msg
        /\ wrk[v].pc # "idle" /\ (wrk'[v].seen # "DONE" \/ JobOf(v).reprocess)
    BY <1>6 DEF ReadState, StateRead
  <2> QED
    BY <1>3, <2>1 DEF WorkerInv, JobOf
<1>7. CASE ReadRaw(v)
  <2>1. /\ wrk[v].pc = "raw" /\ wrk'[v].msg = wrk[v].msg /\ wrk'[v].seen = wrk[v].seen
        /\ wrk'[v].pc \in {"llm", "missing"}
    BY <1>7 DEF ReadRaw, WorkerState
  <2>2. sent'[wrk'[v].msg] = sent[wrk[v].msg] /\ wrk'[v].msg \in Sent'
    BY <1>3, <2>1
  <2>3. wrk'[v].seen # "DONE" \/ sent'[wrk'[v].msg].reprocess
    BY <1>1, <2>1, <2>2 DEF WorkerInv, JobOf
  <2>4. wrk'[v].pc # "ack"
    BY <2>1
  <2> QED
    BY <2>2, <2>3, <2>4 DEF WorkerInv, JobOf
<1>8. CASE MarkFailed(v) \/ MarkDone(v)
  <2>1. /\ wrk'[v].pc = "ack" /\ wrk'[v].msg = wrk[v].msg
        /\ wrk[v].pc # "idle" /\ sent' = sent
    <3>1. /\ wrk' = [wrk EXCEPT ![v] = ReadyToAck(v)]
          /\ wrk[v].pc # "idle" /\ sent' = sent
      BY <1>8 DEF MarkFailed, MarkDone
    <3> QED
      BY <3>1 DEF ReadyToAck, IdleWorker
  <2>2. summary'[JobOf(v).art].status \in Settled
    BY <1>3, <1>8, <2>1 DEF MarkFailed, MarkDone, FailedRecord, DoneRecord, WriteSummary, SummaryRecord,
       Settled
  <2> QED
    BY <1>3, <2>1, <2>2 DEF WorkerInv, JobOf
<1>9. CASE Ack(v) \/ WorkerCrash(v)
  BY <1>9 DEF Ack, WorkerCrash, IdleWorker, WorkerInv
<1>10. \/ wrk'[v] = wrk[v]
       \/ \E m \in Message : Receive(v, m)
       \/ SkipDone(v) \/ ReadState(v) \/ ReadRaw(v)
       \/ MarkFailed(v) \/ MarkDone(v) \/ Ack(v) \/ WorkerCrash(v)
  <2>1. CASE UNCHANGED vars
    BY <2>1 DEF vars
  <2>2. ASSUME NEW w \in Worker, w # v,
               \/ \E m \in Message : Receive(w, m)
               \/ SkipDone(w) \/ ReadState(w) \/ ReadRaw(w)
               \/ MarkFailed(w) \/ MarkDone(w) \/ Ack(w) \/ WorkerCrash(w)
        PROVE  wrk'[v] = wrk[v]
    BY <2>2 DEF Receive, SkipDone, ReadState, ReadRaw, MarkFailed, MarkDone, Ack, WorkerCrash
  <2>3. CASE Next
    BY <2>2, <2>3, StepCases DEF PutRaw, IngestDuplicate, PutFeed, PutPending, IngesterCrash,
       Enqueue, OperatorSend, ExpireAbandoned, ExpireEarly
  <2> QED
    BY <2>1, <2>3
<1> QED
  BY <1>2, <1>4, <1>5, <1>6, <1>7, <1>8, <1>9, <1>10

LEMMA WorkStep ==
  ASSUME TypeOK, TypeOK', Kept, VersionsFollowed, JobFollowsArticle, WorkInv, [Next]_vars
  PROVE  WorkInv'
<1>1. (queue \subseteq Sent /\ NoJobLost)'
  BY QueuePartStep
<1>2. \A w \in Worker : WorkerInv(w)'
  BY WorkerPartStep
<1>3. WorkInv' <=> (queue \subseteq Sent /\ NoJobLost)' /\ \A w \in Worker : WorkerInv(w)'
  BY DEF WorkInv, WorkerInv, HeldWasSent, AckHasOutcome, ReadAllowsWork
<1> QED
  BY <1>1, <1>2, <1>3

-----------------------------------------------------------------------------
(* The invariant holds of the specification.                               *)
LEMMA InitInvariant ==
  ASSUME Init
  PROVE  IInv
<1>1. TypeOK
  BY MaxFaultsAssumption DEF Init, TypeOK, SummaryRecord, Status, IngesterState, WorkerState,
     IngesterPc, WorkerPc, IdleIngester, IdleWorker, NoSummary
<1>2. Sent = {} /\ queue = {}
  BY DEF Init, Sent
<1>3. /\ \A i \in Ingester : ing[i].pc = "idle"
      /\ \A w \in Worker : wrk[w].pc = "idle"
  BY DEF Init, IdleIngester, IdleWorker
<1>4. VersionsFollowed
  BY DEF Init, VersionsFollowed
<1> QED
  BY <1>1, <1>2, <1>3, <1>4 DEF IInv, HeldWasSent, WrittenSoFar, SoleIngester, JobFollowsArticle,
     OneJobPerArticle, AckHasOutcome, NoJobLost, ReadAllowsWork

LEMMA StepInvariant ==
  ASSUME IInv, [Next]_vars
  PROVE  IInv'
<1>1. TypeOK'
  <2>1. \A w \in Worker : wrk[w].pc # "idle" => sent[wrk[w].msg] \in Job
    BY DEF IInv, HeldWasSent, Sent, TypeOK
  <2> QED
    BY <2>1, TypeStep DEF IInv
<1>2. Kept
  BY StepKeeps DEF IInv
<1>3. IngestInv'
  BY <1>1, <1>2, IngestStep DEF IInv, IngestInv
<1>4. WorkInv'
  BY <1>1, <1>2, WorkStep DEF IInv, WorkInv
<1>5. VersionsFollowed'
  BY <1>2, VersionsStep DEF IInv
<1> QED
  BY <1>1, <1>3, <1>4, <1>5 DEF IInv, IngestInv, WorkInv

THEOREM Invariant == Spec => []IInv
BY InitInvariant, StepInvariant, PTL DEF Spec

(* Every variable keeps its type.                                          *)
THEOREM TypeCorrect == Spec => []TypeOK
<1>1. IInv => TypeOK
  BY DEF IInv
<1> QED
  BY <1>1, Invariant, PTL

(* No job reaches a consumer before the article, its feed row and its      *)
(* SUMMARY item are in the table: ingest() writes them in that order.      *)
THEOREM JobFollowsArticleHolds == Spec => []JobFollowsArticle
<1>1. IInv => JobFollowsArticle
  BY DEF IInv
<1> QED
  BY <1>1, Invariant, PTL

(* Any number of ingesters enqueue an article at most once between them.   *)
THEOREM OneJobPerArticleHolds == Spec => []OneJobPerArticle
<1>1. IInv => OneJobPerArticle
  BY DEF IInv
<1> QED
  BY <1>1, Invariant, PTL

(* However many crashes, early timeouts and redeliveries happen, a message *)
(* that has left the queue has its outcome in the table.                   *)
THEOREM NoJobLostHolds == Spec => []NoJobLost
<1>1. IInv => NoJobLost
  BY DEF IInv
<1> QED
  BY <1>1, Invariant, PTL

(* Completeness stays, and so does whoever is at work on an article, until *)
(* the job is sent or a fault is counted.                                  *)
LEMMA OrphanStep ==
  ASSUME IInv, TypeOK', Kept, OrphanNeedsFault, [Next]_vars
  PROVE  OrphanNeedsFault'
<1> USE NoneAssumption
<1>1. ASSUME NEW a \in Article, Complete(a)
      PROVE  Complete(a)'
  <2>1. PICK m \in Sent : sent[m] = IngestJob(a)
    BY <1>1 DEF Complete, IngestMessages
  <2>2. m \in Sent' /\ sent'[m] = IngestJob(a)
    BY <2>1 DEF Kept, Sent
  <2> QED
    BY <1>1, <2>2 DEF Kept, Complete, IngestMessages
<1>2. ASSUME UNCHANGED <<raw, ing, faults>>
      PROVE  OrphanNeedsFault'
  <2>1. SUFFICES ASSUME NEW a \in raw
                 PROVE  Complete(a)' \/ Ingesting(a)' \/ faults > 0
    BY <1>2 DEF OrphanNeedsFault
  <2>2. a \in Article
    BY DEF IInv, TypeOK
  <2>3. Ingesting(a) => Ingesting(a)'
    BY <1>2 DEF Ingesting
  <2> QED
    BY <1>1, <2>2, <2>3 DEF OrphanNeedsFault
<1>3. ASSUME faults' > 0
      PROVE  OrphanNeedsFault'
  BY <1>3 DEF OrphanNeedsFault
<1>4. ASSUME NEW i \in Ingester, NEW b \in Article, UNCHANGED faults, raw' = raw \cup {b},
             ing' = [ing EXCEPT ![i] = [pc |-> "feed", art |-> b]], ing[i].pc = "idle"
      PROVE  OrphanNeedsFault'
  <2>1. ing'[i].art = b
    BY <1>4 DEF IInv, TypeOK
  <2>2. \A a \in Article : Ingesting(a) => Ingesting(a)'
    BY <1>4 DEF Ingesting, IInv, TypeOK
  <2>3. Ingesting(b)'
    BY <2>1 DEF Ingesting
  <2> QED
    BY <1>1, <1>4, <2>2, <2>3 DEF OrphanNeedsFault, IInv, TypeOK
<1>5. ASSUME NEW i \in Ingester, UNCHANGED <<raw, faults>>,
             \A j \in Ingester : ing'[j].art = ing[j].art
      PROVE  OrphanNeedsFault'
  <2>1. \A a \in Article : Ingesting(a) => Ingesting(a)'
    BY <1>5 DEF Ingesting
  <2> QED
    BY <1>1, <1>5, <2>1 DEF OrphanNeedsFault, IInv, TypeOK
<1>6. ASSUME NEW i \in Ingester, NEW m \in Message, Enqueue(i, m)
      PROVE  OrphanNeedsFault'
  <2>0. PICK b \in Article : b = ing[i].art
    BY <1>6 DEF Enqueue, IInv, WrittenSoFar, TypeOK
  <2>1. /\ ing[i].pc = "enqueue"
        /\ ing' = [ing EXCEPT ![i] = IdleIngester]
        /\ sent' = [sent EXCEPT ![m] = IngestJob(b)]
        /\ UNCHANGED <<raw, feed, summary, faults>>
    BY <1>6, <2>0 DEF Enqueue, Send
  <2>2. b \in raw \cap feed /\ summary'[b].status # "ABSENT"
    BY <2>0, <2>1 DEF IInv, WrittenSoFar, TypeOK
  <2>3. sent'[m] = IngestJob(b) /\ IngestJob(b) \in Job
    BY <2>1 DEF IInv, TypeOK, IngestJob, Job
  <2>4. m \in IngestMessages(b)'
    BY <2>3 DEF IngestMessages, Sent
  <2>5. Complete(b)'
    BY <2>1, <2>2, <2>4 DEF Complete
  <2>6. \A a \in Article : (a # b /\ Ingesting(a)) => Ingesting(a)'
    BY <2>0, <2>1 DEF Ingesting, IInv, TypeOK
  <2> QED
    BY <1>1, <2>1, <2>5, <2>6 DEF OrphanNeedsFault, IInv, TypeOK
<1>7. CASE UNCHANGED vars
  BY <1>2, <1>7 DEF vars
<1>8. CASE Next
  <2>1. ASSUME NEW i \in Ingester, NEW a \in Article, PutRaw(i, a)
        PROVE  OrphanNeedsFault'
    BY <1>4, <2>1 DEF PutRaw
  <2>2. ASSUME NEW i \in Ingester, PutFeed(i) \/ PutPending(i)
        PROVE  OrphanNeedsFault'
    BY <1>5, <2>2 DEF PutFeed, PutPending, IInv, TypeOK, IngesterState
  <2>3. ASSUME faults' = faults + 1
        PROVE  OrphanNeedsFault'
    BY <1>3, <2>3 DEF IInv, TypeOK
  <2>4. \/ \E i \in Ingester, a \in Article : PutRaw(i, a)
        \/ \E i \in Ingester : PutFeed(i) \/ PutPending(i)
        \/ \E i \in Ingester, m \in Message : Enqueue(i, m)
        \/ faults' = faults + 1
        \/ UNCHANGED <<raw, ing, faults>>
    BY <1>8, StepCases DEF IngestDuplicate, IngesterCrash, OperatorSend, ExpireAbandoned,
       ExpireEarly, Receive, SkipDone, ReadState, ReadRaw, MarkFailed, MarkDone, Ack, WorkerCrash
  <2> QED
    BY <1>2, <1>6, <2>1, <2>2, <2>3, <2>4
<1> QED
  BY <1>7, <1>8

(* Without a fault no article is stored and then forgotten: it is complete *)
(* or an ingester is at work on it.                                        *)
THEOREM OrphanNeedsFaultHolds == Spec => []OrphanNeedsFault
<1>1. ASSUME Init
      PROVE  OrphanNeedsFault
  BY <1>1 DEF Init, OrphanNeedsFault
<1>2. ASSUME IInv, IInv', OrphanNeedsFault, [Next]_vars
      PROVE  OrphanNeedsFault'
  BY <1>2, OrphanStep, StepKeeps DEF IInv
<1> QED
  BY <1>1, <1>2, Invariant, PTL DEF Spec

(* A published summary is overwritten only by a worker that read before it *)
(* was DONE, or that was told to reprocess.                                *)
THEOREM PublishedLostOnlyToStaleReadHolds == Spec => PublishedLostOnlyToStaleRead
<1> DEFINE Withdrawal(a) ==
      (summary[a].status = "DONE" /\ summary'[a].status # "DONE") =>
         \E w \in Worker :
           /\ wrk[w].pc \in {"llm", "missing"}
           /\ JobOf(w).art = a
           /\ wrk[w].seen # "DONE" \/ JobOf(w).reprocess
<1>1. ASSUME IInv, [Next]_vars, NEW a \in Article
      PROVE  Withdrawal(a)
  <2> SUFFICES ASSUME summary[a].status = "DONE", summary'[a].status # "DONE"
               PROVE  \E w \in Worker :
                        /\ wrk[w].pc \in {"llm", "missing"}
                        /\ JobOf(w).art = a
                        /\ wrk[w].seen # "DONE" \/ JobOf(w).reprocess
    OBVIOUS
  <2>1. summary \in [Article -> SummaryRecord]
    BY <1>1 DEF IInv, TypeOK
  <2>2. summary' # summary
    OBVIOUS
  <2>3. ASSUME NEW i \in Ingester, PutPending(i)
        PROVE  FALSE
    BY <2>1, <2>3 DEF PutPending, PendingIfAbsent, WriteSummary
  <2>4. ASSUME NEW w \in Worker, MarkDone(w)
        PROVE  FALSE
    BY <2>1, <2>4 DEF MarkDone, DoneRecord, WriteSummary, SummaryRecord
  <2>5. PICK w \in Worker : MarkFailed(w)
    BY <1>1, <2>2, <2>3, <2>4, StepCases DEF vars, PutRaw, IngestDuplicate, PutFeed, IngesterCrash,
       Enqueue, OperatorSend, ExpireAbandoned, ExpireEarly, Receive, SkipDone, ReadState, ReadRaw,
       Ack, WorkerCrash
  <2>6. wrk[w].pc \in {"llm", "missing"} /\ JobOf(w).art = a
    BY <2>1, <2>5 DEF MarkFailed, WriteSummary
  <2> QED
    BY <1>1, <2>6 DEF IInv, ReadAllowsWork
<1>2. ASSUME IInv, [Next]_vars
      PROVE  [\A a \in Article : Withdrawal(a)]_vars
  BY <1>1, <1>2
<1> QED
  BY <1>2, Invariant, PTL DEF Spec, PublishedLostOnlyToStaleRead

-----------------------------------------------------------------------------
(* Without a fault a message has one delivery.                             *)

(* Every message at work is hidden, and one worker holds it.               *)
HeldAlone ==
  /\ \A w \in Worker : wrk[w].msg # None => wrk[w].msg \in hidden
  /\ \A v, w \in Worker : (wrk[v].msg # None /\ wrk[v].msg = wrk[w].msg) => v = w

(* Message m will not be worked on again: it is deleted, or about to be.   *)
Spent(m) == m \in queue => \E w \in Worker : wrk[w].msg = m /\ wrk[w].pc = "ack"

(* An article with an outcome has had its delivery.                        *)
SettledBySpent ==
  \A a \in Article :
    (summary[a].status \in Settled /\ ~Manual(a)) => \E m \in Sent : sent[m].art = a /\ Spent(m)

OneDelivery == faults > 0 \/ (HeldAlone /\ SettledBySpent)

(* A step of worker w that keeps its message.                              *)
KeepsMessage(w) ==
  /\ \E s : wrk' = [wrk EXCEPT ![w] = s] /\ s.msg = wrk[w].msg
  /\ wrk[w].pc # "ack"
  /\ UNCHANGED <<sent, queue, hidden>>

LEMMA WorkKeepsMessage ==
  ASSUME TypeOK, NEW w \in Worker,
         SkipDone(w) \/ ReadState(w) \/ ReadRaw(w) \/ MarkFailed(w) \/ MarkDone(w)
  PROVE  KeepsMessage(w)
<1>1. ReadyToAck(w).msg = wrk[w].msg /\ \A rec : StateRead(w, rec).msg = wrk[w].msg
  BY DEF ReadyToAck, IdleWorker, StateRead
<1>2. \A pc : [wrk[w] EXCEPT !.pc = pc].msg = wrk[w].msg
  BY DEF TypeOK, WorkerState
<1>3. CASE SkipDone(w) \/ MarkFailed(w) \/ MarkDone(w)
  BY <1>1, <1>3 DEF SkipDone, MarkFailed, MarkDone, KeepsMessage
<1>4. CASE ReadState(w)
  BY <1>1, <1>4 DEF ReadState, KeepsMessage
<1>5. CASE ReadRaw(w)
  BY <1>2, <1>5 DEF ReadRaw, KeepsMessage
<1> QED
  BY <1>3, <1>4, <1>5

(* The steps without a fault, by what they do to messages.                 *)
LEMMA MessageCases ==
  ASSUME TypeOK, [Next]_vars
  PROVE  \/ faults' = faults + 1
         \/ UNCHANGED <<sent, queue, hidden, wrk>>
         \/ \E m \in Message : /\ \E job \in Job : Send(m, job)
                               /\ UNCHANGED <<summary, versions, wrk, faults>>
         \/ \E m \in Message : ExpireAbandoned(m)
         \/ \E w \in Worker, m \in Message : Receive(w, m)
         \/ \E w \in Worker : KeepsMessage(w)
         \/ \E w \in Worker : Ack(w)
<1>1. ASSUME NEW i \in Ingester, NEW m \in Message, Enqueue(i, m)
      PROVE  /\ \E job \in Job : Send(m, job)
             /\ UNCHANGED <<summary, versions, wrk, faults>>
  <2>1. ing[i].art \in Article
    BY <1>1 DEF Enqueue, TypeOK, IngesterState
  <2>2. IngestJob(ing[i].art) \in Job
    BY <2>1 DEF IngestJob, Job
  <2> QED
    BY <1>1, <2>2 DEF Enqueue
<1>2. ASSUME NEW m \in Message, NEW job \in ManualJob, OperatorSend(m, job)
      PROVE  /\ \E j \in Job : Send(m, j)
             /\ UNCHANGED <<summary, versions, wrk, faults>>
  BY <1>2, ManualJobAssumption DEF OperatorSend
<1>3. CASE UNCHANGED vars
  BY <1>3 DEF vars
<1>4. CASE Next
  BY <1>1, <1>2, <1>4, StepCases, WorkKeepsMessage DEF PutRaw, IngestDuplicate, PutFeed, PutPending,
     IngesterCrash, ExpireEarly, WorkerCrash
<1> QED
  BY <1>3, <1>4

LEMMA HeldAloneStep ==
  ASSUME TypeOK, HeldAlone, [Next]_vars, faults' = faults
  PROVE  HeldAlone'
<1> USE NoneAssumption DEF HeldAlone
<1>1. CASE UNCHANGED <<hidden, wrk>>
  BY <1>1
<1>2. ASSUME NEW m \in Message, ExpireAbandoned(m)
      PROVE  HeldAlone'
  BY <1>2 DEF ExpireAbandoned, Working
<1>3. ASSUME NEW w \in Worker, NEW m \in Message, Receive(w, m)
      PROVE  HeldAlone'
  <2>1. /\ \A v \in Worker : v # w => wrk'[v] = wrk[v] /\ wrk[v].msg # m
        /\ wrk'[w].msg = m
        /\ hidden' = hidden \cup {m}
    BY <1>3 DEF Receive, TypeOK, IdleWorker
  <2> QED
    BY <2>1
<1>4. ASSUME NEW w \in Worker, KeepsMessage(w)
      PROVE  HeldAlone'
  <2>1. \A v \in Worker : wrk'[v].msg = wrk[v].msg
    BY <1>4 DEF KeepsMessage, TypeOK
  <2> QED
    BY <1>4, <2>1 DEF KeepsMessage
<1>5. ASSUME NEW w \in Worker, Ack(w)
      PROVE  HeldAlone'
  <2>1. /\ \A v \in Worker : v # w => wrk'[v] = wrk[v] /\ (wrk[v].msg # None => wrk[v].msg # wrk[w].msg)
        /\ wrk'[w].msg = None
        /\ hidden' = hidden \ {wrk[w].msg}
    BY <1>5 DEF Ack, TypeOK, IdleWorker
  <2> QED
    BY <2>1
<1>6. faults \in Nat
  BY MaxFaultsAssumption DEF TypeOK
<1> QED
  BY <1>1, <1>2, <1>3, <1>4, <1>5, <1>6, MessageCases DEF Send

(* A message that is spent stays spent.                                    *)
LEMMA SpentStays ==
  ASSUME IInv, HeldAlone, [Next]_vars, faults' = faults, NEW m \in Sent, Spent(m)
  PROVE  Spent(m)'
<1> USE NoneAssumption DEF Spent
<1>0. TypeOK /\ faults \in Nat /\ m \in Message
  BY MaxFaultsAssumption DEF IInv, TypeOK, Sent
<1>1. CASE UNCHANGED <<queue, wrk>>
  BY <1>1
<1>2. ASSUME NEW n \in Message, NEW job \in Job, Send(n, job), UNCHANGED wrk
      PROVE  Spent(m)'
  BY <1>0, <1>2 DEF Send, Sent
<1>3. ASSUME NEW w \in Worker, NEW n \in Message, Receive(w, n)
      PROVE  Spent(m)'
  BY <1>0, <1>3 DEF Receive, TypeOK
<1>4. ASSUME NEW w \in Worker, KeepsMessage(w)
      PROVE  Spent(m)'
  BY <1>0, <1>4 DEF KeepsMessage, TypeOK
<1>5. ASSUME NEW w \in Worker, Ack(w)
      PROVE  Spent(m)'
  BY <1>0, <1>5 DEF Ack, TypeOK
<1> QED
  BY <1>0, <1>1, <1>2, <1>3, <1>4, <1>5, MessageCases DEF ExpireAbandoned

LEMMA SettledBySpentStep ==
  ASSUME IInv, HeldAlone, SettledBySpent, [Next]_vars, faults' = faults
  PROVE  SettledBySpent'
<1>0. TypeOK /\ Kept
  BY StepKeeps DEF IInv
<1>1. ASSUME NEW a \in Article, NEW m \in Sent, sent[m].art = a, Spent(m)'
      PROVE  \E n \in Sent' : sent'[n].art = a /\ Spent(n)'
  BY <1>0, <1>1, SentKept
<1>2. ASSUME NEW a \in Article, Manual(a)
      PROVE  Manual(a)'
  BY <1>0, <1>2, SentKept DEF Manual
(* An outcome that was there, or a mark that has just been made.           *)
<1>3. ASSUME NEW a \in Article, summary'[a].status \in Settled, ~Manual(a)'
      PROVE  \E m \in Sent' : sent'[m].art = a /\ Spent(m)'
  <2>1. CASE summary[a].status \in Settled
    BY <1>1, <1>2, <1>3, <2>1, SpentStays DEF SettledBySpent
  <2>2. ASSUME NEW w \in Worker, MarkFailed(w) \/ MarkDone(w), JobOf(w).art = a
        PROVE  \E m \in Sent' : sent'[m].art = a /\ Spent(m)'
    <3>1. wrk[w].msg \in Sent
      BY <2>2 DEF MarkFailed, MarkDone, IInv, HeldWasSent
    <3>2. wrk'[w] = ReadyToAck(w)
      BY <1>0, <2>2 DEF MarkFailed, MarkDone, TypeOK
    <3>3. wrk'[w].msg = wrk[w].msg /\ wrk'[w].pc = "ack"
      BY <3>2 DEF ReadyToAck, IdleWorker
    <3> QED
      BY <1>1, <2>2, <3>1, <3>3 DEF Spent, JobOf
  <2>3. CASE /\ summary[a].status \notin Settled
             /\ \A w \in Worker : (MarkFailed(w) \/ MarkDone(w)) => JobOf(w).art # a
    <3>1. ASSUME NEW i \in Ingester, PutPending(i)
          PROVE  FALSE
      BY <1>0, <1>3, <2>3, <3>1 DEF PutPending, PendingIfAbsent, WriteSummary, TypeOK, Settled
    <3>2. ASSUME NEW w \in Worker, MarkFailed(w) \/ MarkDone(w)
          PROVE  FALSE
      BY <1>0, <1>3, <2>3, <3>2 DEF MarkFailed, MarkDone, WriteSummary, TypeOK
    <3>3. summary' = summary
      BY <3>1, <3>2, StepCases DEF vars, PutRaw, IngestDuplicate, PutFeed, IngesterCrash, Enqueue,
         OperatorSend, ExpireAbandoned, ExpireEarly, Receive, SkipDone, ReadState, ReadRaw, Ack,
         WorkerCrash
    <3> QED
      BY <1>3, <2>3, <3>3
  <2> QED
    BY <2>1, <2>2, <2>3
<1> QED
  BY <1>3 DEF SettledBySpent

LEMMA OneDeliveryInvariant == Spec => [](IInv /\ OneDelivery)
<1>1. ASSUME Init
      PROVE  OneDelivery
  BY <1>1 DEF Init, OneDelivery, HeldAlone, SettledBySpent, IdleWorker, NoSummary, Settled
<1>2. ASSUME IInv, IInv', OneDelivery, [Next]_vars
      PROVE  OneDelivery'
  <2>1. faults' = faults \/ faults' = faults + 1
    BY <1>2, StepCases DEF vars, PutRaw, IngestDuplicate, PutFeed, PutPending, IngesterCrash,
       Enqueue, OperatorSend, ExpireAbandoned, ExpireEarly, Receive, SkipDone, ReadState, ReadRaw,
       MarkFailed, MarkDone, Ack, WorkerCrash
  <2>2. faults \in Nat
    BY <1>2, MaxFaultsAssumption DEF IInv, TypeOK
  <2>3. CASE faults' > 0
    BY <2>3 DEF OneDelivery
  <2>4. CASE faults = 0 /\ faults' = faults
    BY <1>2, <2>4, HeldAloneStep, SettledBySpentStep DEF OneDelivery, IInv
  <2> QED
    BY <2>1, <2>2, <2>3, <2>4
<1> QED
  BY <1>1, <1>2, Invariant, PTL DEF Spec

(* An article whose one job is being worked on has no outcome yet.         *)
LEMMA NoOutcomeYet ==
  ASSUME IInv, OneDelivery, ~(faults > 0), NEW w \in Worker,
         wrk[w].pc \in {"llm", "missing"}, ~Manual(JobOf(w).art)
  PROVE  summary[JobOf(w).art].status \notin Settled
<1> DEFINE a == JobOf(w).art
<1>1. TypeOK /\ HeldAlone /\ SettledBySpent
  BY DEF IInv, OneDelivery
<1>2. /\ wrk[w].msg # None /\ wrk[w].msg \in Sent /\ wrk[w].msg \in queue
      /\ JobOf(w) \in Job /\ a \in Article
  BY <1>1, NoneAssumption DEF TypeOK, IInv, HeldWasSent, HeldAlone, JobOf, Sent, Job
<1> SUFFICES ASSUME summary[a].status \in Settled
             PROVE  FALSE
  OBVIOUS
<1>3. PICK n \in Sent : sent[n].art = a /\ Spent(n)
  BY <1>1, <1>2 DEF SettledBySpent
<1>4. n = wrk[w].msg
  BY <1>2, <1>3 DEF Manual, JobOf, IInv, OneJobPerArticle
<1> QED
  BY <1>1, <1>2, <1>3, <1>4 DEF Spent, HeldAlone

(* Without a fault, and without a job sent by hand for the article, a      *)
(* published summary stays: it takes a second delivery of its one job to   *)
(* withdraw it.                                                            *)
THEOREM WithdrawalNeedsRedeliveryHolds == Spec => WithdrawalNeedsRedelivery
<1>1. ASSUME IInv, OneDelivery, [Next]_vars, NEW a \in Article,
             summary[a].status = "DONE", summary'[a].status # "DONE", ~(faults > 0), ~Manual(a)
      PROVE  FALSE
  <2>0. TypeOK
    BY <1>1 DEF IInv
  <2>1. ASSUME NEW i \in Ingester, PutPending(i)
        PROVE  FALSE
    BY <1>1, <2>0, <2>1 DEF PutPending, PendingIfAbsent, WriteSummary, TypeOK
  <2>2. ASSUME NEW w \in Worker, MarkDone(w)
        PROVE  FALSE
    BY <1>1, <2>0, <2>2 DEF MarkDone, DoneRecord, WriteSummary, TypeOK, SummaryRecord
  <2>3. PICK w \in Worker : MarkFailed(w)
    BY <1>1, <2>1, <2>2, StepCases DEF vars, PutRaw, IngestDuplicate, PutFeed, IngesterCrash,
       Enqueue, OperatorSend, ExpireAbandoned, ExpireEarly, Receive, SkipDone, ReadState, ReadRaw,
       Ack, WorkerCrash
  <2>4. wrk[w].pc \in {"llm", "missing"} /\ JobOf(w).art = a
    BY <1>1, <2>0, <2>3 DEF MarkFailed, WriteSummary, TypeOK
  <2> QED
    BY <1>1, <2>4, NoOutcomeYet DEF Settled
<1>2. ASSUME IInv, OneDelivery, [Next]_vars
      PROVE  [\A a \in Article :
                (summary[a].status = "DONE" /\ summary'[a].status # "DONE") =>
                  faults > 0 \/ Manual(a)]_vars
  BY <1>1, <1>2
<1> QED
  BY <1>2, OneDeliveryInvariant, PTL DEF Spec, WithdrawalNeedsRedelivery

(* Until it has an outcome, an article has no failure on record.           *)
NoFailureYet == \A a \in Article : summary[a].status \notin Settled => summary[a].retry = 0

LEMMA NoFailureYetStep ==
  ASSUME TypeOK, NoFailureYet, [Next]_vars
  PROVE  NoFailureYet'
<1>1. ASSUME NEW i \in Ingester, PutPending(i)
      PROVE  NoFailureYet'
  BY <1>1 DEF PutPending, PendingIfAbsent, WriteSummary, NoFailureYet, TypeOK
<1>2. ASSUME NEW w \in Worker, MarkFailed(w) \/ MarkDone(w)
      PROVE  NoFailureYet'
  <2>1. PICK a, rec : summary' = [summary EXCEPT ![a] = rec] /\ rec.status \in Settled
    BY <1>2 DEF MarkFailed, MarkDone, FailedRecord, DoneRecord, WriteSummary, Settled, TypeOK,
       SummaryRecord
  <2> QED
    BY <2>1 DEF NoFailureYet, TypeOK
<1>3. CASE UNCHANGED summary
  BY <1>3 DEF NoFailureYet
<1> QED
  BY <1>1, <1>2, <1>3, StepCases DEF vars, PutRaw, IngestDuplicate, PutFeed, IngesterCrash,
     Enqueue, OperatorSend, ExpireAbandoned, ExpireEarly, Receive, SkipDone, ReadState, ReadRaw,
     Ack, WorkerCrash

(* A failure that does not raise the retry count is that of a second       *)
(* delivery: without one the article has no outcome and its count is 0.    *)
THEOREM LostIncrementNeedsRedeliveryHolds == Spec => LostIncrementNeedsRedelivery
<1> DEFINE Fails(w) == /\ wrk[w].pc \in {"llm", "missing"} /\ wrk'[w].pc = "ack"
                       /\ summary'[JobOf(w).art].status = "FAILED"
           Counts(w) == \/ summary'[JobOf(w).art].retry > summary[JobOf(w).art].retry
                        \/ faults > 0 \/ Manual(JobOf(w).art)
<1>1. ASSUME IInv, OneDelivery, NoFailureYet, [Next]_vars, NEW w \in Worker, Fails(w)
      PROVE  Counts(w)
  <2> DEFINE a == JobOf(w).art
  <2> SUFFICES ASSUME ~(faults > 0), ~Manual(a)
               PROVE  summary'[a].retry > summary[a].retry
    OBVIOUS
  <2>1. TypeOK /\ a \in Article
    BY <1>1, NoneAssumption DEF IInv, TypeOK, HeldWasSent, JobOf, Sent, Job
  <2>2. summary[a].status \notin Settled /\ summary[a].retry = 0
    BY <1>1, <2>1, NoOutcomeYet DEF NoFailureYet
  <2>3. ASSUME NEW v \in Worker, MarkDone(v)
        PROVE  FALSE
    BY <1>1, <2>1, <2>2, <2>3 DEF MarkDone, DoneRecord, WriteSummary, Settled, TypeOK, SummaryRecord
  <2>4. ASSUME NEW i \in Ingester, PutPending(i)
        PROVE  FALSE
    BY <1>1, <2>1, <2>2, <2>4 DEF PutPending, PendingIfAbsent, WriteSummary, Settled, TypeOK
  <2>5. summary' # summary
    BY <1>1, <2>2 DEF Settled
  <2>6. PICK v \in Worker : MarkFailed(v)
    BY <1>1, <2>3, <2>4, <2>5, StepCases DEF vars, PutRaw, IngestDuplicate, PutFeed,
       IngesterCrash, Enqueue, OperatorSend, ExpireAbandoned, ExpireEarly, Receive, SkipDone,
       ReadState, ReadRaw, Ack, WorkerCrash
  <2>7. summary' = [summary EXCEPT ![JobOf(v).art] = FailedRecord(wrk[v].retry)]
    BY <2>6 DEF MarkFailed, WriteSummary
  <2>8. summary'[a] = FailedRecord(wrk[v].retry)
    BY <1>1, <2>1, <2>2, <2>7 DEF Settled, TypeOK
  <2>9. wrk[v].retry \in Nat
    BY <2>1 DEF TypeOK, WorkerState
  <2> QED
    BY <2>2, <2>8, <2>9 DEF FailedRecord
<1>2. Init => NoFailureYet
  BY DEF Init, NoFailureYet, NoSummary
<1>3. IInv /\ NoFailureYet /\ [Next]_vars => NoFailureYet'
  BY NoFailureYetStep DEF IInv
<1>4. IInv /\ OneDelivery /\ NoFailureYet /\ [Next]_vars =>
        [\A w \in Worker :
           LET a == JobOf(w).art IN
             (/\ wrk[w].pc \in {"llm", "missing"} /\ wrk'[w].pc = "ack"
              /\ summary'[a].status = "FAILED")
             => summary'[a].retry > summary[a].retry \/ faults > 0 \/ Manual(a)]_vars
  BY <1>1
<1> QED
  BY <1>2, <1>3, <1>4, OneDeliveryInvariant, PTL DEF Spec, LostIncrementNeedsRedelivery

-----------------------------------------------------------------------------
(* Every attempt takes a delivery: the attempts still to come for an       *)
(* article are the workers at work on its jobs and the messages that can   *)
(* be received, and those that were ever possible are the jobs sent and    *)
(* the faults.                                                             *)
AtWork == {"state", "raw", "llm", "missing"}
Carriers(a) == {w \in Worker : wrk[w].pc \in AtWork /\ JobOf(w).art = a}
Deliverable(a) == {m \in queue : sent[m].art = a /\ (m \notin hidden \/ ~Working(m))}
SentFor(a) == {m \in Sent : sent[m].art = a}

ToCome(a) == Cardinality(Carriers(a)) + Cardinality(Deliverable(a))
Possible(a) == Cardinality(SentFor(a)) + faults

(* A count of n failures leaves room for the attempts to come.             *)
Counted(a, n) == n + ToCome(a) <= Possible(a)

(* Every count on record has its room, and so has every count that a       *)
(* worker has read.                                                        *)
RecordsHaveRoom ==
  \A a \in Article :
    /\ NoSummary \in versions[a]
    /\ summary[a] \in versions[a]
    /\ \A rec \in versions[a] : Counted(a, rec.retry)

CountsHaveRoom ==
  /\ RecordsHaveRoom
  /\ \A w \in Worker :
       wrk[w].pc \in {"raw", "llm", "missing"} => Counted(JobOf(w).art, wrk[w].retry)

FinitelyMany == IsFiniteSet(Message) /\ IsFiniteSet(Worker)

LEMMA CountTypes ==
  ASSUME FinitelyMany, TypeOK, NEW a
  PROVE  /\ IsFiniteSet(Carriers(a)) /\ IsFiniteSet(Deliverable(a)) /\ IsFiniteSet(SentFor(a))
         /\ Cardinality(Carriers(a)) \in Nat
         /\ Cardinality(Deliverable(a)) \in Nat
         /\ Cardinality(SentFor(a)) \in Nat
         /\ ToCome(a) \in Nat /\ Possible(a) \in Nat
<1>1. /\ Carriers(a) \subseteq Worker /\ Deliverable(a) \subseteq Message
      /\ SentFor(a) \subseteq Message
  BY DEF Carriers, Deliverable, SentFor, Sent, TypeOK
<1>2. IsFiniteSet(Carriers(a)) /\ IsFiniteSet(Deliverable(a)) /\ IsFiniteSet(SentFor(a))
  BY <1>1, FS_Subset DEF FinitelyMany
<1>3. faults \in Nat
  BY MaxFaultsAssumption DEF TypeOK
<1> QED
  BY <1>2, <1>3, FS_CardinalityType DEF ToCome, Possible

LEMMA NextCountTypes ==
  ASSUME FinitelyMany, TypeOK', NEW a
  PROVE  /\ Cardinality(Carriers(a)') \in Nat
         /\ Cardinality(Deliverable(a)') \in Nat
         /\ Cardinality(SentFor(a)') \in Nat
         /\ faults' \in Nat
<1>1. /\ Carriers(a)' \subseteq Worker /\ Deliverable(a)' \subseteq Message
      /\ SentFor(a)' \subseteq Message
  BY DEF Carriers, Deliverable, SentFor, Sent, TypeOK
<1>2. IsFiniteSet(Carriers(a)') /\ IsFiniteSet(Deliverable(a)') /\ IsFiniteSet(SentFor(a)')
  BY <1>1, FS_Subset DEF FinitelyMany
<1>3. faults' \in Nat
  BY MaxFaultsAssumption DEF TypeOK
<1> QED
  BY <1>2, <1>3, FS_CardinalityType

LEMMA FewerOf ==
  ASSUME NEW S, NEW T, IsFiniteSet(S), T \subseteq S
  PROVE  Cardinality(T) <= Cardinality(S)
BY FS_Subset

LEMMA OneMoreThan ==
  ASSUME NEW S, NEW T, NEW x, IsFiniteSet(S), T \subseteq S \cup {x}
  PROVE  Cardinality(T) <= Cardinality(S) + 1
<1>1. IsFiniteSet(S \cup {x}) /\ Cardinality(S \cup {x}) <= Cardinality(S) + 1
  <2>1. IsFiniteSet(S \cup {x})
    BY FS_AddElement
  <2>2. Cardinality(S) \in Nat
    BY FS_CardinalityType
  <2>3. Cardinality(S \cup {x}) = IF x \in S THEN Cardinality(S) ELSE Cardinality(S) + 1
    BY FS_AddElement
  <2> QED
    BY <2>1, <2>2, <2>3
<1>2. Cardinality(T) <= Cardinality(S \cup {x}) /\ IsFiniteSet(T)
  BY <1>1, FS_Subset
<1> QED
  BY <1>1, <1>2, FS_CardinalityType

LEMMA OneFewerThan ==
  ASSUME NEW S, NEW T, NEW x \in S, IsFiniteSet(S), T \subseteq S \ {x}
  PROVE  Cardinality(T) + 1 <= Cardinality(S)
<1>1. IsFiniteSet(S \ {x}) /\ Cardinality(S \ {x}) = Cardinality(S) - 1
  BY FS_RemoveElement
<1>2. Cardinality(T) <= Cardinality(S \ {x}) /\ IsFiniteSet(T)
  BY <1>1, FS_Subset
<1> QED
  BY <1>1, <1>2, FS_CardinalityType

(* No step adds to the attempts to come without adding to the possible     *)
(* ones, and a mark uses one up.                                           *)
RoomKept(a) == ToCome(a)' + Possible(a) <= ToCome(a) + Possible(a)'

(* A worker that has done its work carries nothing further.                *)
LEMMA CarriersStep ==
  ASSUME IInv, Kept, NEW w \in Worker, NEW s, wrk' = [wrk EXCEPT ![w] = s], s.msg = wrk[w].msg,
         wrk[w].pc \in AtWork, NEW a
  PROVE  /\ Carriers(a)' \subseteq Carriers(a)
         /\ s.pc \notin AtWork => w \notin Carriers(a)'
<1>1. \A v \in Worker : wrk[v].pc # "idle" => sent'[wrk[v].msg] = sent[wrk[v].msg]
  BY DEF IInv, HeldWasSent, Kept
<1>2. \A v \in Worker : wrk'[v].msg = wrk[v].msg /\ (v # w => wrk'[v] = wrk[v])
  BY DEF IInv, TypeOK
<1>3. wrk'[w].pc = s.pc
  BY DEF IInv, TypeOK
<1> QED
  BY <1>1, <1>2, <1>3 DEF Carriers, JobOf, AtWork

(* Carriers stay when no worker moves.                                     *)
LEMMA CarriersStay ==
  ASSUME IInv, Kept, UNCHANGED wrk, NEW a
  PROVE  Carriers(a)' = Carriers(a)
<1>1. \A w \in Worker : wrk[w].pc \in AtWork => sent'[wrk[w].msg] = sent[wrk[w].msg]
  BY DEF IInv, HeldWasSent, Kept, AtWork
<1> QED
  BY <1>1 DEF Carriers, JobOf

LEMMA QueueRoom ==
  ASSUME FinitelyMany, IInv, IInv', Kept, [Next]_vars, UNCHANGED wrk, NEW a
  PROVE  RoomKept(a)
<1>0. TypeOK /\ TypeOK'
  BY DEF IInv
<1>1. Cardinality(Carriers(a)') = Cardinality(Carriers(a))
  BY CarriersStay
<1>types. /\ IsFiniteSet(Deliverable(a)) /\ IsFiniteSet(SentFor(a))
          /\ Cardinality(Carriers(a)) \in Nat
          /\ Cardinality(Deliverable(a)) \in Nat /\ Cardinality(Deliverable(a)') \in Nat
          /\ Cardinality(SentFor(a)) \in Nat /\ Cardinality(SentFor(a)') \in Nat
          /\ faults \in Nat /\ faults' \in Nat
  BY <1>0, CountTypes, NextCountTypes, MaxFaultsAssumption DEF TypeOK
<1>2. ASSUME UNCHANGED <<sent, faults>>, Deliverable(a)' \subseteq Deliverable(a)
      PROVE  RoomKept(a)
  <2>1. SentFor(a)' = SentFor(a)
    BY <1>2 DEF SentFor, Sent
  <2>2. Cardinality(Deliverable(a)') <= Cardinality(Deliverable(a))
    BY <1>2, <1>types, FewerOf
  <2> QED
    BY <1>1, <1>2, <1>types, <2>1, <2>2 DEF RoomKept, ToCome, Possible
<1>3. ASSUME UNCHANGED sent, faults' = faults + 1,
             NEW m, Deliverable(a)' \subseteq Deliverable(a) \cup {m}
      PROVE  RoomKept(a)
  <2>1. SentFor(a)' = SentFor(a)
    BY <1>3 DEF SentFor, Sent
  <2>2. Cardinality(Deliverable(a)') <= Cardinality(Deliverable(a)) + 1
    BY <1>3, <1>types, OneMoreThan
  <2> QED
    BY <1>1, <1>3, <1>types, <2>1, <2>2 DEF RoomKept, ToCome, Possible
<1>4. ASSUME NEW m \in Message, NEW job \in Job, Send(m, job), UNCHANGED faults
      PROVE  RoomKept(a)
  <2>1. /\ sent' = [sent EXCEPT ![m] = job] /\ queue' = queue \cup {m} /\ hidden' = hidden
        /\ m \notin Sent /\ job # None
    BY <1>4, NoneAssumption DEF Send, Sent
  <2>2. Sent' = Sent \cup {m} /\ \A n \in Sent : sent'[n] = sent[n]
    BY <1>0, <2>1 DEF Sent, TypeOK
  <2>3. queue \subseteq Sent
    BY DEF IInv, HeldWasSent
  <2>4. CASE job.art = a
    <3>1. SentFor(a)' = SentFor(a) \cup {m} /\ m \notin SentFor(a)
      BY <1>0, <2>1, <2>2, <2>4 DEF SentFor, TypeOK
    <3>2. Deliverable(a)' \subseteq Deliverable(a) \cup {m}
      BY <1>4, <2>1, <2>2, <2>3 DEF Deliverable, Working
    <3>3. Cardinality(SentFor(a)') = Cardinality(SentFor(a)) + 1
      BY <1>types, <3>1, FS_AddElement
    <3>4. Cardinality(Deliverable(a)') <= Cardinality(Deliverable(a)) + 1
      BY <1>types, <3>2, OneMoreThan
    <3> QED
      BY <1>1, <1>4, <1>types, <3>3, <3>4 DEF RoomKept, ToCome, Possible
  <2>5. CASE job.art # a
    <3>1. sent'[m] = job
      BY <1>0, <2>1 DEF TypeOK
    <3>2. SentFor(a)' = SentFor(a)
      BY <2>2, <2>5, <3>1 DEF SentFor
    <3>3. Deliverable(a)' \subseteq Deliverable(a)
      BY <2>1, <2>2, <2>3, <2>5, <3>1 DEF Deliverable, Working
    <3>4. Cardinality(Deliverable(a)') <= Cardinality(Deliverable(a))
      BY <1>types, <3>3, FewerOf
    <3> QED
      BY <1>1, <1>4, <1>types, <3>2, <3>4 DEF RoomKept, ToCome, Possible
  <2> QED
    BY <2>4, <2>5
<1>5. ASSUME NEW m \in Message, ExpireAbandoned(m)
      PROVE  RoomKept(a)
  <2>1. Deliverable(a)' \subseteq Deliverable(a)
    BY <1>5 DEF ExpireAbandoned, Deliverable, Working
  <2> QED
    BY <1>2, <1>5, <2>1 DEF ExpireAbandoned
<1>6. CASE /\ faults' = faults + 1
           /\ UNCHANGED <<sent, queue>>
           /\ \E m : hidden \subseteq hidden' \cup {m}
  <2>1. PICK m : hidden \subseteq hidden' \cup {m}
    BY <1>6
  <2>2. Deliverable(a)' \subseteq Deliverable(a) \cup {m}
    BY <1>6, <2>1 DEF Deliverable, Working
  <2> QED
    BY <1>3, <1>6, <2>2
<1>7. CASE UNCHANGED <<sent, queue, hidden, faults>>
  <2>1. Deliverable(a)' = Deliverable(a)
    BY <1>7 DEF Deliverable, Working
  <2> QED
    BY <1>2, <1>7, <2>1
<1>8. ASSUME NEW i \in Ingester, IngesterCrash(i)
      PROVE  RoomKept(a)
  BY <1>6, <1>8 DEF IngesterCrash
<1>9. ASSUME NEW m \in Message, ExpireEarly(m)
      PROVE  RoomKept(a)
  BY <1>6, <1>9 DEF ExpireEarly
<1>10. \/ UNCHANGED <<sent, queue, hidden, faults>>
       \/ \E m \in Message, job \in Job : Send(m, job) /\ UNCHANGED faults
       \/ \E m \in Message : ExpireAbandoned(m) \/ ExpireEarly(m)
       \/ \E i \in Ingester : IngesterCrash(i)
  <2>1. ASSUME NEW w \in Worker,
               \/ \E m \in Message : Receive(w, m)
               \/ Ack(w) \/ WorkerCrash(w)
        PROVE  FALSE
    <3>1. wrk'[w].pc # wrk[w].pc
      <4>1. CASE \E m \in Message : Receive(w, m)
        <5>1. PICK m : wrk'[w] = [IdleWorker EXCEPT !.pc = "state", !.msg = m] /\ wrk[w].pc = "idle"
          BY <1>0, <4>1 DEF Receive, TypeOK
        <5> QED
          BY <5>1 DEF IdleWorker
      <4>2. CASE Ack(w) \/ WorkerCrash(w)
        BY <1>0, <4>2 DEF Ack, WorkerCrash, IdleWorker, TypeOK
      <4> QED
        BY <2>1, <4>1, <4>2
    <3> QED
      BY <3>1
  <2>2. ASSUME NEW i \in Ingester, NEW m \in Message, Enqueue(i, m)
        PROVE  \E job \in Job : Send(m, job) /\ UNCHANGED faults
    <3>1. ing[i].art \in Article
      BY <1>0, <2>2 DEF Enqueue, TypeOK, IngesterState
    <3>2. IngestJob(ing[i].art) \in Job
      BY <3>1 DEF IngestJob, Job
    <3> QED
      BY <2>2, <3>2 DEF Enqueue
  <2>3. ASSUME NEW m \in Message, NEW job \in ManualJob, OperatorSend(m, job)
        PROVE  \E j \in Job : Send(m, j) /\ UNCHANGED faults
    BY <2>3, ManualJobAssumption DEF OperatorSend
  <2> QED
    BY <2>1, <2>2, <2>3, StepCases DEF vars, PutRaw, IngestDuplicate, PutFeed, PutPending,
       SkipDone, ReadState, ReadRaw, MarkFailed, MarkDone
<1> QED
  BY <1>4, <1>5, <1>7, <1>8, <1>9, <1>10

(* A worker that keeps its message carries it on, or has used its attempt. *)
LEMMA WorkRoom ==
  ASSUME FinitelyMany, IInv, IInv', Kept, NEW w \in Worker, NEW s,
         wrk' = [wrk EXCEPT ![w] = s], s.msg = wrk[w].msg, wrk[w].pc \in AtWork,
         UNCHANGED <<sent, queue, hidden, faults>>, NEW a
  PROVE  /\ RoomKept(a)
         /\ Possible(a)' = Possible(a)
         /\ (JobOf(w).art = a /\ s.pc \notin AtWork) => ToCome(a)' + 1 <= ToCome(a)
<1>0. TypeOK /\ TypeOK'
  BY DEF IInv
<1>1. \A v \in Worker : wrk'[v].msg = wrk[v].msg
  BY <1>0 DEF TypeOK
<1>2. Deliverable(a)' = Deliverable(a) /\ SentFor(a)' = SentFor(a)
  BY <1>1 DEF Deliverable, Working, SentFor, Sent
<1>3. /\ Carriers(a)' \subseteq Carriers(a)
      /\ s.pc \notin AtWork => w \notin Carriers(a)'
  BY CarriersStep
<1>4. /\ IsFiniteSet(Carriers(a))
      /\ Cardinality(Carriers(a)) \in Nat /\ Cardinality(Carriers(a)') \in Nat
      /\ Cardinality(Deliverable(a)) \in Nat
  BY <1>0, CountTypes, NextCountTypes
<1>5. Possible(a)' = Possible(a) /\ Possible(a) \in Nat
  BY <1>0, <1>2, CountTypes DEF Possible
<1>6. Cardinality(Carriers(a)') <= Cardinality(Carriers(a))
  BY <1>3, <1>4, FewerOf
<1>7. ASSUME JobOf(w).art = a, s.pc \notin AtWork
      PROVE  Cardinality(Carriers(a)') + 1 <= Cardinality(Carriers(a))
  <2>1. w \in Carriers(a) /\ Carriers(a)' \subseteq Carriers(a) \ {w}
    BY <1>3, <1>7 DEF Carriers
  <2> QED
    BY <1>4, <2>1, OneFewerThan
<1> QED
  BY <1>2, <1>4, <1>5, <1>6, <1>7 DEF RoomKept, ToCome

(* A delivery is no longer to be made, and is carried out.                 *)
LEMMA ReceiveRoom ==
  ASSUME FinitelyMany, IInv, IInv', Kept, NEW w \in Worker, NEW m \in Message, Receive(w, m), NEW a
  PROVE  RoomKept(a)
<1> USE NoneAssumption
<1>0. TypeOK /\ TypeOK' /\ m \in Sent
  BY DEF IInv, HeldWasSent, Receive
<1>1. /\ wrk[w].msg = None /\ m \in queue \ hidden /\ hidden' = hidden \cup {m}
      /\ wrk' = [wrk EXCEPT ![w] = [IdleWorker EXCEPT !.pc = "state", !.msg = m]]
      /\ UNCHANGED <<sent, queue, faults>>
  BY <1>0 DEF Receive, TypeOK
<1>2. /\ \A v \in Worker : v # w => wrk'[v] = wrk[v]
      /\ wrk'[w].msg = m
  BY <1>0, <1>1 DEF TypeOK, IdleWorker
<1>3. SentFor(a)' = SentFor(a)
  BY <1>1 DEF SentFor, Sent
<1>4. Deliverable(a)' \subseteq Deliverable(a) \ {m}
  <2>1. Working(m)'
    BY <1>2 DEF Working
  <2>2. \A n \in Message : Working(n) => Working(n)'
    BY <1>1, <1>2 DEF Working
  <2> QED
    BY <1>0, <1>1, <2>1, <2>2 DEF Deliverable, TypeOK
<1>5. Carriers(a)' \subseteq Carriers(a) \cup (IF sent[m].art = a THEN {w} ELSE {})
  BY <1>1, <1>2 DEF Carriers, JobOf
<1>6. /\ IsFiniteSet(Carriers(a)) /\ IsFiniteSet(Deliverable(a))
      /\ Cardinality(Carriers(a)) \in Nat /\ Cardinality(Carriers(a)') \in Nat
      /\ Cardinality(Deliverable(a)) \in Nat /\ Cardinality(Deliverable(a)') \in Nat
  BY <1>0, CountTypes, NextCountTypes
<1>7. Possible(a)' = Possible(a) /\ Possible(a) \in Nat
  BY <1>0, <1>1, <1>3, CountTypes DEF Possible
<1>8. CASE sent[m].art = a
  <2>1. m \in Deliverable(a)
    BY <1>1, <1>8 DEF Deliverable
  <2>2. Cardinality(Deliverable(a)') + 1 <= Cardinality(Deliverable(a))
    BY <1>4, <1>6, <2>1, OneFewerThan
  <2>3. Cardinality(Carriers(a)') <= Cardinality(Carriers(a)) + 1
    BY <1>5, <1>6, <1>8, OneMoreThan
  <2> QED
    BY <1>6, <1>7, <2>2, <2>3 DEF RoomKept, ToCome
<1>9. CASE sent[m].art # a
  <2>1. Cardinality(Deliverable(a)') <= Cardinality(Deliverable(a))
    BY <1>4, <1>6, FewerOf
  <2>2. Cardinality(Carriers(a)') <= Cardinality(Carriers(a))
    BY <1>5, <1>6, <1>9, FewerOf
  <2> QED
    BY <1>6, <1>7, <2>1, <2>2 DEF RoomKept, ToCome
<1> QED
  BY <1>8, <1>9

(* A worker that lets go of its message: a deletion leaves nothing to      *)
(* deliver, and a crash pays with a fault for the delivery it causes.      *)
LEMMA ReleaseRoom ==
  ASSUME FinitelyMany, IInv, IInv', Kept, NEW w \in Worker, Ack(w) \/ WorkerCrash(w), NEW a
  PROVE  RoomKept(a)
<1> DEFINE m == wrk[w].msg
<1>0. TypeOK /\ TypeOK'
  BY DEF IInv
<1>1. wrk' = [wrk EXCEPT ![w] = IdleWorker] /\ UNCHANGED sent
  BY DEF Ack, WorkerCrash
<1>2. /\ \A v \in Worker : v # w => wrk'[v] = wrk[v]
      /\ wrk'[w] = IdleWorker
  BY <1>0, <1>1 DEF TypeOK
<1>3. SentFor(a)' = SentFor(a)
  BY <1>1 DEF SentFor, Sent
<1>4. Carriers(a)' \subseteq Carriers(a)
  BY <1>1, <1>2 DEF Carriers, JobOf, AtWork, IdleWorker
<1>5. /\ IsFiniteSet(Carriers(a)) /\ IsFiniteSet(Deliverable(a))
      /\ Cardinality(Carriers(a)) \in Nat /\ Cardinality(Carriers(a)') \in Nat
      /\ Cardinality(Deliverable(a)) \in Nat /\ Cardinality(Deliverable(a)') \in Nat
      /\ Cardinality(SentFor(a)) \in Nat /\ faults \in Nat
  BY <1>0, CountTypes, NextCountTypes, MaxFaultsAssumption DEF TypeOK
<1>6. Cardinality(Carriers(a)') <= Cardinality(Carriers(a))
  BY <1>4, <1>5, FewerOf
<1>7. \A n : (n # m /\ Working(n)) => Working(n)'
  BY <1>2 DEF Working
<1>8. CASE Ack(w)
  <2>1. queue' = queue \ {m} /\ hidden' = hidden \ {m} /\ faults' = faults
    BY <1>8 DEF Ack
  <2>2. Deliverable(a)' \subseteq Deliverable(a)
    BY <1>1, <1>7, <2>1 DEF Deliverable
  <2>3. Cardinality(Deliverable(a)') <= Cardinality(Deliverable(a))
    BY <1>5, <2>2, FewerOf
  <2> QED
    BY <1>3, <1>5, <1>6, <2>1, <2>3 DEF RoomKept, ToCome, Possible
<1>9. CASE WorkerCrash(w)
  <2>1. UNCHANGED <<queue, hidden>> /\ faults' = faults + 1
    BY <1>9 DEF WorkerCrash
  <2>2. Deliverable(a)' \subseteq Deliverable(a) \cup {m}
    BY <1>1, <1>7, <2>1 DEF Deliverable
  <2>3. Cardinality(Deliverable(a)') <= Cardinality(Deliverable(a)) + 1
    BY <1>5, <2>2, OneMoreThan
  <2> QED
    BY <1>3, <1>5, <1>6, <2>1, <2>3 DEF RoomKept, ToCome, Possible
<1> QED
  BY <1>8, <1>9

LEMMA RoomStep ==
  ASSUME FinitelyMany, IInv, IInv', [Next]_vars, NEW a
  PROVE  RoomKept(a)
<1>0. Kept /\ TypeOK
  BY StepKeeps DEF IInv
<1>1. CASE UNCHANGED wrk
  BY <1>0, <1>1, QueueRoom
<1>2. ASSUME NEW w \in Worker,
             SkipDone(w) \/ ReadState(w) \/ ReadRaw(w) \/ MarkFailed(w) \/ MarkDone(w)
      PROVE  RoomKept(a)
  <2>1. KeepsMessage(w)
    BY <1>0, <1>2, WorkKeepsMessage
  <2>2. wrk[w].pc \in AtWork /\ faults' = faults
    BY <1>2 DEF SkipDone, ReadState, ReadRaw, MarkFailed, MarkDone, AtWork
  <2> QED
    BY <1>0, <2>1, <2>2, WorkRoom DEF KeepsMessage
<1> QED
  BY <1>0, <1>1, <1>2, ReceiveRoom, ReleaseRoom, StepCases DEF vars, PutRaw, IngestDuplicate, PutFeed,
     PutPending, IngesterCrash, Enqueue, OperatorSend, ExpireAbandoned, ExpireEarly

LEMMA CountedStays ==
  ASSUME FinitelyMany, TypeOK, TypeOK', NEW a, RoomKept(a), NEW n \in Nat, Counted(a, n)
  PROVE  Counted(a, n)'
<1>1. ToCome(a) \in Nat /\ Possible(a) \in Nat
  BY CountTypes
<1>2. ToCome(a)' \in Nat /\ Possible(a)' \in Nat
  BY NextCountTypes DEF ToCome, Possible
<1> QED
  BY <1>1, <1>2 DEF RoomKept, Counted

(* The count a mark stores has the room that the attempt gave up.          *)
LEMMA FailureCounted ==
  ASSUME FinitelyMany, IInv, IInv', Kept, CountsHaveRoom, NEW w \in Worker, MarkFailed(w),
         NEW a, JobOf(w).art = a, NEW n, wrk[w].retry = n
  PROVE  Counted(a, n + 1)'
<1>0. TypeOK /\ TypeOK' /\ n \in Nat
  BY DEF IInv, TypeOK, WorkerState
<1>1. /\ wrk' = [wrk EXCEPT ![w] = ReadyToAck(w)]
      /\ wrk[w].pc \in {"llm", "missing"}
      /\ UNCHANGED <<sent, queue, hidden, faults>>
  BY DEF MarkFailed
<1>2. ReadyToAck(w).msg = wrk[w].msg /\ ReadyToAck(w).pc = "ack"
  BY DEF ReadyToAck, IdleWorker
<1>3. ToCome(a)' + 1 <= ToCome(a) /\ Possible(a)' = Possible(a)
  BY <1>1, <1>2, WorkRoom DEF AtWork
<1>4. Counted(a, n)
  BY <1>1 DEF CountsHaveRoom
<1>5. ToCome(a) \in Nat /\ Possible(a) \in Nat /\ ToCome(a)' \in Nat
  BY <1>0, CountTypes, NextCountTypes DEF ToCome
<1> QED
  BY <1>0, <1>3, <1>4, <1>5 DEF Counted

LEMMA RoomInit ==
  ASSUME Init
  PROVE  CountsHaveRoom
<1>1. \A a : Carriers(a) = {} /\ Deliverable(a) = {} /\ SentFor(a) = {}
  BY DEF Init, Carriers, Deliverable, SentFor, Sent, AtWork, IdleWorker
<1>2. \A a : ToCome(a) = 0 /\ Possible(a) = 0
  BY <1>1, FS_EmptySet DEF Init, ToCome, Possible
<1>3. \A a : Counted(a, 0)
  BY <1>2 DEF Counted
<1> QED
  BY <1>3 DEF Init, CountsHaveRoom, RecordsHaveRoom, NoSummary, IdleWorker

LEMMA RoomInvariantStep ==
  ASSUME FinitelyMany, IInv, IInv', CountsHaveRoom, [Next]_vars
  PROVE  CountsHaveRoom'
<1>0. Kept /\ TypeOK /\ TypeOK'
  BY StepKeeps DEF IInv
<1>1. \A a, n : (n \in Nat /\ Counted(a, n)) => Counted(a, n)'
  BY <1>0, RoomStep, CountedStays
<1>2. \A a \in Article : \A rec \in versions[a] : rec.retry \in Nat
  BY <1>0 DEF TypeOK, SummaryRecord
(* What is written is counted, whoever writes it.                          *)
<1>3. ASSUME NEW a \in Article, NEW rec, WriteSummary(a, rec), Counted(a, rec.retry)'
      PROVE  RecordsHaveRoom'
  <2>1. /\ summary' = [summary EXCEPT ![a] = rec]
        /\ versions' = [versions EXCEPT ![a] = versions[a] \cup {rec}]
    BY <1>3 DEF WriteSummary
  <2>2. \A b \in Article : \A old \in versions'[b] : old \in versions[b] \/ (b = a /\ old = rec)
    BY <1>0, <2>1 DEF TypeOK
  <2>3. \A b \in Article : \A old \in versions'[b] : Counted(b, old.retry)'
    BY <1>1, <1>2, <1>3, <2>2 DEF CountsHaveRoom, RecordsHaveRoom
  <2>4. \A b \in Article : NoSummary \in versions'[b] /\ summary'[b] \in versions'[b]
    BY <1>0, <2>1 DEF CountsHaveRoom, RecordsHaveRoom, TypeOK
  <2> QED
    BY <2>3, <2>4 DEF RecordsHaveRoom
<1>4. RecordsHaveRoom'
  <2>1. CASE UNCHANGED <<summary, versions>>
    BY <1>1, <1>2, <2>1 DEF CountsHaveRoom, RecordsHaveRoom
  <2>2. ASSUME NEW i \in Ingester, PutPending(i)
        PROVE  RecordsHaveRoom'
    <3>1. PICK a \in Article : a = ing[i].art
      BY <1>0, <2>2 DEF PutPending, TypeOK, IngesterState
    <3>2. Counted(a, 0) /\ Counted(a, summary[a].retry) /\ summary[a].retry \in Nat
      BY <1>2 DEF CountsHaveRoom, RecordsHaveRoom, NoSummary
    <3>3. Counted(a, 0)' /\ \A rec : rec = summary[a] => Counted(a, rec.retry)'
      BY <1>1, <3>2
    <3>4. PICK rec : rec = PendingIfAbsent(summary[a]) /\ WriteSummary(a, rec)
      BY <2>2, <3>1 DEF PutPending
    <3>5. Counted(a, rec.retry)'
      BY <3>3, <3>4 DEF PendingIfAbsent
    <3> QED
      BY <1>3, <3>4, <3>5
  <2>3. ASSUME NEW w \in Worker, MarkFailed(w) \/ MarkDone(w)
        PROVE  RecordsHaveRoom'
    <3>1. PICK a \in Article : a = JobOf(w).art
      BY <1>0, <2>3, SentKept DEF MarkFailed, MarkDone, IInv, HeldWasSent, JobOf
    <3>2. CASE MarkFailed(w)
      <4>1. PICK n : n = wrk[w].retry
        OBVIOUS
      <4>2. Counted(a, n + 1)'
        BY <1>0, <3>1, <3>2, <4>1, FailureCounted
      <4>3. PICK rec : rec = [status |-> "FAILED", retry |-> n + 1] /\ WriteSummary(a, rec)
        BY <3>1, <3>2, <4>1 DEF MarkFailed, FailedRecord
      <4> QED
        BY <1>3, <4>2, <4>3
    <3>3. CASE MarkDone(w)
      <4>1. PICK old \in versions[a] : old = summary[a]
        BY DEF CountsHaveRoom, RecordsHaveRoom
      <4>2. Counted(a, old.retry)'
        BY <1>1, <1>2 DEF CountsHaveRoom, RecordsHaveRoom
      <4>3. PICK rec : rec = DoneRecord(old) /\ WriteSummary(a, rec)
        BY <3>1, <3>3, <4>1 DEF MarkDone
      <4>4. rec.retry = old.retry
        BY <1>0, <4>3 DEF DoneRecord, TypeOK, SummaryRecord
      <4> QED
        BY <1>3, <4>2, <4>3, <4>4
    <3> QED
      BY <2>3, <3>2, <3>3
  <2>4. \/ UNCHANGED <<summary, versions>>
        \/ \E i \in Ingester : PutPending(i)
        \/ \E w \in Worker : MarkFailed(w) \/ MarkDone(w)
    BY StepCases DEF vars, PutRaw, IngestDuplicate, PutFeed, IngesterCrash, Enqueue, OperatorSend,
       ExpireAbandoned, ExpireEarly, Receive, SkipDone, ReadState, ReadRaw, Ack, WorkerCrash
  <2> QED
    BY <2>1, <2>2, <2>3, <2>4
(* What a worker has read was on record.                                   *)
<1>5. ASSUME NEW w \in Worker, wrk'[w].pc \in {"raw", "llm", "missing"},
             NEW a, JobOf(w)'.art = a, NEW n, wrk'[w].retry = n
      PROVE  Counted(a, n)'
  <2>1. ASSUME wrk[w].pc \in {"raw", "llm", "missing"}, wrk'[w].msg = wrk[w].msg,
               wrk'[w].retry = wrk[w].retry
        PROVE  Counted(a, n)'
    <3>1. JobOf(w).art = a /\ n \in Nat
      BY <1>0, <1>5, <2>1 DEF JobOf, IInv, HeldWasSent, Kept, TypeOK, WorkerState
    <3> QED
      BY <1>1, <1>5, <2>1, <3>1 DEF CountsHaveRoom, RecordsHaveRoom
  <2>2. CASE wrk'[w] = wrk[w]
    BY <1>5, <2>1, <2>2
  <2>3. CASE ReadState(w)
    <3>1. PICK rec \in Readable(JobOf(w).art) : wrk'[w] = StateRead(w, rec)
      BY <1>0, <2>3 DEF ReadState, TypeOK
    <3>2. wrk'[w].msg = wrk[w].msg /\ wrk'[w].retry = rec.retry /\ sent' = sent
      BY <2>3, <3>1 DEF StateRead, ReadState
    <3>3. JobOf(w).art = a /\ a \in Article
      BY <1>0, <1>5, <2>3, <3>2, SentKept DEF JobOf, ReadState, IInv, HeldWasSent
    <3>4. rec \in versions[a] /\ rec.retry = n
      BY <1>5, <3>1, <3>2, <3>3 DEF Readable, CountsHaveRoom, RecordsHaveRoom
    <3> QED
      BY <1>1, <1>2, <3>3, <3>4 DEF CountsHaveRoom, RecordsHaveRoom
  <2>4. CASE ReadRaw(w)
    <3>1. wrk'[w].msg = wrk[w].msg /\ wrk'[w].retry = wrk[w].retry /\ wrk[w].pc = "raw"
      BY <1>0, <2>4 DEF ReadRaw, TypeOK, WorkerState
    <3> QED
      BY <2>1, <3>1
  <2>5. ASSUME NEW s, wrk' = [wrk EXCEPT ![w] = s], s.pc \notin {"raw", "llm", "missing"}
        PROVE  FALSE
    BY <1>0, <1>5, <2>5 DEF TypeOK
  <2>6. /\ IdleWorker.pc = "idle" /\ ReadyToAck(w).pc = "ack"
        /\ \A m : [IdleWorker EXCEPT !.pc = "state", !.msg = m].pc = "state"
    BY DEF IdleWorker, ReadyToAck
  <2>7. \/ wrk'[w] = wrk[w]
        \/ ReadState(w) \/ ReadRaw(w)
        \/ \E s : wrk' = [wrk EXCEPT ![w] = s] /\ s.pc \notin {"raw", "llm", "missing"}
    <3>1. ASSUME NEW v \in Worker, v # w, NEW s, wrk' = [wrk EXCEPT ![v] = s]
          PROVE  wrk'[w] = wrk[w]
      BY <1>0, <3>1 DEF TypeOK
    <3>2. \/ UNCHANGED wrk
          \/ \E v \in Worker : \/ ReadState(v) \/ ReadRaw(v)
                              \/ wrk' = [wrk EXCEPT ![v] = IdleWorker]
                              \/ wrk' = [wrk EXCEPT ![v] = ReadyToAck(v)]
                              \/ \E m : wrk' = [wrk EXCEPT ![v] = [IdleWorker EXCEPT !.pc = "state", !.msg = m]]
      BY StepCases DEF vars, PutRaw, IngestDuplicate, PutFeed, PutPending, IngesterCrash, Enqueue,
         OperatorSend, ExpireAbandoned, ExpireEarly, Receive, SkipDone, MarkFailed, MarkDone, Ack,
         WorkerCrash
    <3>3. \A v \in Worker : (ReadState(v) \/ ReadRaw(v)) => \E s : wrk' = [wrk EXCEPT ![v] = s]
      BY DEF ReadState, ReadRaw
    <3> QED
      BY <2>6, <3>1, <3>2, <3>3
  <2> QED
    BY <2>2, <2>3, <2>4, <2>5, <2>7
<1> QED
  BY <1>4, <1>5 DEF CountsHaveRoom, RecordsHaveRoom

(* retry_count never exceeds the jobs sent for the article and the faults: *)
(* stale counts and redeliveries may lose failures but never invent one.   *)
THEOREM RetriesNeedDeliveriesHolds ==
  ASSUME FinitelyMany
  PROVE  Spec => []RetriesNeedDeliveries
<1>1. ASSUME IInv, CountsHaveRoom, NEW a \in Article
      PROVE  summary[a].retry <= Cardinality({m \in Sent : sent[m].art = a}) + faults
  <2>1. summary[a].retry + ToCome(a) <= Possible(a) /\ summary[a].retry \in Nat
    BY <1>1 DEF CountsHaveRoom, RecordsHaveRoom, Counted, IInv, TypeOK, SummaryRecord
  <2>2. ToCome(a) \in Nat /\ Possible(a) \in Nat
    BY <1>1, CountTypes DEF IInv
  <2>3. summary[a].retry <= Possible(a)
    BY <2>1, <2>2
  <2> QED
    BY <2>3 DEF Possible, SentFor
<1>2. IInv /\ CountsHaveRoom => RetriesNeedDeliveries
  BY <1>1 DEF RetriesNeedDeliveries
<1>3. IInv /\ IInv' /\ CountsHaveRoom /\ [Next]_vars => CountsHaveRoom'
  BY RoomInvariantStep
<1>4. Init => CountsHaveRoom
  BY RoomInit
<1> QED
  BY <1>2, <1>3, <1>4, Invariant, PTL DEF Spec

-----------------------------------------------------------------------------
(* Refinement.  Without manual jobs every SUMMARY item belongs to a listed *)
(* article and every listed article is stored; and a lone consumer that is *)
(* never told to reprocess works on no published article.                  *)
AllFromIngestion ==
  /\ \A m \in Sent : ~sent[m].manual
  /\ feed \subseteq raw
  /\ \A a \in Article : summary[a].status # "ABSENT" => a \in feed
  /\ \A m \in Sent : ~sent[m].reprocess

LoneWorkerIsFresh ==
  OneConsumerNoReprocess =>
    \A w \in Worker :
      wrk[w].pc \in {"raw", "llm", "missing"} => summary[JobOf(w).art].status # "DONE"

RInv == IInv /\ AllFromIngestion /\ LoneWorkerIsFresh

LEMMA AllFromIngestionStep ==
  ASSUME ManualJob = {}, IInv, IInv', AllFromIngestion, [Next]_vars
  PROVE  AllFromIngestion'
<1> USE DEF AllFromIngestion
<1>0. TypeOK
  BY DEF IInv
<1>1. CASE UNCHANGED <<raw, feed, summary, sent>>
  BY <1>1 DEF Sent
<1>2. ASSUME NEW i \in Ingester, NEW a \in Article, PutRaw(i, a)
      PROVE  AllFromIngestion'
  BY <1>2 DEF PutRaw, Sent
<1>3. ASSUME NEW i \in Ingester, PutFeed(i)
      PROVE  AllFromIngestion'
  <2>1. ing[i].art \in raw
    BY <1>3 DEF PutFeed, IInv, WrittenSoFar
  <2> QED
    BY <1>3, <2>1 DEF PutFeed, Sent
<1>4. ASSUME NEW i \in Ingester, PutPending(i)
      PROVE  AllFromIngestion'
  <2>1. ing[i].art \in feed
    BY <1>4 DEF PutPending, IInv, WrittenSoFar
  <2> QED
    BY <1>0, <1>4, <2>1 DEF PutPending, WriteSummary, Sent, TypeOK
<1>5. ASSUME NEW i \in Ingester, NEW m \in Message, Enqueue(i, m)
      PROVE  AllFromIngestion'
  <2>1. /\ sent' = [sent EXCEPT ![m] = IngestJob(ing[i].art)]
        /\ UNCHANGED <<raw, feed, summary>>
    BY <1>5 DEF Enqueue, Send
  <2>2. ~sent'[m].manual /\ ~sent'[m].reprocess
    BY <1>0, <2>1 DEF TypeOK, IngestJob
  <2> QED
    BY <1>0, <2>1, <2>2 DEF TypeOK, Sent
<1>6. ASSUME NEW w \in Worker, MarkFailed(w) \/ MarkDone(w)
      PROVE  AllFromIngestion'
  <2>1. wrk[w].msg \in Sent
    BY <1>6 DEF MarkFailed, MarkDone, IInv, HeldWasSent
  <2>2. JobOf(w).art \in feed
    BY <2>1 DEF JobOf, IInv, JobFollowsArticle
  <2>3. \A a \in Article : a # JobOf(w).art => summary'[a] = summary[a]
    BY <1>0, <1>6 DEF MarkFailed, MarkDone, WriteSummary, TypeOK
  <2>4. UNCHANGED <<raw, feed, sent>>
    BY <1>6 DEF MarkFailed, MarkDone
  <2> QED
    BY <2>2, <2>3, <2>4 DEF Sent
<1>7. CASE UNCHANGED vars
  BY <1>1, <1>7 DEF vars
<1>8. CASE Next
  BY <1>8, <1>1, <1>2, <1>3, <1>4, <1>5, <1>6, StepCases DEF IngestDuplicate, IngesterCrash,
     ExpireAbandoned, ExpireEarly, Receive, SkipDone, ReadState, ReadRaw, Ack, WorkerCrash
<1> QED
  BY <1>7, <1>8

LEMMA LoneWorkerStep ==
  ASSUME IInv, IInv', AllFromIngestion, LoneWorkerIsFresh, [Next]_vars
  PROVE  LoneWorkerIsFresh'
<1> SUFFICES ASSUME OneConsumerNoReprocess, NEW v \in Worker,
                    wrk'[v].pc \in {"raw", "llm", "missing"}
             PROVE  summary'[sent'[wrk'[v].msg].art].status # "DONE"
  BY DEF LoneWorkerIsFresh, JobOf, OneConsumerNoReprocess
<1>0. /\ TypeOK /\ Kept
      /\ \A w \in Worker : w = v
  BY StepKeeps DEF IInv, OneConsumerNoReprocess
<1>1. ASSUME wrk[v].pc # "idle"
      PROVE  /\ wrk[v].msg \in Sent /\ sent'[wrk[v].msg] = sent[wrk[v].msg]
             /\ JobOf(v).art \in Article /\ ~JobOf(v).reprocess
             /\ summary[JobOf(v).art].status # "ABSENT"
  <2>1. wrk[v].msg \in Sent
    BY <1>1 DEF IInv, HeldWasSent
  <2>2. ~sent[wrk[v].msg].manual /\ ~sent[wrk[v].msg].reprocess
    BY <2>1 DEF AllFromIngestion
  <2>3. summary[sent[wrk[v].msg].art].status # "ABSENT"
    BY <2>1, <2>2 DEF IInv, JobFollowsArticle
  <2> QED
    BY <1>0, <2>1, <2>2, <2>3, SentKept DEF JobOf
<1>2. CASE UNCHANGED <<wrk, summary>>
  BY <1>1, <1>2 DEF LoneWorkerIsFresh, JobOf
<1>3. ASSUME NEW i \in Ingester, PutPending(i)
      PROVE  summary'[sent'[wrk'[v].msg].art].status # "DONE"
  <2>1. /\ wrk' = wrk
        /\ \A a \in Article : summary'[a].status = "DONE" => summary[a].status = "DONE"
    BY <1>0, <1>3 DEF PutPending, PendingIfAbsent, WriteSummary, TypeOK
  <2> QED
    BY <1>1, <2>1 DEF LoneWorkerIsFresh, JobOf
<1>4. CASE ReadState(v) \/ ReadRaw(v)
  <2>1. /\ wrk'[v].msg = wrk[v].msg /\ summary' = summary
        /\ wrk[v].pc \in {"state", "raw"}
    <3>1. CASE ReadState(v)
      BY <1>0, <3>1 DEF ReadState, StateRead, TypeOK
    <3>2. CASE ReadRaw(v)
      BY <1>0, <3>2 DEF ReadRaw, TypeOK, WorkerState
    <3> QED
      BY <1>4, <3>1, <3>2
  <2>2. summary[JobOf(v).art].status # "DONE"
    <3>1. CASE ReadState(v)
      BY <1>1, <3>1 DEF ReadState, Readable, OneConsumerNoReprocess
    <3>2. CASE ReadRaw(v)
      BY <3>2 DEF ReadRaw, LoneWorkerIsFresh
    <3> QED
      BY <1>4, <3>1, <3>2
  <2> QED
    BY <1>1, <2>1, <2>2 DEF JobOf
<1>5. ASSUME \/ \E m \in Message : Receive(v, m)
             \/ SkipDone(v) \/ MarkFailed(v) \/ MarkDone(v) \/ Ack(v) \/ WorkerCrash(v)
      PROVE  FALSE
  <2>1. wrk'[v].pc \in {"idle", "state", "ack"}
    <3>1. CASE \E m \in Message : Receive(v, m)
      BY <1>0, <3>1 DEF Receive, IdleWorker, TypeOK
    <3>2. CASE SkipDone(v) \/ MarkFailed(v) \/ MarkDone(v)
      <4>1. wrk' = [wrk EXCEPT ![v] = ReadyToAck(v)]
        BY <3>2 DEF SkipDone, MarkFailed, MarkDone
      <4> QED
        BY <1>0, <4>1 DEF ReadyToAck, IdleWorker, TypeOK
    <3>3. CASE Ack(v) \/ WorkerCrash(v)
      BY <1>0, <3>3 DEF Ack, WorkerCrash, IdleWorker, TypeOK
    <3> QED
      BY <1>5, <3>1, <3>2, <3>3
  <2> QED
    BY <2>1
<1>6. CASE UNCHANGED vars
  BY <1>2, <1>6 DEF vars
<1>7. CASE Next
  BY <1>0, <1>2, <1>3, <1>4, <1>5, <1>7, StepCases DEF PutRaw, IngestDuplicate, PutFeed,
     IngesterCrash, Enqueue, OperatorSend, ExpireAbandoned, ExpireEarly
<1> QED
  BY <1>6, <1>7

LEMMA RefinementInvariant ==
  ASSUME ManualJob = {}
  PROVE  Spec => []RInv
<1>1. Init => AllFromIngestion /\ LoneWorkerIsFresh
  BY DEF Init, AllFromIngestion, LoneWorkerIsFresh, Sent, IdleWorker, NoSummary
<1>2. IInv /\ IInv' /\ AllFromIngestion /\ LoneWorkerIsFresh /\ [Next]_vars
        => (AllFromIngestion /\ LoneWorkerIsFresh)'
  BY AllFromIngestionStep, LoneWorkerStep
<1> QED
  BY <1>1, <1>2, Invariant, PTL DEF RInv, Spec

LEMMA InitRefines ==
  ASSUME Init
  PROVE  Lifecycle!Init
BY DEF Init, Lifecycle!Init, stage, acknowledged, Sent, NoSummary

(* The stage of an article, as a function of its items.                    *)
LEMMA StageOf ==
  ASSUME TypeOK, NEW a \in Article
  PROVE  stage[a] = IF summary[a].status = "DONE" THEN "done"
                    ELSE IF summary[a].status = "FAILED" THEN "failed"
                    ELSE IF summary[a].status = "PENDING" THEN "pending"
                    ELSE IF a \in feed THEN "listed"
                    ELSE IF a \in raw THEN "stored"
                    ELSE "unknown"
<1>1. summary[a].status \in {"ABSENT", "PENDING", "DONE", "FAILED"}
  BY DEF TypeOK, SummaryRecord, Status
<1> QED
  BY <1>1 DEF stage

(* An action that moves one article from one stage to the next, and leaves *)
(* the queue alone, is the step of the life cycle of that name.            *)
LEMMA StageChange ==
  ASSUME TypeOK, TypeOK', NEW a \in Article,
         \A b \in Article : b # a =>
           /\ summary'[b] = summary[b]
           /\ b \in feed' <=> b \in feed
           /\ b \in raw' <=> b \in raw
  PROVE  stage' = [stage EXCEPT ![a] = stage'[a]]
<1>1. \A b \in Article : b # a => stage'[b] = stage[b]
  BY DEF stage
<1>2. stage = [b \in Article |-> stage[b]] /\ stage' = [b \in Article |-> stage'[b]]
  BY DEF stage
<1> QED
  BY <1>1, <1>2

LEMMA StepRefines ==
  ASSUME ManualJob = {}, RInv, RInv', [Next]_vars
  PROVE  [Lifecycle!Next]_<<stage, acknowledged>>
<1>0. TypeOK /\ TypeOK' /\ IInv /\ AllFromIngestion /\ Kept
  BY StepKeeps DEF RInv, IInv
<1> DEFINE Goal == [Lifecycle!Next]_<<stage, acknowledged>>
<1>1. CASE UNCHANGED <<raw, feed, summary, sent, queue>>
  BY <1>1 DEF stage, acknowledged, Sent
<1>2. ASSUME NEW i \in Ingester, NEW a \in Article, PutRaw(i, a)
      PROVE  Goal
  <2>1. /\ a \notin raw /\ raw' = raw \cup {a}
        /\ UNCHANGED <<feed, summary, sent, queue>>
    BY <1>2 DEF PutRaw
  <2>2. a \notin feed /\ summary[a].status = "ABSENT"
    BY <1>0, <2>1 DEF AllFromIngestion
  <2>3. stage[a] = "unknown" /\ stage'[a] = "stored"
    BY <2>1, <2>2 DEF stage
  <2>4. stage' = [stage EXCEPT ![a] = stage'[a]]
    BY <1>0, <2>1, StageChange
  <2>5. acknowledged' = acknowledged
    BY <2>1 DEF acknowledged, Sent
  <2> QED
    BY <2>3, <2>4, <2>5 DEF Lifecycle!Next, Lifecycle!Store, Lifecycle!Advance
<1>3. ASSUME NEW i \in Ingester, PutFeed(i)
      PROVE  Goal
  <2> DEFINE a == ing[i].art
  <2>1. /\ a \in raw /\ a \in Article /\ feed' = feed \cup {a}
        /\ UNCHANGED <<raw, summary, sent, queue>>
    BY <1>0, <1>3 DEF PutFeed, IInv, WrittenSoFar, TypeOK
  <2>2. acknowledged' = acknowledged
    BY <2>1 DEF acknowledged, Sent
  <2>3. CASE a \in feed
    BY <2>1, <2>2, <2>3 DEF stage
  <2>4. CASE a \notin feed
    <3>1. summary[a].status = "ABSENT"
      BY <1>0, <2>1, <2>4 DEF AllFromIngestion
    <3>2. stage[a] = "stored" /\ stage'[a] = "listed"
      BY <2>1, <2>4, <3>1 DEF stage
    <3>3. stage' = [stage EXCEPT ![a] = stage'[a]]
      BY <1>0, <2>1, StageChange
    <3> QED
      BY <2>1, <2>2, <3>2, <3>3 DEF Lifecycle!Next, Lifecycle!List, Lifecycle!Advance
  <2> QED
    BY <2>3, <2>4
<1>4. ASSUME NEW i \in Ingester, PutPending(i)
      PROVE  Goal
  <2> DEFINE a == ing[i].art
  <2>1. /\ a \in feed /\ a \in Article
        /\ summary' = [summary EXCEPT ![a] = PendingIfAbsent(summary[a])]
        /\ UNCHANGED <<raw, feed, sent, queue>>
    BY <1>0, <1>4 DEF PutPending, WriteSummary, IInv, WrittenSoFar, TypeOK
  <2>2. acknowledged' = acknowledged
    BY <2>1 DEF acknowledged, Sent
  <2>3. CASE summary[a].status = "ABSENT"
    <3>1. summary'[a].status = "PENDING"
      BY <1>0, <2>1, <2>3 DEF PendingIfAbsent, TypeOK
    <3>2. stage[a] = "listed" /\ stage'[a] = "pending"
      BY <2>1, <2>3, <3>1 DEF stage
    <3>3. stage' = [stage EXCEPT ![a] = stage'[a]]
      BY <1>0, <2>1, StageChange DEF TypeOK
    <3> QED
      BY <2>1, <2>2, <3>2, <3>3 DEF Lifecycle!Next, Lifecycle!Owe, Lifecycle!Advance
  <2>4. CASE summary[a].status # "ABSENT"
    <3>1. summary' = summary
      BY <1>0, <2>1, <2>4 DEF PendingIfAbsent, TypeOK
    <3> QED
      BY <2>1, <2>2, <3>1 DEF stage
  <2> QED
    BY <2>3, <2>4
<1>5. ASSUME NEW m \in Message, NEW job, Send(m, job), UNCHANGED <<raw, feed, summary>>
      PROVE  Goal
  <2>1. sent' = [sent EXCEPT ![m] = job] /\ queue' = queue \cup {m} /\ sent[m] = None
    BY <1>5 DEF Send
  <2>2. Sent' \ queue' = Sent \ queue
    BY <1>0, <2>1 DEF Sent, TypeOK, IInv, HeldWasSent
  <2>3. \A n \in Sent \ queue : sent'[n] = sent[n]
    BY <1>0 DEF Kept
  <2>4. acknowledged' = acknowledged
    BY <2>2, <2>3 DEF acknowledged
  <2> QED
    BY <1>5, <2>4 DEF stage
(* A mark of an article the table lists: publish, fail or fail again.      *)
<1>6. ASSUME NEW w \in Worker, MarkFailed(w) \/ MarkDone(w)
      PROVE  Goal
  <2> DEFINE a == JobOf(w).art
  <2>1. /\ wrk[w].msg \in Sent /\ wrk[w].pc \in {"llm", "missing"}
        /\ UNCHANGED <<raw, feed, sent, queue>>
    BY <1>0, <1>6 DEF MarkFailed, MarkDone, IInv, HeldWasSent
  <2>2. a \in Article /\ summary[a].status # "ABSENT"
    BY <1>0, <2>1, SentKept DEF JobOf, IInv, JobFollowsArticle, AllFromIngestion
  <2>3. acknowledged' = acknowledged
    BY <2>1 DEF acknowledged, Sent
  <2>4. \A b \in Article : b # a => summary'[b] = summary[b]
    BY <1>0, <1>6 DEF MarkFailed, MarkDone, WriteSummary, TypeOK
  <2>5. stage' = [stage EXCEPT ![a] = stage'[a]]
    BY <1>0, <2>1, <2>2, <2>4, StageChange
  <2>6. summary[a].status \in {"PENDING", "DONE", "FAILED"}
    BY <1>0, <2>2 DEF TypeOK, SummaryRecord, Status
  <2>7. stage[a] = CASE summary[a].status = "DONE" -> "done"
                     [] summary[a].status = "FAILED" -> "failed"
                     [] summary[a].status = "PENDING" -> "pending"
    BY <1>0, <2>2, <2>6, StageOf
  <2>8. CASE MarkDone(w)
    <3>1. summary'[a].status = "DONE"
      BY <1>0, <2>2, <2>8 DEF MarkDone, DoneRecord, WriteSummary, TypeOK, SummaryRecord
    <3>2. stage'[a] = "done"
      BY <2>2, <3>1 DEF stage
    <3>3. stage[a] = "done" \/ stage[a] \in {"pending", "failed"}
      BY <2>6, <2>7
    <3>4. stage[a] = "done" => stage' = stage
      BY <2>2, <2>5, <3>2 DEF stage
    <3> QED
      BY <2>2, <2>3, <2>5, <3>2, <3>3, <3>4 DEF Lifecycle!Next, Lifecycle!Publish
  <2>9. CASE MarkFailed(w)
    <3>1. summary'[a].status = "FAILED"
      BY <1>0, <2>2, <2>9 DEF MarkFailed, FailedRecord, WriteSummary, TypeOK
    <3>2. stage'[a] = "failed"
      BY <2>2, <3>1 DEF stage
    <3>3. stage[a] = "done" => ~OneConsumerNoReprocess
      BY <2>1, <2>6, <2>7 DEF RInv, LoneWorkerIsFresh
    <3>4. stage[a] = "failed" => stage' = stage
      BY <2>2, <2>5, <3>2 DEF stage
    <3>5. stage[a] = "failed" \/ stage[a] = "pending" \/ stage[a] = "done"
      BY <2>6, <2>7
    <3> QED
      BY <2>2, <2>3, <2>5, <3>2, <3>3, <3>4, <3>5 DEF Lifecycle!Next, Lifecycle!Fail
  <2> QED
    BY <1>6, <2>8, <2>9
<1>7. ASSUME NEW w \in Worker, Ack(w)
      PROVE  Goal
  <2> DEFINE a == JobOf(w).art
  <2>1. /\ wrk[w].msg \in Sent /\ wrk[w].pc = "ack"
        /\ queue' = queue \ {wrk[w].msg}
        /\ UNCHANGED <<raw, feed, summary, sent>>
    BY <1>0, <1>7 DEF Ack, IInv, HeldWasSent
  <2>2. a \in Article /\ summary[a].status \in Settled
    BY <1>0, <2>1, SentKept DEF JobOf, IInv, AckHasOutcome
  <2>3. stage' = stage
    BY <2>1 DEF stage
  <2>4. acknowledged' = acknowledged \cup {a}
    <3>1. Sent' = Sent /\ Sent' \ queue' = (Sent \ queue) \cup {wrk[w].msg}
      BY <2>1 DEF Sent
    <3>2. acknowledged' = {b \in Article : \E m \in (Sent \ queue) \cup {wrk[w].msg} : sent[m].art = b}
      BY <2>1, <3>1 DEF acknowledged
    <3> QED
      BY <2>2, <3>2 DEF acknowledged, JobOf
  <2>5. stage[a] \in Lifecycle!Settled
    BY <1>0, <2>2, StageOf DEF Settled, Lifecycle!Settled
  <2> QED
    BY <2>2, <2>3, <2>4, <2>5 DEF Lifecycle!Next, Lifecycle!Acknowledge
<1>8. CASE UNCHANGED vars
  BY <1>1, <1>8 DEF vars
<1>9. CASE Next
  <2>1. \/ UNCHANGED <<raw, feed, summary, sent, queue>>
        \/ \E i \in Ingester, a \in Article : PutRaw(i, a)
        \/ \E i \in Ingester : PutFeed(i) \/ PutPending(i)
        \/ \E m \in Message : \E job : Send(m, job) /\ UNCHANGED <<raw, feed, summary>>
        \/ \E w \in Worker : MarkFailed(w) \/ MarkDone(w) \/ Ack(w)
    BY <1>9, StepCases DEF IngestDuplicate, IngesterCrash, Enqueue, OperatorSend, ExpireAbandoned,
       ExpireEarly, Receive, SkipDone, ReadState, ReadRaw, WorkerCrash
  <2> QED
    BY <2>1, <1>1, <1>2, <1>3, <1>4, <1>5, <1>6, <1>7
<1> QED
  BY <1>8, <1>9

(* The pipeline implements the life cycle: no stage is skipped, an article *)
(* is acknowledged only when settled, and with a single consumer that is   *)
(* never told to reprocess and whose reads are consistent, a published     *)
(* summary stays published.                                                *)
THEOREM Refinement ==
  ASSUME ManualJob = {}
  PROVE  Spec => ImplementsLifecycle
<1>1. Init => Lifecycle!Init
  BY InitRefines
<1>2. RInv /\ RInv' /\ [Next]_vars => [Lifecycle!Next]_<<stage, acknowledged>>
  BY StepRefines
<1> QED
  BY <1>1, <1>2, RefinementInvariant, PTL DEF Spec, ImplementsLifecycle, Lifecycle!Spec,
     Lifecycle!lifecycleVars
=============================================================================
