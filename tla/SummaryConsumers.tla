---------------------------- MODULE SummaryConsumers ----------------------------
(***************************************************************************)
(* The consumers of the summary-jobs queue and what they do with a message *)
(* body.  Two programs read the same kind of queue: the local consumer     *)
(* (run_forever and run_once, one message at a time) and the Lambda        *)
(* handler (a batch, with partial batch failures).  Each understands one   *)
(* kind of job: the local consumer is wired to the article use case, the   *)
(* Lambda to the briefing use case.                                        *)
(*                                                                         *)
(* The article use case is one step here (SummaryPipeline has its calls);  *)
(* the briefing use case is a read and a put, and other consumers run      *)
(* between the two.  That read is eventually consistent: until every copy  *)
(* of the table has a briefing it may find none.                           *)
(* A call that raises, a process that dies and a visibility timeout that   *)
(* ends under a consumer at work are faults, at most MaxFaults of them.    *)
(***************************************************************************)
EXTENDS Naturals, FiniteSets

CONSTANTS
  Message,        \* SQS messages
  Kind,           \* what the body of each message is
  Key,            \* (user_id, date) pairs of briefings
  KeyOf,          \* the briefing a message is about
  LocalConsumer,  \* local consumer processes
  Once,           \* those of them that run with --once
  Lambda,         \* concurrent Lambda executions
  BatchSize,      \* records of one Lambda event
  MaxEmptyPolls,  \* max_empty_polls
  MaxAttempts,    \* summary_worker_retry_attempts
  MaxFaults,      \* bound on the faults of a behaviour
  None            \* no message

(* An "article" body satisfies the v1 article contract, a "briefing" body  *)
(* the legacy "1.0" contract, an "unreadable" one neither.                 *)
ASSUME KindAssumption == Kind \in [Message -> {"article", "briefing", "unreadable"}]
ASSUME KeyOfAssumption == KeyOf \in [Message -> Key]
ASSUME OnceAssumption == Once \subseteq LocalConsumer
ASSUME BoundsAssumption == /\ MaxEmptyPolls \in Nat \ {0}
                           /\ MaxAttempts \in Nat \ {0}
                           /\ MaxFaults \in Nat
ASSUME NoneAssumption == None \notin Message

VARIABLES
  sent,       \* messages put on the queue so far
  queue,      \* those not deleted
  hidden,     \* those of the queue within a visibility timeout
  cutShort,   \* those whose latest delivery raised, died or killed its consumer
  con,        \* local consumers
  lam,        \* Lambda executions
  settled,    \* article jobs for which the use case has returned
  briefing,   \* the message each briefing item was made from
  copied,     \* briefings that every copy of the table has
  faults      \* faults so far

vars == <<sent, queue, hidden, cutShort, con, lam, settled, briefing, copied, faults>>

(* quiet is history: the polls in a row that a once consumer found empty.  *)
Fresh == [pc |-> "poll", msg |-> None, empties |-> 0, quiet |-> 0, stop |-> FALSE]
IdleLambda == [pc |-> "idle", batch |-> {}, todo |-> {}, failed |-> {},
               msg |-> None, attempt |-> 0]

Init ==
  /\ sent = {}
  /\ queue = {}
  /\ hidden = {}
  /\ cutShort = {}
  /\ con = [c \in LocalConsumer |-> Fresh]
  /\ lam = [l \in Lambda |-> IdleLambda]
  /\ settled = {}
  /\ briefing = [k \in Key |-> None]
  /\ copied = {}
  /\ faults = 0

-----------------------------------------------------------------------------
(* The queue.                                                              *)

Visible == queue \ hidden

Held(m) == \/ \E c \in LocalConsumer : con[c].msg = m
           \/ \E l \in Lambda : m \in lam[l].batch

Send(m) ==
  /\ m \notin sent
  /\ sent' = sent \cup {m}
  /\ queue' = queue \cup {m}
  /\ UNCHANGED <<hidden, cutShort, con, lam, settled, briefing, copied, faults>>

Fault ==
  /\ faults < MaxFaults
  /\ faults' = faults + 1

(* The visibility timeout of a message that nobody works on any more.      *)
Expire(m) ==
  /\ m \in hidden
  /\ ~Held(m)
  /\ hidden' = hidden \ {m}
  /\ UNCHANGED <<sent, queue, cutShort, con, lam, settled, briefing, copied, faults>>

(* The visibility timeout ends first.                                      *)
ExpireEarly(m) ==
  /\ m \in hidden
  /\ Held(m)
  /\ Fault
  /\ hidden' = hidden \ {m}
  /\ UNCHANGED <<sent, queue, cutShort, con, lam, settled, briefing, copied>>

(* Mutant: a deleted message keeps its timeout.                            *)
DeleteFromQueueOnly(done) ==
  /\ queue' = queue \ done
  /\ UNCHANGED <<hidden, cutShort>>

Delete(done) ==
  /\ queue' = queue \ done
  /\ hidden' = hidden \ done
  /\ cutShort' = cutShort \ done

(* These deliveries end without a verdict (or with a reported failure):    *)
(* the messages are to come back.                                          *)
CutShort(deliveries) == cutShort' = cutShort \cup deliveries

-----------------------------------------------------------------------------
(* The local consumer: _run_consumer, poll_once, _process_record.          *)

(* A poll that returns a message.                                          *)
Receive(c, m) ==
  /\ con[c].pc = "poll"
  /\ m \in Visible
  /\ hidden' = hidden \cup {m}
  /\ cutShort' = cutShort \ {m}
  /\ con' = [con EXCEPT ![c].pc = "record", ![c].msg = m, ![c].quiet = 0]
  /\ UNCHANGED <<sent, queue, lam, settled, briefing, copied, faults>>

(* What the while loop does next: a signal has cleared the running flag or *)
(* it polls again.                                                         *)
NextPoll(c) == IF con[c].stop THEN "done" ELSE "poll"

(* A long poll (wait_time_seconds above 0) finds nothing visible, and      *)
(* poll_once sleeps a moment before it returns False.                      *)
EmptyReceive(c) ==
  /\ con[c].pc = "poll"
  /\ Visible = {}
  /\ con' = [con EXCEPT ![c].pc = "empty", ![c].quiet = IF c \in Once THEN @ + 1 ELSE @]
  /\ UNCHANGED <<sent, queue, hidden, cutShort, lam, settled, briefing, copied, faults>>

(* The loop turns without a message.  Only the once mode counts, and       *)
(* breaks out of the loop at the last empty poll.                          *)
AfterEmptyPoll(c) ==
  IF c \in Once
  THEN [con[c] EXCEPT !.pc = IF con[c].empties + 1 >= MaxEmptyPolls THEN "done" ELSE NextPoll(c),
                      !.msg = None,
                      !.empties = @ + 1]
  ELSE [con[c] EXCEPT !.pc = NextPoll(c), !.msg = None]

(* By then there may be messages again.                                    *)
CountEmpty(c) ==
  /\ con[c].pc = "empty"
  /\ con' = [con EXCEPT ![c] = AfterEmptyPoll(c)]
  /\ UNCHANGED <<sent, queue, hidden, cutShort, lam, settled, briefing, copied, faults>>

(* The poll returns True, which resets the count of empty polls.           *)
AfterMessage(c) == [con[c] EXCEPT !.pc = NextPoll(c), !.msg = None, !.empties = 0]

(* Mutant: a body that cannot be read is left on the queue.                *)
LeaveUnreadable(c) ==
  /\ con[c].pc = "record"
  /\ Kind[con[c].msg] = "unreadable"
  /\ con' = [con EXCEPT ![c] = AfterMessage(c)]
  /\ UNCHANGED <<sent, queue, hidden, cutShort, lam, settled, briefing, copied, faults>>

(* Not JSON, or no job of either contract: acknowledged without work.      *)
DropUnreadable(c) ==
  /\ con[c].pc = "record"
  /\ Kind[con[c].msg] = "unreadable"
  /\ con' = [con EXCEPT ![c].pc = "ack"]
  /\ UNCHANGED <<sent, queue, hidden, cutShort, lam, settled, briefing, copied, faults>>

(* _process_article_job: the use case returns DONE, FAILED or SKIPPED.     *)
ProcessArticle(c) ==
  /\ con[c].pc = "record"
  /\ Kind[con[c].msg] = "article"
  /\ settled' = settled \cup {con[c].msg}
  /\ con' = [con EXCEPT ![c].pc = "ack"]
  /\ UNCHANGED <<sent, queue, hidden, cutShort, lam, briefing, copied, faults>>

(* Mutant: the job that raised is acknowledged.                            *)
AckRaised(c) ==
  /\ con[c].pc = "record"
  /\ Kind[con[c].msg] = "article"
  /\ Fault
  /\ con' = [con EXCEPT ![c].pc = "ack"]
  /\ UNCHANGED <<sent, queue, hidden, cutShort, lam, settled, briefing, copied>>

(* The use case raises: nothing is acknowledged.  The retries do not count *)
(* here, as the article use case never raises SummaryJobRetryableError.    *)
ArticleRaised(c) ==
  /\ con[c].pc = "record"
  /\ Kind[con[c].msg] = "article"
  /\ Fault
  /\ CutShort({con[c].msg})
  /\ con' = [con EXCEPT ![c] = AfterMessage(c)]
  /\ UNCHANGED <<sent, queue, hidden, lam, settled, briefing, copied>>

(* process_sqs_record parses the legacy job and calls the use case the     *)
(* consumer was built with.  That is the article use case, which reads     *)
(* job.content_hash; the legacy job has none, and nothing catches the      *)
(* AttributeError.                                                         *)
LegacyKills(c) ==
  /\ con[c].pc = "record"
  /\ Kind[con[c].msg] = "briefing"
  /\ CutShort({con[c].msg})
  /\ con' = [con EXCEPT ![c] = [Fresh EXCEPT !.pc = "dead"]]
  /\ UNCHANGED <<sent, queue, hidden, lam, settled, briefing, copied, faults>>

(* Mutant: poll_once does not return True after a message.                 *)
AckAsEmptyPoll(c) ==
  /\ con[c].pc = "ack"
  /\ Delete({con[c].msg})
  /\ con' = [con EXCEPT ![c] = AfterEmptyPoll(c)]
  /\ UNCHANGED <<sent, lam, settled, briefing, copied, faults>>

Ack(c) ==
  /\ con[c].pc = "ack"
  /\ Delete({con[c].msg})
  /\ con' = [con EXCEPT ![c] = AfterMessage(c)]
  /\ UNCHANGED <<sent, lam, settled, briefing, copied, faults>>

(* SIGINT or SIGTERM only clears the running flag: the poll and the        *)
(* message at hand are finished first.                                     *)
StopRequested(c) ==
  /\ con[c].pc \in {"poll", "empty", "record", "ack"}
  /\ ~con[c].stop
  /\ con' = [con EXCEPT ![c].stop = TRUE]
  /\ UNCHANGED <<sent, queue, hidden, cutShort, lam, settled, briefing, copied, faults>>

(* SIGKILL, or an SQS call that raises: no handler, the process ends.      *)
Die(c) ==
  /\ con[c].pc \in {"poll", "empty", "record", "ack"}
  /\ Fault
  /\ CutShort({con[c].msg} \ {None})
  /\ con' = [con EXCEPT ![c] = [Fresh EXCEPT !.pc = "dead"]]
  /\ UNCHANGED <<sent, queue, hidden, lam, settled, briefing, copied>>

(* The shell loop of make summary-worker-loop.                             *)
Restart(c) ==
  /\ con[c].pc = "dead"
  /\ con' = [con EXCEPT ![c] = Fresh]
  /\ UNCHANGED <<sent, queue, hidden, cutShort, lam, settled, briefing, copied, faults>>

-----------------------------------------------------------------------------
(* The Lambda: lambda_handler, process_sqs_record, SummaryJobUseCase.      *)

Invoke(l, batch) ==
  /\ lam[l].pc = "idle"
  /\ Cardinality(batch) \in 1 .. BatchSize
  /\ batch \subseteq Visible
  /\ hidden' = hidden \cup batch
  /\ cutShort' = cutShort \ batch
  /\ lam' = [lam EXCEPT ![l] = [IdleLambda EXCEPT !.pc = "batch", !.batch = batch, !.todo = batch]]
  /\ UNCHANGED <<sent, queue, con, settled, briefing, copied, faults>>

(* The record of message m is finished with; failed says how.              *)
NextRecord(l, m, failed) ==
  [pc |-> "batch", batch |-> lam[l].batch, todo |-> lam[l].todo \ {m},
   failed |-> lam[l].failed \cup (IF failed THEN {m} ELSE {}), msg |-> None, attempt |-> 0]

(* The schema check refuses every body but a legacy briefing job, valid    *)
(* article jobs with it, and the record is acknowledged.                   *)
DropRecord(l, m) ==
  /\ lam[l].pc = "batch"
  /\ m \in lam[l].todo
  /\ Kind[m] # "briefing"
  /\ lam' = [lam EXCEPT ![l] = NextRecord(l, m, FALSE)]
  /\ UNCHANGED <<sent, queue, hidden, cutShort, con, settled, briefing, copied, faults>>

StartRecord(l, m) ==
  /\ lam[l].pc = "batch"
  /\ m \in lam[l].todo
  /\ Kind[m] = "briefing"
  /\ lam' = [lam EXCEPT ![l].pc = "read", ![l].msg = m, ![l].attempt = 1]
  /\ UNCHANGED <<sent, queue, hidden, cutShort, con, settled, briefing, copied, faults>>

KeyAt(l) == KeyOf[lam[l].msg]

(* What get_item may return for a briefing.  Only whether there is an item *)
(* matters, and an earlier answer can only be that there was none.         *)
Readable(k) == {briefing[k]} \cup (IF k \in copied THEN {} ELSE {None})

(* The last copy of the table gets a briefing.                             *)
Replicate(k) ==
  /\ briefing[k] # None
  /\ k \notin copied
  /\ copied' = copied \cup {k}
  /\ UNCHANGED <<sent, queue, hidden, cutShort, con, lam, settled, briefing, faults>>

(* Mutant: the briefing is made again whatever there is.                   *)
ReadIgnored(l) ==
  /\ lam[l].pc = "read"
  /\ lam' = [lam EXCEPT ![l].pc = "save"]
  /\ UNCHANGED <<sent, queue, hidden, cutShort, con, settled, briefing, copied, faults>>

(* get_for_user_date: an existing briefing ends the job.                   *)
ReadBriefing(l) ==
  /\ lam[l].pc = "read"
  /\ \E existing \in Readable(KeyAt(l)) :
       lam' = [lam EXCEPT ![l] = IF existing # None THEN NextRecord(l, lam[l].msg, FALSE)
                                 ELSE [lam[l] EXCEPT !.pc = "save"]]
  /\ UNCHANGED <<sent, queue, hidden, cutShort, con, settled, briefing, copied, faults>>

(* save: an unconditional put.                                             *)
SaveBriefing(l) ==
  /\ lam[l].pc = "save"
  /\ briefing' = [briefing EXCEPT ![KeyAt(l)] = lam[l].msg]
  /\ lam' = [lam EXCEPT ![l] = NextRecord(l, lam[l].msg, FALSE)]
  /\ UNCHANGED <<sent, queue, hidden, cutShort, con, settled, copied, faults>>

(* Mutant: a job out of attempts is not reported.                          *)
RetryOrForget(l) ==
  IF lam[l].attempt < MaxAttempts
  THEN [lam[l] EXCEPT !.pc = "read", !.attempt = @ + 1]
  ELSE NextRecord(l, lam[l].msg, FALSE)

(* execute_with_retries: every exception of the use case is retryable, and *)
(* the whole of it runs again until the attempts are used up.              *)
RetryOrFail(l) ==
  IF lam[l].attempt < MaxAttempts
  THEN [lam[l] EXCEPT !.pc = "read", !.attempt = @ + 1]
  ELSE NextRecord(l, lam[l].msg, TRUE)

(* The read or the put raises; a put that raised may have been applied.    *)
CallRaised(l) ==
  /\ lam[l].pc \in {"read", "save"}
  /\ Fault
  /\ CutShort(IF lam[l].attempt < MaxAttempts THEN {} ELSE {lam[l].msg})
  /\ lam' = [lam EXCEPT ![l] = RetryOrFail(l)]
  /\ \/ UNCHANGED briefing
     \/ /\ lam[l].pc = "save"
        /\ briefing' = [briefing EXCEPT ![KeyAt(l)] = lam[l].msg]
  /\ UNCHANGED <<sent, queue, hidden, con, settled, copied>>

(* Mutant: one failure brings back the whole batch.                        *)
ReturnAllOrNothing(l) ==
  /\ lam[l].pc = "batch"
  /\ lam[l].todo = {}
  /\ Delete(IF lam[l].failed = {} THEN lam[l].batch ELSE {})
  /\ lam' = [lam EXCEPT ![l] = IdleLambda]
  /\ UNCHANGED <<sent, con, settled, briefing, copied, faults>>

(* The handler returns batchItemFailures; the rest of the batch is deleted. *)
Return(l) ==
  /\ lam[l].pc = "batch"
  /\ lam[l].todo = {}
  /\ Delete(lam[l].batch \ lam[l].failed)
  /\ lam' = [lam EXCEPT ![l] = IdleLambda]
  /\ UNCHANGED <<sent, con, settled, briefing, copied, faults>>

(* The execution is killed or times out: nothing of the batch is deleted.  *)
LambdaDies(l) ==
  /\ lam[l].pc # "idle"
  /\ Fault
  /\ CutShort(lam[l].batch)
  /\ lam' = [lam EXCEPT ![l] = IdleLambda]
  /\ UNCHANGED <<sent, queue, hidden, con, settled, briefing, copied>>

-----------------------------------------------------------------------------
QueueStep(m) == Send(m) \/ Expire(m) \/ ExpireEarly(m)

(* The work of a local consumer on the message it received.                *)
Work(c) ==
  \/ DropUnreadable(c)
  \/ ProcessArticle(c)
  \/ LegacyKills(c)
  \/ Ack(c)

ConsumerStep(c) ==
  \/ \E m \in Message : Receive(c, m)
  \/ EmptyReceive(c)
  \/ CountEmpty(c)
  \/ Work(c)
  \/ ArticleRaised(c)
  \/ StopRequested(c)
  \/ Die(c)
  \/ Restart(c)

(* The work of a Lambda on the batch it was invoked with.                  *)
Handle(l) ==
  \/ \E m \in Message : DropRecord(l, m) \/ StartRecord(l, m)
  \/ ReadBriefing(l)
  \/ SaveBriefing(l)
  \/ Return(l)

LambdaStep(l) ==
  \/ \E batch \in SUBSET Message : Invoke(l, batch)
  \/ Handle(l)
  \/ CallRaised(l)
  \/ LambdaDies(l)

Next ==
  \/ \E m \in Message : QueueStep(m)
  \/ \E c \in LocalConsumer : ConsumerStep(c)
  \/ \E l \in Lambda : LambdaStep(l)
  \/ \E k \in Key : Replicate(k)

Spec == Init /\ [][Next]_vars

(* The program goes on with what it has received or found empty, the shell *)
(* loop restarts a consumer that died, Lambda's poller invokes the handler *)
(* while there are messages, and SQS ends every timeout.  A poll receives  *)
(* any visible message; SQS samples its servers, so that one that is       *)
(* visible again and again is received in the end (a job that keeps        *)
(* killing consumers does not keep the others from them).                  *)
Fairness ==
  /\ \A m \in Message : SF_vars(\E c \in LocalConsumer : Receive(c, m))
  /\ \A c \in LocalConsumer :
       /\ WF_vars(EmptyReceive(c) \/ CountEmpty(c))
       /\ WF_vars(Work(c))
       /\ WF_vars(Restart(c))
  /\ \A l \in Lambda :
       /\ WF_vars(\E batch \in SUBSET Message : Invoke(l, batch))
       /\ WF_vars(Handle(l))
  /\ \A m \in Message : WF_vars(Expire(m))

FairSpec == Spec /\ Fairness

-----------------------------------------------------------------------------
ConsumerState == [pc : {"poll", "empty", "record", "ack", "done", "dead"},
                  msg : Message \cup {None},
                  empties : 0 .. MaxEmptyPolls,
                  quiet : 0 .. MaxEmptyPolls,
                  stop : BOOLEAN]
LambdaState == [pc : {"idle", "batch", "read", "save"},
                batch : SUBSET Message,
                todo : SUBSET Message,
                failed : SUBSET Message,
                msg : Message \cup {None},
                attempt : 0 .. MaxAttempts]

(* The type of every variable; SQS hides only messages it holds, and holds *)
(* only messages that were sent.                                           *)
TypeOK ==
  /\ sent \in SUBSET Message
  /\ queue \in SUBSET sent
  /\ hidden \in SUBSET queue
  /\ cutShort \in SUBSET Message
  /\ con \in [LocalConsumer -> ConsumerState]
  /\ lam \in [Lambda -> LambdaState]
  /\ settled \in SUBSET Message
  /\ briefing \in [Key -> Message \cup {None}]
  /\ copied \in SUBSET Key
  /\ faults \in 0 .. MaxFaults
  /\ \A c \in LocalConsumer : con[c].msg \in Message <=> con[c].pc \in {"record", "ack"}
  /\ \A c \in LocalConsumer : con[c].empties = MaxEmptyPolls => con[c].pc = "done"
  /\ \A l \in Lambda : lam[l].msg \in Message <=> lam[l].pc \in {"read", "save"}

(* What a message was for has been done.  An article job is safe only on a *)
(* queue that no Lambda reads.                                             *)
Processed(m) ==
  CASE Kind[m] = "unreadable" -> TRUE
    [] Kind[m] = "briefing" -> briefing[KeyOf[m]] # None
    [] Kind[m] = "article" -> m \in settled \/ Lambda # {}

(* No job is lost: whatever dies, raises or is redelivered, a message is   *)
(* deleted only after the briefing it asks for exists, or its article was  *)
(* processed.  Partial batch failures name every record that must return.  *)
NoJobLost == \A m \in sent \ queue : Processed(m)

(* A message is left hidden with nobody at work on it, to come back later, *)
(* only when its own latest delivery was cut short: its use case raised    *)
(* (in a Lambda at the last attempt), its consumer died, or it was the     *)
(* legacy job that killed a local consumer.  A signal, an unreadable body  *)
(* and a failure elsewhere in the batch never bring back a message that    *)
(* is done with, whatever faults there were before.                        *)
AbandonedNeedsFault == \A m \in hidden : Held(m) \/ m \in cutShort

(* run_once completes by itself only when its last MaxEmptyPolls polls, in *)
(* a row, found nothing visible.  What is visible then came back or was    *)
(* sent after the last of them, in the moment the program sleeps before it *)
(* counts.                                                                 *)
OnceEndsWhenQuiet ==
  [][\A c \in Once :
       (con[c].pc # "done" /\ con'[c].pc = "done" /\ ~con[c].stop) =>
         con[c].quiet = MaxEmptyPolls]_vars

(* Every message but a legacy job leaves the queue of local consumers in   *)
(* the end: nothing else is a poison message, and the one that is, and     *)
(* that kills each consumer that takes it, does not keep the others there. *)
(* (The consumers can all be told to stop.)                                *)
EveryMessageLeaves ==
  \A m \in Message :
    (m \in queue /\ (Kind[m] = "briefing" => LocalConsumer = {})) ~>
      \/ m \notin queue
      \/ LocalConsumer # {} /\ \A c \in LocalConsumer : con[c].pc = "done"

(* Every copy of the table has the briefing and no execution that found    *)
(* none before is about to save its own.                                   *)
Kept(k) ==
  /\ k \in copied
  /\ \A l \in Lambda : lam[l].pc = "save" => KeyAt(l) # k

(* "Idempotent save" as far as it goes.  Get and put are two calls and the *)
(* get may be stale, so a second execution may replace the briefing of the *)
(* first; but once every copy has it and those already past the get are    *)
(* through, it is the briefing for good, however many executions, retries  *)
(* and redeliveries follow.                                                *)
BriefingIsKept ==
  [][\A k \in Key : Kept(k) => Kept(k)' /\ briefing'[k] = briefing[k]]_vars
=============================================================================
