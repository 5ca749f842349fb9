------------------------- MODULE SummaryConsumersProofs -------------------------
(***************************************************************************)
(* Theorems about SummaryConsumers, for every set of messages, consumers   *)
(* and Lambda executions and every value of the bounds.                    *)
(***************************************************************************)
EXTENDS SummaryConsumers, TLAPS

-----------------------------------------------------------------------------
(* The inductive invariant.                                                *)

(* The messages whose work is done.                                        *)
Done == {m \in Message : Processed(m)}

(* The two counts of a once consumer: quiet is empties, and one more       *)
(* between an empty receive and the count of it.                           *)
Counts(s) ==
  /\ s.pc = "poll" => s.quiet = s.empties
  /\ s.pc = "empty" => s.quiet = s.empties + 1
  /\ s.pc \in {"record", "ack"} => s.quiet = 0

CountsGood == \A c \in Once : Counts(con[c])

(* A local consumer holds a message that was sent, and is about to delete  *)
(* only what is done.                                                      *)
ConsumerGood(s, snt, done) ==
  /\ s.msg # None => s.msg \in snt
  /\ s.pc = "ack" => s.msg \in done

(* A Lambda has done what it will delete: the records of its batch that    *)
(* are neither to do nor failed.                                           *)
LambdaGood(s, snt, done) ==
  /\ s.todo \subseteq s.batch
  /\ s.failed \subseteq s.batch
  /\ s.batch \subseteq snt
  /\ s.msg # None => s.msg \in s.todo /\ Kind[s.msg] = "briefing"
  /\ s.batch \ (s.todo \cup s.failed) \subseteq done
  /\ s.pc = "idle" => s.batch = {}

AllGood ==
  /\ \A c \in LocalConsumer : ConsumerGood(con[c], sent, Done)
  /\ \A l \in Lambda : LambdaGood(lam[l], sent, Done)

(* A hidden message whose delivery was not cut short is in the hands of    *)
(* somebody who has not reported it as failed.  (A Lambda that has also    *)
(* holds it, but will return without deleting it.)                         *)
InHand(m) == \/ \E c \in LocalConsumer : con[c].msg = m
             \/ \E l \in Lambda : m \in lam[l].batch \ lam[l].failed

Accounted == \A m \in hidden \ cutShort : InHand(m)

IInv == TypeOK /\ CountsGood /\ AllGood /\ NoJobLost /\ Accounted

-----------------------------------------------------------------------------
LEMMA StepCases ==
  ASSUME Next
  PROVE  \/ \E m \in Message : Send(m) \/ Expire(m) \/ ExpireEarly(m)
         \/ \E c \in LocalConsumer, m \in Message : Receive(c, m)
         \/ \E c \in LocalConsumer : \/ EmptyReceive(c) \/ CountEmpty(c) \/ DropUnreadable(c) \/ ProcessArticle(c)
                                     \/ LegacyKills(c) \/ Ack(c) \/ ArticleRaised(c)
                                     \/ StopRequested(c) \/ Die(c) \/ Restart(c)
         \/ \E l \in Lambda, batch \in SUBSET Message : Invoke(l, batch)
         \/ \E l \in Lambda, m \in Message : DropRecord(l, m) \/ StartRecord(l, m)
         \/ \E l \in Lambda : \/ ReadBriefing(l) \/ SaveBriefing(l) \/ Return(l)
                              \/ CallRaised(l) \/ LambdaDies(l)
         \/ \E k \in Key : Replicate(k)
BY Zenon DEF Next, QueueStep, ConsumerStep, Work, LambdaStep, Handle

(* The type of the state of one consumer.                                  *)
ConsumerType(s) ==
  /\ s \in ConsumerState
  /\ s.msg \in Message <=> s.pc \in {"record", "ack"}
  /\ s.empties = MaxEmptyPolls => s.pc = "done"
LambdaType(s) ==
  /\ s \in LambdaState
  /\ s.msg \in Message <=> s.pc \in {"read", "save"}

LEMMA TypeParts ==
  TypeOK <=> /\ sent \in SUBSET Message
             /\ queue \in SUBSET sent
             /\ hidden \in SUBSET queue
             /\ cutShort \in SUBSET Message
             /\ con \in [LocalConsumer -> ConsumerState]
             /\ lam \in [Lambda -> LambdaState]
             /\ settled \in SUBSET Message
             /\ briefing \in [Key -> Message \cup {None}]
             /\ copied \in SUBSET Key
             /\ faults \in 0 .. MaxFaults
             /\ \A c \in LocalConsumer : ConsumerType(con[c])
             /\ \A l \in Lambda : LambdaType(lam[l])
BY DEF TypeOK, ConsumerType, LambdaType

(* What a local consumer becomes when the loop turns.                      *)
LEMMA AfterTypes ==
  ASSUME TypeOK, NEW c \in LocalConsumer, con[c].pc # "done"
  PROVE  /\ ConsumerType(AfterMessage(c))
         /\ AfterMessage(c).msg = None
         /\ AfterMessage(c).pc \in {"poll", "done"}
         /\ AfterMessage(c).empties = 0
         /\ AfterMessage(c).quiet = con[c].quiet
         /\ ConsumerType(AfterEmptyPoll(c))
         /\ AfterEmptyPoll(c).msg = None
         /\ AfterEmptyPoll(c).pc \in {"poll", "done"}
         /\ AfterEmptyPoll(c).quiet = con[c].quiet
         /\ c \in Once => AfterEmptyPoll(c).empties = con[c].empties + 1
<1> USE NoneAssumption, BoundsAssumption
<1>0. con[c] \in ConsumerState /\ (con[c].empties = MaxEmptyPolls => con[c].pc = "done")
  BY TypeParts DEF ConsumerType
<1>1. /\ con[c].empties \in 0 .. MaxEmptyPolls
      /\ con[c].empties # MaxEmptyPolls
      /\ con[c].quiet \in 0 .. MaxEmptyPolls
      /\ con[c].stop \in BOOLEAN
      /\ con[c] = [pc |-> con[c].pc, msg |-> con[c].msg, empties |-> con[c].empties,
                   quiet |-> con[c].quiet, stop |-> con[c].stop]
  BY <1>0 DEF ConsumerState
<1>2. NextPoll(c) \in {"poll", "done"}
  BY DEF NextPoll
<1>3. PICK pc \in {"poll", "done"}, n \in 0 .. MaxEmptyPolls :
        /\ AfterEmptyPoll(c) = [pc |-> pc, msg |-> None, empties |-> n,
                                quiet |-> con[c].quiet, stop |-> con[c].stop]
        /\ n = MaxEmptyPolls => pc = "done"
        /\ c \in Once => n = con[c].empties + 1
  <2>1. CASE c \in Once
    <3> DEFINE n == con[c].empties + 1
               pc == IF n >= MaxEmptyPolls THEN "done" ELSE NextPoll(c)
    <3>1. AfterEmptyPoll(c) = [pc |-> pc, msg |-> None, empties |-> n,
                               quiet |-> con[c].quiet, stop |-> con[c].stop]
      BY <1>1, <2>1 DEF AfterEmptyPoll
    <3>2. n \in 0 .. MaxEmptyPolls /\ pc \in {"poll", "done"} /\ (n = MaxEmptyPolls => pc = "done")
      BY <1>1, <1>2
    <3> QED
      BY <3>1, <3>2
  <2>2. CASE c \notin Once
    <3>1. AfterEmptyPoll(c) = [pc |-> NextPoll(c), msg |-> None, empties |-> con[c].empties,
                               quiet |-> con[c].quiet, stop |-> con[c].stop]
      BY <1>1, <2>2 DEF AfterEmptyPoll
    <3> QED
      BY <1>1, <1>2, <2>2, <3>1
  <2> QED
    BY <2>1, <2>2
<1>4. /\ ConsumerType(AfterMessage(c))
      /\ AfterMessage(c).msg = None
      /\ AfterMessage(c).pc \in {"poll", "done"}
      /\ AfterMessage(c).empties = 0
      /\ AfterMessage(c).quiet = con[c].quiet
  <2>0. 0 \in 0 .. MaxEmptyPolls /\ MaxEmptyPolls # 0
    OBVIOUS
  <2>1. /\ AfterMessage(c).pc = NextPoll(c)
        /\ AfterMessage(c).msg = None
        /\ AfterMessage(c).empties = 0
        /\ AfterMessage(c).quiet = con[c].quiet
    BY <1>0 DEF AfterMessage, ConsumerState
  <2>2. AfterMessage(c) \in ConsumerState
    BY <1>0, <1>2, <2>0 DEF AfterMessage, ConsumerState
  <2> QED
    BY <1>2, <2>0, <2>1, <2>2 DEF ConsumerType
<1>5. /\ ConsumerType(AfterEmptyPoll(c))
      /\ AfterEmptyPoll(c).msg = None
      /\ AfterEmptyPoll(c).pc \in {"poll", "done"}
      /\ AfterEmptyPoll(c).quiet = con[c].quiet
      /\ c \in Once => AfterEmptyPoll(c).empties = con[c].empties + 1
  BY <1>1, <1>3 DEF ConsumerType, ConsumerState
<1> QED
  BY <1>4, <1>5

(* What a Lambda becomes when it is done with a record.                    *)
LEMMA NextRecordType ==
  ASSUME TypeOK, NEW l \in Lambda, NEW m \in Message, NEW failed \in BOOLEAN
  PROVE  /\ LambdaType(NextRecord(l, m, failed))
         /\ NextRecord(l, m, failed).pc = "batch"
         /\ NextRecord(l, m, failed).msg = None
         /\ NextRecord(l, m, failed).batch = lam[l].batch
         /\ NextRecord(l, m, failed).todo = lam[l].todo \ {m}
         /\ NextRecord(l, m, failed).failed = lam[l].failed \cup (IF failed THEN {m} ELSE {})
<1> USE NoneAssumption, BoundsAssumption
<1>1. lam[l] \in LambdaState
  BY TypeParts DEF LambdaType
<1> QED
  BY <1>1 DEF NextRecord, LambdaType, LambdaState

(* The retry either starts the record again or reports it.                 *)
LEMMA RetryType ==
  ASSUME TypeOK, NEW l \in Lambda, lam[l].pc \in {"read", "save"}
  PROVE  /\ LambdaType(RetryOrFail(l))
         /\ \/ RetryOrFail(l) = NextRecord(l, lam[l].msg, TRUE)
            \/ /\ RetryOrFail(l).pc = "read"
               /\ RetryOrFail(l).msg = lam[l].msg
               /\ RetryOrFail(l).batch = lam[l].batch
               /\ RetryOrFail(l).todo = lam[l].todo
               /\ RetryOrFail(l).failed = lam[l].failed
<1> USE NoneAssumption, BoundsAssumption
<1>1. lam[l] \in LambdaState /\ lam[l].msg \in Message
  BY TypeParts DEF LambdaType
<1>2. CASE lam[l].attempt < MaxAttempts
  <2> DEFINE s == [lam[l] EXCEPT !.pc = "read", !.attempt = @ + 1]
  <2>1. RetryOrFail(l) = s
    BY <1>2 DEF RetryOrFail
  <2>2. s.attempt \in 0 .. MaxAttempts
    BY <1>1, <1>2 DEF LambdaState
  <2>3. s \in LambdaState /\ s.pc = "read" /\ s.msg = lam[l].msg
    BY <1>1, <2>2 DEF LambdaState
  <2>4. s.batch = lam[l].batch /\ s.todo = lam[l].todo /\ s.failed = lam[l].failed
    BY <1>1 DEF LambdaState
  <2> QED
    BY <1>1, <2>1, <2>3, <2>4 DEF LambdaType
<1>3. CASE ~(lam[l].attempt < MaxAttempts)
  BY <1>1, <1>3, NextRecordType DEF RetryOrFail
<1> QED
  BY <1>2, <1>3

LEMMA TypeStep ==
  ASSUME TypeOK, CountsGood, [Next]_vars
  PROVE  TypeOK'
<1> USE KindAssumption, KeyOfAssumption, OnceAssumption, BoundsAssumption, NoneAssumption
(* One consumer moves to a state of its type.                              *)
<1>con. ASSUME NEW c \in LocalConsumer, NEW s, ConsumerType(s), con' = [con EXCEPT ![c] = s]
        PROVE  con' \in [LocalConsumer -> ConsumerState] /\ \A d \in LocalConsumer : ConsumerType(con'[d])
  BY <1>con, TypeParts DEF ConsumerType
<1>lam. ASSUME NEW l \in Lambda, NEW s, LambdaType(s), lam' = [lam EXCEPT ![l] = s]
        PROVE  lam' \in [Lambda -> LambdaState] /\ \A d \in Lambda : LambdaType(lam'[d])
  BY <1>lam, TypeParts DEF LambdaType
<1>fresh. /\ ConsumerType(Fresh) /\ ConsumerType([Fresh EXCEPT !.pc = "dead"])
          /\ LambdaType(IdleLambda)
  <2>0. 0 \in 0 .. MaxEmptyPolls /\ MaxEmptyPolls # 0
    OBVIOUS
  <2>1. ConsumerType(Fresh)
    BY <2>0 DEF Fresh, ConsumerType, ConsumerState
  <2> DEFINE dead == [Fresh EXCEPT !.pc = "dead"]
  <2>3. dead \in ConsumerState /\ dead.pc = "dead" /\ dead.msg = None /\ dead.empties = 0
    BY <2>0 DEF Fresh, ConsumerState
  <2>4. ConsumerType(dead)
    BY <2>0, <2>3 DEF ConsumerType
  <2>2. LambdaType(IdleLambda)
    BY DEF IdleLambda, LambdaType, LambdaState
  <2> QED
    BY <2>1, <2>2, <2>4
<1>1. ASSUME NEW m \in Message, Send(m) \/ Expire(m) \/ ExpireEarly(m)
      PROVE  TypeOK'
  <2>1. /\ sent' \in SUBSET Message /\ queue' \in SUBSET sent' /\ hidden' \in SUBSET queue'
        /\ faults' \in 0 .. MaxFaults
        /\ UNCHANGED <<cutShort, con, lam, settled, briefing, copied>>
    BY <1>1, TypeParts DEF Send, Expire, ExpireEarly, Fault
  <2> QED
    BY <2>1 DEF TypeOK
<1>2. ASSUME NEW c \in LocalConsumer, NEW m \in Message, Receive(c, m)
      PROVE  TypeOK'
  <2> DEFINE s == [con[c] EXCEPT !.pc = "record", !.msg = m, !.quiet = 0]
  <2>1. ConsumerType(s)
    BY <1>2, TypeParts DEF Receive, ConsumerType, ConsumerState
  <2>2. con' = [con EXCEPT ![c] = s]
    BY <1>2 DEF Receive
  <2>3. con' \in [LocalConsumer -> ConsumerState] /\ \A d \in LocalConsumer : ConsumerType(con'[d])
    BY <1>con, <2>1, <2>2
  <2> QED
    BY <1>2, <2>3, TypeParts DEF Receive, Visible, TypeOK, ConsumerType
<1>3. ASSUME NEW c \in LocalConsumer,
             \/ EmptyReceive(c) \/ CountEmpty(c) \/ DropUnreadable(c) \/ ProcessArticle(c) \/ LegacyKills(c) \/ Ack(c)
             \/ ArticleRaised(c) \/ StopRequested(c) \/ Die(c) \/ Restart(c)
      PROVE  TypeOK'
  <2>1. con[c] \in ConsumerState /\ ConsumerType(con[c])
    BY TypeParts
  <2>2. PICK s : ConsumerType(s) /\ con' = [con EXCEPT ![c] = s]
    <3>0. CASE EmptyReceive(c)
      <4> DEFINE t == [con[c] EXCEPT !.pc = "empty",
                                     !.quiet = IF c \in Once THEN @ + 1 ELSE @]
      <4>1. con' = [con EXCEPT ![c] = t]
        BY <3>0 DEF EmptyReceive
      <4>2. (IF c \in Once THEN con[c].quiet + 1 ELSE con[c].quiet) \in 0 .. MaxEmptyPolls
        BY <2>1, <3>0 DEF EmptyReceive, ConsumerState, ConsumerType, CountsGood, Counts
      <4>3. /\ t \in ConsumerState /\ t.pc = "empty"
            /\ t.msg = con[c].msg /\ t.empties = con[c].empties
        BY <2>1, <4>2 DEF ConsumerState
      <4>4. con[c].msg \notin Message /\ con[c].empties # MaxEmptyPolls
        BY <2>1, <3>0 DEF EmptyReceive, ConsumerType
      <4>5. ConsumerType(t)
        BY <4>3, <4>4 DEF ConsumerType
      <4> QED
        BY <4>1, <4>5
    <3>1. CASE CountEmpty(c)
      BY <3>1, AfterTypes DEF CountEmpty
    <3>2. CASE DropUnreadable(c) \/ ProcessArticle(c)
      <4>1. ConsumerType([con[c] EXCEPT !.pc = "ack"])
        BY <2>1, <3>2 DEF DropUnreadable, ProcessArticle, ConsumerType, ConsumerState
      <4>2. con' = [con EXCEPT ![c] = [con[c] EXCEPT !.pc = "ack"]]
        BY <3>2 DEF DropUnreadable, ProcessArticle
      <4> QED
        BY <4>1, <4>2
    <3>3. CASE LegacyKills(c) \/ Die(c) \/ Restart(c)
      BY <3>3, <1>fresh DEF LegacyKills, Die, Restart
    <3>4. CASE Ack(c) \/ ArticleRaised(c)
      BY <3>4, AfterTypes DEF Ack, ArticleRaised
    <3>5. CASE StopRequested(c)
      <4>1. ConsumerType([con[c] EXCEPT !.stop = TRUE])
        BY <2>1, <3>5 DEF StopRequested, ConsumerType, ConsumerState
      <4>2. con' = [con EXCEPT ![c] = [con[c] EXCEPT !.stop = TRUE]]
        BY <3>5 DEF StopRequested
      <4> QED
        BY <4>1, <4>2
    <3> QED
      BY <1>3, <3>0, <3>1, <3>2, <3>3, <3>4, <3>5
  <2>3. con' \in [LocalConsumer -> ConsumerState] /\ \A d \in LocalConsumer : ConsumerType(con'[d])
    BY <1>con, <2>2
  <2>4. settled' \in SUBSET Message
    <3>1. ProcessArticle(c) => con[c].msg \in Message
      BY <2>1 DEF ProcessArticle, ConsumerType
    <3> QED
      BY <1>3, <3>1, TypeParts DEF EmptyReceive, CountEmpty, DropUnreadable, ProcessArticle, LegacyKills, Ack,
         ArticleRaised, StopRequested, Die, Restart
  <2>5. /\ sent' \in SUBSET Message /\ queue' \in SUBSET sent' /\ hidden' \in SUBSET queue'
        /\ lam' = lam /\ briefing' = briefing /\ copied' = copied /\ faults' \in 0 .. MaxFaults
    BY <1>3, TypeParts DEF EmptyReceive, CountEmpty, DropUnreadable, ProcessArticle, LegacyKills, Ack, Delete,
       ArticleRaised, StopRequested, Die, Restart, Fault
  <2>6. cutShort' \in SUBSET Message
    <3>1. LegacyKills(c) \/ ArticleRaised(c) => con[c].msg \in Message
      BY <2>1 DEF LegacyKills, ArticleRaised, ConsumerType
    <3>2. con[c].msg \in Message \cup {None}
      BY <2>1 DEF ConsumerState
    <3> QED
      BY <1>3, <3>1, <3>2, TypeParts DEF EmptyReceive, CountEmpty, DropUnreadable, ProcessArticle,
         LegacyKills, Ack, Delete, CutShort, ArticleRaised, StopRequested, Die, Restart
  <2> QED
    BY <2>3, <2>4, <2>5, <2>6, TypeParts DEF TypeOK, ConsumerType
<1>4. ASSUME NEW l \in Lambda, NEW batch \in SUBSET Message, Invoke(l, batch)
      PROVE  TypeOK'
  <2> DEFINE s == [IdleLambda EXCEPT !.pc = "batch", !.batch = batch, !.todo = batch]
  <2>1. LambdaType(s) /\ lam' = [lam EXCEPT ![l] = s]
    BY <1>4, <1>fresh DEF Invoke, IdleLambda, LambdaType, LambdaState
  <2>2. lam' \in [Lambda -> LambdaState] /\ \A d \in Lambda : LambdaType(lam'[d])
    BY <1>lam, <2>1
  <2> QED
    BY <1>4, <2>2, TypeParts DEF Invoke, Visible, TypeOK, LambdaType
<1>5. ASSUME NEW l \in Lambda, NEW m \in Message, DropRecord(l, m) \/ StartRecord(l, m)
      PROVE  TypeOK'
  <2>1. lam[l] \in LambdaState
    BY TypeParts
  <2>2. PICK s : LambdaType(s) /\ lam' = [lam EXCEPT ![l] = s]
    <3>1. CASE DropRecord(l, m)
      BY <3>1, NextRecordType DEF DropRecord
    <3>2. CASE StartRecord(l, m)
      <4> DEFINE s == [lam[l] EXCEPT !.pc = "read", !.msg = m, !.attempt = 1]
      <4>1. lam' = [lam EXCEPT ![l] = s]
        BY <3>2 DEF StartRecord
      <4>2. 1 \in 0 .. MaxAttempts
        OBVIOUS
      <4>3. s \in LambdaState /\ s.pc = "read" /\ s.msg = m
        BY <2>1, <4>2 DEF LambdaState
      <4> QED
        BY <4>1, <4>3 DEF LambdaType
    <3> QED
      BY <1>5, <3>1, <3>2
  <2>3. lam' \in [Lambda -> LambdaState] /\ \A d \in Lambda : LambdaType(lam'[d])
    BY <1>lam, <2>2
  <2> QED
    BY <1>5, <2>3, TypeParts DEF DropRecord, StartRecord, TypeOK, LambdaType
<1>6. ASSUME NEW l \in Lambda,
             ReadBriefing(l) \/ SaveBriefing(l) \/ Return(l) \/ CallRaised(l) \/ LambdaDies(l)
      PROVE  TypeOK'
  <2>1. lam[l] \in LambdaState /\ LambdaType(lam[l])
    BY TypeParts
  <2>2. PICK s : LambdaType(s) /\ lam' = [lam EXCEPT ![l] = s]
    <3>1. CASE ReadBriefing(l)
      <4>1. lam[l].msg \in Message
        BY <2>1, <3>1 DEF ReadBriefing, LambdaType
      <4>2. LambdaType([lam[l] EXCEPT !.pc = "save"])
        BY <2>1, <3>1 DEF ReadBriefing, LambdaType, LambdaState
      <4>3. \/ lam' = [lam EXCEPT ![l] = NextRecord(l, lam[l].msg, FALSE)]
            \/ lam' = [lam EXCEPT ![l] = [lam[l] EXCEPT !.pc = "save"]]
        BY <3>1 DEF ReadBriefing
      <4> QED
        BY <4>1, <4>2, <4>3, NextRecordType
    <3>2. CASE SaveBriefing(l)
      BY <2>1, <3>2, NextRecordType DEF SaveBriefing, LambdaType
    <3>3. CASE Return(l) \/ LambdaDies(l)
      BY <3>3, <1>fresh DEF Return, LambdaDies
    <3>4. CASE CallRaised(l)
      BY <3>4, RetryType DEF CallRaised
    <3> QED
      BY <1>6, <3>1, <3>2, <3>3, <3>4
  <2>3. lam' \in [Lambda -> LambdaState] /\ \A d \in Lambda : LambdaType(lam'[d])
    BY <1>lam, <2>2
  <2>4. briefing' \in [Key -> Message \cup {None}]
    <3>1. SaveBriefing(l) \/ CallRaised(l) => KeyAt(l) \in Key /\ lam[l].msg \in Message
      BY <2>1 DEF SaveBriefing, CallRaised, KeyAt, LambdaType
    <3> QED
      BY <1>6, <3>1, TypeParts DEF ReadBriefing, SaveBriefing, Return, CallRaised, LambdaDies
  <2>5. /\ sent' \in SUBSET Message /\ queue' \in SUBSET sent' /\ hidden' \in SUBSET queue'
        /\ con' = con /\ settled' = settled /\ copied' = copied /\ faults' \in 0 .. MaxFaults
    <3>1. CASE Return(l)
      BY <3>1, TypeParts DEF Return, Delete
    <3>2. CASE CallRaised(l) \/ LambdaDies(l)
      BY <3>2, TypeParts DEF CallRaised, LambdaDies, Fault
    <3>3. CASE ReadBriefing(l) \/ SaveBriefing(l)
      BY <3>3, TypeParts DEF ReadBriefing, SaveBriefing
    <3> QED
      BY <1>6, <3>1, <3>2, <3>3
  <2>6. cutShort' \in SUBSET Message
    <3>1. CallRaised(l) => lam[l].msg \in Message
      BY <2>1 DEF CallRaised, LambdaType
    <3>2. lam[l].batch \in SUBSET Message
      BY <2>1 DEF LambdaState
    <3> QED
      BY <1>6, <3>1, <3>2, TypeParts DEF ReadBriefing, SaveBriefing, Return, Delete, CutShort,
         CallRaised, LambdaDies
  <2> QED
    BY <2>3, <2>4, <2>5, <2>6, TypeParts DEF TypeOK, LambdaType
<1>8. ASSUME NEW k \in Key, Replicate(k)
      PROVE  TypeOK'
  BY <1>8 DEF Replicate, TypeOK
<1>7. CASE UNCHANGED vars
  BY <1>7 DEF vars, TypeOK
<1> QED
  BY <1>1, <1>2, <1>3, <1>4, <1>5, <1>6, <1>7, <1>8, StepCases

(* Messages stay sent and what is done stays done: nothing removes a       *)
(* briefing or forgets an article.                                         *)
LEMMA Grows ==
  ASSUME TypeOK, [Next]_vars
  PROVE  /\ sent \subseteq sent'
         /\ Done \subseteq Done'
<1>1. sent \subseteq sent' /\ settled \subseteq settled'
  BY StepCases DEF vars, Replicate, Send, Expire, ExpireEarly, Receive, EmptyReceive, CountEmpty,
     DropUnreadable, ProcessArticle, LegacyKills, Ack, ArticleRaised, StopRequested, Die, Restart,
     Invoke, DropRecord, StartRecord, ReadBriefing, SaveBriefing, Return, CallRaised, LambdaDies
<1>3. \A k \in Key : briefing[k] # None => briefing'[k] # None
  <2>1. \/ UNCHANGED briefing
        \/ \E l \in Lambda : /\ lam[l].pc = "save"
                            /\ briefing' = [briefing EXCEPT ![KeyAt(l)] = lam[l].msg]
    BY StepCases DEF vars, Replicate, Send, Expire, ExpireEarly, Receive, EmptyReceive, CountEmpty, DropUnreadable,
       ProcessArticle, LegacyKills, Ack, ArticleRaised, StopRequested, Die, Restart, Invoke,
       DropRecord, StartRecord, ReadBriefing, SaveBriefing, Return, CallRaised, LambdaDies
  <2>2. \A l \in Lambda : lam[l].pc = "save" => lam[l].msg # None
    BY TypeParts, NoneAssumption DEF LambdaType
  <2> QED
    BY <2>1, <2>2, TypeParts
<1>4. Done \subseteq Done'
  BY <1>1, <1>3, KindAssumption, KeyOfAssumption DEF Done, Processed
<1> QED
  BY <1>1, <1>4

(* A step of a local consumer leaves it holding nothing, or a message that *)
(* was sent and, before the delete, done.                                  *)
LEMMA ConsumerGoodStep ==
  ASSUME TypeOK, AllGood, [Next]_vars
  PROVE  \A c \in LocalConsumer : ConsumerGood(con'[c], sent', Done')
<1> USE NoneAssumption, KindAssumption, KeyOfAssumption
<1>0. \A s : ConsumerGood(s, sent, Done) => ConsumerGood(s, sent', Done')
  BY Grows DEF ConsumerGood
<1>1. ASSUME NEW c \in LocalConsumer, NEW s, con' = [con EXCEPT ![c] = s], ConsumerGood(s, sent', Done')
      PROVE  \A d \in LocalConsumer : ConsumerGood(con'[d], sent', Done')
  <2>1. \A d \in LocalConsumer : con'[d] = IF d = c THEN s ELSE con[d]
    BY <1>1, TypeParts
  <2> QED
    BY <1>0, <1>1, <2>1 DEF AllGood
<1>2. ASSUME UNCHANGED con
      PROVE  \A d \in LocalConsumer : ConsumerGood(con'[d], sent', Done')
  BY <1>0, <1>2 DEF AllGood
<1>3. ASSUME NEW c \in LocalConsumer, NEW m \in Message, Receive(c, m)
      PROVE  \A d \in LocalConsumer : ConsumerGood(con'[d], sent', Done')
  <2> DEFINE s == [con[c] EXCEPT !.pc = "record", !.msg = m, !.quiet = 0]
  <2>1. s.msg = m /\ s.pc = "record" /\ con' = [con EXCEPT ![c] = s]
    BY <1>3, TypeParts DEF Receive, ConsumerState
  <2>2. m \in sent'
    BY <1>3, TypeParts DEF Receive, Visible
  <2>3. ConsumerGood(s, sent', Done')
    BY <2>1, <2>2 DEF ConsumerGood
  <2> QED
    BY <1>1, <2>1, <2>3
<1>4. ASSUME NEW c \in LocalConsumer,
             \/ EmptyReceive(c) \/ CountEmpty(c) \/ DropUnreadable(c) \/ ProcessArticle(c) \/ LegacyKills(c) \/ Ack(c)
             \/ ArticleRaised(c) \/ StopRequested(c) \/ Die(c) \/ Restart(c)
      PROVE  \A d \in LocalConsumer : ConsumerGood(con'[d], sent', Done')
  <2>1. con[c] \in ConsumerState /\ ConsumerType(con[c]) /\ ConsumerGood(con[c], sent, Done)
    BY TypeParts DEF AllGood
  <2>2. CASE CountEmpty(c) \/ Ack(c) \/ ArticleRaised(c)
    <3>1. PICK s : con' = [con EXCEPT ![c] = s] /\ s.msg = None /\ s.pc # "ack"
      BY <2>2, AfterTypes DEF CountEmpty, Ack, ArticleRaised
    <3> QED
      BY <1>1, <3>1 DEF ConsumerGood
  <2>3. CASE LegacyKills(c) \/ Die(c) \/ Restart(c)
    <3>1. PICK s : con' = [con EXCEPT ![c] = s] /\ s.msg = None /\ s.pc # "ack"
      BY <2>3 DEF LegacyKills, Die, Restart, Fresh
    <3> QED
      BY <1>1, <3>1 DEF ConsumerGood
  <2>4. CASE DropUnreadable(c) \/ ProcessArticle(c)
    <3> DEFINE s == [con[c] EXCEPT !.pc = "ack"]
    <3>1. s.msg = con[c].msg /\ con' = [con EXCEPT ![c] = s]
      BY <2>1, <2>4 DEF DropUnreadable, ProcessArticle, ConsumerState
    <3>2. con[c].msg \in sent' /\ con[c].msg \in Message
      BY <2>1, <2>4, Grows DEF DropUnreadable, ProcessArticle, ConsumerType, ConsumerGood
    <3>3. con[c].msg \in Done'
      BY <2>4, <3>2 DEF DropUnreadable, ProcessArticle, Done, Processed
    <3>4. ConsumerGood(s, sent', Done')
      BY <3>1, <3>2, <3>3 DEF ConsumerGood
    <3> QED
      BY <1>1, <3>1, <3>4
  <2>5. CASE StopRequested(c)
    <3> DEFINE s == [con[c] EXCEPT !.stop = TRUE]
    <3>1. s.msg = con[c].msg /\ s.pc = con[c].pc /\ con' = [con EXCEPT ![c] = s]
      BY <2>1, <2>5 DEF StopRequested, ConsumerState
    <3>2. ConsumerGood(s, sent', Done')
      BY <1>0, <2>1, <3>1 DEF ConsumerGood
    <3> QED
      BY <1>1, <3>1, <3>2
  <2>6. CASE EmptyReceive(c)
    <3> DEFINE s == [con[c] EXCEPT !.pc = "empty",
                                   !.quiet = IF c \in Once THEN @ + 1 ELSE @]
    <3>1. s.msg = con[c].msg /\ s.pc = "empty" /\ con' = [con EXCEPT ![c] = s]
      BY <2>1, <2>6 DEF EmptyReceive, ConsumerState
    <3>2. ConsumerGood(s, sent', Done')
      BY <1>0, <2>1, <3>1 DEF ConsumerGood
    <3> QED
      BY <1>1, <3>1, <3>2
  <2> QED
    BY <1>4, <2>2, <2>3, <2>4, <2>5, <2>6
<1>5. \/ UNCHANGED con
      \/ \E c \in LocalConsumer, m \in Message : Receive(c, m)
      \/ \E c \in LocalConsumer : \/ EmptyReceive(c) \/ CountEmpty(c) \/ DropUnreadable(c) \/ ProcessArticle(c)
                                  \/ LegacyKills(c) \/ Ack(c) \/ ArticleRaised(c)
                                  \/ StopRequested(c) \/ Die(c) \/ Restart(c)
  BY StepCases DEF vars, Replicate, Send, Expire, ExpireEarly, Invoke, DropRecord, StartRecord,
     ReadBriefing, SaveBriefing, Return, CallRaised, LambdaDies
<1> QED
  BY <1>2, <1>3, <1>4, <1>5

(* A Lambda goes from one record to the next only when the record's job is *)
(* done or a fault made it fail.                                           *)
LEMMA LambdaGoodStep ==
  ASSUME TypeOK, AllGood, [Next]_vars
  PROVE  \A l \in Lambda : LambdaGood(lam'[l], sent', Done')
<1> USE NoneAssumption, KindAssumption, KeyOfAssumption
<1>0. \A s : LambdaGood(s, sent, Done) => LambdaGood(s, sent', Done')
  BY Grows DEF LambdaGood
<1>1. ASSUME NEW l \in Lambda, NEW s, lam' = [lam EXCEPT ![l] = s],
             LambdaGood(s, sent', Done')
      PROVE  \A d \in Lambda : LambdaGood(lam'[d], sent', Done')
  <2>1. \A d \in Lambda : lam'[d] = IF d = l THEN s ELSE lam[d]
    BY <1>1, TypeParts
  <2> QED
    BY <1>0, <1>1, <2>1 DEF AllGood
<1>2. ASSUME UNCHANGED lam
      PROVE  \A d \in Lambda : LambdaGood(lam'[d], sent', Done')
  BY <1>0, <1>2 DEF AllGood
<1>good. \A l \in Lambda : LambdaGood(lam[l], sent', Done')
  BY <1>0 DEF AllGood
(* The record of message m, the one at hand or none, is done or failed.    *)
<1>next. ASSUME NEW l \in Lambda, NEW m \in Message, NEW failed \in BOOLEAN,
                m \in lam[l].todo, lam[l].pc # "idle",
                ~failed => m \in Done'
         PROVE  LambdaGood(NextRecord(l, m, failed), sent', Done')
  BY <1>next, <1>good, NextRecordType DEF LambdaGood
<1>3. ASSUME NEW l \in Lambda, NEW batch \in SUBSET Message, Invoke(l, batch)
      PROVE  \A d \in Lambda : LambdaGood(lam'[d], sent', Done')
  <2> DEFINE s == [IdleLambda EXCEPT !.pc = "batch", !.batch = batch, !.todo = batch]
  <2>1. /\ s.pc = "batch" /\ s.batch = batch /\ s.todo = batch /\ s.failed = {} /\ s.msg = None
        /\ lam' = [lam EXCEPT ![l] = s]
    BY <1>3 DEF Invoke, IdleLambda
  <2>2. batch \subseteq sent'
    BY <1>3, TypeParts DEF Invoke, Visible
  <2>3. LambdaGood(s, sent', Done')
    BY <2>1, <2>2 DEF LambdaGood
  <2> QED
    BY <1>1, <2>1, <2>3
<1>4. ASSUME NEW l \in Lambda, NEW m \in Message, DropRecord(l, m) \/ StartRecord(l, m)
      PROVE  \A d \in Lambda : LambdaGood(lam'[d], sent', Done')
  <2>1. CASE DropRecord(l, m)
    <3>1. m \in Done'
      BY <2>1 DEF DropRecord, Done, Processed
    <3>2. LambdaGood(NextRecord(l, m, FALSE), sent', Done')
      BY <1>next, <2>1, <3>1 DEF DropRecord
    <3> QED
      BY <1>1, <2>1, <3>2 DEF DropRecord
  <2>2. CASE StartRecord(l, m)
    <3> DEFINE s == [lam[l] EXCEPT !.pc = "read", !.msg = m, !.attempt = 1]
    <3>1. /\ s.pc = "read" /\ s.msg = m /\ s.batch = lam[l].batch
          /\ s.todo = lam[l].todo /\ s.failed = lam[l].failed
      BY TypeParts DEF LambdaState
    <3>2. LambdaGood(s, sent', Done')
      BY <1>good, <2>2, <3>1 DEF StartRecord, LambdaGood
    <3> QED
      BY <1>1, <2>2, <3>2 DEF StartRecord
  <2> QED
    BY <1>4, <2>1, <2>2
<1>5. ASSUME NEW l \in Lambda,
             ReadBriefing(l) \/ SaveBriefing(l) \/ Return(l) \/ CallRaised(l) \/ LambdaDies(l)
      PROVE  \A d \in Lambda : LambdaGood(lam'[d], sent', Done')
  <2>1. CASE Return(l) \/ LambdaDies(l)
    <3>1. LambdaGood(IdleLambda, sent', Done')
      BY DEF LambdaGood, IdleLambda
    <3> QED
      BY <1>1, <2>1, <3>1 DEF Return, LambdaDies
  <2>2. ASSUME lam[l].pc \in {"read", "save"}
        PROVE  /\ lam[l].msg \in Message
               /\ lam[l].msg \in lam[l].todo
               /\ Kind[lam[l].msg] = "briefing"
               /\ KeyAt(l) \in Key
               /\ briefing'[KeyAt(l)] # None => lam[l].msg \in Done'
    <3>1. lam[l].msg \in Message /\ lam[l].msg \in lam[l].todo /\ Kind[lam[l].msg] = "briefing"
      BY <2>2, TypeParts DEF LambdaType, AllGood, LambdaGood
    <3> QED
      BY <3>1 DEF KeyAt, Done, Processed
  <2>3. CASE ReadBriefing(l)
    <3>1. CASE /\ briefing[KeyAt(l)] # None
               /\ lam' = [lam EXCEPT ![l] = NextRecord(l, lam[l].msg, FALSE)]
      <4>1. briefing'[KeyAt(l)] # None
        BY <2>3, <3>1 DEF ReadBriefing
      <4>2. LambdaGood(NextRecord(l, lam[l].msg, FALSE), sent', Done')
        BY <1>next, <2>2, <2>3, <4>1 DEF ReadBriefing
      <4> QED
        BY <1>1, <3>1, <4>2
    <3>2. CASE lam' = [lam EXCEPT ![l] = [lam[l] EXCEPT !.pc = "save"]]
      <4> DEFINE s == [lam[l] EXCEPT !.pc = "save"]
      <4>1. /\ s.pc = "save" /\ s.msg = lam[l].msg /\ s.batch = lam[l].batch
            /\ s.todo = lam[l].todo /\ s.failed = lam[l].failed
        BY TypeParts DEF LambdaState
      <4>2. LambdaGood(s, sent', Done')
        BY <1>good, <4>1 DEF LambdaGood
      <4> QED
        BY <1>1, <3>2, <4>2
    <3> QED
      BY <2>3, <3>1, <3>2 DEF ReadBriefing, Readable
  <2>4. CASE SaveBriefing(l)
    <3>1. briefing'[KeyAt(l)] # None
      BY <2>2, <2>4, TypeParts DEF SaveBriefing
    <3>2. LambdaGood(NextRecord(l, lam[l].msg, FALSE), sent', Done')
      BY <1>next, <2>2, <2>4, <3>1 DEF SaveBriefing
    <3> QED
      BY <1>1, <2>4, <3>2 DEF SaveBriefing
  <2>5. CASE CallRaised(l)
    <3>2. LambdaGood(RetryOrFail(l), sent', Done')
      <4>1. lam[l].pc \in {"read", "save"}
        BY <2>5 DEF CallRaised
      <4>2. CASE RetryOrFail(l) = NextRecord(l, lam[l].msg, TRUE)
        <5>1. LambdaGood(NextRecord(l, lam[l].msg, TRUE), sent', Done')
          BY <1>next, <2>2, <4>1
        <5> QED
          BY <4>2, <5>1
      <4>3. CASE /\ RetryOrFail(l).pc = "read"
                 /\ RetryOrFail(l).msg = lam[l].msg
                 /\ RetryOrFail(l).batch = lam[l].batch
                 /\ RetryOrFail(l).todo = lam[l].todo
                 /\ RetryOrFail(l).failed = lam[l].failed
        BY <1>good, <4>3 DEF LambdaGood
      <4> QED
        BY <4>1, <4>2, <4>3, RetryType
    <3> QED
      BY <1>1, <2>5, <3>2 DEF CallRaised
  <2> QED
    BY <1>5, <2>1, <2>3, <2>4, <2>5
<1>6. \/ UNCHANGED lam
      \/ \E l \in Lambda, batch \in SUBSET Message : Invoke(l, batch)
      \/ \E l \in Lambda, m \in Message : DropRecord(l, m) \/ StartRecord(l, m)
      \/ \E l \in Lambda : \/ ReadBriefing(l) \/ SaveBriefing(l) \/ Return(l)
                           \/ CallRaised(l) \/ LambdaDies(l)
  BY StepCases DEF vars, Replicate, Send, Expire, ExpireEarly, Receive, EmptyReceive, CountEmpty, DropUnreadable,
     ProcessArticle, LegacyKills, Ack, ArticleRaised, StopRequested, Die, Restart
<1> QED
  BY <1>2, <1>3, <1>4, <1>5, <1>6

LEMMA LostStep ==
  ASSUME TypeOK, AllGood, NoJobLost, [Next]_vars
  PROVE  NoJobLost'
<1>0. NoJobLost => sent \ queue \subseteq Done
  BY TypeParts DEF NoJobLost, Done
<1>1. ASSUME sent' \ queue' \subseteq Done'
      PROVE  NoJobLost'
  BY <1>1 DEF NoJobLost, Done
<1>2. ASSUME sent' \ queue' \subseteq sent \ queue
      PROVE  NoJobLost'
  BY <1>0, <1>1, <1>2, Grows
<1>3. ASSUME NEW c \in LocalConsumer, Ack(c)
      PROVE  NoJobLost'
  <2>1. con[c].msg \in Done
    BY <1>3 DEF Ack, AllGood, ConsumerGood
  <2> QED
    BY <1>0, <1>1, <1>3, <2>1, Grows DEF Ack, Delete
<1>4. ASSUME NEW l \in Lambda, Return(l)
      PROVE  NoJobLost'
  <2>1. lam[l].batch \ lam[l].failed \subseteq Done
    BY <1>4 DEF Return, AllGood, LambdaGood
  <2> QED
    BY <1>0, <1>1, <1>4, <2>1, Grows DEF Return, Delete
<1>5. \/ sent' \ queue' \subseteq sent \ queue
      \/ \E c \in LocalConsumer : Ack(c)
      \/ \E l \in Lambda : Return(l)
  BY StepCases DEF vars, Replicate, Send, Expire, ExpireEarly, Receive, EmptyReceive, CountEmpty, DropUnreadable,
     ProcessArticle, LegacyKills, ArticleRaised, StopRequested, Die, Restart, Invoke,
     DropRecord, StartRecord, ReadBriefing, SaveBriefing, CallRaised, LambdaDies
<1> QED
  BY <1>2, <1>3, <1>4, <1>5

(* The holder of a hidden message lets go of it by deleting it, or its     *)
(* delivery is cut short.                                                  *)
LEMMA AccountedStep ==
  ASSUME TypeOK, AllGood, Accounted, [Next]_vars
  PROVE  Accounted'
<1> USE NoneAssumption
<1> SUFFICES ASSUME NEW m \in hidden', m \notin cutShort'
             PROVE  InHand(m)'
  BY DEF Accounted
<1>old. ASSUME m \in hidden, m \notin cutShort
        PROVE  InHand(m)'
  <2>m. m \in Message /\ InHand(m)
    BY <1>old, TypeParts DEF Accounted
  <2>con. ASSUME NEW c \in LocalConsumer, con[c].msg = m
          PROVE  InHand(m)'
    <3>1. con[c].pc \in {"record", "ack"} /\ con[c] \in ConsumerState
      BY <2>m, <2>con, TypeParts DEF ConsumerType
    <3>0. \A d \in LocalConsumer : \A s : con' = [con EXCEPT ![d] = s] => con'[c] = IF c = d THEN s ELSE con[c]
      BY TypeParts
    <3>2. ASSUME NEW d \in LocalConsumer \ {c}, NEW s, con' = [con EXCEPT ![d] = s]
          PROVE  InHand(m)'
      BY <2>con, <3>0, <3>2 DEF InHand
    <3>3. CASE UNCHANGED con
      BY <2>con, <3>3 DEF InHand
    <3>4. CASE DropUnreadable(c) \/ ProcessArticle(c) \/ StopRequested(c)
      <4>1. con'[c].msg = m
        BY <2>con, <3>1, <3>4, TypeParts DEF DropUnreadable, ProcessArticle, StopRequested, ConsumerState
      <4> QED
        BY <4>1 DEF InHand
    <3>5. CASE LegacyKills(c) \/ ArticleRaised(c) \/ Die(c) \/ Ack(c)
      BY <2>m, <2>con, <3>5 DEF LegacyKills, ArticleRaised, Die, Ack, CutShort, Delete
    <3>6. ASSUME NEW d \in LocalConsumer,
                 \/ \E n \in Message : Receive(d, n)
                 \/ EmptyReceive(d) \/ CountEmpty(d) \/ DropUnreadable(d) \/ ProcessArticle(d)
                 \/ LegacyKills(d) \/ Ack(d) \/ ArticleRaised(d) \/ StopRequested(d) \/ Die(d)
                 \/ Restart(d)
          PROVE  InHand(m)'
      <4>1. CASE d = c
        BY <3>1, <3>4, <3>5, <3>6, <4>1 DEF Receive, EmptyReceive, CountEmpty, Restart
      <4>2. CASE d # c
        <5>1. PICK s : con' = [con EXCEPT ![d] = s]
          BY <3>6 DEF Receive, EmptyReceive, CountEmpty, DropUnreadable, ProcessArticle, LegacyKills,
             Ack, ArticleRaised, StopRequested, Die, Restart
        <5> QED
          BY <3>2, <4>2, <5>1
      <4> QED
        BY <4>1, <4>2
    <3>7. \/ UNCHANGED con
          \/ \E d \in LocalConsumer :
               \/ \E n \in Message : Receive(d, n)
               \/ EmptyReceive(d) \/ CountEmpty(d) \/ DropUnreadable(d) \/ ProcessArticle(d)
               \/ LegacyKills(d) \/ Ack(d) \/ ArticleRaised(d) \/ StopRequested(d) \/ Die(d)
               \/ Restart(d)
      BY StepCases DEF vars, Replicate, Send, Expire, ExpireEarly, Invoke, DropRecord, StartRecord,
         ReadBriefing, SaveBriefing, Return, CallRaised, LambdaDies
    <3> QED
      BY <3>3, <3>6, <3>7
  <2>lam. ASSUME NEW l \in Lambda, m \in lam[l].batch, m \notin lam[l].failed
          PROVE  InHand(m)'
    <3>1. lam[l] \in LambdaState /\ lam[l].pc # "idle"
      BY <2>lam, TypeParts DEF AllGood, LambdaGood
    <3>0. \A d \in Lambda : \A s : lam' = [lam EXCEPT ![d] = s] => lam'[l] = IF l = d THEN s ELSE lam[l]
      BY TypeParts
    (* The record of another message is over, or this one's without failure. *)
    <3>next. ASSUME NEW n \in Message, NEW failed \in BOOLEAN, failed => n # m,
                    lam' = [lam EXCEPT ![l] = NextRecord(l, n, failed)]
             PROVE  InHand(m)'
      <4>1. lam'[l].batch = lam[l].batch /\ m \notin lam'[l].failed
        BY <2>lam, <3>0, <3>next, NextRecordType
      <4> QED
        BY <2>lam, <4>1 DEF InHand
    <3>same. ASSUME lam'[l].batch = lam[l].batch, lam'[l].failed = lam[l].failed
             PROVE  InHand(m)'
      BY <2>lam, <3>same DEF InHand
    <3>2. ASSUME NEW n \in Message, DropRecord(l, n) \/ StartRecord(l, n)
          PROVE  InHand(m)'
      <4>1. CASE DropRecord(l, n)
        BY <3>next, <4>1 DEF DropRecord
      <4>2. CASE StartRecord(l, n)
        BY <3>same, <3>1, <4>2, TypeParts DEF StartRecord, LambdaState
      <4> QED
        BY <3>2, <4>1, <4>2
    <3>3. CASE ReadBriefing(l) \/ SaveBriefing(l)
      <4>1. lam[l].msg \in Message
        BY <3>3, TypeParts DEF ReadBriefing, SaveBriefing, LambdaType
      <4>2. CASE lam' = [lam EXCEPT ![l] = NextRecord(l, lam[l].msg, FALSE)]
        BY <3>next, <4>1, <4>2
      <4>3. CASE lam' = [lam EXCEPT ![l] = [lam[l] EXCEPT !.pc = "save"]]
        BY <3>same, <3>1, <4>3, TypeParts DEF LambdaState
      <4> QED
        BY <3>3, <4>2, <4>3 DEF ReadBriefing, SaveBriefing
    <3>4. CASE CallRaised(l)
      <4>1. lam[l].msg \in Message /\ lam[l].pc \in {"read", "save"}
        BY <3>4, TypeParts DEF CallRaised, LambdaType
      <4>2. CASE lam[l].attempt < MaxAttempts
        <5> DEFINE s == [lam[l] EXCEPT !.pc = "read", !.attempt = @ + 1]
        <5>1. lam' = [lam EXCEPT ![l] = s]
          BY <3>4, <4>2 DEF CallRaised, RetryOrFail
        <5>2. s.batch = lam[l].batch /\ s.failed = lam[l].failed
          BY <3>1 DEF LambdaState
        <5> QED
          BY <3>same, <3>0, <5>1, <5>2
      <4>3. CASE ~(lam[l].attempt < MaxAttempts)
        <5>1. lam[l].msg # m
          BY <3>4, <4>3 DEF CallRaised, CutShort
        <5>2. lam' = [lam EXCEPT ![l] = NextRecord(l, lam[l].msg, TRUE)]
          BY <3>4, <4>3 DEF CallRaised, RetryOrFail
        <5> QED
          BY <3>next, <4>1, <5>1, <5>2
      <4> QED
        BY <4>2, <4>3
    <3>5. CASE Return(l) \/ LambdaDies(l)
      BY <2>m, <2>lam, <3>5 DEF Return, LambdaDies, Delete, CutShort
    <3>6. ASSUME NEW d \in Lambda,
                 \/ \E batch \in SUBSET Message : Invoke(d, batch)
                 \/ \E n \in Message : DropRecord(d, n) \/ StartRecord(d, n)
                 \/ ReadBriefing(d) \/ SaveBriefing(d) \/ Return(d) \/ CallRaised(d) \/ LambdaDies(d)
          PROVE  InHand(m)'
      <4>1. CASE d = l
        BY <3>1, <3>2, <3>3, <3>4, <3>5, <3>6, <4>1 DEF Invoke
      <4>2. CASE d # l
        <5>1. PICK s : lam' = [lam EXCEPT ![d] = s]
          BY <3>6 DEF Invoke, DropRecord, StartRecord, ReadBriefing, SaveBriefing, Return,
             CallRaised, LambdaDies
        <5> QED
          BY <3>same, <3>0, <4>2, <5>1
      <4> QED
        BY <4>1, <4>2
    <3>7. CASE UNCHANGED lam
      BY <3>same, <3>7
    <3>8. \/ UNCHANGED lam
          \/ \E d \in Lambda :
               \/ \E batch \in SUBSET Message : Invoke(d, batch)
               \/ \E n \in Message : DropRecord(d, n) \/ StartRecord(d, n)
               \/ ReadBriefing(d) \/ SaveBriefing(d) \/ Return(d) \/ CallRaised(d) \/ LambdaDies(d)
      BY StepCases DEF vars, Replicate, Send, Expire, ExpireEarly, Receive, EmptyReceive, CountEmpty,
         DropUnreadable, ProcessArticle, LegacyKills, Ack, ArticleRaised, StopRequested, Die, Restart
    <3> QED
      BY <3>6, <3>7, <3>8
  <2> QED
    BY <2>m, <2>con, <2>lam DEF InHand
(* A message that was not hidden, or whose last delivery was cut short, is *)
(* so no more only when it is received.                                    *)
<1>new. ASSUME m \notin hidden \/ m \in cutShort
        PROVE  InHand(m)'
  <2>1. CASE \E c \in LocalConsumer, n \in Message : Receive(c, n)
    <3>1. PICK c \in LocalConsumer, n \in Message : Receive(c, n)
      BY <2>1
    <3>2. n = m /\ con'[c].msg = n
      BY <1>new, <3>1, TypeParts DEF Receive, ConsumerState
    <3> QED
      BY <3>2 DEF InHand
  <2>2. CASE \E l \in Lambda, batch \in SUBSET Message : Invoke(l, batch)
    <3>1. PICK l \in Lambda, batch \in SUBSET Message : Invoke(l, batch)
      BY <2>2
    <3>2. m \in batch /\ lam'[l].batch = batch /\ lam'[l].failed = {}
      BY <1>new, <3>1, TypeParts DEF Invoke, IdleLambda
    <3> QED
      BY <3>2 DEF InHand
  <2>3. CASE \E gone : hidden' = hidden \ gone /\ cutShort' = cutShort \ gone
    BY <1>new, <2>3
  <2>4. CASE hidden' \subseteq hidden /\ cutShort \subseteq cutShort'
    BY <1>new, <2>4
  <2>5. (\E c \in LocalConsumer : Ack(c)) \/ (\E l \in Lambda : Return(l))
          => \E gone : hidden' = hidden \ gone /\ cutShort' = cutShort \ gone
    BY DEF Ack, Return, Delete
  <2>6. \/ \E c \in LocalConsumer, n \in Message : Receive(c, n)
        \/ \E l \in Lambda, batch \in SUBSET Message : Invoke(l, batch)
        \/ \E c \in LocalConsumer : Ack(c)
        \/ \E l \in Lambda : Return(l)
        \/ hidden' \subseteq hidden /\ cutShort \subseteq cutShort'
    BY StepCases DEF vars, Replicate, Send, Expire, ExpireEarly, EmptyReceive, CountEmpty,
       DropUnreadable, ProcessArticle, LegacyKills, CutShort, ArticleRaised, StopRequested, Die,
       Restart, DropRecord, StartRecord, ReadBriefing, SaveBriefing, CallRaised, LambdaDies
  <2> QED
    BY <2>1, <2>2, <2>3, <2>4, <2>5, <2>6
<1> QED
  BY <1>old, <1>new

(* The two counts move together.                                           *)
LEMMA CountsStep ==
  ASSUME TypeOK, CountsGood, [Next]_vars
  PROVE  CountsGood'
<1> USE OnceAssumption, BoundsAssumption
<1> SUFFICES ASSUME NEW c \in Once
             PROVE  Counts(con'[c])
  BY DEF CountsGood
<1>c. c \in LocalConsumer /\ con[c] \in ConsumerState /\ Counts(con[c])
  BY TypeParts DEF CountsGood
<1>0. \A d \in LocalConsumer : \A s : con' = [con EXCEPT ![d] = s] => con'[c] = IF c = d THEN s ELSE con[c]
  BY <1>c, TypeParts
<1>1. CASE UNCHANGED con
  BY <1>c, <1>1
<1>2. ASSUME NEW m \in Message, Receive(c, m)
      PROVE  Counts(con'[c])
  <2>1. con'[c].pc = "record" /\ con'[c].quiet = 0
    BY <1>c, <1>2, TypeParts DEF Receive, ConsumerState
  <2> QED
    BY <2>1 DEF Counts
<1>3. CASE EmptyReceive(c)
  <2>1. con'[c].pc = "empty" /\ con'[c].quiet = con[c].quiet + 1 /\ con'[c].empties = con[c].empties
    BY <1>c, <1>3, TypeParts DEF EmptyReceive, ConsumerState
  <2>2. con[c].quiet = con[c].empties
    BY <1>c, <1>3 DEF EmptyReceive, Counts
  <2> QED
    BY <2>1, <2>2 DEF Counts
<1>4. CASE CountEmpty(c)
  <2>1. con'[c] = AfterEmptyPoll(c) /\ con[c].pc = "empty"
    BY <1>c, <1>0, <1>4 DEF CountEmpty
  <2>2. AfterEmptyPoll(c).quiet = AfterEmptyPoll(c).empties
    BY <1>c, <2>1, AfterTypes DEF Counts
  <2> QED
    BY <1>c, <2>1, <2>2, AfterTypes DEF Counts
<1>5. CASE ArticleRaised(c) \/ Ack(c)
  <2>1. con'[c] = AfterMessage(c) /\ con[c].pc \in {"record", "ack"}
    BY <1>c, <1>0, <1>5 DEF ArticleRaised, Ack
  <2> QED
    BY <1>c, <2>1, AfterTypes DEF Counts
<1>6. CASE DropUnreadable(c) \/ ProcessArticle(c)
  <2>1. con'[c].pc = "ack" /\ con'[c].quiet = con[c].quiet /\ con[c].pc = "record"
    BY <1>c, <1>6, TypeParts DEF DropUnreadable, ProcessArticle, ConsumerState
  <2> QED
    BY <1>c, <2>1 DEF Counts
<1>7. CASE StopRequested(c)
  <2>1. /\ con'[c].pc = con[c].pc /\ con'[c].quiet = con[c].quiet
        /\ con'[c].empties = con[c].empties
    BY <1>c, <1>7, TypeParts DEF StopRequested, ConsumerState
  <2> QED
    BY <1>c, <2>1 DEF Counts
<1>8. CASE LegacyKills(c) \/ Die(c) \/ Restart(c)
  <2>1. con'[c] = Fresh \/ con'[c] = [Fresh EXCEPT !.pc = "dead"]
    BY <1>c, <1>0, <1>8 DEF LegacyKills, Die, Restart
  <2> QED
    BY <2>1 DEF Counts, Fresh
<1>9. ASSUME NEW d \in LocalConsumer, d # c,
             \/ \E m \in Message : Receive(d, m)
             \/ EmptyReceive(d) \/ CountEmpty(d) \/ DropUnreadable(d) \/ ProcessArticle(d)
             \/ LegacyKills(d) \/ Ack(d) \/ ArticleRaised(d) \/ StopRequested(d) \/ Die(d)
             \/ Restart(d)
      PROVE  Counts(con'[c])
  <2>1. \E s : con' = [con EXCEPT ![d] = s]
    BY <1>9 DEF Receive, EmptyReceive, CountEmpty, DropUnreadable, ProcessArticle, LegacyKills, Ack,
       ArticleRaised, StopRequested, Die, Restart
  <2> QED
    BY <1>c, <1>0, <1>9, <2>1
<1>10. \/ UNCHANGED con
       \/ \E d \in LocalConsumer :
            \/ \E m \in Message : Receive(d, m)
            \/ EmptyReceive(d) \/ CountEmpty(d) \/ DropUnreadable(d) \/ ProcessArticle(d)
            \/ LegacyKills(d) \/ Ack(d) \/ ArticleRaised(d) \/ StopRequested(d) \/ Die(d)
            \/ Restart(d)
  BY StepCases DEF vars, Replicate, Send, Expire, ExpireEarly, Invoke, DropRecord, StartRecord,
     ReadBriefing, SaveBriefing, Return, CallRaised, LambdaDies
<1> QED
  BY <1>1, <1>2, <1>3, <1>4, <1>5, <1>6, <1>7, <1>8, <1>9, <1>10

-----------------------------------------------------------------------------
LEMMA InitInvariant ==
  ASSUME Init
  PROVE  IInv
<1> USE NoneAssumption, BoundsAssumption
<1>1. TypeOK
  <2>1. 0 \in 0 .. MaxEmptyPolls /\ 0 # MaxEmptyPolls /\ 0 \in 0 .. MaxAttempts /\ 0 \in 0 .. MaxFaults
    OBVIOUS
  <2>2. con \in [LocalConsumer -> ConsumerState] /\ \A c \in LocalConsumer : con[c] = Fresh
    BY <2>1 DEF Init, Fresh, ConsumerState
  <2>3. lam \in [Lambda -> LambdaState] /\ \A l \in Lambda : lam[l] = IdleLambda
    BY <2>1 DEF Init, IdleLambda, LambdaState
  <2> QED
    BY <2>1, <2>2, <2>3 DEF Init, TypeOK, Fresh, IdleLambda
<1>2. AllGood
  BY DEF Init, AllGood, ConsumerGood, LambdaGood, Fresh, IdleLambda
<1>3. NoJobLost /\ Accounted
  BY DEF Init, NoJobLost, Accounted
<1>4. CountsGood
  BY OnceAssumption DEF Init, CountsGood, Counts, Fresh
<1> QED
  BY <1>1, <1>2, <1>3, <1>4 DEF IInv

THEOREM Invariant == Spec => []IInv
<1>1. IInv /\ [Next]_vars => IInv'
  BY TypeStep, CountsStep, ConsumerGoodStep, LambdaGoodStep, LostStep, AccountedStep DEF IInv, AllGood
<1> QED
  BY <1>1, InitInvariant, PTL DEF Spec

(* Every variable keeps its type.                                          *)
THEOREM TypeCorrect == Spec => []TypeOK
<1>1. IInv => TypeOK
  BY DEF IInv
<1> QED
  BY <1>1, Invariant, PTL

(* With any number of consumers and Lambdas, batches of any size and any   *)
(* faults, a message is deleted only when its job is done.                 *)
THEOREM NoJobLostHolds == Spec => []NoJobLost
<1>1. IInv => NoJobLost
  BY DEF IInv
<1> QED
  BY <1>1, Invariant, PTL

(* Whatever faults there were before, and with batches of any size, only a *)
(* message whose own latest delivery was cut short waits hidden with       *)
(* nobody at work on it.                                                   *)
THEOREM AbandonedNeedsFaultHolds == Spec => []AbandonedNeedsFault
<1>1. IInv => AbandonedNeedsFault
  BY DEF IInv, Accounted, InHand, AbandonedNeedsFault, Held
<1> QED
  BY <1>1, Invariant, PTL

-----------------------------------------------------------------------------
(* Every copy has a briefing only where there is one.                      *)
CopiedIsThere == \A k \in copied : briefing[k] # None

(* A Lambda comes to save only from a read that found no briefing.         *)
LEMMA SavesAfterRead ==
  ASSUME TypeOK, [Next]_vars, NEW l \in Lambda, lam'[l].pc = "save"
  PROVE  /\ lam'[l].msg = lam[l].msg
         /\ \/ lam[l].pc = "save"
            \/ lam[l].pc = "read" /\ None \in Readable(KeyAt(l))
<1> USE NoneAssumption
<1>4. ASSUME \/ \E batch \in SUBSET Message : Invoke(l, batch)
             \/ \E m \in Message : DropRecord(l, m) \/ StartRecord(l, m)
             \/ SaveBriefing(l) \/ Return(l) \/ CallRaised(l) \/ LambdaDies(l)
      PROVE  FALSE
  <2>0. \A s : lam' = [lam EXCEPT ![l] = s] => lam'[l] = s
    BY TypeParts
  <2>1. CASE (\E batch \in SUBSET Message : Invoke(l, batch)) \/ Return(l) \/ LambdaDies(l)
    <3>1. CASE Return(l) \/ LambdaDies(l)
      BY <2>0, <3>1 DEF Return, LambdaDies, IdleLambda
    <3>2. ASSUME NEW batch, Invoke(l, batch)
          PROVE  lam'[l].pc # "save"
      <4> DEFINE s == [IdleLambda EXCEPT !.pc = "batch", !.batch = batch, !.todo = batch]
      <4>1. lam'[l] = s /\ s.pc = "batch"
        BY <2>0, <3>2 DEF Invoke, IdleLambda
      <4> QED
        BY <4>1
    <3> QED
      BY <2>1, <3>1, <3>2
  <2>2. ASSUME NEW m \in Message, DropRecord(l, m)
        PROVE  lam'[l].pc # "save"
    <3>1. lam'[l] = NextRecord(l, m, FALSE)
      BY <2>0, <2>2 DEF DropRecord
    <3> QED
      BY <3>1, NextRecordType
  <2>3. CASE \E m \in Message : StartRecord(l, m)
    BY <2>3, TypeParts DEF StartRecord, LambdaState
  <2>4. CASE SaveBriefing(l)
    <3>1. lam[l].msg \in Message
      BY <2>4, TypeParts DEF SaveBriefing, LambdaType
    <3> QED
      BY <2>4, <3>1, NextRecordType, TypeParts DEF SaveBriefing
  <2>5. CASE CallRaised(l)
    <3>1. lam[l].msg \in Message /\ lam[l].pc \in {"read", "save"}
      BY <2>5, TypeParts DEF CallRaised, LambdaType
    <3>2. RetryOrFail(l).pc # "save"
      BY <3>1, RetryType, NextRecordType
    <3> QED
      BY <2>5, <3>2, TypeParts DEF CallRaised
  <2> QED
    BY <1>4, <2>1, <2>2, <2>3, <2>4, <2>5
<1>5. CASE ReadBriefing(l)
  <2>1. lam[l] \in LambdaState /\ lam[l].msg \in Message /\ lam[l].pc = "read"
    BY <1>5, TypeParts DEF ReadBriefing, LambdaType
  <2>2. CASE lam' = [lam EXCEPT ![l] = NextRecord(l, lam[l].msg, FALSE)]
    BY <2>1, <2>2, NextRecordType, TypeParts
  <2>3. CASE /\ lam' = [lam EXCEPT ![l] = [lam[l] EXCEPT !.pc = "save"]]
             /\ None \in Readable(KeyAt(l))
    BY <2>1, <2>3, TypeParts DEF LambdaState
  <2> QED
    BY <1>5, <2>2, <2>3 DEF ReadBriefing
<1>6. CASE lam'[l] = lam[l]
  BY <1>6
<1>7. ASSUME NEW d \in Lambda, d # l,
             \/ \E batch \in SUBSET Message : Invoke(d, batch)
             \/ \E m \in Message : DropRecord(d, m) \/ StartRecord(d, m)
             \/ ReadBriefing(d) \/ SaveBriefing(d) \/ Return(d) \/ CallRaised(d) \/ LambdaDies(d)
      PROVE  lam'[l] = lam[l]
  <2>1. PICK s : lam' = [lam EXCEPT ![d] = s]
    BY <1>7 DEF Invoke, DropRecord, StartRecord, ReadBriefing, SaveBriefing, Return, CallRaised,
       LambdaDies
  <2> QED
    BY <1>7, <2>1, TypeParts
<1>8. \/ UNCHANGED lam
      \/ \E d \in Lambda :
           \/ \E batch \in SUBSET Message : Invoke(d, batch)
           \/ \E m \in Message : DropRecord(d, m) \/ StartRecord(d, m)
           \/ ReadBriefing(d) \/ SaveBriefing(d) \/ Return(d) \/ CallRaised(d) \/ LambdaDies(d)
  BY StepCases DEF vars, Replicate, Send, Expire, ExpireEarly, Receive, EmptyReceive, CountEmpty,
     DropUnreadable, ProcessArticle, LegacyKills, Ack, ArticleRaised, StopRequested, Die, Restart
<1> QED
  BY <1>4, <1>5, <1>6, <1>7, <1>8

(* A briefing is written only by a Lambda about to save it, and no copy    *)
(* forgets one.                                                            *)
LEMMA BriefingChange ==
  ASSUME TypeOK, [Next]_vars
  PROVE  /\ copied \subseteq copied'
         /\ \/ UNCHANGED briefing
            \/ \E l \in Lambda : /\ lam[l].pc = "save"
                                /\ briefing' = [briefing EXCEPT ![KeyAt(l)] = lam[l].msg]
BY StepCases DEF vars, Replicate, Send, Expire, ExpireEarly, Receive, EmptyReceive, CountEmpty,
   DropUnreadable, ProcessArticle, LegacyKills, Ack, ArticleRaised, StopRequested, Die, Restart,
   Invoke, DropRecord, StartRecord, ReadBriefing, SaveBriefing, Return, CallRaised, LambdaDies

LEMMA CopiedStep ==
  ASSUME TypeOK, CopiedIsThere, [Next]_vars
  PROVE  CopiedIsThere'
<1>1. \A k \in Key : briefing[k] # None => briefing'[k] # None
  <2>1. \A l \in Lambda : lam[l].pc = "save" => lam[l].msg # None
    BY TypeParts, NoneAssumption DEF LambdaType
  <2> QED
    BY <2>1, BriefingChange, TypeParts
<1>2. \A k \in copied' : k \in Key /\ briefing[k] # None
  BY TypeParts, StepCases DEF CopiedIsThere, vars, Replicate, Send, Expire, ExpireEarly, Receive,
     EmptyReceive, CountEmpty, DropUnreadable, ProcessArticle, LegacyKills, Ack, ArticleRaised,
     StopRequested, Die, Restart, Invoke, DropRecord, StartRecord, ReadBriefing, SaveBriefing,
     Return, CallRaised, LambdaDies
<1> QED
  BY <1>1, <1>2 DEF CopiedIsThere

LEMMA KeptStep ==
  ASSUME TypeOK, CopiedIsThere, [Next]_vars, NEW k \in Key, Kept(k)
  PROVE  Kept(k)' /\ briefing'[k] = briefing[k]
<1>1. k \in copied' /\ Readable(k) = {briefing[k]} /\ briefing[k] # None
  BY BriefingChange DEF Kept, CopiedIsThere, Readable
<1>2. ASSUME NEW l \in Lambda, lam'[l].pc = "save"
      PROVE  KeyAt(l)' # k
  <2>1. KeyAt(l)' = KeyAt(l)
    BY <1>2, SavesAfterRead DEF KeyAt
  <2>2. KeyAt(l) # k
    BY <1>1, <1>2, SavesAfterRead DEF Kept
  <2> QED
    BY <2>1, <2>2
<1>3. briefing'[k] = briefing[k]
  BY BriefingChange, TypeParts DEF Kept
<1> QED
  BY <1>1, <1>2, <1>3 DEF Kept

(* However many executions run at once, read stale copies, retry or get a  *)
(* job again: a briefing that every copy of the table has, and that nobody *)
(* is about to replace, is there for good.                                 *)
THEOREM BriefingIsKeptHolds == Spec => BriefingIsKept
<1>1. Init => CopiedIsThere
  BY DEF Init, CopiedIsThere
<1>2. TypeOK /\ CopiedIsThere /\ [Next]_vars => CopiedIsThere'
  BY CopiedStep
<1>3. TypeOK /\ CopiedIsThere /\ [Next]_vars =>
        [\A k \in Key : Kept(k) => Kept(k)' /\ briefing'[k] = briefing[k]]_vars
  BY KeptStep
<1> QED
  BY <1>1, <1>2, <1>3, TypeCorrect, PTL DEF Spec, BriefingIsKept

-----------------------------------------------------------------------------
(* A local consumer that is not told to stop ends at an empty poll only.   *)
LEMMA EndsAtEmptyPoll ==
  ASSUME TypeOK, [Next]_vars, NEW c \in LocalConsumer,
         con[c].pc # "done", con'[c].pc = "done", ~con[c].stop
  PROVE  CountEmpty(c)
<1>1. NextPoll(c) = "poll"
  BY DEF NextPoll
<1>2. ASSUME NEW d \in LocalConsumer, NEW s, con' = [con EXCEPT ![d] = s], s.pc # "done"
      PROVE  FALSE
  BY <1>2 DEF TypeOK
<1>3. con[c] \in ConsumerState /\ con' # con
  BY DEF TypeOK
<1>4. ASSUME NEW d \in LocalConsumer, NEW m \in Message, Receive(d, m)
      PROVE  FALSE
  BY <1>4 DEF Receive, TypeOK, ConsumerState
<1>5. ASSUME NEW d \in LocalConsumer, CountEmpty(d)
      PROVE  d = c
  BY <1>5 DEF CountEmpty, TypeOK
<1>10. ASSUME NEW d \in LocalConsumer, EmptyReceive(d)
       PROVE  FALSE
  BY <1>10 DEF EmptyReceive, TypeOK, ConsumerState
<1>6. ASSUME NEW d \in LocalConsumer, DropUnreadable(d) \/ ProcessArticle(d)
      PROVE  FALSE
  BY <1>6 DEF DropUnreadable, ProcessArticle, TypeOK, ConsumerState
<1>7. ASSUME NEW d \in LocalConsumer, LegacyKills(d) \/ Die(d) \/ Restart(d)
      PROVE  FALSE
  BY <1>7 DEF LegacyKills, Die, Restart, Fresh, TypeOK
<1>8. ASSUME NEW d \in LocalConsumer, ArticleRaised(d) \/ Ack(d)
      PROVE  FALSE
  <2>1. con' = [con EXCEPT ![d] = AfterMessage(d)]
    BY <1>8 DEF ArticleRaised, Ack
  <2>2. d = c
    BY <2>1 DEF TypeOK
  <2>3. AfterMessage(c).pc = "poll"
    BY <1>1 DEF AfterMessage
  <2> QED
    BY <1>2, <2>1, <2>2, <2>3
<1>9. ASSUME NEW d \in LocalConsumer, StopRequested(d)
      PROVE  FALSE
  BY <1>9 DEF StopRequested, TypeOK, ConsumerState
<1> QED
  BY <1>3, <1>4, <1>5, <1>6, <1>7, <1>8, <1>9, <1>10, StepCases DEF vars, Replicate, Send, Expire, ExpireEarly,
     Invoke, DropRecord, StartRecord, ReadBriefing, SaveBriefing, CallRaised, Return, LambdaDies

(* A run_once that nobody stops ends at its last empty poll, and the polls *)
(* it has counted since the last message are exactly MaxEmptyPolls: a      *)
(* message resets the count, and no path skips the reset.                  *)
THEOREM OnceEndsWhenQuietHolds == Spec => OnceEndsWhenQuiet
<1>1. ASSUME IInv, [Next]_vars, NEW c \in Once,
             con[c].pc # "done", con'[c].pc = "done", ~con[c].stop
      PROVE  con[c].quiet = MaxEmptyPolls
  <2>1. c \in LocalConsumer /\ CountEmpty(c) /\ TypeOK /\ Counts(con[c])
    BY <1>1, OnceAssumption, EndsAtEmptyPoll DEF IInv, CountsGood
  <2>2. con'[c] = AfterEmptyPoll(c) /\ con[c] \in ConsumerState
    BY <2>1, TypeParts DEF CountEmpty
  <2>3. con[c].empties + 1 >= MaxEmptyPolls
    BY <1>1, <2>2 DEF AfterEmptyPoll, NextPoll, ConsumerState
  <2>4. con[c].quiet = con[c].empties + 1
    BY <2>1 DEF CountEmpty, Counts
  <2> QED
    BY <2>2, <2>3, <2>4, BoundsAssumption DEF ConsumerState
<1>2. IInv /\ [Next]_vars =>
        [\A c \in Once :
           (con[c].pc # "done" /\ con'[c].pc = "done" /\ ~con[c].stop) =>
             con[c].quiet = MaxEmptyPolls]_vars
  BY <1>1
<1> QED
  BY <1>2, Invariant, PTL DEF Spec, OnceEndsWhenQuiet
=============================================================================
