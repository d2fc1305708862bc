---------------------------- MODULE StoreClasProofs ----------------------------
(***************************************************************************)
(* Proofs about the output daemons of the mail, mysql and mqtt convergence *)
(* layers (StoreClas), for any bundles, batches, servers and input daemons.*)
(***************************************************************************)
EXTENDS StoreClas, ListFacts

USE DEF bpVars, cliVars, cloVars, mailVars, smtpVars, pollVars, mailConf, sqlVars, mqttVars

-----------------------------------------------------------------------------
(* The inductive invariant. *)

StoreTypeOK ==
    /\ bp \in [Bundles -> {"queued", "out", "sent"}]
    /\ stranded \subseteq Bundles
    /\ hand \in Bundles \cup {NoBundle}
    /\ pend \in Seq(Bundles) /\ batch \in Seq(Bundles)
    /\ digest \in BOOLEAN

\* Where the two threads are says what they hold.  Without digests mailclo's main
\* thread sends by itself, so that it has one bundle at a time.
ThreadsOK ==
    /\ hand # NoBundle <=> mpc = "have"
    /\ batch # <<>> => fpc \in {"send", "insert", "settle"}
    /\ mpc = "start" => pend = <<>> /\ fpc = "exited"
    /\ proto = "mail" /\ ~digest => fpc # "wait" /\ (fpc # "exited" => mpc = "sending")

\* A bundle freed unreported stays out, as far as BP knows.
StrandedOK == \A b \in stranded : bp[b] = "out"

StoreInv == StoreTypeOK /\ ThreadsOK /\ StrandedOK /\ OutIsInOnePlace

-----------------------------------------------------------------------------
(* How the places of a bundle change. *)

\* What the lists hold, in numbers.
LEMMA StoreNumbers ==
    ASSUME StoreInv, NEW b \in Bundles
    PROVE  /\ Times(pend, b) \in Nat /\ Times(batch, b) \in Nat /\ b # NoBundle
           /\ (IF hand = b THEN 1 ELSE 0) + Times(pend, b) + Times(batch, b)
                 = IF bp[b] = "out" /\ b \notin stranded THEN 1 ELSE 0
<1>1. pend \in Seq(Bundles) /\ batch \in Seq(Bundles)
  BY DEF StoreInv, StoreTypeOK
<1> QED
  BY <1>1, TimesFacts, StoreAssumption DEF StoreInv, OutIsInOnePlace

\* A step that only moves a thread on.
LEMMA MoveKeeps ==
    ASSUME StoreInv, UNCHANGED <<bp, stranded, hand, pend, batch, digest, proto>>, ThreadsOK'
    PROVE  StoreInv'
BY DEF StoreInv, StoreTypeOK, StrandedOK, OutIsInOnePlace

\* A step of the input daemon or of a server.
LEMMA AsideKeeps ==
    ASSUME StoreInv, UNCHANGED <<bp, stranded, cloVars, digest, proto>>
    PROVE  StoreInv'
<1>1. ThreadsOK'
  BY DEF StoreInv, ThreadsOK
<1> QED
  BY <1>1, MoveKeeps

LEMMA StartKeeps ==
    ASSUME StoreInv, NEW flusher \in BOOLEAN, CloStart(flusher), UNCHANGED <<digest, proto>>,
           proto = "mail" => flusher = digest
    PROVE  StoreInv'
<1>1. pend' = pend /\ UNCHANGED <<bp, stranded, hand, batch>>
  BY DEF StoreInv, ThreadsOK, CloStart
<1>2. ThreadsOK'
  BY <1>1 DEF StoreInv, ThreadsOK, CloStart
<1> QED
  BY <1>1, <1>2, MoveKeeps

LEMMA DequeueKeeps ==
    ASSUME StoreInv, Dequeue, UNCHANGED <<digest, proto>>
    PROVE  StoreInv'
<1>1. PICK a \in Bundles : /\ bp[a] = "queued" /\ bp' = [bp EXCEPT ![a] = "out"]
                           /\ hand' = a
  BY DEF Dequeue
<1>2. mpc = "loop" /\ mpc' = "have" /\ UNCHANGED <<stranded, pend, fpc, batch>>
  BY DEF Dequeue
<1>3. a # NoBundle /\ hand = NoBundle
  BY <1>2, StoreAssumption DEF StoreInv, ThreadsOK
<1>4. \A b \in Bundles : bp'[b] = IF b = a THEN "out" ELSE bp[b]
  BY <1>1 DEF StoreInv, StoreTypeOK
<1>5. StoreTypeOK'
  BY <1>1, <1>2 DEF StoreInv, StoreTypeOK
<1>6. ThreadsOK'
  BY <1>1, <1>2, <1>3 DEF StoreInv, ThreadsOK
<1>7. a \notin stranded /\ StrandedOK'
  BY <1>1, <1>2, <1>4 DEF StoreInv, StoreTypeOK, StrandedOK
<1>8. ASSUME NEW b \in Bundles
      PROVE  (IF hand' = b THEN 1 ELSE 0) + Times(pend', b) + Times(batch', b)
                = IF bp'[b] = "out" /\ b \notin stranded' THEN 1 ELSE 0
  BY <1>1, <1>2, <1>3, <1>4, <1>7, StoreNumbers
<1> QED
  BY <1>5, <1>6, <1>7, <1>8 DEF StoreInv, OutIsInOnePlace

\* What is reported is out and was in the daemon's hands, so is not stranded.
LEMMA SettledFacts ==
    ASSUME StoreInv, NEW S, S \subseteq Bundles, NEW how \in {"queued", "sent"},
           Settle(S, how), \A b \in S : bp[b] = "out" /\ b \notin stranded,
           UNCHANGED stranded
    PROVE  /\ bp' \in [Bundles -> {"queued", "out", "sent"}]
           /\ StrandedOK'
           /\ \A b \in Bundles : (bp'[b] = "out" /\ b \notin stranded')
                                 <=> (bp[b] = "out" /\ b \notin stranded /\ b \notin S)
<1>1. bp' = [b \in Bundles |-> IF b \in S THEN how ELSE bp[b]]
  BY DEF Settle
<1>2. bp \in [Bundles -> {"queued", "out", "sent"}] /\ stranded \subseteq Bundles
  BY DEF StoreInv, StoreTypeOK
<1>3. \A b \in Bundles : bp'[b] = IF b \in S THEN how ELSE bp[b]
  BY <1>1
<1>4. bp' \in [Bundles -> {"queued", "out", "sent"}]
  BY <1>1, <1>2
<1>5. StrandedOK'
  BY <1>2, <1>3 DEF StoreInv, StrandedOK
<1> QED
  BY <1>3, <1>4, <1>5

\* The bundle in hand is reported, one way or the other.
LEMMA ReportKeeps ==
    ASSUME StoreInv, mpc = "have", NEW how \in {"queued", "sent"}, Settle({hand}, how),
           hand' = NoBundle, mpc' = "loop",
           UNCHANGED <<stranded, pend, fpc, batch, digest, proto>>
    PROVE  StoreInv'
<1>1. hand \in Bundles
  BY DEF StoreInv, StoreTypeOK, ThreadsOK
<1>2. bp[hand] = "out" /\ hand \notin stranded
  BY <1>1, StoreNumbers
<1>3. /\ bp' \in [Bundles -> {"queued", "out", "sent"}] /\ StrandedOK'
      /\ \A b \in Bundles : (bp'[b] = "out" /\ b \notin stranded')
                            <=> (bp[b] = "out" /\ b \notin stranded /\ b # hand)
  BY <1>1, <1>2, SettledFacts
<1>4. StoreTypeOK'
  BY <1>3 DEF StoreInv, StoreTypeOK
<1>5. ThreadsOK'
  BY DEF StoreInv, ThreadsOK
<1>6. ASSUME NEW b \in Bundles
      PROVE  (IF hand' = b THEN 1 ELSE 0) + Times(pend', b) + Times(batch', b)
                = IF bp'[b] = "out" /\ b \notin stranded' THEN 1 ELSE 0
  BY <1>2, <1>3, StoreNumbers
<1> QED
  BY <1>3, <1>4, <1>5, <1>6 DEF StoreInv, OutIsInOnePlace

LEMMA BreakOffKeeps ==
    ASSUME StoreInv, BreakOff, UNCHANGED <<digest, proto>>
    PROVE  StoreInv'
<1>1. /\ mpc = "have" /\ mpc' = "stop" /\ hand' = NoBundle
      /\ stranded' = stranded \cup {hand} /\ UNCHANGED <<bp, pend, fpc, batch>>
  BY DEF BreakOff
<1>2. hand \in Bundles
  BY <1>1 DEF StoreInv, StoreTypeOK, ThreadsOK
<1>3. bp[hand] = "out" /\ hand \notin stranded
  BY <1>2, StoreNumbers
<1>4. StoreTypeOK' /\ ThreadsOK' /\ StrandedOK'
  BY <1>1, <1>2, <1>3 DEF StoreInv, StoreTypeOK, ThreadsOK, StrandedOK
<1>5. ASSUME NEW b \in Bundles
      PROVE  (IF hand' = b THEN 1 ELSE 0) + Times(pend', b) + Times(batch', b)
                = IF bp'[b] = "out" /\ b \notin stranded' THEN 1 ELSE 0
  BY <1>1, <1>3, StoreNumbers
<1> QED
  BY <1>4, <1>5 DEF StoreInv, OutIsInOnePlace

LEMMA BufferKeeps ==
    ASSUME StoreInv, Buffer, proto = "mail" => digest, UNCHANGED <<digest, proto>>
    PROVE  StoreInv'
<1>1. /\ mpc = "have" /\ mpc' = "loop" /\ hand' = NoBundle
      /\ pend' = Append(pend, hand) /\ UNCHANGED <<bp, stranded, fpc, batch>>
  BY DEF Buffer
<1>2. hand \in Bundles /\ pend \in Seq(Bundles)
  BY <1>1 DEF StoreInv, StoreTypeOK, ThreadsOK
<1>3. pend' \in Seq(Bundles)
  BY <1>1, <1>2
<1>4. StoreTypeOK' /\ StrandedOK'
  BY <1>1, <1>3 DEF StoreInv, StoreTypeOK, StrandedOK
<1>5. ThreadsOK'
  BY <1>1 DEF StoreInv, ThreadsOK
<1>6. ASSUME NEW b \in Bundles
      PROVE  (IF hand' = b THEN 1 ELSE 0) + Times(pend', b) + Times(batch', b)
                = IF bp'[b] = "out" /\ b \notin stranded' THEN 1 ELSE 0
  <2>1. Times(pend', b) = Times(pend, b) + (IF hand = b THEN 1 ELSE 0)
    BY <1>1, <1>2, TimesAppend
  <2> QED
    BY <1>1, <2>1, StoreNumbers
<1> QED
  BY <1>4, <1>5, <1>6 DEF StoreInv, OutIsInOnePlace

LEMMA TakeBatchKeeps ==
    ASSUME StoreInv, TakeBatch, UNCHANGED <<digest, proto>>
    PROVE  StoreInv'
<1>1. /\ fpc = "wait" /\ fpc' = "send" /\ batch' = pend /\ pend' = <<>>
      /\ <<>> \in Seq(Bundles) /\ UNCHANGED <<bp, stranded, mpc, hand>>
  BY DEF TakeBatch
<1>2. batch = <<>>
  BY <1>1 DEF StoreInv, ThreadsOK
<1>3. StoreTypeOK' /\ StrandedOK'
  BY <1>1 DEF StoreInv, StoreTypeOK, StrandedOK
<1>4. ThreadsOK'
  BY <1>1 DEF StoreInv, ThreadsOK
<1>5. ASSUME NEW b \in Bundles
      PROVE  (IF hand' = b THEN 1 ELSE 0) + Times(pend', b) + Times(batch', b)
                = IF bp'[b] = "out" /\ b \notin stranded' THEN 1 ELSE 0
  BY <1>1, <1>2, TimesEmpty, StoreNumbers
<1> QED
  BY <1>3, <1>4, <1>5 DEF StoreInv, OutIsInOnePlace

LEMMA SendNowKeeps ==
    ASSUME StoreInv, MailSendNow, proto = "mail", UNCHANGED proto
    PROVE  StoreInv'
<1>1. /\ mpc = "have" /\ ~digest /\ mpc' = "sending" /\ hand' = NoBundle
      /\ batch' = <<hand>> /\ fpc' = "send" /\ UNCHANGED <<bp, stranded, pend, digest>>
  BY DEF MailSendNow
<1>2. hand \in Bundles /\ batch = <<>>
  BY <1>1 DEF StoreInv, StoreTypeOK, ThreadsOK
<1>3. batch' = Append(batch, hand) /\ batch' \in Seq(Bundles)
  BY <1>1, <1>2
<1>4. StoreTypeOK' /\ StrandedOK'
  BY <1>1, <1>3 DEF StoreInv, StoreTypeOK, StrandedOK
<1>5. ThreadsOK'
  BY <1>1 DEF StoreInv, ThreadsOK
<1>6. ASSUME NEW b \in Bundles
      PROVE  (IF hand' = b THEN 1 ELSE 0) + Times(pend', b) + Times(batch', b)
                = IF bp'[b] = "out" /\ b \notin stranded' THEN 1 ELSE 0
  <2>1. Times(batch', b) = Times(batch, b) + (IF hand = b THEN 1 ELSE 0)
    <3>1. batch \in Seq(Bundles) /\ hand \in Bundles
      BY <1>2 DEF StoreInv, StoreTypeOK
    <3>2. Times(Append(batch, hand), b) = Times(batch, b) + (IF hand = b THEN 1 ELSE 0)
      BY <3>1, TimesAppend
    <3> QED
      BY <1>3, <3>2
  <2> QED
    BY <1>1, <2>1, StoreNumbers
<1> QED
  BY <1>4, <1>5, <1>6 DEF StoreInv, OutIsInOnePlace

\* Of a batch the thread sends, each bundle is out and not stranded.
LEMMA BatchFacts ==
    ASSUME StoreInv
    PROVE  /\ Range(batch) \subseteq Bundles
           /\ \A b \in Bundles : b \in Range(batch) => bp[b] = "out" /\ b \notin stranded
           /\ \A b \in Bundles : (IF hand = b THEN 1 ELSE 0) + Times(pend, b)
                 = IF bp[b] = "out" /\ b \notin stranded /\ b \notin Range(batch) THEN 1 ELSE 0
<1>1. batch \in Seq(Bundles) /\ Range(batch) = ToSet(batch)
  BY DEF StoreInv, StoreTypeOK, Range, ToSet
<1>2. Range(batch) \subseteq Bundles
  BY <1>1 DEF ToSet
<1>3. ASSUME NEW b \in Bundles PROVE Times(batch, b) = 0 <=> b \notin Range(batch)
  BY <1>1, TimesFacts
<1>4. ASSUME NEW b \in Bundles, b \in Range(batch) PROVE bp[b] = "out" /\ b \notin stranded
  BY <1>3, <1>4, StoreNumbers
<1>5. ASSUME NEW b \in Bundles
      PROVE  (IF hand = b THEN 1 ELSE 0) + Times(pend, b)
                = IF bp[b] = "out" /\ b \notin stranded /\ b \notin Range(batch) THEN 1 ELSE 0
  BY <1>3, StoreNumbers
<1> QED
  BY <1>2, <1>4, <1>5

LEMMA NoMemoryKeeps ==
    ASSUME StoreInv, MailNoMemory, UNCHANGED proto
    PROVE  StoreInv'
<1>1. /\ stranded' = stranded \cup Range(batch) /\ batch' = <<>> /\ <<>> \in Seq(Bundles)
      /\ digest /\ fpc' = "wait" /\ fpc = "send"
      /\ UNCHANGED <<bp, mpc, hand, pend, digest>>
  BY DEF MailNoMemory
<1>2. StoreTypeOK' /\ StrandedOK'
  BY <1>1, BatchFacts DEF StoreInv, StoreTypeOK, StrandedOK
<1>3. ThreadsOK'
  BY <1>1 DEF StoreInv, ThreadsOK
<1>4. ASSUME NEW b \in Bundles
      PROVE  (IF hand' = b THEN 1 ELSE 0) + Times(pend', b) + Times(batch', b)
                = IF bp'[b] = "out" /\ b \notin stranded' THEN 1 ELSE 0
  BY <1>1, BatchFacts, TimesEmpty, StoreNumbers
<1> QED
  BY <1>2, <1>3, <1>4 DEF StoreInv, OutIsInOnePlace

\* The batch is reported, one way or the other.
LEMMA SettleKeeps ==
    ASSUME StoreInv, NEW how \in {"queued", "sent"}, Settle(Range(batch), how), batch' = <<>>,
           ThreadsOK', UNCHANGED <<stranded, hand, pend, digest, proto>>
    PROVE  StoreInv'
<1>1. /\ bp' \in [Bundles -> {"queued", "out", "sent"}] /\ StrandedOK'
      /\ \A b \in Bundles : (bp'[b] = "out" /\ b \notin stranded')
                            <=> (bp[b] = "out" /\ b \notin stranded /\ b \notin Range(batch))
  BY BatchFacts, SettledFacts
<1>2. StoreTypeOK'
  BY <1>1 DEF StoreInv, StoreTypeOK
<1>3. ASSUME NEW b \in Bundles
      PROVE  (IF hand' = b THEN 1 ELSE 0) + Times(pend', b) + Times(batch', b)
                = IF bp'[b] = "out" /\ b \notin stranded' THEN 1 ELSE 0
  BY <1>1, BatchFacts, TimesEmpty, StoreNumbers
<1> QED
  BY <1>1, <1>2, <1>3 DEF StoreInv, OutIsInOnePlace

LEMMA SettleBatchKeeps ==
    ASSUME StoreInv, SettleBatch, proto = "mail" => digest, UNCHANGED <<digest, proto>>
    PROVE  StoreInv'
<1>1. /\ fpc = "settle" /\ fpc' = "wait" /\ batch' = <<>>
      /\ UNCHANGED <<stranded, mpc, hand, pend>>
  BY DEF SettleBatch
<1>2. Settle(Range(batch), "sent") \/ Settle(Range(batch), "queued")
  BY DEF SettleBatch, XmitSuccess, XmitFailure
<1>3. ThreadsOK'
  BY <1>1 DEF StoreInv, ThreadsOK
<1> QED
  BY <1>1, <1>2, <1>3, SettleKeeps

-----------------------------------------------------------------------------
(* The daemons' steps. *)

LEMMA GiveBackKeeps == ASSUME StoreInv, GiveBack, UNCHANGED <<digest, proto>> PROVE StoreInv'
BY ReportKeeps DEF GiveBack, XmitFailure

\* The main thread leaves its loop and ends.
LEMMA EndingKeeps ==
    ASSUME StoreInv, LeaveLoop \/ TellEnd \/ Joined \/ FlushEnds, UNCHANGED <<digest, proto>>
    PROVE  StoreInv'
<1>1. UNCHANGED <<bp, stranded, hand, pend, batch>>
  BY DEF LeaveLoop, TellEnd, Joined, FlushEnds
<1>2. ThreadsOK'
  BY DEF StoreInv, ThreadsOK, LeaveLoop, TellEnd, Joined, FlushEnds
<1> QED
  BY <1>1, <1>2, MoveKeeps

LEMMA MailKeeps ==
    ASSUME StoreInv, proto = "mail", MailNext, UNCHANGED proto
    PROVE  StoreInv'
<1>0. digest \in BOOLEAN
  BY DEF StoreInv, StoreTypeOK
<1>1. CASE MailStart
  BY <1>0, <1>1, StartKeeps DEF MailStart
<1>2. CASE MailDequeue
  BY <1>2, DequeueKeeps DEF MailDequeue
<1>3. CASE MailGiveBack
  BY <1>3, GiveBackKeeps DEF MailGiveBack
<1>4. CASE MailLeaveLoop \/ MailTellEnd \/ MailJoined \/ MailFlushEnds
  BY <1>4, EndingKeeps DEF MailLeaveLoop, MailTellEnd, MailJoined, MailFlushEnds
<1>5. CASE MailBuffer
  BY <1>5, BufferKeeps DEF MailBuffer
<1>6. CASE MailTakeBatch
  BY <1>6, TakeBatchKeeps DEF MailTakeBatch
<1>7. CASE MailSendNow
  BY <1>7, SendNowKeeps
<1>8. CASE MailNoMemory
  BY <1>8, NoMemoryKeeps
<1>9. CASE MailSmtp
  <2>1. /\ UNCHANGED <<bp, stranded, hand, pend, batch, digest, mpc>>
        /\ fpc = "send" /\ fpc' = "settle"
    BY <1>9 DEF MailSmtp
  <2>2. ThreadsOK'
    BY <2>1 DEF StoreInv, ThreadsOK
  <2> QED
    BY <2>1, <2>2, MoveKeeps
<1>10. CASE MailSettle
  <2>1. CASE digest /\ SettleBatch /\ UNCHANGED mailVars
    BY <2>1, SettleBatchKeeps
  <2>2. CASE ~(digest /\ SettleBatch /\ UNCHANGED mailVars)
    <3>1. /\ ~digest /\ fpc = "settle" /\ fpc' = "exited" /\ mpc' = "loop" /\ batch' = <<>>
          /\ UNCHANGED <<stranded, hand, pend, digest>>
      BY <1>10, <2>2 DEF MailSettle
    <3>2. Settle(Range(batch), "sent") \/ Settle(Range(batch), "queued")
      BY <1>10, <2>2 DEF MailSettle, XmitSuccess, XmitFailure
    <3>3. ThreadsOK'
      BY <3>1 DEF StoreInv, ThreadsOK
    <3> QED
      BY <3>1, <3>2, <3>3, SettleKeeps
  <2> QED
    BY <2>1, <2>2
<1>11. CASE MailCli
  <2>1. UNCHANGED <<bp, stranded, cloVars, digest>>
    BY <1>11 DEF MailCli, MailCliStep, MailCliStart, MailList, MailRetr, MailInject, MailDele,
                 MailPollDone, MailSkip, MailInjectFails
  <2> QED
    BY <2>1, AsideKeeps
<1> QED
  BY <1>1, <1>2, <1>3, <1>4, <1>5, <1>6, <1>7, <1>8, <1>9, <1>10, <1>11
     DEF MailNext, MailClo

LEMMA SqlKeeps ==
    ASSUME StoreInv, proto = "mysql", SqlNext, UNCHANGED <<digest, proto>>
    PROVE  StoreInv'
<1>1. CASE SqlStart
  BY <1>1, StartKeeps DEF SqlStart
<1>2. CASE SqlDequeue
  BY <1>2, DequeueKeeps DEF SqlDequeue
<1>3. CASE SqlGiveBack
  BY <1>3, GiveBackKeeps DEF SqlGiveBack
<1>4. CASE SqlBreakOff
  BY <1>4, BreakOffKeeps DEF SqlBreakOff
<1>5. CASE SqlLeaveLoop \/ SqlTellEnd \/ SqlJoined \/ SqlFlushEnds
  BY <1>5, EndingKeeps DEF SqlLeaveLoop, SqlTellEnd, SqlJoined, SqlFlushEnds
<1>6. CASE SqlBuffer
  BY <1>6, BufferKeeps DEF SqlBuffer
<1>7. CASE SqlTakeBatch
  BY <1>7, TakeBatchKeeps DEF SqlTakeBatch
<1>8. CASE SqlConnect \/ SqlInsert
  <2>1. /\ UNCHANGED <<bp, stranded, hand, pend, batch, mpc>>
        /\ fpc \in {"send", "insert"} /\ fpc' \in {"send", "insert", "settle"}
    BY <1>8 DEF SqlConnect, SqlInsert
  <2>2. ThreadsOK'
    BY <2>1 DEF StoreInv, ThreadsOK
  <2> QED
    BY <2>1, <2>2, MoveKeeps
<1>9. CASE SqlSettle
  BY <1>9, SettleBatchKeeps DEF SqlSettle
<1>10. CASE SqlServer \/ SqlCli
  <2>1. UNCHANGED <<bp, stranded, cloVars>>
    BY <1>10 DEF SqlServer, SqlCli, SqlCliStep, SqlCliStart, SqlCliConnect, SqlSelect,
                 SqlInject, SqlDelete, SqlRollback, SqlCliStop
  <2> QED
    BY <2>1, AsideKeeps
<1> QED
  BY <1>1, <1>2, <1>3, <1>4, <1>5, <1>6, <1>7, <1>8, <1>9, <1>10 DEF SqlNext, SqlClo

LEMMA MqttKeeps ==
    ASSUME StoreInv, proto = "mqtt", MqttNext, UNCHANGED <<digest, proto>>
    PROVE  StoreInv'
<1>1. CASE MqttStart
  BY <1>1, StartKeeps DEF MqttStart
<1>2. CASE MqttDequeue
  BY <1>2, DequeueKeeps DEF MqttDequeue
<1>3. CASE MqttGiveBack
  BY <1>3, GiveBackKeeps DEF MqttGiveBack
<1>4. CASE MqttBreakOff
  BY <1>4, BreakOffKeeps DEF MqttBreakOff
<1>5. CASE MqttLeaveLoop
  BY <1>5, EndingKeeps DEF MqttLeaveLoop
<1>6. CASE MqttEnd
  <2>1. /\ UNCHANGED <<bp, stranded, hand, pend, batch, fpc>>
        /\ mpc = "stop" /\ mpc' = "ended"
    BY <1>6 DEF MqttEnd
  <2>2. ThreadsOK'
    BY <2>1 DEF StoreInv, ThreadsOK
  <2> QED
    BY <2>1, <2>2, MoveKeeps
<1>7. CASE MqttReconnectFails \/ MqttPublish
  <2>1. /\ mpc = "have" /\ mpc' = "loop" /\ hand' = NoBundle
        /\ UNCHANGED <<stranded, pend, fpc, batch>>
    BY <1>7 DEF MqttReconnectFails, MqttPublish
  <2>2. Settle({hand}, "sent") \/ Settle({hand}, "queued")
    BY <1>7 DEF MqttReconnectFails, MqttPublish, XmitSuccess, XmitFailure
  <2> QED
    BY <2>1, <2>2, ReportKeeps
<1>8. CASE MqttReconnect \/ MqttBroker \/ MqttCli
  <2>1. UNCHANGED <<bp, stranded, cloVars>>
    BY <1>8 DEF MqttReconnect, MqttBroker, MqttCli, MqttCliStep, MqttCliStart,
                MqttCliReconnect, MqttArrive, MqttReceive, MqttReceiveFails, MqttCliStop
  <2> QED
    BY <2>1, AsideKeeps
<1> QED
  BY <1>1, <1>2, <1>3, <1>4, <1>5, <1>6, <1>7, <1>8 DEF MqttNext, MqttClo

LEMMA StoreInvInit == StoresInit => StoreInv
<1> SUFFICES ASSUME StoresInit PROVE StoreInv
  OBVIOUS
<1>1. digest \in BOOLEAN
  BY MailAssumption DEF StoresInit, MailInit
<1>2. /\ bp = [b \in Bundles |-> "queued"] /\ stranded = {} /\ mpc = "start"
      /\ hand = NoBundle /\ pend = <<>> /\ fpc = "exited" /\ batch = <<>>
  BY DEF StoresInit, StoreInit
<1>3. StoreTypeOK /\ ThreadsOK /\ StrandedOK
  BY <1>1, <1>2 DEF StoreTypeOK, ThreadsOK, StrandedOK
<1>4. OutIsInOnePlace
  BY <1>2, TimesEmpty, StoreAssumption DEF OutIsInOnePlace
<1> QED
  BY <1>3, <1>4 DEF StoreInv

-----------------------------------------------------------------------------
(* The theorems. *)

\* The inductive invariant of the output daemons.
THEOREM StoreInvariant == StoresSpec => []StoreInv
<1>1. StoreInv /\ [StoresNext]_storeVars => StoreInv'
  <2> SUFFICES ASSUME StoreInv, [StoresNext]_storeVars PROVE StoreInv'
    OBVIOUS
  <2>1. CASE UNCHANGED storeVars
    BY <2>1, AsideKeeps DEF storeVars
  <2>2. CASE ViaMail(MailNext)
    BY <2>2, MailKeeps DEF ViaMail
  <2>3. CASE ViaMysql(SqlNext)
    BY <2>3, SqlKeeps DEF ViaMysql
  <2>4. CASE ViaMqtt(MqttNext)
    BY <2>4, MqttKeeps DEF ViaMqtt
  <2> QED
    BY <2>1, <2>2, <2>3, <2>4 DEF StoresNext
<1> QED
  BY <1>1, StoreInvInit, PTL DEF StoresSpec

\* A bundle BP has handed to mailclo, mysqlclo or mqttclo is in exactly one place
\* of the daemon until it is reported, whatever its two threads, the server and
\* the memory do; so BP hears of it at most once.
THEOREM StoreOutIsInOnePlace == StoresSpec => []OutIsInOnePlace
<1>1. StoreInv => OutIsInOnePlace
  BY DEF StoreInv
<1> QED
  BY <1>1, StoreInvariant, PTL

-----------------------------------------------------------------------------
(* What BP may forget is kept. *)

\* The bundle is where it should be, once BP has been told that it was sent.
Safe(b) == b \in acquired \/ Held(b) \/ b \in gone

ReportOK ==
    /\ ok => fpc = "settle"
    /\ \A b \in Bundles : bp[b] = "sent" \/ (ok /\ b \in Range(batch)) => Safe(b)

\* The rows that the transaction will delete were injected.
SqlOK ==
    /\ lastId \in Nat
    /\ \A r \in rows : r.id \in 1 .. lastId /\ \A q \in rows : q.id = r.id => q = r
    /\ selected \subseteq rows /\ consumed \subseteq 1 .. lastId
    /\ \A r \in rows : r.id \in consumed => r.of \in acquired

MqttOK == queue \in Seq(Bundles) /\ inbox \in Seq(Bundles)

ConfOK ==
    /\ <<digest, enc>> \in MailModes
    /\ recovered = [s \in Batches |-> ParseMessage(enc, MessageOf(s))]

\* So were the bundles of the messages that are marked; of the one being looked at,
\* those not among the bodies still to be injected.
MailOK ==
    /\ ConfOK
    /\ mails \in Nat /\ marked \subseteq 1 .. mails
    /\ \A m \in mailbox : /\ m.nbr \in 1 .. mails /\ m.of \in Batches
                          /\ \A n \in mailbox : n.nbr = m.nbr => n = m
    /\ \A m \in mailbox : m.nbr \in marked => Range(m.of) \subseteq acquired
    /\ rpc = "inject" =>
          /\ cur \in 1 .. mails /\ found \in Seq(Seq(Int))
          /\ \A m \in mailbox : m.nbr = cur =>
                \A b \in Range(m.of) : b \in acquired \/ Body[b] \in Range(found)

KeptInv ==
    /\ ReportOK
    /\ proto = "mysql" => SqlOK
    /\ proto = "mqtt" => MqttOK
    /\ proto = "mail" => MailOK

\* The store loses nothing that was acquired nowhere.
SafeStays == \A b \in Bundles : Safe(b) => Safe(b)'

LEMMA ReportStays ==
    ASSUME ReportOK, SafeStays,
           \A b \in Bundles : bp'[b] = "sent" => bp[b] = "sent" \/ (ok /\ b \in Range(batch)),
           ok' = FALSE \/ (ok' = ok /\ batch' = batch /\ fpc' = fpc)
    PROVE  ReportOK'
<1>1. ok' => ok /\ batch' = batch /\ fpc' = fpc
  OBVIOUS
<1>2. ok' => fpc' = "settle"
  BY <1>1 DEF ReportOK
<1>3. ASSUME NEW b \in Bundles, bp'[b] = "sent" \/ (ok' /\ b \in Range(batch')) PROVE Safe(b)'
  BY <1>1, <1>3 DEF ReportOK, SafeStays
<1> QED
  BY <1>2, <1>3 DEF ReportOK

\* Steps of an output daemon that tell the server nothing.
CloQuiet ==
    \/ (\E flusher \in BOOLEAN : CloStart(flusher)) \/ Dequeue \/ GiveBack \/ BreakOff
    \/ LeaveLoop \/ TellEnd \/ Joined \/ Buffer \/ TakeBatch \/ FlushEnds \/ SettleBatch

LEMMA QuietReports ==
    ASSUME StoreInv, ReportOK, SafeStays, CloQuiet
    PROVE  ReportOK'
<1>0. bp \in [Bundles -> {"queued", "out", "sent"}]
  BY DEF StoreInv, StoreTypeOK
<1>1. CASE (\E flusher \in BOOLEAN : CloStart(flusher)) \/ LeaveLoop \/ TellEnd \/ Joined \/ Buffer
           \/ TakeBatch \/ FlushEnds \/ BreakOff
  <2>1. UNCHANGED <<bp, ok>>
    BY <1>1 DEF CloStart, LeaveLoop, TellEnd, Joined, Buffer, TakeBatch, FlushEnds, BreakOff
  <2>2. ok = FALSE \/ (UNCHANGED <<fpc, batch>>)
    BY <1>1 DEF CloStart, LeaveLoop, TellEnd, Joined, Buffer, TakeBatch, FlushEnds, BreakOff,
                ReportOK, StoreInv, ThreadsOK
  <2> QED
    BY <2>1, <2>2, ReportStays
<1>2. CASE Dequeue
  <2>1. UNCHANGED <<ok, fpc, batch>> /\ \E a \in Bundles : bp' = [bp EXCEPT ![a] = "out"]
    BY <1>2 DEF Dequeue
  <2>2. \A b \in Bundles : bp'[b] = "sent" => bp[b] = "sent"
    BY <1>0, <2>1
  <2> QED
    BY <2>1, <2>2, ReportStays
<1>3. CASE GiveBack
  <2>1. UNCHANGED <<ok, fpc, batch>> /\ \A b \in Bundles : bp'[b] = "sent" => bp[b] = "sent"
    BY <1>3 DEF GiveBack, XmitFailure, Settle
  <2> QED
    BY <2>1, ReportStays
<1>4. CASE SettleBatch
  <2>1. ok' = FALSE /\ (Settle(Range(batch), "queued") \/ (ok /\ Settle(Range(batch), "sent")))
    BY <1>4 DEF SettleBatch, XmitSuccess, XmitFailure
  <2>2. \A b \in Bundles : bp'[b] = "sent" => bp[b] = "sent" \/ (ok /\ b \in Range(batch))
    BY <2>1 DEF Settle
  <2> QED
    BY <2>1, <2>2, ReportStays
<1> QED
  BY <1>1, <1>2, <1>3, <1>4 DEF CloQuiet

-----------------------------------------------------------------------------
(* mysql: a row that is deleted was injected. *)

LEMMA SqlKept ==
    ASSUME StoreInv, ReportOK, SqlOK, proto = "mysql", SqlNext, UNCHANGED <<proto, mqttVars>>
    PROVE  ReportOK' /\ SqlOK'
<1>0. \A b \in Bundles : /\ Safe(b) <=> b \in acquired \/ InTable(b) \/ b \in gone
                         /\ Safe(b)' <=> b \in acquired' \/ InTable(b)' \/ b \in gone'
  BY DEF Safe, Held
<1>1. ASSUME rows \subseteq rows', acquired \subseteq acquired' PROVE SafeStays
  BY <1>0, <1>1 DEF SafeStays, InTable
<1>2. CASE SqlStart \/ SqlDequeue \/ SqlGiveBack \/ SqlBreakOff \/ SqlLeaveLoop \/ SqlTellEnd
           \/ SqlJoined \/ SqlBuffer \/ SqlTakeBatch \/ SqlFlushEnds \/ SqlSettle
  <2>1. CloQuiet /\ UNCHANGED sqlVars
    BY <1>2 DEF CloQuiet, SqlStart, SqlDequeue, SqlGiveBack, SqlBreakOff, SqlLeaveLoop, SqlTellEnd,
                SqlJoined, SqlBuffer, SqlTakeBatch, SqlFlushEnds, SqlSettle
  <2>2. acquired' = acquired
    BY <2>1 DEF CloQuiet, CloStart, Dequeue, GiveBack, BreakOff, LeaveLoop, TellEnd, Joined, Buffer,
                TakeBatch, FlushEnds, SettleBatch
  <2>3. SqlOK'
    BY <2>1, <2>2 DEF SqlOK
  <2> QED
    BY <1>1, <2>1, <2>2, <2>3, QuietReports
<1>3. CASE SqlConnect
  <2>1. UNCHANGED <<bp, acquired, ok, batch, rows, lastId, selected, consumed>> /\ fpc = "send"
    BY <1>3 DEF SqlConnect
  <2>2. ok = FALSE \/ fpc' = fpc
    BY <2>1 DEF ReportOK
  <2> QED
    BY <1>1, <2>1, <2>2, ReportStays DEF SqlOK
<1>4. CASE SqlInsert
  <2>1. PICK committed \in BOOLEAN, heard \in BOOLEAN :
           /\ heard => committed
           /\ ok' = heard /\ fpc' = "settle"
           /\ rows' = IF committed
                      THEN rows \cup {[id |-> lastId + i, of |-> batch[i]] : i \in 1 .. Len(batch)}
                      ELSE rows
           /\ lastId' = IF committed THEN lastId + Len(batch) ELSE lastId
    BY <1>4 DEF SqlInsert
  <2>2. UNCHANGED <<bp, acquired, batch, selected, consumed>>
    BY <1>4 DEF SqlInsert
  <2>3. SafeStays
    BY <1>1, <2>1, <2>2
  <2>4. batch \in Seq(Bundles) /\ Len(batch) \in Nat /\ DOMAIN batch = 1 .. Len(batch)
    BY DEF StoreInv, StoreTypeOK
  <2>5. ASSUME NEW b \in Bundles, committed, b \in Range(batch) PROVE Safe(b)'
    <3>1. PICK i \in 1 .. Len(batch) : b = batch[i]
      BY <2>4, <2>5 DEF Range
    <3>2. [id |-> lastId + i, of |-> batch[i]] \in rows'
      BY <2>1, <2>5
    <3>3. InTable(b)'
      BY <3>1, <3>2 DEF InTable
    <3> QED
      BY <1>0, <3>3
  <2>6. ReportOK'
    BY <2>1, <2>2, <2>3, <2>5 DEF ReportOK, SafeStays
  <2>7. lastId \in Nat /\ lastId' \in Nat /\ lastId <= lastId'
    BY <2>1, <2>4 DEF SqlOK
  <2>8. ASSUME NEW r \in rows'
        PROVE  \/ r \in rows /\ r.id \in 1 .. lastId
               \/ \E i \in 1 .. Len(batch) : /\ r = [id |-> lastId + i, of |-> batch[i]]
                                             /\ r.id \in 1 .. lastId' /\ r.id > lastId
    BY <2>1, <2>4, <2>7, <2>8 DEF SqlOK
  <2>9. ASSUME NEW r \in rows', NEW q \in rows', q.id = r.id PROVE q = r
    <3>1. CASE r \in rows /\ q \in rows
      BY <2>9, <3>1 DEF SqlOK
    <3>2. CASE r \notin rows \/ q \notin rows
      <4>1. PICK i \in 1 .. Len(batch), j \in 1 .. Len(batch) :
               r = [id |-> lastId + i, of |-> batch[i]] /\ q = [id |-> lastId + j, of |-> batch[j]]
        BY <2>7, <2>8, <2>9, <3>2
      <4>2. i = j
        BY <2>4, <2>7, <2>9, <4>1
      <4> QED
        BY <4>1, <4>2
    <3> QED
      BY <3>1, <3>2
  <2>10. \A r \in rows' : r.id \in 1 .. lastId'
    BY <2>7, <2>8
  <2>11. ASSUME NEW r \in rows', r.id \in consumed PROVE r.of \in acquired
    <3>1. r.id \in 1 .. lastId
      BY <2>11 DEF SqlOK
    <3>2. r \in rows
      BY <2>7, <2>8, <3>1
    <3> QED
      BY <2>11, <3>2 DEF SqlOK
  <2>12. selected \subseteq rows' /\ consumed \subseteq 1 .. lastId'
    BY <2>1, <2>7 DEF SqlOK
  <2> QED
    BY <2>2, <2>6, <2>7, <2>9, <2>10, <2>11, <2>12 DEF SqlOK
<1>5. CASE SqlServer \/ SqlCliStart \/ SqlCliConnect \/ SqlSelect \/ SqlRollback \/ SqlCliStop
  <2>1. UNCHANGED <<bp, acquired, ok, batch, fpc, rows, lastId>>
    BY <1>5 DEF SqlServer, SqlCliStart, SqlCliConnect, SqlSelect, SqlRollback, SqlCliStop
  <2>2. ReportOK'
    BY <1>1, <2>1, ReportStays
  <2>3. UNCHANGED <<selected, consumed>> \/ (selected' \subseteq rows /\ consumed' = {})
    BY <1>5 DEF SqlServer, SqlCliStart, SqlCliConnect, SqlSelect, SqlRollback, SqlCliStop
  <2>4. SqlOK'
    BY <2>1, <2>3 DEF SqlOK
  <2> QED
    BY <2>2, <2>4
<1>6. CASE SqlInject
  <2>1. PICK r : r = CHOOSE q \in selected : \A s \in selected : q.id <= s.id
    OBVIOUS
  <2>2. r \in selected
    <3>1. selected # {} /\ \A q \in selected : q.id \in Nat
      BY <1>6 DEF SqlInject, SqlOK
    <3>2. PICK S : S = {q.id : q \in selected}
      OBVIOUS
    <3>3. S \subseteq Nat /\ S # {}
      BY <3>1, <3>2
    <3>4. PICK n \in S : \A m \in S : n <= m
      BY <3>3, LeastNat
    <3>5. PICK q \in selected : n = q.id
      BY <3>2
    <3>6. \A s \in selected : q.id <= s.id
      BY <3>2, <3>4, <3>5
    <3> QED
      BY <2>1, <3>5, <3>6
  <2>3. /\ acquired' = acquired \cup {r.of} /\ selected' = selected \ {r}
        /\ consumed' = consumed \cup {r.id} /\ UNCHANGED <<bp, ok, batch, fpc, rows, lastId>>
    BY <1>6, <2>1 DEF SqlInject, Acquire
  <2>4. r \in rows /\ r.id \in 1 .. lastId
    BY <2>2 DEF SqlOK
  <2>5. \A q \in rows : q.id \in consumed' => q.of \in acquired'
    BY <2>3, <2>4 DEF SqlOK
  <2>6. SqlOK'
    BY <2>3, <2>4, <2>5 DEF SqlOK
  <2>7. ReportOK'
    BY <1>1, <2>3, ReportStays
  <2> QED
    BY <2>6, <2>7
<1>7. CASE SqlDelete
  <2>1. /\ rows' = rows \/ rows' = {r \in rows : r.id \notin consumed}
        /\ consumed' = {} /\ UNCHANGED <<bp, acquired, ok, batch, fpc, lastId, selected>>
        /\ selected = {}
    BY <1>7 DEF SqlDelete
  <2>2. \A r \in rows : r \in rows' \/ r.of \in acquired
    BY <2>1 DEF SqlOK
  <2>3. SafeStays
    BY <1>0, <2>1, <2>2 DEF SafeStays, InTable
  <2>4. rows' \subseteq rows
    BY <2>1
  <2>5. SqlOK'
    BY <2>1, <2>4 DEF SqlOK
  <2> QED
    BY <2>1, <2>3, <2>5, ReportStays
<1> QED
  BY <1>2, <1>3, <1>4, <1>5, <1>6, <1>7 DEF SqlNext, SqlClo, SqlCli, SqlCliStep

-----------------------------------------------------------------------------
(* mqtt: a message acknowledged is received, or recorded as gone. *)

\* Taking the head of a list.
LEMMA HeadFacts ==
    ASSUME NEW S, NEW q \in Seq(S), q # <<>>
    PROVE  Head(q) \in S /\ Tail(q) \in Seq(S) /\ Range(q) = {Head(q)} \cup Range(Tail(q))
<1>1. /\ Len(q) \in Nat /\ Len(q) >= 1 /\ DOMAIN q = 1 .. Len(q)
      /\ Tail(q) \in Seq(S) /\ Len(Tail(q)) = Len(q) - 1 /\ DOMAIN Tail(q) = 1 .. Len(q) - 1
      /\ \A i \in 1 .. Len(q) - 1 : Tail(q)[i] = q[i + 1]
  OBVIOUS
<1>2. Head(q) = q[1] /\ Head(q) \in S
  BY <1>1
<1>3. ASSUME NEW e, e \in Range(q) PROVE e \in {Head(q)} \cup Range(Tail(q))
  <2>1. PICK i \in 1 .. Len(q) : e = q[i]
    BY <1>1, <1>3 DEF Range
  <2>2. CASE i = 1
    BY <1>2, <2>1, <2>2
  <2>3. CASE i # 1
    <3>1. i - 1 \in 1 .. Len(q) - 1 /\ Tail(q)[i - 1] = q[(i - 1) + 1] /\ (i - 1) + 1 = i
      BY <1>1, <2>3
    <3> QED
      BY <1>1, <2>1, <3>1 DEF Range
  <2> QED
    BY <2>2, <2>3
<1>4. ASSUME NEW e, e \in {Head(q)} \cup Range(Tail(q)) PROVE e \in Range(q)
  <2>1. CASE e = Head(q)
    BY <1>1, <1>2, <2>1 DEF Range
  <2>2. CASE e \in Range(Tail(q))
    <3>1. PICK i \in 1 .. Len(q) - 1 : e = Tail(q)[i]
      BY <1>1, <2>2 DEF Range
    <3>2. i + 1 \in 1 .. Len(q) /\ e = q[i + 1]
      BY <1>1, <3>1
    <3> QED
      BY <1>1, <3>2 DEF Range
  <2> QED
    BY <1>4, <2>1, <2>2
<1>5. Range(q) = {Head(q)} \cup Range(Tail(q))
  BY <1>3, <1>4
<1> QED
  BY <1>1, <1>2, <1>5

LEMMA EnqueueFacts ==
    ASSUME NEW q \in Seq(Bundles), NEW b \in Bundles
    PROVE  Enqueue(q, b) \in Seq(Bundles) /\ Range(Enqueue(q, b)) = Range(q) \cup {b}
<1>1. CASE b \in Range(q)
  BY <1>1 DEF Enqueue
<1>2. CASE b \notin Range(q)
  <2>1. Append(q, b) \in Seq(Bundles) /\ Range(Append(q, b)) = Range(q) \cup {b}
    BY AppendRange
  <2> QED
    BY <1>2, <2>1 DEF Enqueue
<1> QED
  BY <1>1, <1>2

LEMMA MqttKept ==
    ASSUME StoreInv, ReportOK, MqttOK, proto = "mqtt", MqttNext, UNCHANGED proto
    PROVE  ReportOK' /\ MqttOK'
<1>0. \A b \in Bundles : /\ Safe(b) <=> b \in acquired \cup Range(queue) \cup Range(inbox) \cup gone
                         /\ Safe(b)' <=> b \in acquired' \cup Range(queue') \cup Range(inbox') \cup gone'
  BY DEF Safe, Held, AtBroker
<1>1. ASSUME UNCHANGED <<acquired, queue, inbox, gone>> PROVE SafeStays /\ MqttOK'
  <2>1. \A b \in Bundles : Safe(b) => Safe(b)'
    BY <1>0, <1>1
  <2> QED
    BY <1>1, <2>1 DEF SafeStays, MqttOK
<1>2. queue \in Seq(Bundles) /\ inbox \in Seq(Bundles) /\ <<>> \in Seq(Bundles)
  BY DEF MqttOK
<1>3. CASE MqttStart \/ MqttDequeue \/ MqttGiveBack \/ MqttBreakOff \/ MqttLeaveLoop
  <2>1. CloQuiet /\ UNCHANGED <<acquired, queue, inbox, gone>>
    <3>1. CASE MqttStart
      BY <3>1 DEF CloQuiet, MqttStart, CloStart
    <3>2. CASE MqttDequeue \/ MqttGiveBack \/ MqttBreakOff \/ MqttLeaveLoop
      BY <3>2 DEF CloQuiet, MqttDequeue, MqttGiveBack, MqttBreakOff, MqttLeaveLoop,
                  Dequeue, GiveBack, BreakOff, LeaveLoop
    <3> QED
      BY <1>3, <3>1, <3>2
  <2> QED
    BY <1>1, <2>1, QuietReports
<1>4. CASE MqttEnd \/ MqttReconnect \/ MqttBroker \/ MqttCliStart \/ MqttCliReconnect
  <2>1. UNCHANGED <<bp, ok, batch, fpc, acquired, queue, inbox, gone>>
    BY <1>4 DEF MqttEnd, MqttReconnect, MqttBroker, MqttCliStart, MqttCliReconnect
  <2> QED
    BY <1>1, <2>1, ReportStays
<1>5. CASE MqttReconnectFails
  <2>1. /\ UNCHANGED <<ok, batch, fpc, acquired, queue, inbox, gone>>
        /\ \A b \in Bundles : bp'[b] = "sent" => bp[b] = "sent"
    BY <1>5 DEF MqttReconnectFails, XmitFailure, Settle
  <2> QED
    BY <1>1, <2>1, ReportStays
<1>6. CASE MqttPublish
  <2>1. PICK taken \in BOOLEAN, heard \in BOOLEAN :
           /\ heard => taken
           /\ IF taken THEN Publish(hand) ELSE UNCHANGED <<queue, gone>>
           /\ IF heard THEN XmitSuccess({hand}) ELSE XmitFailure({hand})
    BY <1>6 DEF MqttPublish
  <2>2. UNCHANGED <<acquired, inbox, ok, batch, fpc>> /\ mpc = "have"
    BY <1>6 DEF MqttPublish
  <2>3. hand \in Bundles
    BY <2>2 DEF StoreInv, StoreTypeOK, ThreadsOK
  <2>4. /\ queue' \in Seq(Bundles) /\ Range(queue) \subseteq Range(queue') /\ gone \subseteq gone'
        /\ taken => hand \in Range(queue') \cup gone'
    BY <1>2, <2>1, <2>3, EnqueueFacts DEF Publish
  <2>5. \A b \in Bundles : Safe(b) => Safe(b)'
    BY <1>0, <2>2, <2>4
  <2>6. \A b \in Bundles : bp'[b] = "sent" => bp[b] = "sent" \/ (heard /\ b = hand)
    BY <2>1 DEF XmitSuccess, XmitFailure, Settle
  <2>7. ASSUME NEW b \in Bundles, bp'[b] = "sent" \/ (ok' /\ b \in Range(batch')) PROVE Safe(b)'
    <3>1. CASE heard /\ b = hand
      BY <1>0, <2>1, <2>4, <3>1
    <3>2. CASE ~(heard /\ b = hand)
      <4>1. bp[b] = "sent" \/ (ok /\ b \in Range(batch))
        BY <2>2, <2>6, <2>7, <3>2
      <4> QED
        BY <2>5, <4>1 DEF ReportOK
    <3> QED
      BY <3>1, <3>2
  <2>8. ok' => fpc' = "settle"
    BY <2>2 DEF ReportOK
  <2>9. MqttOK'
    BY <1>2, <2>2, <2>4 DEF MqttOK
  <2> QED
    BY <2>7, <2>8, <2>9 DEF ReportOK
<1>7. ASSUME UNCHANGED <<bp, ok, batch, fpc>>, queue' \in Seq(Bundles), inbox' \in Seq(Bundles),
             acquired \cup Range(queue) \cup Range(inbox) \cup gone
                \subseteq acquired' \cup Range(queue') \cup Range(inbox') \cup gone'
      PROVE  ReportOK' /\ MqttOK'
  <2>1. \A b \in Bundles : Safe(b) => Safe(b)'
    BY <1>0, <1>7
  <2>2. ReportOK'
    BY <1>7, <2>1, ReportStays DEF SafeStays
  <2> QED
    BY <1>7, <2>2 DEF MqttOK
<1>8. CASE MqttArrive
  <2>1. /\ queue # <<>> /\ queue' = Tail(queue) /\ inbox' = Enqueue(inbox, Head(queue))
        /\ UNCHANGED <<bp, ok, batch, fpc, acquired, gone>>
    BY <1>8 DEF MqttArrive
  <2>2. /\ Head(queue) \in Bundles /\ queue' \in Seq(Bundles)
        /\ Range(queue) = {Head(queue)} \cup Range(queue')
    BY <1>2, <2>1, HeadFacts
  <2>3. inbox' \in Seq(Bundles) /\ Range(inbox') = Range(inbox) \cup {Head(queue)}
    BY <1>2, <2>1, <2>2, EnqueueFacts
  <2> QED
    BY <1>7, <2>1, <2>2, <2>3
<1>9. CASE MqttReceive
  <2>1. /\ inbox # <<>> /\ inbox' = Tail(inbox) /\ acquired' = acquired \cup {Head(inbox)}
        /\ UNCHANGED <<bp, ok, batch, fpc, queue, gone>>
    BY <1>9 DEF MqttReceive, Acquire
  <2>2. inbox' \in Seq(Bundles) /\ Range(inbox) = {Head(inbox)} \cup Range(inbox')
    BY <1>2, <2>1, HeadFacts
  <2>3. queue' \in Seq(Bundles) /\ Range(queue') = Range(queue)
    BY <1>2, <2>1
  <2> QED
    BY <1>7, <2>1, <2>2, <2>3
<1>10. CASE MqttReceiveFails \/ MqttCliStop
  <2>1. /\ inbox' = <<>> /\ gone' = gone \cup Range(inbox)
        /\ UNCHANGED <<bp, ok, batch, fpc, acquired, queue>>
    BY <1>10 DEF MqttReceiveFails, MqttCliStop, CliDies
  <2>2. queue' \in Seq(Bundles) /\ inbox' \in Seq(Bundles) /\ Range(queue') = Range(queue)
    BY <1>2, <2>1
  <2> QED
    BY <1>7, <2>1, <2>2
<1> QED
  BY <1>3, <1>4, <1>5, <1>6, <1>8, <1>9, <1>10 DEF MqttNext, MqttClo, MqttCli, MqttCliStep

-----------------------------------------------------------------------------
(* mail: a message that is deleted was injected. *)

\* A list on which no entry is twice injects its places into its entries.
LEMMA OnceInjective ==
    ASSUME NEW E, NEW list \in Seq(E), \A b \in E : Times(list, b) <= 1
    PROVE  IsInjective(list)
<1> SUFFICES ASSUME NEW i \in DOMAIN list, NEW j \in DOMAIN list, list[i] = list[j], i # j
             PROVE  FALSE
  BY DEF IsInjective
<1> DEFINE b == list[i]
           places == {k \in DOMAIN list : list[k] = b}
<1>1. b \in E /\ DOMAIN list = 1 .. Len(list) /\ Len(list) \in Nat
  OBVIOUS
<1>2. IsFiniteSet(places)
  <2>1. IsFiniteSet(1 .. Len(list))
    BY <1>1, FS_Interval
  <2> QED
    BY <1>1, <2>1, FS_Subset
<1>3. {i, j} \in SUBSET places
  OBVIOUS
<1>4. Cardinality({i, j}) = 2
  <2>1. IsFiniteSet({i}) /\ Cardinality({i}) = 1
    BY FS_Singleton
  <2>2. {i, j} = {i} \cup {j} /\ j \notin {i}
    OBVIOUS
  <2>3. Cardinality({i} \cup {j}) = Cardinality({i}) + 1
    BY <2>1, <2>2, FS_AddElement
  <2> QED
    BY <2>1, <2>2, <2>3
<1>5. Cardinality(places) \in Nat /\ Cardinality({i, j}) <= Cardinality(places)
  BY <1>2, <1>3, FS_Subset, FS_CardinalityType
<1>6. Cardinality(places) <= 1
  BY <1>1 DEF Times
<1> QED
  BY <1>4, <1>5, <1>6

LEMMA BatchIsOne == StoreInv => batch \in Batches
<1> SUFFICES ASSUME StoreInv PROVE batch \in Batches
  OBVIOUS
<1> DEFINE n == Len(batch)
<1>1. batch \in Seq(Bundles) /\ n \in Nat /\ batch \in [1 .. n -> Bundles] /\ DOMAIN batch = 1 .. n
  BY DEF StoreInv, StoreTypeOK
<1>2. \A b \in Bundles : Times(batch, b) <= 1
  BY StoreNumbers
<1>3. IsInjective(batch)
  BY <1>1, <1>2, OnceInjective
<1>4. IsFiniteSet(Bundles) /\ Cardinality(Bundles) \in Nat
  BY StoreAssumption, FS_CardinalityType
<1>5. IsFiniteSet(1 .. n) /\ Cardinality(1 .. n) = n
  BY <1>1, FS_Interval
<1>6. n <= Cardinality(Bundles)
  <2> SUFFICES ASSUME Cardinality(Bundles) < Cardinality(1 .. n) PROVE FALSE
    BY <1>1, <1>4, <1>5
  <2>1. \E x, y \in 1 .. n : x # y /\ batch[x] = batch[y]
    BY <1>1, <1>4, <1>5, FS_PigeonHole
  <2> QED
    BY <1>1, <1>3, <2>1 DEF IsInjective
<1>7. n \in 0 .. Cardinality(Bundles)
  BY <1>1, <1>4, <1>6
<1> QED
  BY <1>1, <1>3, <1>7 DEF Batches, SeqOf

\* What is found in a message.
LEMMA MessageFacts ==
    ASSUME MailFaithful, MailOK, NEW s \in Batches
    PROVE  /\ Range(s) \subseteq Bundles
           /\ recovered[s] \in Seq(Seq(Int))
           /\ \A b \in Range(s) : Body[b] \in Range(recovered[s])
<1>1. PICK n \in 0 .. Cardinality(Bundles) : s \in [1 .. n -> Bundles]
  BY DEF Batches, SeqOf
<1>2. n \in Nat
  BY <1>1, StoreAssumption, FS_CardinalityType
<1>3. s \in Seq(Bundles) /\ Len(s) = n /\ DOMAIN s = 1 .. n
  BY <1>1, <1>2
<1> DEFINE bodies == [i \in 1 .. Len(s) |-> Body[s[i]]]
           parsed == ParseMessage(enc, BuildMessage(enc, bodies))
<1>4. recovered[s] = parsed
  BY DEF MailOK, ConfOK, MessageOf
<1>5. <<digest, enc>> \in MailModes /\ <<digest, enc>>[2] = enc
  BY DEF MailOK, ConfOK
<1>6. parsed \in Seq(Seq(Int)) /\ Range(bodies) \subseteq Range(parsed)
  BY <1>5 DEF MailFaithful
<1>7. ASSUME NEW b \in Range(s) PROVE Body[b] \in Range(bodies)
  <2>1. PICK i \in 1 .. n : b = s[i]
    BY <1>3 DEF Range
  <2>2. i \in DOMAIN bodies /\ bodies[i] = Body[b]
    BY <1>3, <2>1
  <2> QED
    BY <2>2 DEF Range
<1>8. Range(s) \subseteq Bundles
  BY <1>1 DEF Range
<1> QED
  BY <1>4, <1>6, <1>7, <1>8

LEMMA ConfStays == ConfOK /\ UNCHANGED mailConf => ConfOK'
<1> SUFFICES ASSUME ConfOK, UNCHANGED mailConf PROVE ConfOK'
  OBVIOUS
<1>1. digest' = digest /\ enc' = enc /\ recovered' = recovered
  OBVIOUS
<1>2. [s \in Batches |-> ParseMessage(enc, MessageOf(s))]'
         = [s \in Batches |-> ParseMessage(enc, MessageOf(s))]
  BY <1>1 DEF MessageOf
<1> QED
  BY <1>1, <1>2 DEF ConfOK

LEMMA MailKept ==
    ASSUME MailFaithful, StoreInv, ReportOK, MailOK, proto = "mail", MailNext,
           UNCHANGED <<proto, mqttVars>>
    PROVE  ReportOK' /\ MailOK'
<1>0. \A b \in Bundles : /\ Safe(b) <=> b \in acquired \/ InMail(b) \/ b \in gone
                         /\ Safe(b)' <=> b \in acquired' \/ InMail(b)' \/ b \in gone'
  BY DEF Safe, Held
<1>1. ASSUME mailbox \subseteq mailbox', acquired \subseteq acquired' PROVE SafeStays
  BY <1>0, <1>1 DEF SafeStays, InMail
<1>2. ASSUME UNCHANGED <<mailConf, mailbox, mails, acquired>>, marked' \subseteq marked,
             rpc' # "inject" \/ UNCHANGED <<rpc, cur, found>>
      PROVE  MailOK'
  <2>1. ConfOK'
    BY <1>2, ConfStays DEF MailOK
  <2>2. \A m \in mailbox' : m.nbr \in marked' => Range(m.of) \subseteq acquired'
    BY <1>2 DEF MailOK
  <2>3. CASE rpc' # "inject"
    BY <1>2, <2>1, <2>2, <2>3 DEF MailOK
  <2>4. CASE UNCHANGED <<rpc, cur, found>>
    BY <1>2, <2>1, <2>2, <2>4 DEF MailOK
  <2> QED
    BY <1>2, <2>3, <2>4
<1>3. CASE MailStart \/ MailDequeue \/ MailGiveBack \/ MailLeaveLoop \/ MailTellEnd \/ MailJoined
           \/ MailBuffer \/ MailTakeBatch \/ MailFlushEnds \/ (SettleBatch /\ UNCHANGED mailVars)
  <2>1. CloQuiet /\ UNCHANGED mailVars
    BY <1>3 DEF CloQuiet, StoreInv, StoreTypeOK, MailStart, MailDequeue, MailGiveBack,
                MailLeaveLoop, MailTellEnd, MailJoined, MailBuffer, MailTakeBatch, MailFlushEnds
  <2>2. UNCHANGED <<acquired, rpc>>
    BY <2>1 DEF CloQuiet, CloStart, Dequeue, GiveBack, BreakOff, LeaveLoop, TellEnd, Joined, Buffer,
                TakeBatch, FlushEnds, SettleBatch
  <2> QED
    BY <1>1, <1>2, <2>1, <2>2, QuietReports
<1>4. CASE MailSendNow \/ MailNoMemory
  <2>1. UNCHANGED <<bp, acquired, rpc, ok, mailVars>>
    BY <1>4 DEF MailSendNow, MailNoMemory
  <2>2. fpc # "settle"
    BY <1>4 DEF MailSendNow, MailNoMemory, StoreInv, ThreadsOK
  <2>3. ~ok
    BY <2>2 DEF ReportOK
  <2>4. ReportOK'
    BY <1>1, <2>1, <2>3 DEF ReportOK, SafeStays
  <2> QED
    BY <1>2, <2>1, <2>4
<1>5. CASE MailSmtp
  <2>1. PICK taken \in BOOLEAN, heard \in BOOLEAN :
           /\ heard => taken
           /\ ok' = heard
           /\ IF taken THEN /\ mails' = mails + 1
                            /\ mailbox' = mailbox \cup {[nbr |-> mails + 1, of |-> batch]}
                       ELSE UNCHANGED smtpVars
    BY <1>5 DEF MailSmtp
  <2>2. UNCHANGED <<bp, acquired, batch, rpc, mailConf, pollVars>> /\ fpc' = "settle"
    BY <1>5 DEF MailSmtp
  <2>3. SafeStays
    BY <1>1, <2>1, <2>2
  <2>4. ASSUME NEW b \in Bundles, taken, b \in Range(batch) PROVE Safe(b)'
    <3>1. [nbr |-> mails + 1, of |-> batch] \in mailbox'
      BY <2>1, <2>4
    <3>2. InMail(b)'
      BY <2>4, <3>1 DEF InMail
    <3> QED
      BY <1>0, <3>2
  <2>5. ReportOK'
    BY <2>1, <2>2, <2>3, <2>4 DEF ReportOK, SafeStays
  <2>6. mails \in Nat /\ mails' \in Nat /\ mails <= mails'
    BY <2>1 DEF MailOK
  <2>7. ASSUME NEW m \in mailbox'
        PROVE  \/ m \in mailbox /\ m.nbr \in 1 .. mails
               \/ /\ m = [nbr |-> mails + 1, of |-> batch] /\ mails' = mails + 1
                  /\ m.nbr \notin 1 .. mails /\ m.of \in Batches
    BY <2>1, <2>6, BatchIsOne DEF MailOK
  <2>8. ASSUME NEW m \in mailbox', NEW k \in mailbox', k.nbr = m.nbr PROVE k = m
    BY <2>7, <2>8 DEF MailOK
  <2>9. \A m \in mailbox' : m.nbr \in 1 .. mails' /\ m.of \in Batches
    BY <2>6, <2>7 DEF MailOK
  <2>10. marked \subseteq 1 .. mails /\ (rpc = "inject" => cur \in 1 .. mails)
    BY DEF MailOK
  <2>11. \A m \in mailbox' : m.nbr \in marked => Range(m.of) \subseteq acquired
    BY <2>7, <2>10 DEF MailOK
  <2>12. ASSUME rpc = "inject"
         PROVE  \A m \in mailbox' : m.nbr = cur =>
                   \A b \in Range(m.of) : b \in acquired \/ Body[b] \in Range(found)
    BY <2>7, <2>10, <2>12 DEF MailOK
  <2>13. marked \subseteq 1 .. mails' /\ (rpc = "inject" => cur \in 1 .. mails')
    BY <2>6, <2>10
  <2>14. MailOK'
    BY <2>2, <2>6, <2>8, <2>9, <2>11, <2>12, <2>13, ConfStays DEF MailOK
  <2> QED
    BY <2>5, <2>14
<1>6. CASE MailSettle /\ ~(SettleBatch /\ UNCHANGED mailVars)
  <2>1. /\ ok' = FALSE /\ UNCHANGED <<acquired, rpc, mailVars>>
        /\ Settle(Range(batch), "queued") \/ (ok /\ Settle(Range(batch), "sent"))
    BY <1>6 DEF MailSettle, XmitSuccess, XmitFailure
  <2>2. \A b \in Bundles : bp'[b] = "sent" => bp[b] = "sent" \/ (ok /\ b \in Range(batch))
    BY <2>1 DEF Settle
  <2>3. MailOK'
    BY <1>2, <2>1
  <2> QED
    BY <1>1, <2>1, <2>2, <2>3, ReportStays
<1>7. ASSUME UNCHANGED cloVars, bp' = bp, SafeStays PROVE ReportOK'
  BY <1>7, ReportStays
<1>8. CASE MailCliStart \/ MailList \/ MailSkip
  <2>1. UNCHANGED <<bp, cloVars, acquired, mailConf, mailbox, mails>> /\ marked' \subseteq marked
    BY <1>8 DEF MailCliStart, MailList, MailSkip
  <2>2. rpc' # "inject" \/ UNCHANGED <<rpc, cur, found>>
    BY <1>8 DEF MailCliStart, MailList, MailSkip
  <2> QED
    BY <1>1, <1>2, <1>7, <2>1, <2>2
<1>9. CASE MailRetr
  <2>1. PICK m \in mailbox : cur' = m.nbr /\ found' = recovered[m.of]
    BY <1>9 DEF MailRetr
  <2>2. UNCHANGED <<bp, cloVars, acquired, mailConf, mailbox, mails, marked>>
    BY <1>9 DEF MailRetr
  <2>3. m.nbr \in 1 .. mails /\ m.of \in Batches /\ \A k \in mailbox : k.nbr = m.nbr => k = m
    BY DEF MailOK
  <2>4. found' \in Seq(Seq(Int)) /\ \A b \in Range(m.of) : Body[b] \in Range(found')
    BY <2>1, <2>3, MessageFacts
  <2>5. \A k \in mailbox : k.nbr = cur' =>
           \A b \in Range(k.of) : b \in acquired \/ Body[b] \in Range(found')
    BY <2>1, <2>3, <2>4
  <2>6. MailOK'
    BY <2>1, <2>2, <2>3, <2>4, <2>5, ConfStays DEF MailOK
  <2> QED
    BY <1>1, <1>7, <2>2, <2>6
<1>10. CASE MailInject
  <2>1. /\ rpc = "inject" /\ found # <<>> /\ found' = Tail(found)
        /\ acquired' = acquired \cup {b \in Bundles : Body[b] = Head(found)}
        /\ UNCHANGED <<bp, cloVars, rpc, mailConf, mailbox, mails, marked, cur>>
    BY <1>10 DEF MailInject, Acquire
  <2>2. found \in Seq(Seq(Int)) /\ cur \in 1 .. mails
    BY <2>1 DEF MailOK
  <2>3. found' \in Seq(Seq(Int)) /\ Range(found) = {Head(found)} \cup Range(found')
    BY <2>1, <2>2, HeadFacts
  <2>4. ASSUME NEW m \in mailbox, m.nbr = cur, NEW b \in Range(m.of)
        PROVE  b \in acquired' \/ Body[b] \in Range(found')
    <3>1. b \in Bundles
      <4>1. m.of \in Batches
        BY DEF MailOK
      <4> QED
        BY <4>1, MessageFacts
    <3>2. b \in acquired \/ Body[b] \in Range(found)
      BY <2>1, <2>4 DEF MailOK
    <3> QED
      BY <2>1, <2>3, <3>1, <3>2
  <2>5. \A m \in mailbox : m.nbr \in marked => Range(m.of) \subseteq acquired'
    BY <2>1 DEF MailOK
  <2>6. MailOK'
    BY <2>1, <2>2, <2>3, <2>4, <2>5, ConfStays DEF MailOK
  <2> QED
    BY <1>1, <1>7, <2>1, <2>6
<1>11. CASE MailDele
  <2>1. /\ rpc = "inject" /\ found = <<>> /\ rpc' = "next" /\ marked' \subseteq marked \cup {cur}
        /\ UNCHANGED <<bp, cloVars, acquired, mailConf, mailbox, mails>>
    BY <1>11 DEF MailDele
  <2>2. cur \in 1 .. mails
    BY <2>1 DEF MailOK
  <2>3. Range(found) = {}
    BY <2>1 DEF Range
  <2>4. \A m \in mailbox : m.nbr = cur => Range(m.of) \subseteq acquired
    BY <2>1, <2>3 DEF MailOK
  <2>5. \A m \in mailbox : m.nbr \in marked' => Range(m.of) \subseteq acquired
    BY <2>1, <2>4 DEF MailOK
  <2>6. MailOK'
    BY <2>1, <2>2, <2>5, ConfStays DEF MailOK
  <2> QED
    BY <1>1, <1>7, <2>1, <2>6
<1>12. CASE MailInjectFails \/ MailPollDone
  <2>1. /\ mailbox' = {m \in mailbox : m.nbr \notin marked} /\ marked' = {} /\ rpc' # "inject"
        /\ UNCHANGED <<bp, cloVars, acquired, mailConf, mails>>
    BY <1>12 DEF MailInjectFails, MailPollDone, Quit, CliEnds
  <2>2. ASSUME NEW b \in Bundles, Safe(b) PROVE Safe(b)'
    <3>1. CASE b \in acquired \/ b \in gone
      BY <1>0, <2>1, <3>1
    <3>2. CASE InMail(b)
      <4>1. PICK m \in mailbox : b \in Range(m.of)
        BY <3>2 DEF InMail
      <4>2. CASE m.nbr \in marked
        BY <1>0, <2>1, <4>1, <4>2 DEF MailOK
      <4>3. CASE m.nbr \notin marked
        BY <1>0, <2>1, <4>1, <4>3 DEF InMail
      <4> QED
        BY <4>2, <4>3
    <3> QED
      BY <1>0, <2>2, <3>1, <3>2
  <2>3. MailOK'
    BY <2>1, ConfStays DEF MailOK
  <2> QED
    BY <1>7, <2>1, <2>2, <2>3 DEF SafeStays
<1> QED
  BY <1>3, <1>4, <1>5, <1>6, <1>8, <1>9, <1>10, <1>11, <1>12
     DEF MailNext, MailClo, MailCli, MailCliStep, MailSettle

-----------------------------------------------------------------------------
(* The theorem. *)

\* The mail protocol needs that the parser finds again what the builder put in.
Faithful == proto = "mail" => MailFaithful
KeptWhenFaithful == Faithful => KeptInv

LEMMA KeptInit == StoresInit => KeptInv
<1> SUFFICES ASSUME StoresInit PROVE KeptInv
  OBVIOUS
<1>1. ReportOK
  BY DEF StoresInit, StoreInit, ReportOK
<1>2. SqlOK /\ MqttOK
  BY DEF StoresInit, SqlInit, MqttInit, SqlOK, MqttOK
<1>3. <<digest, enc>> \in MailModes
  BY MailAssumption DEF StoresInit, MailInit
<1>4. MailOK
  BY <1>3 DEF StoresInit, StoreInit, MailInit, MailOK, ConfOK
<1> QED
  BY <1>1, <1>2, <1>4 DEF KeptInv

LEMMA KeptStep ==
    ASSUME StoreInv, KeptWhenFaithful, [StoresNext]_storeVars
    PROVE  KeptWhenFaithful'
<1> SUFFICES ASSUME Faithful' PROVE KeptInv'
  BY DEF KeptWhenFaithful
<1>1. proto' = proto
  BY DEF StoresNext, ViaMail, ViaMysql, ViaMqtt, storeVars
<1>2. Faithful /\ KeptInv
  BY <1>1 DEF Faithful, KeptWhenFaithful
<1>3. CASE ViaMail(MailNext)
  BY <1>2, <1>3, MailKept DEF KeptInv, Faithful, ViaMail
<1>4. CASE ViaMysql(SqlNext)
  BY <1>2, <1>4, SqlKept DEF KeptInv, ViaMysql
<1>5. CASE ViaMqtt(MqttNext)
  BY <1>2, <1>5, MqttKept DEF KeptInv, ViaMqtt
<1>6. CASE UNCHANGED storeVars
  <2>1. SafeStays /\ ReportOK'
    BY <1>2, <1>6 DEF storeVars, KeptInv, SafeStays, Safe, Held, InMail, InTable, AtBroker, ReportOK
  <2>2. (SqlOK => SqlOK') /\ (MqttOK => MqttOK')
    BY <1>6 DEF storeVars, SqlOK, MqttOK
  <2>3. MailOK => MailOK'
    <3>1. ConfOK => ConfOK'
      BY <1>6, ConfStays DEF storeVars
    <3> QED
      BY <1>6, <3>1 DEF storeVars, MailOK
  <2> QED
    BY <1>1, <1>2, <2>1, <2>2, <2>3 DEF KeptInv
<1> QED
  BY <1>3, <1>4, <1>5, <1>6 DEF StoresNext

\* No message is deleted, no row committed away and no session of the broker's
\* thrown away before what it carries has been injected, whatever is skipped,
\* retried or rolled back: for any bundles, batches, faults and configurations, of
\* mail those in which the parser finds what the builder put into a message.
THEOREM StoreKeepsUntilAcquired ==
    StoresSpec => []((proto = "mail" => MailFaithful) => KeptUntilAcquired)
<1>1. KeptWhenFaithful => ((proto = "mail" => MailFaithful) => KeptUntilAcquired)
  BY DEF KeptWhenFaithful, Faithful, KeptInv, ReportOK, KeptUntilAcquired, Safe
<1>2. StoresInit => KeptWhenFaithful
  BY KeptInit DEF KeptWhenFaithful
<1>3. StoreInv /\ KeptWhenFaithful /\ [StoresNext]_storeVars => KeptWhenFaithful'
  BY KeptStep
<1> QED
  BY <1>1, <1>2, <1>3, StoreInvariant, PTL DEF StoresSpec

=============================================================================
