---------------------------- MODULE TcpclTxProofs ----------------------------
(***************************************************************************)
(* Proofs about the transmit side of a session (TcpclTx), for any set of   *)
(* bundles, any finite set of sender threads, any bundle lengths, any      *)
(* window and any peer.                                                    *)
(***************************************************************************)
EXTENDS TcpclTx, ListFacts, FiniteSetTheorems

USE DEF bpVars, senderVars, termVars, listVars, flagVars, xferVars,
        reportVars, xmitVars

-----------------------------------------------------------------------------
(* The peer may name any transfer and any length, so that the lemmas below  *)
(* serve whichever peer the session has: the arbitrary one of TcpclTx, and  *)
(* the other node of TcpclSession.                                          *)

AnyRecv == \/ RecvOpen
           \/ \E id \in Nat, len \in Nat : RecvAck(id, len)
           \/ \E id \in Nat, done \in BOOLEAN : RecvRefuse(id, done)
           \/ \E reply \in BOOLEAN : RecvSessTerm(reply)
           \/ RecvReport \/ RecvNext \/ RecvMsgReject \/ RecvTermStop
           \/ RecvLeaveLoop \/ RecvConnFail \/ RecvTxStop \/ RecvJoin \/ RecvDone

AnyNext == (\E s \in Senders : Sender(s)) \/ Xmit \/ AnyRecv \/ Clock \/ ConnFail

LEMMA AnyPeer == [Next]_vars => [AnyNext]_vars
<1>1. PeerLens \subseteq Nat /\ 0 .. MaxTransfers \subseteq Nat
  BY PeerAssumption
<1>2. Recv => AnyRecv
  BY <1>1 DEF Recv, AnyRecv
<1> QED
  BY <1>2 DEF Next, AnyNext

-----------------------------------------------------------------------------
(* Type correctness.  TypeOK is not inductive by itself: what a sender or   *)
(* the transmit thread puts on a list is a bundle only because the thread   *)
(* holds one at that point of its code.                                     *)

HandsOK ==
    /\ \A s \in Senders :
          /\ spc[s] \in {"dequeued", "claimed", "room"} => sBundle[s] # NoBundle
          /\ spc[s] = "idle" => sBundle[s] = NoBundle
    /\ xpc \in {"write", "check", "letgo"} => xBundle # NoBundle

TypeInv == TypeOK /\ HandsOK

LEMMA TypeInvInit == Init => TypeInv
<1> SUFFICES ASSUME Init PROVE TypeInv
  OBVIOUS
<1>1. TypeOK
  <2> USE DEF Init
  <2>1. outduct \in SUBSET Bundles /\ spc \in [Senders -> SenderPcs]
      BY DEF SenderPcs
  <2>2. sBundle \in [Senders -> Bundles \cup {NoBundle}]
      OBVIOUS
  <2>3. txQueue \in Seq(Bundles) /\ txWindow \in Seq(Bundles)
      OBVIOUS
  <2>4. transferId \in [Bundles -> Nat] 
      OBVIOUS
  <2>5. finished \in [Reporters -> SUBSET Bundles]
      OBVIOUS
  <2>6. termSent \in BOOLEAN /\ failed \in BOOLEAN /\ txStopped \in BOOLEAN /\ xFailed \in BOOLEAN
     OBVIOUS
  <2>7. txSenders \in Int /\ txCount \in Int /\ txBytes \in Int /\ nextTxId \in Nat /\ txAckedLen \in Nat /\ xOff \in Nat
     OBVIOUS
  <2>8. rpc \in RecvPcs /\ cpc \in ClockPcs /\ xpc \in XmitPcs /\ state \in {"ESTABLISHED", "ENDING"}
     BY DEF RecvPcs, ClockPcs, XmitPcs
  <2>9. /\ sent \in SUBSET Bundles /\ inFlight \in SUBSET Bundles
        /\ acked \in SUBSET Bundles /\ refused \in SUBSET Bundles
        /\ completed \in SUBSET Bundles /\ whole \in SUBSET Bundles
     OBVIOUS
  <2>10. xBundle \in Bundles \cup {NoBundle}
     OBVIOUS
  <2> HIDE DEF Init
  <2> QED
  BY <2>1, <2>2, <2>3, <2>4, <2>5, <2>6, <2>7, <2>8, <2>9, <2>10 DEF TypeOK
<1>2. HandsOK
  BY DEF Init, HandsOK
<1> QED
  BY <1>1, <1>2 DEF TypeInv

\* Retiring a transfer keeps the types of what it changes (tcpv4TxFinished).
LEMMA TxFinishedType ==
    ASSUME TypeOK, NEW i \in 1 .. Len(txWindow), NEW t \in Reporters,
           NEW len \in Nat, TxFinished(i, t, len)
    PROVE  /\ txQueue' \in Seq(Bundles) /\ txWindow' \in Seq(Bundles)
           /\ txCount' \in Int /\ txBytes' \in Int /\ txAckedLen' \in Nat
           /\ finished' \in [Reporters -> SUBSET Bundles]
<1>1. CASE UNCHANGED <<txWindow, txCount, txBytes, finished>> /\ txAckedLen' = len
  BY <1>1 DEF TypeOK, TxFinished
<1>2. CASE Unlink(i, t) /\ txAckedLen' = AckedLenAfterUnlink(i, len)
  <2>1. txWindow[i] \in Bundles /\ Length[txWindow[i]] \in Nat
    BY LengthAssumption DEF TypeOK
  <2>2. txWindow' \in Seq(Bundles)
    BY <1>2, RemoveAtFacts DEF Unlink, TypeOK
  <2> QED
    BY <1>2, <2>1, <2>2
       DEF Unlink, TypeOK, TxFinished, BytesAfterUnlink, AckedLenAfterUnlink
<1> QED
  BY <1>1, <1>2 DEF TxFinished

\* So does reporting one (tx.done).
LEMMA ReportType ==
    ASSUME TypeOK, NEW t \in Reporters, NEW b \in finished[t], Report(t, b)
    PROVE  /\ outduct' \in SUBSET Bundles /\ sent' \in SUBSET Bundles
           /\ finished' \in [Reporters -> SUBSET Bundles]
  BY DEF TypeOK, Report

LEMMA TypeInvSender ==
    ASSUME TypeInv, NEW s \in Senders, Sender(s)
    PROVE  TypeInv'
<1> USE DEF TypeInv, TypeOK, HandsOK, SenderPcs
<1>1. CASE SenderDequeue(s)
  BY <1>1, BundlesAssumption DEF SenderDequeue
<1>2. CASE SenderClaim(s)
  BY <1>2 DEF SenderClaim
<1>3. CASE SenderDecline(s)
  BY <1>3 DEF SenderDecline
<1>4. CASE QueuePrepare(s)
  BY <1>4 DEF QueuePrepare
<1>5. CASE QueueXfer(s)
  BY <1>5, LengthAssumption DEF QueueXfer
<1>6. CASE QueueRefuse(s)
  BY <1>6 DEF QueueRefuse
<1>7. CASE SenderRelease(s)
  BY <1>7 DEF SenderRelease, Returned
<1> QED
  BY <1>1, <1>2, <1>3, <1>4, <1>5, <1>6, <1>7 DEF Sender

LEMMA TypeInvXmit ==
    ASSUME TypeInv, Xmit
    PROVE  TypeInv'
<1> USE DEF TypeInv, TypeOK, HandsOK, XmitPcs
<1>1. CASE XmitStart
  BY <1>1 DEF XmitStart
<1>2. CASE XmitTake
  BY <1>2, BundlesAssumption DEF XmitTake, IdAfterTake
<1>3. CASE XmitExit
  BY <1>3 DEF XmitExit
<1>4. CASE XmitWrite
  BY <1>4 DEF XmitWrite
<1>5. CASE XmitWriteFails
  BY <1>5 DEF XmitWriteFails
<1>6. CASE XmitCheck
  BY <1>6 DEF XmitCheck
<1>7. CASE XmitLetGo
  <2>1. PICK i \in 1 .. Len(txWindow) : TxFinished(i, "xmit", txAckedLen)
    BY <1>7 DEF XmitLetGo
  <2>2. /\ txQueue' \in Seq(Bundles) /\ txWindow' \in Seq(Bundles)
        /\ txCount' \in Int /\ txBytes' \in Int /\ txAckedLen' \in Nat
        /\ finished' \in [Reporters -> SUBSET Bundles]
    BY <2>1, TxFinishedType DEF Reporters
  <2> QED
    BY <1>7, <2>2 DEF XmitLetGo, RefusedOnLetGo
<1>8. CASE XmitReport
  BY <1>8, ReportType DEF XmitReport, Reporters
<1>9. CASE XmitNext
  BY <1>9 DEF XmitNext
<1> QED
  BY <1>1, <1>2, <1>3, <1>4, <1>5, <1>6, <1>7, <1>8, <1>9 DEF Xmit

LEMMA TypeInvRecv ==
    ASSUME TypeInv, AnyRecv
    PROVE  TypeInv'
<1> USE DEF TypeInv, TypeOK, HandsOK, RecvPcs
<1>1. CASE RecvOpen
  BY <1>1 DEF RecvOpen, XmitPcs
<1>2. ASSUME NEW id \in Nat, NEW len \in Nat,
             RecvAck(id, len)
      PROVE  TypeInv'
  <2> DEFINE b == Head(txWindow)
  <2>1. /\ 1 \in 1 .. Len(txWindow) /\ b \in Bundles /\ len \in Nat
    BY <1>2 DEF RecvAck, AckNamesHead
  <2>2. /\ txQueue' \in Seq(Bundles) /\ txWindow' \in Seq(Bundles)
        /\ txCount' \in Int /\ txBytes' \in Int /\ txAckedLen' \in Nat
        /\ finished' \in [Reporters -> SUBSET Bundles]
    <3>1. CASE TxFinished(1, "recv", txAckedLen)
      BY <2>1, <3>1, TxFinishedType DEF Reporters
    <3>2. CASE TxFinished(1, "recv", len)
      BY <2>1, <3>2, TxFinishedType DEF Reporters
    <3>3. CASE /\ txAckedLen' = len
               /\ UNCHANGED <<txQueue, txWindow, txCount, txBytes, finished>>
      BY <2>1, <3>3
    <3> QED
      BY <1>2, <3>1, <3>2, <3>3 DEF RecvAck
  <2> QED
    BY <1>2, <2>1, <2>2 DEF RecvAck
<1>3. ASSUME NEW id \in Nat, NEW done \in BOOLEAN,
             RecvRefuse(id, done)
      PROVE  TypeInv'
  <2>1. PICK i \in 1 .. Len(txWindow) :
           /\ TxFinished(i, "recv", txAckedLen)
           /\ refused' = refused \cup {txWindow[i]}
           /\ \/ completed' = completed \cup {txWindow[i]}
              \/ completed' = completed
           /\ UNCHANGED <<inFlight, acked>>
    BY <1>3 DEF RecvRefuse
  <2>2. /\ txQueue' \in Seq(Bundles) /\ txWindow' \in Seq(Bundles)
        /\ txCount' \in Int /\ txBytes' \in Int /\ txAckedLen' \in Nat
        /\ finished' \in [Reporters -> SUBSET Bundles]
    BY <2>1, TxFinishedType DEF Reporters
  <2>3. txWindow[i] \in Bundles
    OBVIOUS
  <2> QED
    BY <1>3, <2>1, <2>2, <2>3 DEF RecvRefuse
<1>4. ASSUME NEW reply \in BOOLEAN, RecvSessTerm(reply) PROVE TypeInv'
  BY <1>4 DEF RecvSessTerm
<1>5. CASE RecvReport
  BY <1>5, ReportType DEF RecvReport, Reporters
<1>6. CASE RecvNext
  BY <1>6 DEF RecvNext
<1>7. CASE RecvMsgReject
  BY <1>7 DEF RecvMsgReject
<1>8. CASE RecvTermStop
  BY <1>8 DEF RecvTermStop
<1>9. CASE RecvLeaveLoop
  BY <1>9 DEF RecvLeaveLoop
<1>10. CASE RecvConnFail
  BY <1>10 DEF RecvConnFail
<1>11. CASE RecvTxStop
  BY <1>11 DEF RecvTxStop
<1>12. CASE RecvJoin
  BY <1>12 DEF RecvJoin
<1>13. CASE RecvDone
  BY <1>13 DEF RecvDone
<1> QED
  BY <1>1, <1>2, <1>3, <1>4, <1>5, <1>6, <1>7, <1>8, <1>9, <1>10, <1>11,
     <1>12, <1>13 DEF AnyRecv

LEMMA TypeInvClock ==
    ASSUME TypeInv, Clock \/ ConnFail
    PROVE  TypeInv'
<1> USE DEF TypeInv, TypeOK, HandsOK, ClockPcs
<1>1. CASE ClockIdleTerm
  BY <1>1 DEF ClockIdleTerm
<1>2. CASE ClockTxStop
  BY <1>2 DEF ClockTxStop
<1>3. CASE ClockReap
  BY <1>3 DEF ClockReap
<1>4. CASE TxDrain
  <2>1. Drained \subseteq Bundles
    BY DEF Drained, ToSet
  <2>2. finished' \in [Reporters -> SUBSET Bundles]
    BY <1>4, <2>1 DEF TxDrain, Reporters
  <2>3. txQueue' \in Seq(Bundles) /\ txWindow' \in Seq(Bundles)
    BY <1>4 DEF TxDrain
  <2> QED
    BY <1>4, <2>2, <2>3 DEF TxDrain
<1>5. CASE DrainReport
  BY <1>5, ReportType DEF DrainReport, Reporters
<1>6. CASE FreeConn
  BY <1>6 DEF FreeConn
<1>7. CASE ConnFail
  BY <1>7 DEF ConnFail
<1> QED
  BY <1>1, <1>2, <1>3, <1>4, <1>5, <1>6, <1>7 DEF Clock

LEMMA TypeInvStep == TypeInv /\ [AnyNext]_vars => TypeInv'
<1>1. TypeInv /\ UNCHANGED vars => TypeInv'
  BY DEF TypeInv, TypeOK, HandsOK, vars
<1> QED
  BY <1>1, TypeInvSender, TypeInvXmit, TypeInvRecv, TypeInvClock DEF AnyNext

\* The lists, the counters, the flags and the threads' places keep their types
\* in every state the session can reach.
THEOREM TypeCorrect == Spec => []TypeOK
<1>1. TypeInv => TypeOK
  BY DEF TypeInv
<1> QED
  BY TypeInvInit, TypeInvStep, <1>1, AnyPeer, PTL DEF Spec

LEMMA TypeInvAlways == Spec => []TypeInv
  BY TypeInvInit, TypeInvStep, AnyPeer, PTL DEF Spec

-----------------------------------------------------------------------------
(* The life of the session.  txSenders counts the senders that hold the     *)
(* session; the receiver thread is past its join only when the transmit     *)
(* thread is gone; and once receiverDone is set the session is failed, so   *)
(* that findConn offers it to nobody.  Together these make reapConns safe.  *)

SendersCounted == txSenders = Cardinality(Holders)

JoinedBeforeDone ==
    /\ rpc \in {"end", "done"} => XmitGone
    /\ rpc = "done" => failed

LifeInv == SendersCounted /\ JoinedBeforeDone /\ NoUseAfterFree

LEMMA HoldersFinite == IsFiniteSet(Holders) /\ Cardinality(Holders) \in Nat
  BY SendersAssumption, FS_Subset, FS_CardinalityType DEF Holders

LEMMA LifeInvInit == Init => LifeInv
<1> SUFFICES ASSUME Init PROVE LifeInv
  OBVIOUS
<1>1. Holders = {}
  BY DEF Init, Holders
<1> QED
  BY <1>1, FS_EmptySet
     DEF Init, LifeInv, SendersCounted, JoinedBeforeDone, NoUseAfterFree

LEMMA LifeInvSender ==
    ASSUME TypeInv, LifeInv, NEW s \in Senders, Sender(s)
    PROVE  LifeInv'
<1> USE DEF LifeInv, JoinedBeforeDone, NoUseAfterFree, XmitGone, TypeInv, TypeOK
<1>1. CASE SenderClaim(s)
  <2>1. Holders' = Holders \cup {s} /\ s \notin Holders
    BY <1>1 DEF SenderClaim, Holders
  <2>2. SendersCounted'
    BY <1>1, <2>1, HoldersFinite, FS_AddElement DEF SenderClaim, SendersCounted
  <2>3. rpc # "done"
    BY <1>1 DEF SenderClaim, Claimable
  <2> QED
    BY <1>1, <2>2, <2>3 DEF SenderClaim
<1>2. CASE SenderRelease(s)
  <2>1. Holders' = Holders \ {s} /\ s \in Holders
    BY <1>2 DEF SenderRelease, Holders
  <2>2. SendersCounted'
    BY <1>2, <2>1, HoldersFinite, FS_RemoveElement
       DEF SenderRelease, SendersCounted
  <2> QED
    BY <1>2, <2>1, <2>2 DEF SenderRelease
<1>3. CASE \/ SenderDequeue(s) \/ SenderDecline(s) \/ QueuePrepare(s)
           \/ QueueXfer(s) \/ QueueRefuse(s)
  <2>1. Holders' = Holders
    BY <1>3 DEF SenderDequeue, SenderDecline, QueuePrepare, QueueXfer,
                QueueRefuse, Holders
  <2> QED
    BY <1>3, <2>1 DEF SenderDequeue, SenderDecline, QueuePrepare, QueueXfer,
                      QueueRefuse, SendersCounted
<1> QED
  BY <1>1, <1>2, <1>3 DEF Sender

LEMMA LifeInvXmit ==
    ASSUME LifeInv, Xmit
    PROVE  LifeInv'
<1>1. UNCHANGED <<spc, txSenders, rpc, cpc>>
  BY DEF Xmit, XmitStart, XmitTake, XmitExit, XmitWrite, XmitWriteFails,
         XmitCheck, XmitLetGo, XmitReport, XmitNext
<1>2. ~XmitGone /\ (failed => failed')
  BY DEF Xmit, XmitStart, XmitTake, XmitExit, XmitWrite, XmitWriteFails,
         XmitCheck, XmitLetGo, XmitReport, XmitNext, XmitGone
<1> QED
  BY <1>1, <1>2
     DEF LifeInv, SendersCounted, JoinedBeforeDone, NoUseAfterFree, Holders

LEMMA LifeInvRecv ==
    ASSUME LifeInv, AnyRecv
    PROVE  LifeInv'
<1>1. UNCHANGED <<spc, txSenders, cpc>> /\ rpc # "done"
  BY DEF AnyRecv, RecvOpen, RecvAck, RecvRefuse, RecvSessTerm, RecvReport,
         RecvNext, RecvMsgReject, RecvTermStop, RecvLeaveLoop, RecvConnFail,
         RecvTxStop, RecvJoin, RecvDone
<1>2. Holders' = Holders
  BY <1>1 DEF Holders
<1>3. JoinedBeforeDone'
  BY DEF LifeInv, JoinedBeforeDone, XmitGone, AnyRecv, RecvOpen, RecvAck,
         RecvRefuse, RecvSessTerm, RecvReport, RecvNext, RecvMsgReject,
         RecvTermStop, RecvLeaveLoop, RecvConnFail, RecvTxStop, RecvJoin,
         RecvDone
<1> QED
  BY <1>1, <1>2, <1>3 DEF LifeInv, SendersCounted, NoUseAfterFree

LEMMA LifeInvClock ==
    ASSUME LifeInv, Clock \/ ConnFail
    PROVE  LifeInv'
<1>1. UNCHANGED <<spc, txSenders, rpc, xpc>> /\ (failed => failed')
  BY DEF Clock, ClockIdleTerm, ClockTxStop, ClockReap, TxDrain, DrainReport,
         FreeConn, ConnFail
<1>2. Holders' = Holders
  BY <1>1 DEF Holders
<1>3. CASE ClockReap
  <2>1. Holders = {}
    BY <1>3, HoldersFinite, FS_EmptySet
       DEF ClockReap, Reapable, LifeInv, SendersCounted
  <2> QED
    BY <1>1, <1>2, <1>3, <2>1
       DEF ClockReap, Reapable, LifeInv, SendersCounted, JoinedBeforeDone,
           NoUseAfterFree, XmitGone
<1>4. CASE ~ClockReap
  <2>1. cpc' \in {"drain", "report", "freed"} =>
            cpc \in {"drain", "report", "freed"}
    BY <1>4 DEF Clock, ClockIdleTerm, ClockTxStop, TxDrain, DrainReport,
                FreeConn, ConnFail
  <2> QED
    BY <1>1, <1>2, <2>1
       DEF LifeInv, SendersCounted, JoinedBeforeDone, NoUseAfterFree, XmitGone
<1> QED
  BY <1>3, <1>4

LEMMA LifeInvStep == TypeInv /\ LifeInv /\ [AnyNext]_vars => LifeInv'
<1>1. LifeInv /\ UNCHANGED vars => LifeInv'
  BY DEF LifeInv, SendersCounted, JoinedBeforeDone, NoUseAfterFree, XmitGone,
         Holders, vars
<1> QED
  BY <1>1, LifeInvSender, LifeInvXmit, LifeInvRecv, LifeInvClock DEF AnyNext

\* reapConns and freeConn never take a session from under a sender, its
\* transmit thread or its receiver thread.
THEOREM SessionOutlivesThreads == Spec => []NoUseAfterFree
<1>1. LifeInv => NoUseAfterFree
  BY DEF LifeInv
<1> QED
  BY TypeInvAlways, LifeInvInit, LifeInvStep, <1>1, AnyPeer, PTL DEF Spec

-----------------------------------------------------------------------------
(* The transmit window. *)

LEMMA WindowBoundedStep ==
    TypeInv /\ WindowBounded /\ [AnyNext]_vars => WindowBounded'
<1> SUFFICES ASSUME TypeInv, WindowBounded, [AnyNext]_vars PROVE WindowBounded'
  OBVIOUS
<1>1. TxWindow \in Nat /\ TxWindowBytes \in Nat /\ txCount \in Int
      /\ txBytes \in Int
  BY WindowAssumption DEF TypeInv, TypeOK
\* Retiring a transfer only gives room back.
<1>2. ASSUME NEW i \in 1 .. Len(txWindow), NEW t, NEW len,
             TxFinished(i, t, len)
      PROVE  WindowBounded'
  <2>1. Length[txWindow[i]] \in Nat
    BY LengthAssumption DEF TypeInv, TypeOK
  <2> QED
    BY <1>1, <1>2, <2>1
       DEF TxFinished, Unlink, BytesAfterUnlink, WindowBounded
<1>3. ASSUME NEW s \in Senders, QueueXfer(s) PROVE WindowBounded'
  <2>1. Length[sBundle[s]] \in Nat
    BY <1>3, LengthAssumption
       DEF QueueXfer, TypeInv, TypeOK, HandsOK
  <2> QED
    BY <1>1, <1>3, <2>1 DEF QueueXfer, Room, WindowBounded
<1>4. CASE XmitLetGo
  BY <1>2, <1>4 DEF XmitLetGo
<1>5. ASSUME NEW id, NEW len, RecvAck(id, len) PROVE WindowBounded'
  <2>1. 1 \in 1 .. Len(txWindow)
    BY <1>5 DEF RecvAck, AckNamesHead, TypeInv, TypeOK
  <2>2. \/ \E n : TxFinished(1, "recv", n)
        \/ UNCHANGED <<txCount, txBytes>>
    BY <1>5 DEF RecvAck
  <2> QED
    BY <1>2, <2>1, <2>2 DEF WindowBounded
<1>6. ASSUME NEW id, NEW done, RecvRefuse(id, done) PROVE WindowBounded'
  BY <1>2, <1>6 DEF RecvRefuse
<1>7. CASE TxDrain
  BY <1>1, <1>7 DEF TxDrain, WindowBounded
<1>8. CASE UNCHANGED <<txCount, txBytes>>
  BY <1>8 DEF WindowBounded
<1> QED
  BY <1>3, <1>4, <1>5, <1>6, <1>7, <1>8
     DEF AnyNext, vars, Sender, SenderDequeue, SenderClaim, SenderDecline,
         QueuePrepare, QueueRefuse, SenderRelease, Xmit, XmitStart, XmitTake,
         XmitExit, XmitWrite, XmitWriteFails, XmitCheck, XmitReport, XmitNext,
         AnyRecv, RecvOpen, RecvSessTerm, RecvReport, RecvNext, RecvMsgReject,
         RecvTermStop, RecvLeaveLoop, RecvConnFail, RecvTxStop, RecvJoin,
         RecvDone, Clock, ClockIdleTerm, ClockTxStop, ClockReap, DrainReport,
         FreeConn, ConnFail

\* However many senders share a session, the configured window holds.
THEOREM WindowRespected == Spec => []WindowBounded
<1>1. Init => WindowBounded
  BY WindowAssumption DEF Init, WindowBounded
<1> QED
  BY TypeInvAlways, WindowBoundedStep, <1>1, AnyPeer, PTL DEF Spec

-----------------------------------------------------------------------------
(* The lists as sets. *)

LEMMA AppendFacts ==
    ASSUME NEW S, NEW seq \in Seq(S), NEW e \in S
    PROVE  /\ ToSet(Append(seq, e)) = ToSet(seq) \cup {e}
           /\ IsInjective(seq) /\ e \notin ToSet(seq) =>
                  IsInjective(Append(seq, e))
<1>1. /\ Append(seq, e) \in Seq(S) /\ Len(Append(seq, e)) = Len(seq) + 1
      /\ \A i \in 1 .. Len(seq) : Append(seq, e)[i] = seq[i]
      /\ Append(seq, e)[Len(seq) + 1] = e
  OBVIOUS
<1>2. DOMAIN Append(seq, e) = 1 .. Len(seq) + 1 /\ DOMAIN seq = 1 .. Len(seq)
  BY <1>1
<1>3. Len(seq) \in Nat
  OBVIOUS
<1>4. ToSet(Append(seq, e)) = ToSet(seq) \cup {e}
  BY <1>1, <1>2, <1>3 DEF ToSet
<1>5. ASSUME IsInjective(seq), e \notin ToSet(seq)
      PROVE  IsInjective(Append(seq, e))
  BY <1>1, <1>2, <1>3, <1>5 DEF ToSet, IsInjective
<1> QED
  BY <1>4, <1>5

LEMMA RemoveAtSet ==
    ASSUME NEW S, NEW seq \in Seq(S), NEW i \in 1 .. Len(seq), IsInjective(seq)
    PROVE  /\ seq[i] \in ToSet(seq)
           /\ ToSet(RemoveAt(seq, i)) = ToSet(seq) \ {seq[i]}
           /\ IsInjective(RemoveAt(seq, i))
<1> DEFINE r == RemoveAt(seq, i)
<1>0. Len(seq) \in Nat
  OBVIOUS
<1>1. /\ r \in Seq(S) /\ Len(r) = Len(seq) - 1
      /\ \A j \in 1 .. Len(seq) - 1 : r[j] = seq[IF j < i THEN j ELSE j + 1]
  BY RemoveAtFacts, Zenon
<1>2. DOMAIN r = 1 .. Len(seq) - 1 /\ DOMAIN seq = 1 .. Len(seq)
  BY <1>1
<1> HIDE DEF r
<1>3. ASSUME NEW x \in ToSet(r) PROVE x \in ToSet(seq) \ {seq[i]}
  <2>1. PICK j \in 1 .. Len(seq) - 1 : x = r[j]
    BY <1>2, <1>3 DEF ToSet
  <2> DEFINE k == IF j < i THEN j ELSE j + 1
  <2>2. k \in 1 .. Len(seq) /\ k # i /\ x = seq[k]
    BY <1>0, <1>1, <2>1
  <2> QED
    BY <1>2, <2>2 DEF ToSet, IsInjective
<1>4. ASSUME NEW x \in ToSet(seq) \ {seq[i]} PROVE x \in ToSet(r)
  <2>1. PICK j \in 1 .. Len(seq) : x = seq[j] /\ j # i
    BY <1>2, <1>4 DEF ToSet
  <2>2. CASE j < i
    BY <1>0, <1>1, <1>2, <2>1, <2>2 DEF ToSet
  <2>3. CASE j > i
    <3>1. j - 1 \in 1 .. Len(seq) - 1 /\ r[j - 1] = seq[j]
      BY <1>0, <1>1, <2>3
    <3> QED
      BY <1>2, <2>1, <3>1 DEF ToSet
  <2> QED
    BY <2>1, <2>2, <2>3
<1>5. IsInjective(r)
  <2>1. SUFFICES ASSUME NEW j \in 1 .. Len(seq) - 1, NEW k \in 1 .. Len(seq) - 1, r[j] = r[k]
                 PROVE  j = k
    BY <1>2 DEF IsInjective
  <2>2. PICK a : a = IF j < i THEN j ELSE j + 1
    OBVIOUS
  <2>3. PICK b : b = IF k < i THEN k ELSE k + 1
    OBVIOUS
  <2>4. /\ a \in 1 .. Len(seq) /\ b \in 1 .. Len(seq)
        /\ r[j] = seq[a] /\ r[k] = seq[b]
    BY <1>0, <1>1, <2>2, <2>3
  <2>5. a = b
    BY <1>2, <2>1, <2>4 DEF IsInjective
  <2> QED
    BY <1>0, <2>2, <2>3, <2>5
<1>6. seq[i] \in ToSet(seq)
  BY <1>2 DEF ToSet
<1> QED
  BY <1>3, <1>4, <1>5, <1>6 DEF r

LEMMA TailFacts ==
    ASSUME NEW S, NEW seq \in Seq(S), seq # <<>>, IsInjective(seq)
    PROVE  /\ Head(seq) \in ToSet(seq)
           /\ ToSet(Tail(seq)) = ToSet(seq) \ {Head(seq)}
           /\ IsInjective(Tail(seq))
<1>1. /\ Tail(seq) \in Seq(S) /\ Len(Tail(seq)) = Len(seq) - 1
      /\ \A j \in 1 .. Len(seq) - 1 : Tail(seq)[j] = seq[j + 1]
      /\ Head(seq) = seq[1] /\ Len(seq) \in Nat \ {0}
  OBVIOUS
<1>2. DOMAIN Tail(seq) = 1 .. Len(seq) - 1 /\ DOMAIN seq = 1 .. Len(seq)
  BY <1>1
<1>3. ASSUME NEW x \in ToSet(Tail(seq)) PROVE x \in ToSet(seq) \ {Head(seq)}
  <2>1. PICK j \in 1 .. Len(seq) - 1 : x = Tail(seq)[j]
    BY <1>2, <1>3 DEF ToSet
  <2> QED
    BY <1>1, <1>2, <2>1 DEF ToSet, IsInjective
<1>4. ASSUME NEW x \in ToSet(seq) \ {Head(seq)} PROVE x \in ToSet(Tail(seq))
  <2>1. PICK j \in 1 .. Len(seq) : x = seq[j] /\ j # 1
    BY <1>1, <1>2, <1>4 DEF ToSet
  <2>2. j - 1 \in 1 .. Len(seq) - 1 /\ Tail(seq)[j - 1] = seq[j]
    BY <1>1, <2>1
  <2> QED
    BY <1>2, <2>1, <2>2 DEF ToSet
<1>5. IsInjective(Tail(seq))
  BY <1>1, <1>2 DEF IsInjective
<1>6. Head(seq) \in ToSet(seq)
  BY <1>1, <1>2 DEF ToSet
<1> QED
  BY <1>3, <1>4, <1>5, <1>6
-----------------------------------------------------------------------------
(* How the places a bundle can be in change. *)

\* A sender lets go of its bundle.
LEMMA HandEmptied ==
    ASSUME TypeOK, OneSender, NEW s \in Senders,
           sBundle' = [sBundle EXCEPT ![s] = NoBundle]
    PROVE  InHand' = InHand \ {sBundle[s]} /\ OneSender'
<1>1. \A r \in Senders :
         sBundle'[r] = IF r = s THEN NoBundle ELSE sBundle[r]
  BY DEF TypeOK
<1>2. OneSender'
  BY <1>1 DEF OneSender
<1>3. InHand' = InHand \ {sBundle[s]}
  BY <1>1 DEF InHand, OneSender
<1> QED
  BY <1>2, <1>3

\* A sender takes up a bundle.
LEMMA HandFilled ==
    ASSUME TypeOK, OneSender, NEW s \in Senders, NEW b \in Bundles,
           sBundle[s] = NoBundle, b \notin InHand,
           sBundle' = [sBundle EXCEPT ![s] = b]
    PROVE  InHand' = InHand \cup {b} /\ OneSender'
<1>1. \A r \in Senders : sBundle'[r] = IF r = s THEN b ELSE sBundle[r]
  BY DEF TypeOK
<1>2. b # NoBundle
  BY BundlesAssumption
<1>3. OneSender'
  BY <1>1, <1>2 DEF OneSender, InHand
<1>4. InHand' = InHand \cup {b}
  BY <1>1, <1>2 DEF InHand
<1> QED
  BY <1>3, <1>4

\* A thread has transfers to report.
LEMMA FinishedGains ==
    ASSUME TypeOK, OneReporter, NEW t \in Reporters, NEW B,
           B \cap Finished = {},
           finished' = [finished EXCEPT ![t] = @ \cup B]
    PROVE  Finished' = Finished \cup B /\ OneReporter'
<1>1. \A r \in Reporters :
         finished'[r] = IF r = t THEN finished[t] \cup B ELSE finished[r]
  BY DEF TypeOK
<1>2. OneReporter'
  BY <1>1 DEF OneReporter, Finished
<1>3. Finished' = Finished \cup B
  BY <1>1 DEF Finished
<1> QED
  BY <1>2, <1>3

\* A thread has reported one.
LEMMA FinishedLoses ==
    ASSUME TypeOK, OneReporter, NEW t \in Reporters, NEW b \in finished[t],
           finished' = [finished EXCEPT ![t] = @ \ {b}]
    PROVE  Finished' = Finished \ {b} /\ OneReporter' /\ b \in Finished
<1>1. \A r \in Reporters :
         finished'[r] = IF r = t THEN finished[t] \ {b} ELSE finished[r]
  BY DEF TypeOK
<1>2. OneReporter'
  BY <1>1 DEF OneReporter
<1>3. Finished' = Finished \ {b}
  BY <1>1 DEF Finished, OneReporter
<1>4. b \in Finished
  BY DEF Finished
<1> QED
  BY <1>2, <1>3, <1>4

-----------------------------------------------------------------------------
(* Custody is inductive, given the types: each action moves a bundle from   *)
(* one place to another, or moves none.                                     *)

LEMMA CustodyInit == Init => Custody
<1> SUFFICES ASSUME Init PROVE Custody
  OBVIOUS
<1>1. InHand = {} /\ Finished = {} /\ OneSender /\ OneReporter
  BY DEF Init, InHand, Finished, OneSender, OneReporter
<1>2. /\ ToSet(txQueue) = {} /\ ToSet(txWindow) = {}
      /\ IsInjective(txQueue) /\ IsInjective(txWindow)
  BY DEF Init, ToSet, IsInjective
<1> QED
  BY <1>1, <1>2 DEF Init, Custody, SomeHolder, OneHolder, Listed

\* A step that leaves every place alone.
LEMMA CustodyUnmoved ==
    ASSUME Custody,
           UNCHANGED <<outduct, sent, sBundle, txQueue, txWindow, finished>>
    PROVE  Custody'
  BY DEF Custody, SomeHolder, OneHolder, OneSender, OneReporter, InHand,
         Listed, Finished

\* tcpv4TxFinished moves the transfer from the window to the thread's report.
LEMMA CustodyTxFinished ==
    ASSUME TypeInv, Custody, NEW i \in 1 .. Len(txWindow),
           NEW t \in Reporters, NEW len, TxFinished(i, t, len),
           UNCHANGED <<outduct, sent, sBundle>>
    PROVE  Custody'
<1>1. CASE UNCHANGED <<txWindow, finished>>
  BY <1>1, CustodyUnmoved DEF TxFinished
<1>2. CASE Unlink(i, t)
  <2> DEFINE b == txWindow[i]
  <2>1. /\ b \in ToSet(txWindow)
        /\ ToSet(txWindow') = ToSet(txWindow) \ {b}
        /\ IsInjective(txWindow')
    BY <1>2, RemoveAtSet DEF Unlink, TypeInv, TypeOK, Custody, OneHolder
  <2>2. {b} \cap Finished = {}
    BY <2>1 DEF Custody, OneHolder, Listed
  <2>3. finished' = [finished EXCEPT ![t] = @ \cup {b}]
    BY <1>2 DEF Unlink
  <2>4. OneReporter
    BY DEF Custody, OneHolder
  <2>5. Finished' = Finished \cup {b} /\ OneReporter'
    BY <2>2, <2>3, <2>4, FinishedGains DEF TypeInv
  <2>6. InHand' = InHand /\ OneSender' /\ txQueue' = txQueue
    BY DEF InHand, OneSender, Custody, OneHolder, TxFinished
  <2> HIDE DEF b
  <2> QED
    BY <2>1, <2>5, <2>6 DEF Custody, SomeHolder, OneHolder, Listed
<1> QED
  BY <1>1, <1>2 DEF TxFinished

\* tx.done moves it on to BP.
LEMMA CustodyReport ==
    ASSUME TypeInv, Custody, NEW t \in Reporters, NEW b \in finished[t],
           Report(t, b), UNCHANGED <<sBundle, txQueue, txWindow>>
    PROVE  Custody'
<1>1. OneReporter /\ finished' = [finished EXCEPT ![t] = @ \ {b}]
  BY DEF Custody, OneHolder, Report
<1>2. Finished' = Finished \ {b} /\ OneReporter' /\ b \in Finished
  BY <1>1, FinishedLoses DEF TypeInv
<1>3. /\ InHand' = InHand /\ OneSender'
      /\ ToSet(txQueue') = ToSet(txQueue) /\ ToSet(txWindow') = ToSet(txWindow)
      /\ IsInjective(txQueue') /\ IsInjective(txWindow')
  BY DEF InHand, OneSender, Custody, OneHolder
<1>4. \/ sent' = sent \cup {b} /\ outduct' = outduct
      \/ outduct' = outduct \cup {b} /\ sent' = sent
  BY DEF Report
<1> QED
  BY <1>2, <1>3, <1>4 DEF Custody, SomeHolder, OneHolder, Listed

LEMMA CustodySender ==
    ASSUME TypeInv, Custody, NEW s \in Senders, Sender(s)
    PROVE  Custody'
<1>0. TypeOK /\ OneSender /\ OneReporter
  BY DEF TypeInv, Custody, OneHolder
<1>1. CASE SenderDequeue(s)
  <2>1. PICK b \in outduct : /\ sBundle' = [sBundle EXCEPT ![s] = b]
                             /\ outduct' = outduct \ {b}
    BY <1>1 DEF SenderDequeue
  <2>2. b \in Bundles /\ b \notin InHand /\ sBundle[s] = NoBundle
    BY <1>0, <1>1 DEF TypeOK, TypeInv, HandsOK, SenderDequeue, Custody, OneHolder
  <2>3. InHand' = InHand \cup {b} /\ OneSender'
    BY <1>0, <2>1, <2>2, HandFilled
  <2>4. /\ Finished' = Finished /\ OneReporter' /\ UNCHANGED <<sent, txQueue, txWindow>>
    BY <1>0, <1>1 DEF SenderDequeue, Finished, OneReporter
  <2> QED
    BY <2>1, <2>3, <2>4 DEF Custody, SomeHolder, OneHolder, Listed
<1>2. CASE SenderDecline(s) \/ SenderRelease(s)
  <2>1. /\ sBundle' = [sBundle EXCEPT ![s] = NoBundle]
        /\ outduct' = outduct \cup ({sBundle[s]} \ {NoBundle})
        /\ UNCHANGED <<sent, txQueue, txWindow, finished>>
    BY <1>2 DEF SenderDecline, SenderRelease, Returned, TypeInv, HandsOK
  <2>2. InHand' = InHand \ {sBundle[s]} /\ OneSender'
    BY <1>0, <2>1, HandEmptied
  <2>3. sBundle[s] \in InHand \cup {NoBundle}
    BY DEF InHand
  <2>4. Finished' = Finished /\ OneReporter'
    BY <1>0, <2>1 DEF Finished, OneReporter
  <2> QED
    BY <2>1, <2>2, <2>3, <2>4, BundlesAssumption
       DEF Custody, SomeHolder, OneHolder, Listed
<1>3. CASE QueueXfer(s)
  <2> DEFINE b == sBundle[s]
  <2>1. b \in Bundles /\ b \in InHand
    BY <1>0, <1>3 DEF QueueXfer, TypeInv, TypeOK, HandsOK, InHand
  <2>2. InHand' = InHand \ {b} /\ OneSender'
    BY <1>0, <1>3, HandEmptied DEF QueueXfer
  <2>3. ToSet(txQueue') = ToSet(txQueue) \cup {b} /\ IsInjective(txQueue')
    BY <1>0, <1>3, <2>1, AppendFacts
       DEF QueueXfer, TypeOK, Custody, OneHolder, Listed
  <2>4. /\ Finished' = Finished /\ OneReporter'
        /\ UNCHANGED <<outduct, sent, txWindow>>
    BY <1>0, <1>3 DEF QueueXfer, Finished, OneReporter
  <2> HIDE DEF b
  <2> QED
    BY <2>1, <2>2, <2>3, <2>4 DEF Custody, SomeHolder, OneHolder, Listed
<1>4. CASE SenderClaim(s) \/ QueuePrepare(s) \/ QueueRefuse(s)
  BY <1>4, CustodyUnmoved DEF SenderClaim, QueuePrepare, QueueRefuse
<1> QED
  BY <1>1, <1>2, <1>3, <1>4 DEF Sender

LEMMA CustodyXmit ==
    ASSUME TypeInv, Custody, Xmit
    PROVE  Custody'
<1>1. CASE XmitTake
  <2> DEFINE b == Head(txQueue)
  <2>1. txQueue \in Seq(Bundles) /\ txWindow \in Seq(Bundles)
    BY DEF TypeInv, TypeOK
  <2>2. /\ b \in ToSet(txQueue) /\ ToSet(txQueue') = ToSet(txQueue) \ {b}
        /\ IsInjective(txQueue')
    BY <1>1, <2>1, TailFacts DEF XmitTake, Custody, OneHolder
  <2>3. b \in Bundles /\ b \notin ToSet(txWindow)
    BY <1>1, <2>1, <2>2 DEF XmitTake, Custody, OneHolder
  <2>4. ToSet(txWindow') = ToSet(txWindow) \cup {b} /\ IsInjective(txWindow')
    BY <1>1, <2>1, <2>3, AppendFacts DEF XmitTake, Custody, OneHolder
  <2>5. /\ InHand' = InHand /\ OneSender' /\ Finished' = Finished
        /\ OneReporter' /\ UNCHANGED <<outduct, sent>>
    BY <1>1 DEF XmitTake, InHand, OneSender, Finished, OneReporter, Custody,
                OneHolder
  <2> HIDE DEF b
  <2> QED
    BY <2>2, <2>3, <2>4, <2>5 DEF Custody, SomeHolder, OneHolder, Listed
<1>2. CASE XmitLetGo
  BY <1>2, CustodyTxFinished DEF XmitLetGo, Reporters
<1>3. CASE XmitReport
  BY <1>3, CustodyReport DEF XmitReport, Reporters
<1>4. CASE \/ XmitStart \/ XmitExit \/ XmitWrite \/ XmitWriteFails
           \/ XmitCheck \/ XmitNext
  BY <1>4, CustodyUnmoved
     DEF XmitStart, XmitExit, XmitWrite, XmitWriteFails, XmitCheck, XmitNext
<1> QED
  BY <1>1, <1>2, <1>3, <1>4 DEF Xmit

LEMMA CustodyRecv ==
    ASSUME TypeInv, Custody, AnyRecv
    PROVE  Custody'
<1>1. ASSUME NEW id, NEW len, RecvAck(id, len) PROVE Custody'
  <2>1. 1 \in 1 .. Len(txWindow)
    BY <1>1 DEF RecvAck, AckNamesHead, TypeInv, TypeOK
  <2>2. \/ \E n : TxFinished(1, "recv", n)
        \/ UNCHANGED <<txQueue, txWindow, finished>>
    BY <1>1 DEF RecvAck
  <2>3. UNCHANGED <<outduct, sent, sBundle>>
    BY <1>1 DEF RecvAck
  <2> QED
    BY <2>1, <2>2, <2>3, CustodyTxFinished, CustodyUnmoved DEF Reporters
<1>2. ASSUME NEW id, NEW done, RecvRefuse(id, done) PROVE Custody'
  BY <1>2, CustodyTxFinished DEF RecvRefuse, Reporters
<1>3. CASE RecvReport
  BY <1>3, CustodyReport DEF RecvReport, Reporters
<1>4. CASE UNCHANGED <<outduct, sent, sBundle, txQueue, txWindow, finished>>
  BY <1>4, CustodyUnmoved
<1> QED
  BY <1>1, <1>2, <1>3, <1>4
     DEF AnyRecv, RecvOpen, RecvSessTerm, RecvNext, RecvMsgReject, RecvTermStop,
         RecvLeaveLoop, RecvConnFail, RecvTxStop, RecvJoin, RecvDone

LEMMA CustodyClock ==
    ASSUME TypeInv, Custody, Clock \/ ConnFail
    PROVE  Custody'
<1>1. CASE TxDrain
  <2>1. Drained \cap Finished = {}
    BY DEF Drained, Custody, OneHolder, Listed
  <2>2. TypeOK /\ OneReporter /\ "clock" \in Reporters
    BY DEF TypeInv, Custody, OneHolder, Reporters
  <2>3. finished' = [finished EXCEPT !["clock"] = @ \cup Drained]
    BY <1>1 DEF TxDrain
  <2>4. Finished' = Finished \cup Listed /\ OneReporter'
    BY <2>1, <2>2, <2>3, FinishedGains DEF Drained, Listed
  <2>5. /\ ToSet(txQueue') = {} /\ ToSet(txWindow') = {}
        /\ IsInjective(txQueue') /\ IsInjective(txWindow')
    BY <1>1 DEF TxDrain, ToSet, IsInjective
  <2>6. InHand' = InHand /\ OneSender' /\ UNCHANGED <<outduct, sent>>
    BY <1>1 DEF TxDrain, InHand, OneSender, Custody, OneHolder
  <2> QED
    BY <2>4, <2>5, <2>6 DEF Custody, SomeHolder, OneHolder, Listed
<1>2. CASE DrainReport
  BY <1>2, CustodyReport DEF DrainReport, Reporters
<1>3. CASE UNCHANGED <<outduct, sent, sBundle, txQueue, txWindow, finished>>
  BY <1>3, CustodyUnmoved
<1> QED
  BY <1>1, <1>2, <1>3
     DEF Clock, ClockIdleTerm, ClockTxStop, ClockReap, FreeConn, ConnFail

LEMMA CustodyStep == TypeInv /\ Custody /\ [AnyNext]_vars => Custody'
<1>1. Custody /\ UNCHANGED vars => Custody'
  BY CustodyUnmoved DEF vars
<1> QED
  BY <1>1, CustodySender, CustodyXmit, CustodyRecv, CustodyClock DEF AnyNext

\* Whatever the threads and the peer do, in whatever order, every bundle has
\* exactly one holder: none is lost, and none is reported to BP twice.
THEOREM CustodyKept == Spec => []Custody
  BY TypeInvAlways, CustodyInit, CustodyStep, AnyPeer, PTL DEF Spec

\* The facts proved so far, as one hypothesis.
Base == TypeInv /\ LifeInv /\ Custody

LEMMA BaseAlways == Spec => []Base
  BY TypeInvAlways, LifeInvInit, LifeInvStep, CustodyInit, CustodyStep, AnyPeer, PTL
     DEF Spec, Base

-----------------------------------------------------------------------------
(* The counter of transfers agrees with the lists. *)

LEMMA CountAgreesStep == Base /\ CountAgrees /\ [AnyNext]_vars => CountAgrees'
<1> SUFFICES ASSUME Base, CountAgrees, [AnyNext]_vars PROVE CountAgrees'
  OBVIOUS
<1>1. /\ txQueue \in Seq(Bundles) /\ txWindow \in Seq(Bundles)
      /\ txCount \in Int
  BY DEF Base, TypeInv, TypeOK
<1>2. ASSUME NEW i \in 1 .. Len(txWindow), NEW t, NEW len,
             TxFinished(i, t, len)
      PROVE  CountAgrees'
  <2>1. Len(RemoveAt(txWindow, i)) = Len(txWindow) - 1
    BY <1>1, RemoveAtFacts, Zenon
  <2> QED
    BY <1>1, <1>2, <2>1 DEF TxFinished, Unlink, CountAgrees
<1>3. ASSUME NEW s \in Senders, QueueXfer(s) PROVE CountAgrees'
  <2>1. sBundle[s] \in Bundles
    BY <1>3 DEF QueueXfer, Base, TypeInv, TypeOK, HandsOK
  <2> QED
    BY <1>1, <1>3, <2>1 DEF QueueXfer, CountAgrees
<1>4. CASE XmitTake
  <2>1. Head(txQueue) \in Bundles
    BY <1>1, <1>4 DEF XmitTake
  <2> QED
    BY <1>1, <1>4, <2>1 DEF XmitTake, CountAgrees
<1>5. CASE XmitLetGo
  BY <1>2, <1>5 DEF XmitLetGo
<1>6. ASSUME NEW id, NEW len, RecvAck(id, len) PROVE CountAgrees'
  <2>1. 1 \in 1 .. Len(txWindow)
    BY <1>1, <1>6 DEF RecvAck, AckNamesHead
  <2>2. \/ \E n : TxFinished(1, "recv", n)
        \/ UNCHANGED <<txQueue, txWindow, txCount>>
    BY <1>6 DEF RecvAck
  <2> QED
    BY <1>2, <2>1, <2>2 DEF CountAgrees
<1>7. ASSUME NEW id, NEW done, RecvRefuse(id, done) PROVE CountAgrees'
  BY <1>2, <1>7 DEF RecvRefuse
<1>8. CASE TxDrain
  BY <1>8 DEF TxDrain, CountAgrees
<1>9. CASE UNCHANGED <<txQueue, txWindow, txCount>>
  BY <1>9 DEF CountAgrees
<1> QED
  BY <1>3, <1>4, <1>5, <1>6, <1>7, <1>8, <1>9
     DEF AnyNext, vars, Sender, SenderDequeue, SenderClaim, SenderDecline,
         QueuePrepare, QueueRefuse, SenderRelease, Xmit, XmitStart, XmitExit,
         XmitWrite, XmitWriteFails, XmitCheck, XmitReport, XmitNext, AnyRecv,
         RecvOpen, RecvSessTerm, RecvReport, RecvNext, RecvMsgReject,
         RecvTermStop, RecvLeaveLoop, RecvConnFail, RecvTxStop, RecvJoin,
         RecvDone, Clock, ClockIdleTerm, ClockTxStop, ClockReap, DrainReport,
         FreeConn, ConnFail

\* No path takes a transfer off a list without giving its place back.
THEOREM CountIsLists == Spec => []CountAgrees
<1>1. Init => CountAgrees
  BY DEF Init, CountAgrees
<1> QED
  BY BaseAlways, CountAgreesStep, <1>1, AnyPeer, PTL DEF Spec

-----------------------------------------------------------------------------
(* The hand-over of a transfer between the two threads.  The window is      *)
(* strictly ordered by transfer id, the transfer being written is its last, *)
(* and whatever else is on it has no outcome yet.                           *)

OpenFirst == rpc = "open" => xpc = "none"

WindowInv == XmitHoldsTail /\ WindowInOrder /\ NoStranded /\ OpenFirst

LEMMA WindowInvInit == Init => WindowInv
<1> SUFFICES ASSUME Init PROVE WindowInv
  OBVIOUS
<1>1. XmitHoldsTail /\ OpenFirst
  BY DEF Init, XmitHoldsTail, OpenFirst
<1>2. WindowInOrder /\ NoStranded
  BY DEF Init, WindowInOrder, NoStranded, ToSet
<1> QED
  BY <1>1, <1>2 DEF WindowInv

\* A step that touches neither the window nor what the threads know of it; an
\* outcome may be taken back from a bundle that is not on it.
LEMMA WindowUntouched ==
    ASSUME WindowInv, UNCHANGED <<txWindow, transferId, nextTxId, inFlight>>,
           acked' \subseteq acked, refused' \subseteq refused,
           OpenFirst',
           xpc \in {"write", "check", "letgo"} =>
               xpc' \in {"write", "check", "letgo"} /\ xBundle' = xBundle,
           xpc' \in {"write", "check", "letgo"} =>
               xpc \in {"write", "check", "letgo"}
    PROVE  WindowInv'
<1>1. XmitHoldsTail'
  BY DEF WindowInv, XmitHoldsTail
<1>2. WindowInOrder' /\ NoStranded'
  BY DEF WindowInv, WindowInOrder, NoStranded
<1> QED
  BY <1>1, <1>2 DEF WindowInv

\* Retiring a transfer keeps the others in order and none of them stranded.
LEMMA WindowTxFinished ==
    ASSUME Base, WindowInOrder, NEW i \in 1 .. Len(txWindow), NEW t, NEW len,
           TxFinished(i, t, len), UNCHANGED <<transferId, nextTxId>>,
           \A b \in ToSet(txWindow) \ {txWindow[i]} :
               b \in acked' \cup refused' => b \in inFlight'
    PROVE  /\ WindowInOrder' /\ NoStranded'
           /\ \/ txWindow' = txWindow
              \/ /\ txWindow' = RemoveAt(txWindow, i)
                 /\ txWindow[i] \notin inFlight'
<1>0. /\ txWindow \in Seq(Bundles) /\ IsInjective(txWindow)
      /\ transferId \in [Bundles -> Nat] /\ nextTxId \in Nat
  BY DEF Base, TypeInv, TypeOK, Custody, OneHolder
<1>1. CASE /\ UNCHANGED txWindow
           /\ ~Retirable(txWindow[i], inFlight', acked', refused')
  <2>1. NoStranded'
    BY <1>1 DEF Retirable, NoStranded
  <2>2. WindowInOrder'
    BY <1>1 DEF WindowInOrder
  <2> QED
    BY <1>1, <2>1, <2>2
<1>2. CASE /\ txWindow' = RemoveAt(txWindow, i)
           /\ Retirable(txWindow[i], inFlight', acked', refused')
  <2>1. ToSet(txWindow') = ToSet(txWindow) \ {txWindow[i]}
    BY <1>0, <1>2, RemoveAtSet
  <2>2. NoStranded'
    BY <2>1 DEF NoStranded
  <2>3. /\ Len(RemoveAt(txWindow, i)) = Len(txWindow) - 1
        /\ \A j \in 1 .. Len(txWindow) - 1 :
              RemoveAt(txWindow, i)[j] = txWindow[IF j < i THEN j ELSE j + 1]
    BY <1>0, RemoveAtFacts, Zenon
  <2>4. Len(txWindow) \in Nat
    BY <1>0
  <2>5. WindowInOrder'
    <3> DEFINE old(j) == IF j < i THEN j ELSE j + 1
    <3>1. ASSUME NEW j \in 1 .. Len(txWindow')
          PROVE  /\ old(j) \in 1 .. Len(txWindow)
                 /\ txWindow'[j] = txWindow[old(j)]
      BY <1>2, <2>3, <2>4
    <3>2. \A j, k \in 1 .. Len(txWindow') : j < k => old(j) < old(k)
      BY <1>2, <2>3, <2>4
    <3> HIDE DEF old
    <3> QED
      BY <3>1, <3>2 DEF WindowInOrder
  <2> QED
    BY <1>2, <2>2, <2>5 DEF Retirable
<1> QED
  BY <1>1, <1>2 DEF TxFinished, Unlink
\* Taking out a transfer other than the last leaves the last one last.
LEMMA RemoveAtLast ==
    ASSUME NEW S, NEW seq \in Seq(S), NEW i \in 1 .. Len(seq),
           seq[i] # Last(seq)
    PROVE  /\ RemoveAt(seq, i) # <<>>
           /\ Last(RemoveAt(seq, i)) = Last(seq)
<1>1. /\ RemoveAt(seq, i) \in Seq(S)
      /\ Len(RemoveAt(seq, i)) = Len(seq) - 1
      /\ \A j \in 1 .. Len(seq) - 1 :
            RemoveAt(seq, i)[j] = seq[IF j < i THEN j ELSE j + 1]
  BY RemoveAtFacts, Zenon
<1>2. Len(seq) \in Nat /\ i < Len(seq)
  BY DEF Last
<1>3. RemoveAt(seq, i)[Len(seq) - 1] = seq[Len(seq)]
  BY <1>1, <1>2
<1> QED
  BY <1>1, <1>2, <1>3 DEF Last

\* The receiver thread retires no transfer the transmit thread still holds.
LEMMA WindowRecvFinished ==
    ASSUME Base, WindowInv, NEW i \in 1 .. Len(txWindow), NEW t, NEW len,
           TxFinished(i, t, len),
           UNCHANGED <<transferId, nextTxId, inFlight, xpc, xBundle>>,
           acked' \subseteq acked \cup {txWindow[i]},
           refused' \subseteq refused \cup {txWindow[i]}, OpenFirst'
    PROVE  WindowInv'
<1>0. txWindow \in Seq(Bundles)
  BY DEF Base, TypeInv, TypeOK
<1>1. \A b \in ToSet(txWindow) \ {txWindow[i]} :
         b \in acked' \cup refused' => b \in inFlight'
  BY DEF WindowInv, NoStranded
<1>2. /\ WindowInOrder' /\ NoStranded'
      /\ \/ txWindow' = txWindow
         \/ /\ txWindow' = RemoveAt(txWindow, i)
            /\ txWindow[i] \notin inFlight'
  BY <1>1, WindowTxFinished DEF WindowInv
<1>3. XmitHoldsTail'
  <2>1. CASE txWindow' = txWindow
    BY <2>1 DEF WindowInv, XmitHoldsTail
  <2>2. CASE /\ txWindow' = RemoveAt(txWindow, i)
             /\ txWindow[i] \notin inFlight'
    <3>1. xpc \in {"write", "check", "letgo"} => txWindow[i] # Last(txWindow)
      BY <2>2 DEF WindowInv, XmitHoldsTail
    <3>2. xpc \in {"write", "check", "letgo"} =>
              txWindow' # <<>> /\ Last(txWindow') = Last(txWindow)
      BY <1>0, <2>2, <3>1, RemoveAtLast
    <3> QED
      BY <3>2 DEF WindowInv, XmitHoldsTail
  <2> QED
    BY <1>2, <2>1, <2>2
<1> QED
  BY <1>2, <1>3 DEF WindowInv

LEMMA WindowInvXmit ==
    ASSUME Base, WindowInv, Xmit
    PROVE  WindowInv'
<1>0. /\ txQueue \in Seq(Bundles) /\ txWindow \in Seq(Bundles)
      /\ transferId \in [Bundles -> Nat] /\ nextTxId \in Nat
      /\ xpc # "none" /\ rpc' = rpc
  BY DEF Base, TypeInv, TypeOK, Xmit, XmitStart, XmitTake, XmitExit, XmitWrite,
         XmitWriteFails, XmitCheck, XmitLetGo, XmitReport, XmitNext
<1>00. OpenFirst'
  BY <1>0 DEF WindowInv, OpenFirst
<1>1. CASE XmitTake
  <2> DEFINE b == Head(txQueue)
  <2>1. b \in Bundles /\ b \in ToSet(txQueue)
    BY <1>0, <1>1 DEF XmitTake, ToSet
  <2>2. b \notin ToSet(txWindow)
    BY <2>1 DEF Base, Custody, OneHolder
  <2>3. inFlight' = {b} /\ xBundle' = b /\ xpc' = "write"
    BY <1>1 DEF XmitTake, WindowInv, XmitHoldsTail
  <2>4. /\ txWindow' = Append(txWindow, b)
        /\ transferId' = [transferId EXCEPT ![b] = nextTxId]
        /\ nextTxId' = nextTxId + 1
        /\ UNCHANGED <<acked, refused>>
    BY <1>1 DEF XmitTake, IdAfterTake
  <2> HIDE DEF b
  <2>5. /\ Len(txWindow') = Len(txWindow) + 1 /\ Len(txWindow) \in Nat
        /\ \A j \in 1 .. Len(txWindow) : txWindow'[j] = txWindow[j]
        /\ txWindow'[Len(txWindow) + 1] = b
    BY <1>0, <2>1, <2>4
  <2>6. XmitHoldsTail'
    <3>1. txWindow' # <<>> /\ Last(txWindow') = b
      BY <1>0, <2>1, <2>4, <2>5 DEF Last
    <3> QED
      BY <2>3, <3>1 DEF XmitHoldsTail
  <2>7. WindowInOrder'
    <3>1. \A j \in 1 .. Len(txWindow) : txWindow[j] \in Bundles \ {b}
      BY <1>0, <2>2 DEF ToSet
    <3>2. \A j \in 1 .. Len(txWindow) :
             transferId'[txWindow'[j]] = transferId[txWindow[j]]
      BY <1>0, <2>4, <2>5, <3>1
    <3>3. transferId'[txWindow'[Len(txWindow) + 1]] = nextTxId
      BY <1>0, <2>1, <2>4, <2>5
    <3>4. \A j \in 1 .. Len(txWindow) : transferId[txWindow[j]] \in Nat
      BY <1>0, <3>1
    <3>5. nextTxId' = nextTxId + 1 /\ nextTxId \in Nat /\ Len(txWindow) \in Nat
          /\ Len(txWindow') = Len(txWindow) + 1
      BY <1>0, <2>4, <2>5
    <3>6. /\ \A i, j \in 1 .. Len(txWindow) :
                i < j => transferId[txWindow[i]] < transferId[txWindow[j]]
          /\ \A i \in 1 .. Len(txWindow) : transferId[txWindow[i]] < nextTxId
      BY DEF WindowInv, WindowInOrder
    <3>7. \A i \in 1 .. Len(txWindow') : transferId'[txWindow'[i]] < nextTxId'
      BY <3>2, <3>3, <3>4, <3>5, <3>6
    <3>8. ASSUME NEW i \in 1 .. Len(txWindow'), NEW j \in 1 .. Len(txWindow'), i < j
          PROVE  transferId'[txWindow'[i]] < transferId'[txWindow'[j]]
      <4>1. i \in 1 .. Len(txWindow)
        BY <3>5, <3>8
      <4>2. CASE j \in 1 .. Len(txWindow)
        BY <3>2, <3>6, <3>8, <4>1, <4>2
      <4>3. CASE j = Len(txWindow) + 1
        BY <3>2, <3>3, <3>6, <4>1, <4>3
      <4> QED
        BY <3>5, <3>8, <4>2, <4>3
    <3> QED
      BY <3>7, <3>8 DEF WindowInOrder
  <2>8. NoStranded'
    <3>1. ToSet(txWindow') = ToSet(txWindow) \cup {b}
      BY <1>0, <2>1, <2>4, AppendFacts
    <3>2. inFlight = {}
      BY <1>1 DEF XmitTake, WindowInv, XmitHoldsTail
    <3> QED
      BY <2>3, <2>4, <3>1, <3>2 DEF WindowInv, NoStranded
  <2> QED
    BY <1>00, <2>6, <2>7, <2>8 DEF WindowInv
<1>2. CASE XmitLetGo
  <2>1. PICK i \in 1 .. Len(txWindow) :
           txWindow[i] = xBundle /\ TxFinished(i, "xmit", txAckedLen)
    BY <1>2 DEF XmitLetGo
  <2>2. inFlight = {xBundle} /\ inFlight' = {} /\ xpc' = "report"
    BY <1>2 DEF XmitLetGo, WindowInv, XmitHoldsTail
  <2>3. /\ UNCHANGED <<acked, transferId, nextTxId>>
        /\ refused' \subseteq refused \cup {xBundle}
    BY <1>2 DEF XmitLetGo, RefusedOnLetGo
  <2>4. \A b \in ToSet(txWindow) \ {txWindow[i]} :
           b \in acked' \cup refused' => b \in inFlight'
    BY <2>1, <2>2, <2>3 DEF WindowInv, NoStranded
  <2>5. WindowInOrder' /\ NoStranded'
    BY <2>1, <2>3, <2>4, WindowTxFinished DEF WindowInv
  <2>6. XmitHoldsTail'
    BY <2>2 DEF XmitHoldsTail
  <2> QED
    BY <1>00, <2>5, <2>6 DEF WindowInv
<1>3. CASE \/ XmitStart \/ XmitExit \/ XmitWrite \/ XmitWriteFails
           \/ XmitCheck \/ XmitReport \/ XmitNext
  <2>1. UNCHANGED <<txWindow, transferId, nextTxId, inFlight, acked, refused>>
    BY <1>3 DEF XmitStart, XmitExit, XmitWrite, XmitWriteFails, XmitCheck,
                XmitReport, XmitNext
  <2>2. /\ xpc \in {"write", "check", "letgo"} =>
               xpc' \in {"write", "check", "letgo"} /\ xBundle' = xBundle
        /\ xpc' \in {"write", "check", "letgo"} =>
               xpc \in {"write", "check", "letgo"}
    BY <1>3 DEF XmitStart, XmitExit, XmitWrite, XmitWriteFails, XmitCheck,
                XmitReport, XmitNext
  <2> QED
    BY <1>00, <2>1, <2>2, WindowUntouched
<1> QED
  BY <1>1, <1>2, <1>3 DEF Xmit

LEMMA WindowInvRecv ==
    ASSUME Base, WindowInv, AnyRecv
    PROVE  WindowInv'
<1>00. OpenFirst'
  BY DEF WindowInv, OpenFirst, AnyRecv, RecvOpen, RecvAck, RecvRefuse,
         RecvSessTerm, RecvReport, RecvNext, RecvMsgReject, RecvTermStop,
         RecvLeaveLoop, RecvConnFail, RecvTxStop, RecvJoin, RecvDone
<1>1. ASSUME NEW id, NEW len, RecvAck(id, len) PROVE WindowInv'
  <2>1. 1 \in 1 .. Len(txWindow) /\ Head(txWindow) = txWindow[1]
    BY <1>1 DEF RecvAck, AckNamesHead, Base, TypeInv, TypeOK
  <2>2. /\ UNCHANGED <<transferId, nextTxId, inFlight, xpc, xBundle>>
        /\ refused' \subseteq refused \cup {txWindow[1]}
        /\ acked' \subseteq acked \cup {txWindow[1]}
        /\ \/ \E n : TxFinished(1, "recv", n)
           \/ UNCHANGED <<txWindow, acked, refused>>
    BY <1>1, <2>1 DEF RecvAck
  <2>3. CASE \E n : TxFinished(1, "recv", n)
    BY <1>00, <2>1, <2>2, <2>3, WindowRecvFinished
  <2>4. CASE UNCHANGED <<txWindow, acked, refused>>
    BY <1>00, <2>2, <2>4, WindowUntouched
  <2> QED
    BY <2>2, <2>3, <2>4
<1>2. ASSUME NEW id, NEW done, RecvRefuse(id, done) PROVE WindowInv'
  <2>1. PICK i \in 1 .. Len(txWindow) :
           /\ refused' = refused \cup {txWindow[i]}
           /\ UNCHANGED <<inFlight, acked>>
           /\ TxFinished(i, "recv", txAckedLen)
    BY <1>2 DEF RecvRefuse
  <2>2. UNCHANGED <<transferId, nextTxId, xpc, xBundle>>
    BY <1>2 DEF RecvRefuse
  <2> QED
    BY <1>00, <2>1, <2>2, WindowRecvFinished
<1>3. CASE RecvOpen
  <2>1. xpc = "none" /\ xpc' \in {"none", "start"}
    BY <1>3 DEF RecvOpen, WindowInv, OpenFirst
  <2>2. UNCHANGED <<txWindow, transferId, nextTxId, inFlight, acked, refused>>
    BY <1>3 DEF RecvOpen
  <2> QED
    BY <1>00, <2>1, <2>2, WindowUntouched
<1>4. CASE UNCHANGED <<txWindow, transferId, nextTxId, inFlight, acked,
                       refused, xpc, xBundle>>
  BY <1>00, <1>4, WindowUntouched
<1> QED
  BY <1>1, <1>2, <1>3, <1>4
     DEF AnyRecv, RecvSessTerm, RecvReport, RecvNext, RecvMsgReject, RecvTermStop,
         RecvLeaveLoop, RecvConnFail, RecvTxStop, RecvJoin, RecvDone

LEMMA WindowInvStep == Base /\ WindowInv /\ [AnyNext]_vars => WindowInv'
<1> SUFFICES ASSUME Base, WindowInv, [AnyNext]_vars PROVE WindowInv'
  OBVIOUS
<1>1. CASE TxDrain
  <2>1. XmitGone
    BY <1>1 DEF TxDrain, Base, LifeInv, NoUseAfterFree
  <2>2. txWindow' = <<>> /\ inFlight' = {} /\ UNCHANGED <<xpc, rpc>>
    BY <1>1, <2>1 DEF TxDrain, XmitGone, WindowInv, XmitHoldsTail
  <2>3. XmitHoldsTail' /\ OpenFirst'
    BY <2>1, <2>2 DEF XmitHoldsTail, XmitGone, WindowInv, OpenFirst
  <2>4. WindowInOrder' /\ NoStranded'
    BY <2>2 DEF WindowInOrder, NoStranded, ToSet
  <2> QED
    BY <2>3, <2>4 DEF WindowInv
<1>2. CASE /\ UNCHANGED <<txWindow, transferId, nextTxId, inFlight, xpc,
                          xBundle, rpc>>
           /\ acked' \subseteq acked /\ refused' \subseteq refused
  <2>1. OpenFirst'
    BY <1>2 DEF WindowInv, OpenFirst
  <2> QED
    BY <1>2, <2>1, WindowUntouched
<1> QED
  BY <1>1, <1>2, WindowInvXmit, WindowInvRecv
     DEF AnyNext, vars, Sender, SenderDequeue, SenderClaim, SenderDecline,
         QueuePrepare, QueueXfer, QueueRefuse, SenderRelease, Clock,
         ClockIdleTerm, ClockTxStop, ClockReap, DrainReport, FreeConn, ConnFail

LEMMA WindowInvAlways == Spec => []WindowInv
  BY BaseAlways, WindowInvInit, WindowInvStep, AnyPeer, PTL DEF Spec

\* The transmit thread may use its transfer without txMutex: nobody frees it.
THEOREM XmitKeepsItsTransfer == Spec => []XmitHoldsTail
<1>1. WindowInv => XmitHoldsTail
  BY DEF WindowInv
<1> QED
  BY WindowInvAlways, <1>1, PTL

\* An acknowledgment can be matched against the head of the window alone.
THEOREM WindowOrdered == Spec => []WindowInOrder
<1>1. WindowInv => WindowInOrder
  BY DEF WindowInv
<1> QED
  BY WindowInvAlways, <1>1, PTL

\* Whichever of the two threads lets go last retires the transfer.
THEOREM NothingStranded == Spec => []NoStranded
<1>1. WindowInv => NoStranded
  BY DEF WindowInv
<1> QED
  BY WindowInvAlways, <1>1, PTL

-----------------------------------------------------------------------------
(* What BP is told.  A transfer that leaves the transmit thread's hands     *)
(* either was written to its END or is marked refused; a transfer still on  *)
(* the queue has no outcome; so what a thread has to report as acknowledged *)
(* was written, and what BP was told was sent too.                          *)

WriterInv ==
    /\ xpc = "write" => xOff < Length[xBundle]
    /\ xpc = "check" => \/ xOff < Length[xBundle]
                        \/ xBundle \in whole
    /\ xpc = "letgo" => xFailed \/ xBundle \in refused \cup whole

OutcomeInv ==
    /\ \A b \in ToSet(txWindow) \ inFlight : b \in refused \cup whole
    /\ \A b \in ToSet(txQueue) : b \notin acked
    /\ \A b \in Finished : b \in acked \ refused => b \in whole

WrittenInv == WriterInv /\ OutcomeInv /\ SentWasWritten

LEMMA WrittenInvInit == Init => WrittenInv
<1> SUFFICES ASSUME Init PROVE WrittenInv
  OBVIOUS
<1>1. WriterInv /\ SentWasWritten
  BY DEF Init, WriterInv, SentWasWritten
<1>2. OutcomeInv
  BY DEF Init, OutcomeInv, ToSet, Finished
<1> QED
  BY <1>1, <1>2 DEF WrittenInv

\* A step that leaves the flags, the lists and the reports alone.
LEMMA WrittenUntouched ==
    ASSUME WrittenInv, WriterInv',
           UNCHANGED <<txQueue, txWindow, inFlight, acked, refused, completed,
                       finished, sent>>,
           whole \subseteq whole'
    PROVE  WrittenInv'
<1>1. OutcomeInv'
  BY DEF WrittenInv, OutcomeInv, Finished
<1>2. SentWasWritten'
  BY DEF WrittenInv, SentWasWritten
<1> QED
  BY <1>1, <1>2 DEF WrittenInv

\* A thread sets an outcome of the transfer at place i and retires it if it can.
LEMMA WrittenTxFinished ==
    ASSUME Base, WrittenInv, NEW i \in 1 .. Len(txWindow),
           NEW t \in Reporters, NEW len, TxFinished(i, t, len),
           WriterInv', UNCHANGED <<whole, sent>>,
           acked \subseteq acked', acked' \subseteq acked \cup {txWindow[i]},
           refused \subseteq refused',
           refused' \subseteq refused \cup {txWindow[i]},
           completed \subseteq completed',
           txWindow[i] \notin inFlight' => txWindow[i] \in refused' \cup whole,
           inFlight \subseteq inFlight' \cup {txWindow[i]}
    PROVE  WrittenInv'
<1> DEFINE b == txWindow[i]
<1>1. b \in ToSet(txWindow) /\ txQueue' = txQueue
  BY DEF Base, TypeInv, TypeOK, ToSet, TxFinished
<1>2. b \notin ToSet(txQueue) /\ b \notin Finished /\ b \notin sent
  BY <1>1 DEF Base, Custody, OneHolder, Listed
<1>3. SentWasWritten'
  BY DEF WrittenInv, SentWasWritten
<1>4. CASE UNCHANGED <<txWindow, finished>>
  <2>1. OutcomeInv'
    BY <1>1, <1>2, <1>4 DEF WrittenInv, OutcomeInv, Finished
  <2> QED
    BY <1>3, <2>1 DEF WrittenInv
<1>5. CASE Unlink(i, t) /\ b \notin inFlight'
  <2>1. ToSet(txWindow') = ToSet(txWindow) \ {b}
    BY <1>5, RemoveAtSet
       DEF Unlink, Base, TypeInv, TypeOK, Custody, OneHolder
  <2>2. Finished' = Finished \cup {b}
    <3>1. TypeOK /\ OneReporter /\ {b} \cap Finished = {}
      BY <1>2 DEF Base, TypeInv, Custody, OneHolder
    <3>2. finished' = [finished EXCEPT ![t] = @ \cup {b}]
      BY <1>5 DEF Unlink
    <3> QED
      BY <3>1, <3>2, FinishedGains
  <2> HIDE DEF b
  <2>3. OutcomeInv'
    BY <1>1, <1>2, <1>5, <2>1, <2>2 DEF WrittenInv, OutcomeInv, b
  <2> QED
    BY <1>3, <2>3 DEF WrittenInv
<1> QED
  BY <1>4, <1>5 DEF TxFinished, Retirable

LEMMA WrittenReport ==
    ASSUME Base, WrittenInv, NEW t \in Reporters, NEW b \in finished[t],
           Report(t, b), WriterInv',
           UNCHANGED <<txQueue, txWindow, inFlight, acked, refused, completed,
                       whole>>
    PROVE  WrittenInv'
<1>1. Finished' = Finished \ {b} /\ b \in Finished
  BY FinishedLoses DEF Base, TypeInv, Custody, OneHolder, Report
<1>2. OutcomeInv'
  BY <1>1 DEF WrittenInv, OutcomeInv
<1>3. SentWasWritten'
  BY <1>1 DEF Report, Succeeded, WrittenInv, OutcomeInv, SentWasWritten
<1> QED
  BY <1>2, <1>3 DEF WrittenInv

LEMMA WrittenSender ==
    ASSUME Base, WindowInv, WrittenInv, NEW s \in Senders, Sender(s)
    PROVE  WrittenInv'
<1>1. CASE QueueXfer(s)
  <2> DEFINE b == sBundle[s]
  <2>1. b \in Bundles /\ b \in InHand
    BY <1>1 DEF QueueXfer, Base, TypeInv, TypeOK, HandsOK, InHand
  <2>2. b \notin ToSet(txWindow) \cup ToSet(txQueue) \cup Finished \cup sent
    BY <2>1 DEF Base, Custody, OneHolder, Listed
  <2>3. xpc \in {"write", "check", "letgo"} => xBundle # b
    <3>1. txWindow # <<>> => Last(txWindow) \in ToSet(txWindow)
      BY DEF Base, TypeInv, TypeOK, Last, ToSet
    <3> QED
      BY <2>2, <3>1 DEF WindowInv, XmitHoldsTail
  <2>4. /\ whole' = whole \ {b} /\ acked' = acked \ {b}
        /\ refused' = refused \ {b} /\ completed' = completed \ {b}
        /\ UNCHANGED <<txWindow, inFlight, finished, sent, xpc, xBundle, xOff,
                       xFailed>>
    BY <1>1 DEF QueueXfer
  <2>5. ToSet(txQueue') = ToSet(txQueue) \cup {b}
    BY <1>1, <2>1, AppendFacts DEF QueueXfer, Base, TypeInv, TypeOK
  <2> HIDE DEF b
  <2>6. WriterInv'
    BY <2>3, <2>4 DEF WrittenInv, WriterInv
  <2>7. OutcomeInv'
    <3>1. Finished' = Finished
      BY <2>4 DEF Finished
    <3> QED
      BY <2>2, <2>4, <2>5, <3>1 DEF WrittenInv, OutcomeInv
  <2>8. SentWasWritten'
    BY <2>2, <2>4 DEF WrittenInv, SentWasWritten
  <2> QED
    BY <2>6, <2>7, <2>8 DEF WrittenInv
<1>2. CASE \/ SenderDequeue(s) \/ SenderClaim(s) \/ SenderDecline(s)
           \/ QueuePrepare(s) \/ QueueRefuse(s) \/ SenderRelease(s)
  <2>1. UNCHANGED <<txQueue, txWindow, inFlight, acked, refused, completed,
                    finished, sent, whole, xpc, xBundle, xOff, xFailed>>
    BY <1>2 DEF SenderDequeue, SenderClaim, SenderDecline, QueuePrepare,
                QueueRefuse, SenderRelease
  <2>2. WriterInv'
    BY <2>1 DEF WrittenInv, WriterInv
  <2> QED
    BY <2>1, <2>2, WrittenUntouched
<1> QED
  BY <1>1, <1>2 DEF Sender

LEMMA WrittenXmit ==
    ASSUME Base, WindowInv, WrittenInv, Xmit
    PROVE  WrittenInv'
<1>1. CASE XmitTake
  <2> DEFINE b == Head(txQueue)
  <2>1. txQueue \in Seq(Bundles) /\ txWindow \in Seq(Bundles)
    BY DEF Base, TypeInv, TypeOK
  <2>2. /\ b \in Bundles /\ ToSet(txQueue') = ToSet(txQueue) \ {b}
    BY <1>1, <2>1, TailFacts DEF XmitTake, Base, Custody, OneHolder
  <2>3. ToSet(txWindow') = ToSet(txWindow) \cup {b}
    BY <1>1, <2>1, <2>2, AppendFacts DEF XmitTake
  <2>4. /\ inFlight' = inFlight \cup {b} /\ xpc' = "write" /\ xOff' = 0
        /\ xBundle' = b
        /\ UNCHANGED <<acked, refused, completed, finished, sent, whole>>
    BY <1>1 DEF XmitTake
  <2>5. WriterInv'
    BY <2>2, <2>4, LengthAssumption DEF WriterInv
  <2>6. OutcomeInv'
    BY <2>2, <2>3, <2>4 DEF WrittenInv, OutcomeInv, Finished
  <2>7. SentWasWritten'
    BY <2>4 DEF WrittenInv, SentWasWritten
  <2> QED
    BY <2>5, <2>6, <2>7 DEF WrittenInv
<1>2. CASE XmitLetGo
  <2>1. PICK i \in 1 .. Len(txWindow) :
           txWindow[i] = xBundle /\ TxFinished(i, "xmit", txAckedLen)
    BY <1>2 DEF XmitLetGo
  <2>2. /\ UNCHANGED <<acked, completed, whole, sent>>
        /\ inFlight' = inFlight \ {xBundle} /\ xpc' = "report"
        /\ refused' = IF xFailed THEN refused \cup {xBundle} ELSE refused
    BY <1>2 DEF XmitLetGo, RefusedOnLetGo
  <2>3. xBundle \in refused' \cup whole
    BY <1>2, <2>2 DEF XmitLetGo, WrittenInv, WriterInv
  <2>4. WriterInv'
    BY <2>2 DEF WriterInv
  <2> QED
    BY <2>1, <2>2, <2>3, <2>4, WrittenTxFinished DEF Reporters
<1>3. CASE XmitReport
  <2>1. WriterInv'
    BY <1>3 DEF XmitReport, WriterInv, WrittenInv
  <2> QED
    BY <1>3, <2>1, WrittenReport DEF XmitReport, Reporters
<1>4. CASE XmitWrite
  <2>1. xOff \in Nat /\ xBundle \in Bundles /\ Length[xBundle] \in Nat
    BY <1>4, LengthAssumption DEF XmitWrite, Base, TypeInv, TypeOK, HandsOK
  <2>2. WriterInv'
    BY <1>4, <2>1 DEF XmitWrite, WrittenInv, WriterInv
  <2> QED
    BY <1>4, <2>2, WrittenUntouched DEF XmitWrite
<1>5. CASE XmitStart \/ XmitExit \/ XmitWriteFails \/ XmitCheck \/ XmitNext
  <2>1. WriterInv'
    BY <1>5 DEF XmitStart, XmitExit, XmitWriteFails, XmitCheck, MoreToSend,
                XmitNext, WrittenInv, WriterInv
  <2>2. UNCHANGED <<txQueue, txWindow, inFlight, acked, refused, completed,
                    finished, sent, whole>>
    BY <1>5 DEF XmitStart, XmitExit, XmitWriteFails, XmitCheck, XmitNext
  <2> QED
    BY <2>1, <2>2, WrittenUntouched
<1> QED
  BY <1>1, <1>2, <1>3, <1>4, <1>5 DEF Xmit

LEMMA WrittenRecv ==
    ASSUME Base, WindowInv, WrittenInv, AnyRecv
    PROVE  WrittenInv'
\* The receiver thread only ever adds to refused.
<1>0. ASSUME UNCHANGED <<xpc, xBundle, xOff, xFailed, whole>>,
             refused \subseteq refused'
      PROVE  WriterInv'
  BY <1>0 DEF WrittenInv, WriterInv
\* It sets an outcome of place i, which the transmit thread may still hold.
<1>1. ASSUME NEW i \in 1 .. Len(txWindow), NEW len,
             TxFinished(i, "recv", len),
             UNCHANGED <<inFlight, whole, sent, xpc, xBundle, xOff, xFailed>>,
             acked \subseteq acked', acked' \subseteq acked \cup {txWindow[i]},
             refused \subseteq refused',
             refused' \subseteq refused \cup {txWindow[i]},
             completed \subseteq completed'
      PROVE  WrittenInv'
  <2>1. txWindow[i] \in ToSet(txWindow)
    BY DEF Base, TypeInv, TypeOK, ToSet
  <2>2. txWindow[i] \notin inFlight' => txWindow[i] \in refused' \cup whole
    BY <1>1, <2>1 DEF WrittenInv, OutcomeInv
  <2> QED
    BY <1>0, <1>1, <2>2, WrittenTxFinished DEF Reporters
<1>2. ASSUME NEW id, NEW len, RecvAck(id, len) PROVE WrittenInv'
  <2>1. 1 \in 1 .. Len(txWindow) /\ Head(txWindow) = txWindow[1]
    BY <1>2 DEF RecvAck, AckNamesHead, Base, TypeInv, TypeOK
  <2>2. /\ UNCHANGED <<inFlight, whole, sent, xpc, xBundle, xOff, xFailed,
                       completed>>
        /\ acked \subseteq acked' /\ acked' \subseteq acked \cup {txWindow[1]}
        /\ refused \subseteq refused'
        /\ refused' \subseteq refused \cup {txWindow[1]}
        /\ \/ \E n : TxFinished(1, "recv", n)
           \/ UNCHANGED <<txQueue, txWindow, acked, refused, finished>>
    BY <1>2, <2>1 DEF RecvAck
  <2>3. CASE \E n : TxFinished(1, "recv", n)
    BY <1>1, <2>1, <2>2, <2>3
  <2>4. CASE UNCHANGED <<txQueue, txWindow, acked, refused, finished>>
    BY <1>0, <2>2, <2>4, WrittenUntouched
  <2> QED
    BY <2>2, <2>3, <2>4
<1>3. ASSUME NEW id, NEW done, RecvRefuse(id, done) PROVE WrittenInv'
  <2>1. PICK i \in 1 .. Len(txWindow) :
           /\ refused' = refused \cup {txWindow[i]}
           /\ completed \subseteq completed'
           /\ UNCHANGED <<inFlight, acked>>
           /\ TxFinished(i, "recv", txAckedLen)
    BY <1>3 DEF RecvRefuse
  <2>2. UNCHANGED <<whole, sent, xpc, xBundle, xOff, xFailed>>
    BY <1>3 DEF RecvRefuse
  <2> QED
    BY <1>1, <2>1, <2>2
<1>4. CASE RecvReport
  <2>1. WriterInv'
    BY <1>0, <1>4 DEF RecvReport
  <2> QED
    BY <1>4, <2>1, WrittenReport DEF RecvReport, Reporters
<1>5. CASE RecvOpen
  <2>1. WriterInv'
    BY <1>5 DEF RecvOpen, WriterInv
  <2> QED
    BY <1>5, <2>1, WrittenUntouched DEF RecvOpen
<1>6. CASE UNCHANGED <<txQueue, txWindow, inFlight, acked, refused, completed,
                       finished, sent, whole, xpc, xBundle, xOff, xFailed>>
  BY <1>0, <1>6, WrittenUntouched
<1> QED
  BY <1>2, <1>3, <1>4, <1>5, <1>6
     DEF AnyRecv, RecvSessTerm, RecvNext, RecvMsgReject, RecvTermStop,
         RecvLeaveLoop, RecvConnFail, RecvTxStop, RecvJoin, RecvDone

LEMMA WrittenClock ==
    ASSUME Base, WindowInv, WrittenInv, Clock \/ ConnFail \/ UNCHANGED vars
    PROVE  WrittenInv'
<1>0. WriterInv'
  BY DEF WrittenInv, WriterInv, Clock, ClockIdleTerm, ClockTxStop, ClockReap,
         TxDrain, DrainReport, FreeConn, ConnFail, vars
<1>1. CASE TxDrain
  <2>1. inFlight = {}
    BY <1>1 DEF TxDrain, Base, LifeInv, NoUseAfterFree, XmitGone, WindowInv,
                XmitHoldsTail
  <2>2. /\ ToSet(txQueue') = {} /\ ToSet(txWindow') = {}
        /\ UNCHANGED <<acked, refused, completed, whole, sent>>
    BY <1>1 DEF TxDrain, ToSet
  <2>3. Finished' = Finished \cup ToSet(txQueue) \cup ToSet(txWindow)
    <3>1. /\ TypeOK /\ OneReporter /\ Drained \cap Finished = {}
          /\ "clock" \in Reporters
      BY DEF Base, TypeInv, Custody, OneHolder, Drained, Listed, Reporters
    <3>2. finished' = [finished EXCEPT !["clock"] = @ \cup Drained]
      BY <1>1 DEF TxDrain
    <3> QED
      BY <3>1, <3>2, FinishedGains DEF Drained
  <2>4. OutcomeInv'
    BY <2>1, <2>2, <2>3 DEF WrittenInv, OutcomeInv
  <2>5. SentWasWritten'
    BY <2>2 DEF WrittenInv, SentWasWritten
  <2> QED
    BY <1>0, <2>4, <2>5 DEF WrittenInv
<1>2. CASE DrainReport
  BY <1>0, <1>2, WrittenReport DEF DrainReport, Reporters
<1>3. CASE UNCHANGED <<txQueue, txWindow, inFlight, acked, refused, completed,
                       finished, sent, whole>>
  BY <1>0, <1>3, WrittenUntouched
<1> QED
  BY <1>1, <1>2, <1>3
     DEF Clock, ClockIdleTerm, ClockTxStop, ClockReap, FreeConn, ConnFail, vars

\* All of the above as one inductive invariant.
TxInv == Base /\ WindowInv /\ WrittenInv

LEMMA TxInvInit == Init => TxInv
  BY TypeInvInit, LifeInvInit, CustodyInit, WindowInvInit, WrittenInvInit DEF TxInv, Base

LEMMA TxInvStep == TxInv /\ [AnyNext]_vars => TxInv'
<1>1. Base /\ [AnyNext]_vars => Base'
  BY TypeInvStep, LifeInvStep, CustodyStep DEF Base
<1>2. Base /\ WindowInv /\ WrittenInv /\ [AnyNext]_vars => WrittenInv'
  BY WrittenSender, WrittenXmit, WrittenRecv, WrittenClock DEF AnyNext
<1> QED
  BY <1>1, <1>2, WindowInvStep DEF TxInv

\* A bundle BP was told is sent is one the peer said it has, or one whose every
\* octet was acknowledged and written.
THEOREM SentMeansWritten == Spec => []SentWasWritten
<1>1. TxInv => SentWasWritten
  BY DEF TxInv, WrittenInv
<1> QED
  BY TxInvInit, TxInvStep, <1>1, AnyPeer, PTL DEF Spec

=============================================================================
