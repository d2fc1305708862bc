---------------------------- MODULE TcpclSession ----------------------------
(***************************************************************************)
(* One TCPCLv4 session between two nodes running this engine: node A sends *)
(* bundles (TcpclTx), node B receives them (TcpclRx), over a TCP           *)
(* connection that delivers in order until it fails.  This module adds the *)
(* wire and the dispatch of messages (tcpv4MessageLoop); every step of a   *)
(* node is the step of its own module together with what it writes.        *)
(*                                                                         *)
(* tcpv4TxStop and the SESS_TERM that follows it are one step here: the    *)
(* stop only keeps the transmit thread from taking another transfer, so a  *)
(* segment written between the two could as well have been written before. *)
(***************************************************************************)
EXTENDS TcpclTx, TcpclRx

\* Both ends advertise the same limits: the sender's MTUs are the receiver's
\* MRUs (applySessInit).
ASSUME NegotiatedAssumption == TransferMtu = TransferMru /\ SegmentMru > 0

VARIABLES
    wire,    \* messages from A to B; those from B to A are toPeer
    unexpected, \* unexpected of handleXferAck: a MSG_REJECT is still to be sent
    xferOf   \* history: xferOf[id + 1] is the bundle of A's transfer id

sessVars == <<vars, rxVars, wire, unexpected, xferOf>>

SessInit ==
    /\ Init /\ RxInit
    /\ wire = <<>>
    /\ unexpected = FALSE
    /\ xferOf = <<>>

\* A write of node A; nothing leaves a socket that was shut down.
AWrites(m) == wire' = IF failed THEN wire ELSE Append(wire, m)

-----------------------------------------------------------------------------
(* Node A. *)

\* The XFER_SEGMENT the transmit thread writes next: START on the first, END on
\* the last; a START announces the transfer's length.  The field off places the
\* segment in its transfer for the proofs and is not on the wire.
NextSegment ==
    [type |-> "XFER_SEGMENT", id |-> transferId[xBundle], start |-> xOff = 0,
     end |-> xOff + 1 = Length[xBundle], len |-> 1,
     ext |-> "none", off |-> xOff]

AXmit ==
    \/ /\ XmitWrite
       /\ wire' = Append(wire, NextSegment)
       /\ UNCHANGED <<rxVars, unexpected, xferOf>>
    \/ /\ XmitTake
       /\ xferOf' = Append(xferOf, Head(txQueue))
       /\ UNCHANGED <<rxVars, wire, unexpected>>
    \/ /\ XmitStart \/ XmitExit \/ XmitWriteFails \/ XmitCheck \/ XmitLetGo
          \/ XmitReport \/ XmitNext
       /\ UNCHANGED <<rxVars, wire, unexpected, xferOf>>

\* handleXferAck; an acknowledgment that makes no sense is rejected, once the
\* transfer it was about has been reported.
AHandleAck(m) ==
    \/ /\ RecvAck(m.id, m.len)
       /\ unexpected' = ~AckAdvances(m.len)
       /\ UNCHANGED wire
    \/ /\ ~AckNamesHead(m.id)
       /\ AWrites(MsgReject("XFER_ACK"))
       /\ UNCHANGED <<vars, unexpected>>

ANext ==
    /\ RecvNext
    /\ IF unexpected THEN AWrites(MsgReject("XFER_ACK")) ELSE UNCHANGED wire
    /\ unexpected' = FALSE
    /\ UNCHANGED <<rxVars, xferOf>>

AHandleRefuse(m) ==
    \/ /\ RecvRefuse(m.id, m.reason = "COMPLETED")
       /\ UNCHANGED <<wire, unexpected>>
    \/ /\ \A i \in 1 .. Len(txWindow) : transferId[txWindow[i]] # m.id
       /\ AWrites(MsgReject("XFER_REFUSE"))
       /\ UNCHANGED <<vars, unexpected>>

\* A MSG_REJECT of what transfers are made of ends the session; of anything else
\* it is only noted.
AHandleReject(m) ==
    /\ IF m.of \in {"XFER_SEGMENT", "XFER_ACK"} THEN RecvMsgReject
                                               ELSE UNCHANGED vars
    /\ UNCHANGED <<wire, unexpected>>

AHandle(m) ==
    CASE m.type = "XFER_ACK" -> AHandleAck(m)
      [] m.type = "XFER_REFUSE" -> AHandleRefuse(m)
      [] m.type = "MSG_REJECT" -> AHandleReject(m)
      [] m.type = "SESS_TERM" -> RecvSessTerm(m.reply)
                                  /\ UNCHANGED <<wire, unexpected>>

ARead ==
    /\ rpc = "loop"
    /\ toPeer # <<>>
    /\ AHandle(Head(toPeer))
    /\ toPeer' = Tail(toPeer)
    /\ UNCHANGED <<rxState, rxTermSent, rxFailed, rxPc, rxClk, seg, rxSegVars,
                   bufVars, dlvVars, delivered, peerSent, rxSegs, xferOf>>

\* The SESS_TERM that goes out with the stop, if one is owed.
ATermStop ==
    /\ RecvTermStop
    /\ IF rpc \in {"terminit", "termreply"}
          THEN AWrites(SessTerm(rpc = "termreply"))
          ELSE UNCHANGED wire
    /\ UNCHANGED <<rxVars, unexpected, xferOf>>

AIdleStop ==
    /\ ClockTxStop
    /\ AWrites(SessTerm(FALSE))
    /\ UNCHANGED <<rxVars, unexpected, xferOf>>

AOther ==
    /\ \/ \E s \in Senders : Sender(s)
       \/ RecvOpen \/ RecvReport \/ RecvLeaveLoop
       \/ RecvConnFail \/ RecvTxStop \/ RecvJoin \/ RecvDone
       \/ ClockIdleTerm \/ ClockReap \/ TxDrain \/ DrainReport \/ FreeConn
       \/ ConnFail
    /\ UNCHANGED <<rxVars, wire, unexpected, xferOf>>

NodeA == AXmit \/ ARead \/ ANext \/ ATermStop \/ AIdleStop \/ AOther

-----------------------------------------------------------------------------
(* Node B. *)

Segment(m) == [id |-> m.id, start |-> m.start, end |-> m.end, len |-> m.len,
               ext |-> m.ext]

BHandle(m) ==
    CASE m.type = "XFER_SEGMENT" -> RxHeader(Segment(m))
      [] m.type = "SESS_TERM" -> RxSessTerm(m.reply)
      [] m.type = "MSG_REJECT" /\ m.of = "XFER_ACK" -> RxMsgReject
      [] OTHER -> UNCHANGED rxVars

BRead ==
    /\ rxPc = "loop"
    /\ wire # <<>>
    /\ BHandle(Head(wire))
    /\ wire' = Tail(wire)
    /\ UNCHANGED <<vars, unexpected, xferOf>>

BOther ==
    /\ Receiver \/ Delivery \/ RxClock \/ RxConnFail
    /\ UNCHANGED <<vars, wire, unexpected, xferOf>>

NodeB == BRead \/ BOther

SessNext == NodeA \/ NodeB

SessSpec == SessInit /\ [][SessNext]_sessVars

\* Every thread of both nodes keeps running, the connection carries what is
\* written to it, and a read returns once the connection is down and drained.
AStep(A) == A /\ UNCHANGED <<rxVars, wire, unexpected, xferOf>>
BStep(A) == A /\ UNCHANGED <<vars, wire, unexpected, xferOf>>

AFeeds(s) == AStep(
    SenderClaim(s) \/ SenderDecline(s) \/ QueuePrepare(s) \/ QueueXfer(s)
    \/ QueueRefuse(s) \/ SenderRelease(s))
AReceives == ARead \/ ANext \/ ATermStop \/ AStep(
    RecvOpen \/ RecvReport \/ RecvConnFail \/ RecvTxStop \/ RecvJoin \/ RecvDone)
AReadEnds == AStep((failed \/ rxFailed) /\ toPeer = <<>> /\ RecvLeaveLoop)
AReaps == AIdleStop \/ AStep(ClockReap \/ TxDrain \/ DrainReport \/ FreeConn)
BReceives == BRead \/ BStep(RxThread \/ RxData)
BReadEnds == BStep((failed \/ rxFailed) /\ wire = <<>> /\ RxLeaveLoop)

SessFairness ==
    /\ \A s \in Senders : WF_sessVars(AFeeds(s))
    /\ WF_sessVars(AXmit) /\ WF_sessVars(AReceives) /\ WF_sessVars(AReadEnds)
    /\ WF_sessVars(AReaps)
    /\ WF_sessVars(BReceives) /\ WF_sessVars(BReadEnds)
    /\ WF_sessVars(BStep(Delivery)) /\ WF_sessVars(BStep(RxIdleSend))

SessFairSpec == SessSpec /\ SessFairness

-----------------------------------------------------------------------------
(* Properties. *)

\* The bundles B's BP has acquired.
Acquired == {xferOf[delivered[i].id + 1] : i \in 1 .. Len(delivered)}

Handover == INSTANCE BundleHandover WITH acquired <- Acquired, released <- sent

\* The session keeps the promise of a convergence layer: A's BP lets a bundle go
\* only once B's BP has it, whatever fails, is refused, or crosses on the wire.
HandoverSpec == Handover!Spec

\* Within one session a bundle is delivered at most once: A never concludes that
\* a transfer failed, and begins it anew, on a connection over which B has
\* delivered it and is still able to say so.
DeliveredOnce ==
    \A i, j \in 1 .. Len(delivered) :
        i # j => xferOf[delivered[i].id + 1] # xferOf[delivered[j].id + 1]

\* Nothing handed to the session stays there for ever: B answers every transfer
\* or the session ends, and then the drain reports what is left.
NoBundleStuck == \A b \in Bundles : b \in Listed ~> b \notin Listed

=============================================================================
