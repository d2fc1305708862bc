------------------------------- MODULE TcpclRx -------------------------------
(***************************************************************************)
(* The receive side of one established TCPCLv4 session                     *)
(* (CLA/tcpv4/src/tcpv4rx.c: handleXferSegment, the hand-off to            *)
(* tcpv4DeliveryThread, and the end of receiverThread).                    *)
(*                                                                         *)
(* The receiver thread reassembles one transfer at a time and hands it to  *)
(* the delivery thread, which gives it to BP and only then sends the       *)
(* acknowledgment of its END segment.  The two swap a pair of buffers, so  *)
(* that one transfer is read while the previous one is being delivered.    *)
(* The peer is arbitrary: any sequence of XFER_SEGMENTs may arrive.        *)
(***************************************************************************)
EXTENDS Integers, SequencesExt

CONSTANTS
    PeerIds,      \* transfer ids the peer may use
    SegLens,      \* data lengths the peer may put in a segment
    SegmentMru,   \* cfg.segmentMru
    TransferMru,  \* cfg.transferMru
    MaxSegments   \* bound: segments the peer sends

ASSUME PeerIdsAssumption == PeerIds \subseteq Nat
ASSUME MruAssumption == /\ SegLens \subseteq Nat
                        /\ SegmentMru \in Nat
                        /\ TransferMru \in Nat
                        /\ MaxSegments \in Nat

VARIABLES
    rxState,    \* conn->state
    rxTermSent, \* conn->termSent
    rxFailed,   \* conn->failed
    rxPc,       \* where the receiver thread is
    rxClk,      \* where the clock thread is, as far as this session goes
    seg,        \* the XFER_SEGMENT being handled
    rxActive, rxId, rxLen, rxRefused, \* as in Tcpv4Conn
    mem,        \* mem[0], mem[1]: the two reassembly buffers
    rxBundle,   \* which of them the receiver fills; the other is dlvBundle
    dlvPending, dlvStopped, dlvFailed, dlvLen, dlvId, \* as in Tcpv4Conn
    dlvPc,      \* where the delivery thread is
    toPeer,     \* messages sent to the peer
    delivered,  \* contents BP has acquired, in order
    dlvSerial,  \* history: which transfer was handed over last
    peerSent,   \* history: octets the peer has sent in each transfer it began
    rxSegs      \* segments received so far

rxTermVars == <<rxState, rxTermSent, rxClk>>
rxSegVars  == <<rxActive, rxId, rxLen, rxRefused>>
bufVars    == <<mem, rxBundle>>
dlvVars    == <<dlvPending, dlvStopped, dlvFailed, dlvLen, dlvId, dlvPc,
                dlvSerial>>
rxVars == <<rxState, rxTermSent, rxFailed, rxPc, rxClk, seg, rxActive, rxId,
            rxLen, rxRefused, mem, rxBundle, dlvPending, dlvStopped, dlvFailed,
            dlvLen, dlvId, dlvPc, dlvSerial, toPeer, delivered, peerSent,
            rxSegs>>

\* What a START segment's extension list says: nothing that matters (it is
\* empty, or has a Transfer Length within our Transfer MRU), an unknown item
\* marked CRITICAL, or a Transfer Length beyond our Transfer MRU.
Extensions == {"none", "critical", "toobig"}

Segments == [id : PeerIds, start : BOOLEAN, end : BOOLEAN, len : SegLens,
             ext : Extensions]

\* Transfers are counted as they begin; the unit of data is octet k of the n-th
\* of them, and the transfer's content is its octets in order.
serial == Len(peerSent)
Octet(n, k) == <<n, k>>
Content(n, len) == [k \in 1 .. len |-> Octet(n, k)]

\* Between messages there is no current segment.
NoSegment == [id |-> 0, start |-> FALSE, end |-> FALSE, len |-> 0,
              ext |-> "none"]

RxInit ==
    /\ rxState = "ESTABLISHED"
    /\ rxTermSent = FALSE
    /\ rxClk = "idle"
    /\ rxFailed = FALSE
    /\ rxPc = "loop"
    /\ seg = NoSegment
    /\ rxActive = FALSE
    /\ rxId = 0
    /\ rxLen = 0
    /\ rxRefused = FALSE
    /\ mem = [i \in {0, 1} |-> <<>>]
    /\ rxBundle = 0
    /\ dlvPending = FALSE
    /\ dlvStopped = FALSE
    /\ dlvFailed = FALSE
    /\ dlvLen = 0
    /\ dlvId = 0
    /\ dlvPc = "wait"
    /\ toPeer = <<>>
    /\ delivered = <<>>
    /\ dlvSerial = 0
    /\ peerSent = <<>>
    /\ rxSegs = 0

-----------------------------------------------------------------------------
(* Messages to the peer.  A write to a socket that was shut down fails; the *)
(* field n names the transfer for the properties and is not on the wire.    *)

Ack(id, len, end, n) ==
    [type |-> "XFER_ACK", id |-> id, len |-> len, end |-> end, n |-> n]
Refuse(id, reason, n) ==
    [type |-> "XFER_REFUSE", id |-> id, reason |-> reason, n |-> n]
MsgReject(type) == [type |-> "MSG_REJECT", of |-> type]
SessTerm(reply) == [type |-> "SESS_TERM", reply |-> reply]

Send(m) == toPeer' = IF rxFailed THEN toPeer ELSE Append(toPeer, m)

-----------------------------------------------------------------------------
(* handleXferSegment *)

\* The session ends without a reply: the receiver leaves its message loop.
\* The message the code sends on the way out, if any, goes to the peer.
Abort(m) == rxPc' = "fail" /\ Send(m)

\* Why a START segment's transfer is refused outright ("none" if it is not):
\* an ENDING session takes no new transfer, an unknown CRITICAL extension fails
\* it, a declared length beyond the Transfer MRU cannot be stored.
StartRefusal(s) ==
    CASE rxState = "ENDING" -> "SESS_TERM"
      [] rxState # "ENDING" /\ s.ext = "critical" -> "EXT_FAILURE"
      [] rxState # "ENDING" /\ s.ext = "toobig" -> "NO_RESOURCES"
      [] OTHER -> "none"

\* A segment header has been read and is acceptable; the transfer may still
\* have to be refused before the data is read.
Accepted(s) ==
    IF s.start THEN ~rxActive ELSE rxActive /\ s.id = rxId

\* The data the segment would add takes the transfer past the Transfer MRU.
Overflows(len, s) == len + s.len > TransferMru

\* Mutant of LenAtHeader: every segment, START or not, begins an empty buffer.
LenAlwaysZero(s) == 0

LenAtHeader(s) == IF s.start THEN 0 ELSE rxLen

RxHeader(s) ==
    /\ rxPc = "loop"
    /\ rxSegs < MaxSegments
    /\ rxSegs' = rxSegs + 1
    /\ IF s.len > SegmentMru \/ ~Accepted(s)
          THEN /\ Abort(IF s.len > SegmentMru THEN SessTerm(FALSE)
                                              ELSE MsgReject("XFER_SEGMENT"))
               /\ UNCHANGED <<seg, rxSegVars, peerSent>>
          ELSE LET why == IF s.start THEN StartRefusal(s) ELSE "none"
                   len == LenAtHeader(s)
                   was == ~s.start /\ rxRefused IN
               /\ seg' = s
               /\ rxActive' = TRUE
               /\ rxId' = s.id
               /\ rxLen' = len
               /\ peerSent' = IF s.start
                                 THEN Append(peerSent, s.len)
                                 ELSE [peerSent EXCEPT ![serial] = @ + s.len]
               /\ rxRefused' = (was \/ why # "none" \/ Overflows(len, s))
               /\ rxPc' = IF rxRefused' /\ ~was THEN "refuse" ELSE "data"
               /\ UNCHANGED toPeer
    /\ UNCHANGED <<rxTermVars, rxFailed, bufVars, dlvVars, delivered>>

\* rxReserve fails: the session ends for want of memory.
RxNoMemory ==
    /\ rxPc = "data" /\ ~rxRefused
    /\ Abort(SessTerm(FALSE))
    /\ seg' = NoSegment
    /\ UNCHANGED <<rxTermVars, rxFailed, rxSegVars, bufVars, dlvVars,
                   delivered, peerSent, rxSegs>>

\* Mutant of HandoffIdle: the receiver does not wait for the hand-off.
HandoffIgnored == TRUE

\* rxAwaitDelivery: anything the receiver says about a transfer waits for the
\* hand-off to drain, and is not said at all if delivery stopped or failed.
HandoffIdle == ~dlvPending \/ dlvStopped \/ dlvFailed
HandoffBad  == dlvStopped \/ dlvFailed

RefuseReason == IF seg.start /\ StartRefusal(seg) # "none"
                   THEN StartRefusal(seg) ELSE "NO_RESOURCES"

\* rxSendRefuse; its failure is ignored, the transfer stays refused.
RxRefuse ==
    /\ rxPc = "refuse"
    /\ HandoffIdle
    /\ IF HandoffBad THEN UNCHANGED toPeer
                     ELSE Send(Refuse(rxId, RefuseReason, serial))
    /\ rxPc' = "data"
    /\ UNCHANGED <<rxTermVars, rxFailed, seg, rxSegVars, bufVars, dlvVars,
                   delivered, peerSent, rxSegs>>

\* What the buffer holds once the segment's data is stored behind rxLen octets.
Stored(buf) ==
    [k \in 1 .. rxLen + seg.len |->
        IF k <= rxLen
           THEN buf[k]
           ELSE Octet(serial, peerSent[serial] - seg.len + k - rxLen)]

\* A refused transfer is never handed over nor acknowledged.
AfterData == CASE rxRefused -> "loop"
               [] ~rxRefused /\ seg.end -> "handover"
               [] OTHER -> "ack"

\* The segment's data is read into the reassembly buffer, or drained.
RxData ==
    /\ rxPc = "data"
    /\ IF rxRefused
          THEN UNCHANGED <<mem, rxLen>>
          ELSE /\ mem' = [mem EXCEPT ![rxBundle] = Stored(@)]
               /\ rxLen' = rxLen + seg.len
    /\ rxActive' = ~seg.end
    /\ rxPc' = AfterData
    /\ seg' = NoSegment
    /\ UNCHANGED <<rxTermVars, rxFailed, rxId, rxRefused, rxBundle,
                   dlvVars, toPeer, delivered, peerSent, rxSegs>>

AckLength == rxLen

\* rxSendAck: the cumulative acknowledgment of a segment that is not the last.
RxAck ==
    /\ rxPc = "ack"
    /\ HandoffIdle
    /\ IF HandoffBad \/ rxFailed
          THEN rxPc' = "fail" /\ UNCHANGED toPeer
          ELSE rxPc' = "loop" /\ Send(Ack(rxId, AckLength, FALSE, serial))
    /\ UNCHANGED <<rxTermVars, rxFailed, seg, rxSegVars, bufVars, dlvVars,
                   delivered, peerSent, rxSegs>>

OtherBuffer == 1 - rxBundle

\* handOverTransfer: swap the buffers and leave the transfer to the delivery
\* thread.
RxHandOver ==
    /\ rxPc = "handover"
    /\ HandoffIdle
    /\ IF HandoffBad
          THEN /\ rxPc' = "fail"
               /\ UNCHANGED <<rxBundle, rxLen, dlvPending, dlvLen, dlvId,
                              dlvSerial>>
          ELSE /\ rxPc' = "loop"
               /\ rxBundle' = OtherBuffer
               /\ dlvLen' = rxLen
               /\ dlvId' = rxId
               /\ dlvSerial' = serial
               /\ dlvPending' = TRUE
               /\ rxLen' = 0
    /\ UNCHANGED <<rxTermVars, rxFailed, seg, rxActive, rxId, rxRefused, mem,
                   dlvStopped, dlvFailed, dlvPc, toPeer, delivered, peerSent,
                   rxSegs>>

\* The connection gives no (more) data: every read of the loop may fail.
RxLeaveLoop ==
    /\ rxPc \in {"loop", "data"}
    /\ rxPc' = "fail"
    /\ seg' = NoSegment
    /\ UNCHANGED <<rxTermVars, rxFailed, rxSegVars, bufVars, dlvVars,
                   toPeer, delivered, peerSent, rxSegs>>

\* handleSessTerm: the first SESS_TERM of the exchange is answered and the loop
\* goes on; the answer to our own, or one that crosses it, ends the session.
RxReplyNeeded(reply) == ~reply /\ ~rxTermSent

RxSessTerm(reply) ==
    /\ rxPc = "loop"
    /\ rxState' = "ENDING"
    /\ rxTermSent' = TRUE
    /\ IF RxReplyNeeded(reply) THEN Send(SessTerm(TRUE)) /\ UNCHANGED rxPc
                               ELSE rxPc' = "close" /\ UNCHANGED toPeer
    /\ UNCHANGED <<rxClk, rxFailed, seg, rxSegVars, bufVars, dlvVars,
                   delivered, peerSent, rxSegs>>

\* startTermination: the peer rejected our XFER_ACK.
RxMsgReject ==
    /\ rxPc = "loop"
    /\ rxState' = "ENDING"
    /\ rxTermSent' = TRUE
    /\ IF rxTermSent THEN UNCHANGED toPeer ELSE Send(SessTerm(FALSE))
    /\ UNCHANGED <<rxClk, rxFailed, rxPc, seg, rxSegVars, bufVars, dlvVars,
                   delivered, peerSent, rxSegs>>

\* clockTick's idle timer, under the engine lock; between transfers only.
RxQuiet == ~rxActive

RxIdleTerm ==
    /\ rxClk = "idle"
    /\ rxState = "ESTABLISHED" /\ ~rxTermSent /\ ~rxFailed /\ rxPc # "done"
    /\ RxQuiet
    /\ rxState' = "ENDING"
    /\ rxTermSent' = TRUE
    /\ rxClk' = "term"
    /\ UNCHANGED <<rxFailed, rxPc, seg, rxSegVars, bufVars, dlvVars, toPeer,
                   delivered, peerSent, rxSegs>>

\* The SESS_TERM itself is written later, outside the lock.
RxIdleSend ==
    /\ rxClk = "term"
    /\ Send(SessTerm(FALSE))
    /\ rxClk' = "idle"
    /\ UNCHANGED <<rxState, rxTermSent, rxFailed, rxPc, seg, rxSegVars,
                   bufVars, dlvVars, delivered, peerSent, rxSegs>>

\* tcpv4ConnFail, from another thread of the engine.
RxConnFail ==
    /\ ~rxFailed
    /\ rxFailed' = TRUE
    /\ UNCHANGED <<rxTermVars, rxPc, seg, rxSegVars, bufVars, dlvVars, toPeer,
                   delivered, peerSent, rxSegs>>

\* The end of receiverThread: fail the connection, stop the delivery thread,
\* join it.
RxFail ==
    /\ rxPc \in {"fail", "close"}
    /\ rxFailed' = TRUE
    /\ rxPc' = "stop"
    /\ UNCHANGED <<rxTermVars, seg, rxSegVars, bufVars, dlvVars, toPeer,
                   delivered, peerSent, rxSegs>>

DeliveryStop ==
    /\ rxPc = "stop"
    /\ dlvStopped' = TRUE
    /\ rxPc' = "join"
    /\ UNCHANGED <<rxTermVars, rxFailed, seg, rxSegVars, bufVars, dlvPending,
                   dlvFailed, dlvLen, dlvId, dlvSerial, dlvPc, toPeer,
                   delivered, peerSent, rxSegs>>

RxJoin ==
    /\ rxPc = "join"
    /\ dlvPc = "exited"
    /\ rxPc' = "done"
    /\ UNCHANGED <<rxTermVars, rxFailed, seg, rxSegVars, bufVars, dlvVars,
                   toPeer, delivered, peerSent, rxSegs>>

Receiver == \/ RxNoMemory \/ RxRefuse \/ RxData \/ RxAck \/ RxHandOver
            \/ RxLeaveLoop \/ RxFail \/ DeliveryStop \/ RxJoin

-----------------------------------------------------------------------------
(* tcpv4DeliveryThread *)

DlvWakeIfStopped == dlvStopped

DlvWake == dlvPending \/ dlvStopped

\* Wait for a transfer; one that is pending is delivered even if the session
\* has been stopped meanwhile.
DlvTake ==
    /\ dlvPc = "wait"
    /\ DlvWake
    /\ dlvPc' = IF dlvPending THEN "deliver" ELSE "exited"
    /\ UNCHANGED <<rxTermVars, rxFailed, rxPc, seg, rxSegVars, bufVars,
                   dlvPending, dlvStopped, dlvFailed, dlvLen, dlvId, dlvSerial,
                   toPeer, delivered, peerSent, rxSegs>>

\* Mutant of AfterDelivery: a bundle BP did not acquire is acknowledged too.
AfterDeliveryRegardless(ok) == "ack"

AfterDelivery(ok) == IF ok THEN "ack" ELSE "failed"

\* rx.deliver: BP reads the bundle out of the delivery buffer, or fails to
\* acquire it.
DlvDeliver ==
    /\ dlvPc = "deliver"
    /\ \/ /\ delivered' = Append(delivered,
                [n |-> dlvSerial, id |-> dlvId,
                 data |-> SubSeq(mem[1 - rxBundle], 1, dlvLen)])
          /\ dlvPc' = AfterDelivery(TRUE)
       \/ dlvPc' = AfterDelivery(FALSE) /\ UNCHANGED delivered
    /\ UNCHANGED <<rxTermVars, rxFailed, rxPc, seg, rxSegVars, bufVars,
                   dlvPending, dlvStopped, dlvFailed, dlvLen, dlvId, dlvSerial,
                   toPeer, peerSent, rxSegs>>

\* The END segment is acknowledged once BP has the bundle.
DlvAck ==
    /\ dlvPc = "ack"
    /\ Send(Ack(dlvId, dlvLen, TRUE, dlvSerial))
    /\ dlvPc' = IF rxFailed THEN "failed" ELSE "settle"
    /\ UNCHANGED <<rxTermVars, rxFailed, rxPc, seg, rxSegVars, bufVars,
                   dlvPending, dlvStopped, dlvFailed, dlvLen, dlvId, dlvSerial,
                   delivered, peerSent, rxSegs>>

\* The hand-off is free again; a delivery or acknowledgment that failed takes
\* the session down and ends the thread.
DlvSettle ==
    /\ dlvPc \in {"settle", "failed"}
    /\ dlvPending' = FALSE
    /\ dlvFailed' = (dlvFailed \/ dlvPc = "failed")
    /\ dlvPc' = IF dlvPc = "failed" THEN "exited" ELSE "wait"
    /\ rxFailed' = (rxFailed \/ dlvPc = "failed")
    /\ UNCHANGED <<rxTermVars, rxPc, seg, rxSegVars, bufVars, dlvStopped,
                   dlvLen, dlvId, dlvSerial, toPeer, delivered, peerSent,
                   rxSegs>>

Delivery == DlvTake \/ DlvDeliver \/ DlvAck \/ DlvSettle

-----------------------------------------------------------------------------
\* Only a START segment has an extension list.
WellFormed(s) == s.start \/ s.ext = "none"

RxClock == RxIdleTerm \/ RxIdleSend

RxNext == \/ \E s \in Segments : WellFormed(s) /\ RxHeader(s)
          \/ \E reply \in BOOLEAN : RxSessTerm(reply)
          \/ RxMsgReject \/ Receiver \/ Delivery \/ RxClock \/ RxConnFail

RxSpec == RxInit /\ [][RxNext]_rxVars

\* Both threads keep running; reads of a shut-down socket return.
RxThread == RxRefuse \/ RxAck \/ RxHandOver \/ RxFail \/ DeliveryStop \/ RxJoin
RxFairness ==
    /\ WF_rxVars(Delivery)
    /\ WF_rxVars(RxThread)
    /\ SF_rxVars(rxFailed /\ RxLeaveLoop)

RxFairSpec == RxSpec /\ RxFairness

-----------------------------------------------------------------------------
(* Properties. *)

SegmentRecords == [id : Nat, start : BOOLEAN, end : BOOLEAN, len : Nat, ext : Extensions]
Buffers == Seq(Nat \X Nat)

RxTypeOK ==
    /\ rxState \in {"ESTABLISHED", "ENDING"}
    /\ rxTermSent \in BOOLEAN /\ rxFailed \in BOOLEAN
    /\ rxPc \in {"loop", "refuse", "data", "ack", "handover", "close", "fail",
                 "stop", "join", "done"}
    /\ rxClk \in {"idle", "term"}
    /\ seg \in SegmentRecords
    /\ rxActive \in BOOLEAN /\ rxRefused \in BOOLEAN
    /\ rxId \in Nat /\ rxLen \in Nat
    /\ mem \in [{0, 1} -> Buffers] /\ rxBundle \in {0, 1}
    /\ dlvPending \in BOOLEAN /\ dlvStopped \in BOOLEAN
    /\ dlvFailed \in BOOLEAN
    /\ dlvLen \in Nat /\ dlvId \in Nat /\ dlvSerial \in Nat
    /\ dlvPc \in {"wait", "deliver", "ack", "settle", "failed", "exited"}
    /\ peerSent \in Seq(Nat) /\ rxSegs \in Nat

\* BP acquires exactly what the peer sent: each delivered bundle is all the
\* octets of one transfer, in order, unmixed with those the receiver thread is
\* reading meanwhile, and transfers are delivered in order and once each.
DeliveredIntact ==
    /\ \A i \in 1 .. Len(delivered) :
          delivered[i].data = Content(delivered[i].n, peerSent[delivered[i].n])
    /\ \A i, j \in 1 .. Len(delivered) : i < j => delivered[i].n < delivered[j].n

\* Where in toPeer the replies to transfers are.
Replies == {i \in DOMAIN toPeer : toPeer[i].type \in {"XFER_ACK", "XFER_REFUSE"}}

\* What the two threads say of transfers reaches the peer in transfer order, with
\* growing lengths, and nothing more is said of a transfer that was refused or
\* whose END was acknowledged (tcpv4rx.c:58-64, RFC 9174 5.2.3).
RepliesInOrder ==
    \A i, j \in Replies :
        LET p == toPeer[i]  q == toPeer[j] IN
        i < j => \/ p.n < q.n
                 \/ /\ p.n = q.n
                    /\ p.type = "XFER_ACK" /\ ~p.end
                    /\ q.type = "XFER_ACK" => p.len <= q.len

\* The acknowledgment of an END segment says that BP has the bundle
\* (tcpv4rx.c:603-606), in its full length; a refused transfer is never
\* delivered.
EndAckMeansDelivered ==
    \A i \in Replies :
        LET m == toPeer[i] IN
        IF m.type = "XFER_REFUSE"
           THEN \A j \in 1 .. Len(delivered) : delivered[j].n # m.n
           ELSE m.end => \E j \in 1 .. Len(delivered) :
                            /\ delivered[j].n = m.n
                            /\ Len(delivered[j].data) = m.len

\* A transfer received to its end is acknowledged, unless the session fails.
TransferAnswered ==
    \A n \in 1 .. MaxSegments :
        (rxPc = "handover" /\ serial = n) ~>
            \/ rxFailed
            \/ \E i \in 1 .. Len(toPeer) :
                  /\ toPeer[i].type = "XFER_ACK"
                  /\ toPeer[i].n = n /\ toPeer[i].end
=============================================================================
