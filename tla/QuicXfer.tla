------------------------------- MODULE QuicXfer -------------------------------
(***************************************************************************)
(* Bundles over one established connection of the quic convergence layer,  *)
(* in one direction: the sender thread and the I/O thread of the sending   *)
(* node, QUIC between the nodes, and the I/O thread of the receiving node. *)
(* QUIC (ngtcp2) is external: it delivers each stream reliably and in      *)
(* order, the streams independently of each other, and datagrams in any    *)
(* order or not at all.  It keeps no copy of stream data: what is lost is  *)
(* sent again from the buffer the application gave it.                     *)
(***************************************************************************)
EXTENDS Integers, Sequences, FiniteSets, SequencesExt

CONSTANTS
    Bundles,
    Size,      \* Size[b]: octets of a bundle
    Ordinal,   \* Ordinal[b]: its ECOS ordinal
    SegMru,    \* octets of data in a segment
    Services,  \* configured services: "reliable", "datagram"
    MaxLoss    \* bound: packets lost

ASSUME QuicXferAssumption ==
    /\ SegMru \in Nat \ {0} /\ MaxLoss \in Nat
    /\ \A b \in Bundles : Size[b] \in Nat /\ Ordinal[b] \in 0 .. 255

VARIABLES
    service,   \* configured
    bp,        \* what BP believes of each bundle
    xfers,     \* bundle of each Transfer ID given out
    sendData,  \* the octets framed for the bundle being sent
    sendOff,   \* how many of them QUIC has taken
    sendDone,  \* the I/O thread has told the sender that all are
    txFailed,  \* the sender's connection has failed
    stream,    \* stream[s]: octets on their way on a data stream
    losses,    \* packets lost so far
    dgQueue,   \* segments queued as datagrams
    dgPending, \* datagrams the sender waits for
    dgNet,     \* datagrams on their way
    starved,   \* history: datagrams there was no memory for
    rxBuf,     \* octets received on data streams, not parsed yet
    xfer,      \* the transfer being reassembled
    dgRx,      \* the transfer being reassembled from datagrams
    ackPend,   \* the acknowledgement to send next
    ackBuf,    \* the one QUIC holds
    acked,     \* the last acknowledgement sent
    delivered, \* what BP has been given, in order
    rxFailed,  \* the receiver's connection has failed
    spoilt     \* history: what has gone wrong with the octets of a stream

txVars == <<bp, xfers, sendData, sendOff, sendDone>>
dgVars == <<dgQueue, dgPending, dgNet, starved>>
ackVars == <<ackPend, ackBuf, acked>>
rxVars == <<rxBuf, xfer, delivered, rxFailed, spoilt>>
quicVars == <<service, txVars, txFailed, stream, losses, dgVars, dgRx, ackVars, rxVars>>

NoAck == [tx |-> 0, seg |-> 0, cum |-> 0, end |-> FALSE]

-----------------------------------------------------------------------------
(* Framing.  An octet is a record of what it is, of which transfer, and which *)
(* segment or which octet of the bundle; the header of a message is two of    *)
(* them, the type and the rest.  Received from freed memory it is "bad".      *)

Octet(k, tx, at) == [k |-> k, tx |-> tx, at |-> at]
Segments(b) == IF Size[b] = 0 THEN 1 ELSE (Size[b] + SegMru - 1) \div SegMru

\* quicMsgEncodeXferSegmentHdr: the fields of segment i (from 0) of transfer tx.
Header(tx, i) ==
    LET b == xfers[tx]
        n == Segments(b)
    IN [start |-> i = 0, end |-> i = n - 1, seg |-> i, total |-> n, tx |-> tx,
        len |-> IF i = n - 1 THEN Size[b] - i * SegMru ELSE SegMru,
        bundleLen |-> Size[b]]

SegmentData(tx, b, i) ==
    [j \in 1 .. (IF i = Segments(b) - 1 THEN Size[b] - i * SegMru ELSE SegMru)
        |-> Octet("data", tx, i * SegMru + j)]

\* frameBundle.
Framed(tx, b) ==
    FlattenSeq([k \in 1 .. Segments(b) |->
        <<Octet("type", tx, k - 1), Octet("rest", tx, k - 1)>>
        \o SegmentData(tx, b, k - 1)])

\* priorityStream: four streams, from expedited to no priority.
PriorityStream(ordinal) ==
    IF ordinal >= 192 THEN 1
    ELSE IF ordinal >= 128 THEN 2
    ELSE IF ordinal >= 1 THEN 3
    ELSE 4

NoXfer == [tx |-> 0, data |-> <<>>, want |-> 0, active |-> FALSE]
NoDgRx == [tx |-> 0, active |-> FALSE, total |-> 0, seen |-> {}, count |-> 0,
           buf |-> <<>>]

QuicXferInit ==
    /\ service \in Services
    /\ bp = [b \in Bundles |-> "queued"] /\ xfers = <<>>
    /\ sendData = <<>> /\ sendOff = 0 /\ sendDone = FALSE /\ txFailed = FALSE
    /\ stream = [s \in 1 .. 4 |-> <<>>] /\ losses = 0
    /\ dgQueue = <<>> /\ dgPending = 0 /\ dgNet = {} /\ starved = 0
    /\ rxBuf = <<>> /\ xfer = NoXfer /\ dgRx = NoDgRx
    /\ ackPend = NoAck /\ ackBuf = NoAck /\ acked = NoAck
    /\ delivered = <<>> /\ rxFailed = FALSE /\ spoilt = {}

Sending(b) == bp[b] = "sending"
Idle == \A b \in Bundles : ~Sending(b)

-----------------------------------------------------------------------------
(* The sender thread. *)

\* doSend: the bundle is framed and left to the I/O thread.
DoSend(b) ==
    /\ service = "reliable" /\ Idle /\ bp[b] = "queued" /\ ~txFailed
    /\ xfers' = Append(xfers, b)
    /\ sendData' = Framed(Len(xfers) + 1, b)
    /\ sendOff' = 0 /\ sendDone' = FALSE
    /\ bp' = [bp EXCEPT ![b] = "sending"]
    /\ UNCHANGED <<service, txFailed, stream, losses, dgVars, dgRx, ackVars, rxVars>>

\* The sender has waited for the I/O thread; the framed octets are freed.
DoSendReturn(b) ==
    /\ service = "reliable" /\ Sending(b) /\ (sendDone \/ txFailed)
    /\ bp' = [bp EXCEPT ![b] = IF txFailed THEN "failed" ELSE "sent"]
    /\ sendData' = <<>> /\ sendOff' = 0 /\ sendDone' = FALSE
    /\ UNCHANGED <<service, xfers, txFailed, stream, losses, dgVars, dgRx, ackVars,
                   rxVars>>

\* quicClientSendDatagram: without memory only the first k segments are queued,
\* and yet the sender waits for all of them.
SendDatagrams(b) ==
    /\ service = "datagram" /\ Idle /\ bp[b] = "queued" /\ ~txFailed
    /\ xfers' = Append(xfers, b)
    /\ \E k \in 0 .. Segments(b) :
          /\ dgQueue' = dgQueue \o [i \in 1 .. k |->
                                       [tx |-> Len(xfers) + 1, seg |-> i - 1]]
          /\ starved' = starved + (Segments(b) - k)
    /\ dgPending' = dgPending + Segments(b)
    /\ bp' = [bp EXCEPT ![b] = "sending"]
    /\ UNCHANGED <<service, sendData, sendOff, sendDone, txFailed, stream, losses, dgNet,
                   dgRx, ackVars, rxVars>>

SendDatagramsReturn(b) ==
    /\ service = "datagram" /\ Sending(b) /\ (dgPending = 0 \/ txFailed)
    /\ bp' = [bp EXCEPT ![b] = IF txFailed THEN "failed" ELSE "sent"]
    /\ UNCHANGED <<service, xfers, sendData, sendOff, sendDone, txFailed, stream, losses,
                   dgVars, dgRx, ackVars, rxVars>>

-----------------------------------------------------------------------------
(* The I/O thread of the sending node. *)

\* quicTxBatchFlush: a packet leaves, or the socket is full and it is dropped;
\* then, or in the network, it is lost.
Leaves(lost) ==
    IF lost THEN losses < MaxLoss /\ losses' = losses + 1 ELSE UNCHANGED losses

\* writeConn: QUIC takes the next octet framed.
WriteConn ==
    /\ ~txFailed /\ sendOff < Len(sendData)
    /\ LET o == sendData[sendOff + 1]
           s == PriorityStream(Ordinal[xfers[o.tx]])
       IN \E lost \in BOOLEAN :
             /\ Leaves(lost)
             /\ stream' = [stream EXCEPT ![s] = Append(@, [octet |-> o, lost |-> lost])]
    /\ sendOff' = sendOff + 1
    /\ UNCHANGED <<service, bp, xfers, sendData, sendDone, txFailed, dgVars, dgRx, ackVars,
                   rxVars>>

\* Mutant of EngineWakeWaiters: done when QUIC has taken some of it.
WakeEarly ==
    /\ sendData # <<>> /\ sendOff > 0 /\ ~sendDone
    /\ sendDone' = TRUE
    /\ UNCHANGED <<service, bp, xfers, sendData, sendOff, txFailed, stream, losses, dgVars,
                   dgRx, ackVars, rxVars>>

\* engineWakeWaiters: all octets are with QUIC, none need have arrived.
EngineWakeWaiters ==
    /\ sendData # <<>> /\ sendOff >= Len(sendData) /\ ~sendDone
    /\ sendDone' = TRUE
    /\ UNCHANGED <<service, bp, xfers, sendData, sendOff, txFailed, stream, losses, dgVars,
                   dgRx, ackVars, rxVars>>

\* Mutant of WriteDatagram: what is dropped is not counted off.
WriteDatagramDrop ==
    /\ ~txFailed /\ dgQueue # <<>>
    /\ \/ dgNet' = dgNet \cup {Head(dgQueue)} /\ dgPending' = dgPending - 1
       \/ UNCHANGED <<dgNet, dgPending>>
    /\ dgQueue' = Tail(dgQueue)
    /\ UNCHANGED <<service, txVars, txFailed, stream, losses, starved, dgRx, ackVars,
                   rxVars>>

\* writeDatagrams: the first datagram is sent, or cannot be framed and dropped.
WriteDatagram ==
    /\ ~txFailed /\ dgQueue # <<>>
    /\ \E sent \in BOOLEAN :
          dgNet' = IF sent THEN dgNet \cup {Head(dgQueue)} ELSE dgNet
    /\ dgQueue' = Tail(dgQueue)
    /\ dgPending' = dgPending - 1
    /\ UNCHANGED <<service, txVars, txFailed, stream, losses, starved, dgRx, ackVars,
                   rxVars>>

\* The connection fails at the sender: idle timeout, a fatal packet, no socket.
TxFails ==
    /\ ~txFailed
    /\ txFailed' = TRUE
    /\ UNCHANGED <<service, txVars, stream, losses, dgVars, dgRx, ackVars, rxVars>>

-----------------------------------------------------------------------------
(* QUIC. *)

StillHeld(tx) == sendData # <<>> /\ sendData[1].tx = tx

\* A lost octet is sent again, from the buffer if it is still there.
Retransmit(s, i) ==
    /\ ~txFailed /\ stream[s][i].lost
    /\ LET o == stream[s][i].octet IN
          /\ stream' = [stream EXCEPT ![s][i] =
                [octet |-> IF StillHeld(o.tx) THEN o ELSE Octet("bad", o.tx, o.at),
                 lost |-> FALSE]]
          /\ spoilt' = IF StillHeld(o.tx) THEN spoilt ELSE spoilt \cup {"freed"}
    /\ UNCHANGED <<service, txVars, txFailed, losses, dgVars, dgRx, ackVars, rxBuf, xfer,
                   delivered, rxFailed>>

DatagramLost ==
    /\ losses < MaxLoss /\ losses' = losses + 1
    /\ \E d \in dgNet : dgNet' = dgNet \ {d}
    /\ UNCHANGED <<service, txVars, txFailed, stream, dgQueue, dgPending, starved, dgRx,
                   ackVars, rxVars>>

\* Our acknowledgement has been acknowledged: its buffer is free (ackedOffsetCb).
AckedOffset ==
    /\ ~rxFailed /\ ~txFailed /\ ackBuf # NoAck
    /\ ackBuf' = NoAck
    /\ UNCHANGED <<service, txVars, txFailed, stream, losses, dgVars, dgRx, ackPend, acked,
                   rxVars>>

-----------------------------------------------------------------------------
(* The I/O thread of the receiving node. *)

\* What the beginning of rxBuf is taken for.
Garbled(buf) ==
    \/ buf # <<>> /\ buf[1].k # "type"
    \/ Len(buf) >= 2 /\ buf[2].k # "rest"
HeaderOf(buf) == Header(buf[2].tx, buf[2].at)
Complete(buf) ==
    Len(buf) >= 2 /\ ~Garbled(buf) /\ Len(buf) >= 2 + HeaderOf(buf).len

\* xferReassemble of a segment with header h.
XferStarted(h) ==
    IF h.start THEN [tx |-> h.tx, data |-> <<>>, want |-> h.bundleLen, active |-> TRUE]
    ELSE xfer
Refused(h) ==
    LET x == XferStarted(h) IN
    \/ ~x.active
    \/ Len(x.data) + h.len > x.want
    \/ h.end /\ Len(x.data) + h.len # x.want

\* Mutant of XferReassemble: a bundle is delivered with each segment that brings
\* data, END or not.
XferReassembleEager(h, data) ==
    LET x == XferStarted(h)
        whole == x.data \o data
    IN /\ ~Refused(h)
       /\ xfer' = [x EXCEPT !.data = whole, !.active = ~h.end]
       /\ ackPend' = [tx |-> h.tx, seg |-> h.seg, cum |-> Len(whole), end |-> h.end]
       /\ delivered' = Append(delivered, whole)
       /\ UNCHANGED rxFailed

\* The segment is accepted, and the last one hands the bundle to BP.
XferReassemble(h, data) ==
    LET x == XferStarted(h)
        whole == x.data \o data
    IN \/ /\ ~Refused(h)
          /\ xfer' = [x EXCEPT !.data = whole, !.active = ~h.end]
          /\ ackPend' = [tx |-> h.tx, seg |-> h.seg, cum |-> Len(whole), end |-> h.end]
          /\ delivered' = IF h.end THEN Append(delivered, whole) ELSE delivered
          /\ UNCHANGED rxFailed
       \/ \* Refused, no memory, or BP cannot acquire the bundle.
          /\ rxFailed' = TRUE
          /\ UNCHANGED <<xfer, ackPend, delivered>>

\* The transfer the receiver is in the middle of; 0 between transfers.
InProgress ==
    IF rxBuf # <<>> THEN rxBuf[1].tx ELSE IF xfer.active THEN xfer.tx ELSE 0

\* recvStreamDataCb, deliverBundles: an octet arrives on a data stream.  What is
\* no message ends the connection, unless it looks like one that is not complete.
RecvStreamData(s) ==
    /\ ~rxFailed /\ ~txFailed /\ stream[s] # <<>> /\ ~stream[s][1].lost
    /\ stream' = [stream EXCEPT ![s] = Tail(@)]
    /\ LET o == stream[s][1].octet
           buf == Append(rxBuf, o)
       IN /\ spoilt' = IF InProgress \in {0, o.tx} THEN spoilt
                       ELSE spoilt \cup {"mixed"}
          /\ \/ /\ Garbled(buf)
                /\ rxFailed' \in BOOLEAN
                /\ rxBuf' = buf
                /\ UNCHANGED <<xfer, ackPend, delivered>>
             \/ /\ Complete(buf)
                /\ XferReassemble(HeaderOf(buf), SubSeq(buf, 3, Len(buf)))
                /\ rxBuf' = <<>>
             \/ /\ ~Garbled(buf) /\ ~Complete(buf)
                /\ rxBuf' = buf
                /\ UNCHANGED <<xfer, ackPend, delivered, rxFailed>>
    /\ UNCHANGED <<service, txVars, txFailed, losses, dgVars, dgRx, ackBuf, acked>>

\* prepareAck, writeConn: the newest cumulative acknowledgement, when the buffer
\* is free.
SendAck ==
    /\ ~rxFailed /\ ackPend # NoAck /\ ackBuf = NoAck
    /\ ackBuf' = ackPend
    /\ acked' = ackPend
    /\ ackPend' = NoAck
    /\ UNCHANGED <<service, txVars, txFailed, stream, losses, dgVars, dgRx, rxVars>>

\* dgReassemble: a START, or a segment of another transfer, begins anew.
DgStarted(h) ==
    IF h.start \/ ~dgRx.active \/ dgRx.tx # h.tx
    THEN [tx |-> h.tx, active |-> TRUE, total |-> h.total, seen |-> {}, count |-> 0,
          buf |-> [j \in 1 .. h.bundleLen |-> Octet("zero", h.tx, j)]]
    ELSE dgRx

\* Each segment is placed by its number, the last one by the end of the bundle.
DgPlaced(x, h) ==
    LET at == IF h.end THEN h.bundleLen - h.len ELSE h.seg * h.len
    IN [x EXCEPT !.buf = [j \in DOMAIN @ |->
           IF j \in at + 1 .. at + h.len THEN Octet("data", h.tx, j) ELSE @[j]],
        !.seen = @ \cup {h.seg},
        !.count = IF h.seg \in x.seen THEN @ ELSE @ + 1]

RecvDatagram ==
    /\ ~rxFailed
    /\ \E d \in dgNet :
          LET h == Header(d.tx, d.seg)
              x == DgPlaced(DgStarted(h), h)
              whole == x.count = x.total
          IN /\ dgNet' = dgNet \ {d}
             /\ \/ /\ dgRx' = [x EXCEPT !.active = ~whole]
                   /\ delivered' = IF whole THEN Append(delivered, x.buf) ELSE delivered
                   /\ UNCHANGED rxFailed
                \/ \* No memory for the transfer.
                   /\ dgRx' = [dgRx EXCEPT !.active = FALSE]
                   /\ UNCHANGED <<delivered, rxFailed>>
                \/ \* BP cannot acquire the bundle.
                   /\ whole /\ rxFailed' = TRUE
                   /\ UNCHANGED <<dgRx, delivered>>
    /\ UNCHANGED <<service, txVars, txFailed, stream, losses, dgQueue, dgPending, starved,
                   ackVars, rxBuf, xfer, spoilt>>

-----------------------------------------------------------------------------
QuicXferNext ==
    \/ \E b \in Bundles : DoSend(b) \/ DoSendReturn(b)
                          \/ SendDatagrams(b) \/ SendDatagramsReturn(b)
    \/ WriteConn \/ EngineWakeWaiters \/ WriteDatagram \/ TxFails
    \/ \E s \in 1 .. 4 : \E i \in 1 .. Len(stream[s]) : Retransmit(s, i)
    \/ DatagramLost \/ AckedOffset
    \/ \E s \in 1 .. 4 : RecvStreamData(s)
    \/ SendAck \/ RecvDatagram

QuicXferSpec == QuicXferInit /\ [][QuicXferNext]_quicVars

\* Both I/O threads and the sender run, and QUIC is reliable on its streams.
QuicXferFairSpec ==
    /\ QuicXferSpec
    /\ WF_quicVars(\E b \in Bundles : DoSendReturn(b) \/ SendDatagramsReturn(b))
    /\ WF_quicVars(WriteConn \/ EngineWakeWaiters \/ WriteDatagram)
    /\ WF_quicVars(\E s \in 1 .. 4 : \E i \in 1 .. Len(stream[s]) : Retransmit(s, i))
    /\ \A s \in 1 .. 4 : WF_quicVars(RecvStreamData(s))
    /\ WF_quicVars(SendAck)
    /\ WF_quicVars(AckedOffset)

-----------------------------------------------------------------------------
(* Properties. *)

\* The octets of bundle b as the receiver should have them.
IsWhole(x, b) ==
    /\ Len(x) = Size[b]
    /\ \A j \in 1 .. Len(x) : x[j].k = "data" /\ x[j].at = j /\ xfers[x[j].tx] = b

\* What the receiver gives to BP is a bundle that was sent, whole, of one
\* transfer: on streams unless octets of two transfers mixed or freed memory was
\* sent again, with datagrams whatever is lost, reordered or short of memory.
XferIntact ==
    spoilt = {} =>
        \A i \in 1 .. Len(delivered) : \E b \in Bundles : IsWhole(delivered[i], b)

\* A bundle reported sent reaches the other node, or the connection fails.
SentArrives ==
    \A b \in Bundles :
        (service = "reliable" /\ bp[b] = "sent")
            ~> \/ \E i \in 1 .. Len(delivered) : IsWhole(delivered[i], b)
               \/ rxFailed \/ txFailed \/ spoilt # {}

\* A sender in doSend or quicClientSendDatagram gets an answer from the I/O
\* thread (which a datagram there was no memory for prevents).
QuicSendReturns ==
    \A b \in Bundles : Sending(b) ~> ~Sending(b) \/ starved > 0

=============================================================================
