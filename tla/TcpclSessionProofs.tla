------------------------- MODULE TcpclSessionProofs -------------------------
(***************************************************************************)
(* Proofs about a session between two nodes (TcpclSession): that it keeps  *)
(* the promise of BundleHandover and delivers a bundle at most once, for   *)
(* any bundles and lengths, any number of senders, transfers and segments. *)
(* Each node's own invariant (TxInv, RxInv) holds whatever its peer says;  *)
(* what is added here is how the two nodes and the wire fit together.      *)
(***************************************************************************)
EXTENDS TcpclSession, TcpclTxProofs, TcpclRxProofs

USE DEF bpVars, senderVars, termVars, listVars, flagVars, xferVars, reportVars, xmitVars,
        rxTermVars, rxSegVars, bufVars, dlvVars

-----------------------------------------------------------------------------
(* The inductive invariant. *)

SegmentMessages ==
    [type : {"XFER_SEGMENT"}, id : Nat, start : BOOLEAN, end : BOOLEAN, len : {1},
     ext : {"none"}, off : Nat]

WireMessages ==
    SegmentMessages
    \cup [type : {"MSG_REJECT"}, of : {"XFER_ACK", "XFER_REFUSE"}]
    \cup [type : {"SESS_TERM"}, reply : BOOLEAN]

\* Where on the wire the segments are.
Places(w) == {i \in DOMAIN w : w[i].type = "XFER_SEGMENT"}
OnWire == Places(wire)

\* The length of A's transfer number n, whose id is n - 1, when x is xferOf.
Size(x, n) == Length[x[n]]

\* The transmit thread has a transfer in its hands.
Writing == xpc \in {"write", "check", "letgo"}

\* xferOf records the transfers, and the window holds the latest of each bundle.
\* The peer never claims to have a bundle already (COMPLETED).
XfersOK ==
    /\ xferOf \in Seq(Bundles) /\ Len(xferOf) = nextTxId
    /\ \A b \in ToSet(txWindow) :
          transferId[b] + 1 \in 1 .. nextTxId /\ xferOf[transferId[b] + 1] = b
    /\ Writing => transferId[xBundle] + 1 = nextTxId
    /\ completed = {}

\* A transfer is let go with its END or a failure, unless it was refused; after a
\* failure no other one is begun.
WriterOK ==
    /\ Writing => xOff <= Length[xBundle]
    /\ xpc \in {"check", "letgo"} /\ ~xFailed => xOff > 0
    /\ xpc = "letgo" /\ xFailed => xOff < Length[xBundle]
    /\ xFailed => xpc \in {"letgo", "report", "exited"}

\* What a segment of a transfer is, and the order of two of them.
SegmentOK(m, x) ==
    /\ m.off < Size(x, m.id + 1)
    /\ m.start <=> m.off = 0
    /\ m.end <=> m.off + 1 = Size(x, m.id + 1)
Before(m1, m2) == m1.id < m2.id \/ (m1.id = m2.id /\ m1.off < m2.off)

SegmentsOK ==
    /\ wire \in Seq(WireMessages)
    /\ \A i \in OnWire : wire[i].id < nextTxId /\ SegmentOK(wire[i], xferOf)
    /\ Writing => \A i \in OnWire : wire[i].id + 1 = nextTxId => wire[i].off < xOff
    /\ \A i, j \in OnWire : i < j => Before(wire[i], wire[j])

\* What precedes octet off of transfer n is on the wire w before place i, or is the
\* last that B has read of the transfers p: an octet of it, or of the one before.
Joined(w, p, n, off, i) ==
    IF off = 0 THEN (\E h \in Places(w) : h < i /\ w[h].id + 2 = n) \/ Len(p) + 1 = n
    ELSE \/ \E h \in Places(w) : h < i /\ w[h].id + 1 = n /\ w[h].off + 1 = off
         \/ Len(p) = n /\ p[n] = off

\* B is still in its message loop.
Reading == rxPc \in {"loop", "refuse", "data", "ack", "handover"}

\* The octet that the transmit thread writes next.
NextXfer == IF Writing THEN nextTxId ELSE nextTxId + 1
NextOff == IF Writing THEN xOff ELSE 0

\* Nothing is missing between what B has read, the wire, and what A writes next.
NoGap ==
    Reading =>
        /\ \A i \in OnWire : Joined(wire, peerSent, wire[i].id + 1, wire[i].off, i)
        /\ xFailed \/ Joined(wire, peerSent, NextXfer, NextOff, Len(wire) + 1)

\* B counts transfers as A numbers them, and knows the end of each for what it is.
ReceivedOK ==
    /\ serial <= nextTxId
    /\ \A n \in 1 .. serial : peerSent[n] \in 1 .. Size(xferOf, n)
    /\ Writing /\ serial = nextTxId => peerSent[serial] <= xOff
    /\ Receiving => rxId + 1 = serial
    /\ rxPc \in {"refuse", "data"} =>
          seg.len = 1 /\ (seg.end <=> peerSent[serial] = Size(xferOf, serial))
    /\ rxPc = "handover" => peerSent[serial] = Size(xferOf, serial)
    /\ rxPc = "ack" => peerSent[serial] < Size(xferOf, serial)
    /\ dlvPending => dlvId + 1 = dlvSerial /\ peerSent[dlvSerial] = Size(xferOf, dlvSerial)

\* So what BP has acquired are whole bundles of A, and an acknowledgment of the
\* whole length is that of the END.
DeliveryOK(d, x, p) == d.id + 1 = d.n /\ p[d.n] = Size(x, d.n)
ReplyOK(m, x) ==
    /\ m.id + 1 = m.n
    /\ m.type = "XFER_ACK" => m.len \in 1 .. Size(x, m.n) /\ (m.end <=> m.len = Size(x, m.n))

AnswersOK ==
    /\ \A i \in 1 .. Len(delivered) : DeliveryOK(delivered[i], xferOf, peerSent)
    /\ \A i \in Replies : ReplyOK(toPeer[i], xferOf)

\* A knows a bundle to be acknowledged only if B's BP has it.
AckedOK == acked \subseteq Acquired

HandoverInv == /\ TxInv /\ RxInv /\ XfersOK /\ WriterOK /\ SegmentsOK /\ NoGap
               /\ ReceivedOK /\ AnswersOK /\ AckedOK

\* How much of transfer n A has been told B has, while it is the oldest one.
Heard(n) ==
    IF txWindow # <<>> /\ transferId[Head(txWindow)] + 1 = n THEN txAckedLen ELSE 0

\* Every acknowledgment of transfer n so far was of less than len octets.
AckPlaces(n) == {i \in Replies : toPeer[i].type = "XFER_ACK" /\ toPeer[i].n = n}
Below(n, len) == Heard(n) < len /\ \A i \in AckPlaces(n) : toPeer[i].len < len

\* What the receiver's next acknowledgment will say, and the delivery thread's.
NextAck == IF rxPc \in {"ack", "handover"} THEN rxLen ELSE rxLen + 1
WillAck(n, len) ==
    \/ Receiving /\ ~rxRefused /\ n = serial /\ len = NextAck
    \/ /\ dlvPending /\ dlvPc \in {"wait", "deliver", "ack"}
       /\ n = dlvSerial /\ len = dlvLen

\* Acknowledgments of a transfer grow strictly, so A never takes one for nonsense.
AcksGrow ==
    /\ \A n \in Nat : \A i, j \in AckPlaces(n) : i < j => toPeer[i].len < toPeer[j].len
    /\ \A n \in Nat : \A i \in AckPlaces(n) : Heard(n) < toPeer[i].len
    /\ \A n \in Nat : n > serial => Heard(n) = 0
    /\ txWindow = <<>> => txAckedLen = 0 \/ txStopped
    /\ \A n, len \in Nat : WillAck(n, len) => Below(n, len)

\* B has not delivered transfer n and is not about to.
NotDue(n) ==
    /\ \A i \in 1 .. Len(delivered) : delivered[i].n # n
    /\ ~(dlvPending /\ dlvPc \in {"wait", "deliver"} /\ dlvSerial = n)
    /\ ~(rxPc = "handover" /\ serial = n)
    /\ ~(rxPc = "data" /\ ~rxRefused /\ seg.end /\ serial = n)

\* B is past transfer n or refuses it; or A cut it short and its END never comes.
Past(n) == serial > n \/ (serial = n /\ (rxActive => rxRefused))
CutShort(n) ==
    /\ xFailed /\ nextTxId = n
    /\ \A i \in OnWire : wire[i].id + 1 = n => ~wire[i].end

NeverDelivered(n) == NotDue(n) /\ (Past(n) \/ CutShort(n))

\* A refusal of transfer n is on its way to A.
Refusal(n) == \E i \in Replies : toPeer[i].type = "XFER_REFUSE" /\ toPeer[i].n = n

DrainDone == cpc \in {"report", "freed"}

\* A has not given up on the latest transfer of bundle b.
Kept(b) ==
    /\ b \notin refused
    /\ b \in ToSet(txWindow) \/ (b \in acked /\ b \in sent \cup Finished)

\* Every transfer is the latest of its bundle and not given up, or will never be
\* delivered; and what B refuses is never delivered.
Standing(n) == transferId[xferOf[n]] + 1 = n /\ (DrainDone \/ Kept(xferOf[n]))
TransfersOK == \A n \in 1 .. nextTxId : NeverDelivered(n) \/ Standing(n)
RefusalsOK == \A n \in Nat : Refusal(n) => NotDue(n) /\ Past(n)

FateOK ==
    /\ TransfersOK /\ RefusalsOK
    /\ DrainDone => txStopped
    /\ \A b \in ToSet(txQueue) : b \notin refused

OnceInv == HandoverInv /\ AcksGrow /\ FateOK

-----------------------------------------------------------------------------
(* The wire. *)

LEMMA WireFacts ==
    ASSUME wire \in Seq(WireMessages)
    PROVE  /\ Len(wire) \in Nat /\ DOMAIN wire = 1 .. Len(wire) /\ OnWire \subseteq 1 .. Len(wire)
           /\ \A i \in OnWire : /\ wire[i].id \in Nat /\ wire[i].off \in Nat /\ wire[i].len = 1
                                /\ wire[i].start \in BOOLEAN /\ wire[i].end \in BOOLEAN
                                /\ wire[i].ext = "none"
<1>1. Len(wire) \in Nat /\ DOMAIN wire = 1 .. Len(wire)
  OBVIOUS
<1>2. ASSUME NEW i \in OnWire PROVE wire[i] \in SegmentMessages
  <2>1. wire[i] \in WireMessages /\ wire[i].type = "XFER_SEGMENT"
    BY <1>1, <1>2 DEF OnWire, Places
  <2> QED
    BY <2>1 DEF WireMessages, SegmentMessages
<1> QED
  BY <1>1, <1>2 DEF OnWire, Places, SegmentMessages

\* A message that is no segment goes behind the others, or none does.
WireSame == OnWire' = OnWire /\ \A i \in OnWire : wire'[i] = wire[i]

LEMMA WireSilent ==
    ASSUME wire \in Seq(WireMessages),
           \/ wire' = wire
           \/ \E m \in WireMessages : m.type # "XFER_SEGMENT" /\ wire' = Append(wire, m)
    PROVE  /\ WireSame /\ wire' \in Seq(WireMessages) /\ Len(wire') \in Nat
           /\ Len(wire) <= Len(wire')
<1>1. CASE wire' = wire
  BY <1>1 DEF WireSame, OnWire, Places
<1>2. ASSUME NEW m \in WireMessages, m.type # "XFER_SEGMENT", wire' = Append(wire, m)
      PROVE  /\ WireSame /\ wire' \in Seq(WireMessages) /\ Len(wire') \in Nat
             /\ Len(wire) <= Len(wire')
  <2>1. /\ DOMAIN wire = 1 .. Len(wire) /\ DOMAIN wire' = 1 .. Len(wire) + 1
        /\ \A i \in 1 .. Len(wire) : wire'[i] = wire[i]
        /\ wire'[Len(wire) + 1] = m /\ Len(wire) \in Nat /\ Len(wire') = Len(wire) + 1
        /\ wire' \in Seq(WireMessages)
    BY <1>2
  <2>2. OnWire' = {i \in DOMAIN wire' : wire'[i].type = "XFER_SEGMENT"}
    BY DEF OnWire, Places
  <2>3. OnWire' = OnWire
    <3>1. Len(wire) + 1 \notin OnWire'
      BY <1>2, <2>1, <2>2
    <3>2. \A i \in 1 .. Len(wire) : i \in OnWire' <=> i \in OnWire
      BY <2>1, <2>2 DEF OnWire, Places
    <3>3. OnWire \subseteq 1 .. Len(wire) /\ OnWire' \subseteq 1 .. Len(wire)
      BY <2>1, <2>2, <3>1 DEF OnWire, Places
    <3> QED
      BY <3>2, <3>3
  <2> QED
    BY <2>1, <2>3 DEF WireSame, OnWire, Places
<1> QED
  BY <1>1, <1>2

LEMMA WireWrite ==
    ASSUME wire \in Seq(WireMessages), NEW m \in SegmentMessages, wire' = Append(wire, m)
    PROVE  /\ OnWire' = OnWire \cup {Len(wire) + 1} /\ wire'[Len(wire) + 1] = m
           /\ \A i \in OnWire : wire'[i] = wire[i] /\ i < Len(wire) + 1
           /\ wire' \in Seq(WireMessages) /\ Len(wire') = Len(wire) + 1 /\ Len(wire) \in Nat
<1>0. m \in WireMessages /\ m.type = "XFER_SEGMENT"
  BY DEF WireMessages, SegmentMessages
<1>1. /\ DOMAIN wire = 1 .. Len(wire) /\ DOMAIN wire' = 1 .. Len(wire) + 1
      /\ \A i \in 1 .. Len(wire) : wire'[i] = wire[i]
      /\ wire'[Len(wire) + 1] = m /\ Len(wire) \in Nat /\ Len(wire') = Len(wire) + 1
      /\ wire' \in Seq(WireMessages)
  BY <1>0
<1>2. OnWire' = {i \in DOMAIN wire' : wire'[i].type = "XFER_SEGMENT"}
  BY DEF OnWire, Places
<1>3. OnWire' = OnWire \cup {Len(wire) + 1}
  BY <1>0, <1>1, <1>2 DEF OnWire, Places
<1> QED
  BY <1>1, <1>3 DEF OnWire, Places

\* B takes the first message off the wire.
LEMMA WireRead ==
    ASSUME wire \in Seq(WireMessages), wire # <<>>, wire' = Tail(wire)
    PROVE  /\ \A i \in OnWire' : i + 1 \in OnWire /\ wire'[i] = wire[i + 1] /\ i \in Nat \ {0}
           /\ \A i \in OnWire : i # 1 => i - 1 \in OnWire' /\ i - 1 \in Nat
           /\ wire' \in Seq(WireMessages) /\ Len(wire') = Len(wire) - 1 /\ Len(wire) \in Nat \ {0}
           /\ Head(wire) = wire[1] /\ Head(wire) \in WireMessages
           /\ Head(wire).type = "XFER_SEGMENT" => 1 \in OnWire
<1>1. /\ DOMAIN wire = 1 .. Len(wire) /\ DOMAIN wire' = 1 .. Len(wire) - 1
      /\ \A i \in 1 .. Len(wire) - 1 : wire'[i] = wire[i + 1]
      /\ Len(wire) \in Nat \ {0} /\ Len(wire') = Len(wire) - 1
      /\ wire' \in Seq(WireMessages) /\ Head(wire) = wire[1] /\ Head(wire) \in WireMessages
  OBVIOUS
<1>2. OnWire' = {i \in DOMAIN wire' : wire'[i].type = "XFER_SEGMENT"}
  BY DEF OnWire, Places
<1>3. \A i \in OnWire' : i + 1 \in OnWire /\ wire'[i] = wire[i + 1] /\ i \in Nat \ {0}
  BY <1>1, <1>2 DEF OnWire, Places
<1>4. ASSUME NEW i \in OnWire, i # 1 PROVE i - 1 \in OnWire' /\ i - 1 \in Nat
  <2>1. i \in 1 .. Len(wire) /\ i - 1 \in 1 .. Len(wire) - 1 /\ wire[i].type = "XFER_SEGMENT"
    BY <1>1, <1>4 DEF OnWire, Places
  <2>2. wire'[i - 1] = wire[i]
    BY <1>1, <2>1
  <2> QED
    BY <1>1, <1>2, <2>1, <2>2
<1> QED
  BY <1>1, <1>3, <1>4 DEF OnWire, Places

\* A takes the first message off toPeer.
LEMMA PeerRead ==
    ASSUME LogsOK, toPeer # <<>>, toPeer' = Tail(toPeer)
    PROVE  /\ \A i \in Replies' : i + 1 \in Replies /\ toPeer'[i] = toPeer[i + 1] /\ i \in Nat \ {0}
           /\ toPeer' \in Seq(Messages) /\ Head(toPeer) = toPeer[1] /\ Head(toPeer) \in Messages
           /\ Head(toPeer).type \in {"XFER_ACK", "XFER_REFUSE"} => 1 \in Replies
<1>1. /\ DOMAIN toPeer = 1 .. Len(toPeer) /\ DOMAIN toPeer' = 1 .. Len(toPeer) - 1
      /\ \A i \in 1 .. Len(toPeer) - 1 : toPeer'[i] = toPeer[i + 1]
      /\ Len(toPeer) \in Nat \ {0} /\ toPeer' \in Seq(Messages)
      /\ Head(toPeer) = toPeer[1] /\ Head(toPeer) \in Messages
  BY DEF LogsOK
<1>2. Replies' = {i \in DOMAIN toPeer' : toPeer'[i].type \in {"XFER_ACK", "XFER_REFUSE"}}
  BY DEF Replies
<1> QED
  BY <1>1, <1>2 DEF Replies

-----------------------------------------------------------------------------
(* Each node's step is a step of its own module. *)

\* A takes a message and B does nothing.
ReadsOne ==
    /\ toPeer # <<>> /\ toPeer' = Tail(toPeer)
    /\ UNCHANGED <<rxState, rxTermSent, rxFailed, rxPc, rxClk, seg, rxSegVars, bufVars, dlvVars,
                   delivered, peerSent, rxSegs>>

LEMMA ReadIsTx ==
    ASSUME LogsOK, ARead
    PROVE  [AnyNext]_vars
<1>1. PICK m : m = Head(toPeer)
  OBVIOUS
<1>2. m \in Messages
  BY <1>1, PeerRead DEF ARead
<1>3. CASE m.type = "XFER_ACK"
  <2>1. m.id \in Nat /\ m.len \in Nat
    BY <1>2, <1>3 DEF Messages
  <2>2. AHandleAck(m)
    BY <1>1, <1>3 DEF ARead, AHandle
  <2> QED
    BY <2>1, <2>2 DEF AHandleAck, AnyNext, AnyRecv
<1>4. CASE m.type = "XFER_REFUSE"
  <2>1. m.id \in Nat /\ (m.reason = "COMPLETED") \in BOOLEAN
    BY <1>2, <1>4 DEF Messages
  <2>2. AHandleRefuse(m)
    BY <1>1, <1>4 DEF ARead, AHandle
  <2> QED
    BY <2>1, <2>2 DEF AHandleRefuse, AnyNext, AnyRecv
<1>5. CASE m.type = "MSG_REJECT"
  BY <1>1, <1>5 DEF ARead, AHandle, AHandleReject, AnyNext, AnyRecv
<1>6. CASE m.type = "SESS_TERM"
  <2>1. m.reply \in BOOLEAN
    BY <1>2, <1>6 DEF Messages
  <2> QED
    BY <1>1, <1>6, <2>1 DEF ARead, AHandle, AnyNext, AnyRecv
<1>7. m.type \in {"XFER_ACK", "XFER_REFUSE", "MSG_REJECT", "SESS_TERM"}
  BY <1>2 DEF Messages
<1> QED
  BY <1>3, <1>4, <1>5, <1>6, <1>7

LEMMA SessIsTx ==
    ASSUME LogsOK, [SessNext]_sessVars
    PROVE  [AnyNext]_vars
<1>1. CASE AXmit
  BY <1>1 DEF AXmit, Xmit, AnyNext
<1>2. CASE ANext \/ ATermStop
  BY <1>2 DEF ANext, ATermStop, AnyNext, AnyRecv
<1>3. CASE AIdleStop
  BY <1>3 DEF AIdleStop, Clock, AnyNext
<1>4. CASE AOther
  BY <1>4 DEF AOther, Clock, AnyNext, AnyRecv
<1>5. CASE NodeB \/ UNCHANGED sessVars
  BY <1>5 DEF NodeB, BRead, BOther, sessVars
<1> QED
  BY <1>1, <1>2, <1>3, <1>4, <1>5, ReadIsTx DEF SessNext, NodeA

LEMMA SegmentType ==
    ASSUME NEW m \in WireMessages, m.type = "XFER_SEGMENT"
    PROVE  Segment(m) \in SegmentRecords
<1>1. m \in SegmentMessages
  BY DEF WireMessages, SegmentMessages
<1> QED
  BY <1>1 DEF SegmentMessages, SegmentRecords, Segment, Extensions

LEMMA SessIsRx ==
    ASSUME wire \in Seq(WireMessages), [SessNext]_sessVars
    PROVE  [AnyRxNext]_rxVars \/ ReadsOne
<1>1. CASE AXmit \/ ANext \/ ATermStop \/ AIdleStop \/ AOther
  BY <1>1 DEF AXmit, ANext, ATermStop, AIdleStop, AOther
<1>2. CASE ARead
  BY <1>2 DEF ARead, ReadsOne
<1>3. CASE BOther
  BY <1>3 DEF BOther, AnyRxNext
<1>4. CASE BRead
  <2>1. PICK m : m = Head(wire)
    OBVIOUS
  <2>2. m \in WireMessages /\ BHandle(m)
    BY <1>4, <2>1, WireRead DEF BRead
  <2>3. CASE m.type = "XFER_SEGMENT"
    <3>1. RxHeader(Segment(m)) /\ Segment(m) \in SegmentRecords
      BY <2>2, <2>3, SegmentType DEF BHandle
    <3> QED
      BY <3>1 DEF AnyRxNext
  <2>4. CASE m.type = "SESS_TERM"
    <3>1. RxSessTerm(m.reply) /\ m.reply \in BOOLEAN
      BY <2>2, <2>4 DEF BHandle, WireMessages, SegmentMessages
    <3> QED
      BY <3>1 DEF AnyRxNext
  <2>5. CASE m.type = "MSG_REJECT"
    BY <2>2, <2>5 DEF BHandle, AnyRxNext
  <2>6. m.type \in {"XFER_SEGMENT", "SESS_TERM", "MSG_REJECT"}
    BY <2>2 DEF WireMessages, SegmentMessages
  <2> QED
    BY <2>3, <2>4, <2>5, <2>6
<1>5. CASE UNCHANGED sessVars
  BY <1>5 DEF sessVars
<1> QED
  BY <1>1, <1>2, <1>3, <1>4, <1>5 DEF SessNext, NodeA, NodeB

\* Taking a message off toPeer leaves what the others say.
LEMMA ReadKeepsRx ==
    ASSUME RxInv, ReadsOne
    PROVE  RxInv'
<1>1. /\ LogsOK /\ RxTypeOK' /\ ReceiverOK' /\ FillOK' /\ HandoffOK' /\ DeliveriesOK'
      /\ DeliveredIntact' /\ serial' = serial
  <2>1. /\ RxTypeOK /\ ReceiverOK /\ FillOK /\ HandoffOK /\ DeliveriesOK /\ DeliveredIntact
        /\ LogsOK /\ serial' = serial
    BY DEF RxInv, ReadsOne, serial
  <2>2. RxTypeOK'
    BY <2>1 DEF ReadsOne, RxTypeOK
  <2>3. ReceiverOK'
    BY <2>1 DEF ReadsOne, ReceiverOK, Receiving
  <2>4. FillOK'
    BY <2>1 DEF ReadsOne, FillOK, Filling, Receiving, Holds
  <2>5. HandoffOK'
    BY <2>1 DEF ReadsOne, HandoffOK, Holds
  <2>6. DeliveriesOK' /\ DeliveredIntact'
    BY <2>1 DEF ReadsOne, DeliveriesOK, DeliveredIntact
  <2> QED
    BY <2>1, <2>2, <2>3, <2>4, <2>5, <2>6
<1>2. /\ \A i \in Replies' : i + 1 \in Replies /\ toPeer'[i] = toPeer[i + 1] /\ i \in Nat \ {0}
      /\ LogsOK'
  BY <1>1, PeerRead DEF ReadsOne, LogsOK
<1>3. RepliesInOrder'
  <2>1. \A i, j \in Replies' : i < j => i + 1 < j + 1
    BY <1>2
  <2> QED
    BY <1>2, <2>1 DEF RxInv, RepliesInOrder
<1>4. EndAckMeansDelivered'
  <2>1. EndAckMeansDelivered /\ delivered' = delivered
    BY DEF RxInv, ReadsOne
  <2> QED
    BY <1>2, <2>1 DEF EndAckMeansDelivered
<1>5. RepliesOK'
  <2>1. RepliesOK
    BY DEF RxInv
  <2>2. UNCHANGED <<rxActive, rxPc, rxRefused, rxLen, dlvPending, dlvPc, dlvSerial, dlvLen>>
    BY DEF ReadsOne
  <2>3. \A i \in Replies' : toPeer'[i].n <= serial'
    BY <1>1, <1>2, <2>1 DEF RepliesOK
  <2>4. /\ Unanswered(serial, rxLen) => Unanswered(serial, rxLen)'
        /\ Unanswered(dlvSerial, dlvLen) => Unanswered(dlvSerial, dlvLen)'
    BY <1>1, <1>2, <2>2 DEF Unanswered
  <2> QED
    BY <2>1, <2>2, <2>3, <2>4 DEF RepliesOK, Receiving
<1> QED
  BY <1>1, <1>2, <1>3, <1>4, <1>5 DEF RxInv

LEMMA NodesStep ==
    ASSUME TxInv, RxInv, wire \in Seq(WireMessages), [SessNext]_sessVars
    PROVE  TxInv' /\ RxInv'
BY SessIsTx, SessIsRx, ReadKeepsRx, TxInvStep, RxInvStep DEF RxInv

-----------------------------------------------------------------------------
(* The steps of A that neither begin a transfer nor write a segment. *)

\* What they do to the transfers and to the transmit thread.
TxQuiet ==
    /\ UNCHANGED <<nextTxId, transferId>>
    /\ ToSet(txWindow') \subseteq ToSet(txWindow)
    /\ Writing' => Writing /\ UNCHANGED <<xBundle, xOff>>
    /\ xFailed => xFailed'
    /\ Writing /\ ~Writing' /\ ~xFailed' => xOff > 0
    /\ WriterOK'

\* They take at most one message off toPeer and write no segment.
WireQuiet ==
    /\ UNCHANGED <<xferOf, rxPc, seg, rxSegVars, dlvVars, delivered, peerSent>>
    /\ toPeer' = toPeer \/ ReadsOne
    /\ \/ wire' = wire
       \/ \E m \in WireMessages : m.type # "XFER_SEGMENT" /\ wire' = Append(wire, m)

LEMMA WindowShrinks ==
    ASSUME TxInv, NEW i \in 1 .. Len(txWindow), NEW t, NEW len, TxFinished(i, t, len)
    PROVE  ToSet(txWindow') \subseteq ToSet(txWindow)
<1>1. txWindow \in Seq(Bundles) /\ IsInjective(txWindow)
  BY DEF TxInv, Base, TypeInv, TypeOK, Custody, OneHolder
<1>2. txWindow' = RemoveAt(txWindow, i) \/ txWindow' = txWindow
  BY DEF TxFinished, Unlink
<1> QED
  BY <1>1, <1>2, RemoveAtSet

\* The transmit thread.
LEMMA XmitQuiet ==
    ASSUME TxInv, WriterOK,
           \/ XmitStart \/ XmitExit \/ XmitWriteFails \/ XmitCheck \/ XmitLetGo \/ XmitReport
           \/ XmitNext
    PROVE  TxQuiet /\ UNCHANGED <<completed, acked>>
<1>0. /\ xOff \in Nat /\ (xpc = "write" => xOff < Length[xBundle])
      /\ Writing => Length[xBundle] \in Nat
  <2>1. Writing => xBundle \in Bundles
    BY DEF Writing, TxInv, Base, TypeInv, TypeOK, HandsOK
  <2> QED
    BY <2>1, LengthAssumption DEF TxInv, Base, TypeInv, TypeOK, WrittenInv, WriterInv
<1>1. CASE XmitStart \/ XmitExit \/ XmitReport \/ XmitNext
  <2>1. /\ UNCHANGED <<nextTxId, transferId, txWindow, completed, acked, xFailed>>
        /\ ~Writing /\ ~Writing' /\ (xFailed => xpc' \in {"letgo", "report", "exited"})
    BY <1>1 DEF XmitStart, XmitExit, XmitReport, XmitNext, Writing, WriterOK
  <2>2. WriterOK'
    BY <2>1 DEF WriterOK, Writing
  <2> QED
    BY <2>1, <2>2 DEF TxQuiet
<1>2. CASE XmitWriteFails
  <2>1. /\ UNCHANGED <<nextTxId, transferId, txWindow, completed, acked, xOff, xBundle>>
        /\ xpc = "write" /\ xpc' = "letgo" /\ xFailed'
    BY <1>2 DEF XmitWriteFails
  <2>2. WriterOK'
    BY <1>0, <2>1 DEF WriterOK, Writing
  <2> QED
    BY <2>1, <2>2 DEF TxQuiet, Writing
<1>3. CASE XmitCheck
  <2>1. /\ UNCHANGED <<nextTxId, transferId, txWindow, completed, acked, xOff, xBundle, xFailed>>
        /\ xpc = "check" /\ xpc' \in {"write", "letgo"}
    BY <1>3 DEF XmitCheck
  <2>2. WriterOK'
    BY <1>0, <2>1 DEF WriterOK, Writing
  <2> QED
    BY <2>1, <2>2 DEF TxQuiet, Writing
<1>4. CASE XmitLetGo
  <2>1. /\ UNCHANGED <<nextTxId, transferId, completed, acked, xOff, xBundle, xFailed>>
        /\ xpc = "letgo" /\ xpc' = "report"
    BY <1>4 DEF XmitLetGo
  <2>2. ToSet(txWindow') \subseteq ToSet(txWindow)
    BY <1>4, WindowShrinks DEF XmitLetGo
  <2>3. WriterOK'
    BY <1>0, <2>1 DEF WriterOK, Writing
  <2>4. ~xFailed => xOff > 0
    BY <2>1 DEF WriterOK
  <2> QED
    BY <2>1, <2>2, <2>3, <2>4 DEF TxQuiet, Writing
<1> QED
  BY <1>1, <1>2, <1>3, <1>4

\* The other threads of A.
LEMMA OthersQuiet ==
    ASSUME TxInv, WriterOK,
           UNCHANGED <<nextTxId, transferId, xBundle, xOff, xFailed>>,
           xpc' = xpc \/ (xpc = "none" /\ xpc' \in {"none", "start"}),
           ToSet(txWindow') \subseteq ToSet(txWindow)
    PROVE  TxQuiet
<1>1. Writing' <=> Writing
  BY DEF Writing
<1>2. WriterOK'
  BY DEF WriterOK, Writing
<1> QED
  BY <1>1, <1>2 DEF TxQuiet

\* None of them says that the peer has the bundle but the handlers of acknowledgments
\* and refusals.
LEMMA OthersMarkNone ==
    ASSUME TxInv, WriterOK,
           \/ (\E s \in Senders : Sender(s)) \/ RecvOpen \/ RecvReport \/ RecvLeaveLoop
           \/ RecvConnFail \/ RecvTxStop \/ RecvJoin \/ RecvDone \/ RecvNext \/ RecvTermStop
           \/ RecvMsgReject \/ (\E reply \in BOOLEAN : RecvSessTerm(reply)) \/ Clock \/ ConnFail
    PROVE  TxQuiet /\ acked' \subseteq acked /\ completed' \subseteq completed
<1>1. /\ UNCHANGED <<nextTxId, transferId, xBundle, xOff, xFailed>>
      /\ acked' \subseteq acked /\ completed' \subseteq completed
  <2>1. CASE \E s \in Senders : Sender(s)
    BY <2>1 DEF Sender, SenderDequeue, SenderClaim, SenderDecline, QueuePrepare, QueueXfer,
                QueueRefuse, SenderRelease
  <2>2. CASE \/ RecvOpen \/ RecvReport \/ RecvLeaveLoop \/ RecvConnFail \/ RecvTxStop \/ RecvJoin
             \/ RecvDone \/ RecvNext \/ RecvTermStop \/ RecvMsgReject
             \/ \E reply \in BOOLEAN : RecvSessTerm(reply)
    BY <2>2 DEF RecvOpen, RecvReport, RecvLeaveLoop, RecvConnFail, RecvTxStop, RecvJoin, RecvDone,
                RecvNext, RecvTermStop, RecvMsgReject, RecvSessTerm
  <2>3. CASE Clock \/ ConnFail
    BY <2>3 DEF Clock, ClockIdleTerm, ClockTxStop, ClockReap, TxDrain, DrainReport, FreeConn,
                ConnFail
  <2> QED
    BY <2>1, <2>2, <2>3
<1>2. xpc' = xpc \/ (xpc = "none" /\ xpc' \in {"none", "start"})
  <2>1. CASE \E s \in Senders : Sender(s)
    BY <2>1 DEF Sender, SenderDequeue, SenderClaim, SenderDecline, QueuePrepare, QueueXfer,
                QueueRefuse, SenderRelease
  <2>2. CASE RecvOpen
    BY <2>2 DEF RecvOpen, TxInv, WindowInv, OpenFirst
  <2>3. CASE \/ RecvReport \/ RecvLeaveLoop \/ RecvConnFail \/ RecvTxStop \/ RecvJoin
             \/ RecvDone \/ RecvNext \/ RecvTermStop \/ RecvMsgReject
             \/ \E reply \in BOOLEAN : RecvSessTerm(reply)
    BY <2>3 DEF RecvReport, RecvLeaveLoop, RecvConnFail, RecvTxStop, RecvJoin, RecvDone,
                RecvNext, RecvTermStop, RecvMsgReject, RecvSessTerm
  <2>4. CASE Clock \/ ConnFail
    BY <2>4 DEF Clock, ClockIdleTerm, ClockTxStop, ClockReap, TxDrain, DrainReport, FreeConn,
                ConnFail
  <2> QED
    BY <2>1, <2>2, <2>3, <2>4
<1>3. txWindow' = txWindow \/ txWindow' = <<>>
  <2>1. CASE \E s \in Senders : Sender(s)
    BY <2>1 DEF Sender, SenderDequeue, SenderClaim, SenderDecline, QueuePrepare, QueueXfer,
                QueueRefuse, SenderRelease
  <2>2. CASE \/ RecvOpen \/ RecvReport \/ RecvLeaveLoop \/ RecvConnFail \/ RecvTxStop \/ RecvJoin
             \/ RecvDone \/ RecvNext \/ RecvTermStop \/ RecvMsgReject
             \/ \E reply \in BOOLEAN : RecvSessTerm(reply)
    BY <2>2 DEF RecvOpen, RecvReport, RecvLeaveLoop, RecvConnFail, RecvTxStop, RecvJoin, RecvDone,
                RecvNext, RecvTermStop, RecvMsgReject, RecvSessTerm
  <2>3. CASE Clock \/ ConnFail
    BY <2>3 DEF Clock, ClockIdleTerm, ClockTxStop, ClockReap, TxDrain, DrainReport, FreeConn,
                ConnFail
  <2> QED
    BY <2>1, <2>2, <2>3
<1>4. ToSet(txWindow') \subseteq ToSet(txWindow)
  BY <1>3 DEF ToSet
<1> QED
  BY <1>1, <1>2, <1>4, OthersQuiet

\* What holds of the wire and of B is kept by such a step.
LEMMA QuietXfers ==
    ASSUME TxInv, XfersOK, TxQuiet, WireQuiet, completed' \subseteq completed
    PROVE  XfersOK'
<1>1. completed' = {}
  BY DEF XfersOK
<1>2. \A b \in ToSet(txWindow') :
         transferId'[b] + 1 \in 1 .. nextTxId' /\ xferOf'[transferId'[b] + 1] = b
  BY DEF XfersOK, TxQuiet, WireQuiet
<1>3. Writing' => transferId'[xBundle'] + 1 = nextTxId'
  BY DEF XfersOK, TxQuiet
<1> QED
  BY <1>1, <1>2, <1>3 DEF XfersOK, TxQuiet, WireQuiet

LEMMA QuietSegments ==
    ASSUME SegmentsOK, TxQuiet, WireQuiet
    PROVE  /\ SegmentsOK' /\ WireSame /\ Len(wire) \in Nat /\ Len(wire') \in Nat
           /\ Len(wire) <= Len(wire')
<1>1. /\ WireSame /\ wire' \in Seq(WireMessages) /\ Len(wire') \in Nat /\ Len(wire) <= Len(wire')
      /\ Len(wire) \in Nat
  BY WireSilent, WireFacts DEF SegmentsOK, WireQuiet
<1>2. nextTxId' = nextTxId /\ xferOf' = xferOf /\ (Writing' => Writing /\ xOff' = xOff)
  BY DEF TxQuiet, WireQuiet
<1>3. SegmentsOK'
  BY <1>1, <1>2 DEF SegmentsOK, WireSame
<1> QED
  BY <1>1, <1>3

\* What is joined stays so when more is written behind it; an octet of a transfer that
\* is joined has the next transfer behind it.
LEMMA JoinedKept ==
    ASSUME NEW w, NEW v, NEW p, NEW n, NEW off, NEW i, NEW j, Joined(w, p, n, off, i),
           \A h \in Places(w) : h < i => h \in Places(v) /\ v[h] = w[h] /\ h < j
    PROVE  Joined(v, p, n, off, j)
BY DEF Joined

LEMMA JoinedNext ==
    ASSUME NEW w, NEW p, NEW n \in Nat, NEW off \in Nat \ {0}, NEW i, Joined(w, p, n, off, i),
           \A h \in Places(w) : w[h].id \in Nat
    PROVE  Joined(w, p, n + 1, 0, i)
BY DEF Joined

LEMMA QuietNoGap ==
    ASSUME TxInv, SegmentsOK, NoGap, TxQuiet, WireQuiet
    PROVE  NoGap'
<1>1. /\ WireSame /\ Len(wire) \in Nat /\ Len(wire') \in Nat /\ Len(wire) <= Len(wire')
      /\ OnWire \subseteq 1 .. Len(wire) /\ (\A i \in OnWire : wire[i].id \in Nat)
      /\ nextTxId \in Nat /\ xOff \in Nat
  BY QuietSegments, WireFacts DEF SegmentsOK, TxInv, Base, TypeInv, TypeOK
<1>2. peerSent' = peerSent /\ (Reading' <=> Reading) /\ nextTxId' = nextTxId
  BY DEF WireQuiet, TxQuiet, Reading
<1>3. OnWire = Places(wire) /\ OnWire' = Places(wire') /\ OnWire' = OnWire
      /\ \A i \in OnWire : wire'[i] = wire[i]
  BY <1>1 DEF WireSame, OnWire
<1>4. SUFFICES ASSUME Reading PROVE NoGap'
  BY <1>2 DEF NoGap
<1>5. ASSUME NEW i \in OnWire'
      PROVE  Joined(wire', peerSent', wire'[i].id + 1, wire'[i].off, i)
  <2>1. Joined(wire, peerSent, wire[i].id + 1, wire[i].off, i)
    BY <1>3, <1>4 DEF NoGap
  <2> QED
    BY <1>2, <1>3, <2>1, JoinedKept
<1>6. ASSUME ~xFailed'
      PROVE  Joined(wire', peerSent', NextXfer', NextOff', Len(wire') + 1)
  <2>1. ~xFailed /\ Joined(wire, peerSent, NextXfer, NextOff, Len(wire) + 1)
    BY <1>4, <1>6 DEF TxQuiet, NoGap
  <2>2. Joined(wire, peerSent, NextXfer', NextOff', Len(wire) + 1)
    <3>1. CASE NextXfer' = NextXfer /\ NextOff' = NextOff
      BY <2>1, <3>1
    <3>2. CASE Writing /\ ~Writing'
      <4>1. xOff > 0 /\ NextXfer = nextTxId /\ NextOff = xOff /\ NextXfer' = nextTxId + 1
            /\ NextOff' = 0
        BY <1>2, <1>6, <3>2 DEF TxQuiet, NextXfer, NextOff
      <4> QED
        BY <1>1, <1>3, <2>1, <4>1, JoinedNext
    <3> QED
      BY <1>2, <3>1, <3>2 DEF TxQuiet, NextXfer, NextOff
  <2>3. \A h \in Places(wire) : h \in Places(wire') /\ wire'[h] = wire[h] /\ h < Len(wire') + 1
    BY <1>1, <1>3
  <2> QED
    BY <1>2, <2>2, <2>3, JoinedKept
<1> QED
  BY <1>5, <1>6 DEF NoGap

LEMMA QuietReceived ==
    ASSUME ReceivedOK, TxQuiet, WireQuiet
    PROVE  ReceivedOK'
<1>1. /\ UNCHANGED <<serial, nextTxId, rxPc, seg, rxId, rxActive, dlvPending, dlvId, dlvSerial,
                     peerSent, xferOf>>
      /\ Writing' => Writing /\ xOff' = xOff
      /\ Receiving' <=> Receiving
  BY DEF TxQuiet, WireQuiet, serial, Receiving
<1> QED
  BY <1>1 DEF ReceivedOK

LEMMA QuietAnswers ==
    ASSUME RxInv, AnswersOK, WireQuiet
    PROVE  AnswersOK' /\ Acquired' = Acquired
<1>1. UNCHANGED <<delivered, peerSent, xferOf>>
  BY DEF WireQuiet
<1>2. \A i \in Replies' : \E j \in Replies : toPeer'[i] = toPeer[j]
  <2>1. CASE toPeer' = toPeer
    BY <2>1 DEF Replies
  <2>2. CASE ReadsOne
    BY <2>2, PeerRead DEF ReadsOne, RxInv
  <2> QED
    BY <2>1, <2>2 DEF WireQuiet
<1>3. AnswersOK'
  BY <1>1, <1>2 DEF AnswersOK
<1> QED
  BY <1>1, <1>3 DEF Acquired

XmitRest == \/ XmitStart \/ XmitExit \/ XmitWriteFails \/ XmitCheck \/ XmitLetGo \/ XmitReport
            \/ XmitNext

\* The steps of A but the beginning of a transfer, the writing of a segment and the
\* reading of a message.
AQuiet ==
    \/ XmitRest /\ UNCHANGED <<rxVars, wire, unexpected, xferOf>>
    \/ ANext \/ ATermStop \/ AIdleStop \/ AOther

LEMMA RejectType ==
    /\ \A of \in {"XFER_ACK", "XFER_REFUSE"} :
          MsgReject(of) \in WireMessages /\ MsgReject(of).type # "XFER_SEGMENT"
    /\ \A reply \in BOOLEAN :
          SessTerm(reply) \in WireMessages /\ SessTerm(reply).type # "XFER_SEGMENT"
BY DEF MsgReject, SessTerm, WireMessages

LEMMA AQuietSteps ==
    ASSUME TxInv, WriterOK, AQuiet
    PROVE  /\ TxQuiet /\ WireQuiet /\ toPeer' = toPeer
           /\ acked' \subseteq acked /\ completed' \subseteq completed
<1>1. CASE XmitRest /\ UNCHANGED <<rxVars, wire, unexpected, xferOf>>
  <2>1. WireQuiet /\ toPeer' = toPeer
    BY <1>1 DEF WireQuiet, rxVars
  <2>2. TxQuiet /\ UNCHANGED <<completed, acked>>
    BY <1>1, XmitQuiet DEF XmitRest
  <2> QED
    BY <2>1, <2>2
<1>2. CASE ANext
  <2>1. WireQuiet /\ toPeer' = toPeer
    BY <1>2, RejectType DEF ANext, AWrites, WireQuiet, rxVars
  <2>2. RecvNext
    BY <1>2 DEF ANext
  <2> QED
    BY <2>1, <2>2, OthersMarkNone
<1>3. CASE ATermStop
  <2>1. WireQuiet /\ toPeer' = toPeer
    BY <1>3, RejectType DEF ATermStop, AWrites, WireQuiet, rxVars
  <2>2. RecvTermStop
    BY <1>3 DEF ATermStop
  <2> QED
    BY <2>1, <2>2, OthersMarkNone
<1>4. CASE AIdleStop
  <2>1. WireQuiet /\ toPeer' = toPeer
    BY <1>4, RejectType DEF AIdleStop, AWrites, WireQuiet, rxVars
  <2>2. Clock
    BY <1>4 DEF AIdleStop, Clock
  <2> QED
    BY <2>1, <2>2, OthersMarkNone
<1>5. CASE AOther
  <2>1. WireQuiet /\ toPeer' = toPeer
    BY <1>5 DEF AOther, WireQuiet, rxVars
  <2>2. \/ (\E s \in Senders : Sender(s)) \/ RecvOpen \/ RecvReport \/ RecvLeaveLoop
        \/ RecvConnFail \/ RecvTxStop \/ RecvJoin \/ RecvDone \/ Clock \/ ConnFail
    BY <1>5 DEF AOther, Clock
  <2> QED
    BY <2>1, <2>2, OthersMarkNone
<1> QED
  BY <1>1, <1>2, <1>3, <1>4, <1>5 DEF AQuiet

\* A handles a message of B.
LEMMA ReadSteps ==
    ASSUME TxInv, WriterOK, LogsOK, ARead
    PROVE  TxQuiet /\ WireQuiet /\ ReadsOne /\ completed' \subseteq completed
<1>1. PICK m : m = Head(toPeer)
  OBVIOUS
<1>2. m \in Messages /\ AHandle(m) /\ ReadsOne
  BY <1>1, PeerRead DEF ARead, ReadsOne
<1>3. ASSUME UNCHANGED vars PROVE TxQuiet /\ completed' \subseteq completed
  <2>1. /\ UNCHANGED <<nextTxId, transferId, xBundle, xOff, xFailed, xpc, txWindow>>
        /\ completed' \subseteq completed
    BY <1>3 DEF vars
  <2> QED
    BY <2>1, OthersQuiet
<1>4. CASE m.type = "XFER_ACK"
  <2>1. AHandleAck(m)
    BY <1>2, <1>4 DEF AHandle
  <2>2. WireQuiet
    BY <1>2, <2>1, RejectType DEF AHandleAck, AWrites, WireQuiet, ReadsOne, ARead
  <2>3. CASE RecvAck(m.id, m.len)
    <3>1. /\ UNCHANGED <<nextTxId, transferId, xBundle, xOff, xFailed, xpc>>
          /\ completed' \subseteq completed
      BY <2>3 DEF RecvAck
    <3>2. 1 \in 1 .. Len(txWindow)
      BY <2>3 DEF RecvAck, AckNamesHead, TxInv, Base, TypeInv, TypeOK
    <3>3. ToSet(txWindow') \subseteq ToSet(txWindow)
      <4>1. CASE txWindow' = txWindow
        BY <4>1
      <4>2. CASE \E len : TxFinished(1, "recv", len)
        BY <3>2, <4>2, WindowShrinks
      <4> QED
        BY <2>3, <4>1, <4>2 DEF RecvAck
    <3> QED
      BY <1>2, <2>2, <3>1, <3>3, OthersQuiet
  <2> QED
    BY <1>2, <1>3, <2>1, <2>2, <2>3 DEF AHandleAck
<1>5. CASE m.type = "XFER_REFUSE"
  <2>1. AHandleRefuse(m)
    BY <1>2, <1>5 DEF AHandle
  <2>2. WireQuiet
    BY <1>2, <2>1, RejectType DEF AHandleRefuse, AWrites, WireQuiet, ReadsOne, ARead
  <2>3. CASE RecvRefuse(m.id, m.reason = "COMPLETED")
    <3>1. m.reason # "COMPLETED"
      BY <1>2, <1>5 DEF Messages
    <3>2. /\ UNCHANGED <<nextTxId, transferId, xBundle, xOff, xFailed, xpc>>
          /\ completed' \subseteq completed
      BY <2>3, <3>1 DEF RecvRefuse
    <3>3. ToSet(txWindow') \subseteq ToSet(txWindow)
      BY <2>3, WindowShrinks DEF RecvRefuse
    <3> QED
      BY <1>2, <2>2, <3>2, <3>3, OthersQuiet
  <2> QED
    BY <1>2, <1>3, <2>1, <2>2, <2>3 DEF AHandleRefuse
<1>6. CASE m.type = "MSG_REJECT"
  <2>1. AHandleReject(m)
    BY <1>2, <1>6 DEF AHandle
  <2>2. WireQuiet /\ (RecvMsgReject \/ UNCHANGED vars)
    BY <1>2, <2>1 DEF AHandleReject, WireQuiet, ReadsOne, ARead
  <2> QED
    BY <1>2, <1>3, <2>2, OthersMarkNone
<1>7. CASE m.type = "SESS_TERM"
  <2>1. RecvSessTerm(m.reply) /\ UNCHANGED <<wire, unexpected>> /\ m.reply \in BOOLEAN
    BY <1>2, <1>7 DEF AHandle, Messages
  <2>2. WireQuiet
    BY <1>2, <2>1 DEF WireQuiet, ReadsOne, ARead
  <2> QED
    BY <1>2, <2>1, <2>2, OthersMarkNone
<1>8. m.type \in {"XFER_ACK", "XFER_REFUSE", "MSG_REJECT", "SESS_TERM"}
  BY <1>2 DEF Messages
<1> QED
  BY <1>4, <1>5, <1>6, <1>7, <1>8

\* An acknowledgment of the whole length is that of the END, and BP has the bundle.
LEMMA ReadAcked ==
    ASSUME TxInv, RxInv, WriterOK, XfersOK, AnswersOK, AckedOK, ARead
    PROVE  acked' \subseteq Acquired
<1>1. PICK m : m = Head(toPeer)
  OBVIOUS
<1>2. m \in Messages /\ AHandle(m) /\ LogsOK /\ m = toPeer[1]
      /\ (m.type = "XFER_ACK" => 1 \in Replies)
  BY <1>1, PeerRead DEF ARead, RxInv
<1>3. SUFFICES ASSUME ~(acked' \subseteq acked) PROVE acked' \subseteq Acquired
  BY DEF AckedOK
<1>4. m.type = "XFER_ACK" /\ RecvAck(m.id, m.len)
  <2>1. CASE m.type = "XFER_ACK"
    BY <1>2, <1>3, <2>1 DEF AHandle, AHandleAck, vars
  <2>2. CASE m.type = "XFER_REFUSE"
    BY <1>2, <1>3, <2>2 DEF AHandle, AHandleRefuse, RecvRefuse, vars
  <2>3. CASE m.type = "MSG_REJECT"
    BY <1>2, <1>3, <2>3 DEF AHandle, AHandleReject, RecvMsgReject, vars
  <2>4. CASE m.type = "SESS_TERM"
    BY <1>2, <1>3, <2>4 DEF AHandle, RecvSessTerm
  <2>5. m.type \in {"XFER_ACK", "XFER_REFUSE", "MSG_REJECT", "SESS_TERM"}
    BY <1>2 DEF Messages
  <2> QED
    BY <2>1, <2>2, <2>3, <2>4, <2>5
<1>5. PICK b : b = Head(txWindow)
  OBVIOUS
<1>6. acked' = acked \cup {b} /\ m.len = Length[b] /\ txWindow # <<>> /\ transferId[b] = m.id
  BY <1>3, <1>4, <1>5 DEF RecvAck, AckNamesHead
<1>7. b \in ToSet(txWindow)
  <2>1. txWindow \in Seq(Bundles)
    BY DEF TxInv, Base, TypeInv, TypeOK
  <2>2. b = txWindow[1] /\ 1 \in DOMAIN txWindow
    BY <1>5, <1>6, <2>1
  <2> QED
    BY <2>2 DEF ToSet
<1>8. xferOf[m.id + 1] = b
  BY <1>6, <1>7 DEF XfersOK
<1>9. m.id + 1 = m.n /\ m.end
  <2>1. ReplyOK(m, xferOf)
    BY <1>2, <1>4 DEF AnswersOK
  <2> QED
    BY <1>4, <1>6, <1>8, <2>1 DEF ReplyOK, Size
<1>10. PICK j \in 1 .. Len(delivered) : delivered[j].n = m.n
  BY <1>2, <1>4, <1>9 DEF RxInv, EndAckMeansDelivered
<1>11. delivered[j].id + 1 = m.id + 1
  BY <1>9, <1>10 DEF AnswersOK, DeliveryOK
<1> QED
  BY <1>6, <1>8, <1>11 DEF Acquired, AckedOK

\* So all the steps of A that neither begin a transfer nor write a segment keep it.
LEMMA QuietKeeps ==
    ASSUME HandoverInv, AQuiet \/ ARead
    PROVE  HandoverInv' /\ Acquired' = Acquired
<1>1. TxQuiet /\ WireQuiet /\ completed' \subseteq completed /\ acked' \subseteq Acquired
  <2>1. CASE AQuiet
    BY <2>1, AQuietSteps DEF HandoverInv, AckedOK
  <2>2. CASE ARead
    BY <2>2, ReadSteps, ReadAcked DEF HandoverInv, RxInv
  <2> QED
    BY <2>1, <2>2
<1>2. TxInv' /\ RxInv'
  <2>1. SessNext
    BY DEF AQuiet, XmitRest, SessNext, NodeA, AXmit
  <2> QED
    BY <2>1, NodesStep DEF HandoverInv, SegmentsOK
<1>3. XfersOK' /\ WriterOK' /\ SegmentsOK'
  BY <1>1, QuietXfers, QuietSegments DEF HandoverInv, TxQuiet
<1>4. NoGap' /\ ReceivedOK' /\ AnswersOK' /\ Acquired' = Acquired
  BY <1>1, QuietNoGap, QuietReceived, QuietAnswers DEF HandoverInv
<1>5. AckedOK'
  BY <1>1, <1>4 DEF AckedOK
<1> QED
  BY <1>2, <1>3, <1>4, <1>5 DEF HandoverInv

-----------------------------------------------------------------------------
(* A begins a transfer, or writes a segment of one. *)

ABegin == XmitTake /\ xferOf' = Append(xferOf, Head(txQueue)) /\ UNCHANGED <<rxVars, wire, unexpected>>

\* The types that matter.
LEMMA SessTypes ==
    ASSUME TxInv, RxInv, XfersOK, ReceivedOK, AnswersOK
    PROVE  /\ nextTxId \in Nat /\ xOff \in Nat /\ serial \in Nat /\ peerSent \in Seq(Nat)
           /\ \A n \in 1 .. serial : peerSent[n] \in Nat
           /\ \A n \in 1 .. nextTxId : xferOf[n] \in Bundles /\ Size(xferOf, n) \in Nat \ {0}
           /\ \A i \in 1 .. Len(delivered) :
                 delivered[i].n \in 1 .. serial /\ delivered[i].id + 1 = delivered[i].n
           /\ \A i \in Replies : toPeer[i].n \in 1 .. serial
           /\ Receiving => serial > 0
           /\ dlvPending => dlvSerial \in 1 .. serial
<1>1. nextTxId \in Nat /\ xOff \in Nat /\ serial \in Nat /\ peerSent \in Seq(Nat)
      /\ \A n \in 1 .. serial : peerSent[n] \in Nat
  BY DEF TxInv, Base, TypeInv, TypeOK, RxInv, RxTypeOK, serial
<1>2. \A n \in 1 .. nextTxId : xferOf[n] \in Bundles /\ Size(xferOf, n) \in Nat \ {0}
  BY <1>1, LengthAssumption DEF XfersOK, Size
<1>3. dlvSerial \in Nat /\ dlvSerial <= serial
  BY DEF RxInv, RxTypeOK, ReceiverOK
<1>4. \A i \in 1 .. Len(delivered) :
         delivered[i].n \in 1 .. serial /\ delivered[i].id + 1 = delivered[i].n
  BY <1>1, <1>3 DEF RxInv, DeliveriesOK, AnswersOK, DeliveryOK
<1>5. ASSUME NEW i \in Replies PROVE toPeer[i].n \in 1 .. serial
  <2>1. toPeer[i] \in Messages /\ toPeer[i].type \in {"XFER_ACK", "XFER_REFUSE"}
    BY DEF RxInv, LogsOK, Replies
  <2>2. toPeer[i].n \in Nat /\ toPeer[i].id \in Nat
    BY <2>1 DEF Messages
  <2>3. toPeer[i].n <= serial /\ toPeer[i].id + 1 = toPeer[i].n
    BY DEF RxInv, RepliesOK, AnswersOK, ReplyOK
  <2> QED
    BY <1>1, <2>2, <2>3
<1>6. (Receiving => serial > 0) /\ (dlvPending => dlvSerial \in 1 .. serial)
  BY <1>1, <1>3 DEF RxInv, ReceiverOK, HandoffOK
<1> QED
  BY <1>1, <1>2, <1>4, <1>5, <1>6

LEMMA BeginKeeps ==
    ASSUME HandoverInv, ABegin
    PROVE  HandoverInv' /\ Acquired' = Acquired
<1>0. /\ TxInv /\ RxInv /\ XfersOK /\ WriterOK /\ SegmentsOK /\ NoGap /\ ReceivedOK /\ AnswersOK
      /\ AckedOK
  BY DEF HandoverInv
<1>1. TxInv' /\ RxInv'
  <2>1. SessNext
    BY DEF ABegin, SessNext, NodeA, AXmit
  <2> QED
    BY <1>0, <2>1, NodesStep DEF SegmentsOK
<1>2. PICK b : b = Head(txQueue)
  OBVIOUS
<1>3. /\ b \in Bundles /\ b \in ToSet(txQueue) /\ b \notin ToSet(txWindow)
      /\ ToSet(txWindow') = ToSet(txWindow) \cup {b}
  <2>1. txQueue \in Seq(Bundles) /\ txWindow \in Seq(Bundles) /\ txQueue # <<>>
        /\ txWindow' = Append(txWindow, b)
    BY <1>0, <1>2 DEF TxInv, Base, TypeInv, TypeOK, ABegin, XmitTake
  <2>2. b = txQueue[1] /\ 1 \in DOMAIN txQueue /\ b \in Bundles
    BY <1>2, <2>1
  <2>3. b \in ToSet(txQueue)
    BY <2>2 DEF ToSet
  <2>4. b \notin ToSet(txWindow)
    BY <1>0, <2>3 DEF TxInv, Base, Custody, OneHolder
  <2> QED
    BY <2>1, <2>2, <2>3, <2>4, AppendFacts DEF TxInv, Base, Custody, OneHolder
<1>4. /\ nextTxId' = nextTxId + 1 /\ transferId' = [transferId EXCEPT ![b] = nextTxId]
      /\ transferId \in [Bundles -> Nat] /\ nextTxId \in Nat /\ Len(xferOf) = nextTxId
      /\ ~Writing /\ Writing' /\ xpc' = "write" /\ xBundle' = b /\ xOff' = 0 /\ ~xFailed /\ ~xFailed'
      /\ UNCHANGED <<completed, acked>>
  BY <1>0, <1>2 DEF TxInv, Base, TypeInv, TypeOK, ABegin, XmitTake, IdAfterTake, XfersOK, WriterOK,
                    Writing
<1>5. /\ xferOf' \in Seq(Bundles) /\ Len(xferOf') = nextTxId + 1 /\ xferOf'[nextTxId + 1] = b
      /\ \A n \in 1 .. nextTxId : xferOf'[n] = xferOf[n] /\ Size(xferOf', n) = Size(xferOf, n)
  <2>1. xferOf \in Seq(Bundles) /\ xferOf' = Append(xferOf, b)
    BY <1>0, <1>2 DEF XfersOK, ABegin
  <2> QED
    BY <1>3, <1>4, <2>1 DEF Size
<1>6. XfersOK'
  <2>1. ASSUME NEW c \in ToSet(txWindow')
        PROVE  transferId'[c] + 1 \in 1 .. nextTxId' /\ xferOf'[transferId'[c] + 1] = c
    <3>1. CASE c = b
      <4>1. transferId'[c] = nextTxId
        BY <1>3, <1>4, <3>1
      <4> QED
        BY <1>4, <1>5, <3>1, <4>1
    <3>2. CASE c # b
      <4>1. transferId'[c] = transferId[c] /\ c \in ToSet(txWindow)
        BY <1>3, <1>4, <3>2
      <4>2. transferId[c] + 1 \in 1 .. nextTxId /\ xferOf[transferId[c] + 1] = c
        BY <1>0, <4>1 DEF XfersOK
      <4> QED
        BY <1>4, <1>5, <4>1, <4>2
    <3> QED
      BY <3>1, <3>2
  <2>2. transferId'[xBundle'] + 1 = nextTxId'
    BY <1>3, <1>4
  <2>3. completed' = {}
    BY <1>0, <1>4 DEF XfersOK
  <2> QED
    BY <1>4, <1>5, <2>1, <2>2, <2>3 DEF XfersOK
<1>7. WriterOK'
  <2>1. Length[b] \in Nat \ {0}
    BY <1>3, LengthAssumption
  <2> QED
    BY <1>4, <2>1 DEF WriterOK
<1>8. UNCHANGED <<wire, serial, peerSent, delivered, toPeer, Replies, OnWire, rxPc, seg, rxId,
                  rxActive, dlvPending, dlvId, dlvSerial>>
  BY DEF ABegin, rxVars, serial, Replies, OnWire, Places
<1>9. /\ serial \in Nat /\ serial <= nextTxId
      /\ \A i \in 1 .. Len(delivered) :
            delivered[i].n \in 1 .. serial /\ delivered[i].id + 1 = delivered[i].n
      /\ \A i \in Replies : toPeer[i].n \in 1 .. serial
      /\ Receiving => serial > 0
      /\ dlvPending => dlvSerial \in 1 .. serial
  BY <1>0, SessTypes DEF ReceivedOK
<1>10. SegmentsOK'
  <2>1. ASSUME NEW i \in OnWire
        PROVE  /\ wire[i].id < nextTxId' /\ SegmentOK(wire[i], xferOf')
               /\ wire[i].id + 1 # nextTxId'
    <3>1. wire[i].id \in Nat /\ wire[i].id < nextTxId /\ SegmentOK(wire[i], xferOf)
      BY <1>0, WireFacts DEF SegmentsOK
    <3>2. Size(xferOf', wire[i].id + 1) = Size(xferOf, wire[i].id + 1)
      BY <1>4, <1>5, <3>1
    <3> QED
      BY <1>4, <3>1, <3>2 DEF SegmentOK
  <2> QED
    BY <1>0, <1>8, <2>1 DEF SegmentsOK
<1>11. NoGap'
  <2>1. NextXfer' = NextXfer /\ NextOff' = NextOff
    BY <1>4 DEF NextXfer, NextOff
  <2>2. Reading' <=> Reading
    BY <1>8 DEF Reading
  <2> QED
    BY <1>0, <1>4, <1>8, <2>1, <2>2 DEF NoGap
<1>12. ReceivedOK'
  <2>1. Receiving' <=> Receiving
    BY <1>8 DEF Receiving
  <2>2. /\ rxPc \in {"refuse", "data", "ack", "handover"} => serial > 0
        /\ serial' # nextTxId'
    BY <1>0, <1>4, <1>8, <1>9 DEF RxInv, ReceiverOK, Receiving
  <2>3. \A n \in 1 .. serial : Size(xferOf', n) = Size(xferOf, n)
    BY <1>4, <1>5, <1>9
  <2>4. serial > 0 => Size(xferOf', serial) = Size(xferOf, serial)
    BY <1>9, <2>3
  <2>5. dlvPending => Size(xferOf', dlvSerial) = Size(xferOf, dlvSerial)
    BY <1>9, <2>3
  <2>6. serial' <= nextTxId'
    BY <1>4, <1>8, <1>9
  <2> QED
    BY <1>0, <1>8, <2>1, <2>2, <2>3, <2>4, <2>5, <2>6 DEF ReceivedOK
<1>13. AnswersOK' /\ Acquired' = Acquired
  <2>1. \A i \in 1 .. Len(delivered) : DeliveryOK(delivered[i], xferOf', peerSent)
    BY <1>0, <1>4, <1>5, <1>9 DEF AnswersOK, DeliveryOK
  <2>2. \A i \in Replies : ReplyOK(toPeer[i], xferOf')
    BY <1>0, <1>4, <1>5, <1>9 DEF AnswersOK, ReplyOK
  <2>3. \A i \in 1 .. Len(delivered) : xferOf'[delivered[i].id + 1] = xferOf[delivered[i].id + 1]
    BY <1>4, <1>5, <1>9
  <2> QED
    BY <1>8, <2>1, <2>2, <2>3 DEF AnswersOK, Acquired
<1>14. AckedOK'
  BY <1>0, <1>4, <1>13 DEF AckedOK
<1> QED
  BY <1>1, <1>6, <1>7, <1>10, <1>11, <1>12, <1>13, <1>14 DEF HandoverInv

AWrite == XmitWrite /\ wire' = Append(wire, NextSegment) /\ UNCHANGED <<rxVars, unexpected, xferOf>>

\* The segment belongs to the transfer begun last, and is not beyond its end.
LEMMA WriteFacts ==
    ASSUME TxInv, XfersOK, WriterOK, AWrite
    PROVE  /\ Writing /\ Writing' /\ xOff \in Nat /\ xOff' = xOff + 1 /\ ~xFailed /\ ~xFailed'
           /\ nextTxId \in Nat \ {0} /\ xOff < Size(xferOf, nextTxId)
           /\ xBundle \in Bundles /\ Length[xBundle] = Size(xferOf, nextTxId)
           /\ Length[xBundle] \in Nat \ {0}
           /\ NextSegment \in SegmentMessages /\ SegmentOK(NextSegment, xferOf)
           /\ NextSegment.id + 1 = nextTxId /\ NextSegment.off = xOff
           /\ UNCHANGED <<nextTxId, transferId, txWindow, xBundle, completed, acked>>
           /\ xpc = "write" /\ xpc' = "check"
<1>1. /\ xpc = "write" /\ xpc' = "check" /\ xOff' = xOff + 1 /\ Writing /\ Writing'
      /\ UNCHANGED <<nextTxId, transferId, txWindow, xBundle, completed, acked, xFailed>>
  BY DEF AWrite, XmitWrite, Writing
<1>2. /\ xOff \in Nat /\ nextTxId \in Nat /\ txWindow \in Seq(Bundles)
      /\ transferId \in [Bundles -> Nat] /\ ~xFailed
  BY <1>1 DEF TxInv, Base, TypeInv, TypeOK, WriterOK
<1>3. txWindow # <<>> /\ xBundle = Last(txWindow)
  BY <1>1 DEF TxInv, WindowInv, XmitHoldsTail
<1>4. xBundle \in ToSet(txWindow) /\ xBundle \in Bundles
  <2>1. Len(txWindow) \in DOMAIN txWindow /\ xBundle = txWindow[Len(txWindow)]
    BY <1>2, <1>3 DEF Last
  <2> QED
    BY <1>2, <2>1 DEF ToSet
<1>5. transferId[xBundle] + 1 = nextTxId /\ xferOf[nextTxId] = xBundle /\ transferId[xBundle] \in Nat
  BY <1>1, <1>2, <1>4 DEF XfersOK
<1>6. Size(xferOf, nextTxId) = Length[xBundle] /\ Length[xBundle] \in Nat \ {0} /\ xOff < Length[xBundle]
  <2>1. xOff < Length[xBundle]
    BY <1>1 DEF TxInv, WrittenInv, WriterInv
  <2> QED
    BY <1>4, <1>5, <2>1, LengthAssumption DEF Size
<1>7. NextSegment \in SegmentMessages
  BY <1>2, <1>5 DEF NextSegment, SegmentMessages
<1>8. SegmentOK(NextSegment, xferOf) /\ NextSegment.id + 1 = nextTxId /\ NextSegment.off = xOff
  BY <1>5, <1>6 DEF NextSegment, SegmentOK
<1> QED
  BY <1>1, <1>2, <1>4, <1>5, <1>6, <1>7, <1>8

LEMMA WriteKeeps ==
    ASSUME HandoverInv, AWrite
    PROVE  HandoverInv' /\ Acquired' = Acquired
<1>0. /\ TxInv /\ RxInv /\ XfersOK /\ WriterOK /\ SegmentsOK /\ NoGap /\ ReceivedOK /\ AnswersOK
      /\ AckedOK
  BY DEF HandoverInv
<1>1. TxInv' /\ RxInv'
  <2>1. SessNext
    BY DEF AWrite, SessNext, NodeA, AXmit
  <2> QED
    BY <1>0, <2>1, NodesStep DEF SegmentsOK
<1>2. PICK m : m = NextSegment
  OBVIOUS
<1>3. /\ Writing /\ Writing' /\ xOff \in Nat /\ xOff' = xOff + 1 /\ ~xFailed /\ ~xFailed'
      /\ nextTxId \in Nat \ {0} /\ xOff < Length[xBundle] /\ Length[xBundle] \in Nat
      /\ m \in SegmentMessages /\ SegmentOK(m, xferOf) /\ m.id + 1 = nextTxId /\ m.off = xOff
      /\ UNCHANGED <<nextTxId, transferId, txWindow, xBundle, completed, acked>>
      /\ xpc = "write" /\ xpc' = "check" /\ m.id \in Nat
  BY <1>0, <1>2, WriteFacts DEF SegmentMessages
<1>4. PICK k : k = Len(wire) + 1
  OBVIOUS
<1>5. /\ OnWire' = OnWire \cup {k} /\ wire'[k] = m
      /\ \A i \in OnWire : wire'[i] = wire[i] /\ i < k /\ i \in Nat
      /\ wire' \in Seq(WireMessages) /\ Len(wire') = k /\ k \in Nat
  <2>1. wire \in Seq(WireMessages) /\ wire' = Append(wire, m)
    BY <1>0, <1>2 DEF SegmentsOK, AWrite
  <2> QED
    BY <1>3, <1>4, <2>1, WireWrite, WireFacts
<1>6. UNCHANGED <<serial, peerSent, delivered, toPeer, Replies, rxPc, seg, rxId,
                  rxActive, dlvPending, dlvId, dlvSerial, xferOf>>
  BY DEF AWrite, rxVars, serial, Replies
<1>7. XfersOK'
  BY <1>0, <1>3, <1>6 DEF XfersOK
<1>8. WriterOK'
  BY <1>3 DEF WriterOK
<1>9. SegmentsOK'
  <2>1. ASSUME NEW i \in OnWire
        PROVE  /\ wire[i].id < nextTxId /\ SegmentOK(wire[i], xferOf) /\ Before(wire[i], m)
               /\ wire[i].id + 1 = nextTxId => wire[i].off < xOff + 1
    <3>1. wire[i].id \in Nat /\ wire[i].off \in Nat
      BY <1>0, WireFacts DEF SegmentsOK
    <3>2. /\ wire[i].id < nextTxId /\ SegmentOK(wire[i], xferOf)
          /\ wire[i].id + 1 = nextTxId => wire[i].off < xOff
      BY <1>0, <1>3 DEF SegmentsOK
    <3> QED
      BY <1>3, <3>1, <3>2 DEF Before
  <2>2. \A i, j \in OnWire' : i < j => Before(wire'[i], wire'[j])
    <3>1. \A i, j \in OnWire : i < j => Before(wire[i], wire[j])
      BY <1>0 DEF SegmentsOK
    <3> QED
      BY <1>5, <2>1, <3>1
  <2> QED
    BY <1>3, <1>5, <1>6, <2>1, <2>2 DEF SegmentsOK
<1>10. NoGap'
  <2>0. OnWire = Places(wire) /\ OnWire' = Places(wire')
    BY DEF OnWire
  <2>1. SUFFICES ASSUME Reading PROVE NoGap'
    BY <1>6 DEF Reading, NoGap
  <2>2. ASSUME NEW i \in OnWire'
        PROVE  Joined(wire', peerSent, wire'[i].id + 1, wire'[i].off, i)
    <3>1. CASE i \in OnWire
      <4>1. Joined(wire, peerSent, wire[i].id + 1, wire[i].off, i) /\ wire'[i] = wire[i]
        BY <1>0, <1>5, <2>1, <3>1 DEF NoGap
      <4> QED
        BY <1>5, <2>0, <4>1, JoinedKept
    <3>2. CASE i = k
      <4>1. Joined(wire, peerSent, m.id + 1, m.off, k)
        BY <1>0, <1>3, <1>4, <2>1 DEF NoGap, NextXfer, NextOff
      <4> QED
        BY <1>5, <2>0, <3>2, <4>1, JoinedKept
    <3> QED
      BY <1>5, <3>1, <3>2
  <2>3. Joined(wire', peerSent, nextTxId, xOff + 1, k + 1)
    <3>1. k \in Places(wire') /\ k < k + 1 /\ wire'[k].id + 1 = nextTxId /\ wire'[k].off + 1 = xOff + 1
      BY <1>3, <1>5, <2>0
    <3>2. xOff + 1 # 0
      BY <1>3
    <3> QED
      BY <3>1, <3>2 DEF Joined
  <2>4. NextXfer' = nextTxId /\ NextOff' = xOff + 1
    BY <1>3 DEF NextXfer, NextOff
  <2> QED
    BY <1>5, <1>6, <2>2, <2>3, <2>4 DEF NoGap
<1>11. ReceivedOK'
  <2>1. Receiving' <=> Receiving
    BY <1>6 DEF Receiving
  <2>2. serial = nextTxId => peerSent[serial] <= xOff + 1
    <3>1. serial = nextTxId => peerSent[serial] <= xOff
      BY <1>0, <1>3 DEF ReceivedOK
    <3>2. serial = nextTxId => peerSent[serial] \in Nat
      BY <1>0, <1>3, SessTypes
    <3> QED
      BY <1>3, <3>1, <3>2
  <2> QED
    BY <1>0, <1>3, <1>6, <2>1, <2>2 DEF ReceivedOK
<1>12. AnswersOK' /\ Acquired' = Acquired
  BY <1>0, <1>6 DEF AnswersOK, Acquired
<1>13. AckedOK'
  BY <1>0, <1>3, <1>12 DEF AckedOK
<1> QED
  BY <1>1, <1>7, <1>8, <1>9, <1>10, <1>11, <1>12, <1>13 DEF HandoverInv

-----------------------------------------------------------------------------
(* The steps of B but the beginning of a segment that it accepts. *)

\* They leave what B has been sent as it is; when one drops a segment, B reads no more.
BKeepsWire ==
    /\ UNCHANGED <<vars, xferOf, peerSent>>
    /\ Reading' => Reading
    /\ \/ wire' = wire
       \/ wire # <<>> /\ wire' = Tail(wire) /\ (1 \in OnWire => ~Reading')

BQuiet ==
    /\ BKeepsWire
    /\ Aside \/ RxRefuse \/ RxData \/ RxAck \/ RxHandOver \/ Delivery

\* B reads the header of a segment and goes on to its data.
BSegment ==
    /\ 1 \in OnWire /\ wire # <<>> /\ wire' = Tail(wire)
    /\ UNCHANGED <<vars, xferOf>>
    /\ rxPc = "loop" /\ Accepted(Segment(wire[1]))
    /\ RxHeader(Segment(wire[1])) /\ Segment(wire[1]).len <= SegmentMru

LEMMA AsideReads == Aside => (Reading' => Reading) /\ peerSent' = peerSent
BY DEF Aside, Reading

LEMMA ReceiverReads ==
    ASSUME RxRefuse \/ RxData \/ RxAck \/ RxHandOver \/ Delivery
    PROVE  (Reading' => Reading) /\ peerSent' = peerSent
<1>1. CASE RxRefuse \/ RxAck \/ RxHandOver
  BY <1>1 DEF RxRefuse, RxAck, RxHandOver, Reading
<1>2. CASE RxData
  BY <1>2 DEF RxData, Reading
<1>3. CASE Delivery
  BY <1>3 DEF Delivery, DlvTake, DlvDeliver, DlvAck, DlvSettle, Reading
<1> QED
  BY <1>1, <1>2, <1>3

LEMMA BSteps ==
    ASSUME RxInv, wire \in Seq(WireMessages), NodeB
    PROVE  BQuiet \/ BSegment
<1>0. RxTypeOK /\ RestOfInv /\ LogsOK
  BY DEF RxInv, RestOfInv
<1>1. ASSUME Aside, UNCHANGED <<vars, xferOf>>,
             \/ wire' = wire
             \/ wire # <<>> /\ wire' = Tail(wire) /\ (1 \in OnWire => ~Reading')
      PROVE  BQuiet
  BY <1>1, AsideReads DEF BQuiet, BKeepsWire
<1>2. CASE BOther
  <2>1. UNCHANGED <<vars, wire, xferOf>>
    BY <1>2 DEF BOther
  <2>2. CASE RxRefuse \/ RxData \/ RxAck \/ RxHandOver \/ Delivery
    BY <2>1, <2>2, ReceiverReads DEF BQuiet, BKeepsWire
  <2>3. CASE RxNoMemory \/ RxLeaveLoop \/ RxFail \/ DeliveryStop \/ RxJoin \/ RxClock \/ RxConnFail
    BY <1>0, <1>1, <2>1, <2>3, AsideCases
  <2> QED
    BY <1>2, <2>2, <2>3 DEF BOther, Receiver
<1>3. CASE BRead
  <2>1. PICK m : m = Head(wire)
    OBVIOUS
  <2>2. /\ rxPc = "loop" /\ wire # <<>> /\ wire' = Tail(wire) /\ BHandle(m) /\ m \in WireMessages
        /\ m = wire[1] /\ (m.type = "XFER_SEGMENT" <=> 1 \in OnWire) /\ UNCHANGED <<vars, xferOf>>
    <3>1. rxPc = "loop" /\ wire # <<>> /\ wire' = Tail(wire) /\ BHandle(m) /\ UNCHANGED <<vars, xferOf>>
      BY <1>3, <2>1 DEF BRead
    <3>2. m \in WireMessages /\ m = wire[1] /\ (m.type = "XFER_SEGMENT" => 1 \in OnWire)
      BY <2>1, <3>1, WireRead
    <3>3. 1 \in OnWire => m.type = "XFER_SEGMENT"
      BY <3>2 DEF OnWire, Places
    <3> QED
      BY <3>1, <3>2, <3>3
  <2>3. CASE m.type = "XFER_SEGMENT"
    <3>1. PICK s : s = Segment(m)
      OBVIOUS
    <3>2. RxHeader(s) /\ s \in SegmentRecords
      BY <2>2, <2>3, <3>1, SegmentType DEF BHandle
    <3>3. CASE s.len > SegmentMru \/ ~Accepted(s)
      <4>1. rxPc' = "fail"
        BY <3>2, <3>3 DEF RxHeader, Abort
      <4>2. Aside
        BY <1>0, <3>2, <4>1, HeaderFacts
      <4> QED
        BY <1>1, <2>2, <4>1, <4>2 DEF Reading
    <3>4. CASE ~(s.len > SegmentMru \/ ~Accepted(s))
      <4>1. s.len \in Nat
        BY <3>2 DEF SegmentRecords
      <4>2. s.len <= SegmentMru
        BY <3>4, <4>1, MruAssumption
      <4> QED
        BY <2>2, <2>3, <3>1, <3>2, <3>4, <4>2 DEF BSegment
    <3> QED
      BY <3>3, <3>4
  <2>4. CASE m.type # "XFER_SEGMENT"
    <3>1. Aside
      <4>1. CASE m.type = "SESS_TERM"
        <5>1. RxSessTerm(m.reply) /\ m.reply \in BOOLEAN
          BY <2>2, <4>1 DEF BHandle, WireMessages, SegmentMessages
        <5> QED
          BY <1>0, <5>1, AsideCases
      <4>2. CASE RxMsgReject
        BY <1>0, <4>2, AsideCases
      <4>3. CASE UNCHANGED rxVars
        BY <4>3 DEF rxVars, Aside
      <4>4. m.type \in {"XFER_SEGMENT", "SESS_TERM", "MSG_REJECT"}
        BY <2>2 DEF WireMessages, SegmentMessages
      <4> QED
        BY <2>2, <2>4, <4>1, <4>2, <4>3, <4>4 DEF BHandle
    <3> QED
      BY <1>1, <2>2, <2>4, <3>1
  <2> QED
    BY <2>3, <2>4
<1> QED
  BY <1>2, <1>3 DEF NodeB

\* Where a place of the wire has gone, with what was written there.
LEMMA JoinedMoved ==
    ASSUME NEW w, NEW v, NEW p, NEW n, NEW off, NEW i, NEW j, Joined(w, p, n, off, i),
           \A h \in Places(w) : h < i => \E g \in Places(v) : v[g] = w[h] /\ g < j
    PROVE  Joined(v, p, n, off, j)
BY DEF Joined

LEMMA BQuietWire ==
    ASSUME TxInv, SegmentsOK, NoGap, BKeepsWire
    PROVE  SegmentsOK' /\ NoGap'
<1>0. UNCHANGED <<xferOf, peerSent, nextTxId, xOff, Writing, xFailed, NextXfer, NextOff>>
  BY DEF BKeepsWire, vars, Writing, NextXfer, NextOff
<1>1. CASE wire' = wire
  <2>1. OnWire' = OnWire
    BY <1>1 DEF OnWire
  <2>2. SegmentsOK'
    BY <1>0, <1>1, <2>1 DEF SegmentsOK
  <2>3. NoGap'
    BY <1>0, <1>1, <2>1 DEF NoGap, BKeepsWire
  <2> QED
    BY <2>2, <2>3
<1>2. CASE wire # <<>> /\ wire' = Tail(wire) /\ (1 \in OnWire => ~Reading')
  <2>1. /\ \A i \in OnWire' : i + 1 \in OnWire /\ wire'[i] = wire[i + 1] /\ i \in Nat \ {0}
        /\ \A i \in OnWire : i # 1 => i - 1 \in OnWire' /\ i - 1 \in Nat
        /\ wire' \in Seq(WireMessages) /\ Len(wire') = Len(wire) - 1 /\ Len(wire) \in Nat \ {0}
    BY <1>2, WireRead DEF SegmentsOK
  <2>2. SegmentsOK'
    <3>1. \A i, j \in OnWire' : i < j => Before(wire'[i], wire'[j])
      <4>1. ASSUME NEW i \in OnWire', NEW j \in OnWire', i < j
            PROVE  Before(wire[i + 1], wire[j + 1])
        <5>1. i + 1 < j + 1
          BY <2>1, <4>1
        <5> QED
          BY <2>1, <5>1 DEF SegmentsOK
      <4> QED
        BY <2>1, <4>1
    <3>2. \A i \in OnWire' : wire'[i].id < nextTxId /\ SegmentOK(wire'[i], xferOf)
      BY <2>1 DEF SegmentsOK
    <3>3. Writing => \A i \in OnWire' : wire'[i].id + 1 = nextTxId => wire'[i].off < xOff
      BY <2>1 DEF SegmentsOK
    <3> QED
      BY <1>0, <2>1, <3>1, <3>2, <3>3 DEF SegmentsOK
  <2>3. NoGap'
    <3>1. SUFFICES ASSUME Reading' PROVE NoGap'
      BY DEF NoGap
    <3>2. Reading /\ 1 \notin OnWire /\ OnWire = Places(wire) /\ OnWire' = Places(wire')
      BY <1>2, <3>1 DEF BKeepsWire, OnWire
    <3>3. ASSUME NEW i \in Nat, NEW h \in Places(wire), h < i + 1
          PROVE  \E g \in Places(wire') : wire'[g] = wire[h] /\ g < i
      <4>1. h - 1 \in OnWire' /\ h - 1 \in Nat /\ h \in 1 .. Len(wire)
        BY <2>1, <3>2, WireFacts DEF SegmentsOK
      <4>2. wire'[h - 1] = wire[h]
        BY <2>1, <4>1
      <4> QED
        BY <3>2, <3>3, <4>1, <4>2
    <3>4. ASSUME NEW i \in OnWire'
          PROVE  Joined(wire', peerSent', wire'[i].id + 1, wire'[i].off, i)
      <4>1. Joined(wire, peerSent, wire'[i].id + 1, wire'[i].off, i + 1) /\ i \in Nat
        BY <2>1, <3>2 DEF NoGap
      <4> QED
        BY <1>0, <3>3, <4>1, JoinedMoved
    <3>5. ASSUME ~xFailed
          PROVE  Joined(wire', peerSent', NextXfer', NextOff', Len(wire') + 1)
      <4>1. Joined(wire, peerSent, NextXfer, NextOff, Len(wire) + 1)
        BY <3>2, <3>5 DEF NoGap
      <4>2. \A h \in Places(wire) : h < Len(wire) + 1 =>
               \E g \in Places(wire') : wire'[g] = wire[h] /\ g < Len(wire') + 1
        BY <2>1, <3>3
      <4> QED
        BY <1>0, <4>1, <4>2, JoinedMoved
    <3> QED
      BY <1>0, <3>4, <3>5 DEF NoGap
  <2> QED
    BY <2>2, <2>3
<1> QED
  BY <1>1, <1>2 DEF BKeepsWire

LEMMA BQuietReceived ==
    ASSUME TxInv, RxInv, XfersOK, ReceivedOK, AnswersOK, BQuiet
    PROVE  ReceivedOK'
<1>0. /\ UNCHANGED <<serial, peerSent, nextTxId, xferOf, xOff, Writing>>
      /\ serial \in Nat /\ (\A n \in 1 .. serial : peerSent[n] \in Nat)
      /\ (\A n \in 1 .. nextTxId : Size(xferOf, n) \in Nat) /\ (Receiving => serial > 0)
      /\ nextTxId \in Nat /\ serial <= nextTxId
  BY SessTypes DEF BQuiet, BKeepsWire, vars, serial, Writing, ReceivedOK
<1>1. /\ serial' <= nextTxId'
      /\ \A n \in 1 .. serial' : peerSent'[n] \in 1 .. Size(xferOf', n)
      /\ Writing' /\ serial' = nextTxId' => peerSent'[serial'] <= xOff'
  BY <1>0 DEF ReceivedOK
<1>2. ASSUME UNCHANGED <<dlvPending, dlvId, dlvSerial>> \/ ~dlvPending'
      PROVE  dlvPending' => dlvId' + 1 = dlvSerial' /\ peerSent'[dlvSerial'] = Size(xferOf', dlvSerial')
  BY <1>0, <1>2 DEF ReceivedOK
<1>3. CASE Aside
  <2>1. /\ UNCHANGED <<rxActive, rxId, dlvPending, dlvId, dlvSerial>>
        /\ (rxPc' = rxPc /\ seg' = seg) \/ rxPc' \in {"close", "fail", "stop", "join", "done"}
    BY <1>3 DEF Aside
  <2>2. Receiving' => Receiving
    BY <2>1 DEF Receiving
  <2> QED
    BY <1>0, <1>1, <1>2, <2>1, <2>2 DEF ReceivedOK
<1>4. CASE RxRefuse
  <2>1. UNCHANGED <<rxActive, rxId, seg, dlvPending, dlvId, dlvSerial>> /\ rxPc = "refuse" /\ rxPc' = "data"
    BY <1>4 DEF RxRefuse
  <2>2. Receiving' => Receiving
    BY <2>1 DEF Receiving
  <2> QED
    BY <1>0, <1>1, <1>2, <2>1, <2>2 DEF ReceivedOK
<1>5. CASE RxData
  <2>1. /\ UNCHANGED <<rxId, dlvPending, dlvId, dlvSerial>> /\ rxPc = "data" /\ rxPc' = AfterData
        /\ rxActive
    BY <1>5 DEF RxData, RxInv, ReceiverOK
  <2>2. Receiving /\ (seg.end <=> peerSent[serial] = Size(xferOf, serial))
    BY <2>1 DEF Receiving, ReceivedOK
  <2>3. /\ rxPc' = "handover" => seg.end
        /\ rxPc' = "ack" => ~seg.end
        /\ rxPc' \in {"loop", "handover", "ack"}
    <3>1. seg.end \in BOOLEAN /\ rxRefused \in BOOLEAN
      BY DEF RxInv, RxTypeOK, SegmentRecords
    <3> QED
      BY <2>1, <3>1 DEF AfterData
  <2>4. peerSent[serial] <= Size(xferOf, serial) /\ peerSent[serial] \in Nat
        /\ Size(xferOf, serial) \in Nat
    <3>1. serial \in 1 .. serial /\ serial \in 1 .. nextTxId
      BY <1>0, <2>2
    <3> QED
      BY <1>0, <3>1 DEF ReceivedOK
  <2>5. /\ rxPc' = "handover" => peerSent[serial] = Size(xferOf, serial)
        /\ rxPc' = "ack" => peerSent[serial] < Size(xferOf, serial)
    BY <2>2, <2>3, <2>4
  <2>6. rxId + 1 = serial
    BY <2>2 DEF ReceivedOK
  <2> QED
    BY <1>0, <1>1, <1>2, <2>1, <2>3, <2>5, <2>6 DEF ReceivedOK
<1>6. CASE RxAck
  <2>1. /\ UNCHANGED <<rxActive, rxId, seg, dlvPending, dlvId, dlvSerial>> /\ rxPc' \in {"fail", "loop"}
    BY <1>6 DEF RxAck
  <2>2. Receiving' => Receiving
    BY <2>1 DEF Receiving
  <2> QED
    BY <1>0, <1>1, <1>2, <2>1, <2>2 DEF ReceivedOK
<1>7. CASE RxHandOver
  <2>1. /\ UNCHANGED <<rxActive, rxId, seg>> /\ rxPc = "handover" /\ rxPc' \in {"fail", "loop"}
        /\ \/ UNCHANGED <<dlvPending, dlvId, dlvSerial>>
           \/ dlvId' = rxId /\ dlvSerial' = serial
    BY <1>7 DEF RxHandOver
  <2>2. (Receiving' => Receiving) /\ Receiving
    BY <2>1 DEF Receiving
  <2>3. rxId + 1 = serial /\ peerSent[serial] = Size(xferOf, serial)
    BY <2>1, <2>2 DEF ReceivedOK
  <2>4. dlvPending' => dlvId' + 1 = dlvSerial' /\ peerSent'[dlvSerial'] = Size(xferOf', dlvSerial')
    <3>1. CASE UNCHANGED <<dlvPending, dlvId, dlvSerial>>
      BY <1>2, <3>1
    <3>2. CASE dlvId' = rxId /\ dlvSerial' = serial
      BY <1>0, <2>3, <3>2
    <3> QED
      BY <2>1, <3>1, <3>2
  <2> QED
    BY <1>0, <1>1, <2>1, <2>2, <2>4 DEF ReceivedOK
<1>8. CASE Delivery
  <2>1. /\ UNCHANGED <<rxPc, rxActive, rxId, seg>>
        /\ UNCHANGED <<dlvPending, dlvId, dlvSerial>> \/ ~dlvPending'
    BY <1>8 DEF Delivery, DlvTake, DlvDeliver, DlvAck, DlvSettle
  <2>2. Receiving' => Receiving
    BY <2>1 DEF Receiving
  <2> QED
    BY <1>0, <1>1, <1>2, <2>1, <2>2 DEF ReceivedOK
<1> QED
  BY <1>3, <1>4, <1>5, <1>6, <1>7, <1>8 DEF BQuiet

\* What B says with one more reply is right about that reply.
LEMMA ReplyAdded ==
    ASSUME LogsOK, AnswersOK, UNCHANGED <<delivered, peerSent, xferOf>>, NEW m \in Messages,
           m.type \in {"XFER_ACK", "XFER_REFUSE"}, ReplyOK(m, xferOf), Send(m)
    PROVE  AnswersOK'
<1>1. CASE toPeer' = toPeer
  <2>1. Replies' = Replies
    BY <1>1 DEF Replies
  <2> QED
    BY <1>1, <2>1 DEF AnswersOK
<1>2. CASE toPeer' = Append(toPeer, m)
  <2>1. AddsReply(m, Len(toPeer) + 1)
    BY <1>2, ReplyFacts
  <2> QED
    BY <2>1 DEF AddsReply, AnswersOK
<1> QED
  BY <1>1, <1>2 DEF Send

LEMMA BQuietAnswers ==
    ASSUME TxInv, RxInv, XfersOK, ReceivedOK, AnswersOK, BQuiet
    PROVE  AnswersOK' /\ Acquired \subseteq Acquired'
<1>0. /\ UNCHANGED <<peerSent, xferOf>> /\ LogsOK
      /\ serial \in Nat /\ (\A n \in 1 .. serial : peerSent[n] \in 1 .. Size(xferOf, n))
      /\ (\A n \in 1 .. nextTxId : Size(xferOf, n) \in Nat \ {0}) /\ (Receiving => serial > 0)
      /\ (dlvPending => dlvSerial \in 1 .. serial) /\ nextTxId \in Nat /\ serial <= nextTxId
  BY SessTypes DEF BQuiet, BKeepsWire, RxInv, ReceivedOK
<1>1. ASSUME delivered' = delivered PROVE Acquired \subseteq Acquired'
  BY <1>0, <1>1 DEF Acquired
<1>2. ASSUME delivered' = delivered, SameReplies PROVE AnswersOK'
  BY <1>0, <1>2 DEF AnswersOK, SameReplies
<1>3. CASE Aside
  <2>1. SameReplies /\ delivered' = delivered
    BY <1>0, <1>3, NothingSent, SilentFacts DEF Aside
  <2> QED
    BY <1>1, <1>2, <2>1
<1>4. CASE RxRefuse
  <2>1. rxPc = "refuse" /\ delivered' = delivered
        /\ (toPeer' = toPeer \/ Send(Refuse(rxId, RefuseReason, serial)))
    BY <1>4 DEF RxRefuse
  <2>2. rxId + 1 = serial /\ rxId \in Nat
    BY <2>1 DEF RxInv, RxTypeOK, ReceiverOK, Receiving, ReceivedOK
  <2>3. PICK m : m = Refuse(rxId, RefuseReason, serial)
    OBVIOUS
  <2>4. m \in Messages /\ m.type = "XFER_REFUSE" /\ m.id = rxId /\ m.n = serial
    <3>1. RefuseReason \in {"SESS_TERM", "EXT_FAILURE", "NO_RESOURCES"}
      BY RefuseReasonType DEF RxInv
    <3> QED
      BY <1>0, <2>2, <2>3, <3>1, MessageTypes DEF Refuse
  <2>5. ReplyOK(m, xferOf)
    BY <2>2, <2>4 DEF ReplyOK
  <2>6. AnswersOK'
    <3>1. CASE toPeer' = toPeer
      BY <1>2, <2>1, <3>1, NothingSent
    <3>2. CASE Send(m)
      BY <1>0, <2>1, <2>4, <2>5, <3>2, ReplyAdded
    <3> QED
      BY <2>1, <2>3, <3>1, <3>2
  <2> QED
    BY <1>1, <2>1, <2>6
<1>5. CASE RxAck
  <2>1. rxPc = "ack" /\ delivered' = delivered
        /\ (toPeer' = toPeer \/ Send(Ack(rxId, rxLen, FALSE, serial)))
    BY <1>5 DEF RxAck, AckLength
  <2>2. /\ rxId + 1 = serial /\ rxId \in Nat /\ rxLen \in Nat /\ rxLen = peerSent[serial]
        /\ rxLen < Size(xferOf, serial)
    <3>1. rxActive /\ ~rxRefused /\ Receiving /\ Filling
      BY <2>1 DEF RxInv, ReceiverOK, Receiving, Filling
    <3>2. rxLen = peerSent[serial]
      BY <2>1, <3>1 DEF RxInv, FillOK
    <3> QED
      BY <2>1, <3>1, <3>2 DEF RxInv, RxTypeOK, ReceivedOK
  <2>3. PICK m : m = Ack(rxId, rxLen, FALSE, serial)
    OBVIOUS
  <2>4. m \in Messages /\ m.type = "XFER_ACK" /\ m.id = rxId /\ m.n = serial /\ m.len = rxLen
        /\ m.end = FALSE
    BY <1>0, <2>2, <2>3 DEF Ack, Messages
  <2>5. ReplyOK(m, xferOf)
    <3>1. serial \in 1 .. serial /\ serial \in 1 .. nextTxId
      BY <1>0, <2>2
    <3>2. rxLen \in 1 .. Size(xferOf, serial) /\ rxLen # Size(xferOf, serial)
      BY <1>0, <2>2, <3>1
    <3> QED
      BY <2>2, <2>4, <3>2 DEF ReplyOK
  <2>6. AnswersOK'
    <3>1. CASE toPeer' = toPeer
      BY <1>2, <2>1, <3>1, NothingSent
    <3>2. CASE Send(m)
      BY <1>0, <2>1, <2>4, <2>5, <3>2, ReplyAdded
    <3> QED
      BY <2>1, <2>3, <3>1, <3>2
  <2> QED
    BY <1>1, <2>1, <2>6
<1>6. CASE RxData \/ RxHandOver \/ DlvTake \/ DlvSettle
  <2>1. toPeer' = toPeer /\ delivered' = delivered
    BY <1>6 DEF RxData, RxHandOver, DlvTake, DlvSettle
  <2> QED
    BY <1>1, <1>2, <2>1, NothingSent
<1>7. CASE DlvAck
  <2>1. dlvPc = "ack" /\ delivered' = delivered /\ Send(Ack(dlvId, dlvLen, TRUE, dlvSerial))
    BY <1>7 DEF DlvAck
  <2>2. /\ dlvId + 1 = dlvSerial /\ dlvId \in Nat /\ dlvLen \in Nat /\ dlvSerial \in 1 .. serial
        /\ dlvLen = peerSent[dlvSerial] /\ dlvLen = Size(xferOf, dlvSerial)
    BY <1>0, <2>1 DEF RxInv, RxTypeOK, HandoffOK, ReceivedOK
  <2>3. PICK m : m = Ack(dlvId, dlvLen, TRUE, dlvSerial)
    OBVIOUS
  <2>4. m \in Messages /\ m.type = "XFER_ACK" /\ m.id = dlvId /\ m.n = dlvSerial /\ m.len = dlvLen
        /\ m.end = TRUE
    BY <1>0, <2>2, <2>3 DEF Ack, Messages
  <2>5. ReplyOK(m, xferOf)
    BY <1>0, <2>2, <2>4 DEF ReplyOK
  <2>6. AnswersOK'
    BY <1>0, <2>1, <2>3, <2>4, <2>5, ReplyAdded
  <2> QED
    BY <1>1, <2>1, <2>6
<1>8. CASE DlvDeliver
  <2>1. toPeer' = toPeer /\ Replies' = Replies /\ dlvPc = "deliver"
    BY <1>8 DEF DlvDeliver, Replies
  <2>2. CASE delivered' = delivered
    BY <1>1, <1>2, <2>1, <2>2, NothingSent
  <2>3. CASE delivered' # delivered
    <3>1. PICK d : /\ d.n = dlvSerial /\ d.id = dlvId /\ delivered' = Append(delivered, d)
      <4>1. delivered' = Append(delivered, [n |-> dlvSerial, id |-> dlvId,
                                            data |-> SubSeq(mem[1 - rxBundle], 1, dlvLen)])
        BY <1>8, <2>3 DEF DlvDeliver
      <4> QED
        BY <4>1
    <3>2. /\ Len(delivered) \in Nat /\ Len(delivered') = Len(delivered) + 1
          /\ delivered'[Len(delivered) + 1] = d
          /\ \A i \in 1 .. Len(delivered) : delivered'[i] = delivered[i]
      <4>1. delivered \in Seq([n : Nat, id : Nat, data : Buffers])
        BY <1>0 DEF LogsOK
      <4> QED
        BY <3>1, <4>1
    <3>3. DeliveryOK(d, xferOf, peerSent)
      BY <2>1, <3>1 DEF RxInv, HandoffOK, ReceivedOK, DeliveryOK
    <3>4. AnswersOK'
      <4>1. \A i \in 1 .. Len(delivered') : DeliveryOK(delivered'[i], xferOf, peerSent)
        BY <3>2, <3>3 DEF AnswersOK
      <4> QED
        BY <1>0, <2>1, <4>1 DEF AnswersOK
    <3>5. Acquired \subseteq Acquired'
      <4>1. \A i \in 1 .. Len(delivered) : i \in 1 .. Len(delivered')
                                           /\ delivered'[i].id = delivered[i].id
        BY <3>2
      <4> QED
        BY <1>0, <4>1 DEF Acquired
    <3> QED
      BY <3>4, <3>5
  <2> QED
    BY <2>2, <2>3
<1> QED
  BY <1>3, <1>4, <1>5, <1>6, <1>7, <1>8 DEF BQuiet, Delivery

LEMMA BQuietKeeps ==
    ASSUME HandoverInv, BQuiet, NodeB
    PROVE  HandoverInv' /\ Acquired \subseteq Acquired'
<1>1. TxInv' /\ RxInv'
  BY NodesStep DEF HandoverInv, SegmentsOK, SessNext
<1>2. SegmentsOK' /\ NoGap'
  BY BQuietWire DEF HandoverInv, BQuiet
<1>3. ReceivedOK' /\ AnswersOK' /\ Acquired \subseteq Acquired'
  BY BQuietReceived, BQuietAnswers DEF HandoverInv
<1>4. XfersOK' /\ WriterOK'
  <2>1. UNCHANGED <<xferOf, nextTxId, txWindow, transferId, xBundle, completed, xpc, xOff, xFailed>>
    BY DEF BQuiet, BKeepsWire, vars
  <2> QED
    BY <2>1 DEF HandoverInv, XfersOK, WriterOK, Writing
<1>5. AckedOK'
  BY <1>3 DEF HandoverInv, AckedOK, BQuiet, BKeepsWire, vars
<1> QED
  BY <1>1, <1>2, <1>3, <1>4, <1>5 DEF HandoverInv

-----------------------------------------------------------------------------
(* B begins a segment. *)

\* With nothing missing before it, the segment is the next of what B has been sent,
\* and what was joined to it on the wire is joined to that now.
LEMMA FirstJoined ==
    ASSUME wire \in Seq(WireMessages), NEW p \in Seq(Nat), NEW n \in Nat, NEW off \in Nat,
           Joined(wire, p, n, off, 1)
    PROVE  IF off = 0 THEN Len(p) + 1 = n ELSE Len(p) = n /\ p[n] = off
<1>1. \A h \in Places(wire) : ~(h < 1)
  BY WireFacts DEF OnWire
<1> QED
  BY <1>1 DEF Joined

LEMMA JoinedRead ==
    ASSUME wire \in Seq(WireMessages), wire # <<>>, wire' = Tail(wire), 1 \in OnWire,
           NEW p \in Seq(Nat), NEW q \in Seq(Nat), NEW n \in Nat, NEW off \in Nat, NEW i \in Nat,
           Joined(wire, p, wire[1].id + 1, wire[1].off, 1),
           Len(q) = wire[1].id + 1, q[Len(q)] = wire[1].off + 1,
           n > wire[1].id + 1 \/ (n = wire[1].id + 1 /\ off > wire[1].off),
           Joined(wire, p, n, off, i + 1)
    PROVE  Joined(wire', q, n, off, i)
<1>1. PICK id, o : id = wire[1].id /\ o = wire[1].off
  OBVIOUS
<1>2. id \in Nat /\ o \in Nat /\ OnWire = Places(wire) /\ OnWire' = Places(wire')
      /\ OnWire \subseteq 1 .. Len(wire)
  BY <1>1, WireFacts DEF OnWire
<1>3. IF o = 0 THEN Len(p) + 1 = id + 1 ELSE Len(p) = id + 1 /\ p[id + 1] = o
  <2>1. Joined(wire, p, id + 1, o, 1) /\ id + 1 \in Nat
    BY <1>1, <1>2
  <2> QED
    BY <1>2, <2>1, FirstJoined
<1>4. ASSUME NEW h \in Places(wire), h < i + 1, h # 1
      PROVE  h - 1 \in Places(wire') /\ h - 1 < i /\ wire'[h - 1] = wire[h]
  <2>1. h - 1 \in OnWire' /\ h - 1 \in Nat /\ h \in 1 .. Len(wire)
    BY <1>2, <1>4, WireRead
  <2>2. \A g \in OnWire' : wire'[g] = wire[g + 1]
    BY WireRead
  <2>3. h \in Nat /\ (h - 1) + 1 = h /\ h - 1 < i
    BY <1>4, <2>1
  <2>4. wire'[h - 1] = wire[h]
    BY <2>1, <2>2, <2>3
  <2> QED
    BY <1>2, <2>1, <2>3, <2>4
<1>5. Len(p) \in Nat
  OBVIOUS
<1>6. CASE off = 0
  <2>1. n > id + 1
    BY <1>1, <1>2, <1>6
  <2>2. CASE Len(p) + 1 = n
    <3>1. Len(q) + 1 = n
      BY <1>1, <1>2, <1>3, <1>5, <2>1, <2>2
    <3> QED
      BY <1>6, <3>1 DEF Joined
  <2>3. ASSUME NEW h \in Places(wire), h < i + 1, wire[h].id + 2 = n
        PROVE  Joined(wire', q, n, off, i)
    <3>1. CASE h = 1
      <4>1. Len(q) + 1 = n
        BY <1>1, <1>2, <2>3, <3>1
      <4> QED
        BY <1>6, <4>1 DEF Joined
    <3>2. CASE h # 1
      <4>1. h - 1 \in Places(wire') /\ h - 1 < i /\ wire'[h - 1].id + 2 = n
        BY <1>4, <2>3, <3>2
      <4> QED
        BY <1>6, <4>1 DEF Joined
    <3> QED
      BY <3>1, <3>2
  <2> QED
    BY <1>6, <2>2, <2>3 DEF Joined
<1>7. CASE off # 0
  <2>1. ASSUME Len(p) = n, p[n] = off PROVE FALSE
    <3>1. n > id + 1 \/ (n = id + 1 /\ off > o)
      BY <1>1
    <3>2. Len(p) <= id + 1
      BY <1>2, <1>3, <1>5
    <3>3. n = id + 1 /\ off > o
      BY <1>2, <2>1, <3>1, <3>2
    <3>4. p[id + 1] = o
      BY <1>2, <1>3, <2>1, <3>3
    <3> QED
      BY <1>2, <2>1, <3>3, <3>4
  <2>2. ASSUME NEW h \in Places(wire), h < i + 1, wire[h].id + 1 = n, wire[h].off + 1 = off
        PROVE  Joined(wire', q, n, off, i)
    <3>1. CASE h = 1
      <4>1. n = Len(q) /\ off = wire[1].off + 1
        BY <2>2, <3>1
      <4>2. Len(q) = n /\ q[n] = off
        BY <4>1
      <4> QED
        BY <1>7, <4>2 DEF Joined
    <3>2. CASE h # 1
      <4>1. h - 1 \in Places(wire') /\ h - 1 < i /\ wire'[h - 1].id + 1 = n
            /\ wire'[h - 1].off + 1 = off
        BY <1>4, <2>2, <3>2
      <4> QED
        BY <1>7, <4>1 DEF Joined
    <3> QED
      BY <3>1, <3>2
  <2> QED
    BY <1>7, <2>1, <2>2 DEF Joined
<1> QED
  BY <1>6, <1>7

\* The segment m is the next of transfer m.id + 1.
LEMMA SegmentFacts ==
    ASSUME HandoverInv, BSegment, NEW m, m = wire[1]
    PROVE  /\ Reading /\ rxPc' \in {"refuse", "data"} /\ rxActive' = TRUE /\ rxId' = m.id
           /\ seg'.len = 1 /\ seg'.end = m.end
           /\ UNCHANGED <<dlvVars, toPeer, delivered, bufVars>>
           /\ m.id \in Nat /\ m.off \in Nat /\ peerSent' \in Seq(Nat)
           /\ serial' = m.id + 1 /\ peerSent'[serial'] = m.off + 1
           /\ serial' = IF m.start THEN serial + 1 ELSE serial
           /\ ~m.start => rxActive /\ m.id = rxId
           /\ m.start => ~rxActive
           /\ \A n \in 1 .. serial : n # serial' => peerSent'[n] = peerSent[n]
           /\ \A n \in Nat : n \in 1 .. serial' /\ n # serial' => n \in 1 .. serial
<1>0. /\ wire \in Seq(WireMessages) /\ 1 \in OnWire /\ rxPc = "loop" /\ peerSent \in Seq(Nat)
      /\ serial = Len(peerSent)
  BY DEF HandoverInv, SegmentsOK, BSegment, RxInv, RxTypeOK, serial
<1>1. /\ m.id \in Nat /\ m.off \in Nat /\ m.len = 1 /\ m.start \in BOOLEAN /\ m.end \in BOOLEAN
  BY <1>0, WireFacts
<1>2. m.start <=> m.off = 0
  BY <1>0 DEF HandoverInv, SegmentsOK, SegmentOK
<1>3. Joined(wire, peerSent, m.id + 1, m.off, 1) /\ Reading
  BY <1>0 DEF Reading, HandoverInv, NoGap
<1>4. IF m.off = 0 THEN Len(peerSent) + 1 = m.id + 1
                   ELSE Len(peerSent) = m.id + 1 /\ peerSent[m.id + 1] = m.off
  <2>1. PICK n \in Nat, off \in Nat : n = m.id + 1 /\ off = m.off
    BY <1>1
  <2>2. Joined(wire, peerSent, n, off, 1)
    BY <1>3, <2>1
  <2>3. IF off = 0 THEN Len(peerSent) + 1 = n ELSE Len(peerSent) = n /\ peerSent[n] = off
    BY <1>0, <2>2, FirstJoined
  <2> QED
    BY <2>1, <2>3
<1>5. PICK s : s = Segment(m)
  OBVIOUS
<1>6. s.id = m.id /\ s.start = m.start /\ s.end = m.end /\ s.len = m.len
  BY <1>5 DEF Segment
<1>7. Accepted(s) /\ RxHeader(s) /\ ~(s.len > SegmentMru)
  <2>1. Accepted(s) /\ RxHeader(s) /\ s.len <= SegmentMru
    BY <1>5 DEF BSegment
  <2> QED
    BY <1>1, <1>6, <2>1, MruAssumption
<1>8. /\ seg' = s /\ rxActive' = TRUE /\ rxId' = s.id
      /\ peerSent' = IF s.start THEN Append(peerSent, s.len)
                                ELSE [peerSent EXCEPT ![serial] = @ + s.len]
      /\ rxPc' \in {"refuse", "data"}
      /\ UNCHANGED <<dlvVars, toPeer, delivered, bufVars>>
  BY <1>7 DEF RxHeader
<1>9. (m.start => ~rxActive) /\ (~m.start => rxActive /\ m.id = rxId)
  BY <1>6, <1>7 DEF Accepted
<1>10. serial' = Len(peerSent') /\ Len(peerSent) \in Nat
  BY <1>0 DEF serial
<1>11. CASE m.start
  <2>1. peerSent' = Append(peerSent, 1)
    BY <1>1, <1>6, <1>8, <1>11
  <2>2. /\ peerSent' \in Seq(Nat) /\ Len(peerSent') = Len(peerSent) + 1
        /\ peerSent'[Len(peerSent) + 1] = 1
        /\ \A n \in 1 .. Len(peerSent) : peerSent'[n] = peerSent[n]
    BY <1>0, <2>1
  <2> QED
    BY <1>0, <1>1, <1>2, <1>3, <1>4, <1>6, <1>8, <1>9, <1>10, <1>11, <2>2
<1>12. CASE ~m.start
  <2>1. peerSent' = [peerSent EXCEPT ![serial] = @ + 1] /\ serial \in 1 .. Len(peerSent)
    BY <1>0, <1>1, <1>2, <1>4, <1>6, <1>8, <1>12
  <2>2. peerSent[serial] \in Nat
    BY <1>0, <2>1
  <2>3. /\ peerSent' \in Seq(Nat) /\ Len(peerSent') = Len(peerSent)
        /\ peerSent'[serial] = peerSent[serial] + 1
        /\ \A n \in 1 .. Len(peerSent) : n # serial => peerSent'[n] = peerSent[n]
    BY <1>0, <2>1, <2>2
  <2> QED
    BY <1>0, <1>1, <1>2, <1>3, <1>4, <1>6, <1>8, <1>9, <1>10, <1>12, <2>3
<1> QED
  BY <1>1, <1>11, <1>12

LEMMA SegmentKeeps ==
    ASSUME HandoverInv, BSegment, NodeB
    PROVE  HandoverInv' /\ Acquired' = Acquired
<1>0. /\ TxInv /\ RxInv /\ XfersOK /\ WriterOK /\ SegmentsOK /\ NoGap /\ ReceivedOK /\ AnswersOK
      /\ AckedOK
  BY DEF HandoverInv
<1>1. TxInv' /\ RxInv'
  BY <1>0, NodesStep DEF SegmentsOK, SessNext
<1>2. PICK m : m = wire[1]
  OBVIOUS
<1>3. /\ Reading /\ rxPc' \in {"refuse", "data"} /\ rxActive' = TRUE /\ rxId' = m.id
      /\ seg'.len = 1 /\ seg'.end = m.end
      /\ UNCHANGED <<dlvPending, dlvId, dlvSerial, toPeer, delivered>>
      /\ m.id \in Nat /\ m.off \in Nat /\ peerSent' \in Seq(Nat)
      /\ serial' = m.id + 1 /\ peerSent'[serial'] = m.off + 1
      /\ serial' = IF m.start THEN serial + 1 ELSE serial
      /\ ~m.start => rxActive
      /\ \A n \in 1 .. serial : n # serial' => peerSent'[n] = peerSent[n]
      /\ \A n \in Nat : n \in 1 .. serial' /\ n # serial' => n \in 1 .. serial
  BY <1>2, SegmentFacts
<1>4. UNCHANGED <<xferOf, nextTxId, txWindow, transferId, xBundle, completed, acked, xpc, xOff,
                  xFailed, Writing, NextXfer, NextOff>>
  BY DEF BSegment, vars, Writing, NextXfer, NextOff
<1>5. /\ nextTxId \in Nat /\ xOff \in Nat /\ serial \in Nat
      /\ (\A n \in 1 .. nextTxId : Size(xferOf, n) \in Nat \ {0})
      /\ (Receiving => serial > 0) /\ (dlvPending => dlvSerial \in 1 .. serial)
      /\ \A i \in 1 .. Len(delivered) : delivered[i].n \in 1 .. dlvSerial
      /\ dlvSerial \in Nat /\ dlvSerial <= serial /\ (Receiving => dlvSerial < serial)
  <2>1. /\ dlvSerial \in Nat /\ dlvSerial <= serial /\ (Receiving => dlvSerial < serial)
        /\ \A i \in 1 .. Len(delivered) : delivered[i].n \in 1 .. dlvSerial
    BY <1>0 DEF RxInv, RxTypeOK, ReceiverOK, DeliveriesOK
  <2> QED
    BY <1>0, <2>1, SessTypes
<1>6. XfersOK' /\ WriterOK'
  BY <1>0, <1>4 DEF XfersOK, WriterOK
<1>7. /\ wire # <<>> /\ wire' = Tail(wire) /\ 1 \in OnWire
      /\ \A i \in OnWire' : i + 1 \in OnWire /\ wire'[i] = wire[i + 1] /\ i \in Nat \ {0}
      /\ wire' \in Seq(WireMessages) /\ Len(wire') = Len(wire) - 1 /\ Len(wire) \in Nat \ {0}
      /\ wire \in Seq(WireMessages)
  <2>1. wire # <<>> /\ wire' = Tail(wire) /\ 1 \in OnWire /\ wire \in Seq(WireMessages)
    BY <1>0 DEF BSegment, SegmentsOK
  <2> QED
    BY <2>1, WireRead
<1>8. /\ m.id < nextTxId /\ SegmentOK(m, xferOf)
      /\ Writing /\ m.id + 1 = nextTxId => m.off < xOff
  BY <1>0, <1>2, <1>7 DEF SegmentsOK
<1>9. ASSUME NEW i \in OnWire'
      PROVE  /\ wire[i + 1].id \in Nat /\ wire[i + 1].off \in Nat /\ Before(m, wire[i + 1])
             /\ Joined(wire, peerSent, wire[i + 1].id + 1, wire[i + 1].off, i + 1)
  <2>1. i + 1 \in OnWire /\ 1 < i + 1
    BY <1>7
  <2> QED
    BY <1>0, <1>2, <1>3, <1>7, <2>1, WireFacts DEF SegmentsOK, NoGap
<1>10. SegmentsOK'
  <2>1. \A i, j \in OnWire' : i < j => Before(wire'[i], wire'[j])
    <3>1. ASSUME NEW i \in OnWire', NEW j \in OnWire', i < j
          PROVE  Before(wire[i + 1], wire[j + 1])
      <4>1. i + 1 < j + 1
        BY <1>7, <3>1
      <4> QED
        BY <1>0, <1>7, <4>1 DEF SegmentsOK
    <3> QED
      BY <1>7, <3>1
  <2>2. \A i \in OnWire' : wire'[i].id < nextTxId /\ SegmentOK(wire'[i], xferOf)
    BY <1>0, <1>7 DEF SegmentsOK
  <2>3. Writing => \A i \in OnWire' : wire'[i].id + 1 = nextTxId => wire'[i].off < xOff
    BY <1>0, <1>7 DEF SegmentsOK
  <2> QED
    BY <1>4, <1>7, <2>1, <2>2, <2>3 DEF SegmentsOK
<1>11. NoGap'
  <2>1. Len(peerSent') = wire[1].id + 1 /\ peerSent'[Len(peerSent')] = wire[1].off + 1
        /\ peerSent \in Seq(Nat)
    BY <1>0, <1>2, <1>3 DEF serial, RxInv, RxTypeOK
  <2>2. Joined(wire, peerSent, wire[1].id + 1, wire[1].off, 1)
    BY <1>0, <1>3, <1>7 DEF NoGap
  <2>3. ASSUME NEW n \in Nat, NEW off \in Nat, NEW i \in Nat, Joined(wire, peerSent, n, off, i + 1),
               n > m.id + 1 \/ (n = m.id + 1 /\ off > m.off)
        PROVE  Joined(wire', peerSent', n, off, i)
    BY <1>2, <1>3, <1>7, <2>1, <2>2, <2>3, JoinedRead
  <2>4. ASSUME NEW i \in OnWire'
        PROVE  Joined(wire', peerSent', wire'[i].id + 1, wire'[i].off, i)
    <3>1. PICK s : s = wire[i + 1]
      OBVIOUS
    <3>2. /\ s.id + 1 \in Nat /\ s.off \in Nat /\ i \in Nat /\ wire'[i] = s
          /\ s.id + 1 > m.id + 1 \/ (s.id + 1 = m.id + 1 /\ s.off > m.off)
      <4>1. i \in Nat /\ wire'[i] = s
        BY <1>7, <3>1
      <4>2. s.id \in Nat /\ s.off \in Nat /\ Before(m, s)
        BY <1>9, <3>1
      <4> QED
        BY <1>3, <4>1, <4>2 DEF Before
    <3>3. Joined(wire, peerSent, s.id + 1, s.off, i + 1)
      BY <1>9, <3>1
    <3> QED
      BY <2>3, <3>2, <3>3
  <2>5. ASSUME ~xFailed
        PROVE  Joined(wire', peerSent', NextXfer', NextOff', Len(wire') + 1)
    <3>1. Joined(wire, peerSent, NextXfer, NextOff, Len(wire) + 1)
      BY <1>0, <1>3, <2>5 DEF NoGap
    <3>2. PICK k \in Nat : k = Len(wire)
      BY <1>7
    <3>3. /\ NextXfer \in Nat /\ NextOff \in Nat
          /\ NextXfer > m.id + 1 \/ (NextXfer = m.id + 1 /\ NextOff > m.off)
      <4>0. m.id \in Nat /\ nextTxId \in Nat /\ m.id < nextTxId
        BY <1>3, <1>5, <1>8
      <4>1. CASE Writing
        <5>1. NextXfer = nextTxId /\ NextOff = xOff /\ xOff \in Nat
          BY <1>5, <4>1 DEF NextXfer, NextOff
        <5>2. m.id + 1 = nextTxId => m.off < xOff
          BY <1>8, <4>1
        <5> QED
          BY <4>0, <5>1, <5>2
      <4>2. CASE ~Writing
        <5>1. NextXfer = nextTxId + 1 /\ NextOff = 0
          BY <4>2 DEF NextXfer, NextOff
        <5> QED
          BY <4>0, <5>1
      <4> QED
        BY <4>1, <4>2
    <3>4. Joined(wire', peerSent', NextXfer, NextOff, k)
      BY <2>3, <3>1, <3>2, <3>3
    <3>5. Len(wire') + 1 = k
      BY <1>7, <3>2
    <3> QED
      BY <1>4, <3>4, <3>5
  <2> QED
    BY <1>4, <2>4, <2>5 DEF NoGap
<1>12. Size(xferOf, m.id + 1) \in Nat /\ m.off + 1 <= Size(xferOf, m.id + 1)
       /\ (m.end <=> m.off + 1 = Size(xferOf, m.id + 1))
  <2>1. m.id + 1 \in 1 .. nextTxId
    BY <1>3, <1>5, <1>8
  <2> QED
    BY <1>3, <1>5, <1>8, <2>1 DEF SegmentOK
<1>13. ReceivedOK'
  <2>1. serial' <= nextTxId'
    BY <1>3, <1>4, <1>5, <1>8
  <2>2. \A n \in 1 .. serial' : peerSent'[n] \in 1 .. Size(xferOf', n)
    <3>1. ASSUME NEW n \in 1 .. serial' PROVE peerSent'[n] \in 1 .. Size(xferOf, n)
      <4>1. CASE n = serial'
        <5>1. n = m.id + 1 /\ peerSent'[n] = m.off + 1 /\ m.off \in Nat
          BY <1>3, <4>1
        <5>2. Size(xferOf, n) \in Nat /\ m.off + 1 <= Size(xferOf, n)
          BY <1>12, <5>1
        <5> QED
          BY <5>1, <5>2
      <4>2. CASE n # serial'
        <5>1. n \in Nat /\ n \in 1 .. serial
          BY <1>3, <4>2
        <5>2. peerSent'[n] = peerSent[n]
          BY <1>3, <4>2, <5>1
        <5> QED
          BY <1>0, <5>1, <5>2 DEF ReceivedOK
      <4> QED
        BY <4>1, <4>2
    <3> QED
      BY <1>4, <3>1
  <2>3. Writing' /\ serial' = nextTxId' => peerSent'[serial'] <= xOff'
    BY <1>3, <1>4, <1>5, <1>8
  <2>4. rxId' + 1 = serial'
    BY <1>3
  <2>5. seg'.len = 1 /\ (seg'.end <=> peerSent'[serial'] = Size(xferOf', serial'))
    BY <1>3, <1>4, <1>12
  <2>6. ASSUME dlvPending'
        PROVE  dlvId' + 1 = dlvSerial' /\ peerSent'[dlvSerial'] = Size(xferOf', dlvSerial')
    <3>1. dlvSerial \in 1 .. serial /\ dlvSerial # serial'
      <4>1. CASE m.start
        BY <1>3, <1>5, <2>6, <4>1
      <4>2. CASE ~m.start
        <5>1. Receiving
          BY <1>3, <4>2 DEF Receiving
        <5> QED
          BY <1>3, <1>5, <2>6, <4>2, <5>1
      <4> QED
        BY <4>1, <4>2
    <3>2. dlvId + 1 = dlvSerial /\ peerSent[dlvSerial] = Size(xferOf, dlvSerial)
      BY <1>0, <1>3, <2>6 DEF ReceivedOK
    <3> QED
      BY <1>3, <1>4, <3>1, <3>2
  <2> QED
    BY <1>3, <2>1, <2>2, <2>3, <2>4, <2>5, <2>6 DEF ReceivedOK
<1>14. AnswersOK' /\ Acquired' = Acquired
  <2>1. Replies' = Replies
    BY <1>3 DEF Replies
  <2>2. ASSUME NEW i \in 1 .. Len(delivered)
        PROVE  DeliveryOK(delivered[i], xferOf, peerSent')
    <3>1. delivered[i].n \in 1 .. serial /\ delivered[i].n # serial'
      <4>1. CASE m.start
        <5>1. delivered[i].n \in 1 .. dlvSerial /\ serial' = serial + 1
          BY <1>3, <1>5, <4>1
        <5> QED
          BY <1>5, <5>1
      <4>2. CASE ~m.start
        <5>1. Receiving
          BY <1>3, <4>2 DEF Receiving
        <5> QED
          BY <1>3, <1>5, <4>2, <5>1
      <4> QED
        BY <4>1, <4>2
    <3>2. peerSent'[delivered[i].n] = peerSent[delivered[i].n]
      BY <1>3, <3>1
    <3> QED
      BY <1>0, <3>2 DEF AnswersOK, DeliveryOK
  <2> QED
    BY <1>0, <1>3, <1>4, <2>1, <2>2 DEF AnswersOK, Acquired
<1>15. AckedOK'
  BY <1>0, <1>4, <1>14 DEF AckedOK
<1> QED
  BY <1>1, <1>6, <1>10, <1>11, <1>13, <1>14, <1>15 DEF HandoverInv

-----------------------------------------------------------------------------
(* The session keeps the promise of a convergence layer. *)

LEMMA HandoverInvInit == SessInit => HandoverInv
<1> SUFFICES ASSUME SessInit PROVE HandoverInv
  OBVIOUS
<1>1. TxInv /\ RxInv
  BY TxInvInit, RxInvInit DEF SessInit
<1>2. /\ wire = <<>> /\ OnWire = {} /\ Places(wire) = {} /\ xferOf = <<>> /\ nextTxId = 0
      /\ ~Writing /\ ~xFailed /\ xpc = "none" /\ completed = {} /\ acked = {} /\ txWindow = <<>>
      /\ peerSent = <<>> /\ delivered = <<>> /\ Replies = {} /\ serial = 0 /\ rxPc = "loop"
      /\ ~rxActive /\ ~dlvPending
  BY DEF SessInit, Init, RxInit, OnWire, Places, Writing, Replies, serial
<1>3. XfersOK /\ WriterOK /\ AckedOK
  BY <1>2 DEF XfersOK, WriterOK, AckedOK, ToSet
<1>4. SegmentsOK
  BY <1>2 DEF SegmentsOK
<1>5. NoGap
  <2>1. NextXfer = 1 /\ NextOff = 0 /\ Len(peerSent) + 1 = 1
    BY <1>2 DEF NextXfer, NextOff
  <2> QED
    BY <1>2, <2>1 DEF NoGap, Joined
<1>6. ReceivedOK /\ AnswersOK
  BY <1>2 DEF ReceivedOK, AnswersOK, Receiving
<1> QED
  BY <1>1, <1>3, <1>4, <1>5, <1>6 DEF HandoverInv

LEMMA SessSteps ==
    ASSUME SessNext
    PROVE  AQuiet \/ ARead \/ ABegin \/ AWrite \/ NodeB
BY DEF SessNext, NodeA, AXmit, AQuiet, XmitRest, ABegin, AWrite

LEMMA HandoverInvStep == HandoverInv /\ [SessNext]_sessVars => HandoverInv'
<1> SUFFICES ASSUME HandoverInv, [SessNext]_sessVars PROVE HandoverInv'
  OBVIOUS
<1>1. CASE SessNext
  <2>1. CASE NodeB
    <3>1. BQuiet \/ BSegment
      BY <2>1, BSteps DEF HandoverInv, SegmentsOK
    <3> QED
      BY <2>1, <3>1, BQuietKeeps, SegmentKeeps
  <2> QED
    BY <1>1, <2>1, SessSteps, QuietKeeps, BeginKeeps, WriteKeeps
<1>2. CASE UNCHANGED sessVars
  <2>1. TxInv' /\ RxInv'
    BY <1>2, NodesStep DEF HandoverInv, SegmentsOK
  <2>2. UNCHANGED <<vars, wire, xferOf, rxPc, seg, rxActive, rxId, dlvPending, dlvId, dlvSerial,
                    toPeer, delivered, peerSent>>
    BY <1>2 DEF sessVars, rxVars
  <2>3. UNCHANGED <<nextTxId, transferId, txWindow, xpc, xOff, xBundle, xFailed, completed, acked,
                    Writing, NextXfer, NextOff>>
    BY <2>2 DEF vars, Writing, NextXfer, NextOff
  <2>4. UNCHANGED <<OnWire, serial, Replies, Acquired, Receiving, Reading>>
    BY <2>2 DEF OnWire, serial, Replies, Acquired, Receiving, Reading
  <2>5. XfersOK' /\ WriterOK' /\ SegmentsOK' /\ AckedOK'
    BY <2>2, <2>3, <2>4 DEF HandoverInv, XfersOK, WriterOK, SegmentsOK, AckedOK
  <2>6. NoGap' /\ ReceivedOK' /\ AnswersOK'
    BY <2>2, <2>3, <2>4 DEF HandoverInv, NoGap, ReceivedOK, AnswersOK
  <2> QED
    BY <2>1, <2>5, <2>6 DEF HandoverInv
<1> QED
  BY <1>1, <1>2

LEMMA HandoverInvAlways == SessSpec => []HandoverInv
BY HandoverInvInit, HandoverInvStep, PTL DEF SessSpec

\* BP lets go of a bundle only when a thread reports that the transfer succeeded.
LEMMA SentStep ==
    ASSUME [AnyNext]_vars
    PROVE  \/ sent' = sent
           \/ \E t \in Reporters : \E b \in finished[t] : Succeeded(b) /\ sent' = sent \cup {b}
<1>1. ASSUME NEW t \in Reporters, NEW b, Report(t, b)
      PROVE  sent' = sent \/ (b \in finished[t] /\ Succeeded(b) /\ sent' = sent \cup {b})
  BY <1>1 DEF Report
<1>2. CASE \E s \in Senders : Sender(s)
  BY <1>2 DEF Sender, SenderDequeue, SenderClaim, SenderDecline, QueuePrepare, QueueXfer,
              QueueRefuse, SenderRelease
<1>3. CASE Xmit
  <2>1. CASE XmitReport
    <3>1. PICK b \in finished["xmit"] : Report("xmit", b)
      BY <2>1 DEF XmitReport
    <3> QED
      BY <1>1, <3>1 DEF Reporters
  <2>2. CASE ~XmitReport
    BY <1>3, <2>2 DEF Xmit, XmitStart, XmitTake, XmitExit, XmitWrite, XmitWriteFails, XmitCheck,
                      XmitLetGo, XmitNext
  <2> QED
    BY <2>1, <2>2
<1>4. CASE AnyRecv
  <2>1. CASE RecvReport
    <3>1. PICK b \in finished["recv"] : Report("recv", b)
      BY <2>1 DEF RecvReport
    <3> QED
      BY <1>1, <3>1 DEF Reporters
  <2>2. CASE ~RecvReport
    BY <1>4, <2>2 DEF AnyRecv, RecvOpen, RecvAck, RecvRefuse, RecvSessTerm, RecvNext,
                      RecvMsgReject, RecvTermStop, RecvLeaveLoop, RecvConnFail, RecvTxStop,
                      RecvJoin, RecvDone
  <2> QED
    BY <2>1, <2>2
<1>5. CASE Clock
  <2>1. CASE DrainReport
    <3>1. PICK b \in finished["clock"] : Report("clock", b)
      BY <2>1 DEF DrainReport
    <3> QED
      BY <1>1, <3>1 DEF Reporters
  <2>2. CASE ~DrainReport
    BY <1>5, <2>2 DEF Clock, ClockIdleTerm, ClockTxStop, ClockReap, TxDrain, FreeConn
  <2> QED
    BY <2>1, <2>2
<1>6. CASE ConnFail \/ UNCHANGED vars
  BY <1>6 DEF ConnFail, vars
<1> QED
  BY <1>2, <1>3, <1>4, <1>5, <1>6 DEF AnyNext

\* BP acquires at most one bundle at a time.
LEMMA AcquireStep ==
    ASSUME HandoverInv, BQuiet
    PROVE  Acquired' = Acquired \/ \E b \in Bundles : Acquired' = Acquired \cup {b}
<1>1. xferOf' = xferOf
  BY DEF BQuiet, BKeepsWire
<1>2. CASE delivered' = delivered
  BY <1>1, <1>2 DEF Acquired
<1>3. CASE delivered' # delivered
  <2>1. DlvDeliver
    <3>1. CASE Aside
      BY <1>3, <3>1 DEF Aside
    <3>2. CASE RxRefuse \/ RxData \/ RxAck \/ RxHandOver
      BY <1>3, <3>2 DEF RxRefuse, RxData, RxAck, RxHandOver
    <3>3. CASE DlvTake \/ DlvAck \/ DlvSettle
      BY <1>3, <3>3 DEF DlvTake, DlvAck, DlvSettle
    <3> QED
      BY <3>1, <3>2, <3>3 DEF BQuiet, Delivery
  <2>2. PICK d : d.id = dlvId /\ delivered' = Append(delivered, d) /\ dlvPc = "deliver"
    <3>1. dlvPc = "deliver"
          /\ delivered' = Append(delivered, [n |-> dlvSerial, id |-> dlvId,
                                             data |-> SubSeq(mem[1 - rxBundle], 1, dlvLen)])
      BY <1>3, <2>1 DEF DlvDeliver
    <3> QED
      BY <3>1
  <2>3. /\ Len(delivered) \in Nat /\ Len(delivered') = Len(delivered) + 1
        /\ delivered'[Len(delivered) + 1] = d
        /\ \A i \in 1 .. Len(delivered) : delivered'[i] = delivered[i]
    <3>1. delivered \in Seq([n : Nat, id : Nat, data : Buffers])
      BY DEF HandoverInv, RxInv, LogsOK
    <3> QED
      BY <2>2, <3>1
  <2>4. PICK b : b = xferOf[dlvId + 1]
    OBVIOUS
  <2>5. b \in Bundles
    <3>1. dlvPending /\ dlvId + 1 = dlvSerial
      BY <2>2 DEF HandoverInv, RxInv, HandoffOK, ReceivedOK
    <3>2. dlvSerial \in 1 .. serial /\ serial <= nextTxId /\ nextTxId \in Nat /\ serial \in Nat
      BY <3>1, SessTypes DEF HandoverInv, ReceivedOK
    <3>3. dlvSerial \in 1 .. nextTxId
      BY <3>2
    <3> QED
      BY <2>4, <3>1, <3>3, SessTypes DEF HandoverInv
  <2>6. Acquired' = {xferOf'[delivered'[i].id + 1] : i \in 1 .. Len(delivered')}
    BY DEF Acquired
  <2>7. Acquired' \subseteq Acquired \cup {b}
    BY <1>1, <2>2, <2>3, <2>4, <2>6 DEF Acquired
  <2>8. Acquired \subseteq Acquired'
    <3>1. \A i \in 1 .. Len(delivered) : i \in 1 .. Len(delivered') /\ delivered'[i] = delivered[i]
      BY <2>3
    <3> QED
      BY <1>1, <2>6, <3>1 DEF Acquired
  <2>9. b \in Acquired'
    <3>1. Len(delivered) + 1 \in 1 .. Len(delivered')
      BY <2>3
    <3> QED
      BY <1>1, <2>2, <2>3, <2>4, <2>6, <3>1
  <2> QED
    BY <2>5, <2>7, <2>8, <2>9
<1> QED
  BY <1>2, <1>3

LEMMA HandoverStep ==
    HandoverInv /\ [SessNext]_sessVars => [Handover!Next]_<<Acquired, sent>>
<1> SUFFICES ASSUME HandoverInv, [SessNext]_sessVars PROVE [Handover!Next]_<<Acquired, sent>>
  OBVIOUS
<1>1. \A b \in Bundles : Acquired' = Acquired \cup {b} /\ sent' = sent => Handover!Next
  BY DEF Handover!Next, Handover!Acquire
<1>2. CASE NodeB
  <2>1. sent' = sent
    BY <1>2 DEF NodeB, BRead, BOther, vars
  <2>2. CASE BQuiet
    BY <1>1, <2>1, <2>2, AcquireStep
  <2>3. CASE BSegment
    BY <1>2, <2>1, <2>3, SegmentKeeps
  <2>4. BQuiet \/ BSegment
    BY <1>2, BSteps DEF HandoverInv, SegmentsOK
  <2> QED
    BY <2>2, <2>3, <2>4
<1>3. CASE AQuiet \/ ARead \/ ABegin \/ AWrite
  <2>1. Acquired' = Acquired
    BY <1>3, QuietKeeps, BeginKeeps, WriteKeeps
  <2>2. [AnyNext]_vars
    BY SessIsTx DEF HandoverInv, RxInv
  <2>3. ASSUME NEW t \in Reporters, NEW b \in finished[t], Succeeded(b), sent' = sent \cup {b}
        PROVE  Handover!Next
    <3>1. b \in Bundles
      BY <2>3 DEF HandoverInv, TxInv, Base, TypeInv, TypeOK
    <3>2. b \in Acquired
      BY <2>3 DEF HandoverInv, Succeeded, XfersOK, AckedOK
    <3> QED
      BY <2>1, <2>3, <3>1, <3>2 DEF Handover!Next, Handover!Release
  <2> QED
    BY <2>1, <2>2, <2>3, SentStep
<1>4. CASE UNCHANGED sessVars
  BY <1>4 DEF sessVars, vars, rxVars, Acquired
<1> QED
  BY <1>2, <1>3, <1>4, SessSteps

\* A session between two nodes keeps the promise of a convergence layer: A's BP is told
\* that a bundle was sent only once B's BP has acquired it, in whatever order the four
\* threads, the messages both ways and the end of the connection come.
THEOREM SessionKeepsPromise == SessSpec => HandoverSpec
<1>1. SessInit => Handover!Init
  BY DEF SessInit, Init, RxInit, Handover!Init, Acquired
<1> QED
  BY <1>1, HandoverInvAlways, HandoverStep, PTL DEF SessSpec, HandoverSpec, Handover!Spec

-----------------------------------------------------------------------------
(* Acknowledgments grow: the steps of A. *)

\* Every length that B has acknowledged or is going to is a positive one.
LEMMA AckLengths ==
    ASSUME HandoverInv
    PROVE  /\ \A n \in Nat : \A i \in AckPlaces(n) : toPeer[i].len \in Nat \ {0} /\ n \in 1 .. serial
           /\ \A n, len \in Nat : WillAck(n, len) => len > 0 /\ n \in 1 .. serial
           /\ serial \in Nat /\ rxLen \in Nat /\ NextAck \in Nat
<1>1. /\ serial \in Nat /\ (\A n \in 1 .. serial : peerSent[n] \in Nat \ {0})
      /\ (\A n \in 1 .. nextTxId : Size(xferOf, n) \in Nat \ {0}) /\ (Receiving => serial > 0)
      /\ (dlvPending => dlvSerial \in 1 .. serial) /\ nextTxId \in Nat /\ serial <= nextTxId
      /\ \A i \in Replies : toPeer[i].n \in 1 .. serial
  BY SessTypes DEF HandoverInv, ReceivedOK
<1>2. rxLen \in Nat /\ NextAck \in Nat
  BY DEF HandoverInv, RxInv, RxTypeOK, NextAck
<1>3. ASSUME NEW n \in Nat, NEW i \in AckPlaces(n)
      PROVE  toPeer[i].len \in Nat \ {0} /\ n \in 1 .. serial
  <2>1. i \in Replies /\ toPeer[i].type = "XFER_ACK" /\ toPeer[i].n = n
    BY DEF AckPlaces
  <2>2. n \in 1 .. serial /\ n \in 1 .. nextTxId
    BY <1>1, <2>1
  <2>3. toPeer[i].len \in 1 .. Size(xferOf, n)
    BY <2>1 DEF HandoverInv, AnswersOK, ReplyOK
  <2> QED
    BY <1>1, <2>2, <2>3
<1>4. ASSUME NEW n \in Nat, NEW len \in Nat, WillAck(n, len) PROVE len > 0 /\ n \in 1 .. serial
  <2>1. CASE Receiving /\ ~rxRefused /\ n = serial /\ len = NextAck
    <3>1. serial \in 1 .. serial
      BY <1>1, <2>1
    <3>2. CASE rxPc \in {"ack", "handover"}
      <4>1. rxLen = peerSent[serial]
        BY <2>1, <3>2 DEF HandoverInv, RxInv, FillOK, Filling
      <4> QED
        BY <1>1, <2>1, <3>1, <3>2, <4>1 DEF NextAck
    <3>3. CASE rxPc \notin {"ack", "handover"}
      BY <1>2, <2>1, <3>1, <3>3 DEF NextAck
    <3> QED
      BY <3>2, <3>3
  <2>2. CASE dlvPending /\ n = dlvSerial /\ len = dlvLen
    <3>1. dlvLen = peerSent[dlvSerial]
      BY <2>2 DEF HandoverInv, RxInv, HandoffOK
    <3> QED
      BY <1>1, <2>2, <3>1
  <2> QED
    BY <1>4, <2>1, <2>2 DEF WillAck
<1> QED
  BY <1>1, <1>2, <1>3, <1>4

\* A step of A keeps, drops, or takes from the acknowledgment it reads what it has heard.
HeardKept == \A n \in Nat : Heard(n)' = Heard(n) \/ Heard(n)' = 0
HeardNow == ReadsOne /\ \A n \in Nat : \/ Heard(n)' = Heard(n) \/ Heard(n)' = 0
                                       \/ 1 \in AckPlaces(n) /\ Heard(n)' = toPeer[1].len
FreshWindow == txWindow = <<>> => txAckedLen = 0 \/ txStopped

LEMMA HeardGrows ==
    ASSUME HandoverInv, AcksGrow,
           UNCHANGED <<rxPc, seg, rxSegVars, dlvVars, delivered, peerSent>>,
           (toPeer' = toPeer /\ HeardKept) \/ HeardNow, FreshWindow'
    PROVE  AcksGrow'
<1>1. \A n, len \in Nat : WillAck(n, len)' <=> WillAck(n, len)
  <2>1. UNCHANGED <<Receiving, serial, NextAck, rxRefused, dlvPending, dlvPc, dlvSerial, dlvLen>>
    BY DEF Receiving, serial, NextAck
  <2> QED
    BY <2>1 DEF WillAck
<1>2. serial' = serial
  BY DEF serial
<1>3. CASE toPeer' = toPeer /\ HeardKept
  <2>1. \A n \in Nat : AckPlaces(n)' = AckPlaces(n)
    BY <1>3 DEF AckPlaces, Replies
  <2>2. ASSUME NEW n \in Nat
        PROVE  /\ \A i, j \in AckPlaces(n)' : i < j => toPeer'[i].len < toPeer'[j].len
               /\ \A i \in AckPlaces(n)' : Heard(n)' < toPeer'[i].len
               /\ n > serial => Heard(n)' = 0
               /\ \A len \in Nat : WillAck(n, len)' => Below(n, len)'
    <3>1. Heard(n)' = Heard(n) \/ Heard(n)' = 0
      BY <1>3 DEF HeardKept
    <3>2. \A i \in AckPlaces(n) : Heard(n)' < toPeer[i].len
      BY <3>1, AckLengths DEF AcksGrow
    <3>3. ASSUME NEW len \in Nat, WillAck(n, len) PROVE Below(n, len)'
      <4>1. Heard(n) < len /\ len > 0 /\ \A i \in AckPlaces(n) : toPeer[i].len < len
        BY <3>3, AckLengths DEF AcksGrow, Below
      <4> QED
        BY <1>3, <2>1, <3>1, <4>1 DEF Below
    <3> QED
      BY <1>1, <1>3, <2>1, <3>1, <3>2, <3>3 DEF AcksGrow
  <2> QED
    BY <1>2, <2>2 DEF AcksGrow, FreshWindow
<1>4. CASE HeardNow
  <2>1. /\ \A i \in Replies' : i + 1 \in Replies /\ toPeer'[i] = toPeer[i + 1] /\ i \in Nat \ {0}
    BY <1>4, PeerRead DEF HeardNow, ReadsOne, HandoverInv, RxInv
  <2>2. \A n \in Nat : \A i \in AckPlaces(n)' :
           i + 1 \in AckPlaces(n) /\ toPeer'[i] = toPeer[i + 1] /\ i \in Nat \ {0}
    BY <2>1 DEF AckPlaces
  <2>3. ASSUME NEW n \in Nat
        PROVE  /\ \A i, j \in AckPlaces(n)' : i < j => toPeer'[i].len < toPeer'[j].len
               /\ \A i \in AckPlaces(n)' : Heard(n)' < toPeer'[i].len
               /\ n > serial => Heard(n)' = 0
               /\ \A len \in Nat : WillAck(n, len)' => Below(n, len)'
    <3>1. \/ Heard(n)' = Heard(n) \/ Heard(n)' = 0
          \/ 1 \in AckPlaces(n) /\ Heard(n)' = toPeer[1].len
      BY <1>4 DEF HeardNow
    <3>2. ASSUME NEW i \in AckPlaces(n)' PROVE Heard(n)' < toPeer'[i].len
      <4>1. i + 1 \in AckPlaces(n) /\ toPeer'[i] = toPeer[i + 1] /\ 1 < i + 1
        BY <2>2
      <4>2. Heard(n) < toPeer[i + 1].len /\ 0 < toPeer[i + 1].len
        BY <4>1, AckLengths DEF AcksGrow
      <4>3. 1 \in AckPlaces(n) => toPeer[1].len < toPeer[i + 1].len
        BY <4>1 DEF AcksGrow
      <4> QED
        BY <3>1, <4>1, <4>2, <4>3
    <3>3. ASSUME NEW i \in AckPlaces(n)', NEW j \in AckPlaces(n)', i < j
          PROVE  toPeer'[i].len < toPeer'[j].len
      <4>1. i + 1 \in AckPlaces(n) /\ j + 1 \in AckPlaces(n) /\ i + 1 < j + 1
            /\ toPeer'[i] = toPeer[i + 1] /\ toPeer'[j] = toPeer[j + 1]
        BY <2>2, <3>3
      <4> QED
        BY <4>1 DEF AcksGrow
    <3>4. n > serial => Heard(n)' = 0
      <4>1. n > serial => Heard(n) = 0
        BY DEF AcksGrow
      <4>2. 1 \in AckPlaces(n) => n \in 1 .. serial /\ serial \in Nat
        BY AckLengths
      <4> QED
        BY <3>1, <4>1, <4>2
    <3>5. ASSUME NEW len \in Nat, WillAck(n, len) PROVE Below(n, len)'
      <4>1. Heard(n) < len /\ len > 0 /\ \A i \in AckPlaces(n) : toPeer[i].len < len
        BY <3>5, AckLengths DEF AcksGrow, Below
      <4>2. Heard(n)' < len
        BY <3>1, <4>1
      <4>3. \A i \in AckPlaces(n)' : toPeer'[i].len < len
        BY <2>2, <4>1
      <4> QED
        BY <4>2, <4>3 DEF Below
    <3> QED
      BY <1>1, <3>2, <3>3, <3>4, <3>5
  <2> QED
    BY <1>2, <2>3 DEF AcksGrow, FreshWindow
<1> QED
  BY <1>3, <1>4

LEMMA HeardSame ==
    ASSUME FreshWindow, UNCHANGED <<txWindow, transferId, txAckedLen>>, txStopped => txStopped'
    PROVE  HeardKept /\ FreshWindow'
BY DEF HeardKept, Heard, FreshWindow

\* When the oldest transfer leaves the window, what was heard of it is forgotten.
LEMMA FinishedHeard ==
    ASSUME TxInv, NEW i \in 1 .. Len(txWindow), NEW t, NEW len \in Nat, TxFinished(i, t, len),
           transferId' = transferId, i = 1 \/ len = txAckedLen
    PROVE  /\ \A n \in Nat : \/ Heard(n)' = Heard(n) \/ Heard(n)' = 0
                             \/ transferId[Head(txWindow)] + 1 = n /\ Heard(n)' = len
           /\ FreshWindow'
<1>1. txWindow \in Seq(Bundles) /\ Len(txWindow) \in Nat \ {0} /\ Head(txWindow) = txWindow[1]
      /\ txWindow # <<>>
  BY DEF TxInv, Base, TypeInv, TypeOK
<1>2. CASE txWindow' = txWindow /\ txAckedLen' = len
  BY <1>1, <1>2 DEF Heard, FreshWindow
<1>3. CASE txWindow' = RemoveAt(txWindow, i) /\ txAckedLen' = AckedLenAfterUnlink(i, len)
  <2>1. CASE i = 1
    <3>1. txAckedLen' = 0
      BY <1>3, <2>1 DEF AckedLenAfterUnlink
    <3> QED
      BY <3>1 DEF Heard, FreshWindow
  <2>2. CASE i # 1
    <3>1. txAckedLen' = txAckedLen
      BY <1>3, <2>2 DEF AckedLenAfterUnlink
    <3>2. /\ txWindow' \in Seq(Bundles) /\ Len(txWindow') = Len(txWindow) - 1
          /\ \A j \in 1 .. Len(txWindow) - 1 : txWindow'[j] = txWindow[IF j < i THEN j ELSE j + 1]
      BY <1>1, <1>3, RemoveAtFacts
    <3>3. i \in Nat /\ i > 1 /\ i <= Len(txWindow)
      BY <1>1, <2>2
    <3>4. 1 \in 1 .. Len(txWindow) - 1 /\ 1 < i
      BY <1>1, <3>3
    <3>5. txWindow'[1] = txWindow[1] /\ Len(txWindow') # 0
      BY <1>1, <3>2, <3>4
    <3>6. Head(txWindow') = Head(txWindow) /\ txWindow' # <<>>
      BY <1>1, <3>2, <3>5
    <3> QED
      BY <1>1, <3>1, <3>6 DEF Heard, FreshWindow
  <2> QED
    BY <2>1, <2>2
<1> QED
  BY <1>2, <1>3 DEF TxFinished, Unlink

LEMMA AQuietHeard ==
    ASSUME TxInv, FreshWindow, AQuiet
    PROVE  HeardKept /\ FreshWindow'
<1>1. CASE XmitStart \/ XmitExit \/ XmitWriteFails \/ XmitCheck \/ XmitReport \/ XmitNext
  <2>1. UNCHANGED <<txWindow, transferId, txAckedLen, txStopped>>
    BY <1>1 DEF XmitStart, XmitExit, XmitWriteFails, XmitCheck, XmitReport, XmitNext
  <2> QED
    BY <2>1, HeardSame
<1>2. CASE XmitLetGo
  <2>1. PICK i \in 1 .. Len(txWindow) : TxFinished(i, "xmit", txAckedLen) /\ transferId' = transferId
    BY <1>2 DEF XmitLetGo
  <2>2. txAckedLen \in Nat
    BY DEF TxInv, Base, TypeInv, TypeOK
  <2>3. txWindow # <<>>
    BY DEF TxInv, Base, TypeInv, TypeOK
  <2>4. /\ \A n \in Nat : \/ Heard(n)' = Heard(n) \/ Heard(n)' = 0
                          \/ transferId[Head(txWindow)] + 1 = n /\ Heard(n)' = txAckedLen
        /\ FreshWindow'
    BY <2>1, <2>2, FinishedHeard
  <2> QED
    BY <2>3, <2>4 DEF HeardKept, Heard
<1>3. CASE \/ (\E s \in Senders : Sender(s)) \/ RecvOpen \/ RecvReport \/ RecvLeaveLoop
           \/ RecvConnFail \/ RecvTxStop \/ RecvJoin \/ RecvDone \/ RecvNext \/ RecvTermStop
           \/ ConnFail \/ ClockIdleTerm \/ ClockTxStop \/ ClockReap \/ DrainReport \/ FreeConn
  <2>1. CASE \E s \in Senders : Sender(s)
    <3>1. UNCHANGED <<txWindow, transferId, txAckedLen, txStopped>>
      BY <2>1 DEF Sender, SenderDequeue, SenderClaim, SenderDecline, QueuePrepare, QueueXfer,
                  QueueRefuse, SenderRelease
    <3> QED
      BY <3>1, HeardSame
  <2>2. CASE ~ \E s \in Senders : Sender(s)
    <3>1. UNCHANGED <<txWindow, transferId, txAckedLen>> /\ (txStopped => txStopped')
      BY <1>3, <2>2 DEF RecvOpen, RecvReport, RecvLeaveLoop, RecvConnFail, RecvTxStop, RecvJoin,
            RecvDone, RecvNext, RecvTermStop, ConnFail, ClockIdleTerm, ClockTxStop, ClockReap,
            DrainReport, FreeConn
    <3> QED
      BY <3>1, HeardSame
  <2> QED
    BY <2>1, <2>2
<1>4. CASE TxDrain
  <2>1. txWindow' = <<>> /\ txStopped'
    BY <1>4 DEF TxDrain
  <2> QED
    BY <2>1 DEF HeardKept, Heard, FreshWindow
<1> QED
  BY <1>1, <1>2, <1>3, <1>4 DEF AQuiet, XmitRest, ANext, ATermStop, AIdleStop, AOther

\* The head of the window is the transfer that an acknowledgment is about, and the
\* acknowledgment makes sense.
LEMMA AckMakesSense ==
    ASSUME HandoverInv, AcksGrow, NEW m, toPeer # <<>>, m = Head(toPeer), m.type = "XFER_ACK",
           AckNamesHead(m.id)
    PROVE  /\ AckAdvances(m.len) /\ 1 \in AckPlaces(m.n) /\ m = toPeer[1] /\ m.n \in Nat
           /\ m.len \in Nat /\ m.id + 1 = m.n /\ transferId[Head(txWindow)] + 1 = m.n
<1>1. toPeer \in Seq(Messages)
  BY DEF HandoverInv, RxInv, LogsOK
<1>2. 1 \in Replies /\ m = toPeer[1]
  BY <1>1 DEF Replies
<1>3. m.id + 1 = m.n /\ m.len \in 1 .. Size(xferOf, m.n)
  BY <1>2 DEF HandoverInv, AnswersOK, ReplyOK
<1>4. m.n \in Nat /\ m.len \in Nat /\ 1 \in AckPlaces(m.n)
  <2>1. m.n \in Nat /\ m.len \in Nat
    BY <1>2, ReplyTypes DEF HandoverInv, RxInv
  <2> QED
    BY <1>2, <2>1 DEF AckPlaces
<1>5. Heard(m.n) < m.len
  BY <1>2, <1>4 DEF AcksGrow
<1>6. txWindow # <<>> /\ transferId[Head(txWindow)] + 1 = m.n
  BY <1>3 DEF AckNamesHead
<1>7. Heard(m.n) = txAckedLen
  BY <1>6 DEF Heard
<1>8. Length[Head(txWindow)] = Size(xferOf, m.n)
  <2>1. txWindow \in Seq(Bundles)
    BY DEF HandoverInv, TxInv, Base, TypeInv, TypeOK
  <2>2. Head(txWindow) \in ToSet(txWindow)
    BY <1>6, <2>1 DEF ToSet
  <2> QED
    BY <1>6, <2>2 DEF HandoverInv, XfersOK, Size
<1>9. AckAdvances(m.len)
  <2>1. txAckedLen \in Nat
    BY DEF HandoverInv, TxInv, Base, TypeInv, TypeOK
  <2>2. Size(xferOf, m.n) \in Nat
    <3>1. m.n \in 1 .. nextTxId
      BY <1>2, SessTypes DEF HandoverInv, ReceivedOK
    <3> QED
      BY <3>1, SessTypes DEF HandoverInv
  <2> QED
    BY <1>3, <1>4, <1>5, <1>7, <1>8, <2>1, <2>2 DEF AckAdvances
<1> QED
  BY <1>2, <1>3, <1>4, <1>6, <1>9

LEMMA ReadHeard ==
    ASSUME HandoverInv, AcksGrow, ARead
    PROVE  HeardNow /\ FreshWindow'
<1>0. FreshWindow /\ TxInv /\ RxInv /\ WriterOK /\ LogsOK
  BY DEF AcksGrow, FreshWindow, HandoverInv, RxInv
<1>1. PICK m : m = Head(toPeer)
  OBVIOUS
<1>2. m \in Messages /\ AHandle(m) /\ ReadsOne /\ toPeer # <<>>
  BY <1>0, <1>1, PeerRead DEF ARead, ReadsOne
<1>3. ASSUME HeardKept PROVE HeardNow
  BY <1>2, <1>3 DEF HeardKept, HeardNow
<1>4. ASSUME UNCHANGED <<txWindow, transferId, txAckedLen, txStopped>>
      PROVE  HeardNow /\ FreshWindow'
  BY <1>0, <1>3, <1>4, HeardSame
<1>5. ASSUME UNCHANGED vars PROVE HeardNow /\ FreshWindow'
  BY <1>4, <1>5 DEF vars
<1>6. CASE m.type = "XFER_ACK"
  <2>1. CASE RecvAck(m.id, m.len)
    <3>1. /\ AckAdvances(m.len) /\ 1 \in AckPlaces(m.n) /\ m = toPeer[1] /\ m.n \in Nat
          /\ m.len \in Nat /\ transferId[Head(txWindow)] + 1 = m.n /\ txWindow # <<>>
      <4>1. AckNamesHead(m.id)
        BY <2>1 DEF RecvAck
      <4> QED
        BY <1>1, <1>2, <1>6, <4>1, AckMakesSense DEF AckNamesHead
    <3>2. CASE txAckedLen' = m.len /\ UNCHANGED <<txWindow, transferId>>
      BY <1>2, <3>1, <3>2 DEF HeardNow, Heard, FreshWindow
    <3>3. CASE TxFinished(1, "recv", m.len) /\ transferId' = transferId
      <4>1. 1 \in 1 .. Len(txWindow)
        BY <1>0, <3>1 DEF TxInv, Base, TypeInv, TypeOK
      <4>2. /\ \A n \in Nat : \/ Heard(n)' = Heard(n) \/ Heard(n)' = 0
                              \/ transferId[Head(txWindow)] + 1 = n /\ Heard(n)' = m.len
            /\ FreshWindow'
        BY <1>0, <3>1, <3>3, <4>1, FinishedHeard
      <4> QED
        BY <1>2, <3>1, <4>2 DEF HeardNow
    <3> QED
      BY <2>1, <3>1, <3>2, <3>3 DEF RecvAck
  <2> QED
    BY <1>2, <1>5, <1>6, <2>1 DEF AHandle, AHandleAck
<1>7. CASE m.type = "XFER_REFUSE"
  <2>1. CASE RecvRefuse(m.id, m.reason = "COMPLETED")
    <3>1. PICK i \in 1 .. Len(txWindow) : TxFinished(i, "recv", txAckedLen) /\ transferId' = transferId
      BY <2>1 DEF RecvRefuse
    <3>2. txAckedLen \in Nat /\ txWindow # <<>>
      BY <1>0, <3>1 DEF TxInv, Base, TypeInv, TypeOK
    <3>3. /\ \A n \in Nat : \/ Heard(n)' = Heard(n) \/ Heard(n)' = 0
                            \/ transferId[Head(txWindow)] + 1 = n /\ Heard(n)' = txAckedLen
          /\ FreshWindow'
      BY <1>0, <3>1, <3>2, FinishedHeard
    <3> QED
      BY <1>3, <3>2, <3>3 DEF HeardKept, Heard
  <2> QED
    BY <1>2, <1>5, <1>7, <2>1 DEF AHandle, AHandleRefuse
<1>8. CASE m.type = "MSG_REJECT"
  BY <1>2, <1>4, <1>5, <1>8 DEF AHandle, AHandleReject, RecvMsgReject
<1>9. CASE m.type = "SESS_TERM"
  BY <1>2, <1>4, <1>9 DEF AHandle, RecvSessTerm
<1>10. m.type \in {"XFER_ACK", "XFER_REFUSE", "MSG_REJECT", "SESS_TERM"}
  BY <1>2 DEF Messages
<1> QED
  BY <1>6, <1>7, <1>8, <1>9, <1>10

LEMMA BeginHeard ==
    ASSUME HandoverInv, FreshWindow, ABegin
    PROVE  HeardKept /\ FreshWindow'
<1>1. PICK b : b = Head(txQueue)
  OBVIOUS
<1>2. /\ txQueue \in Seq(Bundles) /\ txQueue # <<>> /\ ~txStopped /\ txAckedLen' = txAckedLen
      /\ txWindow \in Seq(Bundles) /\ transferId \in [Bundles -> Nat] /\ nextTxId \in Nat
      /\ txWindow' = Append(txWindow, b) /\ transferId' = [transferId EXCEPT ![b] = nextTxId]
  BY <1>1 DEF ABegin, XmitTake, HandoverInv, TxInv, Base, TypeInv, TypeOK
<1>3. b \in Bundles /\ b \notin ToSet(txWindow)
  <2>1. b \in ToSet(txQueue) /\ b \in Bundles
    BY <1>1, <1>2 DEF ToSet
  <2> QED
    BY <2>1 DEF HandoverInv, TxInv, Base, Custody, OneHolder
<1>4. txWindow' # <<>>
  BY <1>2, <1>3
<1>5. CASE txWindow = <<>>
  <2>1. txAckedLen' = 0
    BY <1>2, <1>5 DEF FreshWindow
  <2> QED
    BY <1>4, <2>1 DEF HeardKept, Heard, FreshWindow
<1>6. CASE txWindow # <<>>
  <2>1. Head(txWindow') = Head(txWindow) /\ Head(txWindow) \in ToSet(txWindow)
    <3>1. Head(txWindow) = txWindow[1] /\ 1 \in DOMAIN txWindow
      BY <1>2, <1>6
    <3>2. Head(txWindow') = txWindow[1]
      BY <1>2, <1>3, <1>6
    <3> QED
      BY <3>1, <3>2 DEF ToSet
  <2>2. transferId'[Head(txWindow)] = transferId[Head(txWindow)]
    <3>1. Head(txWindow) # b /\ Head(txWindow) \in Bundles
      BY <1>2, <1>3, <1>6, <2>1
    <3> QED
      BY <1>2, <3>1
  <2> QED
    BY <1>2, <1>4, <1>6, <2>1, <2>2 DEF HeardKept, Heard, FreshWindow
<1> QED
  BY <1>5, <1>6

LEMMA AcksGrowA ==
    ASSUME HandoverInv, AcksGrow, AQuiet \/ ARead \/ ABegin \/ AWrite
    PROVE  AcksGrow'
<1>0. FreshWindow /\ TxInv /\ WriterOK /\ RxInv /\ LogsOK
  BY DEF AcksGrow, FreshWindow, HandoverInv, RxInv
<1>1. CASE AQuiet
  <2>1. UNCHANGED <<rxPc, seg, rxSegVars, dlvVars, delivered, peerSent, toPeer>>
    BY <1>0, <1>1, AQuietSteps DEF WireQuiet
  <2> QED
    BY <1>0, <1>1, <2>1, AQuietHeard, HeardGrows
<1>2. CASE ARead
  <2>1. UNCHANGED <<rxPc, seg, rxSegVars, dlvVars, delivered, peerSent>>
    BY <1>2 DEF ARead
  <2> QED
    BY <1>2, <2>1, ReadHeard, HeardGrows
<1>3. CASE ABegin
  <2>1. UNCHANGED <<rxPc, seg, rxSegVars, dlvVars, delivered, peerSent, toPeer>>
    BY <1>3 DEF ABegin, rxVars
  <2> QED
    BY <1>0, <1>3, <2>1, BeginHeard, HeardGrows
<1>4. CASE AWrite
  <2>1. UNCHANGED <<rxPc, seg, rxSegVars, dlvVars, delivered, peerSent, toPeer>>
    BY <1>4 DEF AWrite, rxVars
  <2>2. UNCHANGED <<txWindow, transferId, txAckedLen, txStopped>>
    BY <1>4 DEF AWrite, XmitWrite
  <2>3. HeardKept /\ FreshWindow'
    BY <1>0, <2>2, HeardSame
  <2> QED
    BY <2>1, <2>3, HeardGrows
<1> QED
  BY <1>1, <1>2, <1>3, <1>4

-----------------------------------------------------------------------------
(* Acknowledgments grow: the steps of B. *)

SameAcks == \A n \in Nat : /\ AckPlaces(n)' = AckPlaces(n)
                           /\ \A i \in AckPlaces(n) : toPeer'[i] = toPeer[i]

\* A step that acknowledges nothing: what will be acknowledged is at least what would
\* have been, or is of a transfer that begins.
LEMMA GrowsSilently ==
    ASSUME HandoverInv, AcksGrow, UNCHANGED vars, SameAcks, serial' \in Nat, serial' >= serial,
           \A n, len \in Nat : WillAck(n, len)' =>
              \/ \E l \in Nat : l <= len /\ WillAck(n, l)
              \/ n > serial /\ len > 0
    PROVE  AcksGrow'
<1>1. UNCHANGED <<txWindow, txAckedLen, txStopped, transferId>>
  BY DEF vars
<1>2. \A n \in Nat : Heard(n)' = Heard(n)
  BY <1>1 DEF Heard
<1>3. serial \in Nat /\ \A n \in Nat : n > serial => Heard(n) = 0 /\ AckPlaces(n) = {}
  BY AckLengths DEF AcksGrow
<1>4. ASSUME NEW n \in Nat
      PROVE  /\ \A i, j \in AckPlaces(n)' : i < j => toPeer'[i].len < toPeer'[j].len
             /\ \A i \in AckPlaces(n)' : Heard(n)' < toPeer'[i].len
             /\ n > serial' => Heard(n)' = 0
             /\ \A len \in Nat : WillAck(n, len)' => Below(n, len)'
  <2>1. AckPlaces(n)' = AckPlaces(n) /\ \A i \in AckPlaces(n) : toPeer'[i] = toPeer[i]
    BY DEF SameAcks
  <2>2. ASSUME NEW len \in Nat, WillAck(n, len)' PROVE Below(n, len)'
    <3>1. Heard(n) < len /\ \A i \in AckPlaces(n) : toPeer[i].len < len
      <4>1. CASE n > serial /\ len > 0
        BY <1>3, <4>1
      <4>2. ASSUME NEW l \in Nat, l <= len, WillAck(n, l)
            PROVE  Heard(n) < len /\ \A i \in AckPlaces(n) : toPeer[i].len < len
        <5>1. Heard(n) < l /\ \A i \in AckPlaces(n) : toPeer[i].len < l
          BY <4>2 DEF AcksGrow, Below
        <5>2. Heard(n) \in Nat /\ \A i \in AckPlaces(n) : toPeer[i].len \in Nat
          BY AckLengths DEF Heard, HandoverInv, TxInv, Base, TypeInv, TypeOK
        <5> QED
          BY <4>2, <5>1, <5>2
      <4> QED
        BY <2>2, <4>1, <4>2
    <3> QED
      BY <1>2, <2>1, <3>1 DEF Below
  <2>3. n > serial' => n > serial
    BY <1>3
  <2> QED
    BY <1>2, <1>3, <2>1, <2>2, <2>3 DEF AcksGrow
<1> QED
  BY <1>1, <1>4 DEF AcksGrow

\* A step that acknowledges what was due: what will be acknowledged next is more.
LEMMA GrowsByOne ==
    ASSUME HandoverInv, AcksGrow, UNCHANGED <<vars, peerSent>>, NEW m \in Messages,
           m.type = "XFER_ACK", WillAck(m.n, m.len), toPeer' = Append(toPeer, m),
           \A n, len \in Nat : WillAck(n, len)' =>
              /\ \E l \in Nat : l <= len /\ WillAck(n, l)
              /\ n = m.n => m.len < len
    PROVE  AcksGrow'
<1>1. UNCHANGED <<txWindow, txAckedLen, txStopped, transferId, serial>>
  BY DEF vars, serial
<1>2. \A n \in Nat : Heard(n)' = Heard(n) /\ Heard(n) \in Nat
  BY <1>1 DEF Heard, HandoverInv, TxInv, Base, TypeInv, TypeOK
<1>3. PICK k : k = Len(toPeer) + 1
  OBVIOUS
<1>4. AddsReply(m, k) /\ m.n \in Nat /\ m.len \in Nat
  <2>1. m.n \in Nat /\ m.len \in Nat
    BY DEF Messages
  <2> QED
    BY <1>3, <2>1, ReplyFacts DEF HandoverInv, RxInv
<1>5. ASSUME NEW n \in Nat
      PROVE  /\ AckPlaces(n)' = AckPlaces(n) \cup (IF n = m.n THEN {k} ELSE {})
             /\ \A i \in AckPlaces(n) : toPeer'[i] = toPeer[i] /\ i < k /\ i \in Nat
  BY <1>4 DEF AddsReply, AckPlaces
<1>6. toPeer'[k] = m /\ k \in Nat
  BY <1>4 DEF AddsReply
<1>7. Heard(m.n) < m.len /\ \A i \in AckPlaces(m.n) : toPeer[i].len < m.len
  BY <1>4 DEF AcksGrow, Below
<1>8. ASSUME NEW n \in Nat
      PROVE  /\ \A i, j \in AckPlaces(n)' : i < j => toPeer'[i].len < toPeer'[j].len
             /\ \A i \in AckPlaces(n)' : Heard(n)' < toPeer'[i].len
             /\ \A len \in Nat : WillAck(n, len)' => Below(n, len)'
  <2>1. ASSUME NEW i \in AckPlaces(n)', NEW j \in AckPlaces(n)', i < j
        PROVE  toPeer'[i].len < toPeer'[j].len
    <3>1. CASE j \in AckPlaces(n) /\ i \in AckPlaces(n)
      BY <1>5, <2>1, <3>1 DEF AcksGrow
    <3>2. CASE j = k /\ n = m.n /\ i \in AckPlaces(n)
      BY <1>5, <1>6, <1>7, <3>2
    <3>3. \A h \in AckPlaces(n)' : h \in AckPlaces(n) \/ (h = k /\ n = m.n)
      BY <1>5
    <3>4. \A h \in AckPlaces(n) : h < k /\ h \in Nat
      BY <1>5
    <3>5. i # k
      BY <1>6, <2>1, <3>3, <3>4
    <3> QED
      BY <2>1, <3>1, <3>2, <3>3, <3>5
  <2>2. ASSUME NEW i \in AckPlaces(n)' PROVE Heard(n)' < toPeer'[i].len
    <3>1. CASE i \in AckPlaces(n)
      <4>1. Heard(n) < toPeer[i].len /\ toPeer'[i] = toPeer[i]
        BY <1>5, <3>1 DEF AcksGrow
      <4> QED
        BY <1>2, <4>1
    <3>2. CASE i = k /\ n = m.n
      BY <1>2, <1>6, <1>7, <3>2
    <3> QED
      BY <1>5, <2>2, <3>1, <3>2
  <2>3. ASSUME NEW len \in Nat, WillAck(n, len)' PROVE Below(n, len)'
    <3>1. (n = m.n => m.len < len) /\ \E l \in Nat : l <= len /\ WillAck(n, l)
      BY <2>3
    <3>2. PICK l \in Nat : l <= len /\ WillAck(n, l)
      BY <3>1
    <3>3. Heard(n) < l /\ \A i \in AckPlaces(n) : toPeer[i].len < l /\ toPeer[i].len \in Nat
      BY <3>2, AckLengths DEF AcksGrow, Below
    <3>4. Heard(n) < len /\ \A i \in AckPlaces(n) : toPeer[i].len < len
      <4>1. Heard(n) \in Nat
        BY <1>2
      <4> QED
        BY <3>2, <3>3, <4>1
    <3>5. ASSUME NEW i \in AckPlaces(n)' PROVE toPeer'[i].len < len
      <4>1. CASE i \in AckPlaces(n)
        <5>1. toPeer'[i] = toPeer[i]
          BY <1>5, <4>1
        <5> QED
          BY <3>4, <4>1, <5>1
      <4>2. CASE i = k /\ n = m.n
        BY <1>6, <3>1, <4>2
      <4>3. i \in AckPlaces(n) \/ (i = k /\ n = m.n)
        BY <1>5, <3>5
      <4> QED
        BY <4>1, <4>2, <4>3
    <3> QED
      BY <1>2, <3>4, <3>5 DEF Below
  <2> QED
    BY <2>1, <2>2, <2>3
<1> QED
  BY <1>1, <1>2, <1>8 DEF AcksGrow

LEMMA RepliesAcks == SameReplies => SameAcks
BY DEF SameReplies, SameAcks, AckPlaces

LEMMA RefuseAcks ==
    ASSUME LogsOK, NEW m \in Messages, m.type = "XFER_REFUSE", toPeer' = Append(toPeer, m)
    PROVE  SameAcks
<1>1. PICK k : k = Len(toPeer) + 1
  OBVIOUS
<1>2. AddsReply(m, k)
  BY <1>1, ReplyFacts
<1> SUFFICES ASSUME NEW n \in Nat
             PROVE  /\ AckPlaces(n)' = AckPlaces(n)
                    /\ \A i \in AckPlaces(n) : toPeer'[i] = toPeer[i]
  BY DEF SameAcks
<1> QED
  BY <1>2 DEF AddsReply, AckPlaces

LEMMA AcksGrowReceiver ==
    ASSUME HandoverInv, AcksGrow, UNCHANGED <<vars, peerSent>>,
           Aside \/ RxRefuse \/ RxData \/ RxAck \/ RxHandOver
    PROVE  AcksGrow'
<1>0. /\ RxTypeOK /\ ReceiverOK /\ ReceivedOK /\ LogsOK /\ serial' = serial /\ serial \in Nat
      /\ rxLen \in Nat
  BY AckLengths DEF HandoverInv, RxInv, serial
<1>1. CASE Aside
  <2>1. SameAcks
    BY <1>0, <1>1, NothingSent, SilentFacts, RepliesAcks DEF Aside
  <2>2. UNCHANGED <<rxActive, rxRefused, rxLen, dlvPending, dlvPc, dlvSerial, dlvLen>>
        /\ (rxPc' = rxPc \/ rxPc' \in {"close", "fail", "stop", "join", "done"})
    BY <1>1 DEF Aside
  <2>3. (Receiving' => Receiving) /\ NextAck \in Nat /\ NextAck <= NextAck'
    BY <1>0, <2>2 DEF Receiving, NextAck
  <2>4. ASSUME NEW n \in Nat, NEW len \in Nat, WillAck(n, len)'
        PROVE  \E l \in Nat : l <= len /\ WillAck(n, l)
    <3>1. CASE Receiving' /\ ~rxRefused' /\ n = serial' /\ len = NextAck'
      BY <1>0, <2>2, <2>3, <3>1 DEF WillAck
    <3>2. CASE ~(Receiving' /\ ~rxRefused' /\ n = serial' /\ len = NextAck')
      BY <2>2, <2>4, <3>2 DEF WillAck
    <3> QED
      BY <3>1, <3>2
  <2> QED
    BY <1>0, <2>1, <2>4, GrowsSilently
<1>2. CASE RxRefuse
  <2>1. /\ UNCHANGED <<rxActive, rxRefused, rxLen, dlvPending, dlvPc, dlvSerial, dlvLen>>
        /\ rxPc = "refuse" /\ (toPeer' = toPeer \/ Send(Refuse(rxId, RefuseReason, serial)))
    BY <1>2 DEF RxRefuse
  <2>2. PICK m : m = Refuse(rxId, RefuseReason, serial)
    OBVIOUS
  <2>3. m \in Messages /\ m.type = "XFER_REFUSE"
    <3>1. RefuseReason \in {"SESS_TERM", "EXT_FAILURE", "NO_RESOURCES"} /\ rxId \in Nat
      BY <1>0, RefuseReasonType DEF RxTypeOK
    <3> QED
      BY <1>0, <2>2, <3>1, MessageTypes
  <2>4. SameAcks
    BY <1>0, <2>1, <2>2, <2>3, NothingSent, RepliesAcks, RefuseAcks DEF Send
  <2>5. ASSUME NEW n \in Nat, NEW len \in Nat, WillAck(n, len)'
        PROVE  \E l \in Nat : l <= len /\ WillAck(n, l)
    <3>1. rxRefused'
      BY <1>0, <2>1 DEF ReceiverOK
    <3> QED
      BY <2>1, <2>5, <3>1 DEF WillAck
  <2> QED
    BY <1>0, <2>4, <2>5, GrowsSilently
<1>3. CASE RxData
  <2>1. /\ UNCHANGED <<rxRefused, dlvPending, dlvPc, dlvSerial, dlvLen, toPeer>> /\ rxPc = "data"
        /\ rxPc' = AfterData /\ (~rxRefused => rxLen' = rxLen + seg.len)
    BY <1>3 DEF RxData
  <2>2. Receiving /\ seg.len = 1 /\ seg.end \in BOOLEAN /\ rxRefused \in BOOLEAN
    BY <1>0, <2>1 DEF ReceiverOK, Receiving, ReceivedOK, RxTypeOK, SegmentRecords
  <2>3. ~rxRefused => NextAck' = NextAck
    BY <1>0, <2>1, <2>2 DEF AfterData, NextAck
  <2>4. ASSUME NEW n \in Nat, NEW len \in Nat, WillAck(n, len)'
        PROVE  \E l \in Nat : l <= len /\ WillAck(n, l)
    BY <1>0, <2>1, <2>2, <2>3, <2>4 DEF WillAck
  <2> QED
    BY <1>0, <2>1, <2>4, NothingSent, RepliesAcks, GrowsSilently
<1>4. CASE RxAck
  <2>1. /\ UNCHANGED <<rxActive, rxRefused, rxLen, dlvPending, dlvPc, dlvSerial, dlvLen>>
        /\ rxPc = "ack" /\ rxPc' \in {"fail", "loop"}
        /\ toPeer' = toPeer \/ (~dlvPending /\ toPeer' = Append(toPeer, Ack(rxId, rxLen, FALSE, serial)))
    BY <1>4 DEF RxAck, AckLength, Send, HandoffIdle, HandoffBad
  <2>2. Receiving /\ NextAck = rxLen /\ NextAck' = rxLen + 1 /\ ~rxRefused /\ rxId \in Nat
    BY <1>0, <2>1 DEF ReceiverOK, Receiving, NextAck, RxTypeOK
  <2>3. ASSUME NEW n \in Nat, NEW len \in Nat, WillAck(n, len)'
        PROVE  /\ \E l \in Nat : l <= len /\ WillAck(n, l)
               /\ ~dlvPending => n = serial /\ rxLen < len
    <3>1. CASE n = serial /\ len = rxLen + 1
      BY <1>0, <2>2, <3>1 DEF WillAck
    <3>2. CASE ~(n = serial /\ len = rxLen + 1)
      BY <1>0, <2>1, <2>2, <2>3, <3>2 DEF WillAck
    <3> QED
      BY <3>1, <3>2
  <2>4. CASE toPeer' = toPeer
    BY <1>0, <2>3, <2>4, NothingSent, RepliesAcks, GrowsSilently
  <2>5. CASE ~dlvPending /\ toPeer' = Append(toPeer, Ack(rxId, rxLen, FALSE, serial))
    <3>1. PICK m : m = Ack(rxId, rxLen, FALSE, serial)
      OBVIOUS
    <3>2. m \in Messages /\ m.type = "XFER_ACK" /\ m.n = serial /\ m.len = rxLen
      BY <1>0, <2>2, <3>1 DEF Ack, Messages
    <3>3. WillAck(m.n, m.len)
      BY <2>2, <3>2 DEF WillAck
    <3>4. \A n, len \in Nat : WillAck(n, len)' =>
             /\ \E l \in Nat : l <= len /\ WillAck(n, l)
             /\ n = m.n => m.len < len
      BY <2>3, <2>5, <3>2
    <3> QED
      BY <2>5, <3>1, <3>2, <3>3, <3>4, GrowsByOne
  <2> QED
    BY <2>1, <2>4, <2>5
<1>5. CASE RxHandOver
  <2>1. /\ UNCHANGED <<rxActive, rxRefused, dlvPc, toPeer>> /\ rxPc = "handover"
        /\ rxPc' \in {"fail", "loop"}
        /\ UNCHANGED <<dlvPending, dlvSerial, dlvLen>> \/ (dlvSerial' = serial /\ dlvLen' = rxLen)
    BY <1>5 DEF RxHandOver
  <2>2. Receiving /\ ~Receiving' /\ NextAck = rxLen /\ ~rxRefused
    BY <1>0, <2>1 DEF ReceiverOK, Receiving, NextAck
  <2>3. ASSUME NEW n \in Nat, NEW len \in Nat, WillAck(n, len)'
        PROVE  \E l \in Nat : l <= len /\ WillAck(n, l)
    BY <2>1, <2>2, <2>3 DEF WillAck
  <2> QED
    BY <1>0, <2>1, <2>3, NothingSent, RepliesAcks, GrowsSilently
<1> QED
  BY <1>1, <1>2, <1>3, <1>4, <1>5

LEMMA AcksGrowDelivery ==
    ASSUME HandoverInv, AcksGrow, UNCHANGED <<vars, peerSent>>, Delivery
    PROVE  AcksGrow'
<1>0. /\ RxTypeOK /\ ReceiverOK /\ HandoffOK /\ LogsOK /\ serial' = serial /\ serial \in Nat
  BY AckLengths DEF HandoverInv, RxInv, serial
<1>1. UNCHANGED <<rxPc, rxActive, rxRefused, rxLen, dlvSerial, dlvLen>>
  BY DEF Delivery, DlvTake, DlvDeliver, DlvAck, DlvSettle
<1>2. UNCHANGED <<Receiving, NextAck>>
  BY <1>1 DEF Receiving, NextAck
<1>3. CASE DlvTake \/ DlvDeliver \/ DlvSettle
  <2>1. /\ toPeer' = toPeer /\ (dlvPending' => dlvPending)
        /\ dlvPending' /\ dlvPc' \in {"wait", "deliver", "ack"} => dlvPc \in {"wait", "deliver", "ack"}
    BY <1>3 DEF DlvTake, DlvDeliver, DlvSettle, AfterDelivery
  <2>2. ASSUME NEW n \in Nat, NEW len \in Nat, WillAck(n, len)'
        PROVE  \E l \in Nat : l <= len /\ WillAck(n, l)
    <3>1. WillAck(n, len)
      BY <1>0, <1>1, <1>2, <2>1, <2>2 DEF WillAck
    <3> QED
      BY <3>1
  <2> QED
    BY <1>0, <2>1, <2>2, NothingSent, RepliesAcks, GrowsSilently
<1>4. CASE DlvAck
  <2>1. /\ dlvPc = "ack" /\ dlvPc' \in {"failed", "settle"} /\ dlvPending' = dlvPending
        /\ toPeer' = toPeer \/ toPeer' = Append(toPeer, Ack(dlvId, dlvLen, TRUE, dlvSerial))
    BY <1>4 DEF DlvAck, Send
  <2>2. dlvPending /\ (Receiving => dlvSerial < serial) /\ dlvSerial \in Nat /\ dlvLen \in Nat
        /\ dlvId \in Nat
    BY <1>0, <2>1 DEF HandoffOK, ReceiverOK, RxTypeOK
  <2>3. ASSUME NEW n \in Nat, NEW len \in Nat, WillAck(n, len)'
        PROVE  WillAck(n, len) /\ n # dlvSerial
    BY <1>0, <1>1, <1>2, <2>1, <2>2, <2>3 DEF WillAck
  <2>4. CASE toPeer' = toPeer
    BY <1>0, <2>3, <2>4, NothingSent, RepliesAcks, GrowsSilently
  <2>5. CASE toPeer' = Append(toPeer, Ack(dlvId, dlvLen, TRUE, dlvSerial))
    <3>1. PICK m : m = Ack(dlvId, dlvLen, TRUE, dlvSerial)
      OBVIOUS
    <3>2. m \in Messages /\ m.type = "XFER_ACK" /\ m.n = dlvSerial /\ m.len = dlvLen
      BY <2>2, <3>1 DEF Ack, Messages
    <3>3. WillAck(m.n, m.len)
      BY <2>1, <2>2, <3>2 DEF WillAck
    <3>4. \A n, len \in Nat : WillAck(n, len)' =>
             /\ \E l \in Nat : l <= len /\ WillAck(n, l)
             /\ n = m.n => m.len < len
      BY <2>3, <3>2
    <3> QED
      BY <2>5, <3>1, <3>2, <3>3, <3>4, GrowsByOne
  <2> QED
    BY <2>1, <2>4, <2>5
<1> QED
  BY <1>3, <1>4 DEF Delivery

LEMMA SegmentLength ==
    ASSUME HandoverInv, BSegment, NEW m, m = wire[1]
    PROVE  /\ m.start => rxLen' = 0
           /\ ~m.start => rxLen' = rxLen /\ (rxRefused => rxRefused' /\ rxPc' = "data")
           /\ rxPc' = "data" /\ rxRefused' => rxRefused /\ ~m.start
<1>1. PICK s : s = Segment(m)
  OBVIOUS
<1>2. s.start = m.start /\ s.len = m.len
  BY <1>1 DEF Segment
<1>3. m.len = 1 /\ m.start \in BOOLEAN
  BY WireFacts DEF HandoverInv, SegmentsOK, BSegment
<1>4. Accepted(s) /\ RxHeader(s) /\ ~(s.len > SegmentMru)
  <2>1. Accepted(s) /\ RxHeader(s) /\ s.len <= SegmentMru
    BY <1>1 DEF BSegment
  <2> QED
    BY <1>2, <1>3, <2>1, MruAssumption
<1>5. rxLen' = LenAtHeader(s)
  BY <1>4 DEF RxHeader
<1>6. PICK why \in BOOLEAN : /\ rxRefused' = ((~s.start /\ rxRefused) \/ why)
                             /\ rxPc' = IF rxRefused' /\ ~(~s.start /\ rxRefused) THEN "refuse" ELSE "data"
  BY <1>4 DEF RxHeader
<1> QED
  BY <1>2, <1>3, <1>5, <1>6 DEF LenAtHeader

LEMMA AcksGrowSegment ==
    ASSUME HandoverInv, AcksGrow, BSegment
    PROVE  AcksGrow'
<1>1. PICK m : m = wire[1]
  OBVIOUS
<1>2. /\ rxPc' \in {"refuse", "data"} /\ UNCHANGED <<dlvVars, toPeer>> /\ UNCHANGED vars
      /\ rxPc = "loop" /\ (~m.start => rxActive) /\ m.id \in Nat /\ serial' = m.id + 1
      /\ serial' = IF m.start THEN serial + 1 ELSE serial
      /\ m.start => rxLen' = 0
      /\ ~m.start => rxLen' = rxLen /\ (rxRefused => rxRefused')
  <2>1. UNCHANGED vars /\ rxPc = "loop"
    BY DEF BSegment
  <2> QED
    BY <1>1, <2>1, SegmentFacts, SegmentLength
<1>3. serial \in Nat /\ rxLen \in Nat /\ NextAck = rxLen + 1 /\ NextAck' = rxLen' + 1
  BY <1>2, AckLengths DEF NextAck
<1>4. ASSUME NEW n \in Nat, NEW len \in Nat, WillAck(n, len)'
      PROVE  \/ \E l \in Nat : l <= len /\ WillAck(n, l)
             \/ n > serial /\ len > 0
  <2>1. CASE m.start /\ n = serial' /\ len = NextAck'
    BY <1>2, <1>3, <2>1
  <2>2. CASE ~m.start /\ ~rxRefused' /\ n = serial' /\ len = NextAck'
    BY <1>2, <1>3, <2>2 DEF WillAck, Receiving
  <2>3. CASE WillAck(n, len)
    BY <2>3
  <2> QED
    BY <1>2, <1>4, <2>1, <2>2, <2>3 DEF WillAck
<1>5. serial' \in Nat /\ serial' >= serial
  BY <1>2, <1>3
<1> QED
  BY <1>2, <1>4, <1>5, NothingSent, RepliesAcks, GrowsSilently

LEMMA AcksGrowB ==
    ASSUME HandoverInv, AcksGrow, BQuiet \/ BSegment
    PROVE  AcksGrow'
<1>1. CASE BQuiet
  <2>1. UNCHANGED <<vars, peerSent>>
    BY <1>1 DEF BQuiet, BKeepsWire
  <2> QED
    BY <1>1, <2>1, AcksGrowReceiver, AcksGrowDelivery DEF BQuiet
<1> QED
  BY <1>1, AcksGrowSegment

-----------------------------------------------------------------------------
(* What will never be delivered: the steps of B. *)

LEMMA NotDueQuiet ==
    ASSUME RxInv, BQuiet, NEW n \in Nat, NotDue(n)
    PROVE  NotDue(n)'
<1>0. serial' = serial /\ RxTypeOK /\ ReceiverOK /\ HandoffOK /\ LogsOK
  BY DEF BQuiet, BKeepsWire, RxInv, serial
<1>1. CASE Aside
  BY <1>0, <1>1 DEF Aside, NotDue
<1>2. CASE RxRefuse
  <2>1. rxPc = "refuse" /\ rxRefused' = rxRefused /\ rxRefused
    BY <1>0, <1>2 DEF RxRefuse, ReceiverOK
  <2> QED
    BY <1>0, <1>2, <2>1 DEF RxRefuse, NotDue
<1>3. CASE RxData
  <2>1. rxRefused \in BOOLEAN /\ seg.end \in BOOLEAN
    BY <1>0 DEF RxTypeOK, SegmentRecords
  <2>2. /\ rxPc' = "handover" => rxPc = "data" /\ ~rxRefused /\ seg.end
        /\ rxPc' # "data"
    BY <1>3, <2>1 DEF RxData, AfterData
  <2>3. UNCHANGED <<dlvPending, dlvPc, dlvSerial, delivered>>
    BY <1>3 DEF RxData
  <2> QED
    BY <1>0, <2>2, <2>3 DEF NotDue
<1>4. CASE RxAck
  BY <1>0, <1>4 DEF RxAck, NotDue
<1>5. CASE RxHandOver
  <2>1. /\ rxPc = "handover" /\ rxPc' \in {"fail", "loop"} /\ UNCHANGED <<dlvPc, delivered>>
        /\ UNCHANGED <<dlvPending, dlvSerial>> \/ dlvSerial' = serial
    BY <1>5 DEF RxHandOver
  <2> QED
    BY <1>0, <2>1 DEF NotDue
<1>6. CASE DlvTake \/ DlvAck \/ DlvSettle
  <2>1. UNCHANGED <<rxPc, rxRefused, seg, dlvSerial, delivered>>
    BY <1>6 DEF DlvTake, DlvAck, DlvSettle
  <2>2. \/ dlvPending' = dlvPending /\ (dlvPc = "wait" \/ dlvPc' \in {"failed", "settle"})
        \/ dlvPending' = FALSE
    BY <1>6 DEF DlvTake, DlvAck, DlvSettle
  <2> QED
    BY <1>0, <2>1, <2>2 DEF NotDue
<1>7. CASE DlvDeliver
  <2>1. /\ UNCHANGED <<rxPc, rxRefused, seg, dlvSerial, dlvPending>> /\ dlvPc = "deliver"
        /\ dlvPc' \in {"ack", "failed"} /\ dlvPending
    BY <1>0, <1>7 DEF DlvDeliver, AfterDelivery, HandoffOK
  <2>2. dlvSerial # n
    BY <2>1 DEF NotDue
  <2>3. \A i \in 1 .. Len(delivered') : delivered'[i].n # n
    <3>1. CASE delivered' = delivered
      BY <3>1 DEF NotDue
    <3>2. CASE delivered' # delivered
      <4>1. PICK d : d.n = dlvSerial /\ delivered' = Append(delivered, d)
        <5>1. delivered' = Append(delivered, [n |-> dlvSerial, id |-> dlvId,
                                              data |-> SubSeq(mem[1 - rxBundle], 1, dlvLen)])
          BY <1>7, <3>2 DEF DlvDeliver
        <5> QED
          BY <5>1
      <4>2. /\ Len(delivered) \in Nat /\ Len(delivered') = Len(delivered) + 1
            /\ delivered'[Len(delivered) + 1] = d
            /\ \A i \in 1 .. Len(delivered) : delivered'[i] = delivered[i]
        <5>1. delivered \in Seq([n : Nat, id : Nat, data : Buffers])
          BY <1>0 DEF LogsOK
        <5> QED
          BY <4>1, <5>1
      <4>3. \A i \in 1 .. Len(delivered) : delivered[i].n # n
        BY DEF NotDue
      <4> QED
        BY <2>2, <4>1, <4>2, <4>3
    <3> QED
      BY <3>1, <3>2
  <2> QED
    BY <1>0, <2>1, <2>3 DEF NotDue
<1> QED
  BY <1>1, <1>2, <1>3, <1>4, <1>5, <1>6, <1>7 DEF BQuiet, Delivery

LEMMA PastQuiet ==
    ASSUME RxInv, BQuiet, NEW n \in Nat, Past(n)
    PROVE  Past(n)'
<1>1. serial' = serial /\ ReceiverOK
  BY DEF BQuiet, BKeepsWire, RxInv, serial
<1>2. rxRefused' = rxRefused /\ (rxActive' = rxActive \/ rxActive)
  <2>1. CASE Aside \/ RxRefuse \/ RxAck \/ RxHandOver
    BY <2>1 DEF Aside, RxRefuse, RxAck, RxHandOver
  <2>2. CASE RxData
    BY <1>1, <2>2 DEF RxData, ReceiverOK
  <2>3. CASE Delivery
    BY <2>3 DEF Delivery, DlvTake, DlvDeliver, DlvAck, DlvSettle
  <2> QED
    BY <2>1, <2>2, <2>3 DEF BQuiet
<1> QED
  BY <1>1, <1>2 DEF Past

\* No segment comes onto the wire.
LEMMA CutKept ==
    ASSUME UNCHANGED <<xFailed, nextTxId>>, NEW n \in Nat, CutShort(n),
           \A i \in OnWire' : \E j \in OnWire : wire'[i] = wire[j]
    PROVE  CutShort(n)'
BY DEF CutShort

LEMMA NeverQuietB ==
    ASSUME HandoverInv, BQuiet, NEW n \in Nat
    PROVE  /\ NeverDelivered(n) => NeverDelivered(n)'
           /\ NotDue(n) /\ Past(n) => NotDue(n)' /\ Past(n)'
<1>1. UNCHANGED <<xFailed, nextTxId>> /\ RxInv /\ wire \in Seq(WireMessages)
  BY DEF BQuiet, BKeepsWire, vars, HandoverInv, SegmentsOK
<1>2. \A i \in OnWire' : \E j \in OnWire : wire'[i] = wire[j]
  <2>1. CASE wire' = wire
    BY <2>1 DEF OnWire
  <2>2. CASE wire # <<>> /\ wire' = Tail(wire)
    BY <1>1, <2>2, WireRead
  <2> QED
    BY <2>1, <2>2 DEF BQuiet, BKeepsWire
<1>3. CutShort(n) => CutShort(n)'
  BY <1>1, <1>2, CutKept
<1> QED
  BY <1>1, <1>3, NotDueQuiet, PastQuiet DEF NeverDelivered

LEMMA NeverSegment ==
    ASSUME HandoverInv, BSegment, NEW n \in Nat
    PROVE  /\ NeverDelivered(n) => NeverDelivered(n)'
           /\ NotDue(n) /\ Past(n) => NotDue(n)' /\ Past(n)'
<1>1. PICK m : m = wire[1]
  OBVIOUS
<1>2. /\ rxPc' \in {"refuse", "data"} /\ UNCHANGED <<dlvVars, delivered>> /\ seg'.end = m.end
      /\ m.id \in Nat /\ serial' = m.id + 1 /\ (~m.start => rxActive)
      /\ serial' = IF m.start THEN serial + 1 ELSE serial
      /\ ~m.start => (rxRefused => rxRefused')
      /\ UNCHANGED <<xFailed, nextTxId>> /\ 1 \in OnWire /\ wire # <<>> /\ wire' = Tail(wire)
  <2>1. UNCHANGED <<xFailed, nextTxId>> /\ 1 \in OnWire /\ wire # <<>> /\ wire' = Tail(wire)
    BY DEF BSegment, vars
  <2> QED
    BY <1>1, <2>1, SegmentFacts, SegmentLength
<1>3. serial \in Nat
  BY AckLengths
<1>4. \A i \in OnWire' : \E j \in OnWire : wire'[i] = wire[j]
  BY <1>2, WireRead DEF HandoverInv, SegmentsOK
<1>5. CutShort(n) => CutShort(n)' /\ (serial' = n => ~seg'.end)
  BY <1>1, <1>2, <1>4, CutKept DEF CutShort
<1>6. Past(n) => Past(n)' /\ (serial' = n => rxRefused')
  BY <1>2, <1>3 DEF Past
<1>7. ASSUME NotDue(n), serial' = n => rxRefused' \/ ~seg'.end
      PROVE  NotDue(n)'
  BY <1>2, <1>7 DEF NotDue
<1> QED
  BY <1>5, <1>6, <1>7 DEF NeverDelivered

LEMMA RefusalsB ==
    ASSUME HandoverInv, RefusalsOK, BQuiet \/ BSegment
    PROVE  RefusalsOK'
<1>1. \A n \in Nat : NotDue(n) /\ Past(n) => NotDue(n)' /\ Past(n)'
  BY NeverQuietB, NeverSegment
<1>2. RxTypeOK /\ ReceiverOK /\ DeliveriesOK /\ LogsOK /\ serial \in Nat
  BY AckLengths DEF HandoverInv, RxInv
<1>3. ASSUME \A i \in Replies' : \/ i \in Replies /\ toPeer'[i] = toPeer[i]
                                 \/ toPeer'[i].type = "XFER_ACK"
      PROVE  RefusalsOK'
  <2>1. \A n \in Nat : Refusal(n)' => Refusal(n)
    BY <1>3 DEF Refusal
  <2> QED
    BY <1>1, <2>1 DEF RefusalsOK
<1>4. CASE toPeer' = toPeer
  BY <1>3, <1>4, NothingSent DEF SameReplies
<1>5. CASE Aside
  BY <1>2, <1>3, <1>5, NothingSent, SilentFacts DEF Aside, SameReplies
<1>6. CASE RxRefuse
  <2>1. PICK m : m = Refuse(rxId, RefuseReason, serial)
    OBVIOUS
  <2>2. m \in Messages /\ m.type = "XFER_REFUSE" /\ m.n = serial
    <3>1. RefuseReason \in {"SESS_TERM", "EXT_FAILURE", "NO_RESOURCES"} /\ rxId \in Nat
      BY <1>2, RefuseReasonType DEF RxTypeOK
    <3> QED
      BY <1>2, <2>1, <3>1, MessageTypes
  <2>3. CASE toPeer' = Append(toPeer, m)
    <3>1. PICK k : AddsReply(m, k)
      BY <1>2, <2>2, <2>3, ReplyFacts
    <3>2. \A n \in Nat : Refusal(n)' => Refusal(n) \/ n = serial
      BY <2>2, <3>1 DEF Refusal, AddsReply
    <3>3. NotDue(serial) /\ Past(serial)
      <4>1. rxPc = "refuse" /\ rxActive /\ rxRefused /\ dlvSerial < serial /\ dlvSerial \in Nat
        BY <1>2, <1>6 DEF RxRefuse, ReceiverOK, Receiving, RxTypeOK
      <4>2. \A i \in 1 .. Len(delivered) : delivered[i].n # serial
        BY <1>2, <4>1 DEF DeliveriesOK
      <4> QED
        BY <4>1, <4>2 DEF NotDue, Past
    <3> QED
      BY <1>1, <1>2, <3>2, <3>3 DEF RefusalsOK
  <2> QED
    BY <1>4, <1>6, <2>1, <2>3 DEF RxRefuse, Send
<1>7. ASSUME NEW id \in Nat, NEW len \in Nat, NEW end \in BOOLEAN, NEW n \in Nat,
             toPeer' = Append(toPeer, Ack(id, len, end, n))
      PROVE  RefusalsOK'
  <2>1. PICK m : m = Ack(id, len, end, n)
    OBVIOUS
  <2>2. m \in Messages /\ m.type = "XFER_ACK"
    BY <2>1 DEF Ack, Messages
  <2>3. PICK k : AddsReply(m, k)
    BY <1>2, <1>7, <2>1, <2>2, ReplyFacts
  <2> QED
    BY <1>3, <2>2, <2>3 DEF AddsReply
<1>8. CASE RxAck
  <2>1. toPeer' = toPeer \/ toPeer' = Append(toPeer, Ack(rxId, rxLen, FALSE, serial))
    BY <1>8 DEF RxAck, Send, AckLength
  <2>2. rxId \in Nat /\ rxLen \in Nat
    BY <1>2 DEF RxTypeOK
  <2> QED
    BY <1>2, <1>4, <1>7, <2>1, <2>2
<1>9. CASE DlvAck
  <2>1. toPeer' = toPeer \/ toPeer' = Append(toPeer, Ack(dlvId, dlvLen, TRUE, dlvSerial))
    BY <1>9 DEF DlvAck, Send
  <2>2. dlvId \in Nat /\ dlvLen \in Nat /\ dlvSerial \in Nat
    BY <1>2 DEF RxTypeOK
  <2> QED
    BY <1>4, <1>7, <2>1, <2>2
<1>10. CASE RxData \/ RxHandOver \/ DlvTake \/ DlvDeliver \/ DlvSettle
  BY <1>4, <1>10 DEF RxData, RxHandOver, DlvTake, DlvDeliver, DlvSettle
<1>11. CASE BSegment
  BY <1>4, <1>11, SegmentFacts
<1> QED
  BY <1>5, <1>6, <1>8, <1>9, <1>10, <1>11 DEF BQuiet, Delivery

LEMMA FateB ==
    ASSUME HandoverInv, FateOK, BQuiet \/ BSegment
    PROVE  FateOK'
<1>1. UNCHANGED vars /\ UNCHANGED xferOf
  BY DEF BQuiet, BKeepsWire, BSegment
<1>2. UNCHANGED <<nextTxId, transferId, txQueue, txWindow, txStopped, refused, acked, sent, finished, cpc>>
  BY <1>1 DEF vars
<1>3. nextTxId \in Nat /\ \A n \in Nat : NeverDelivered(n) => NeverDelivered(n)'
  BY NeverQuietB, NeverSegment DEF HandoverInv, TxInv, Base, TypeInv, TypeOK
<1>4. \A n \in Nat : Standing(n) => Standing(n)'
  BY <1>1, <1>2 DEF Standing, Kept, DrainDone, Finished
<1>5. TransfersOK'
  BY <1>2, <1>3, <1>4 DEF FateOK, TransfersOK
<1>6. RefusalsOK'
  BY RefusalsB DEF FateOK
<1> QED
  BY <1>2, <1>5, <1>6 DEF FateOK, DrainDone

-----------------------------------------------------------------------------
(* What A has not given up on. *)

QueueClean == \A b \in ToSet(txQueue) : b \notin refused
KeepsAll == \A b \in Bundles : Kept(b) => Kept(b)'

LEMMA KeptSame ==
    ASSUME UNCHANGED <<refused, acked, txWindow, finished>>, sent \subseteq sent'
    PROVE  KeepsAll
BY DEF KeepsAll, Kept, Finished

\* A transfer that is retired was acknowledged, if it was not refused.
LEMMA KeptFinished ==
    ASSUME TxInv, NEW i \in 1 .. Len(txWindow), NEW t \in Reporters, NEW len, TxFinished(i, t, len),
           acked \subseteq acked', sent' = sent, NEW b, Kept(b), b \notin refused'
    PROVE  Kept(b)'
<1>0. TypeOK /\ OneReporter /\ txWindow \in Seq(Bundles) /\ IsInjective(txWindow)
  BY DEF TxInv, Base, TypeInv, TypeOK, Custody, OneHolder
<1>1. CASE UNCHANGED <<txWindow, finished>>
  BY <1>1 DEF Kept, Finished
<1>2. CASE Retirable(txWindow[i], inFlight', acked', refused') /\ Unlink(i, t)
  <2>1. PICK w : w = txWindow[i]
    OBVIOUS
  <2>2. w \in ToSet(txWindow) /\ ToSet(txWindow') = ToSet(txWindow) \ {w}
    BY <1>0, <1>2, <2>1, RemoveAtSet DEF Unlink
  <2>3. {w} \cap Finished = {}
    BY <2>2 DEF TxInv, Base, Custody, OneHolder, Listed
  <2>4. finished' = [finished EXCEPT ![t] = @ \cup {w}]
    BY <1>2, <2>1 DEF Unlink
  <2>5. Finished' = Finished \cup {w}
    BY <1>0, <2>3, <2>4, FinishedGains
  <2>6. w \in acked' \cup refused'
    BY <1>2, <2>1 DEF Retirable
  <2> QED
    BY <2>2, <2>5, <2>6 DEF Kept
<1> QED
  BY <1>1, <1>2 DEF TxFinished

\* A report of one that was acknowledged says that it was sent.
LEMMA KeptReport ==
    ASSUME TxInv, NEW t \in Reporters, NEW q \in finished[t], Report(t, q),
           UNCHANGED <<refused, acked, txWindow>>
    PROVE  KeepsAll
<1>1. TypeOK /\ OneReporter /\ finished' = [finished EXCEPT ![t] = @ \ {q}]
  BY DEF TxInv, Base, TypeInv, Custody, OneHolder, Report
<1>2. Finished' = Finished \ {q}
  BY <1>1, FinishedLoses
<1>3. IF Succeeded(q) THEN sent' = sent \cup {q} ELSE sent' = sent
  BY DEF Report
<1>4. sent \subseteq sent' /\ (Succeeded(q) => q \in sent')
  BY <1>3
<1> SUFFICES ASSUME NEW b \in Bundles, Kept(b) PROVE Kept(b)'
  BY DEF KeepsAll
<1>5. b = q /\ b \in acked => Succeeded(q)
  BY DEF Kept, Succeeded
<1> QED
  BY <1>2, <1>4, <1>5 DEF Kept

\* A bundle that A has not given up on, or whose transfer waits in the queue, is not the
\* one that a sender is about to queue.
LEMMA QueueKept ==
    ASSUME TxInv, QueueClean, NEW s \in Senders, QueueXfer(s)
    PROVE  KeepsAll /\ QueueClean'
<1>1. PICK q : q = sBundle[s]
  OBVIOUS
<1>2. q \in InHand /\ q \in Bundles
  BY <1>1 DEF QueueXfer, TxInv, Base, TypeInv, TypeOK, HandsOK, InHand
<1>3. q \notin sent /\ q \notin ToSet(txWindow) /\ q \notin Finished
  BY <1>2 DEF TxInv, Base, Custody, OneHolder, Listed
<1>4. /\ txQueue' = Append(txQueue, q) /\ acked' = acked \ {q} /\ refused' = refused \ {q}
      /\ UNCHANGED <<txWindow, finished, sent>> /\ txQueue \in Seq(Bundles)
  BY <1>1 DEF QueueXfer, TxInv, Base, TypeInv, TypeOK
<1>5. KeepsAll
  BY <1>3, <1>4 DEF KeepsAll, Kept, Finished
<1>6. ToSet(txQueue') = ToSet(txQueue) \cup {q}
  BY <1>2, <1>4, AppendFacts
<1>7. QueueClean'
  BY <1>4, <1>6 DEF QueueClean
<1> QED
  BY <1>5, <1>7

LEMMA TakeKept ==
    ASSUME TxInv, QueueClean, XmitTake
    PROVE  KeepsAll /\ QueueClean' /\ Head(txQueue) \notin refused'
           /\ Head(txQueue) \in ToSet(txWindow') /\ Head(txQueue) \in Bundles
<1>1. PICK q : q = Head(txQueue)
  OBVIOUS
<1>2. /\ txQueue \in Seq(Bundles) /\ txQueue # <<>> /\ IsInjective(txQueue)
      /\ txWindow \in Seq(Bundles)
      /\ txWindow' = Append(txWindow, q) /\ txQueue' = Tail(txQueue)
      /\ UNCHANGED <<acked, refused, finished, sent>>
  BY <1>1 DEF XmitTake, TxInv, Base, TypeInv, TypeOK, Custody, OneHolder
<1>3. q \in Bundles /\ q \in ToSet(txQueue) /\ ToSet(txQueue') \subseteq ToSet(txQueue)
  <2>1. q \in Bundles
    BY <1>1, <1>2
  <2> QED
    BY <1>1, <1>2, <2>1, TailFacts
<1>4. ToSet(txWindow') = ToSet(txWindow) \cup {q}
  BY <1>2, <1>3, AppendFacts
<1>5. KeepsAll
  BY <1>2, <1>4 DEF KeepsAll, Kept, Finished
<1>6. QueueClean' /\ q \notin refused'
  BY <1>2, <1>3 DEF QueueClean
<1>7. q \in ToSet(txWindow')
  BY <1>4
<1> QED
  BY <1>1, <1>3, <1>5, <1>6, <1>7

\* What the other steps do to the transfers.
LEMMA OthersKept ==
    ASSUME TxInv, QueueClean,
           \/ (\E s \in Senders : Sender(s)) \/ XmitStart \/ XmitExit \/ XmitWrite
           \/ XmitWriteFails \/ XmitCheck \/ XmitReport \/ XmitNext
           \/ RecvOpen \/ RecvReport \/ RecvLeaveLoop \/ RecvConnFail \/ RecvTxStop \/ RecvJoin
           \/ RecvDone \/ RecvNext \/ RecvTermStop \/ RecvMsgReject
           \/ (\E reply \in BOOLEAN : RecvSessTerm(reply)) \/ ConnFail
           \/ ClockIdleTerm \/ ClockTxStop \/ ClockReap \/ DrainReport \/ FreeConn
    PROVE  KeepsAll /\ QueueClean'
<1>1. ASSUME UNCHANGED <<refused, acked, txWindow, finished, txQueue, sent>>
      PROVE  KeepsAll /\ QueueClean'
  BY <1>1, KeptSame DEF QueueClean
<1>2. ASSUME NEW s \in Senders, Sender(s) PROVE KeepsAll /\ QueueClean'
  <2>1. CASE QueueXfer(s)
    BY <2>1, QueueKept
  <2>2. CASE ~QueueXfer(s)
    BY <1>1, <1>2, <2>2 DEF Sender, SenderDequeue, SenderClaim, SenderDecline, QueuePrepare,
                            QueueRefuse, SenderRelease
  <2> QED
    BY <2>1, <2>2
<1>3. CASE XmitReport \/ RecvReport \/ DrainReport
  <2>1. PICK t \in Reporters : \E b \in finished[t] : Report(t, b)
    BY <1>3 DEF XmitReport, RecvReport, DrainReport, Reporters
  <2>2. UNCHANGED <<refused, acked, txWindow, txQueue>>
    BY <1>3 DEF XmitReport, RecvReport, DrainReport
  <2>3. KeepsAll
    BY <2>1, <2>2, KeptReport
  <2> QED
    BY <2>2, <2>3 DEF QueueClean
<1>4. CASE \/ XmitStart \/ XmitExit \/ XmitWrite \/ XmitWriteFails \/ XmitCheck \/ XmitNext
  BY <1>1, <1>4 DEF XmitStart, XmitExit, XmitWrite, XmitWriteFails, XmitCheck, XmitNext
<1>5. CASE \/ RecvOpen \/ RecvLeaveLoop \/ RecvConnFail \/ RecvTxStop \/ RecvJoin
           \/ RecvDone \/ RecvNext \/ RecvTermStop \/ RecvMsgReject
           \/ (\E reply \in BOOLEAN : RecvSessTerm(reply))
  BY <1>1, <1>5 DEF RecvOpen, RecvLeaveLoop, RecvConnFail, RecvTxStop, RecvJoin, RecvDone, RecvNext,
                    RecvTermStop, RecvMsgReject, RecvSessTerm
<1>6. CASE ConnFail \/ ClockIdleTerm \/ ClockTxStop \/ ClockReap \/ FreeConn
  BY <1>1, <1>6 DEF ConnFail, ClockIdleTerm, ClockTxStop, ClockReap, FreeConn
<1> QED
  BY <1>2, <1>3, <1>4, <1>5, <1>6

\* What happens to the window happens to no queued transfer.
LEMMA RefusedInWindow ==
    ASSUME TxInv, QueueClean, txQueue' = txQueue, refused' \subseteq refused \cup ToSet(txWindow)
    PROVE  QueueClean'
BY DEF QueueClean, TxInv, Base, Custody, OneHolder

LEMMA LetGoKept ==
    ASSUME TxInv, QueueClean, XmitLetGo
    PROVE  /\ \A b \in Bundles : Kept(b) => Kept(b)' \/ (xFailed /\ b = xBundle)
           /\ QueueClean'
<1>1. PICK i \in 1 .. Len(txWindow) : /\ txWindow[i] = xBundle /\ TxFinished(i, "xmit", txAckedLen)
                                      /\ refused' = RefusedOnLetGo /\ UNCHANGED <<acked, sent>>
  BY DEF XmitLetGo
<1>2. xBundle \in ToSet(txWindow) /\ txQueue' = txQueue
  BY <1>1 DEF ToSet, TxFinished, TxInv, Base, TypeInv, TypeOK
<1>3. QueueClean'
  BY <1>1, <1>2, RefusedInWindow DEF RefusedOnLetGo
<1>4. ASSUME NEW b \in Bundles, Kept(b), ~(xFailed /\ b = xBundle) PROVE Kept(b)'
  <2>1. b \notin refused'
    BY <1>1, <1>4 DEF RefusedOnLetGo, Kept
  <2>2. acked \subseteq acked' /\ sent' = sent /\ "xmit" \in Reporters
    BY <1>1 DEF Reporters
  <2> QED
    BY <1>1, <1>4, <2>1, <2>2, KeptFinished
<1> QED
  BY <1>3, <1>4

LEMMA AckKept ==
    ASSUME TxInv, QueueClean, NEW id, NEW len, RecvAck(id, len), AckAdvances(len)
    PROVE  KeepsAll /\ QueueClean'
<1>1. /\ acked \subseteq acked' /\ UNCHANGED <<refused, sent>> /\ 1 \in 1 .. Len(txWindow)
      /\ TxFinished(1, "recv", len) \/ UNCHANGED <<txQueue, txWindow, finished>>
  BY DEF RecvAck, AckNamesHead, TxInv, Base, TypeInv, TypeOK
<1>2. txQueue' = txQueue
  BY <1>1 DEF TxFinished
<1>3. ASSUME NEW b \in Bundles, Kept(b) PROVE Kept(b)'
  <2>1. b \notin refused' /\ "recv" \in Reporters
    BY <1>1, <1>3 DEF Kept, Reporters
  <2>2. CASE TxFinished(1, "recv", len)
    BY <1>1, <1>3, <2>1, <2>2, KeptFinished
  <2>3. CASE UNCHANGED <<txQueue, txWindow, finished>>
    BY <1>1, <1>3, <2>3 DEF Kept, Finished
  <2> QED
    BY <1>1, <2>2, <2>3
<1>4. QueueClean'
  BY <1>1, <1>2 DEF QueueClean
<1>5. KeepsAll
  BY <1>3 DEF KeepsAll
<1> QED
  BY <1>4, <1>5

LEMMA RefuseKept ==
    ASSUME TxInv, QueueClean, NEW id, NEW done, RecvRefuse(id, done)
    PROVE  /\ \A b \in Bundles : Kept(b) => Kept(b)' \/ transferId[b] = id
           /\ QueueClean'
<1>1. PICK i \in 1 .. Len(txWindow) :
         /\ transferId[txWindow[i]] = id /\ TxFinished(i, "recv", txAckedLen)
         /\ refused' = refused \cup {txWindow[i]} /\ UNCHANGED <<acked, sent>>
  BY DEF RecvRefuse
<1>2. txWindow[i] \in ToSet(txWindow) /\ txQueue' = txQueue
  BY <1>1 DEF ToSet, TxFinished, TxInv, Base, TypeInv, TypeOK
<1>3. QueueClean'
  BY <1>1, <1>2, RefusedInWindow
<1>4. ASSUME NEW b \in Bundles, Kept(b), transferId[b] # id PROVE Kept(b)'
  <2>1. b \notin refused'
    BY <1>1, <1>4 DEF Kept
  <2>2. acked \subseteq acked' /\ sent' = sent /\ "recv" \in Reporters
    BY <1>1 DEF Reporters
  <2> QED
    BY <1>1, <1>4, <2>1, <2>2, KeptFinished
<1>5. \A b \in Bundles : Kept(b) => Kept(b)' \/ transferId[b] = id
  BY <1>4
<1> QED
  BY <1>3, <1>5

-----------------------------------------------------------------------------
(* What will never be delivered: the steps of A. *)

BStays == UNCHANGED <<rxPc, seg, rxSegVars, dlvVars, delivered, peerSent>>

LEMMA NeverStays ==
    ASSUME BStays, NEW n \in Nat, CutShort(n) => CutShort(n)'
    PROVE  /\ NeverDelivered(n) => NeverDelivered(n)'
           /\ NotDue(n) /\ Past(n) => NotDue(n)' /\ Past(n)'
<1>1. UNCHANGED <<rxPc, seg, rxActive, rxRefused, dlvPending, dlvPc, dlvSerial, delivered, serial>>
  BY DEF BStays, serial
<1>2. NotDue(n) => NotDue(n)'
  BY <1>1 DEF NotDue
<1>3. Past(n) => Past(n)'
  BY <1>1 DEF Past
<1> QED
  BY <1>2, <1>3 DEF NeverDelivered

\* A begins no transfer, and writes no segment, after a write that failed.
LEMMA NeverA ==
    ASSUME HandoverInv, AQuiet \/ ARead \/ ABegin \/ AWrite, NEW n \in Nat
    PROVE  /\ NeverDelivered(n) => NeverDelivered(n)'
           /\ NotDue(n) /\ Past(n) => NotDue(n)' /\ Past(n)'
<1>0. TxInv /\ WriterOK /\ LogsOK /\ SegmentsOK
  BY DEF HandoverInv, RxInv
<1>1. CASE AQuiet \/ ARead
  <2>1. TxQuiet /\ WireQuiet
    BY <1>0, <1>1, AQuietSteps, ReadSteps
  <2>2. WireSame
    BY <1>0, <2>1, QuietSegments
  <2>3. CutShort(n) => CutShort(n)'
    BY <2>1, <2>2 DEF CutShort, TxQuiet, WireSame
  <2>4. BStays
    BY <2>1 DEF WireQuiet, BStays
  <2> QED
    BY <2>3, <2>4, NeverStays
<1>2. CASE ABegin \/ AWrite
  <2>1. xpc \in {"wait", "write"} /\ BStays
    BY <1>2 DEF ABegin, AWrite, XmitTake, XmitWrite, BStays, rxVars
  <2>2. ~CutShort(n)
    BY <1>0, <2>1 DEF CutShort, WriterOK
  <2> QED
    BY <2>1, <2>2, NeverStays
<1> QED
  BY <1>1, <1>2

\* A lets go of a transfer it could not write: its END is not on the wire and was not
\* read by B, so B cannot deliver it.
LEMMA CutNever ==
    ASSUME HandoverInv, xpc = "letgo", xFailed
    PROVE  NeverDelivered(nextTxId)
<1>1. /\ nextTxId \in Nat /\ xOff \in Nat /\ serial \in Nat /\ serial <= nextTxId
      /\ \A k \in 1 .. serial : peerSent[k] \in Nat
      /\ \A i \in 1 .. Len(delivered) : delivered[i].n \in 1 .. serial
      /\ (Receiving => serial > 0) /\ (dlvPending => dlvSerial \in 1 .. serial)
      /\ Writing
  BY SessTypes DEF HandoverInv, ReceivedOK, Writing
<1>2. transferId[xBundle] + 1 = nextTxId /\ xBundle \in ToSet(txWindow)
  <2>1. txWindow # <<>> /\ xBundle = Last(txWindow) /\ txWindow \in Seq(Bundles)
    BY <1>1 DEF HandoverInv, TxInv, WindowInv, XmitHoldsTail, Writing, Base, TypeInv, TypeOK
  <2>2. xBundle \in ToSet(txWindow)
    BY <2>1 DEF Last, ToSet
  <2> QED
    BY <1>1, <2>2 DEF HandoverInv, XfersOK
<1>3. Size(xferOf, nextTxId) = Length[xBundle] /\ xOff < Length[xBundle]
      /\ Length[xBundle] \in Nat /\ nextTxId > 0
  <2>1. xferOf[nextTxId] = xBundle /\ nextTxId \in 1 .. nextTxId
    BY <1>2 DEF HandoverInv, XfersOK
  <2>2. Length[xBundle] \in Nat
    BY <2>1, SessTypes DEF HandoverInv, Size
  <2> QED
    BY <1>1, <2>1, <2>2 DEF HandoverInv, WriterOK, Size
<1>4. ASSUME serial = nextTxId PROVE peerSent[serial] < Size(xferOf, nextTxId)
  <2>1. peerSent[serial] <= xOff /\ peerSent[serial] \in Nat
    BY <1>1, <1>3, <1>4 DEF HandoverInv, ReceivedOK
  <2> QED
    BY <1>1, <1>3, <2>1
<1>5. \A k \in 1 .. serial : k = nextTxId => peerSent[k] # Size(xferOf, nextTxId)
  <2>1. SUFFICES ASSUME nextTxId \in 1 .. serial PROVE peerSent[nextTxId] # Size(xferOf, nextTxId)
    OBVIOUS
  <2>2. serial = nextTxId /\ peerSent[serial] \in Nat
    BY <1>1, <2>1
  <2> QED
    BY <1>3, <1>4, <2>2
<1>6. NotDue(nextTxId)
  <2>1. ASSUME NEW i \in 1 .. Len(delivered) PROVE delivered[i].n # nextTxId
    <3>1. peerSent[delivered[i].n] = Size(xferOf, delivered[i].n) /\ delivered[i].n \in 1 .. serial
      BY <1>1 DEF HandoverInv, AnswersOK, DeliveryOK
    <3> QED
      BY <1>5, <3>1
  <2>2. ~(dlvPending /\ dlvSerial = nextTxId)
    BY <1>1, <1>5 DEF HandoverInv, ReceivedOK
  <2>3. serial = nextTxId => peerSent[serial] # Size(xferOf, serial)
    BY <1>1, <1>3, <1>5
  <2>4. /\ rxPc = "handover" => serial # nextTxId
        /\ rxPc = "data" /\ seg.end => serial # nextTxId
    <3>1. /\ rxPc = "handover" => peerSent[serial] = Size(xferOf, serial)
          /\ rxPc = "data" => (seg.end <=> peerSent[serial] = Size(xferOf, serial))
      BY DEF HandoverInv, ReceivedOK
    <3> QED
      BY <2>3, <3>1
  <2> QED
    BY <2>1, <2>2, <2>3, <2>4 DEF NotDue
<1>7. CutShort(nextTxId)
  <2>1. ASSUME NEW i \in OnWire, wire[i].id + 1 = nextTxId PROVE ~wire[i].end
    <3>1. wire[i].off < xOff /\ wire[i].off \in Nat
      BY <1>1, <2>1, WireFacts DEF HandoverInv, SegmentsOK
    <3>2. wire[i].end <=> wire[i].off + 1 = Size(xferOf, nextTxId)
      BY <2>1 DEF HandoverInv, SegmentsOK, SegmentOK
    <3> QED
      BY <1>1, <1>3, <3>1, <3>2
  <2> QED
    BY <2>1 DEF CutShort
<1> QED
  BY <1>6, <1>7 DEF NeverDelivered

\* The drain is the last thing that happens to the lists.
LEMMA DrainStays ==
    ASSUME AnyNext \/ UNCHANGED vars, DrainDone => txStopped
    PROVE  (DrainDone => DrainDone') /\ (DrainDone' => txStopped')
<1>1. ASSUME UNCHANGED cpc, txStopped => txStopped'
      PROVE  (DrainDone => DrainDone') /\ (DrainDone' => txStopped')
  BY <1>1 DEF DrainDone
<1>2. CASE \E s \in Senders : Sender(s)
  BY <1>1, <1>2 DEF Sender, SenderDequeue, SenderClaim, SenderDecline, QueuePrepare, QueueXfer,
                    QueueRefuse, SenderRelease
<1>3. CASE Xmit
  BY <1>1, <1>3 DEF Xmit, XmitStart, XmitTake, XmitExit, XmitWrite, XmitWriteFails, XmitCheck,
                    XmitLetGo, XmitReport, XmitNext
<1>4. CASE AnyRecv
  BY <1>1, <1>4 DEF AnyRecv, RecvOpen, RecvAck, RecvRefuse, RecvSessTerm, RecvReport, RecvNext,
                    RecvMsgReject, RecvTermStop, RecvLeaveLoop, RecvConnFail, RecvTxStop,
                    RecvJoin, RecvDone
<1>5. CASE Clock
  BY <1>5 DEF Clock, ClockIdleTerm, ClockTxStop, ClockReap, TxDrain, DrainReport, FreeConn, DrainDone
<1>6. CASE ConnFail
  BY <1>1, <1>6 DEF ConnFail
<1>7. CASE UNCHANGED vars
  BY <1>1, <1>7 DEF vars
<1> QED
  BY <1>2, <1>3, <1>4, <1>5, <1>6, <1>7 DEF AnyNext

\* A gives up on nothing but what will never be delivered, or at the drain.
FateKept == \A b \in Bundles :
    Kept(b) => Kept(b)' \/ DrainDone' \/ NeverDelivered(transferId[b] + 1)

LEMMA TransfersKept ==
    ASSUME HandoverInv, FateOK, AQuiet \/ ARead \/ AWrite,
           UNCHANGED <<nextTxId, transferId, xferOf>>, DrainDone => DrainDone', FateKept
    PROVE  TransfersOK'
<1> SUFFICES ASSUME NEW n \in 1 .. nextTxId PROVE NeverDelivered(n)' \/ Standing(n)'
  BY DEF TransfersOK
<1>1. n \in Nat
  OBVIOUS
<1>2. NeverDelivered(n) => NeverDelivered(n)'
  BY <1>1, NeverA
<1>3. PICK b : b = xferOf[n]
  OBVIOUS
<1>4. b \in Bundles
  BY <1>3, SessTypes DEF HandoverInv
<1>5. Kept(b)' \/ DrainDone' => Standing(n)' \/ transferId[b] + 1 # n
  BY <1>3 DEF Standing, Kept
<1>6. NeverDelivered(n) \/ (transferId[b] + 1 = n /\ (DrainDone \/ Kept(b)))
  BY <1>3 DEF FateOK, TransfersOK, Standing
<1>7. transferId[b] + 1 = n /\ Kept(b) => Kept(b)' \/ DrainDone' \/ NeverDelivered(n)
  BY <1>4 DEF FateKept
<1> QED
  BY <1>2, <1>5, <1>6, <1>7

LEMMA QuietFate ==
    ASSUME HandoverInv, FateOK, AQuiet
    PROVE  FateKept /\ QueueClean'
<1>0. TxInv /\ QueueClean
  BY DEF HandoverInv, FateOK, QueueClean
<1>1. ASSUME KeepsAll PROVE FateKept
  BY <1>1 DEF KeepsAll, FateKept
<1>2. CASE XmitLetGo
  <2>1. \A b \in Bundles : Kept(b) => Kept(b)' \/ (xFailed /\ b = xBundle)
    BY <1>0, <1>2, LetGoKept
  <2>2. xFailed => NeverDelivered(nextTxId)
    BY <1>2, CutNever DEF XmitLetGo
  <2>3. transferId[xBundle] + 1 = nextTxId
    BY <1>2 DEF XmitLetGo, HandoverInv, XfersOK, Writing
  <2>4. FateKept
    BY <2>1, <2>2, <2>3 DEF FateKept
  <2> QED
    BY <1>0, <1>2, <2>4, LetGoKept
<1>3. CASE TxDrain
  <2>1. DrainDone' /\ txQueue' = <<>>
    BY <1>3 DEF TxDrain, DrainDone
  <2>2. QueueClean'
    BY <2>1 DEF QueueClean, ToSet
  <2> QED
    BY <2>1, <2>2 DEF FateKept
<1>4. CASE ~XmitLetGo /\ ~TxDrain
  <2>1. \/ (\E s \in Senders : Sender(s)) \/ XmitStart \/ XmitExit
        \/ XmitWriteFails \/ XmitCheck \/ XmitReport \/ XmitNext
        \/ RecvOpen \/ RecvReport \/ RecvLeaveLoop \/ RecvConnFail \/ RecvTxStop \/ RecvJoin
        \/ RecvDone \/ RecvNext \/ RecvTermStop \/ ConnFail
        \/ ClockIdleTerm \/ ClockTxStop \/ ClockReap \/ DrainReport \/ FreeConn
    BY <1>4 DEF AQuiet, XmitRest, ANext, ATermStop, AIdleStop, AOther
  <2>2. KeepsAll /\ QueueClean'
    BY <1>0, <2>1, OthersKept
  <2> QED
    BY <1>1, <2>2
<1> QED
  BY <1>2, <1>3, <1>4

LEMMA ReadFate ==
    ASSUME HandoverInv, AcksGrow, FateOK, ARead
    PROVE  FateKept /\ QueueClean'
<1>0. TxInv /\ QueueClean /\ LogsOK
  BY DEF HandoverInv, FateOK, QueueClean, RxInv
<1>1. ASSUME KeepsAll PROVE FateKept
  BY <1>1 DEF KeepsAll, FateKept
<1>2. PICK m : m = Head(toPeer)
  OBVIOUS
<1>3. m \in Messages /\ AHandle(m) /\ toPeer # <<>> /\ m = toPeer[1]
      /\ (m.type \in {"XFER_ACK", "XFER_REFUSE"} => 1 \in Replies)
  BY <1>0, <1>2, PeerRead DEF ARead
<1>4. ASSUME UNCHANGED vars PROVE FateKept /\ QueueClean'
  <2>1. UNCHANGED <<refused, acked, txWindow, finished, txQueue, sent>>
    BY <1>4 DEF vars
  <2> QED
    BY <1>0, <1>1, <2>1, KeptSame DEF QueueClean
<1>5. ASSUME RecvMsgReject \/ \E reply \in BOOLEAN : RecvSessTerm(reply)
      PROVE  FateKept /\ QueueClean'
  BY <1>0, <1>1, <1>5, OthersKept
<1>6. CASE m.type = "XFER_ACK"
  <2>1. CASE RecvAck(m.id, m.len)
    <3>1. AckNamesHead(m.id)
      BY <2>1 DEF RecvAck
    <3>2. AckAdvances(m.len)
      BY <1>2, <1>3, <1>6, <3>1, AckMakesSense
    <3> QED
      BY <1>0, <1>1, <2>1, <3>2, AckKept
  <2> QED
    BY <1>3, <1>4, <1>6, <2>1 DEF AHandle, AHandleAck
<1>7. CASE m.type = "XFER_REFUSE"
  <2>1. CASE RecvRefuse(m.id, m.reason = "COMPLETED")
    <3>1. \A b \in Bundles : Kept(b) => Kept(b)' \/ transferId[b] = m.id
      BY <1>0, <2>1, RefuseKept
    <3>2. m.id + 1 = m.n /\ m.n \in Nat /\ Refusal(m.n)
      BY <1>0, <1>3, <1>7, ReplyTypes DEF HandoverInv, AnswersOK, ReplyOK, Refusal
    <3>3. NeverDelivered(m.id + 1)
      BY <3>2 DEF FateOK, RefusalsOK, NeverDelivered
    <3>4. FateKept
      BY <3>1, <3>3 DEF FateKept
    <3> QED
      BY <1>0, <2>1, <3>4, RefuseKept
  <2> QED
    BY <1>3, <1>4, <1>7, <2>1 DEF AHandle, AHandleRefuse
<1>8. CASE m.type = "MSG_REJECT"
  BY <1>3, <1>4, <1>5, <1>8 DEF AHandle, AHandleReject
<1>9. CASE m.type = "SESS_TERM"
  <2>1. RecvSessTerm(m.reply) /\ m.reply \in BOOLEAN
    BY <1>3, <1>9 DEF AHandle, Messages
  <2> QED
    BY <1>5, <2>1
<1>10. m.type \in {"XFER_ACK", "XFER_REFUSE", "MSG_REJECT", "SESS_TERM"}
  BY <1>3 DEF Messages
<1> QED
  BY <1>6, <1>7, <1>8, <1>9, <1>10

LEMMA RefusalsA ==
    ASSUME HandoverInv, RefusalsOK, AQuiet \/ ARead \/ ABegin \/ AWrite
    PROVE  RefusalsOK'
<1>0. TxInv /\ WriterOK /\ LogsOK
  BY DEF HandoverInv, RxInv
<1>1. toPeer' = toPeer \/ ReadsOne
  <2>1. CASE AQuiet \/ ARead
    BY <1>0, <2>1, AQuietSteps, ReadSteps
  <2>2. CASE ABegin \/ AWrite
    BY <2>2 DEF ABegin, AWrite, rxVars
  <2> QED
    BY <2>1, <2>2
<1>2. ASSUME NEW n \in Nat, Refusal(n)' PROVE Refusal(n)
  <2>1. CASE toPeer' = toPeer
    BY <1>2, <2>1 DEF Refusal, Replies
  <2>2. CASE ReadsOne
    <3>1. \A i \in Replies' : i + 1 \in Replies /\ toPeer'[i] = toPeer[i + 1]
      BY <1>0, <2>2, PeerRead DEF ReadsOne
    <3>2. PICK i \in Replies' : toPeer'[i].type = "XFER_REFUSE" /\ toPeer'[i].n = n
      BY <1>2 DEF Refusal
    <3> QED
      BY <3>1, <3>2 DEF Refusal
  <2> QED
    BY <1>1, <2>1, <2>2
<1>3. \A n \in Nat : NotDue(n) /\ Past(n) => NotDue(n)' /\ Past(n)'
  BY NeverA
<1> QED
  BY <1>2, <1>3 DEF RefusalsOK

LEMMA WriteFate ==
    ASSUME HandoverInv, FateOK, AWrite
    PROVE  FateKept /\ QueueClean'
<1>1. TxInv /\ QueueClean /\ XmitWrite
  BY DEF HandoverInv, FateOK, QueueClean, AWrite
<1>2. KeepsAll /\ QueueClean'
  BY <1>1, OthersKept
<1> QED
  BY <1>2 DEF KeepsAll, FateKept

\* A transfer that is begun is the latest of its bundle, and that of no other.
LEMMA BeginTransfers ==
    ASSUME HandoverInv, FateOK, ABegin
    PROVE  TransfersOK' /\ QueueClean'
<1>1. TxInv /\ QueueClean /\ XmitTake /\ XfersOK
  BY DEF HandoverInv, FateOK, QueueClean, ABegin
<1>2. PICK q : q = Head(txQueue)
  OBVIOUS
<1>3. KeepsAll /\ QueueClean' /\ q \notin refused' /\ q \in ToSet(txWindow') /\ q \in Bundles
  BY <1>1, <1>2, TakeKept
<1>4. Kept(q)'
  BY <1>3 DEF Kept
<1>5. ~Kept(q)
  <2>1. q \in ToSet(txQueue)
    <3>1. txQueue \in Seq(Bundles) /\ txQueue # <<>> /\ IsInjective(txQueue)
      BY <1>1 DEF XmitTake, TxInv, Base, TypeInv, TypeOK, Custody, OneHolder
    <3> QED
      BY <1>2, <3>1, TailFacts
  <2>2. q \notin ToSet(txWindow) /\ q \notin Finished /\ q \notin sent
    BY <1>1, <2>1 DEF TxInv, Base, Custody, OneHolder, Listed
  <2> QED
    BY <2>2 DEF Kept
<1>6. ~DrainDone
  BY <1>1 DEF XmitTake, FateOK
<1>7. /\ nextTxId' = nextTxId + 1 /\ transferId' = [transferId EXCEPT ![q] = nextTxId]
      /\ transferId \in [Bundles -> Nat] /\ nextTxId \in Nat /\ Len(xferOf) = nextTxId
      /\ xferOf \in Seq(Bundles) /\ xferOf' = Append(xferOf, q)
  BY <1>1, <1>2 DEF TxInv, Base, TypeInv, TypeOK, ABegin, XmitTake, IdAfterTake, XfersOK
<1>8. /\ \A n \in 1 .. nextTxId : xferOf'[n] = xferOf[n] /\ xferOf[n] \in Bundles
      /\ xferOf'[nextTxId + 1] = q
  BY <1>3, <1>7
<1>9. ASSUME NEW n \in 1 .. nextTxId PROVE NeverDelivered(n)' \/ Standing(n)'
  <2>1. CASE NeverDelivered(n)
    BY <2>1, NeverA
  <2>2. CASE Standing(n)
    <3>1. PICK b : b = xferOf[n]
      OBVIOUS
    <3>2. Kept(b) /\ transferId[b] + 1 = n /\ b \in Bundles
      BY <1>6, <1>8, <2>2, <3>1 DEF Standing
    <3>3. b # q /\ Kept(b)'
      BY <1>3, <1>5, <3>2 DEF KeepsAll
    <3>4. transferId'[b] = transferId[b] /\ xferOf'[n] = b
      BY <1>7, <1>8, <3>1, <3>2, <3>3
    <3>5. transferId'[xferOf'[n]] + 1 = n /\ Kept(xferOf[n])'
      BY <3>1, <3>2, <3>3, <3>4
    <3> QED
      BY <3>1, <3>3, <3>4, <3>5 DEF Standing, Kept
  <2> QED
    BY <2>1, <2>2 DEF FateOK, TransfersOK
<1>10. ASSUME NEW n \in Nat, n = nextTxId + 1 PROVE Standing(n)'
  <2>1. transferId'[q] + 1 = n /\ xferOf'[n] = q
    BY <1>3, <1>7, <1>8, <1>10
  <2>2. transferId'[xferOf'[n]] + 1 = n
    BY <2>1
  <2> QED
    BY <1>4, <2>1, <2>2 DEF Standing, Kept
<1>11. \A n \in 1 .. nextTxId' : n \in 1 .. nextTxId \/ (n \in Nat /\ n = nextTxId + 1)
  BY <1>7
<1>12. TransfersOK'
  BY <1>9, <1>10, <1>11 DEF TransfersOK
<1> QED
  BY <1>3, <1>12

LEMMA FateA ==
    ASSUME HandoverInv, AcksGrow, FateOK, AQuiet \/ ARead \/ ABegin \/ AWrite
    PROVE  FateOK'
<1>0. TxInv /\ WriterOK /\ LogsOK /\ XfersOK
  BY DEF HandoverInv, RxInv
<1>1. RefusalsOK'
  BY RefusalsA DEF FateOK
<1>2. (DrainDone => DrainDone') /\ (DrainDone' => txStopped')
  <2>1. [SessNext]_sessVars
    BY DEF AQuiet, XmitRest, ABegin, AWrite, AXmit, NodeA, SessNext
  <2>2. AnyNext \/ UNCHANGED vars
    BY <1>0, <2>1, SessIsTx
  <2> QED
    BY <2>2, DrainStays DEF FateOK
<1>3. TransfersOK' /\ QueueClean'
  <2>1. CASE AQuiet \/ ARead
    <3>1. UNCHANGED <<nextTxId, transferId, xferOf>>
      BY <1>0, <2>1, AQuietSteps, ReadSteps DEF TxQuiet, WireQuiet
    <3>2. FateKept /\ QueueClean'
      BY <2>1, QuietFate, ReadFate
    <3> QED
      BY <1>2, <2>1, <3>1, <3>2, TransfersKept
  <2>2. CASE AWrite
    <3>1. UNCHANGED <<nextTxId, transferId, xferOf>>
      BY <1>0, <2>2, WriteFacts DEF AWrite
    <3> QED
      BY <1>2, <2>2, <3>1, WriteFate, TransfersKept
  <2> QED
    BY <2>1, <2>2, BeginTransfers
<1> QED
  BY <1>1, <1>2, <1>3 DEF FateOK, QueueClean

-----------------------------------------------------------------------------
(* A bundle is delivered at most once. *)

LEMMA OnceInvInit == SessInit => AcksGrow /\ FateOK
<1> SUFFICES ASSUME SessInit PROVE AcksGrow /\ FateOK
  OBVIOUS
<1>1. /\ nextTxId = 0 /\ cpc = "idle" /\ txQueue = <<>> /\ txWindow = <<>> /\ txAckedLen = 0
      /\ peerSent = <<>> /\ serial = 0 /\ Replies = {} /\ rxPc = "loop" /\ ~rxActive /\ ~dlvPending
  BY DEF SessInit, Init, RxInit, Replies, serial
<1>2. \A n \in Nat : Heard(n) = 0 /\ AckPlaces(n) = {} /\ ~Refusal(n)
  BY <1>1 DEF Heard, AckPlaces, Refusal
<1>3. \A n, len \in Nat : ~WillAck(n, len)
  BY <1>1 DEF WillAck, Receiving
<1>4. AcksGrow
  BY <1>1, <1>2, <1>3 DEF AcksGrow
<1>5. TransfersOK /\ RefusalsOK /\ ~DrainDone
  BY <1>1, <1>2 DEF TransfersOK, RefusalsOK, DrainDone
<1> QED
  BY <1>1, <1>4, <1>5 DEF FateOK, ToSet

LEMMA OnceInvStep == OnceInv /\ [SessNext]_sessVars => OnceInv'
<1> SUFFICES ASSUME OnceInv, [SessNext]_sessVars PROVE OnceInv'
  OBVIOUS
<1>1. HandoverInv'
  BY HandoverInvStep DEF OnceInv
<1>2. ASSUME SessNext PROVE AcksGrow' /\ FateOK'
  <2>1. CASE NodeB
    <3>1. BQuiet \/ BSegment
      BY <2>1, BSteps DEF OnceInv, HandoverInv, SegmentsOK
    <3> QED
      BY <3>1, AcksGrowB, FateB DEF OnceInv
  <2> QED
    BY <1>2, <2>1, SessSteps, AcksGrowA, FateA DEF OnceInv
<1>3. ASSUME UNCHANGED sessVars PROVE AcksGrow' /\ FateOK'
  <2>1. UNCHANGED <<vars, rxVars, wire, xferOf>>
    BY <1>3 DEF sessVars
  <2>2. UNCHANGED <<nextTxId, transferId, txQueue, txWindow, txStopped, txAckedLen, refused, acked,
                    sent, finished, cpc, xFailed, rxPc, seg, rxActive, rxId, rxLen, rxRefused,
                    dlvPending, dlvPc, dlvSerial, dlvLen, delivered, peerSent, toPeer>>
    BY <2>1 DEF vars, rxVars
  <2>3. UNCHANGED <<serial, Replies, OnWire, NextAck, DrainDone, Finished>>
        /\ (Receiving' <=> Receiving)
    BY <2>1, <2>2 DEF serial, Replies, OnWire, Places, NextAck, DrainDone, Finished, Receiving
  <2>4. \A n \in Nat : /\ Heard(n)' = Heard(n) /\ AckPlaces(n)' = AckPlaces(n)
                       /\ \A len \in Nat : WillAck(n, len)' => WillAck(n, len)
    BY <2>2, <2>3 DEF Heard, AckPlaces, WillAck
  <2>5. AcksGrow'
    BY <2>2, <2>3, <2>4 DEF OnceInv, AcksGrow, Below
  <2>6. \A n \in Nat : /\ NotDue(n)' <=> NotDue(n)
                       /\ Past(n)' <=> Past(n)
                       /\ CutShort(n)' <=> CutShort(n)
                       /\ Refusal(n)' <=> Refusal(n)
    BY <2>1, <2>2, <2>3 DEF NotDue, Past, CutShort, Refusal
  <2>7. \A n \in Nat : Standing(n)' <=> Standing(n)
    BY <2>1, <2>2, <2>3 DEF Standing, Kept
  <2>8. nextTxId \in Nat
    BY DEF OnceInv, HandoverInv, TxInv, Base, TypeInv, TypeOK
  <2>9. TransfersOK' /\ RefusalsOK'
    BY <2>2, <2>6, <2>7, <2>8 DEF OnceInv, FateOK, TransfersOK, RefusalsOK, NeverDelivered
  <2> QED
    BY <2>2, <2>3, <2>5, <2>9 DEF OnceInv, FateOK
<1> QED
  BY <1>1, <1>2, <1>3 DEF OnceInv

\* Two deliveries are of two transfers, each of which is the latest of its bundle.
LEMMA OnceInvMeans == OnceInv => DeliveredOnce
<1> SUFFICES ASSUME OnceInv,
                    NEW i \in 1 .. Len(delivered), NEW j \in 1 .. Len(delivered), i # j
             PROVE  xferOf[delivered[i].id + 1] # xferOf[delivered[j].id + 1]
  BY DEF DeliveredOnce
<1>1. \A k \in 1 .. Len(delivered) :
         delivered[k].n \in 1 .. serial /\ delivered[k].id + 1 = delivered[k].n
  BY SessTypes DEF OnceInv, HandoverInv
<1>2. \A k \in 1 .. Len(delivered) : transferId[xferOf[delivered[k].n]] + 1 = delivered[k].n
  <2> SUFFICES ASSUME NEW k \in 1 .. Len(delivered)
               PROVE  transferId[xferOf[delivered[k].n]] + 1 = delivered[k].n
    OBVIOUS
  <2>1. delivered[k].n \in 1 .. nextTxId
    <3>1. serial <= nextTxId /\ serial \in Nat /\ nextTxId \in Nat
      BY SessTypes DEF OnceInv, HandoverInv, ReceivedOK
    <3> QED
      BY <1>1, <3>1
  <2>2. ~NeverDelivered(delivered[k].n)
    BY DEF NeverDelivered, NotDue
  <2> QED
    BY <2>1, <2>2 DEF OnceInv, FateOK, TransfersOK, Standing
<1>3. delivered[i].n # delivered[j].n
  <2>1. i < j \/ j < i
    OBVIOUS
  <2>2. delivered[i].n < delivered[j].n \/ delivered[j].n < delivered[i].n
    BY <2>1 DEF OnceInv, HandoverInv, RxInv, DeliveredIntact
  <2>3. delivered[i].n \in 1 .. serial /\ delivered[j].n \in 1 .. serial
    BY <1>1
  <2> QED
    BY <2>2, <2>3
<1> QED
  BY <1>1, <1>2, <1>3

\* Within a session BP of the receiver gets a bundle at most once: txFinishedLocked
\* hands a bundle back as failed, for a new transfer, only when the receiver has not
\* delivered it over this connection and never will.
THEOREM SessionDeliversOnce == SessSpec => []DeliveredOnce
<1>1. SessInit => OnceInv
  BY HandoverInvInit, OnceInvInit DEF OnceInv
<1> QED
  BY <1>1, OnceInvStep, OnceInvMeans, PTL DEF SessSpec

=============================================================================
