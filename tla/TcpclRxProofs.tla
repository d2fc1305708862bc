---------------------------- MODULE TcpclRxProofs ----------------------------
(***************************************************************************)
(* Proofs about the receive side of a session (TcpclRx), for any peer, any *)
(* segment lengths, any MRUs and any number of segments.                   *)
(***************************************************************************)
EXTENDS TcpclRx, ListFacts

USE DEF rxTermVars, rxSegVars, bufVars, dlvVars

-----------------------------------------------------------------------------
(* The inductive invariant. *)

Messages ==
    [type : {"XFER_ACK"}, id : Nat, len : Nat, end : BOOLEAN, n : Nat]
    \cup [type : {"XFER_REFUSE"}, id : Nat,
          reason : {"SESS_TERM", "EXT_FAILURE", "NO_RESOURCES"}, n : Nat]
    \cup [type : {"MSG_REJECT"}, of : {"XFER_SEGMENT"}]
    \cup [type : {"SESS_TERM"}, reply : BOOLEAN]

LogsOK ==
    /\ toPeer \in Seq(Messages)
    /\ delivered \in Seq([n : Nat, id : Nat, data : Buffers])

\* The receiver has a transfer that it has not handed over yet.
Receiving == rxActive \/ rxPc = "handover"

\* Where the receiver is says what it has; it is ahead of the delivery thread.
ReceiverOK ==
    /\ rxPc \in {"refuse", "data", "ack"} => rxActive
    /\ rxPc = "refuse" => rxRefused
    /\ rxPc \in {"ack", "handover"} => ~rxRefused
    /\ rxPc = "handover" => ~rxActive
    /\ dlvSerial <= serial
    /\ Receiving => dlvSerial < serial

\* The first len octets of a buffer are those of transfer n.
Holds(buf, n, len) ==
    len <= Len(buf) /\ \A k \in 1 .. len : buf[k] = Octet(n, k)

\* What the receiver has stored is what came so far, but for the segment at hand.
Filling == Receiving /\ ~rxRefused /\ rxPc \in {"loop", "data", "ack", "handover"}
FillOK ==
    Filling => /\ peerSent[serial] = IF rxPc = "data" THEN rxLen + seg.len ELSE rxLen
               /\ Holds(mem[rxBundle], serial, rxLen)

\* The other buffer is the delivery thread's as long as the hand-off is pending,
\* and has all of the transfer.
HandoffOK ==
    /\ dlvPc \in {"deliver", "ack", "settle", "failed"} => dlvPending
    /\ dlvPc = "exited" => dlvStopped \/ dlvFailed
    /\ dlvPending => /\ dlvSerial \in 1 .. serial
                     /\ dlvLen = peerSent[dlvSerial]
                     /\ Holds(mem[1 - rxBundle], dlvSerial, dlvLen)

\* Deliveries follow the hand-offs.
DeliveriesOK ==
    /\ \A i \in 1 .. Len(delivered) : delivered[i].n \in 1 .. dlvSerial
    /\ dlvPending /\ dlvPc \in {"wait", "deliver"} =>
          \A i \in 1 .. Len(delivered) : delivered[i].n < dlvSerial
    /\ dlvPc = "ack" => \E i \in 1 .. Len(delivered) :
                           /\ delivered[i].n = dlvSerial
                           /\ Len(delivered[i].data) = dlvLen

\* All that has been said of transfer n is that octets of it have come, at most len;
\* nothing has been said of a later one.
Unanswered(n, len) ==
    \A i \in Replies :
        \/ toPeer[i].n < n
        \/ /\ toPeer[i].n = n
           /\ toPeer[i].type = "XFER_ACK" /\ ~toPeer[i].end
           /\ toPeer[i].len <= len

RepliesOK ==
    /\ \A i \in Replies : toPeer[i].n <= serial
    /\ Receiving /\ (rxRefused => rxPc = "refuse") => Unanswered(serial, rxLen)
    /\ dlvPending /\ dlvPc \in {"wait", "deliver", "ack"} => Unanswered(dlvSerial, dlvLen)

RxInv == /\ RxTypeOK /\ LogsOK /\ ReceiverOK /\ FillOK /\ HandoffOK /\ DeliveriesOK
         /\ RepliesOK /\ DeliveredIntact /\ RepliesInOrder /\ EndAckMeansDelivered

-----------------------------------------------------------------------------
(* Messages to the peer. *)

\* What is sent goes behind what was sent before, or nowhere.
LEMMA SendFacts ==
    ASSUME LogsOK, NEW m \in Messages, Send(m)
    PROVE  toPeer' \in Seq(Messages) /\ (toPeer' = toPeer \/ toPeer' = Append(toPeer, m))
BY DEF LogsOK, Send

\* The replies are the ones there were.
SameReplies == Replies' = Replies /\ \A i \in Replies : toPeer'[i] = toPeer[i]

LEMMA NothingSent == toPeer' = toPeer => SameReplies
BY DEF SameReplies, Replies

LEMMA SilentFacts ==
    ASSUME LogsOK, NEW m \in Messages, m.type \notin {"XFER_ACK", "XFER_REFUSE"},
           toPeer' = Append(toPeer, m)
    PROVE  SameReplies
<1>1. /\ DOMAIN toPeer = 1 .. Len(toPeer) /\ DOMAIN toPeer' = 1 .. Len(toPeer) + 1
      /\ \A i \in 1 .. Len(toPeer) : toPeer'[i] = toPeer[i]
      /\ toPeer'[Len(toPeer) + 1] = m /\ Len(toPeer) \in Nat
  BY DEF LogsOK
<1>2. Replies' = {i \in DOMAIN toPeer' : toPeer'[i].type \in {"XFER_ACK", "XFER_REFUSE"}}
  BY DEF Replies
<1>3. Replies' = Replies
  BY <1>1, <1>2 DEF Replies
<1> QED
  BY <1>1, <1>3 DEF SameReplies, Replies

\* One more reply, behind the others.
AddsReply(m, k) ==
    /\ Replies' = Replies \cup {k} /\ toPeer'[k] = m
    /\ \A i \in Replies : i < k /\ toPeer'[i] = toPeer[i]
    /\ k \in Nat /\ Replies \subseteq Nat

LEMMA ReplyFacts ==
    ASSUME LogsOK, NEW m \in Messages, m.type \in {"XFER_ACK", "XFER_REFUSE"},
           toPeer' = Append(toPeer, m)
    PROVE  AddsReply(m, Len(toPeer) + 1)
<1>1. /\ DOMAIN toPeer = 1 .. Len(toPeer) /\ DOMAIN toPeer' = 1 .. Len(toPeer) + 1
      /\ \A i \in 1 .. Len(toPeer) : toPeer'[i] = toPeer[i]
      /\ toPeer'[Len(toPeer) + 1] = m /\ Len(toPeer) \in Nat
  BY DEF LogsOK
<1>2. Replies' = {i \in DOMAIN toPeer' : toPeer'[i].type \in {"XFER_ACK", "XFER_REFUSE"}}
  BY DEF Replies
<1>3. Replies' = Replies \cup {Len(toPeer) + 1}
  BY <1>1, <1>2 DEF Replies
<1> QED
  BY <1>1, <1>3 DEF AddsReply, Replies

LEMMA ReplyTypes ==
    ASSUME LogsOK, NEW i \in Replies
    PROVE  /\ toPeer[i].n \in Nat /\ toPeer[i].type \in {"XFER_ACK", "XFER_REFUSE"}
           /\ toPeer[i].type = "XFER_ACK" => toPeer[i].len \in Nat /\ toPeer[i].end \in BOOLEAN
<1>1. toPeer[i] \in Messages /\ toPeer[i].type \in {"XFER_ACK", "XFER_REFUSE"}
  BY DEF LogsOK, Replies
<1> QED
  BY <1>1 DEF Messages

\* A reply to a transfer that has had none but acknowledgments keeps the order.
LEMMA OrderKept ==
    ASSUME LogsOK, RepliesInOrder, NEW m, NEW k, AddsReply(m, k), NEW len,
           Unanswered(m.n, len), m.type = "XFER_ACK" => len = m.len
    PROVE  RepliesInOrder'
<1> SUFFICES ASSUME NEW i \in Replies', NEW j \in Replies', i < j
             PROVE  LET p == toPeer'[i]  q == toPeer'[j] IN
                    \/ p.n < q.n
                    \/ /\ p.n = q.n
                       /\ p.type = "XFER_ACK" /\ ~p.end
                       /\ q.type = "XFER_ACK" => p.len <= q.len
  BY DEF RepliesInOrder
<1>1. CASE i \in Replies /\ j \in Replies
  BY <1>1 DEF AddsReply, RepliesInOrder
<1>2. CASE i \in Replies /\ j = k
  <2>1. toPeer'[i] = toPeer[i] /\ toPeer'[j] = m
    BY <1>2 DEF AddsReply
  <2>2. \/ toPeer[i].n < m.n
        \/ /\ toPeer[i].n = m.n
           /\ toPeer[i].type = "XFER_ACK" /\ ~toPeer[i].end
           /\ toPeer[i].len <= len
    BY <1>2 DEF Unanswered
  <2> QED
    BY <2>1, <2>2
<1>3. i \in Nat /\ j \in Nat /\ k \in Nat /\ (j \in Replies => j < k) /\ (j = k \/ j \in Replies)
  BY DEF AddsReply
<1>4. i # k
  BY <1>3
<1> QED
  BY <1>1, <1>2, <1>3, <1>4 DEF AddsReply

LEMMA MessageTypes ==
    /\ \A reply \in BOOLEAN : /\ SessTerm(reply) \in Messages
                              /\ SessTerm(reply).type = "SESS_TERM"
    /\ MsgReject("XFER_SEGMENT") \in Messages /\ MsgReject("XFER_SEGMENT").type = "MSG_REJECT"
    /\ \A id, n \in Nat, why \in {"SESS_TERM", "EXT_FAILURE", "NO_RESOURCES"} :
          LET m == Refuse(id, why, n) IN
          /\ m \in Messages /\ m.type = "XFER_REFUSE" /\ m.n = n
BY DEF Messages, SessTerm, MsgReject, Refuse

LEMMA SameRepliesFacts ==
    ASSUME SameReplies, UNCHANGED delivered
    PROVE  /\ RepliesInOrder => RepliesInOrder'
           /\ EndAckMeansDelivered => EndAckMeansDelivered'
           /\ \A n, len : Unanswered(n, len)' <=> Unanswered(n, len)
<1>1. RepliesInOrder => RepliesInOrder'
  BY DEF SameReplies, RepliesInOrder
<1>2. EndAckMeansDelivered => EndAckMeansDelivered'
  BY DEF SameReplies, EndAckMeansDelivered
<1>3. \A n, len : Unanswered(n, len)' <=> Unanswered(n, len)
  BY DEF SameReplies, Unanswered
<1> QED
  BY <1>1, <1>2, <1>3

-----------------------------------------------------------------------------
(* Steps aside: a message that is not a reply, and the way out of the loop. *)

Aside ==
    /\ UNCHANGED <<rxSegVars, bufVars, dlvPending, dlvFailed, dlvLen, dlvId, dlvPc, dlvSerial,
                   delivered, peerSent>>
    /\ dlvStopped => dlvStopped'
    /\ \/ rxPc' = rxPc /\ seg' = seg
       \/ rxPc' \in {"close", "fail", "stop", "join", "done"}
    /\ \/ toPeer' = toPeer
       \/ \E m \in Messages : /\ m.type \notin {"XFER_ACK", "XFER_REFUSE"}
                              /\ toPeer' = Append(toPeer, m)

RestOfInv == /\ LogsOK /\ ReceiverOK /\ FillOK /\ HandoffOK /\ DeliveriesOK
             /\ RepliesOK /\ DeliveredIntact /\ RepliesInOrder /\ EndAckMeansDelivered

LEMMA AsideKeeps == ASSUME RxTypeOK, RestOfInv, Aside PROVE RestOfInv'
<1> USE DEF RestOfInv
<1>1. LogsOK' /\ SameReplies
  <2>1. SameReplies
    BY NothingSent, SilentFacts DEF Aside
  <2>2. toPeer \in Seq(Messages)
    BY DEF LogsOK
  <2>3. toPeer' \in Seq(Messages)
    BY <2>2 DEF Aside
  <2> QED
    BY <2>1, <2>3 DEF Aside, LogsOK
<1>2. UNCHANGED <<rxActive, rxLen, rxRefused, mem, rxBundle, dlvPending, dlvLen, dlvSerial, dlvPc,
                  delivered, peerSent, serial>>
  BY DEF Aside, serial
<1>3. ReceiverOK'
  BY <1>2 DEF ReceiverOK, Receiving, Aside
<1>4. FillOK'
  BY <1>2 DEF FillOK, Filling, Receiving, Aside, Holds
<1>5. HandoffOK'
  BY <1>2 DEF HandoffOK, Holds, Aside
<1>6. DeliveriesOK' /\ DeliveredIntact'
  BY <1>2 DEF DeliveriesOK, DeliveredIntact
<1>7. RepliesInOrder' /\ EndAckMeansDelivered'
  BY <1>1, <1>2, SameRepliesFacts
<1>8. RepliesOK'
  <2>1. \A i \in Replies' : toPeer'[i].n <= serial'
    BY <1>1, <1>2 DEF RepliesOK, SameReplies
  <2>2. /\ Unanswered(serial, rxLen)' <=> Unanswered(serial, rxLen)
        /\ Unanswered(dlvSerial, dlvLen)' <=> Unanswered(dlvSerial, dlvLen)
    BY <1>1, <1>2 DEF SameReplies, Unanswered
  <2>3. Receiving' /\ (rxRefused' => rxPc' = "refuse") =>
           Receiving /\ (rxRefused => rxPc = "refuse")
    BY <1>2 DEF Receiving, Aside
  <2> QED
    BY <1>2, <2>1, <2>2, <2>3 DEF RepliesOK
<1> QED
  BY <1>1, <1>3, <1>4, <1>5, <1>6, <1>7, <1>8

-----------------------------------------------------------------------------
(* The receiver thread. *)

\* The header of a segment that is acceptable (RxHeader).
LEMMA HeaderFacts ==
    ASSUME RxTypeOK, RestOfInv, NEW s \in SegmentRecords, RxHeader(s)
    PROVE  \/ Aside
           \/ /\ UNCHANGED <<bufVars, dlvVars, toPeer, delivered>>
              /\ rxPc = "loop" /\ rxActive' = TRUE /\ seg' = s /\ s.len \in Nat
              /\ rxPc' \in {"refuse", "data"} /\ (rxPc' = "refuse" => rxRefused')
              /\ \/ /\ peerSent' = Append(peerSent, s.len) /\ rxLen' = 0
                 \/ /\ rxActive /\ rxLen' = rxLen
                    /\ peerSent' = [peerSent EXCEPT ![serial] = @ + s.len]
                    /\ rxRefused => rxRefused' /\ rxPc' = "data"
<1>1. s.len \in Nat /\ s.start \in BOOLEAN
  BY DEF SegmentRecords
<1>2. CASE s.len > SegmentMru \/ ~Accepted(s)
  <2>1. /\ rxPc' = "fail" /\ UNCHANGED <<seg, rxSegVars, peerSent, bufVars, dlvVars, delivered>>
        /\ Send(IF s.len > SegmentMru THEN SessTerm(FALSE) ELSE MsgReject("XFER_SEGMENT"))
    BY <1>2 DEF RxHeader, Abort
  <2>2. PICK m \in Messages : m.type \notin {"XFER_ACK", "XFER_REFUSE"} /\ Send(m)
    BY <2>1, MessageTypes
  <2>3. toPeer' = toPeer \/ toPeer' = Append(toPeer, m)
    BY <2>2, SendFacts DEF RestOfInv
  <2> QED
    BY <2>1, <2>2, <2>3 DEF Aside
<1>3. CASE ~(s.len > SegmentMru \/ ~Accepted(s))
  <2> DEFINE why == IF s.start THEN StartRefusal(s) ELSE "none"
             len == LenAtHeader(s)
             was == ~s.start /\ rxRefused
  <2>1. /\ rxPc = "loop" /\ seg' = s /\ rxActive' = TRUE /\ rxLen' = len
        /\ peerSent' = IF s.start THEN Append(peerSent, s.len)
                                  ELSE [peerSent EXCEPT ![serial] = @ + s.len]
        /\ rxRefused' = (was \/ why # "none" \/ Overflows(len, s))
        /\ rxPc' = IF rxRefused' /\ ~was THEN "refuse" ELSE "data"
        /\ UNCHANGED <<bufVars, dlvVars, toPeer, delivered>>
    BY <1>3 DEF RxHeader
  <2>2. len = IF s.start THEN 0 ELSE rxLen
    BY DEF LenAtHeader
  <2>3. ~s.start => rxActive
    BY <1>3 DEF Accepted
  <2> HIDE DEF why, len
  <2> QED
    BY <1>1, <2>1, <2>2, <2>3
<1> QED
  BY <1>2, <1>3

LEMMA HeaderKeeps ==
    ASSUME RxTypeOK, RestOfInv, NEW s \in SegmentRecords, RxHeader(s)
    PROVE  RestOfInv'
<1>1. CASE Aside
  BY <1>1, AsideKeeps
<1>2. CASE /\ UNCHANGED <<bufVars, dlvVars, toPeer, delivered>>
           /\ rxPc = "loop" /\ rxActive' = TRUE /\ seg' = s /\ s.len \in Nat
           /\ rxPc' \in {"refuse", "data"} /\ (rxPc' = "refuse" => rxRefused')
           /\ \/ /\ peerSent' = Append(peerSent, s.len) /\ rxLen' = 0
              \/ /\ rxActive /\ rxLen' = rxLen
                 /\ peerSent' = [peerSent EXCEPT ![serial] = @ + s.len]
                 /\ rxRefused => rxRefused' /\ rxPc' = "data"
  <2> USE DEF RestOfInv
  <2>1. /\ serial \in Nat /\ peerSent \in Seq(Nat) /\ dlvSerial \in Nat /\ dlvSerial <= serial
        /\ rxActive => dlvSerial < serial
    BY DEF ReceiverOK, Receiving, RxTypeOK, serial
  <2>2. \/ /\ peerSent' = Append(peerSent, s.len) /\ rxLen' = 0
           /\ serial' = serial + 1 /\ peerSent'[serial'] = s.len
        \/ /\ rxActive /\ rxLen' = rxLen
           /\ serial' = serial /\ peerSent'[serial] = peerSent[serial] + s.len
           /\ rxRefused => rxRefused' /\ rxPc' = "data"
    BY <1>2, <2>1 DEF serial
  <2>3. \A n \in 1 .. dlvSerial : peerSent'[n] = peerSent[n] /\ n \in 1 .. serial'
    <3>1. SUFFICES ASSUME NEW n \in 1 .. dlvSerial
                   PROVE  peerSent'[n] = peerSent[n] /\ n \in 1 .. serial'
      OBVIOUS
    <3>2. n \in Nat /\ 1 <= n /\ n <= dlvSerial /\ n \in 1 .. serial
      BY <2>1
    <3>3. CASE /\ peerSent' = Append(peerSent, s.len) /\ serial' = serial + 1
      <4>1. peerSent'[n] = peerSent[n]
        BY <2>1, <3>2, <3>3 DEF serial
      <4> QED
        BY <2>1, <3>2, <3>3, <4>1
    <3>4. CASE /\ peerSent' = [peerSent EXCEPT ![serial] = @ + s.len]
               /\ rxActive /\ serial' = serial
      <4>1. n # serial
        BY <2>1, <3>2, <3>4
      <4>2. n \in DOMAIN peerSent
        BY <2>1, <3>2 DEF serial
      <4>3. peerSent'[n] = peerSent[n]
        BY <3>4, <4>1, <4>2
      <4> QED
        BY <3>2, <3>4, <4>3
    <3>5. \/ /\ peerSent' = Append(peerSent, s.len)
             /\ serial' = serial + 1
          \/ /\ peerSent' = [peerSent EXCEPT ![serial] = @ + s.len]
             /\ rxActive /\ serial' = serial
      <4>1. CASE peerSent' = Append(peerSent, s.len)
        BY <2>1, <4>1 DEF serial
      <4>2. CASE /\ peerSent' = [peerSent EXCEPT ![serial] = @ + s.len] /\ rxActive
        BY <2>1, <4>2 DEF serial
      <4> QED
        BY <1>2, <4>1, <4>2
    <3> QED
      BY <3>3, <3>4, <3>5
  <2>4. dlvSerial < serial' /\ dlvSerial <= serial'
    BY <2>1, <2>2
  <2>5. LogsOK' /\ SameReplies
    BY <1>2, NothingSent DEF LogsOK
  <2>6. ReceiverOK'
    BY <1>2, <2>1, <2>4 DEF ReceiverOK
  <2>7. FillOK'
    <3>1. SUFFICES ASSUME Filling'
                   PROVE  peerSent'[serial'] = rxLen' + s.len /\ Holds(mem[rxBundle], serial', rxLen')
      BY <1>2 DEF FillOK, Filling
    <3>2. rxPc' = "data" /\ ~rxRefused'
      BY <1>2, <3>1 DEF Filling
    <3>3. CASE rxLen' = 0 /\ peerSent'[serial'] = s.len
      <4>1. Len(mem[rxBundle]) \in Nat
        BY DEF RxTypeOK
      <4>2. Holds(mem[rxBundle], serial', 0)
        BY <4>1 DEF Holds
      <4> QED
        BY <1>2, <3>3, <4>2
    <3>4. CASE /\ rxActive /\ rxLen' = rxLen
               /\ serial' = serial /\ peerSent'[serial] = peerSent[serial] + s.len
               /\ rxRefused => rxRefused' /\ rxPc' = "data"
      <4>1. ~rxRefused
        BY <3>2, <3>4
      <4>2. peerSent[serial] = rxLen /\ Holds(mem[rxBundle], serial, rxLen)
        BY <1>2, <3>4, <4>1 DEF FillOK, Filling, Receiving
      <4> QED
        BY <3>4, <4>2
    <3> QED
      BY <2>2, <3>3, <3>4
  <2>8. HandoffOK'
    BY <1>2, <2>3 DEF HandoffOK, Holds
  <2>9. DeliveriesOK' /\ DeliveredIntact'
    <3>1. DeliveriesOK'
      BY <1>2 DEF DeliveriesOK
    <3>2. \A i \in 1 .. Len(delivered) : peerSent'[delivered[i].n] = peerSent[delivered[i].n]
      BY <2>3 DEF DeliveriesOK
    <3> QED
      BY <1>2, <3>1, <3>2 DEF DeliveredIntact
  <2>10. RepliesInOrder' /\ EndAckMeansDelivered'
    BY <1>2, <2>5, SameRepliesFacts
  <2>11. RepliesOK'
    <3>1. \A i \in Replies : toPeer[i].n \in Nat /\ toPeer[i].n <= serial
      BY ReplyTypes DEF RepliesOK
    <3>2. \A i \in Replies' : toPeer'[i].n <= serial'
      BY <2>1, <2>2, <2>5, <3>1 DEF SameReplies
    <3>3. \A n, len : Unanswered(n, len)' <=> Unanswered(n, len)
      BY <1>2, <2>5, SameRepliesFacts
    <3>4. ASSUME rxRefused' => rxPc' = "refuse" PROVE Unanswered(serial', rxLen')
      <4>1. CASE serial' = serial + 1
        BY <2>1, <3>1, <4>1 DEF Unanswered
      <4>2. CASE /\ rxActive /\ rxLen' = rxLen /\ serial' = serial
                 /\ rxRefused => rxRefused' /\ rxPc' = "data"
        BY <3>4, <4>2 DEF RepliesOK, Receiving
      <4> QED
        BY <2>2, <4>1, <4>2
    <3>5. Unanswered(serial, rxLen)' <=> Unanswered(serial', rxLen')
      BY <1>2 DEF Unanswered, Replies
    <3>6. Unanswered(dlvSerial, dlvLen)' <=> Unanswered(dlvSerial, dlvLen)
      BY <1>2 DEF Unanswered, Replies
    <3> QED
      BY <1>2, <3>2, <3>4, <3>5, <3>6 DEF RepliesOK
  <2> QED
    BY <2>5, <2>6, <2>7, <2>8, <2>9, <2>10, <2>11
<1> QED
  BY <1>1, <1>2, HeaderFacts

LEMMA RefuseReasonType ==
    RxTypeOK => RefuseReason \in {"SESS_TERM", "EXT_FAILURE", "NO_RESOURCES"}
<1> SUFFICES ASSUME RxTypeOK PROVE RefuseReason \in {"SESS_TERM", "EXT_FAILURE", "NO_RESOURCES"}
  OBVIOUS
<1>1. seg.ext \in {"none", "critical", "toobig"} /\ rxState \in {"ESTABLISHED", "ENDING"}
  BY DEF RxTypeOK, Extensions, SegmentRecords
<1>2. StartRefusal(seg) \in {"none", "SESS_TERM", "EXT_FAILURE", "NO_RESOURCES"}
  BY <1>1 DEF StartRefusal
<1> QED
  BY <1>2 DEF RefuseReason

LEMMA RefuseKeeps == ASSUME RxTypeOK, RestOfInv, RxRefuse PROVE RestOfInv'
<1> USE DEF RestOfInv
<1>1. /\ rxPc = "refuse" /\ rxPc' = "data" /\ rxActive /\ rxRefused
      /\ UNCHANGED <<seg, rxSegVars, bufVars, dlvVars, delivered, peerSent>> /\ serial' = serial
  BY DEF RxRefuse, ReceiverOK, serial
<1>2. ReceiverOK' /\ FillOK'
  BY <1>1 DEF ReceiverOK, Receiving, FillOK, Filling
<1>3. HandoffOK' /\ DeliveriesOK' /\ DeliveredIntact'
  BY <1>1 DEF HandoffOK, Holds, DeliveriesOK, DeliveredIntact
<1>4. CASE toPeer' = toPeer
  <2>1. LogsOK' /\ SameReplies
    BY <1>1, <1>4, NothingSent DEF LogsOK
  <2>2. RepliesInOrder' /\ EndAckMeansDelivered'
    BY <1>1, <2>1, SameRepliesFacts
  <2>3. RepliesOK'
    BY <1>1, <1>4 DEF RepliesOK, Receiving, Unanswered, Replies
  <2> QED
    BY <1>2, <1>3, <2>1, <2>2, <2>3
<1>5. CASE toPeer' # toPeer
  <2>1. PICK m \in Messages : m.type = "XFER_REFUSE" /\ m.n = serial /\ Send(m)
    <3>1. Send(Refuse(rxId, RefuseReason, serial))
      BY <1>5 DEF RxRefuse
    <3>2. rxId \in Nat /\ serial \in Nat
      BY DEF RxTypeOK, serial
    <3> QED
      BY <3>1, <3>2, RefuseReasonType, MessageTypes
  <2>2. ~dlvPending
    BY <1>5 DEF RxRefuse, HandoffIdle, HandoffBad
  <2>3. toPeer' = Append(toPeer, m) /\ toPeer' \in Seq(Messages)
    BY <1>5, <2>1, SendFacts
  <2>4. PICK k : AddsReply(m, k)
    BY <2>1, <2>3, ReplyFacts
  <2>5. LogsOK'
    BY <1>1, <2>3 DEF LogsOK
  <2>6. Unanswered(serial, rxLen) /\ dlvSerial < serial /\ serial \in Nat /\ dlvSerial \in Nat
    BY <1>1 DEF RepliesOK, Receiving, ReceiverOK, RxTypeOK, serial
  <2>7. RepliesInOrder'
    BY <2>1, <2>4, <2>6, OrderKept
  <2>8. EndAckMeansDelivered'
    <3>1. \A j \in 1 .. Len(delivered) : delivered[j].n # serial
      BY <2>6 DEF DeliveriesOK
    <3> QED
      BY <1>1, <2>1, <2>4, <3>1 DEF EndAckMeansDelivered, AddsReply
  <2>9. RepliesOK'
    BY <1>1, <2>1, <2>2, <2>4, <2>6 DEF RepliesOK, AddsReply
  <2> QED
    BY <1>2, <1>3, <2>5, <2>7, <2>8, <2>9
<1> QED
  BY <1>4, <1>5

\* The buffer after a segment's data has been read into it.
LEMMA StoredFacts ==
    ASSUME RxTypeOK, ReceiverOK, FillOK, rxPc = "data", ~rxRefused
    PROVE  LET now == Stored(mem[rxBundle]) IN
           /\ now \in Buffers
           /\ peerSent[serial] = rxLen + seg.len
           /\ Holds(now, serial, rxLen + seg.len)
<1> DEFINE len == rxLen + seg.len
           buf == mem[rxBundle]
           now == Stored(buf)
<1>1. rxActive
  BY DEF ReceiverOK
<1>2. peerSent[serial] = len /\ Holds(buf, serial, rxLen)
  BY <1>1 DEF FillOK, Filling, Receiving
<1>3. seg.len \in Nat /\ rxLen \in Nat /\ serial \in Nat
  BY DEF RxTypeOK, serial, SegmentRecords
<1>4. now = [k \in 1 .. len |-> IF k <= rxLen THEN buf[k]
                                 ELSE Octet(serial, len - seg.len + k - rxLen)]
  BY <1>2 DEF Stored
<1>5. ASSUME NEW k \in 1 .. len PROVE now[k] = Octet(serial, k)
  <2>1. CASE k <= rxLen
    BY <1>2, <1>3, <1>4, <2>1 DEF Holds
  <2>2. CASE ~(k <= rxLen)
    <3>1. len - seg.len + k - rxLen = k
      BY <1>3
    <3>2. now[k] = Octet(serial, len - seg.len + k - rxLen)
      BY <1>4, <2>2
    <3> QED
      BY <3>1, <3>2
  <2> QED
    BY <2>1, <2>2
<1>6. \A k \in 1 .. len : Octet(serial, k) \in Nat \X Nat
  BY <1>3 DEF Octet
<1>7. len \in Nat /\ DOMAIN now = 1 .. len
  BY <1>3, <1>4
<1>8. now = [k \in 1 .. len |-> now[k]]
  BY <1>4
<1> HIDE DEF now, len, buf
<1>9. now \in [1 .. len -> Nat \X Nat]
  BY <1>5, <1>6, <1>7, <1>8
<1>10. now \in Buffers /\ Len(now) = len
  BY <1>7, <1>9 DEF Buffers
<1>11. Holds(now, serial, len)
  BY <1>5, <1>7, <1>10 DEF Holds
<1> QED
  BY <1>2, <1>10, <1>11 DEF now, len, buf

LEMMA DataKeeps == ASSUME RxTypeOK, RestOfInv, RxData PROVE RestOfInv'
<1> USE DEF RestOfInv
<1>1. /\ rxPc = "data" /\ rxActive /\ rxActive' = ~seg.end /\ rxPc' = AfterData
      /\ UNCHANGED <<rxRefused, rxBundle, dlvVars, toPeer, delivered, peerSent>>
      /\ serial' = serial /\ dlvSerial < serial
  BY DEF RxData, ReceiverOK, Receiving, serial
<1>2. /\ rxRefused => rxPc' = "loop" /\ UNCHANGED <<mem, rxLen>>
      /\ ~rxRefused => /\ rxPc' = IF seg.end THEN "handover" ELSE "ack"
                       /\ mem' = [mem EXCEPT ![rxBundle] = Stored(mem[rxBundle])]
                       /\ rxLen' = rxLen + seg.len
  BY <1>1 DEF RxData, AfterData, RxTypeOK
<1>3. seg.len \in Nat /\ rxLen \in Nat /\ rxBundle \in {0, 1} /\ DOMAIN mem = {0, 1}
  BY DEF RxTypeOK, SegmentRecords
<1>4. LogsOK' /\ SameReplies
  BY <1>1, NothingSent DEF LogsOK
<1>5. ReceiverOK'
  BY <1>1, <1>2 DEF ReceiverOK, Receiving
<1>6. FillOK'
  <2>1. CASE rxRefused
    BY <1>1, <2>1 DEF FillOK, Filling
  <2>2. CASE ~rxRefused
    <3>1. peerSent[serial] = rxLen' /\ Holds(Stored(mem[rxBundle]), serial, rxLen')
      BY <1>1, <1>2, <2>2, StoredFacts
    <3>2. mem'[rxBundle'] = Stored(mem[rxBundle]) /\ rxPc' # "data"
      BY <1>1, <1>2, <1>3, <2>2
    <3> QED
      BY <1>1, <3>1, <3>2 DEF FillOK
  <2> QED
    BY <2>1, <2>2
<1>7. mem'[1 - rxBundle] = mem[1 - rxBundle]
  BY <1>2, <1>3
<1>8. HandoffOK' /\ DeliveriesOK' /\ DeliveredIntact'
  BY <1>1, <1>7 DEF HandoffOK, Holds, DeliveriesOK, DeliveredIntact
<1>9. RepliesInOrder' /\ EndAckMeansDelivered'
  BY <1>1, <1>4, SameRepliesFacts
<1>10. RepliesOK'
  <2>1. CASE rxRefused
    BY <1>1, <1>2, <2>1 DEF RepliesOK, Unanswered, Replies
  <2>2. CASE ~rxRefused
    <3>1. Unanswered(serial, rxLen)
      BY <1>1, <2>2 DEF RepliesOK, Receiving
    <3>2. Unanswered(serial, rxLen')
      <4>1. rxLen <= rxLen' /\ rxLen' \in Nat
        BY <1>2, <1>3, <2>2
      <4> QED
        BY <1>3, <3>1, <4>1, ReplyTypes DEF Unanswered
    <3>3. /\ Unanswered(serial, rxLen)' <=> Unanswered(serial, rxLen')
          /\ Unanswered(dlvSerial, dlvLen)' <=> Unanswered(dlvSerial, dlvLen)
      BY <1>1 DEF Unanswered, Replies
    <3>4. \A i \in Replies' : toPeer'[i].n <= serial'
      BY <1>1 DEF RepliesOK, Replies
    <3> QED
      BY <1>1, <3>2, <3>3, <3>4 DEF RepliesOK
  <2> QED
    BY <2>1, <2>2
<1> QED
  BY <1>4, <1>5, <1>6, <1>8, <1>9, <1>10

LEMMA AckKeeps == ASSUME RxTypeOK, RestOfInv, RxAck PROVE RestOfInv'
<1> USE DEF RestOfInv
<1>1. /\ rxPc = "ack" /\ rxActive /\ ~rxRefused
      /\ UNCHANGED <<seg, rxSegVars, bufVars, dlvVars, delivered, peerSent>> /\ serial' = serial
  BY DEF RxAck, ReceiverOK, serial
<1>2. CASE HandoffBad \/ rxFailed
  <2>1. rxPc' = "fail" /\ toPeer' = toPeer
    BY <1>2 DEF RxAck
  <2> QED
    BY <1>1, <2>1, AsideKeeps DEF Aside
<1>3. CASE ~HandoffBad /\ ~rxFailed
  <2>1. /\ rxPc' = "loop" /\ ~dlvPending
        /\ Send(Ack(rxId, rxLen, FALSE, serial))
    BY <1>3 DEF RxAck, HandoffIdle, HandoffBad, AckLength
  <2>2. rxId \in Nat /\ rxLen \in Nat /\ serial \in Nat
    BY DEF RxTypeOK, serial
  <2>3. PICK m \in Messages : /\ m.type = "XFER_ACK" /\ m.n = serial /\ m.len = rxLen
                              /\ ~m.end /\ Send(m)
    <3> DEFINE a == Ack(rxId, rxLen, FALSE, serial)
    <3>1. a \in Messages /\ a.type = "XFER_ACK" /\ a.len = rxLen /\ a.end = FALSE /\ a.n = serial
      BY <2>2 DEF Ack, Messages
    <3> HIDE DEF a
    <3>2. Send(a)
      BY <2>1 DEF a
    <3> QED
      BY <3>1, <3>2
  <2>4. toPeer' = Append(toPeer, m) /\ toPeer' \in Seq(Messages)
    BY <1>3, <2>3, SendFacts DEF Send
  <2>5. PICK k : AddsReply(m, k)
    BY <2>3, <2>4, ReplyFacts
  <2>6. LogsOK'
    BY <1>1, <2>4 DEF LogsOK
  <2>7. ReceiverOK' /\ FillOK'
    BY <1>1, <2>1 DEF ReceiverOK, Receiving, FillOK, Filling, Holds
  <2>8. HandoffOK' /\ DeliveriesOK' /\ DeliveredIntact'
    BY <1>1 DEF HandoffOK, Holds, DeliveriesOK, DeliveredIntact
  <2>9. Unanswered(serial, rxLen)
    BY <1>1 DEF RepliesOK, Receiving
  <2>10. RepliesInOrder'
    BY <2>3, <2>5, <2>9, OrderKept
  <2>11. EndAckMeansDelivered'
    BY <1>1, <2>3, <2>5 DEF EndAckMeansDelivered, AddsReply
  <2>12. RepliesOK'
    <3>1. \A i \in Replies' : toPeer'[i].n <= serial'
      BY <1>1, <2>2, <2>3, <2>5 DEF RepliesOK, AddsReply
    <3>2. Unanswered(serial, rxLen)'
      BY <1>1, <2>2, <2>3, <2>5, <2>9 DEF Unanswered, AddsReply
    <3> QED
      BY <1>1, <2>1, <3>1, <3>2 DEF RepliesOK
  <2> QED
    BY <2>6, <2>7, <2>8, <2>10, <2>11, <2>12
<1> QED
  BY <1>2, <1>3

LEMMA HandOverKeeps == ASSUME RxTypeOK, RestOfInv, RxHandOver PROVE RestOfInv'
<1> USE DEF RestOfInv
<1>1. /\ rxPc = "handover" /\ ~rxActive /\ ~rxRefused /\ dlvSerial < serial
      /\ UNCHANGED <<rxActive, rxRefused, mem, dlvStopped, dlvFailed, dlvPc, toPeer, delivered,
                     peerSent, seg, rxId>>
      /\ serial' = serial
  BY DEF RxHandOver, ReceiverOK, Receiving, serial
<1>2. CASE HandoffBad
  BY <1>1, <1>2, AsideKeeps DEF RxHandOver, Aside
<1>3. CASE ~HandoffBad
  <2>1. /\ rxPc' = "loop" /\ rxBundle' = 1 - rxBundle /\ dlvLen' = rxLen
        /\ dlvSerial' = serial /\ dlvPending' = TRUE /\ rxLen' = 0 /\ ~dlvPending
    BY <1>3 DEF RxHandOver, OtherBuffer, HandoffIdle, HandoffBad
  <2>2. /\ rxBundle \in {0, 1} /\ serial \in Nat /\ dlvSerial \in Nat /\ rxLen \in Nat
        /\ dlvPc = "wait"
    BY <1>3, <2>1 DEF RxTypeOK, serial, HandoffOK, HandoffBad
  <2>3. peerSent[serial] = rxLen /\ Holds(mem[rxBundle], serial, rxLen)
    BY <1>1 DEF FillOK, Filling, Receiving
  <2>4. LogsOK' /\ SameReplies
    BY <1>1, NothingSent DEF LogsOK
  <2>5. ReceiverOK' /\ FillOK'
    BY <1>1, <2>1, <2>2 DEF ReceiverOK, Receiving, FillOK, Filling
  <2>6. HandoffOK'
    <3>1. 1 - rxBundle' = rxBundle
      BY <2>1, <2>2
    <3>2. Holds(mem'[1 - rxBundle'], dlvSerial', dlvLen')
      BY <1>1, <2>1, <2>3, <3>1
    <3>3. dlvSerial' \in 1 .. serial'
      BY <1>1, <2>1, <2>2
    <3> QED
      BY <1>1, <2>1, <2>2, <2>3, <3>2, <3>3 DEF HandoffOK
  <2>7. DeliveriesOK' /\ DeliveredIntact'
    <3>1. \A i \in 1 .. Len(delivered) : delivered[i].n \in 1 .. dlvSerial
      BY DEF DeliveriesOK
    <3>2. \A i \in 1 .. Len(delivered) : delivered[i].n \in 1 .. serial /\ delivered[i].n < serial
      BY <1>1, <2>2, <3>1
    <3> QED
      BY <1>1, <2>1, <2>2, <3>2 DEF DeliveriesOK, DeliveredIntact
  <2>8. RepliesInOrder' /\ EndAckMeansDelivered'
    BY <1>1, <2>4, SameRepliesFacts
  <2>9. RepliesOK'
    <3>1. Unanswered(serial, rxLen)
      BY <1>1 DEF RepliesOK, Receiving
    <3>2. Unanswered(dlvSerial, dlvLen)'
      BY <1>1, <2>1, <3>1 DEF Unanswered, Replies
    <3>3. \A i \in Replies' : toPeer'[i].n <= serial'
      BY <1>1 DEF RepliesOK, Replies
    <3> QED
      BY <1>1, <2>1, <3>2, <3>3 DEF RepliesOK, Receiving
  <2> QED
    BY <2>4, <2>5, <2>6, <2>7, <2>8, <2>9
<1> QED
  BY <1>2, <1>3

-----------------------------------------------------------------------------
(* The delivery thread. *)

\* What is said of the receiver's transfer is not touched by the delivery thread.
LEMMA DeliverySide ==
    ASSUME ReceiverOK, FillOK,
           UNCHANGED <<rxPc, seg, rxSegVars, bufVars, dlvSerial, peerSent>>
    PROVE  ReceiverOK' /\ FillOK' /\ serial' = serial
BY DEF ReceiverOK, Receiving, FillOK, Filling, Holds, serial

LEMMA TakeKeeps == ASSUME RxTypeOK, RestOfInv, DlvTake PROVE RestOfInv'
<1> USE DEF RestOfInv
<1>1. /\ dlvPc = "wait" /\ dlvPc' = IF dlvPending THEN "deliver" ELSE "exited"
      /\ dlvPending \/ dlvStopped
      /\ UNCHANGED <<rxPc, seg, rxSegVars, bufVars, dlvPending, dlvStopped, dlvFailed, dlvLen,
                     dlvSerial, toPeer, delivered, peerSent>>
  BY DEF DlvTake, DlvWake
<1>2. ReceiverOK' /\ FillOK' /\ serial' = serial
  BY <1>1, DeliverySide
<1>3. LogsOK' /\ SameReplies
  BY <1>1, NothingSent DEF LogsOK
<1>4. HandoffOK' /\ DeliveriesOK' /\ DeliveredIntact'
  BY <1>1, <1>2 DEF HandoffOK, Holds, DeliveriesOK, DeliveredIntact
<1>5. RepliesInOrder' /\ EndAckMeansDelivered'
  BY <1>1, <1>3, SameRepliesFacts
<1>6. RepliesOK'
  BY <1>1, <1>2 DEF RepliesOK, Receiving, Unanswered, Replies
<1> QED
  BY <1>2, <1>3, <1>4, <1>5, <1>6

LEMMA SettleKeeps == ASSUME RxTypeOK, RestOfInv, DlvSettle PROVE RestOfInv'
<1> USE DEF RestOfInv
<1>1. /\ dlvPending' = FALSE /\ dlvPc' = IF dlvPc = "failed" THEN "exited" ELSE "wait"
      /\ dlvFailed' = (dlvFailed \/ dlvPc = "failed")
      /\ UNCHANGED <<rxPc, seg, rxSegVars, bufVars, dlvStopped, dlvLen,
                     dlvSerial, toPeer, delivered, peerSent>>
  BY DEF DlvSettle
<1>2. ReceiverOK' /\ FillOK' /\ serial' = serial
  BY <1>1, DeliverySide
<1>3. LogsOK' /\ SameReplies
  BY <1>1, NothingSent DEF LogsOK
<1>4. HandoffOK' /\ DeliveriesOK' /\ DeliveredIntact'
  BY <1>1, <1>2 DEF HandoffOK, DeliveriesOK, DeliveredIntact
<1>5. RepliesInOrder' /\ EndAckMeansDelivered'
  BY <1>1, <1>3, SameRepliesFacts
<1>6. RepliesOK'
  BY <1>1, <1>2 DEF RepliesOK, Receiving, Unanswered, Replies
<1> QED
  BY <1>2, <1>3, <1>4, <1>5, <1>6

LEMMA DlvAckKeeps == ASSUME RxTypeOK, RestOfInv, DlvAck PROVE RestOfInv'
<1> USE DEF RestOfInv
<1>1. /\ dlvPc = "ack" /\ dlvPc' \in {"failed", "settle"} /\ dlvPending
      /\ Send(Ack(dlvId, dlvLen, TRUE, dlvSerial))
      /\ UNCHANGED <<rxPc, seg, rxSegVars, bufVars, dlvPending, dlvStopped, dlvFailed, dlvLen,
                     dlvSerial, delivered, peerSent>>
  BY DEF DlvAck, HandoffOK
<1>2. ReceiverOK' /\ FillOK' /\ serial' = serial
  BY <1>1, DeliverySide
<1>3. dlvId \in Nat /\ dlvLen \in Nat /\ dlvSerial \in Nat /\ serial \in Nat
  BY DEF RxTypeOK, serial
<1>4. PICK m \in Messages : /\ m.type = "XFER_ACK" /\ m.n = dlvSerial /\ m.len = dlvLen
                            /\ m.end = TRUE /\ Send(m)
  <2> DEFINE a == Ack(dlvId, dlvLen, TRUE, dlvSerial)
  <2>1. a \in Messages /\ a.type = "XFER_ACK" /\ a.len = dlvLen /\ a.end = TRUE /\ a.n = dlvSerial
    BY <1>3 DEF Ack, Messages
  <2> HIDE DEF a
  <2>2. Send(a)
    BY <1>1 DEF a
  <2> QED
    BY <2>1, <2>2
<1>5. toPeer' \in Seq(Messages) /\ (toPeer' = toPeer \/ toPeer' = Append(toPeer, m))
  BY <1>4, SendFacts
<1>6. LogsOK'
  BY <1>1, <1>5 DEF LogsOK
<1>7. HandoffOK' /\ DeliveriesOK' /\ DeliveredIntact'
  BY <1>1, <1>2 DEF HandoffOK, Holds, DeliveriesOK, DeliveredIntact
<1>8. CASE toPeer' = toPeer
  <2>1. RepliesInOrder' /\ EndAckMeansDelivered'
    BY <1>1, <1>8, NothingSent, SameRepliesFacts
  <2>2. RepliesOK'
    BY <1>1, <1>2, <1>8 DEF RepliesOK, Receiving, Unanswered, Replies
  <2> QED
    BY <1>2, <1>6, <1>7, <2>1, <2>2
<1>9. CASE toPeer' = Append(toPeer, m)
  <2>1. PICK k : AddsReply(m, k)
    BY <1>4, <1>9, ReplyFacts
  <2>2. Unanswered(dlvSerial, dlvLen)
    BY <1>1 DEF RepliesOK
  <2>3. RepliesInOrder'
    BY <1>4, <2>1, <2>2, OrderKept
  <2>4. EndAckMeansDelivered'
    <3>1. \E j \in 1 .. Len(delivered) :
             delivered[j].n = dlvSerial /\ Len(delivered[j].data) = dlvLen
      BY <1>1 DEF DeliveriesOK
    <3> QED
      BY <1>1, <1>4, <2>1, <3>1 DEF EndAckMeansDelivered, AddsReply
  <2>5. RepliesOK'
    <3>1. \A i \in Replies' : toPeer'[i].n <= serial'
      BY <1>2, <1>3, <1>4, <2>1 DEF RepliesOK, ReceiverOK, AddsReply
    <3>2. ASSUME Receiving, rxRefused => rxPc = "refuse" PROVE Unanswered(serial, rxLen)'
      <4>1. Unanswered(serial, rxLen) /\ dlvSerial < serial
        BY <3>2 DEF RepliesOK, ReceiverOK
      <4> QED
        BY <1>1, <1>2, <1>4, <2>1, <4>1 DEF Unanswered, AddsReply
    <3> QED
      BY <1>1, <1>2, <3>1, <3>2 DEF RepliesOK, Receiving
  <2> QED
    BY <1>2, <1>6, <1>7, <2>3, <2>4, <2>5
<1> QED
  BY <1>5, <1>8, <1>9

\* BP is given the octets of the transfer that was handed over, all and in order.
LEMMA DeliverKeeps == ASSUME RxTypeOK, RestOfInv, DlvDeliver PROVE RestOfInv'
<1> USE DEF RestOfInv
<1>1. /\ dlvPc = "deliver" /\ dlvPending
      /\ UNCHANGED <<rxPc, seg, rxSegVars, bufVars, dlvPending, dlvStopped, dlvFailed, dlvLen,
                     dlvSerial, toPeer, peerSent>>
  BY DEF DlvDeliver, HandoffOK
<1>2. ReceiverOK' /\ FillOK' /\ serial' = serial
  BY <1>1, DeliverySide
<1>3. SameReplies
  BY <1>1, NothingSent
<1>4. Unanswered(dlvSerial, dlvLen)
  BY <1>1 DEF RepliesOK
<1>5. /\ dlvPc' \in {"ack", "failed"} => RepliesOK'
      /\ dlvPc' \in {"ack", "failed"} => HandoffOK'
  <2>1. Unanswered(dlvSerial, dlvLen)'
    BY <1>1, <1>4 DEF Unanswered, Replies
  <2> QED
    BY <1>1, <1>2, <2>1 DEF RepliesOK, Receiving, Unanswered, Replies, HandoffOK, Holds
<1>6. RepliesInOrder'
  BY <1>3 DEF SameReplies, RepliesInOrder
<1>7. CASE dlvPc' = "failed" /\ UNCHANGED delivered
  <2>1. LogsOK' /\ DeliveriesOK' /\ DeliveredIntact'
    BY <1>1, <1>7 DEF LogsOK, DeliveriesOK, DeliveredIntact
  <2>2. EndAckMeansDelivered'
    BY <1>3, <1>7, SameRepliesFacts
  <2> QED
    BY <1>2, <1>5, <1>6, <1>7, <2>1, <2>2
<1>8. CASE /\ dlvPc' = "ack"
           /\ delivered' = Append(delivered,
                [n |-> dlvSerial, id |-> dlvId,
                 data |-> SubSeq(mem[1 - rxBundle], 1, dlvLen)])
  <2> DEFINE data == SubSeq(mem[1 - rxBundle], 1, dlvLen)
             d == [n |-> dlvSerial, id |-> dlvId, data |-> data]
             last == Len(delivered) + 1
  <2>1. /\ dlvSerial \in 1 .. serial /\ dlvLen = peerSent[dlvSerial]
        /\ Holds(mem[1 - rxBundle], dlvSerial, dlvLen)
        /\ mem[1 - rxBundle] \in Buffers /\ dlvLen \in Nat /\ dlvSerial \in Nat
        /\ dlvId \in Nat
    BY <1>1 DEF HandoffOK, RxTypeOK
  <2>2. data \in Buffers /\ Len(data) = dlvLen /\ data = Content(dlvSerial, dlvLen)
    <3> DEFINE buf == mem[1 - rxBundle]
    <3>1. buf \in Buffers /\ dlvLen <= Len(buf) /\ dlvLen \in Nat
      BY <2>1 DEF Holds
    <3>2. \A k \in 1 .. dlvLen : buf[k] = Octet(dlvSerial, k)
      BY <2>1 DEF Holds
    <3> HIDE DEF buf
    <3>3. SubSeq(buf, 1, dlvLen) = [k \in 1 .. dlvLen |-> buf[k]]
      BY <3>1
    <3>4. SubSeq(buf, 1, dlvLen) \in Buffers /\ Len(SubSeq(buf, 1, dlvLen)) = dlvLen
      BY <3>1 DEF Buffers
    <3>5. [k \in 1 .. dlvLen |-> buf[k]] = Content(dlvSerial, dlvLen)
      BY <3>2 DEF Content
    <3> QED
      BY <3>3, <3>4, <3>5 DEF buf
  <2>3. d \in [n : Nat, id : Nat, data : Buffers] /\ d.n = dlvSerial /\ d.data = data
    BY <2>1, <2>2
  <2>4. delivered' = Append(delivered, d)
    BY <1>8
  <2> HIDE DEF data, d
  <2>5. /\ delivered' \in Seq([n : Nat, id : Nat, data : Buffers])
        /\ Len(delivered') = last /\ delivered'[last] = d /\ Len(delivered) \in Nat
        /\ \A i \in 1 .. Len(delivered) : delivered'[i] = delivered[i]
    BY <2>3, <2>4 DEF LogsOK
  <2>6. LogsOK'
    BY <1>1, <2>5 DEF LogsOK
  <2>7. /\ \A i \in 1 .. Len(delivered') : i = last \/ i \in 1 .. Len(delivered)
        /\ \A i, j \in 1 .. Len(delivered') : i < j => i \in 1 .. Len(delivered)
    BY <2>5
  <2>8. /\ delivered'[last].n = dlvSerial /\ delivered'[last].data = data
        /\ \A i \in 1 .. Len(delivered) : delivered'[i] = delivered[i]
    BY <2>3, <2>5
  <2> HIDE DEF last
  <2>9. \A i \in 1 .. Len(delivered) : delivered[i].n \in 1 .. dlvSerial /\ delivered[i].n < dlvSerial
    BY <1>1 DEF DeliveriesOK
  <2>10. DeliveriesOK'
    <3>1. \A i \in 1 .. Len(delivered') : delivered'[i].n \in 1 .. dlvSerial'
      <4>1. dlvSerial \in 1 .. dlvSerial
        BY <2>1
      <4> QED
        BY <1>1, <2>9, <2>7, <2>8, <4>1
    <3>2. delivered'[last].n = dlvSerial' /\ Len(delivered'[last].data) = dlvLen'
      BY <1>1, <2>2, <2>3, <2>5
    <3>3. last \in 1 .. Len(delivered')
      BY <2>5 DEF last
    <3> QED
      BY <1>8, <3>1, <3>2, <3>3 DEF DeliveriesOK
  <2>11. DeliveredIntact'
    <3>1. ASSUME NEW i \in 1 .. Len(delivered')
          PROVE  delivered'[i].data = Content(delivered'[i].n, peerSent'[delivered'[i].n])
      <4>1. CASE i = last
        BY <1>1, <2>1, <2>2, <2>3, <2>5, <4>1
      <4>2. CASE i \in 1 .. Len(delivered)
        BY <1>1, <2>5, <4>2 DEF DeliveredIntact
      <4> QED
        BY <2>7, <4>1, <4>2
    <3>2. ASSUME NEW i \in 1 .. Len(delivered'), NEW j \in 1 .. Len(delivered'), i < j
          PROVE  delivered'[i].n < delivered'[j].n
      <4>1. CASE j = last
        BY <2>9, <2>7, <2>8, <3>2, <4>1
      <4>2. CASE j # last
        BY <2>7, <2>8, <3>2, <4>2 DEF DeliveredIntact
      <4> QED
        BY <4>1, <4>2
    <3>3. \A n, len : Content(n, len)' = Content(n, len)
      BY DEF Content, Octet
    <3> QED
      BY <3>1, <3>2 DEF DeliveredIntact
  <2>12. EndAckMeansDelivered'
    <3> SUFFICES ASSUME NEW i \in Replies
                 PROVE  LET m == toPeer[i] IN
                        IF m.type = "XFER_REFUSE"
                           THEN \A j \in 1 .. Len(delivered') : delivered'[j].n # m.n
                           ELSE m.end => \E j \in 1 .. Len(delivered') :
                                            /\ delivered'[j].n = m.n
                                            /\ Len(delivered'[j].data) = m.len
      BY <1>3 DEF EndAckMeansDelivered, SameReplies
    <3>1. CASE toPeer[i].type = "XFER_REFUSE"
      <4>1. toPeer[i].n < dlvSerial /\ toPeer[i].n \in Nat
        BY <1>4, <3>1, ReplyTypes DEF Unanswered
      <4>2. \A j \in 1 .. Len(delivered) : delivered[j].n # toPeer[i].n
        BY <3>1 DEF EndAckMeansDelivered
      <4>3. \A j \in 1 .. Len(delivered') : delivered'[j].n # toPeer[i].n
        BY <2>1, <2>7, <2>8, <4>1, <4>2
      <4> QED
        BY <3>1, <4>3
    <3>2. CASE toPeer[i].type # "XFER_REFUSE" /\ toPeer[i].end
      <4>1. PICK j \in 1 .. Len(delivered) : /\ delivered[j].n = toPeer[i].n
                                             /\ Len(delivered[j].data) = toPeer[i].len
        BY <3>2 DEF EndAckMeansDelivered
      <4>2. j \in 1 .. Len(delivered') /\ delivered'[j] = delivered[j]
        BY <2>5 DEF last
      <4> QED
        BY <3>2, <4>1, <4>2
    <3> QED
      BY <3>1, <3>2
  <2> QED
    BY <1>2, <1>5, <1>6, <1>8, <2>6, <2>10, <2>11, <2>12
<1> QED
  BY <1>7, <1>8 DEF DlvDeliver, AfterDelivery

-----------------------------------------------------------------------------
(* Type correctness, and the invariant. *)

LEMMA RxTypeInit == RxInit => RxTypeOK
<1> SUFFICES ASSUME RxInit PROVE RxTypeOK
  OBVIOUS
<1>1. seg \in SegmentRecords
  BY DEF RxInit, NoSegment, Extensions
<1>2. mem \in [{0, 1} -> Buffers] /\ peerSent \in Seq(Nat)
  BY DEF RxInit
<1> QED
  BY <1>1, <1>2 DEF RxInit, RxTypeOK

LEMMA RxTypeReceiver ==
    ASSUME RxTypeOK, RestOfInv, Receiver \/ RxMsgReject \/ RxClock \/ RxConnFail
           \/ (\E reply \in BOOLEAN : RxSessTerm(reply))
    PROVE  RxTypeOK'
<1>0. NoSegment \in SegmentRecords
  BY DEF NoSegment, Extensions, SegmentRecords
<1>1. CASE RxData
  <2>1. rxRefused \in BOOLEAN /\ seg.end \in BOOLEAN /\ seg.len \in Nat
    <3>1. seg \in SegmentRecords /\ rxRefused \in BOOLEAN
      BY DEF RxTypeOK
    <3> QED
      BY <3>1 DEF SegmentRecords
  <2>2. AfterData \in {"loop", "handover", "ack"}
    BY <2>1 DEF AfterData
  <2>3. mem' \in [{0, 1} -> Buffers] /\ rxLen' \in Nat
    <3>1. CASE rxRefused
      BY <1>1, <3>1 DEF RxData, RxTypeOK
    <3>2. CASE ~rxRefused
      <4>1. Stored(mem[rxBundle]) \in Buffers
        BY <1>1, <3>2, StoredFacts DEF RxData, RestOfInv
      <4>2. mem' = [mem EXCEPT ![rxBundle] = Stored(mem[rxBundle])] /\ rxLen' = rxLen + seg.len
        BY <1>1, <3>2 DEF RxData, RxTypeOK
      <4> QED
        BY <2>1, <4>1, <4>2 DEF RxTypeOK
    <3> QED
      BY <3>1, <3>2
  <2> QED
    BY <1>0, <1>1, <2>2, <2>3 DEF RxData, RxTypeOK
<1>2. CASE RxNoMemory \/ RxLeaveLoop \/ RxRefuse \/ RxAck
  <2>1. CASE RxNoMemory \/ RxLeaveLoop
    <3>1. /\ seg' = NoSegment /\ rxPc' = "fail"
          /\ UNCHANGED <<rxTermVars, rxFailed, rxSegVars, bufVars, dlvVars, peerSent, rxSegs>>
      BY <2>1 DEF RxNoMemory, RxLeaveLoop, Abort
    <3> QED
      BY <1>0, <3>1 DEF RxTypeOK
  <2>2. CASE RxRefuse
    BY <2>2 DEF RxRefuse, RxTypeOK
  <2>3. CASE RxAck
    <3>1. /\ rxPc' \in {"fail", "loop"}
          /\ UNCHANGED <<rxTermVars, rxFailed, seg, rxSegVars, bufVars, dlvVars, peerSent, rxSegs>>
      BY <2>3 DEF RxAck
    <3> QED
      BY <3>1 DEF RxTypeOK
  <2> QED
    BY <1>2, <2>1, <2>2, <2>3
<1>3. CASE RxHandOver
  <2>1. rxBundle \in {0, 1} /\ serial \in Nat
    BY DEF RxTypeOK, serial
  <2>2. /\ rxPc' \in {"fail", "loop"}
        /\ \/ UNCHANGED <<rxBundle, rxLen, dlvPending, dlvLen, dlvId, dlvSerial>>
           \/ /\ rxBundle' = 1 - rxBundle /\ dlvLen' = rxLen /\ dlvId' = rxId
              /\ dlvSerial' = serial /\ dlvPending' = TRUE /\ rxLen' = 0
        /\ UNCHANGED <<rxTermVars, rxFailed, seg, rxActive, rxId, rxRefused, mem, dlvStopped,
                       dlvFailed, dlvPc, peerSent, rxSegs>>
    BY <1>3 DEF RxHandOver, OtherBuffer
  <2>3. rxBundle' \in {0, 1}
    BY <2>1, <2>2
  <2>4. /\ rxLen' \in Nat /\ dlvLen' \in Nat /\ dlvId' \in Nat /\ dlvSerial' \in Nat
    BY <2>1, <2>2 DEF RxTypeOK
  <2>5. dlvPending' \in BOOLEAN
    BY <2>2 DEF RxTypeOK
  <2>6. rxPc' \in {"loop", "refuse", "data", "ack", "handover", "close", "fail", "stop", "join", "done"}
    BY <2>2
  <2> QED
    BY <2>2, <2>3, <2>4, <2>5, <2>6 DEF RxTypeOK
<1>4. CASE RxFail \/ DeliveryStop \/ RxJoin \/ RxConnFail
  <2>1. /\ rxPc' \in {rxPc, "stop", "join", "done"}
        /\ UNCHANGED rxFailed \/ rxFailed' = TRUE
        /\ UNCHANGED dlvStopped \/ dlvStopped' = TRUE
        /\ UNCHANGED <<rxTermVars, seg, rxSegVars, bufVars, dlvPending, dlvFailed, dlvLen, dlvId,
                       dlvSerial, dlvPc, peerSent, rxSegs>>
    BY <1>4 DEF RxFail, DeliveryStop, RxJoin, RxConnFail
  <2>2. rxFailed' \in BOOLEAN /\ dlvStopped' \in BOOLEAN
    BY <2>1 DEF RxTypeOK
  <2>3. rxPc' \in {"loop", "refuse", "data", "ack", "handover", "close", "fail", "stop", "join", "done"}
    BY <2>1 DEF RxTypeOK
  <2> QED
    BY <2>1, <2>2, <2>3 DEF RxTypeOK
<1>5. CASE RxMsgReject \/ RxClock \/ \E reply \in BOOLEAN : RxSessTerm(reply)
  <2>1. /\ rxPc' \in {rxPc, "close"} /\ rxState' \in {rxState, "ENDING"}
        /\ UNCHANGED rxTermSent \/ rxTermSent' = TRUE
        /\ rxClk' \in {rxClk, "idle", "term"}
        /\ UNCHANGED <<rxFailed, seg, rxSegVars, bufVars, dlvVars, peerSent, rxSegs>>
    BY <1>5 DEF RxMsgReject, RxClock, RxIdleTerm, RxIdleSend, RxSessTerm
  <2>2. /\ rxTermSent' \in BOOLEAN /\ rxClk' \in {"idle", "term"}
        /\ rxState' \in {"ESTABLISHED", "ENDING"}
    BY <2>1 DEF RxTypeOK
  <2>3. rxPc' \in {"loop", "refuse", "data", "ack", "handover", "close", "fail", "stop", "join", "done"}
    BY <2>1 DEF RxTypeOK
  <2> QED
    BY <2>1, <2>2, <2>3 DEF RxTypeOK
<1> QED
  BY <1>1, <1>2, <1>3, <1>4, <1>5 DEF Receiver

LEMMA EntryType ==
    ASSUME NEW q \in Seq(Nat), NEW i, NEW v, i \in DOMAIN q => v \in Nat
    PROVE  [q EXCEPT ![i] = v] \in Seq(Nat)
<1> DEFINE n == Len(q)
           r == [q EXCEPT ![i] = v]
<1>1. n \in Nat /\ q \in [1 .. n -> Nat] /\ DOMAIN q = 1 .. n
  OBVIOUS
<1> HIDE DEF n
<1>2. r \in [1 .. n -> Nat]
  BY <1>1
<1> QED
  BY <1>1, <1>2

LEMMA RxTypeHeader ==
    ASSUME RxTypeOK, NEW s \in SegmentRecords, RxHeader(s)
    PROVE  RxTypeOK'
<1>1. s \in SegmentRecords
  OBVIOUS
<1>2. rxSegs' \in Nat
  BY DEF RxHeader, RxTypeOK
<1>3. CASE s.len > SegmentMru \/ ~Accepted(s)
  <2>1. /\ rxPc' = "fail"
        /\ UNCHANGED <<seg, rxSegVars, peerSent, rxTermVars, rxFailed, bufVars, dlvVars>>
    BY <1>3 DEF RxHeader, Abort
  <2> QED
    BY <1>2, <2>1 DEF RxTypeOK
<1>4. CASE ~(s.len > SegmentMru \/ ~Accepted(s))
  <2>1. s.len \in Nat /\ s.start \in BOOLEAN /\ s.id \in Nat
    BY <1>1 DEF SegmentRecords
  <2>2. /\ seg' = s /\ rxActive' = TRUE /\ rxId' = s.id /\ rxLen' = LenAtHeader(s)
        /\ rxPc' \in {"refuse", "data"} /\ rxRefused' \in BOOLEAN
    BY <1>4 DEF RxHeader
  <2>3. rxLen' \in Nat
    BY <2>2 DEF LenAtHeader, RxTypeOK
  <2>4. peerSent' \in Seq(Nat)
    <3>1. \/ peerSent' = Append(peerSent, s.len)
          \/ peerSent' = [peerSent EXCEPT ![serial] = @ + s.len]
      BY <1>4 DEF RxHeader
    <3>2. peerSent \in Seq(Nat)
      BY DEF RxTypeOK
    <3>3. CASE peerSent' = Append(peerSent, s.len)
      BY <2>1, <3>2, <3>3
    <3>4. CASE peerSent' = [peerSent EXCEPT ![serial] = @ + s.len]
      <4>1. serial \in DOMAIN peerSent => peerSent[serial] + s.len \in Nat
        BY <2>1, <3>2
      <4> QED
        BY <3>2, <3>4, <4>1, EntryType
    <3> QED
      BY <3>1, <3>3, <3>4
  <2>5. UNCHANGED <<rxTermVars, rxFailed, bufVars, dlvVars>>
    BY DEF RxHeader
  <2> QED
    BY <1>1, <1>2, <2>1, <2>2, <2>3, <2>4, <2>5 DEF RxTypeOK
<1> QED
  BY <1>3, <1>4

LEMMA RxTypeDelivery == ASSUME RxTypeOK, Delivery PROVE RxTypeOK'
<1>1. /\ dlvPc' \in {"wait", "deliver", "ack", "settle", "failed", "exited"}
      /\ UNCHANGED <<rxTermVars, rxPc, seg, rxSegVars, bufVars, dlvStopped, dlvLen, dlvId,
                     dlvSerial, peerSent, rxSegs>>
  BY DEF Delivery, DlvTake, DlvDeliver, DlvAck, DlvSettle, AfterDelivery
<1>2. /\ UNCHANGED dlvPending \/ dlvPending' = FALSE
      /\ UNCHANGED dlvFailed \/ dlvFailed' \in BOOLEAN
      /\ UNCHANGED rxFailed \/ rxFailed' \in BOOLEAN
  BY DEF Delivery, DlvTake, DlvDeliver, DlvAck, DlvSettle
<1>3. dlvPending' \in BOOLEAN /\ dlvFailed' \in BOOLEAN /\ rxFailed' \in BOOLEAN
  BY <1>2 DEF RxTypeOK
<1> QED
  BY <1>1, <1>3 DEF RxTypeOK

LEMMA RxInvInit == RxInit => RxInv
<1> SUFFICES ASSUME RxInit PROVE RxInv
  OBVIOUS
<1>1. RxTypeOK /\ LogsOK
  BY RxTypeInit DEF RxInit, LogsOK
<1>2. Replies = {} /\ Len(delivered) = 0 /\ serial = 0
  BY DEF RxInit, Replies, serial
<1>3. ReceiverOK /\ FillOK /\ HandoffOK
  BY <1>2 DEF RxInit, ReceiverOK, Receiving, FillOK, Filling, HandoffOK
<1>4. DeliveriesOK /\ DeliveredIntact
  BY <1>2 DEF RxInit, DeliveriesOK, DeliveredIntact
<1>5. RepliesOK /\ RepliesInOrder /\ EndAckMeansDelivered
  BY <1>2 DEF RxInit, RepliesOK, RepliesInOrder, EndAckMeansDelivered, Unanswered
<1> QED
  BY <1>1, <1>3, <1>4, <1>5 DEF RxInv

LEMMA AsideCases ==
    ASSUME RxTypeOK, RestOfInv,
           \/ RxNoMemory \/ RxLeaveLoop \/ RxFail \/ DeliveryStop \/ RxJoin \/ RxMsgReject
           \/ RxClock \/ RxConnFail \/ \E reply \in BOOLEAN : RxSessTerm(reply)
    PROVE  Aside
<1>1. CASE RxLeaveLoop \/ RxFail \/ DeliveryStop \/ RxJoin \/ RxConnFail \/ RxIdleTerm
  BY <1>1 DEF RxLeaveLoop, RxFail, DeliveryStop, RxJoin, RxConnFail, RxIdleTerm, Aside
<1>2. ASSUME NEW reply \in BOOLEAN, Send(SessTerm(reply))
      PROVE  \/ toPeer' = toPeer
             \/ \E m \in Messages : /\ m.type \notin {"XFER_ACK", "XFER_REFUSE"}
                                    /\ toPeer' = Append(toPeer, m)
  <2>1. SessTerm(reply) \in Messages /\ SessTerm(reply).type = "SESS_TERM"
    BY MessageTypes
  <2> QED
    BY <1>2, <2>1, SendFacts DEF RestOfInv
<1>3. CASE RxNoMemory
  <2>1. Send(SessTerm(FALSE)) /\ FALSE \in BOOLEAN
    BY <1>3 DEF RxNoMemory, Abort
  <2> QED
    BY <1>2, <1>3, <2>1 DEF RxNoMemory, Abort, Aside
<1>4. CASE RxIdleSend
  <2>1. Send(SessTerm(FALSE)) /\ FALSE \in BOOLEAN
    BY <1>4 DEF RxIdleSend
  <2> QED
    BY <1>2, <1>4, <2>1 DEF RxIdleSend, Aside
<1>5. CASE RxMsgReject
  <2>1. toPeer' = toPeer \/ (Send(SessTerm(FALSE)) /\ FALSE \in BOOLEAN)
    BY <1>5 DEF RxMsgReject
  <2> QED
    BY <1>2, <1>5, <2>1 DEF RxMsgReject, Aside
<1>6. CASE \E reply \in BOOLEAN : RxSessTerm(reply)
  <2>1. PICK reply \in BOOLEAN : RxSessTerm(reply)
    BY <1>6
  <2>2. /\ toPeer' = toPeer \/ (Send(SessTerm(TRUE)) /\ TRUE \in BOOLEAN)
        /\ rxPc' = rxPc \/ rxPc' = "close"
        /\ UNCHANGED <<seg, rxSegVars, bufVars, dlvVars, delivered, peerSent>>
    BY <2>1 DEF RxSessTerm
  <2> QED
    BY <1>2, <2>2 DEF Aside
<1> QED
  BY <1>1, <1>3, <1>4, <1>5, <1>6 DEF RxClock

\* The peer may send any segment, so that the invariant serves whichever peer the
\* session has: the arbitrary one of TcpclRx, and the other node of TcpclSession.
AnyRxNext == \/ \E s \in SegmentRecords : RxHeader(s)
             \/ \E reply \in BOOLEAN : RxSessTerm(reply)
             \/ RxMsgReject \/ Receiver \/ Delivery \/ RxClock \/ RxConnFail

LEMMA AnyRxPeer == [RxNext]_rxVars => [AnyRxNext]_rxVars
<1>1. Segments \subseteq SegmentRecords
  BY MruAssumption, PeerIdsAssumption DEF Segments, SegmentRecords
<1> QED
  BY <1>1 DEF RxNext, AnyRxNext

LEMMA RxInvStep == RxInv /\ [AnyRxNext]_rxVars => RxInv'
<1> SUFFICES ASSUME RxInv, [AnyRxNext]_rxVars PROVE RxInv'
  OBVIOUS
<1>1. RxTypeOK /\ RestOfInv
  BY DEF RxInv, RestOfInv
<1>2. SUFFICES RxTypeOK' /\ RestOfInv'
  BY DEF RxInv, RestOfInv
<1>3. CASE \E s \in SegmentRecords : RxHeader(s)
  BY <1>1, <1>3, RxTypeHeader, HeaderKeeps
<1>4. CASE Delivery
  <2>1. RxTypeOK'
    BY <1>1, <1>4, RxTypeDelivery
  <2> QED
    BY <1>1, <1>4, <2>1, TakeKeeps, DeliverKeeps, DlvAckKeeps, SettleKeeps DEF Delivery
<1>5. CASE Receiver \/ RxMsgReject \/ RxClock \/ RxConnFail
           \/ \E reply \in BOOLEAN : RxSessTerm(reply)
  <2>1. RxTypeOK'
    BY <1>1, <1>5, RxTypeReceiver
  <2>2. RestOfInv'
    BY <1>1, <1>5, RefuseKeeps, DataKeeps, AckKeeps, HandOverKeeps, AsideCases, AsideKeeps
       DEF Receiver
  <2> QED
    BY <2>1, <2>2
<1>6. CASE UNCHANGED rxVars
  <2>1. Aside /\ RxTypeOK'
    BY <1>1, <1>6 DEF rxVars, Aside, RxTypeOK
  <2> QED
    BY <1>1, <2>1, AsideKeeps
<1> QED
  BY <1>3, <1>4, <1>5, <1>6 DEF AnyRxNext

\* RxInv holds in every reachable state of the receiver, delivery and clock threads,
\* whatever the peer sends.
THEOREM RxInvariant == RxSpec => []RxInv
BY RxInvInit, RxInvStep, AnyRxPeer, PTL DEF RxSpec

\* Type correctness of the receive side; that the reassembly buffers hold octets
\* throughout needs the invariant, since a segment is stored behind rxLen octets.
THEOREM RxTypeCorrect == RxSpec => []RxTypeOK
<1>1. RxInv => RxTypeOK
  BY DEF RxInv
<1> QED
  BY <1>1, RxInvariant, PTL

\* BP acquires exactly what the peer sent, each transfer once and in order, though
\* two threads swap two buffers (handleXferSegment, handOverTransfer,
\* tcpv4DeliveryThread): for any segment lengths, MRUs and number of transfers.
THEOREM RxDeliveredIntact == RxSpec => []DeliveredIntact
<1>1. RxInv => DeliveredIntact
  BY DEF RxInv
<1> QED
  BY <1>1, RxInvariant, PTL

\* Acknowledgments and refusals reach the peer in transfer order, and nothing follows
\* a refusal or the acknowledgment of an END segment (rxSendAck, rxSendRefuse and the
\* delivery thread's acknowledgment).
THEOREM RxRepliesInOrder == RxSpec => []RepliesInOrder
<1>1. RxInv => RepliesInOrder
  BY DEF RxInv
<1> QED
  BY <1>1, RxInvariant, PTL

\* An END segment is acknowledged only once BP has the whole bundle, and a refused
\* transfer is never delivered.
THEOREM RxEndAckMeansDelivered == RxSpec => []EndAckMeansDelivered
<1>1. RxInv => EndAckMeansDelivered
  BY DEF RxInv
<1> QED
  BY <1>1, RxInvariant, PTL
=============================================================================
