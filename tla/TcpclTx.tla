------------------------------- MODULE TcpclTx -------------------------------
(***************************************************************************)
(* The transmit side of one established TCPCLv4 session                    *)
(* (CLA/tcpv4/src/tcpv4tx.c, the XFER_ACK and XFER_REFUSE handlers of      *)
(* tcpv4rx.c, and the thread life cycle of tcpv4session.c).                *)
(*                                                                         *)
(* Four kinds of thread share the session:                                 *)
(*   - sender threads, one per outduct, which hand a bundle to the session *)
(*     and never wait for its outcome (tcpv4EngineSendTo);                 *)
(*   - the transmit thread, which writes one transfer at a time            *)
(*     (tcpv4XmitThread);                                                  *)
(*   - the receiver thread, which owns the session's life and handles what *)
(*     the peer says about the transfers (receiverThread);                 *)
(*   - the clock thread, which ends idle sessions and reaps finished ones  *)
(*     (clockTick, reapConns, freeConn).                                   *)
(* One action is one critical section, or one socket write, of one thread. *)
(* The peer is arbitrary: it may acknowledge or refuse any transfer id,    *)
(* with any cumulative length, at any time.                                *)
(***************************************************************************)
EXTENDS Integers, SequencesExt

CONSTANTS
    Bundles,        \* bundles BP may offer for the peer's node
    NoBundle,       \* "no bundle in this thread's hands"
    Senders,        \* sender threads (one per outduct)
    Length,         \* Length[b]: bufferfuls of bundle b (TCPV4_TXBUF_SIZE)
    TransferMtu,    \* the peer's Transfer MRU
    TxWindow,       \* cfg.txWindow, 0 = unbounded
    TxWindowBytes,  \* cfg.txWindowBytes, 0 = unbounded
    PeerLens,       \* cumulative lengths the peer may put in an XFER_ACK
    MaxTransfers    \* bound: transfers begun on the session

ASSUME BundlesAssumption == NoBundle \notin Bundles
ASSUME SendersAssumption == IsFiniteSet(Senders)
ASSUME LengthAssumption == Length \in [Bundles -> Nat \ {0}]
ASSUME WindowAssumption == /\ TransferMtu \in Nat
                           /\ TxWindow \in Nat
                           /\ TxWindowBytes \in Nat
ASSUME PeerAssumption == PeerLens \subseteq Nat /\ MaxTransfers \in Nat

VARIABLES
    outduct,    \* bundles BP holds for transmission
    sent,       \* bundles BP was told are sent
    spc,        \* spc[s]: where sender s is in tcpv4EngineSendTo
    sBundle,    \* sBundle[s]: the bundle sender s has dequeued
    txSenders,  \* conn->txSenders
    state,      \* conn->state, from TCS_ESTABLISHED on
    termSent,   \* conn->termSent
    failed,     \* conn->failed
    txStopped,  \* conn->txStopped
    txQueue,    \* conn->txQueue
    txWindow,   \* conn->txWindow
    transferId, \* transferId[b]: x->transferId of b's latest transfer
    inFlight, acked, refused, completed, \* the flags of Tcpv4Xfer
    txCount,    \* conn->txCount
    txBytes,    \* conn->txBytes
    nextTxId,   \* conn->nextTxId
    txAckedLen, \* conn->txAckedLen
    xpc,        \* where the transmit thread is
    xBundle,    \* x of tcpv4XmitThread
    xOff,       \* off of sendTransfer
    xFailed,    \* failed of tcpv4XmitThread
    rpc,        \* where the receiver thread is
    cpc,        \* where the clock thread is, as far as this session goes
    finished,   \* finished[t]: transfers thread t unlinked and has not yet
                \* reported to BP
    whole       \* history: bundles whose latest transfer was written to END

bpVars     == <<outduct, sent>>
senderVars == <<spc, sBundle, txSenders>>
termVars   == <<state, termSent>>
listVars   == <<txQueue, txWindow, txCount, txBytes, txAckedLen>>
flagVars   == <<acked, refused, completed>>
xferVars   == <<listVars, transferId, inFlight, flagVars, nextTxId>>
reportVars == <<finished, whole>>
xmitVars   == <<xpc, xBundle, xOff, xFailed>>
vars == <<outduct, sent, spc, sBundle, txSenders, state, termSent, failed,
          txStopped, txQueue, txWindow, transferId, inFlight, acked, refused,
          completed, txCount, txBytes, nextTxId, txAckedLen, xpc, xBundle,
          xOff, xFailed, rpc, cpc, finished, whole>>

Reporters == {"xmit", "recv", "clock"}
SenderPcs == {"idle", "dequeued", "claimed", "room", "release"}
XmitPcs   == {"none", "start", "wait", "write", "check", "letgo", "report",
              "exited"}
RecvPcs   == {"open", "loop", "report", "terminit", "termreply", "termquiet",
              "termclose", "fail", "stop", "join", "end", "done"}
ClockPcs  == {"idle", "termstop", "drain", "report", "freed"}

TypeOK ==
    /\ outduct \in SUBSET Bundles
    /\ sent \in SUBSET Bundles
    /\ spc \in [Senders -> SenderPcs]
    /\ sBundle \in [Senders -> Bundles \cup {NoBundle}]
    /\ txSenders \in Int
    /\ state \in {"ESTABLISHED", "ENDING"}
    /\ termSent \in BOOLEAN
    /\ failed \in BOOLEAN
    /\ txStopped \in BOOLEAN
    /\ txQueue \in Seq(Bundles)
    /\ txWindow \in Seq(Bundles)
    /\ transferId \in [Bundles -> Nat]
    /\ inFlight \in SUBSET Bundles
    /\ acked \in SUBSET Bundles
    /\ refused \in SUBSET Bundles
    /\ completed \in SUBSET Bundles
    /\ txCount \in Int
    /\ txBytes \in Int
    /\ nextTxId \in Nat
    /\ txAckedLen \in Nat
    /\ xpc \in XmitPcs
    /\ xBundle \in Bundles \cup {NoBundle}
    /\ xOff \in Nat
    /\ xFailed \in BOOLEAN
    /\ rpc \in RecvPcs
    /\ cpc \in ClockPcs
    /\ finished \in [Reporters -> SUBSET Bundles]
    /\ whole \in SUBSET Bundles

\* The session as tcpv4Establish leaves it: the receiver thread is about to
\* open the reception context and to start the other two threads.
Init ==
    /\ outduct = Bundles
    /\ sent = {}
    /\ spc = [s \in Senders |-> "idle"]
    /\ sBundle = [s \in Senders |-> NoBundle]
    /\ txSenders = 0
    /\ state = "ESTABLISHED"
    /\ termSent = FALSE
    /\ failed = FALSE
    /\ txStopped = FALSE
    /\ txQueue = <<>>
    /\ txWindow = <<>>
    /\ transferId = [b \in Bundles |-> 0]
    /\ inFlight = {}
    /\ acked = {}
    /\ refused = {}
    /\ completed = {}
    /\ txCount = 0
    /\ txBytes = 0
    /\ nextTxId = 0
    /\ txAckedLen = 0
    /\ xpc = "none"
    /\ xBundle = NoBundle
    /\ xOff = 0
    /\ xFailed = FALSE
    /\ rpc = "open"
    /\ cpc = "idle"
    /\ finished = [t \in Reporters |-> {}]
    /\ whole = {}

-----------------------------------------------------------------------------
(* Retiring and reporting a transfer. *)

\* Mutants of Succeeded: whatever was not refused counts as sent; an acknowledged
\* transfer does not.
SucceededUnlessRefused(b) == b \in completed \/ b \notin refused
SucceededIfCompleted(b) == b \in completed

\* TCPV4_XFER_SUCCEEDED
Succeeded(b) == b \in completed \/ (b \in acked /\ b \notin refused)

\* Mutants of Retirable: a refusal does not retire; inFlight is not looked at.
RetirableIfAcked(b, fly, ack, ref) == b \notin fly /\ b \in ack
RetirableInFlight(b, fly, ack, ref) == b \in ack \/ b \in ref

\* The early return of tcpv4TxFinished, over the flags the caller has just set.
Retirable(b, fly, ack, ref) == b \notin fly /\ (b \in ack \/ b \in ref)

BytesAfterUnlink(b) == txBytes - Length[b]

\* tcpv4TxFinished on the transfer at place i of the window; thread t then
\* reports it once it has let go of txMutex.
Unlink(i, t) ==
    LET b == txWindow[i] IN
    /\ txWindow' = RemoveAt(txWindow, i)
    /\ txCount' = txCount - 1
    /\ txBytes' = BytesAfterUnlink(b)
    /\ finished' = [finished EXCEPT ![t] = @ \cup {b}]

\* The running acknowledgment length belongs to the head of the window and
\* restarts when the head is retired.
AckedLenAfterUnlink(i, len) == IF i = 1 THEN 0 ELSE len

TxFinished(i, t, len) ==
    /\ IF Retirable(txWindow[i], inFlight', acked', refused')
          THEN /\ Unlink(i, t)
               /\ txAckedLen' = AckedLenAfterUnlink(i, len)
          ELSE /\ UNCHANGED <<txWindow, txCount, txBytes, finished>>
               /\ txAckedLen' = len
    /\ UNCHANGED txQueue

\* tx.done: BP forgets a bundle that was sent and gets back one that was not.
Report(t, b) ==
    /\ b \in finished[t]
    /\ finished' = [finished EXCEPT ![t] = @ \ {b}]
    /\ IF Succeeded(b) THEN sent' = sent \cup {b} /\ UNCHANGED outduct
                       ELSE outduct' = outduct \cup {b} /\ UNCHANGED sent

-----------------------------------------------------------------------------
(* Sender threads: senderThread and tcpv4EngineSendTo. *)

\* bpDequeue hands the sender one bundle of its outduct.
SenderDequeue(s) ==
    /\ spc[s] = "idle"
    /\ \E b \in outduct :
          /\ sBundle' = [sBundle EXCEPT ![s] = b]
          /\ outduct' = outduct \ {b}
    /\ spc' = [spc EXCEPT ![s] = "dequeued"]
    /\ UNCHANGED <<sent, txSenders, termVars, failed, txStopped, xferVars,
                   xmitVars, rpc, cpc, reportVars>>

\* The conditions under which findConn offers the session to a sender.
Claimable == ~failed /\ rpc # "done" /\ state = "ESTABLISHED"

SenderClaim(s) ==
    /\ spc[s] = "dequeued"
    /\ Claimable
    /\ spc' = [spc EXCEPT ![s] = "claimed"]
    /\ txSenders' = txSenders + 1
    /\ UNCHANGED <<bpVars, sBundle, termVars, failed, txStopped, xferVars,
                   xmitVars, rpc, cpc, reportVars>>

\* No session to be had: tcpv4EngineSendTo declines, and senderThread returns
\* the bundle to BP (bpHandleXmitFailure).
SenderDecline(s) ==
    /\ spc[s] = "dequeued"
    /\ ~Claimable
    /\ spc' = [spc EXCEPT ![s] = "idle"]
    /\ sBundle' = [sBundle EXCEPT ![s] = NoBundle]
    /\ outduct' = outduct \cup {sBundle[s]}
    /\ UNCHANGED <<sent, txSenders, termVars, failed, txStopped, xferVars,
                   xmitVars, rpc, cpc, reportVars>>

\* queueXfer before it takes txMutex: the bundle may exceed the peer's Transfer
\* MRU, and the allocation may fail.
QueuePrepare(s) ==
    /\ spc[s] = "claimed"
    /\ \E pc \in {"room", "release"} :
          /\ pc = "room" => Length[sBundle[s]] <= TransferMtu
          /\ spc' = [spc EXCEPT ![s] = pc]
    /\ UNCHANGED <<bpVars, sBundle, txSenders, termVars, failed, txStopped,
                   xferVars, xmitVars, rpc, cpc, reportVars>>

\* The negated wait condition of queueXfer: an empty window takes anything.
Room(b) ==
    \/ txCount <= 0
    \/ /\ TxWindow > 0 => txCount < TxWindow
       /\ TxWindowBytes > 0 => txBytes + Length[b] <= TxWindowBytes

\* A transfer is created with all its flags clear and joins the queue.
QueueXfer(s) ==
    LET b == sBundle[s] IN
    /\ spc[s] = "room"
    /\ ~txStopped
    /\ Room(b)
    /\ spc' = [spc EXCEPT ![s] = "release"]
    /\ sBundle' = [sBundle EXCEPT ![s] = NoBundle]
    /\ txQueue' = Append(txQueue, b)
    /\ txCount' = txCount + 1
    /\ txBytes' = txBytes + Length[b]
    /\ acked' = acked \ {b}
    /\ refused' = refused \ {b}
    /\ completed' = completed \ {b}
    /\ whole' = whole \ {b}
    /\ UNCHANGED <<bpVars, txSenders, termVars, failed, txStopped, txWindow,
                   transferId, inFlight, nextTxId, txAckedLen, xmitVars, rpc,
                   cpc, finished>>

\* queueXfer gives up: the session was stopped, or TCPV4_XFER_TIMEOUT passed
\* without room.
GiveUp(s) == txStopped \/ ~Room(sBundle[s])

QueueRefuse(s) ==
    /\ spc[s] = "room"
    /\ GiveUp(s)
    /\ spc' = [spc EXCEPT ![s] = "release"]
    /\ UNCHANGED <<bpVars, sBundle, txSenders, termVars, failed, txStopped,
                   xferVars, xmitVars, rpc, cpc, reportVars>>

\* A bundle the session did not take goes back to BP.
Returned(s) == {sBundle[s]} \ {NoBundle}

\* releaseConn
SenderRelease(s) ==
    /\ spc[s] = "release"
    /\ txSenders' = txSenders - 1
    /\ spc' = [spc EXCEPT ![s] = "idle"]
    /\ sBundle' = [sBundle EXCEPT ![s] = NoBundle]
    /\ outduct' = outduct \cup Returned(s)
    /\ UNCHANGED <<sent, termVars, failed, txStopped, xferVars, xmitVars, rpc,
                   cpc, reportVars>>

Sender(s) == \/ SenderDequeue(s) \/ SenderClaim(s) \/ SenderDecline(s)
             \/ QueuePrepare(s) \/ QueueXfer(s) \/ QueueRefuse(s)
             \/ SenderRelease(s)

-----------------------------------------------------------------------------
(* The transmit thread: tcpv4XmitThread, sendTransfer, sendSegments. *)

\* The thread allocates its buffer; without one it fails the session and exits.
XmitStart ==
    /\ xpc = "start"
    /\ \/ xpc' = "wait" /\ UNCHANGED failed
       \/ xpc' = "exited" /\ failed' = TRUE
    /\ UNCHANGED <<bpVars, senderVars, termVars, txStopped, xferVars, xBundle,
                   xOff, xFailed, rpc, cpc, reportVars>>

\* Mutant of IdAfterTake: the transfer id is not advanced.
IdKept == nextTxId

IdAfterTake == nextTxId + 1

\* Take the oldest queued transfer: it moves to the window, under one hold of
\* txMutex, before a single octet of it is written.
XmitTake ==
    LET b == Head(txQueue) IN
    /\ xpc = "wait"
    /\ txQueue # <<>>
    /\ ~txStopped
    /\ nextTxId < MaxTransfers
    /\ txQueue' = Tail(txQueue)
    /\ txWindow' = Append(txWindow, b)
    /\ transferId' = [transferId EXCEPT ![b] = nextTxId]
    /\ nextTxId' = IdAfterTake
    /\ inFlight' = inFlight \cup {b}
    /\ xBundle' = b
    /\ xOff' = 0
    /\ xpc' = "write"
    /\ UNCHANGED <<bpVars, senderVars, termVars, failed, txStopped, flagVars,
                   txCount, txBytes, txAckedLen, xFailed, rpc, cpc,
                   reportVars>>

\* Stopped: whatever is queued is left for the drain.
ExitDue == txStopped

XmitExit ==
    /\ xpc = "wait"
    /\ ExitDue
    /\ xpc' = "exited"
    /\ UNCHANGED <<bpVars, senderVars, termVars, failed, txStopped, xferVars,
                   xBundle, xOff, xFailed, rpc, cpc, reportVars>>

\* One bufferful read out of the bundle and written as XFER_SEGMENTs; the last
\* one carries END.
XmitWrite ==
    /\ xpc = "write"
    /\ ~failed
    /\ xOff' = xOff + 1
    /\ whole' = IF xOff' = Length[xBundle] THEN whole \cup {xBundle} ELSE whole
    /\ xpc' = "check"
    /\ UNCHANGED <<bpVars, senderVars, termVars, failed, txStopped, xferVars,
                   xBundle, xFailed, rpc, cpc, finished>>

\* tx.open, tx.read or the socket write failed.
XmitWriteFails ==
    /\ xpc = "write"
    /\ xFailed' = TRUE
    /\ xpc' = "letgo"
    /\ UNCHANGED <<bpVars, senderVars, termVars, failed, txStopped, xferVars,
                   xBundle, xOff, rpc, cpc, reportVars>>

\* Between bufferfuls the thread looks at refused under txMutex: it stops early
\* when the peer wants no more of the transfer.
MoreToSend == xOff < Length[xBundle] /\ xBundle \notin refused

XmitCheck ==
    /\ xpc = "check"
    /\ xpc' = IF MoreToSend THEN "write" ELSE "letgo"
    /\ UNCHANGED <<bpVars, senderVars, termVars, failed, txStopped, xferVars,
                   xBundle, xOff, xFailed, rpc, cpc, reportVars>>

\* Mutant of RefusedOnLetGo: a transfer that could not be written is not marked.
RefusedByPeerOnly == refused

\* The flags the transmit thread sets when it lets go of the transfer: one it
\* could not write is marked refused, whatever the peer said of it.
RefusedOnLetGo == IF xFailed THEN refused \cup {xBundle} ELSE refused

\* Let go of the transfer: from here on the receiver thread may retire it.
XmitLetGo ==
    /\ xpc = "letgo"
    /\ inFlight' = inFlight \ {xBundle}
    /\ refused' = RefusedOnLetGo
    /\ UNCHANGED <<acked, completed>>
    /\ \E i \in 1 .. Len(txWindow) :
          /\ txWindow[i] = xBundle
          /\ TxFinished(i, "xmit", txAckedLen)
    /\ xpc' = "report"
    /\ UNCHANGED <<bpVars, senderVars, termVars, failed, txStopped, transferId,
                   nextTxId, xBundle, xOff, xFailed, rpc, cpc, whole>>

\* Report the transfer if the thread was the one to retire it.
XmitReport ==
    /\ xpc = "report"
    /\ \E b \in finished["xmit"] : Report("xmit", b)
    /\ UNCHANGED <<senderVars, termVars, failed, txStopped, xferVars, xmitVars,
                   rpc, cpc, whole>>

\* A failed write also fails the session and ends the thread.
XmitNext ==
    /\ xpc = "report"
    /\ finished["xmit"] = {}
    /\ xBundle' = NoBundle
    /\ IF xFailed THEN failed' = TRUE /\ xpc' = "exited"
                  ELSE xpc' = "wait" /\ UNCHANGED failed
    /\ UNCHANGED <<bpVars, senderVars, termVars, txStopped, xferVars, xOff,
                   xFailed, rpc, cpc, reportVars>>

Xmit == \/ XmitStart \/ XmitTake \/ XmitExit \/ XmitWrite \/ XmitWriteFails
        \/ XmitCheck \/ XmitLetGo \/ XmitReport \/ XmitNext

-----------------------------------------------------------------------------
(* The receiver thread: receiverThread, handleXferAck, handleXferRefuse,   *)
(* handleSessTerm, startTermination.                                       *)

\* Open the reception context and start the transmit and delivery threads.
\* Without a context the thread goes straight to its end, leaving txStopped
\* clear; without one of the threads there is no message loop.
RecvOpen ==
    /\ rpc = "open"
    /\ \/ rpc' = "end" /\ xpc' = "none"
       \/ rpc' = "fail" /\ xpc' = "none"
       \/ rpc' \in {"loop", "fail"} /\ xpc' = "start"
    /\ UNCHANGED <<bpVars, senderVars, termVars, failed, txStopped, xferVars,
                   xBundle, xOff, xFailed, cpc, reportVars>>

\* An acknowledgment can only be for the oldest outstanding transfer.
AckNamesHead(id) == txWindow # <<>> /\ transferId[Head(txWindow)] = id

\* The cumulative length must advance, and not beyond the transfer.
AckAdvances(len) == len > txAckedLen /\ len <= Length[Head(txWindow)]

RecvAck(id, len) ==
    /\ rpc = "loop"
    /\ AckNamesHead(id)
    /\ LET b == Head(txWindow) IN
       \/ /\ ~AckAdvances(len)           \* give up on the transfer
          /\ refused' = refused \cup {b}
          /\ UNCHANGED <<inFlight, acked, completed>>
          /\ TxFinished(1, "recv", txAckedLen)
       \/ /\ AckAdvances(len)
          /\ acked' = IF len = Length[b] THEN acked \cup {b} ELSE acked
          /\ UNCHANGED <<inFlight, refused, completed>>
          /\ IF len = Length[b]
                THEN TxFinished(1, "recv", len)
                ELSE /\ txAckedLen' = len
                     /\ UNCHANGED <<txQueue, txWindow, txCount, txBytes,
                                    finished>>
    /\ rpc' = "report"
    /\ UNCHANGED <<bpVars, senderVars, termVars, failed, txStopped, transferId,
                   nextTxId, xmitVars, cpc, whole>>

\* A refusal may name any transfer of the window.
RecvRefuse(id, done) ==
    /\ rpc = "loop"
    /\ \E i \in 1 .. Len(txWindow) :
          LET b == txWindow[i] IN
          /\ transferId[b] = id
          /\ refused' = refused \cup {b}
          /\ completed' = IF done THEN completed \cup {b} ELSE completed
          /\ UNCHANGED <<inFlight, acked>>
          /\ TxFinished(i, "recv", txAckedLen)
    /\ rpc' = "report"
    /\ UNCHANGED <<bpVars, senderVars, termVars, failed, txStopped, transferId,
                   nextTxId, xmitVars, cpc, whole>>

\* The handler reports what it retired, with txMutex released, and goes on.
RecvReport ==
    /\ rpc = "report"
    /\ \E b \in finished["recv"] : Report("recv", b)
    /\ UNCHANGED <<senderVars, termVars, failed, txStopped, xferVars, xmitVars,
                   rpc, cpc, whole>>

RecvNext ==
    /\ rpc = "report"
    /\ finished["recv"] = {}
    /\ rpc' = "loop"
    /\ UNCHANGED <<bpVars, senderVars, termVars, failed, txStopped, xferVars,
                   xmitVars, cpc, reportVars>>

\* handleSessTerm: a reply is owed to a SESS_TERM that is not one itself, unless
\* ours has already gone out; otherwise the session closes.
ReplyNeeded(reply) == ~reply /\ ~termSent

RecvSessTerm(reply) ==
    /\ rpc = "loop"
    /\ state' = "ENDING"
    /\ termSent' = TRUE
    /\ rpc' = IF ReplyNeeded(reply) THEN "termreply" ELSE "termclose"
    /\ UNCHANGED <<bpVars, senderVars, failed, txStopped, xferVars, xmitVars,
                   cpc, reportVars>>

\* startTermination, on a MSG_REJECT of the messages transfers are made of; the
\* SESS_TERM goes out once only.
RecvMsgReject ==
    /\ rpc = "loop"
    /\ state' = "ENDING"
    /\ termSent' = TRUE
    /\ rpc' = IF termSent THEN "termquiet" ELSE "terminit"
    /\ UNCHANGED <<bpVars, senderVars, failed, txStopped, xferVars, xmitVars,
                   cpc, reportVars>>

\* Both then call tcpv4TxStop, send what is owed and go on or close.
RecvTermStop ==
    /\ rpc \in {"terminit", "termreply", "termquiet", "termclose"}
    /\ txStopped' = TRUE
    /\ rpc' = IF rpc = "termclose" THEN "fail" ELSE "loop"
    /\ UNCHANGED <<bpVars, senderVars, termVars, failed, xferVars, xmitVars,
                   cpc, reportVars>>

\* The message loop returns: the peer closed, broke the protocol, or the socket
\* was shut down under the thread.
RecvLeaveLoop ==
    /\ rpc = "loop"
    /\ rpc' = "fail"
    /\ UNCHANGED <<bpVars, senderVars, termVars, failed, txStopped, xferVars,
                   xmitVars, cpc, reportVars>>

\* tcpv4ConnFail first, so that a transmit thread blocked in a write returns.
RecvConnFail ==
    /\ rpc = "fail"
    /\ failed' = TRUE
    /\ rpc' = "stop"
    /\ UNCHANGED <<bpVars, senderVars, termVars, txStopped, xferVars, xmitVars,
                   cpc, reportVars>>

RecvTxStop ==
    /\ rpc = "stop"
    /\ txStopped' = TRUE
    /\ rpc' = "join"
    /\ UNCHANGED <<bpVars, senderVars, termVars, failed, xferVars, xmitVars,
                   cpc, reportVars>>

\* pthread_join(conn->xmit), if the thread was ever started.
XmitGone == xpc \in {"none", "exited"}

RecvJoin ==
    /\ rpc = "join"
    /\ XmitGone
    /\ rpc' = "end"
    /\ UNCHANGED <<bpVars, senderVars, termVars, failed, txStopped, xferVars,
                   xmitVars, cpc, reportVars>>

\* tcpv4ConnFail once more, then receiverDone.
RecvDone ==
    /\ rpc = "end"
    /\ failed' = TRUE
    /\ rpc' = "done"
    /\ UNCHANGED <<bpVars, senderVars, termVars, txStopped, xferVars, xmitVars,
                   cpc, reportVars>>

Recv == \/ RecvOpen
        \/ \E id \in 0 .. MaxTransfers, len \in PeerLens : RecvAck(id, len)
        \/ \E id \in 0 .. MaxTransfers, done \in BOOLEAN : RecvRefuse(id, done)
        \/ \E reply \in BOOLEAN : RecvSessTerm(reply)
        \/ RecvReport \/ RecvNext \/ RecvMsgReject \/ RecvTermStop
        \/ RecvLeaveLoop \/ RecvConnFail \/ RecvTxStop \/ RecvJoin \/ RecvDone

-----------------------------------------------------------------------------
(* The clock thread: clockTick, reapConns, freeConn; and tcpv4ConnFail from *)
(* wherever else it is called.                                              *)

\* The idle timer ends a session with nothing on either list.
Idle == state = "ESTABLISHED" /\ ~termSent /\ txCount = 0

ClockIdleTerm ==
    /\ cpc = "idle"
    /\ ~failed /\ rpc # "done"
    /\ Idle
    /\ state' = "ENDING"
    /\ termSent' = TRUE
    /\ cpc' = "termstop"
    /\ UNCHANGED <<bpVars, senderVars, failed, txStopped, xferVars, xmitVars,
                   rpc, reportVars>>

ClockTxStop ==
    /\ cpc = "termstop"
    /\ txStopped' = TRUE
    /\ cpc' = "idle"
    /\ UNCHANGED <<bpVars, senderVars, termVars, failed, xferVars, xmitVars,
                   rpc, reportVars>>

\* A reception timeout, a keepalive or SESS_TERM that could not be sent, or a
\* delivery that failed: some thread calls tcpv4ConnFail.
ConnFail ==
    /\ ~failed
    /\ failed' = TRUE
    /\ UNCHANGED <<bpVars, senderVars, termVars, txStopped, xferVars, xmitVars,
                   rpc, cpc, reportVars>>

\* Mutant of Reapable: senders are not waited for.
ReapableAtOnce == rpc = "done"

\* A session is reaped once its receiver has exited and no sender holds it.
Reapable == rpc = "done" /\ txSenders = 0

ClockReap ==
    /\ cpc = "idle"
    /\ Reapable
    /\ cpc' = "drain"
    /\ UNCHANGED <<bpVars, senderVars, termVars, failed, txStopped, xferVars,
                   xmitVars, rpc, reportVars>>

\* Mutant of Drained: only the queue is spliced out.
DrainedQueue == ToSet(txQueue)

\* tcpv4TxDrain splices both lists out under txMutex ...
Drained == ToSet(txQueue) \cup ToSet(txWindow)

TxDrain ==
    /\ cpc = "drain"
    /\ txStopped' = TRUE
    /\ finished' = [finished EXCEPT !["clock"] = @ \cup Drained]
    /\ txQueue' = <<>>
    /\ txWindow' = <<>>
    /\ txCount' = 0
    /\ txBytes' = 0
    /\ cpc' = "report"
    /\ UNCHANGED <<bpVars, senderVars, termVars, failed, transferId, inFlight,
                   flagVars, nextTxId, txAckedLen, xmitVars, rpc, whole>>

\* ... and reports each of them afterwards, because reporting reaches into BP.
DrainReport ==
    /\ cpc = "report"
    /\ \E b \in finished["clock"] : Report("clock", b)
    /\ UNCHANGED <<senderVars, termVars, failed, txStopped, xferVars, xmitVars,
                   rpc, cpc, whole>>

FreeConn ==
    /\ cpc = "report"
    /\ finished["clock"] = {}
    /\ cpc' = "freed"
    /\ UNCHANGED <<bpVars, senderVars, termVars, failed, txStopped, xferVars,
                   xmitVars, rpc, reportVars>>

Clock == \/ ClockIdleTerm \/ ClockTxStop \/ ClockReap \/ TxDrain
         \/ DrainReport \/ FreeConn

-----------------------------------------------------------------------------
Next == (\E s \in Senders : Sender(s)) \/ Xmit \/ Recv \/ Clock \/ ConnFail

Spec == Init /\ [][Next]_vars

-----------------------------------------------------------------------------
(* Properties. *)

InHand   == {sBundle[s] : s \in Senders} \ {NoBundle}
Finished == UNION {finished[t] : t \in Reporters}
Listed   == ToSet(txQueue) \cup ToSet(txWindow)
Holders  == {s \in Senders : spc[s] \in {"claimed", "room", "release"}}

\* Every bundle has exactly one holder: BP, one sender, one of the two lists,
\* or the one thread about to report it.  So the engine neither loses a bundle
\* nor reports one twice, however acknowledgments, refusals, write failures and
\* the drain interleave (tcpv4tx.c:22-25).
SomeHolder ==
    \A b \in Bundles :
        b \in outduct \cup sent \cup InHand \cup Listed \cup Finished

OneReporter ==
    \A s, t \in Reporters : s # t => finished[s] \cap finished[t] = {}

OneSender ==
    \A s, t \in Senders :
        s # t /\ sBundle[s] = sBundle[t] => sBundle[s] = NoBundle

OneHolder ==
    /\ \A b \in outduct : b \notin sent \cup InHand \cup Listed \cup Finished
    /\ \A b \in sent : b \notin InHand \cup Listed \cup Finished
    /\ \A b \in InHand : b \notin Listed \cup Finished
    /\ \A b \in Listed : b \notin Finished
    /\ \A b \in ToSet(txQueue) : b \notin ToSet(txWindow)
    /\ OneReporter
    /\ OneSender
    /\ IsInjective(txQueue)
    /\ IsInjective(txWindow)

Custody == SomeHolder /\ OneHolder

\* BP is told a bundle was sent only if the peer said it has the bundle, or if
\* the peer acknowledged its whole length and the last octet had been written,
\* even when the acknowledgment overtakes the write or the write then fails.
SentWasWritten ==
    \A b \in sent : b \in completed \/ (b \in acked /\ b \in whole)

\* A transfer with an outcome stays in the window only while the transmit
\* thread still holds it: whichever of the two threads lets go last retires it,
\* so none is stranded until the session ends (tcpv4rx.c:530-533).
NoStranded ==
    \A b \in ToSet(txWindow) : b \in acked \cup refused => b \in inFlight

\* The transfer being written is the newest one of the window; no other thread
\* unlinks, and so frees, it (tcpv4tx.c:382-384).
XmitHoldsTail ==
    IF xpc \in {"write", "check", "letgo"}
       THEN /\ txWindow # <<>>
            /\ xBundle = Last(txWindow)
            /\ inFlight = {xBundle}
       ELSE inFlight = {}

\* The window is in transfer id order, so that the only transfer an XFER_ACK may
\* name is its head, and no two outstanding transfers share an id.
WindowInOrder ==
    /\ \A i, j \in 1 .. Len(txWindow) :
          i < j => transferId[txWindow[i]] < transferId[txWindow[j]]
    /\ \A i \in 1 .. Len(txWindow) : transferId[txWindow[i]] < nextTxId

\* The transmit window never holds more transfers, or more octets unless it
\* holds a single transfer, than it is configured for (queueXfer).
WindowBounded ==
    /\ TxWindow > 0 => txCount <= TxWindow
    /\ TxWindowBytes > 0 /\ txCount > 1 => txBytes <= TxWindowBytes

\* What the window is bounded by is what the lists hold: no path takes a
\* transfer off a list and forgets to give its room back.
CountAgrees == txCount = Len(txQueue) + Len(txWindow)

\* The session is freed only when no sender, transmit or receiver thread can
\* touch it again.
NoUseAfterFree ==
    cpc \in {"drain", "report", "freed"} =>
        Holders = {} /\ XmitGone /\ rpc = "done"

=============================================================================
