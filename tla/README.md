# ION-DTN-CONTRIB: specifications, checks and proofs

This directory holds TLA+ specifications of the convergence layers and
applications of the repository, the TLC configurations that check them on small
instances, and TLAPS proofs for instances of any size.  `PROJECT.json` lists the
runs, the properties and their mutants, the theorems, the source lines behind
every definition, the known hazards and the findings.

To check a run: `tlc -config TxCustody.cfg MCTcpclTx`.  To check the proofs of a
module: `tlapm TcpclTxProofs.tla`.

## 1. The system

The repository adds to the ION implementation of DTN a set of convergence layer
adapters (CLAs), which carry bundles between nodes, and a few applications.

| Part | State | Operations | What is hard | What makes it correct |
|---|---|---|---|---|
| **CLA/tcpv4**: TCPCL version 4 (RFC 9174) | per session: transmit queue and window, reassembly buffers, delivery slot, session state; per engine: session list, dial records | accept, dial, negotiate, send, acknowledge, refuse, deliver, terminate, keep alive, reap | up to five kinds of thread per engine and three locks; whoever lets go last frees; limits checked and used under different holds of a lock; connection loss at any point | no bundle lost or reported twice; success means the peer has it; no thread touches a freed session; limits hold; every send returns |
| **CLA/quic**: QUICCL over ngtcp2 | connections, one send slot each, stream and datagram reassembly | dial, bring up, send, reassemble, terminate | an I/O thread that alone may touch a connection, senders waiting on a slot, datagrams lost and reordered | a slot has one user; a connection in use is not freed; a datagram transfer is delivered whole or not at all |
| **CLA/zcl**: zstd-compressed tunnel | open chunk, bundles waiting to be settled; per sender a reorder buffer | add, cut, send, abandon; insert, drain, give up a gap | compression goes on while a carrier is sent; carriers lost, repeated, reordered | each bundle settled once; chunks decoded in order, from their start, at most once |
| **CLA/mail**, **CLA/mysql**, **CLA/mqtt** | a batch of bundles and a flush thread; polled mailbox, table, topic | batch, flush, settle; fetch, inject, delete | a step of several failing, answers lost after the effect | each bundle settled once; nothing deleted that was not injected |
| **APP/bpsh** | a shell and a reply sequence per client; a queue of deferred frames | INIT, REQ, stdin, EXIT; ordered reception | frames arriving while a command runs; replies reordered and lost | replies are seen in order; one session per client |
| **APP/bpcmd**, **APP/bptun** | white list; route table and TUN device | run a command and reply; forward packets both ways | commands that do not end; longest prefix | |
| **misc/linkimpair**, **include** | - | a test tool; vendored headers of ION | | |

CLAs interact with ION through a narrow interface: they dequeue a bundle from an
outduct, and must report it sent or failed exactly once; they hand received
bytes to BP for acquisition.  ION itself is not in the repository; it is modelled
from these calls.

### tcpv4 in more detail

`tcpv4cla.c` runs one *sender thread* per outduct.  It dequeues a bundle and
calls `tcpv4EngineSendTo`, which finds a session to the neighbour (`findConn`),
waits for one or dials it (`tcpv4OpenSession`), and queues the bundle as a
transfer (`queueXfer`).  The sender does not wait for the outcome.

Each session has a *receiver thread*, which negotiates, runs the message loop
(`tcpv4MessageLoop`) and winds the session up; a *transmit thread*, which writes
one transfer at a time; and a *delivery thread*, which gives reassembled bundles
to BP while the receiver reads the next one.  An *accept thread* and a *clock
thread* serve all sessions; the clock thread also reaps and frees them.

`e->mutex` guards the session list and session states, `conn->txMutex` the
transmit queue and window, `conn->dlvMutex` the delivery slot.  None is held over
a socket call.

## 2. Modules

| Module | Models | Depends on |
|---|---|---|
| `TcpclTx` | tcpv4: transmit side of one session, with the threads' life cycle | - |
| `TcpclRx` | tcpv4: receive side of one session | - |
| `TcpclSession` | tcpv4: two nodes, A sending and B receiving, and the connection between them | `TcpclTx`, `TcpclRx` |
| `BundleHandover` | what a convergence layer promises BP | - |
| `TcpclEngine` | tcpv4: session list: accept, dial and back off, choose, reap, free | - |
| `TcpclMsg` | tcpv4: the octets of every message | - |
| `TcpclNegotiate` | tcpv4: both ends of the negotiation, and the framing of messages | `TcpclMsg` |
| `QuicXfer` | quic: transfers over one connection | - |
| `QuicEngine` | quic: connections, threads and the end of the daemon | - |
| `ZclTx`, `ZclRx`, `ZclTunnel` | zcl: zclo, zcli, and both over a network | the first two by the third |
| `StoreBp` | what the output and input daemons of mail, mysql and mqtt share | - |
| `MailCodec`, `MailCla` | mail: bundles in the text of a message; mailclo, mailcli | `StoreBp` |
| `MysqlCla`, `MqttCla` | mysqlclo, mysqlcli; mqttclo, mqttcli | `StoreBp` |
| `StoreClas` | the three of them, for one run | the four above |
| `BpshProto`, `BpshClient`, `Bpshd`, `BpshSession`, `BpshShell` | bpsh: frames and BP; the client; the daemon; a running command; all of it | in this order |
| `MC...` | model values, lengths, configurations and symmetries for TLC | the module of that name |
| `ListOps` | loops and counts over lists | - (used by `TcpclEngine`, the zcl and the store modules) |
| `ListFacts` | lemmas on lists, counts and least numbers | `ListOps` |
| `TcpclTxProofs`, `TcpclRxProofs`, `TcpclEngineProofs`, `QuicProofs`, `ZclProofs`, `StoreClasProofs` | proofs about `TcpclTx`, `TcpclRx`, `TcpclEngine`, `QuicEngine` and `QuicXfer`, `ZclTunnel`, `StoreClas` | the modules they are about, `ListFacts` |
| `TcpclSessionProofs` | proofs about `TcpclSession` | `TcpclSession`, `TcpclTxProofs`, `TcpclRxProofs` |

### Granularity

One action is one critical section, one blocking call, or one socket write of one
thread.  Between two actions any other thread may run, which is what the code
allows: the locks are let go at exactly these points.

### TcpclTx

The variables are the fields of `Tcpv4Conn` and `Tcpv4Xfer` under their own
names, and one program counter per thread: `spc[s]` for the senders, `xpc` for
the transmit thread, `rpc` for the receiver, `cpc` for the clock.  A transfer is
known by its bundle, as a session never holds two transfers of one bundle at a
time.  `finished[t]` are the transfers thread `t` has unlinked and has yet to
report, which the code does after letting go of the lock.  `whole` is a history
variable: bundles whose END segment was written.

| Action | Code |
|---|---|
| `SenderDequeue`, `SenderClaim`, `SenderDecline`, `SenderRelease` | `senderThread`, `tcpv4EngineSendTo`, `releaseConn` |
| `QueuePrepare`, `QueueXfer`, `QueueRefuse` | `queueXfer`: outside the lock, room found, timeout or stop |
| `XmitStart` ... `XmitNext` | `tcpv4XmitThread`, `sendTransfer`, `sendSegments` |
| `RecvAck`, `RecvRefuse`, `RecvReport`, `RecvNext` | `handleXferAck`, `handleXferRefuse`, `tcpv4TxFinished` |
| `RecvSessTerm`, `RecvTermStop`, `RecvMsgReject`, `RecvLeaveLoop` ... `RecvDone` | `handleSessTerm`, `startTermination`, end of `receiverThread` |
| `ClockIdleTerm`, `ClockTxStop`, `ClockReap`, `TxDrain`, `DrainReport`, `FreeConn` | `clockTick`, `reapConns`, `tcpv4TxDrain`, `freeConn` |
| `ConnFail` | `tcpv4ConnFail`, from wherever it is called |

The peer is not modelled: it may acknowledge or refuse any transfer id with any
cumulative length at any time.  Lengths are counted in bufferfuls
(`TCPV4_TXBUF_SIZE`), the unit in which a transfer is written.

### TcpclRx

The variables are the receive fields of `Tcpv4Conn`.  `mem[0]` and `mem[1]` are
the two reassembly buffers; each octet in them is tagged with the transfer it
came from, so that a mixture of two transfers is visible.  `RxHeader` to
`RxHandOver` are the steps of `handleXferSegment`, `DlvTake` to `DlvSettle` those
of `tcpv4DeliveryThread`.  The peer sends any sequence of segments, with any of
the four kinds of extension list the code tells apart.

### TcpclSession

`wire` and `toPeer` are the two directions of the TCP connection: in order,
complete up to the point where the connection fails.  Messages already sent are
still read after the sender has shut its socket down.  Each step is a step of
`TcpclTx` or `TcpclRx` together with what it writes.  `xferOf` is a history
variable that names the bundle behind each transfer id, and the field `off` of a
segment on the wire says where in its transfer it belongs; no action reads either.

### TcpclEngine

`session[c]` holds the fields of `Tcpv4Conn` that the engine looks at; `conns`
is the list, newest first; `apc`, `spc` and `receiver[c]` are the places of the
accept, sender and receiver threads.  `startConn` is split where it lets go of
`e->mutex` (`AcceptBegin`, `AcceptMark` and their sender counterparts).  The
outcome of the negotiation is `SessInit` (with a claimed node ID that may or may
not be authenticated), `Established` and `Rejected`; how it comes about is
`TcpclNegotiate`.  `Unused` gives every new session one record of a pool: one is
as good as another.

### TcpclMsg and TcpclNegotiate

Each codec function of `tcpv4msg.c` writes or reads the fields of one message in
order, so a message type is a *layout*, and `Encode` and `Decode` serve them all.
The widths are those of the code; an octet has `Base` values instead of 256.

`TcpclNegotiate` runs `tcpv4negotiate.c` at both ends of one connection.
`stream[e]` are the octets on their way to end `e`, `rxBuf[e]` those its receiver
has read ahead, `buf[e]` what it has of the message it is reading.
A step is what a receiver thread does from one blocking read to the next.
`Configs` are pairs of configurations; an end may also be of a kind this code has to
cope with and is not: another magic or version, a message before SESS_INIT, critical
extension items, an unknown message type.  The TLS
handshake is external and ends in one of three ways (both ends, the client only,
neither); what the certificate says is a record, and `ProfileOk`, `MatchNodeId`
and `Route` are the decisions the code takes on it.  `SecuredAsConfigured` and
`RoutedIfEntitled` say what these decisions guarantee; neither is
all that the documentation promises.  A claim under `-E none` is routed though nothing
authenticates it: `UnauthenticatedNotRouted` quotes the documentation and is violated
(section 4).  A peer with no NODE-ID that claims none either is let in under
`-E require`; that exception is spelt out in `SecuredAsConfigured`.  After SESS_INIT
the `script` of an end is a list of messages to send, and the other end cuts them out
of the stream again, segment header by segment header, with the read-ahead of
`tcpv4io.c`.

### QuicXfer and QuicEngine

`QuicXfer` is one direction of one established connection: `DoSend` puts a bundle
in the connection's send slot and waits; the I/O thread gives it to QUIC
(`WriteConn`, `WriteDatagram`); QUIC delivers each of the four priority streams
reliably and in order and datagrams in any order or not at all; the receiver
reassembles (`RecvStreamData`, `RecvDatagram`) and answers.  QUIC keeps no copy of
what was written: `Retransmit` reads the sender's buffer again, and a buffer that
has been freed meanwhile reads as garbage.

`QuicEngine` is the list of connections.  Senders claim, dial or wait; the I/O
thread brings connections up, drives, fails, reaps and removes them; BP may keep
it waiting in an acquisition (`iopc = "stalled"`); the main thread stops them.
`raced` records the one interleaving in which the I/O thread looks at `sendBusy`,
without the mutex, while a sender is claiming; `revived` that a sender which starts
late has made an ended semaphore live again.  The properties of `quic_engine` except
both, and the stalled acquisition, by name: section 4 says where each comes from.

### ZclTx, ZclRx and ZclTunnel

`ZclTx` has zclo's main thread, which compresses bundles into the open chunk, and
its flush thread, which cuts and sends carriers; the lock is let go during a send
and during the reports to BP.  `ZclRx` has zcli: per sender a reorder buffer, a
decompressor that is only good from a chunk's start, a gap that is given up after
the reorder timeout, and eviction of a stream when there are too many.
`ZclTunnel` puts a network between them that loses, repeats and reorders, and lets
zclo run a second time (a new stream) and zcli restart.

### StoreBp, MailCodec, MailCla, MysqlCla, MqttCla, StoreClas

The output daemons have one shape: a bundle in hand, a batch, a flush thread that
takes the batch and settles it.  What each does with the server is its own module.
A fault is an answer that is lost after the effect, a command that fails, a server
that goes away, or a daemon that ends.  `MailCodec` are pure functions: the framing
of `mailmsg.c` in its three encodings (base64, attachment, raw), and the
parser that finds the bundles again; a message that `MailCla` fetches goes through
them octet by octet.  Rows of mysql that belong to another node stay (`Own`).  The
mqtt broker queues for a session once it has subscribed; the client acknowledges a
message when it comes, before the daemon has asked for it.

### Bpsh

A frame is a bundle of its own, and BP may lose one, deliver one twice, or out of
order, in both directions: `TakeUp` takes a frame to the daemon and may leave it to
come again (`twice`; `again` is the history of these).  bpshd
looks at no sequence number, so a repeated frame is handled like the first one.
`Bpshd` dispatches frames to its sessions (`HandleInit`, `HandleReq`, `HandleExit`
and their error replies); while a command runs, `BpshSession` is the loop of
`bpshSessionRun`: read the pipes, send numbered output, take stdin, put other
frames off, enforce the output limit, the timeout, and the kill that a new INIT of
the same client brings.  The write of stdin to the command blocks, and with it the
loop (`Jammed`).  The command is one of five kinds that differ in what they
read, write and end on.  `BpshClient` sends INIT and lines, takes replies in
the order of their numbers, forwards stdin from a second thread, and can be
interrupted and started again.

## 3. Runs

Times are with two workers.

| Run | Instance | States | Time | Shows |
|---|---|---|---|---|
| `tx_custody` | 2 senders, 3 bundles of lengths 1, 2, 1; window of 2 transfers and 2 octets | 3 025 901 | 90 s | custody, no false success, no stranded transfer, order of the window, no use after free |
| `rx_reassembly` | 2 transfer ids, segments of 1 and 2 octets, MRUs of 1 and 2, 3 segments | 175 922 | 20 s | whole transfers only, replies in order over two threads, END acknowledged after delivery; a complete transfer is answered |
| `session` | 1 bundle of 1 segment, up to 2 transfers of it | 404 367 | 110 s | refinement of `BundleHandover`; delivery at most once per session; no bundle stays in a session for ever |
| `engine_sessions` | 1 sender, 2 node IDs, 1 peer address, 2 sessions against a limit of 1 | 353 015 | 115 s | the session limit; a claimed session is listed; every send returns, also on a session that came up and is not routable; a finished session is freed |
| `negotiation` | 164 pairs of configurations | 93 955 | 30 s | sessions are secured as TLS, profile and NODE-ID policy say; they route to the node dialled or authenticated, but for `-E none`; messages are read as sent; the ends never wait for each other |
| `quic_transfer` | 2 bundles of 3 and 1 octets, segments of 2, one packet lost; streams or datagrams | 349 555 | 55 s | what is delivered is whole; what is reported sent arrives or the connection fails; sends return; each but for the exceptions it names |
| `quic_engine` | 2 senders to one neighbour, 2 connections | 121 984 | 50 s | nothing held is freed, every bundle is settled, failed connections are freed, the daemon ends: each but for the exceptions it names |
| `zcl_tunnel` | 2 bundles, chunks of 2, 4 carriers, 2 runs of zclo, room for 1 stream and 2 buffered carriers | 169 012 | 70 s | one report per bundle; records in order and once; chunks decoded from their start; the buffer empties if idle seconds keep coming; zclo ends with all settled |
| `stores` | 2 bundles, batch of 2, 1 fault, 2 messages or rows; all three protocols and encodings | 489 414 | 90 s | what BP may forget is in the store or acquired; a bundle is in one place; what is stored is acquired; a daemon told to end ends, having reported all |
| `bpsh` | a REPL run twice with a fault or a repeat; a REPL and a one-shot; a client that feeds 4 chunks of stdin over pipes of 1 to commands that write, read and hang, with SIGTERM | 537 831 | 180 s | EXIT comes after all output; a waiting client is answered; bpshd ends when told: each but in a write of stdin that is jammed |

Two more runs expect a violation.  Their property is what the documentation or a
comment says, and TLC finds the program breaking it within seconds (section 4).

| Run | Instance | Violates |
|---|---|---|
| `engine_freed` | that of `engine_sessions`, limit of 2 | `FreedIsLetGo` |
| `neg_route` | that of `negotiation` | `UnauthenticatedNotRouted` |

### Bounds

*tcpv4.* Two bundles are the least for which an acknowledgment may name the
wrong transfer or a transfer be queued behind another.  In `tx_custody` the two
bundles of length 1 fill the window together, and the one of length 2 fills it
alone: two transfers are outstanding at a time, the limits on transfers and on
octets both bind, and an acknowledgment can be partial.  `MaxTransfers` and
`MaxSegments` bound counters that would grow for ever; they leave room for a
bundle that was given back to BP to be sent again.  Three segments are a transfer
of two and the start of the next, or three transfers, which use both buffers and
the first of them again; with a segment MRU of 1 and a transfer MRU of 2 a
segment can be too long, and so can a transfer of segments that are not.
In `session` one bundle is sent and, if it was refused or given back, sent again over
the same session.  It is of one segment, which leaves room for the liveness property in
the same run: how a transfer of several segments is written, cut and put together is
the question of `tx_custody` and `rx_reassembly`, and `SessionKeepsPromise` and
`SessionDeliversOnce` (section 5) are proved for transfers of any length.  `Conns` is a pool of session
records each used once; two are enough for two nodes dialling each other and for a
connection beyond a limit of 1.

*negotiation.* The pairs are not a full product: each family varies what the code
looks at together (the TLS policies of both ends; node ID policy, verification,
claim and certificate; key usage profile; peers of another kind; messages after
SESS_INIT) against one common configuration.  `RxBufSize` and `Direct` are small
enough that a message straddles the read-ahead buffer.

*quic.* A bundle of 3 octets is two segments, the other is one; different
priorities put them on different streams.  One lost packet is enough for a
retransmission after the sender has got its answer, and for a datagram transfer
that never completes.

*zcl.* Four carriers over two streams are a gap, something behind it, and a late
arrival after the gap was given up; room for one stream forces an eviction.

*stores.* One fault, wherever it strikes; two messages are a digest and a repeat of
it after a lost answer.  The body `<<251>>` needs padding and a sextet of the last
alphabet rows; the other is longer than a base64 quantum's remainder.

*bpsh.* Pipes of one chunk and output blocks of one make the command, the daemon's
write of stdin and the output block in turn.  Four chunks of stdin are the least that
fill both pipes of a command that copies its input, with the daemon in a write and
more to come.  One fault may hit a REPL anywhere, a bundle lost, a bundle repeated or
the signal being some of them; with two clients none is added, as the interplay of the
two is the question.  For the client that feeds its command the one fault is the signal,
which may come while the command is being served.

`CHECK_DEADLOCK` is off where sessions, daemons or pools end; that nobody waits
for ever is what the liveness properties say.  In `negotiation` and
`neg_route` it is on.

### Fairness

Threads and processes are scheduled: their own steps are weakly fair.

- *tcpv4 sessions.* Nothing is assumed of the peer or of when BP has a bundle to
  send, and a session need not fail.  Socket writes, on a live connection too, and
  BP's acquisition of a bundle are assumed to end: the steps of the transmit and
  delivery threads are weakly fair.  The code sets no send timeout, so a peer that
  stops reading can hold a writer for as long as TCP keeps the connection; that hazard
  (`tcpv4io.c:327`) is outside of the model, and `session` and `rx_reassembly` show
  liveness for peers that go on reading.  Strong fairness: a receiver whose
  socket was shut down may first work through its read-ahead buffer, which is
  finite (`RecvLeaveLoop`, `RxLeaveLoop`); a sender's wait for a session has an
  absolute deadline, which being woken does not postpone (`WaitTimedOut`).
- *negotiation.* A receiver reads what has arrived and sends what it has to send; a
  handshake both have begun ends.  No timeout is used.  `CanStep` is the enabling
  condition of an end's steps spelt out, in place of a `WF` whose `ENABLED` TLC
  would take too long to compute.
- *quic.* I/O threads and senders run; QUIC delivers streams and retransmits.
  Datagrams are not fair.  The I/O thread is not fair while BP stalls it.
- *zcl.* zcli's `bp_receive` returns, with a carrier or after a second without any
  (`Receives`, weakly fair), and time passes (`Elapse`, strongly: arrivals do not
  stop the clock).  `zclRxTick` runs only after an idle second, as `continue`
  (`zcli.c:321`) skips it after a carrier; so it is not fair, and carriers of one
  stream can keep a gap of another open.  `BufferEmpties` has that idle
  seconds keep coming (`IdleSeconds`) as its hypothesis.
- *stores.* Daemons run, a server that went away comes back, the broker delivers.
  A poll may fail, but faults are finite in number.
- *bpsh.* The daemon, the command (if it has anything to do) and the client's
  threads run, and the command timeout fires if it is set; a user need not type.
  Nothing is assumed of a daemon in a blocked write: `AnswersCome` and `QuitEnds`
  name that state (`Jammed`) as the one that excuses them.

## 4. Findings

Two runs show the code doing what a comment or the documentation excludes;
`PROJECT.json` quotes the words.

- *A session freed too early* (`engine_freed`).  A session whose receiver ends at once
  can be reaped, unjoined, before `startConn` has recorded that it has a receiver
  thread (`tcpv4session.c:305`, against the comment at line 31).
- *A claim routed unauthenticated* (`neg_route`).  `-E none` routes an accepted session
  on the node ID its peer claims (`tcpv4negotiate.c:300`).  A comment there calls that
  the trade; `CLA/tcpv4/README.md:154` says "independently of the policy" never.
  `RoutedIfEntitled` therefore promises nothing of a claim under `-E none`.

The following are in the models too, and the passing runs hold with all of them
present.  None has a run of its own.  Where a property would be false because of one,
it excepts it by a history variable or a state, given here in brackets: what the run
shows is that there is no other way to fail, and *not* that the code is free of it.

- *NODE-ID policy.*  `-E require` lets in a peer with no NODE-ID in its certificate if
  it claims no node ID either (`tcpv4negotiate.c:214`; `SecuredAsConfigured` asks for a
  NODE-ID only of a peer that claims one).  A mismatch does not end a session under
  `-E none`, where `tcpv4cla.pod:115` has it "under every policy".
- *One reassembly buffer* for the streams of a connection (`quicsession.c:772`), and
  *freed octets sent again* (line 2272) (`spoilt`).
- *Datagrams without memory* are never answered (`quicsession.c:2163`; `starved`).
- *The end of quiccla*: a connection freed under its sender (`quicsession.c:1927`;
  `raced`), an acquisition unblocked too late (`quiccla.c:459`; `stalled`), an ended
  semaphore live again (`quiccla.c:118`; `revived`).
- *A gap that is never given up* while carriers keep coming (`zcli.c:321`; the
  hypothesis `IdleSeconds`).
- *A digest freed unreported* (`mailclo.c:212`; `stranded`).
- *Not subscribed* (`mqttcli.c:90`), and *acknowledged before it is acquired*
  (`mqttcli.c:125`; `gone`).
- *Repeated bundles to bpshd*: a command run twice, whose second EXIT answers the next
  line (`bpshd.c:407`), and a live session's numbers started again (`bpshd.c:373`), both
  `CameAgain`.
- *stdin of a remote command*: put in out of order or twice (`bpshd_session.c:446`; no
  property depends on it), and a blocking write that outlives the command's timeout and
  the signal, also with a command that reads (line 450; `Jammed`).

`SentArrives` also lets a bundle that was reported sent go with a connection that
fails, as the interface promises only that QUIC has it (`quicsession.h:42`).

The models show other places where the code does not do what a reader might take
from its comments, without harm to a property:

- tcpv4: the idle timer's SESS_TERM can be followed by the START of a transfer,
  because the transmit thread looks at `txStopped` before it takes a transfer and
  not again (`tcpv4session.c:621`).
- tcpv4: a transfer refused half way is abandoned without an END segment, and the
  receiver takes the next START for an interleaved transfer (`tcpv4rx.c:276`).
- tcpv4: a SESS_TERM exchange ends the session while the delivery thread still
  holds a transfer (`tcpv4rx.c:711`).  None of these three loses a bundle:
  `session` holds with them.
- tcpv4: two outducts to one neighbour can both dial it (`tcpv4session.c:885`).
- zcl: a gap given up skips a chunk that was only late.
- mysql: rows are selected by `src_eid`, where `CLA/mysql/README.md:5` says
  that a node picks up the bundles addressed to it.

## 5. Proofs

Every theorem holds for all values of the constants that the assumptions of its
module allow: any bundles (in the stores, finitely many), segments and lengths, any
finite set of senders, any window, MRUs and limits, any peer and network.

| Theorem | States | Inductive invariant |
|---|---|---|
| `TypeCorrect` | `TypeOK` of `TcpclTx` | `TypeInv` |
| `SessionOutlivesThreads` | `NoUseAfterFree` | `TypeInv`, `LifeInv` |
| `WindowRespected` | `WindowBounded` | itself, with `TypeInv` |
| `CustodyKept` | `Custody` | itself, with `TypeInv` |
| `CountIsLists` | `CountAgrees` | itself, with `Base` |
| `XmitKeepsItsTransfer`, `WindowOrdered`, `NothingStranded` | `XmitHoldsTail`, `WindowInOrder`, `NoStranded` | `WindowInv`, with `Base` |
| `SentMeansWritten` | `SentWasWritten` | `WrittenInv`, with `WindowInv` and `Base` |
| `RxTypeCorrect`, `RxDeliveredIntact`, `RxRepliesInOrder`, `RxEndAckMeansDelivered` | `RxTypeOK`, `DeliveredIntact`, `RepliesInOrder`, `EndAckMeansDelivered` | `RxInv` (`RxInvariant`) |
| `SessionKeepsPromise` | `HandoverSpec`: `TcpclSession` implements `BundleHandover` | `HandoverInv` (`HandoverInvAlways`) |
| `SessionDeliversOnce` | `DeliveredOnce` | `OnceInv`, that is `HandoverInv`, `AcksGrow` and `FateOK` |
| `EngineTypeCorrect`, `EngineClaimedIsListed`, `EngineClaimsCounted`, `EngineSessionsBounded` | `TypeOK` of `TcpclEngine`, `ClaimedIsListed`, `ClaimsOK`, `SessionsBounded` | `EngineInv` (`EngineInvariant`) |
| `QuicHeldIsNotFreed` | `HeldIsNotFreed` | `QuicInv` |
| `QuicDeliversIntact` | `XferIntact` | `XferInv` |
| `ZclCustodyHolds`, `ZclInOrderOnce`, `ZclDecodedFromStart` | `ZclCustody`, `InOrderOnce`, `DecodedFromStart` | `TunnelInv` (`TunnelInvariant`) |
| `StoreOutIsInOnePlace` | `OutIsInOnePlace` | `StoreInv` (`StoreInvariant`) |
| `StoreKeepsUntilAcquired` | `KeptUntilAcquired`; for mail, if `MailFaithful` | `StoreInv` and `KeptInv` |

### Transmit side

*Types.* `TypeOK` alone is not inductive: what a thread puts on a list is a bundle
only because the thread holds one at that point.  `HandsOK` says so, and
`TypeInv` is the two together.

*Life.* That `reapConns` is safe rests on two facts kept by different threads:
`txSenders` counts the senders that hold the session (`SendersCounted`), and the
receiver joins the transmit thread and marks the session failed before it declares
itself done (`JoinedBeforeDone`).  After that no sender can claim the session,
so a count of zero stays zero.

*Custody.* One holder per bundle is inductive once the types are known, because
each step moves a bundle from one holder to the next.  The proof treats the moves
between lists, which are sequences, with lemmas on removing one element from a
sequence without repetitions.

*Window.* The transmit thread uses its transfer without the lock.  This is safe
because that transfer is the last of the window and the only one in flight, and
the receiver retires only transfers that are not in flight.  Neither statement
is inductive without the other, nor without the order of the window.

*Success.* A transfer leaves the transmit thread either written to its END or
marked refused (`WriterInv`), so a transfer that is acknowledged and not refused
when it is retired was written (`OutcomeInv`).  An acknowledgment that overtakes
the write does not break this, because the retirement waits for the write.

### Receive side

`RxInv` follows a transfer through the two threads.  `FillOK`: the buffer the
receiver fills holds the octets it has counted, all of the current transfer.
`HandoffOK`: while a hand-off is pending the other buffer holds the whole of the
transfer handed over.  `ReceiverOK`: the receiver is ahead of the delivery thread.
`RepliesOK`: of the transfer being received, and of the one handed over and not
answered, nothing has been said but that octets of it have come (`Unanswered`).
From these the replies are in order although two threads write them; that an END is
acknowledged only after BP took the transfer needs `DeliveriesOK`, which ties the
delivery thread's place to what was delivered.

### Session

The invariants of the two sides hold whatever the peer says: `TxInvStep` and
`RxInvStep` are about `AnyNext` and `AnyRxNext`, in which messages carry any id and
any length, and `SessIsTx`, `SessIsRx` show that every step of the session is such a
step of each node (or one of a node that only reads).  What remains is how the nodes
and the wire fit together.

*The promise.* BP of A lets a bundle go when its transfer was acknowledged to its
whole length; that BP of B then has this bundle takes a chain of facts.  `XfersOK`:
the window holds the latest transfer of each of its bundles.  `SegmentsOK` and
`NoGap`: what B has read, what is on the wire, and what A writes next are one
sequence of octets without gap or repetition, as long as B reads and no write has
failed.  So B counts transfers as A numbers them and takes for the END what is one
(`ReceivedOK`), what it has delivered is a whole bundle, and an acknowledgment of the
whole length is that of the END (`AnswersOK`), which B sends after delivery
(`EndAckMeansDelivered`).  Hence `AckedOK`: what A knows to be acknowledged, B's BP
has.  Each step of the session is then a step of `BundleHandover` or a stutter
(`HandoverStep`).

*At most once.* A bundle goes over the session again only after A has given up on an
earlier transfer of it.  `FateOK` says what is then true of the earlier one: every
transfer is the latest of its bundle and not given up, or B has not delivered it and
never will (`NeverDelivered`: B has refused it, or is past it, or A failed in the
middle of writing it and its END is not on the wire).  A gives up for three reasons.
A refusal, which B sends only for what it will not deliver.  A write that failed,
after which the END does not come.  An acknowledgment that makes no sense; that B
never sends one is `AcksGrow`: the lengths on their way to A, and those B is about to
say, grow strictly above what A has heard, although the receiver and the delivery
thread both send them.  The drain gives up on everything, but after it nothing is
begun.

### Engine

Sessions leave the list only in `reapConns`, and only if their receiver is done and
`txSenders` is 0.  `ClaimsOK` (the count is the number of senders that hold the
session) makes that safe for claims.  `SessionsBounded` needs `BusyOK` and
`AdmittedOK`: the accept thread has found room before it lets go of the lock, and
the session it will insert is counted from then on; no other thread adds a session
of this kind.  A session beyond the limit is marked busy before it is listed and
never becomes established.

### quic

*Connections.* `PoolInv`: what a sender holds is on the list, busy, and its alone (`PinsOK`); what
the I/O thread is about to remove is on the list and not busy (`ReapOK`); senders
have ended before the engine is stopped (`StopOK`).  The theorem keeps the
exception of the property: `raced` is set by the one interleaving in which the slot
is claimed while the I/O thread, without the mutex, looks at it, and `QuicInv` says
that `PoolInv` holds until then.

*Bundles on a connection.* On priority streams the receiver cannot tell where a
message begins but by counting: a header says how many octets follow, and what comes
after them is taken for a header.  `XferInv` says where the receiver is: `n` octets
into segment `i` of transfer `tx`, or between transfers (`FlowOK`).  What each stream
still has to bring (`Pipe`: what QUIC holds, and then what it has not taken from the
sender's buffer) must fit that place (`Fits`): the first octet is the one the receiver
waits for, each is followed by the next of its transfer, the last of a transfer by the
first of another, and no stream ends within a transfer.  An octet that QUIC takes or
loses, or sends again while the sender still has the buffer, leaves `Pipe` as it was;
`DoSend` puts a whole transfer behind it, which is what `FramedFacts` says of
`frameBundle`; a transfer on one stream does not touch what fits on the others
(`OtherFits`).  `FlowOK` is
promised only while nothing is spoilt and the connection stands: an octet of a second
transfer in between, or one from a freed buffer, breaks the count.  With datagrams, `DatagramsOK` says that the octets of the segments seen
are in place, that as many were seen as are counted, and that the segments of a
bundle cover it (`SegmentsCover`), whatever was lost, came late or found no memory.

### zcl

`TxInv` counts the places of each bundle (`ZclCustody`), with where the two threads
are (`TxHandsOK`): the list of bundles to settle and the compressor's output fill
and empty together, so that nothing is listed when the flush thread has exited and
the main thread frees the list.  `RxInv` is about one stream and what it has
emitted (`StreamOK`): the stream has passed every record emitted (`Passed`), and
all that is buffered is still to come (`BufferOK`).  With that, a carrier that is
late, repeated, or of a chunk that was given up is recognised as stale, and what
is decoded goes behind what was emitted.  `fed = next` while synced makes every
decoded carrier sound.  Nothing is assumed of the network: the invariant says only
that what arrives is some carrier, and an arrival may be of any age.

### Stores

`StoreInv` counts the places of a bundle in the output daemon.  `ThreadsOK` ties
hand, batch and list to the places of the two threads, and is what keeps a batch
from being overwritten by the next; `StrandedOK` keeps a bundle the daemon freed
unreported from being dequeued again.

`KeptUntilAcquired` needs what each input daemon is in the middle of (`KeptInv`).
`ReportOK` says it of what will be reported sent as well: when `ok` is set, the batch
is in the store already.  mysql: a row listed for the DELETE has been injected, and
ids are not given twice (`SqlOK`).  mqtt: taking a message off the broker's queue
puts it into the client's, and off that into BP or into `gone`.  mail: of the message
being looked at, a bundle not yet injected is among the bodies still to come; a
message marked for deletion has none left (`MailOK`).  That all bundles of a message
are among the bodies found in it at the start is `MailFaithful`, a statement about
`mailBuildMessage` and `mailParseMessage` alone.  It is true or not of given bundles,
encodings and batches (with encoding `raw` a bundle may contain the separator, and
then it is false), so the theorem has it as a hypothesis for mail, and the run
`stores` evaluates it for its own bundles and modes (`FaithfulAssumption`).  A batch is
a message `MailFaithful` speaks of because no bundle is in it twice, which is
`OutIsInOnePlace`.

### How the proofs are laid out

Each inductive invariant was first checked by TLC on the instance of the
component's run.  Induction over data, where a proof needs it, is by the least
counterexample: `LeastNat` (a non-empty set of naturals has a least element)
follows from the well-foundedness of the naturals and takes no operator.  So is
proved what `Without` leaves of a list, that a reorder buffer has a first carrier,
and that a finite set of places has a last one.

`TypeOK` of `TcpclTx` and of `TcpclEngine`, `RxTypeOK`, `WindowBounded`,
`CountAgrees` and `ClaimsOK` are proved and no run checks them by name: the proofs
cover every instance.  The assumptions are those the modules state on their
constants; TLC evaluates them in every run.

**Only model-checked.** Liveness under fairness, which is out of the prover's reach; the
properties of `TcpclNegotiate` and `BpshShell`; and `MailFaithful`.  `TcpclMsg`
and `MailCodec` compute by recursive functions and folds over octets; what they return
for every input is checked on the messages of the runs.

## 6. Not modelled, and the plan

Not modelled:

- The clock thread's keepalives, and writes that block under `sendMutex` because
  the peer has stopped reading: the code sets no send timeout, so that nothing but
  TCP bounds the wait, and a model would only restate that.
- `tcpv4EngineStop`, the plan scan of the tcpv4 daemon (`scanPlans`,
  `ensureNeighbor`), the array limit of `clockTick` (`tcpv4session.c:540`), an
  outduct closed and opened again (`tcpv4cla.c:395`).
- Argument and address parsing, TLS back ends, X.509 parsing, sockets, logging:
  no protocol state.
- `bpcmd`: a sequential loop without state between requests.  `bptun`: two
  threads that copy packets and share nothing that changes.
- `linkimpair`, a test tool, and the vendored headers of ION.

Theorems to add next, most important first: `SecuredAsConfigured` and
`RoutedIfEntitled` of `TcpclNegotiate`; `ExitAfterAllOutput` of `BpshShell`.
