------------------------------ MODULE QuicEngine ------------------------------
(***************************************************************************)
(* The connections of one quic engine and the threads around them: the     *)
(* sender threads (one per outduct, quiccla.c), the I/O thread that alone  *)
(* drives and removes connections, and the main thread that stops them.    *)
(* s->mutex guards the list, but the I/O thread marks a connection failed  *)
(* and looks at sendBusy without it, and BP can keep that thread waiting   *)
(* while it acquires a bundle.  One action is one critical section of the  *)
(* mutex or one step of the I/O thread.  What a connection carries is      *)
(* QuicXfer.                                                               *)
(***************************************************************************)
EXTENDS Integers, SequencesExt

CONSTANTS
    Nodes,
    NoNode,    \* peerNode before SESS_INIT, or of a node ID that is no ipn EID
    Peers,     \* what peers may announce: nodes, or NoNode
    Senders,
    Target,    \* Target[s]: nb->nodeNbr
    MaxConns   \* bound: connections in all; each record is used once

ASSUME QuicEngineAssumption ==
    /\ NoNode \notin Nodes /\ Peers \subseteq Nodes \cup {NoNode}
    /\ Target \in [Senders -> Nodes]
    /\ MaxConns \in Nat

VARIABLES
    conns,    \* s->conns, newest first
    conn,     \* conn[c]: the fields of QuicConn
    slot,     \* slot[c]: sendData and sendDone
    freed,    \* connections freeConn has released
    spc,      \* spc[s]: where sender s is
    sConn,    \* sConn[s]: the connection it has claimed or dials
    dialed,   \* dialed[s]
    sem,      \* sem[s]: semaphore of its outduct
    iopc,     \* where the I/O thread is
    ioConn,   \* the connection it is about to remove
    mpc,      \* where the main thread is
    running,  \* s->running
    revived,  \* history: a semaphore that had ended was made live again
    raced     \* history: a connection was claimed after the reaper had chosen it

poolVars == <<conns, conn, slot, freed>>
sendVars == <<spc, sConn, dialed, sem>>
ioVars   == <<iopc, ioConn>>
engVars  == <<poolVars, sendVars, ioVars, mpc, running, revived, raced>>

Conns == 1 .. MaxConns
NoConn == 0

\* role: client, server; phase: new, init (sessInitSent), open (dataStreamsOpen);
\* sess: connecting, established, ending.
Fresh == [role |-> "none", phase |-> "new", sess |-> "connecting", peer |-> NoNode,
          failed |-> FALSE, busy |-> FALSE]

\* quicEngineStart.
QuicEngineInit ==
    /\ conns = <<>> /\ conn = [c \in Conns |-> Fresh]
    /\ slot = [c \in Conns |-> "none"] /\ freed = {}
    /\ spc = [s \in Senders |-> "none"]
    /\ sConn = [s \in Senders |-> NoConn]
    /\ dialed = [s \in Senders |-> FALSE]
    /\ sem = [s \in Senders |-> "live"]
    /\ iopc = "poll" /\ ioConn = NoConn
    /\ mpc = "run" /\ running = TRUE
    /\ revived = FALSE /\ raced = FALSE

Listed == Range(conns)
Unused(c) == conn[c].role = "none" /\ \A d \in 1 .. c - 1 : conn[d].role # "none"

\* Of a failed connection only sendBusy matters, of a freed one nothing.
Failed(c) == [Fresh EXCEPT !.role = "any", !.failed = TRUE, !.busy = conn[c].busy]
Gone == [Fresh EXCEPT !.role = "freed", !.failed = TRUE]
At(s, pc) == spc' = [spc EXCEPT ![s] = pc]

\* bpHandleXmitSuccess and bpHandleXmitFailure; the sender's loop then goes on, or
\* ends on a semaphore that has.
LoopsOn(s) ==
    /\ At(s, IF sem[s] = "ended" THEN "ended" ELSE "idle")
    /\ dialed' = [dialed EXCEPT ![s] = FALSE]
XmitSuccess(s) == LoopsOn(s)
XmitFailure(s) == LoopsOn(s)

-----------------------------------------------------------------------------
(* Sender threads: senderThread and quicEngineSendTo. *)

\* scanPlans, ensureNeighbor: the main thread has found the outduct.
EnsureNeighbor(s) ==
    /\ mpc = "run" /\ spc[s] = "none"
    /\ At(s, "starting")
    /\ UNCHANGED <<poolVars, sConn, dialed, sem, ioVars, mpc, running, revived, raced>>

\* The thread begins, and makes the semaphore of its outduct live.
SenderStarts(s) ==
    /\ spc[s] = "starting"
    /\ At(s, "idle")
    /\ sem' = [sem EXCEPT ![s] = "live"]
    /\ revived' = (revived \/ sem[s] = "ended")
    /\ UNCHANGED <<poolVars, sConn, dialed, ioVars, mpc, running, raced>>

\* bpDequeue gives a bundle.
SenderDequeues(s) ==
    /\ spc[s] = "idle" /\ sem[s] = "live"
    /\ At(s, "seek")
    /\ UNCHANGED <<poolVars, sConn, dialed, sem, ioVars, mpc, running,
                   revived, raced>>

\* bpDequeue says that the outduct is closed.
SenderEnds(s) ==
    /\ spc[s] = "idle" /\ sem[s] = "ended"
    /\ At(s, "ended")
    /\ UNCHANGED <<poolVars, sConn, dialed, sem, ioVars, mpc, running,
                   revived, raced>>

\* claimReadyConn: live connections to a node, and the places in the list of those
\* to use, which are the ready ones this node opened, if there are any: the first.
Exists(n) == {c \in Listed : ~conn[c].failed /\ conn[c].peer = n}
Ready(c) ==
    conn[c].sess = "established" /\ conn[c].phase = "open" /\ ~conn[c].busy
Candidates(n) ==
    LET ready  == {i \in DOMAIN conns : conns[i] \in Exists(n) /\ Ready(conns[i])}
        opened == {i \in ready : conn[conns[i]].role = "client"}
    IN IF opened # {} THEN opened ELSE ready

\* It is pinned, and doSend or quicClientSendDatagram gives the bundle to the I/O
\* thread.
Claim(s) ==
    /\ spc[s] = "seek" /\ Candidates(Target[s]) # {}
    /\ LET c == conns[Min(Candidates(Target[s]))] IN
          /\ conn' = [conn EXCEPT ![c].busy = TRUE]
          /\ slot' = [slot EXCEPT ![c] = "set"]
          /\ sConn' = [sConn EXCEPT ![s] = c]
          /\ raced' = (raced \/ (iopc = "reap" /\ ioConn = c))
    /\ At(s, "wait")
    /\ dialed' = [dialed EXCEPT ![s] = FALSE]  \* not looked at any more
    /\ UNCHANGED <<conns, freed, sem, ioVars, mpc, running, revived>>

\* There is none, and none is coming up: the sender dials, once.
NoClaim(s) ==
    /\ spc[s] = "seek" /\ Exists(Target[s]) = {}
    /\ IF dialed[s] THEN XmitFailure(s) ELSE At(s, "dial") /\ UNCHANGED dialed
    /\ UNCHANGED <<poolVars, sConn, sem, ioVars, mpc, running, revived, raced>>

\* One exists, and in all the turns the sender waited it was not ready.
WaitedEnough(s) ==
    /\ spc[s] = "seek"
    /\ Exists(Target[s]) # {} /\ Candidates(Target[s]) = {}
    /\ XmitFailure(s)
    /\ UNCHANGED <<poolVars, sConn, sem, ioVars, mpc, running, revived, raced>>

\* quicEngineConnect: published, pinned, or not even set up.
Connect(s) ==
    /\ spc[s] = "dial"
    /\ \/ \E c \in Conns :
             /\ Unused(c)
             /\ conn' = [conn EXCEPT ![c].role = "client", ![c].busy = TRUE]
             /\ conns' = <<c>> \o conns
             /\ sConn' = [sConn EXCEPT ![s] = c]
             /\ At(s, "connect")
             /\ UNCHANGED dialed
       \/ XmitFailure(s) /\ UNCHANGED <<conns, conn, sConn>>
    /\ UNCHANGED <<slot, freed, sem, ioVars, mpc, running, revived,
                   raced>>

\* Mutant of ConnectReturns: a connection that did not establish stays pinned.
ConnectReturnsPinned(s) ==
    /\ spc[s] = "connect"
    /\ LET c == sConn[s]
           up == conn[c].sess = "established" /\ conn[c].phase = "open"
                 /\ ~conn[c].failed
       IN /\ conn' = [conn EXCEPT ![c].busy = ~up]
          /\ \/ up /\ At(s, "seek") /\ dialed' = [dialed EXCEPT ![s] = TRUE]
             \/ ~up /\ XmitFailure(s)
    /\ sConn' = [sConn EXCEPT ![s] = NoConn]
    /\ UNCHANGED <<conns, slot, freed, sem, ioVars, mpc, running, revived,
                   raced>>

\* It is established, has failed, or has not come up in time: then it is left to
\* itself, not marked failed.
ConnectReturns(s) ==
    /\ spc[s] = "connect"
    /\ LET c == sConn[s]
           up == conn[c].sess = "established" /\ conn[c].phase = "open"
                 /\ ~conn[c].failed
       IN /\ conn' = [conn EXCEPT ![c].busy = FALSE]
          /\ \/ up /\ At(s, "seek") /\ dialed' = [dialed EXCEPT ![s] = TRUE]
             \/ ~up /\ XmitFailure(s)
    /\ sConn' = [sConn EXCEPT ![s] = NoConn]
    /\ UNCHANGED <<conns, slot, freed, sem, ioVars, mpc, running, revived,
                   raced>>

\* The I/O thread has answered; the connection is unpinned.  (Nothing is said of
\* what a sender does with one that has been freed.)
DoSendReturns(s) ==
    /\ spc[s] = "wait" /\ sConn[s] \notin freed
    /\ LET c == sConn[s] IN
          /\ slot[c] = "done" \/ conn[c].failed
          /\ slot' = [slot EXCEPT ![c] = "none"]
          /\ conn' = [conn EXCEPT ![c].busy = FALSE]
          /\ IF conn[c].failed THEN XmitFailure(s) ELSE XmitSuccess(s)
    /\ sConn' = [sConn EXCEPT ![s] = NoConn]
    /\ UNCHANGED <<conns, freed, sem, ioVars, mpc, running, revived,
                   raced>>

-----------------------------------------------------------------------------
(* The I/O thread: engineIo.  It works while it is polling. *)

Live(c) == c \in Listed /\ ~conn[c].failed

\* serverFeedPacket, acceptConn: an Initial packet of no known connection.
AcceptConn(c) ==
    /\ iopc = "poll" /\ Unused(c)
    /\ conn' = [conn EXCEPT ![c].role = "server"]
    /\ conns' = <<c>> \o conns
    /\ UNCHANGED <<slot, freed, sendVars, ioVars, mpc, running, revived, raced>>

\* handshakeDoneCb, perConnBringup: a client sends SESS_INIT and opens its data
\* streams.
HandshakeDone(c) ==
    /\ iopc = "poll" /\ Live(c)
    /\ conn[c].role = "client" /\ conn[c].phase = "new"
    /\ conn' = [conn EXCEPT ![c].phase = "open"]
    /\ UNCHANGED <<conns, slot, freed, sendVars, ioVars, mpc, running, revived,
                   raced>>

\* perConnBringup: a server that has answered SESS_INIT opens its own.
PerConnBringup(c) ==
    /\ iopc = "poll" /\ Live(c) /\ conn[c].phase = "init"
    /\ conn' = [conn EXCEPT ![c].phase = "open"]
    /\ UNCHANGED <<conns, slot, freed, sendVars, ioVars, mpc, running, revived,
                   raced>>

\* handleSessInit: the session is established; the server answers.
HandleSessInit(c) ==
    /\ iopc = "poll" /\ Live(c) /\ conn[c].sess = "connecting"
    /\ conn[c].role = "client" => conn[c].phase = "open"
    /\ \E n \in Peers :
          conn' = [conn EXCEPT
                      ![c].sess = "established", ![c].peer = n,
                      ![c].phase = IF conn[c].role = "server" THEN "init" ELSE "open"]
    /\ UNCHANGED <<conns, slot, freed, sendVars, ioVars, mpc, running, revived,
                   raced>>

\* sessParseSig: SESS_TERM; the connection stays until QUIC times it out.
HandleSessTerm(c) ==
    /\ iopc = "poll" /\ Live(c) /\ conn[c].sess = "established"
    /\ conn' = [conn EXCEPT ![c].sess = "ending"]
    /\ UNCHANGED <<conns, slot, freed, sendVars, ioVars, mpc, running, revived,
                   raced>>

Acquiring(c) == Live(c) /\ conn[c].sess # "connecting"

\* acquireBundle: BP has no space for a bundle, and keeps the I/O thread waiting.
AcquireStalls(c) ==
    /\ iopc = "poll" /\ Acquiring(c)
    /\ iopc' = "stalled" /\ UNCHANGED ioConn
    /\ UNCHANGED <<poolVars, sendVars, mpc, running, revived, raced>>

\* There is space again, or the attendant is paused and the acquisition fails.
AcquireGoesOn ==
    /\ iopc = "stalled"
    /\ iopc' = "poll"
    /\ UNCHANGED <<poolVars, sendVars, ioConn, mpc, running, revived, raced>>
AcquireCancelled ==
    /\ iopc = "stalled" /\ mpc \in {"stop", "ended"}
    /\ \E c \in Conns : Acquiring(c) /\ conn' = [conn EXCEPT ![c] = Failed(c)]
    /\ iopc' = "poll"
    /\ UNCHANGED <<conns, slot, freed, sendVars, ioConn, mpc, running, revived,
                   raced>>

\* writeConn, writeDatagrams, engineWakeWaiters: all octets are with QUIC.
ServiceConns(c) ==
    /\ iopc = "poll" /\ Live(c) /\ slot[c] = "set"
    /\ slot' = [slot EXCEPT ![c] = "done"]
    /\ UNCHANGED <<conns, conn, freed, sendVars, ioVars, mpc, running, revived,
                   raced>>

\* An idle timeout, a fatal packet, no socket, no stream, no memory: without lock.
ConnFails(c) ==
    /\ iopc = "poll" /\ Live(c)
    /\ conn' = [conn EXCEPT ![c] = Failed(c)]
    /\ UNCHANGED <<conns, slot, freed, sendVars, ioVars, mpc, running, revived,
                   raced>>

\* Mutant of ReapCheck: held or not.
ReapCheckHeld(c) ==
    /\ iopc = "poll" /\ c \in Listed /\ conn[c].failed
    /\ iopc' = "reap" /\ ioConn' = c
    /\ UNCHANGED <<poolVars, sendVars, mpc, running, revived, raced>>

\* A failed connection nobody holds is chosen...
ReapCheck(c) ==
    /\ iopc = "poll" /\ c \in Listed /\ conn[c].failed /\ ~conn[c].busy
    /\ iopc' = "reap" /\ ioConn' = c
    /\ UNCHANGED <<poolVars, sendVars, mpc, running, revived, raced>>

\* ...as is one that fails now (ngtcp2_conn_handle_expiry): without the lock, so
\* that a sender in claimReadyConn may still see it as it was...
ExpiryCheck(c) ==
    /\ iopc = "poll" /\ Live(c) /\ ~conn[c].busy
    /\ iopc' = "reap" /\ ioConn' = c
    /\ UNCHANGED <<poolVars, sendVars, mpc, running, revived, raced>>

\* ...unlinked under the lock, and freed.
RemoveConn ==
    /\ iopc = "reap"
    /\ \E i \in DOMAIN conns : conns[i] = ioConn /\ conns' = RemoveAt(conns, i)
    /\ freed' = freed \cup {ioConn}
    /\ conn' = [conn EXCEPT ![ioConn] = Gone]
    /\ iopc' = "poll" /\ ioConn' = NoConn
    /\ UNCHANGED <<slot, sendVars, mpc, running, revived, raced>>

\* Mutant of IoExits: the connections are not marked failed.
IoExitsQuietly ==
    /\ iopc = "poll"
    /\ iopc' = "exited"
    /\ UNCHANGED <<poolVars, sendVars, ioConn, mpc, running, revived, raced>>

\* The thread is told to end, or poll fails: SESS_TERM on established sessions,
\* and every connection has failed.
IoExits ==
    /\ iopc = "poll"
    /\ conn' = [c \in Conns |-> IF c \in Listed THEN Failed(c) ELSE conn[c]]
    /\ iopc' = "exited"
    /\ UNCHANGED <<conns, slot, freed, sendVars, ioConn, mpc, running,
                   revived, raced>>
IoToldToEnd == ~running /\ IoExits
PollFails == running /\ IoExits

-----------------------------------------------------------------------------
(* The main thread: end of main, and quicEngineStop. *)

\* SIGTERM: the semaphores of all outducts end.
EndSenders ==
    /\ mpc = "run"
    /\ mpc' = "join"
    /\ sem' = [s \in Senders |-> IF spc[s] = "none" THEN sem[s] ELSE "ended"]
    /\ UNCHANGED <<poolVars, spc, sConn, dialed, ioVars, running, revived,
                   raced>>

\* Mutant of SendersJoined: the I/O thread is not told to end.
SendersJoinedOnly ==
    /\ mpc = "join" /\ \A s \in Senders : spc[s] \in {"none", "ended"}
    /\ mpc' = "stop"
    /\ UNCHANGED <<poolVars, sendVars, ioVars, running, revived, raced>>

\* All senders have ended: the attendant is paused, the I/O thread told to end.
SendersJoined ==
    /\ mpc = "join" /\ \A s \in Senders : spc[s] \in {"none", "ended"}
    /\ mpc' = "stop"
    /\ running' = FALSE
    /\ UNCHANGED <<poolVars, sendVars, ioVars, revived, raced>>

\* It has ended: what is left of the connections is freed.
IoJoined ==
    /\ mpc = "stop" /\ iopc = "exited"
    /\ mpc' = "ended"
    /\ freed' = freed \cup Listed
    /\ conns' = <<>>
    /\ UNCHANGED <<conn, slot, sendVars, ioVars, running, revived, raced>>

-----------------------------------------------------------------------------
SenderSteps(s) ==
    \/ SenderStarts(s) \/ SenderDequeues(s) \/ SenderEnds(s)
    \/ Claim(s) \/ NoClaim(s) \/ WaitedEnough(s)
    \/ Connect(s) \/ ConnectReturns(s) \/ DoSendReturns(s)

\* What the I/O thread does in each of its turns, whatever the network does.
IoTurn ==
    \/ \E c \in Conns : PerConnBringup(c) \/ ServiceConns(c) \/ ReapCheck(c)
    \/ RemoveConn \/ IoToldToEnd \/ AcquireCancelled

Network ==
    \/ \E c \in Conns :
          \/ AcceptConn(c) \/ HandshakeDone(c) \/ HandleSessInit(c) \/ HandleSessTerm(c)
          \/ AcquireStalls(c) \/ ConnFails(c) \/ ExpiryCheck(c)
    \/ AcquireGoesOn \/ PollFails

MainSteps == (\E s \in Senders : EnsureNeighbor(s)) \/ EndSenders \/ SendersJoined \/ IoJoined

QuicEngineNext ==
    (\E s \in Senders : SenderSteps(s)) \/ IoTurn \/ Network \/ MainSteps

QuicEngineSpec == QuicEngineInit /\ [][QuicEngineNext]_engVars

\* Every thread runs when it can; the main thread once SIGTERM has come.  Nobody
\* promises bundles, packets, or space for what is acquired.
QuicEngineFairSpec ==
    /\ QuicEngineSpec
    /\ \A s \in Senders :
          WF_engVars(SenderStarts(s) \/ SenderEnds(s) \/ Claim(s) \/ NoClaim(s)
                     \/ WaitedEnough(s) \/ Connect(s) \/ ConnectReturns(s)
                     \/ DoSendReturns(s))
    /\ \A c \in Conns : WF_engVars(PerConnBringup(c) \/ ServiceConns(c) \/ ReapCheck(c))
    /\ WF_engVars(RemoveConn \/ AcquireCancelled \/ IoToldToEnd)
    /\ WF_engVars(SendersJoined \/ IoJoined)

-----------------------------------------------------------------------------
(* Properties. *)

Holding(s) == spc[s] \in {"connect", "wait"}

\* "Reap failed connections, but never one a sender or connect thread still holds
\* (sendBusy)": the I/O thread frees what a sender holds only if the sender was
\* claiming it at the moment the I/O thread looked.
HeldIsNotFreed ==
    \A s \in Senders : Holding(s) => sConn[s] \notin freed \/ raced

\* A bundle that quicEngineSendTo has taken is reported sent or failed, unless BP
\* keeps the I/O thread waiting for space or the connection was freed in the race.
BundleIsSettled ==
    \A s \in Senders :
        (spc[s] = "seek") ~> (spc[s] \in {"idle", "ended"} \/ iopc = "stalled"
                              \/ raced)

\* A connection that fails is freed while the I/O thread runs, whoever held it.
FailedConnIsFreed ==
    \A c \in Conns :
        (c \in Listed /\ conn[c].failed)
            ~> (c \in freed \/ iopc \in {"stalled", "exited"} \/ raced)

\* After SIGTERM the daemon ends, unless BP keeps the I/O thread waiting while a
\* sender waits for that thread, or a sender that only now starts has made the
\* semaphore live again.
DaemonEnds ==
    (mpc = "join") ~> (mpc = "ended" \/ iopc = "stalled" \/ revived \/ raced)

=============================================================================
