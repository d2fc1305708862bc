------------------------------ MODULE TcpclEngine ------------------------------
(***************************************************************************)
(* The sessions of one TCPCLv4 engine (CLA/tcpv4/src/tcpv4session.c,       *)
(* tcpv4EngineSendTo of tcpv4tx.c, applySessInit of tcpv4negotiate.c): how *)
(* they are accepted, dialled, chosen by senders, reaped and freed.        *)
(*                                                                         *)
(* The accept thread, the sender threads (one per outduct), the clock      *)
(* thread and one receiver thread per session share the session list under *)
(* e->mutex.  One action is one critical section of e->mutex, one blocking *)
(* call, or one step outside the lock.  What a session does with its       *)
(* transfers is TcpclTx and TcpclRx; here it negotiates, is up, ends.      *)
(***************************************************************************)
EXTENDS ListOps

CONSTANTS
    Nodes,          \* node IDs of neighbours
    NoNode,         \* the empty node ID
    Senders,        \* sender threads
    Target,         \* Target[s]: nb->nodeId of sender s
    Addrs,          \* addresses peers connect from; NoAddr if it has no name
    NoAddr,         \* an address getnameinfo could not name, or a dialled peer's
    Conns,          \* session records; each is used once (bound)
    NoConn,
    MaxSessions,    \* e->maxSessions
    BusySlack,      \* TCPV4_BUSY_SLACK
    MaxNegotiating, \* TCPV4_MAX_PEER_NEGOTIATING
    MaxReconnect,   \* TCPV4_MAX_RECONNECT
    TrustClaims     \* cfg.eidPolicy = TCPV4_EIDPOL_NONE

ASSUME NodesAssumption == NoNode \notin Nodes /\ Target \in [Senders -> Nodes]
ASSUME PoolAssumption == NoConn \notin Conns
ASSUME LimitsAssumption ==
    /\ IsFiniteSet(Senders)
    /\ {MaxSessions, MaxNegotiating, MaxReconnect} \subseteq Nat \ {0}
    /\ BusySlack \in Nat
    /\ TrustClaims \in BOOLEAN

VARIABLES
    conns,       \* e->conns, newest first; its length is e->connCount
    session,     \* session[c]: the fields of Tcpv4Conn
    txSenders,   \* txSenders[c]
    receiver,    \* receiver[c]: where the session's receiver thread is
    dead,        \* sessions reapConns has unlinked and not yet freed
    freed,       \* sessions freeConn has released
    interval,    \* interval[n]: dial->interval
    wait,        \* wait[n]: dial->secUntilRetry
    apc,         \* where the accept thread is
    aAddr, aBusy, aConn,  \* its peerHost, busy and conn
    spc,         \* spc[s]: where sender s is in tcpv4EngineSendTo
    sConn,       \* sConn[s]: conn of startConn, or the session it claimed
    dialed       \* dialed[s]

listVars   == <<conns, dead, freed>>
dialVars   == <<interval, wait>>
acceptVars == <<apc, aAddr, aBusy, aConn>>
senderVars == <<spc, sConn, dialed>>
vars == <<conns, session, txSenders, receiver, dead, freed, interval, wait,
          apc, aAddr, aBusy, aConn, spc, sConn, dialed>>

SessionRecords ==
    [activeRole : BOOLEAN, dialNode : Nodes \cup {NoNode},
     routeNode : Nodes \cup {NoNode},
     authenticated : BOOLEAN, addr : Addrs \cup {NoAddr}, busy : BOOLEAN,
     state : {"NEGOTIATING", "ESTABLISHED", "ENDING"}, failed : BOOLEAN,
     receiverDone : BOOLEAN, hasReceiver : BOOLEAN]

TypeOK ==
    /\ conns \in Seq(Conns)
    /\ session \in [Conns -> SessionRecords]
    /\ txSenders \in [Conns -> Int]
    /\ receiver \in [Conns -> {"none", "negotiating", "agreed", "established",
                               "rejected", "up", "ended", "exited"}]
    /\ dead \subseteq Conns /\ freed \subseteq Conns
    /\ interval \in [Nodes -> 1 .. MaxReconnect]
    /\ wait \in [Nodes -> 0 .. MaxReconnect]
    /\ apc \in {"poll", "insert", "begin", "mark"}
    /\ aAddr \in Addrs \cup {NoAddr} /\ aBusy \in BOOLEAN
    /\ aConn \in Conns \cup {NoConn}
    /\ spc \in [Senders -> {"idle", "find", "wait", "open", "connect",
                            "insert", "begin", "mark", "claimed"}]
    /\ sConn \in [Senders -> Conns \cup {NoConn}]
    /\ dialed \in [Senders -> BOOLEAN]

\* The fields startConn gives a session.
NewSession(active, node, peerAddr, isBusy) ==
    [activeRole |-> active, dialNode |-> node, routeNode |-> node,
     authenticated |-> FALSE, addr |-> peerAddr, busy |-> isBusy,
     state |-> "NEGOTIATING", failed |-> FALSE,
     receiverDone |-> FALSE, hasReceiver |-> FALSE]

Init ==
    /\ conns = <<>>
    /\ session = [c \in Conns |-> NewSession(FALSE, NoNode, NoAddr, FALSE)]
    /\ txSenders = [c \in Conns |-> 0]
    /\ receiver = [c \in Conns |-> "none"]
    /\ dead = {} /\ freed = {}
    /\ interval = [n \in Nodes |-> 1]
    /\ wait = [n \in Nodes |-> 0]
    /\ apc = "poll" /\ aAddr = NoAddr /\ aBusy = FALSE /\ aConn = NoConn
    /\ spc = [s \in Senders |-> "idle"]
    /\ sConn = [s \in Senders |-> NoConn]
    /\ dialed = [s \in Senders |-> FALSE]

-----------------------------------------------------------------------------
(* Sessions, and the list of them. *)

Listed == ToSet(conns)
\* The record the next session gets: one is as good as another.
Unused == LET U == Conns \ (Listed \cup dead \cup freed)
          IN IF U = {} THEN {} ELSE {CHOOSE c \in U : TRUE}

\* A session neither failed nor finished.
Live(c) == ~session[c].failed /\ ~session[c].receiverDone

\* Every traversal of the list passes over a session that is not Live; these
\* pass over one that is ending too.
Usable(c) == Live(c) /\ session[c].state # "ENDING"

\* startConn: the session joins the list before it has a receiver thread.
Insert(c, fields) ==
    /\ session' = [session EXCEPT ![c] = fields]
    /\ conns' = <<c>> \o conns
    /\ UNCHANGED <<dead, freed>>

\* startConn after pthread_begin failed: the clock thread is to reap it.
Stillborn(c) == [session[c] EXCEPT !.failed = TRUE, !.receiverDone = TRUE]

-----------------------------------------------------------------------------
(* The accept thread. *)

\* countNegotiating
Negotiating(a) ==
    {c \in Listed : /\ Live(c)
                    /\ session[c].state = "NEGOTIATING"
                    /\ a # NoAddr /\ session[c].addr = a}

Rationed(a) == Cardinality(Negotiating(a)) >= MaxNegotiating

\* Mutant of Busy: one too many.
BusyLate == Len(conns) > MaxSessions

\* Past the limit a few more are accepted, only to be told so; then none is.
Busy == Len(conns) >= MaxSessions
Full == Len(conns) >= MaxSessions + BusySlack

\* A connection comes in.  The list is looked at once; what was seen decides,
\* after the lock is let go, whether the connection is closed again.
Accept(a) ==
    /\ apc = "poll"
    /\ ~Rationed(a) /\ ~Full
    /\ aAddr' = a
    /\ aBusy' = Busy
    /\ apc' = "insert"
    /\ UNCHANGED <<listVars, session, txSenders, receiver, dialVars, aConn,
                   senderVars>>

\* startConn's allocation may fail, and the connection is then closed.
AcceptInsert ==
    /\ apc = "insert"
    /\ \/ /\ \E c \in Unused :
                /\ Insert(c, NewSession(FALSE, NoNode, aAddr, aBusy))
                /\ aConn' = c
          /\ apc' = "begin"
       \/ apc' = "poll" /\ UNCHANGED <<listVars, session, aConn>>
    /\ aAddr' = NoAddr /\ aBusy' = FALSE
    /\ UNCHANGED <<txSenders, receiver, dialVars, senderVars>>

AcceptBegin ==
    /\ apc = "begin"
    /\ \/ /\ receiver' = [receiver EXCEPT ![aConn] = "negotiating"]
          /\ apc' = "mark"
          /\ UNCHANGED <<session, aConn>>
       \/ /\ session' = [session EXCEPT ![aConn] = Stillborn(aConn)]
          /\ apc' = "poll" /\ aConn' = NoConn
          /\ UNCHANGED receiver
    /\ UNCHANGED <<listVars, txSenders, dialVars, aAddr, aBusy, senderVars>>

AcceptMark ==
    /\ apc = "mark"
    /\ session' = [session EXCEPT ![aConn].hasReceiver = TRUE]
    /\ apc' = "poll" /\ aConn' = NoConn
    /\ UNCHANGED <<listVars, txSenders, receiver, dialVars, aAddr, aBusy,
                   senderVars>>

AcceptThread == \/ \E a \in Addrs : Accept(a)
                \/ AcceptInsert \/ AcceptBegin \/ AcceptMark

-----------------------------------------------------------------------------
(* The reconnection backoff. *)

Doubled(n) ==
    IF 2 * interval[n] > MaxReconnect THEN MaxReconnect ELSE 2 * interval[n]

\* backOff: the wait is drawn from the upper half of the interval.
BackOff(n) ==
    /\ \E w \in interval[n] - interval[n] \div 2 .. interval[n] :
          wait' = [wait EXCEPT ![n] = w]
    /\ interval' = [interval EXCEPT ![n] = Doubled(n)]

\* tcpv4DialOutcome with a session established.
DialReset(n) ==
    /\ interval' = [interval EXCEPT ![n] = 1]
    /\ wait' = [wait EXCEPT ![n] = 0]
-----------------------------------------------------------------------------
(* A session's receiver thread, as far as the engine sees it. *)

\* applySessInit: the node, if any, the session may carry bundles to, given the
\* node ID the peer claims and whether a certificate authenticates the claim.
RouteNode(c, claim, auth) ==
    CASE auth -> claim
      [] ~auth /\ session[c].activeRole ->
            IF claim \in {NoNode, session[c].dialNode}
               THEN session[c].dialNode ELSE NoNode
      [] ~auth /\ ~session[c].activeRole ->
            IF TrustClaims THEN claim ELSE NoNode

\* The SESS_INIT exchange succeeds; only a node ID can be authenticated.
SessInit(c, claim, auth) ==
    /\ receiver[c] = "negotiating"
    /\ ~session[c].busy
    /\ auth => claim # NoNode
    /\ session' = [session EXCEPT ![c].routeNode = RouteNode(c, claim, auth),
                                  ![c].authenticated = auth]
    /\ receiver' = [receiver EXCEPT ![c] = "agreed"]
    /\ UNCHANGED <<listVars, txSenders, dialVars, acceptVars, senderVars>>

\* Then, under another hold of the lock, senders are let at it.
Established(c) ==
    /\ receiver[c] = "agreed"
    /\ session' = [session EXCEPT ![c].state = "ESTABLISHED"]
    /\ receiver' = [receiver EXCEPT ![c] = "established"]
    /\ UNCHANGED <<listVars, txSenders, dialVars, acceptVars, senderVars>>

\* tcpv4Establish fails, at any point: busy, policy, timeout, a lost connection.
Rejected(c) ==
    /\ receiver[c] = "negotiating"
    /\ receiver' = [receiver EXCEPT ![c] = "rejected"]
    /\ UNCHANGED <<listVars, session, txSenders, dialVars, acceptVars,
                   senderVars>>

\* tcpv4DialOutcome, for a session this node dialled.
DialOutcome(c) ==
    /\ receiver[c] \in {"established", "rejected"}
    /\ receiver' = [receiver EXCEPT ![c] =
                       IF @ = "established" THEN "up" ELSE "ended"]
    /\ CASE ~session[c].activeRole -> UNCHANGED dialVars
         [] session[c].activeRole /\ receiver[c] = "established" ->
               DialReset(session[c].dialNode)
         [] session[c].activeRole /\ receiver[c] = "rejected" ->
               BackOff(session[c].dialNode)
    /\ UNCHANGED <<listVars, session, txSenders, acceptVars, senderVars>>

\* A SESS_TERM is sent or received: by the receiver thread, or by the clock
\* thread when the session has been idle for too long.
Ending(c) ==
    /\ session[c].state = "ESTABLISHED" /\ ~session[c].receiverDone
    /\ session' = [session EXCEPT ![c].state = "ENDING"]
    /\ UNCHANGED <<listVars, txSenders, receiver, dialVars, acceptVars,
                   senderVars>>

MessageLoopEnds(c) ==
    /\ receiver[c] = "up"
    /\ receiver' = [receiver EXCEPT ![c] = "ended"]
    /\ UNCHANGED <<listVars, session, txSenders, dialVars, acceptVars,
                   senderVars>>

\* tcpv4ConnFail, from any thread that uses the session.
ConnFail(c) ==
    /\ c \in Listed /\ ~session[c].failed
    /\ receiver[c] \in {"negotiating", "agreed", "established", "up"}
    /\ session' = [session EXCEPT ![c].failed = TRUE]
    /\ UNCHANGED <<listVars, txSenders, receiver, dialVars, acceptVars,
                   senderVars>>

ReceiverDone(c) ==
    /\ receiver[c] = "ended"
    /\ session' = [session EXCEPT ![c].failed = TRUE, ![c].receiverDone = TRUE]
    /\ receiver' = [receiver EXCEPT ![c] = "exited"]
    /\ UNCHANGED <<listVars, txSenders, dialVars, acceptVars, senderVars>>

ReceiverThread(c) ==
    \/ \E claim \in Nodes \cup {NoNode}, auth \in BOOLEAN :
          SessInit(c, claim, auth)
    \/ Established(c) \/ Rejected(c) \/ DialOutcome(c) \/ Ending(c)
    \/ MessageLoopEnds(c) \/ ConnFail(c) \/ ReceiverDone(c)

-----------------------------------------------------------------------------
(* Sender threads: tcpv4EngineSendTo, findConn, tcpv4OpenSession. *)

\* senderThread has dequeued a bundle.
SendTo(s) ==
    /\ spc[s] = "idle"
    /\ spc' = [spc EXCEPT ![s] = "find"]
    /\ dialed' = [dialed EXCEPT ![s] = FALSE]
    /\ UNCHANGED <<listVars, session, txSenders, receiver, dialVars,
                   acceptVars, sConn>>

Offered(c, n) ==
    /\ Live(c)
    /\ session[c].state = "ESTABLISHED"
    /\ session[c].routeNode = n

\* A session being negotiated is known by the node it was dialled for.
ComingUp(c, n) ==
    /\ Live(c)
    /\ session[c].state = "NEGOTIATING"
    /\ session[c].dialNode = n

\* findConn looks through the whole list, from the newest session to the oldest, and
\* keeps a session as good as the best so far: of the authenticated ones, if there
\* is any, the oldest.
Best(n) ==
    LET offered == {i \in DOMAIN conns : Offered(conns[i], n)}
        known   == {i \in offered : session[conns[i]].authenticated}
    IN CASE known # {} -> conns[Max(known)]
         [] known = {} /\ offered # {} -> conns[Max(offered)]
         [] offered = {} -> NoConn

FindConn(s) ==
    /\ spc[s] = "find"
    /\ Best(Target[s]) # NoConn
    /\ sConn' = [sConn EXCEPT ![s] = Best(Target[s])]
    /\ txSenders' = [txSenders EXCEPT ![Best(Target[s])] = @ + 1]
    /\ spc' = [spc EXCEPT ![s] = "claimed"]
    /\ UNCHANGED <<listVars, session, receiver, dialVars, acceptVars, dialed>>

\* Mutant of DialledAlready: the sender may dial any number of times.
DialledNever(s) == FALSE

\* A sender dials once at most; if that got it nothing it declines the bundle.
DialledAlready(s) == dialed[s]

\* None to be had yet: wait for one that is coming up, dial one, or decline.
FindNone(s) ==
    /\ spc[s] = "find"
    /\ Best(Target[s]) = NoConn
    /\ spc' = [spc EXCEPT ![s] =
                  IF \E c \in Listed : ComingUp(c, Target[s]) THEN "wait"
                  ELSE IF DialledAlready(s) THEN "idle" ELSE "open"]
    /\ UNCHANGED <<listVars, session, txSenders, receiver, dialVars,
                   acceptVars, sConn, dialed>>

\* e->cond is broadcast ...
WaitWoken(s) ==
    /\ spc[s] = "wait"
    /\ spc' = [spc EXCEPT ![s] = "find"]
    /\ UNCHANGED <<listVars, session, txSenders, receiver, dialVars,
                   acceptVars, sConn, dialed>>

\* ... or TCPV4_CLAIM_TIMEOUT passes and the sender declines the bundle.
WaitTimedOut(s) ==
    /\ spc[s] = "wait"
    /\ spc' = [spc EXCEPT ![s] = "idle"]
    /\ UNCHANGED <<listVars, session, txSenders, receiver, dialVars,
                   acceptVars, sConn, dialed>>

\* tcpv4OpenSession looks once more, for a session open or opening to the node.
Dialable(n) ==
    ~ \E c \in Listed : Usable(c) /\ n \in {session[c].dialNode,
                                            session[c].routeNode}

\* It dials unless there is one, the backoff is running, the limit is reached or
\* there is no memory for the dial record; and it lets go of the lock to do so.
OpenSession(s) ==
    /\ spc[s] = "open"
    /\ LET n == Target[s] IN
       \/ /\ ~Dialable(n)
          /\ spc' = [spc EXCEPT ![s] = "find"]
          /\ dialed' = [dialed EXCEPT ![s] = TRUE]
       \/ /\ Dialable(n)
          /\ \E pc \in {"idle", "connect"} :
                /\ pc = "connect" => wait[n] = 0 /\ Len(conns) < MaxSessions
                /\ spc' = [spc EXCEPT ![s] = pc]
          /\ UNCHANGED dialed
    /\ UNCHANGED <<listVars, session, txSenders, receiver, dialVars,
                   acceptVars, sConn>>

\* itcp_connect_dualstack: the peer answers, or the dial backs off.
Connect(s) ==
    /\ spc[s] = "connect"
    /\ \/ spc' = [spc EXCEPT ![s] = "insert"] /\ UNCHANGED dialVars
       \/ spc' = [spc EXCEPT ![s] = "idle"] /\ BackOff(Target[s])
    /\ UNCHANGED <<listVars, session, txSenders, receiver, acceptVars, sConn,
                   dialed>>

\* startConn, or a socket that cannot be watched, or no memory.
SenderInsert(s) ==
    /\ spc[s] = "insert"
    /\ \/ /\ \E c \in Unused :
                /\ Insert(c, NewSession(TRUE, Target[s], NoAddr, FALSE))
                /\ sConn' = [sConn EXCEPT ![s] = c]
          /\ spc' = [spc EXCEPT ![s] = "begin"]
       \/ /\ spc' = [spc EXCEPT ![s] = "idle"]
          /\ UNCHANGED <<listVars, session, sConn>>
    /\ UNCHANGED <<txSenders, receiver, dialVars, acceptVars, dialed>>

SenderBegin(s) ==
    LET c == sConn[s] IN
    /\ spc[s] = "begin"
    /\ \/ /\ receiver' = [receiver EXCEPT ![c] = "negotiating"]
          /\ spc' = [spc EXCEPT ![s] = "mark"]
          /\ UNCHANGED <<session, sConn>>
       \/ /\ session' = [session EXCEPT ![c] = Stillborn(c)]
          /\ spc' = [spc EXCEPT ![s] = "idle"]
          /\ sConn' = [sConn EXCEPT ![s] = NoConn]
          /\ UNCHANGED receiver
    /\ UNCHANGED <<listVars, txSenders, dialVars, acceptVars, dialed>>

SenderMark(s) ==
    /\ spc[s] = "mark"
    /\ session' = [session EXCEPT ![sConn[s]].hasReceiver = TRUE]
    /\ spc' = [spc EXCEPT ![s] = "find"]
    /\ sConn' = [sConn EXCEPT ![s] = NoConn]
    /\ dialed' = [dialed EXCEPT ![s] = TRUE]
    /\ UNCHANGED <<listVars, txSenders, receiver, dialVars, acceptVars>>

\* queueXfer returns (TcpclTx) and the sender lets go of the session.
ReleaseConn(s) ==
    /\ spc[s] = "claimed"
    /\ txSenders' = [txSenders EXCEPT ![sConn[s]] = @ - 1]
    /\ spc' = [spc EXCEPT ![s] = "idle"]
    /\ sConn' = [sConn EXCEPT ![s] = NoConn]
    /\ UNCHANGED <<listVars, session, receiver, dialVars, acceptVars, dialed>>

Sender(s) == \/ SendTo(s) \/ FindConn(s) \/ FindNone(s) \/ WaitWoken(s)
             \/ WaitTimedOut(s) \/ OpenSession(s) \/ Connect(s) \/ SenderInsert(s)
             \/ SenderBegin(s) \/ SenderMark(s) \/ ReleaseConn(s)

-----------------------------------------------------------------------------
(* The clock thread. *)

\* clockTick counts the retry timers down.
Tick ==
    /\ wait' = [n \in Nodes |-> IF wait[n] > 0 THEN wait[n] - 1 ELSE 0]
    /\ wait' # wait
    /\ UNCHANGED <<listVars, session, txSenders, receiver, interval,
                   acceptVars, senderVars>>

\* Mutants of Reapable: senders are not waited for; a session whose thread could
\* not be started is passed over.
ReapableAtOnce(c) == session[c].receiverDone
ReapableIfBegun(c) ==
    session[c].receiverDone /\ session[c].hasReceiver /\ txSenders[c] = 0

Reapable(c) == session[c].receiverDone /\ txSenders[c] = 0

\* reapConns takes every session it may out of the list under one lock ...
ReapConns ==
    /\ dead = {}
    /\ LET done == {c \in Listed : Reapable(c)} IN
          /\ done # {}
          /\ dead' = done
          /\ conns' = Without(conns, done)
    /\ UNCHANGED <<session, txSenders, receiver, freed, dialVars, acceptVars,
                   senderVars>>

\* What is left of a session that was freed: whether its thread was joined.
Remains(c) == [NewSession(FALSE, NoNode, NoAddr, FALSE)
               EXCEPT !.hasReceiver = session[c].hasReceiver]

\* ... and frees them one by one, joining the receiver threads it knows of.
FreeConn(c) ==
    /\ c \in dead
    /\ session[c].hasReceiver => receiver[c] = "exited"
    /\ session' = [session EXCEPT ![c] = Remains(c)]
    /\ dead' = dead \ {c}
    /\ freed' = freed \cup {c}
    /\ UNCHANGED <<conns, txSenders, receiver, dialVars, acceptVars,
                   senderVars>>

Clock == Tick \/ ReapConns \/ \E c \in Conns : FreeConn(c)

-----------------------------------------------------------------------------
Next == \/ AcceptThread \/ Clock
        \/ \E c \in Conns : ReceiverThread(c)
        \/ \E s \in Senders : Sender(s)

Spec == Init /\ [][Next]_vars

\* Every thread keeps running; negotiation and connect() are bounded by their
\* timeouts, and so is the wait of a sender, whose deadline is fixed when it
\* starts.  Nothing obliges a peer to connect, or an established session to end.
Fairness ==
    /\ WF_vars(AcceptInsert \/ AcceptBegin \/ AcceptMark)
    /\ \A s \in Senders :
          /\ WF_vars(FindConn(s) \/ FindNone(s) \/ OpenSession(s)
                     \/ Connect(s) \/ SenderInsert(s) \/ SenderBegin(s)
                     \/ SenderMark(s) \/ ReleaseConn(s))
          /\ SF_vars(WaitTimedOut(s))
    /\ \A c \in Conns :
          /\ WF_vars(Rejected(c) \/ Established(c) \/ DialOutcome(c)
                     \/ ReceiverDone(c))
          /\ WF_vars(session[c].failed /\ MessageLoopEnds(c))
          /\ WF_vars(FreeConn(c))
    /\ WF_vars(ReapConns)

FairSpec == Spec /\ Fairness

-----------------------------------------------------------------------------
(* Properties. *)

\* The sessions peers have opened and that are up never exceed the limit, though
\* it is looked at before the lock is let go and the session inserted after it
\* is taken again, and a session beyond the limit is negotiated to be told that
\* we are busy (tcpv4session.c:478-491).  Sessions this node dials may overrun it.
SessionsBounded ==
    Cardinality({c \in Listed : /\ ~session[c].activeRole
                                /\ Live(c)
                                /\ session[c].state = "ESTABLISHED"})
        <= MaxSessions

\* A session a sender has claimed stays on the list until the sender lets go,
\* even when it fails and its receiver thread exits meanwhile.
ClaimedIsListed ==
    \A s \in Senders : spc[s] = "claimed" => sConn[s] \in Listed

\* Every call of tcpv4EngineSendTo comes to an end.
SendReturns == \A s \in Senders : spc[s] = "find" ~> spc[s] = "idle"

\* Every session whose receiver thread has exited is freed in the end.
DoneIsFreed ==
    \A c \in Conns : session[c].receiverDone ~> c \in freed

\* "By now the session's own threads have been joined and no sender still holds
\* it": no thread is still at work on a session that has been freed.
FreedIsLetGo ==
    \A c \in freed :
        /\ receiver[c] # "none" => session[c].hasReceiver
        /\ ~(apc = "mark" /\ aConn = c)
        /\ \A s \in Senders : sConn[s] # c

=============================================================================
