-------------------------- MODULE TcpclEngineProofs --------------------------
(***************************************************************************)
(* Proofs about the session list of an engine (TcpclEngine), for any set   *)
(* of session records, any finite set of sender threads, any neighbours    *)
(* and addresses, and any limits.                                          *)
(***************************************************************************)
EXTENDS TcpclEngine, ListFacts, FiniteSetTheorems

USE DEF listVars, dialVars, acceptVars, senderVars

-----------------------------------------------------------------------------
(* The inductive invariant. *)

\* Records that are, or were, sessions.
Known == Listed \cup dead \cup freed

\* A thread that starts a session has one in its hands, and so has a sender that
\* has claimed one.
HandsOK ==
    /\ apc \in {"begin", "mark"} => aConn \in Known
    /\ \A s \in Senders : spc[s] \in {"begin", "mark", "claimed"} => sConn[s] \in Known

\* A record is in one place; only a session has a receiver thread.
PlacesOK ==
    /\ Listed \cap (dead \cup freed) = {}
    /\ \A c \in Conns : receiver[c] # "none" => c \in Known

\* Senders that have claimed session c.
Claimants(c) == {s \in Senders : spc[s] = "claimed" /\ sConn[s] = c}

\* txSenders counts them.
ClaimsOK == \A c \in Conns : txSenders[c] = Cardinality(Claimants(c))

\* A session beyond the limit never becomes established.
BusyOK ==
    \A c \in Conns :
        session[c].state = "ESTABLISHED" \/ receiver[c] \in {"agreed", "established", "up"}
            => ~session[c].busy

\* Sessions peers have opened within the limit; one is about to be when the accept
\* thread has found room and not inserted it yet.
Admitted == {c \in Listed : ~session[c].activeRole /\ ~session[c].busy}
Admitting == IF apc = "insert" /\ ~aBusy THEN 1 ELSE 0
AdmittedOK == Cardinality(Admitted) + Admitting <= MaxSessions

EngineInv ==
    TypeOK /\ HandsOK /\ PlacesOK /\ ClaimsOK /\ ClaimedIsListed /\ BusyOK /\ AdmittedOK

-----------------------------------------------------------------------------
(* Facts about the operators of the model. *)

LEMMA ListedIsRange == Listed = Range(conns)
BY DEF Listed, ToSet, Range

LEMMA ListedAreConns == TypeOK => Listed \subseteq Conns /\ Known \subseteq Conns
BY ListedIsRange DEF TypeOK, Known, Range

LEMMA UnusedFacts ==
    ASSUME NEW c \in Unused PROVE c \in Conns /\ c \notin Known
<1> DEFINE U == Conns \ (Listed \cup dead \cup freed)
<1>1. U # {} /\ c = CHOOSE d \in U : TRUE
  BY DEF Unused
<1> HIDE DEF U
<1>2. c \in U
  BY <1>1
<1> QED
  BY <1>2 DEF U, Known

\* Insert: a record not used before joins the list.
LEMMA InsertFacts ==
    ASSUME TypeOK, NEW c \in Unused, NEW fields, Insert(c, fields)
    PROVE  /\ conns' \in Seq(Conns) /\ Listed' = Listed \cup {c}
           /\ Known' = Known \cup {c} /\ c \notin Known /\ c \in Conns
           /\ session' = [session EXCEPT ![c] = fields]
           /\ dead' = dead /\ freed' = freed
<1>1. conns' = <<c>> \o conns /\ conns \in Seq(Conns) /\ c \in Conns
  BY UnusedFacts DEF Insert, TypeOK
<1>2. conns' \in Seq(Conns) /\ Range(conns') = Range(conns) \cup {c}
  BY <1>1, PushFacts
<1>3. Listed' = Range(conns')
  BY DEF Listed, ToSet, Range
<1> QED
  BY <1>1, <1>2, <1>3, UnusedFacts, ListedIsRange DEF Insert, Known

\* reapConns moves the sessions it may to the dead ones.
LEMMA ReapFacts ==
    ASSUME TypeOK, ReapConns
    PROVE  /\ conns' \in Seq(Conns) /\ Listed' = Listed \ dead'
           /\ dead' = {c \in Listed : Reapable(c)} /\ dead = {}
           /\ UNCHANGED <<session, txSenders, receiver, freed, dialVars, acceptVars,
                          senderVars>>
<1>1. conns' = Without(conns, dead') /\ conns \in Seq(Conns)
  BY DEF ReapConns, TypeOK
<1>2. conns' \in Seq(Conns) /\ Range(conns') = Range(conns) \ dead'
  BY <1>1, WithoutFacts
<1>3. Listed' = Range(conns')
  BY DEF Listed, ToSet, Range
<1> QED
  BY <1>2, <1>3, ListedIsRange DEF ReapConns

\* findConn's choice is a session of the list.
LEMMA BestFacts ==
    ASSUME TypeOK, NEW n, Best(n) # NoConn
    PROVE  Best(n) \in Listed /\ Best(n) \in Conns
<1> DEFINE offered == {i \in DOMAIN conns : Offered(conns[i], n)}
           known   == {i \in offered : session[conns[i]].authenticated}
<1>1. /\ DOMAIN conns \subseteq 0 .. Len(conns) /\ Len(conns) \in Nat
      /\ offered \subseteq DOMAIN conns /\ known \subseteq DOMAIN conns
  BY DEF TypeOK
<1>2. known # {} => Max(known) \in known
  BY <1>1, GreatestNat
<1>3. offered # {} => Max(offered) \in offered
  BY <1>1, GreatestNat
<1>4. Best(n) = CASE known # {} -> conns[Max(known)]
                  [] known = {} /\ offered # {} -> conns[Max(offered)]
                  [] offered = {} -> NoConn
  BY DEF Best
<1> HIDE DEF offered, known
<1>5. CASE known # {}
  BY <1>1, <1>2, <1>4, <1>5, ListedAreConns, ListedIsRange DEF Range
<1>6. CASE known = {} /\ offered # {}
  BY <1>1, <1>3, <1>4, <1>6, ListedAreConns, ListedIsRange DEF Range
<1>7. CASE known = {} /\ offered = {}
  BY <1>4, <1>7
<1> QED
  BY <1>5, <1>6, <1>7

LEMMA NewSessionType ==
    ASSUME NEW a \in BOOLEAN, NEW n \in Nodes \cup {NoNode}, NEW at \in Addrs \cup {NoAddr},
           NEW b \in BOOLEAN
    PROVE  NewSession(a, n, at, b) \in SessionRecords
BY DEF NewSession, SessionRecords

LEMMA SessionTypes ==
    ASSUME TypeOK, NEW c \in Conns
    PROVE  /\ session[c] \in SessionRecords
           /\ Stillborn(c) \in SessionRecords
           /\ Remains(c) \in SessionRecords
           /\ \A b \in BOOLEAN : /\ [session[c] EXCEPT !.hasReceiver = b] \in SessionRecords
                                 /\ [session[c] EXCEPT !.failed = b] \in SessionRecords
<1>1. session[c] \in SessionRecords
  BY DEF TypeOK
<1>2. Stillborn(c) \in SessionRecords
  BY <1>1 DEF Stillborn, SessionRecords
<1>3. Remains(c) \in SessionRecords
  <2>1. NewSession(FALSE, NoNode, NoAddr, FALSE) \in SessionRecords
    BY NewSessionType
  <2>2. session[c].hasReceiver \in BOOLEAN
    BY <1>1 DEF SessionRecords
  <2> QED
    BY <2>1, <2>2 DEF Remains, SessionRecords
<1> QED
  BY <1>1, <1>2, <1>3 DEF SessionRecords

-----------------------------------------------------------------------------
(* Type correctness. *)

LEMMA TypeInit == Init => TypeOK
<1> SUFFICES ASSUME Init PROVE TypeOK
  OBVIOUS
<1>1. session \in [Conns -> SessionRecords]
  BY NewSessionType DEF Init
<1>2. MaxReconnect \in Nat \ {0}
  BY LimitsAssumption
<1>3. interval \in [Nodes -> 1 .. MaxReconnect] /\ wait \in [Nodes -> 0 .. MaxReconnect]
  BY <1>2 DEF Init
<1>4. conns \in Seq(Conns) /\ txSenders \in [Conns -> Int]
  BY DEF Init
<1> QED
  BY <1>1, <1>3, <1>4 DEF Init, TypeOK

LEMMA BackOffType ==
    ASSUME TypeOK, NEW n \in Nodes, BackOff(n)
    PROVE  interval' \in [Nodes -> 1 .. MaxReconnect] /\ wait' \in [Nodes -> 0 .. MaxReconnect]
<1>1. interval[n] \in 1 .. MaxReconnect /\ MaxReconnect \in Nat \ {0}
  BY LimitsAssumption DEF TypeOK
<1>2. Doubled(n) \in 1 .. MaxReconnect
  BY <1>1 DEF Doubled
<1>3. PICK w \in interval[n] - interval[n] \div 2 .. interval[n] : wait' = [wait EXCEPT ![n] = w]
  BY DEF BackOff
<1>4. interval[n] \div 2 \in Nat /\ interval[n] \div 2 <= interval[n]
  BY <1>1
<1>5. w \in 0 .. MaxReconnect
  BY <1>1, <1>3, <1>4
<1> QED
  BY <1>2, <1>3, <1>5 DEF BackOff, TypeOK

LEMMA TypeAccept == ASSUME TypeOK, HandsOK, AcceptThread PROVE TypeOK'
<1>1. CASE \E a \in Addrs : Accept(a)
  BY <1>1 DEF TypeOK, Accept, Busy
<1>2. CASE AcceptInsert
  <2>1. CASE UNCHANGED <<listVars, session, aConn>> /\ apc' = "poll"
    BY <1>2, <2>1 DEF TypeOK, AcceptInsert
  <2>2. CASE apc' = "begin" /\ \E c \in Unused :
                /\ Insert(c, NewSession(FALSE, NoNode, aAddr, aBusy))
                /\ aConn' = c
    <3>1. PICK c \in Unused : /\ Insert(c, NewSession(FALSE, NoNode, aAddr, aBusy))
                              /\ aConn' = c
      BY <2>2
    <3>2. /\ conns' \in Seq(Conns) /\ c \in Conns /\ dead' = dead /\ freed' = freed
          /\ session' = [session EXCEPT ![c] = NewSession(FALSE, NoNode, aAddr, aBusy)]
      BY <3>1, InsertFacts
    <3>3. NewSession(FALSE, NoNode, aAddr, aBusy) \in SessionRecords
      BY NewSessionType DEF TypeOK
    <3>4. session' \in [Conns -> SessionRecords]
      BY <3>2, <3>3 DEF TypeOK
    <3> QED
      BY <1>2, <2>2, <3>1, <3>2, <3>4 DEF TypeOK, AcceptInsert
  <2> QED
    BY <1>2, <2>1, <2>2 DEF AcceptInsert
<1>3. CASE AcceptBegin
  <2>1. aConn \in Conns
    BY <1>3, ListedAreConns DEF AcceptBegin, HandsOK
  <2>2. session' \in [Conns -> SessionRecords]
    BY <1>3, <2>1, SessionTypes DEF AcceptBegin, TypeOK
  <2>3. receiver' \in [Conns -> {"none", "negotiating", "agreed", "established",
                               "rejected", "up", "ended", "exited"}]
    BY <1>3 DEF AcceptBegin, TypeOK
  <2> QED
    BY <1>3, <2>2, <2>3 DEF AcceptBegin, TypeOK
<1>4. CASE AcceptMark
  <2>1. aConn \in Conns
    BY <1>4, ListedAreConns DEF AcceptMark, HandsOK
  <2>2. session' \in [Conns -> SessionRecords]
    BY <1>4, <2>1, SessionTypes DEF AcceptMark, TypeOK
  <2> QED
    BY <1>4, <2>2 DEF AcceptMark, TypeOK
<1> QED
  BY <1>1, <1>2, <1>3, <1>4 DEF AcceptThread

LEMMA RouteNodeType ==
    ASSUME TypeOK, NEW c \in Conns, NEW claim \in Nodes \cup {NoNode}, NEW auth \in BOOLEAN
    PROVE  RouteNode(c, claim, auth) \in Nodes \cup {NoNode}
<1>1. session[c].dialNode \in Nodes \cup {NoNode} /\ session[c].activeRole \in BOOLEAN
  BY DEF TypeOK, SessionRecords
<1> QED
  BY <1>1 DEF RouteNode

LEMMA TypeReceiver == ASSUME TypeOK, NEW c \in Conns, ReceiverThread(c) PROVE TypeOK'
<1>0. session[c] \in SessionRecords
  BY DEF TypeOK
<1>1. CASE \E claim \in Nodes \cup {NoNode}, auth \in BOOLEAN : SessInit(c, claim, auth)
  <2>1. PICK claim \in Nodes \cup {NoNode}, auth \in BOOLEAN : SessInit(c, claim, auth)
    BY <1>1
  <2> DEFINE n == RouteNode(c, claim, auth)
  <2>2. n \in Nodes \cup {NoNode}
    BY RouteNodeType
  <2> HIDE DEF n
  <2>3. [session[c] EXCEPT !.routeNode = n, !.authenticated = auth] \in SessionRecords
    BY <1>0, <2>2 DEF SessionRecords
  <2>4. session' = [session EXCEPT ![c].routeNode = n, ![c].authenticated = auth]
    BY <2>1 DEF SessInit, n
  <2>5. session' \in [Conns -> SessionRecords]
    BY <2>3, <2>4 DEF TypeOK
  <2> QED
    BY <2>1, <2>5 DEF TypeOK, SessInit
<1>2. CASE Established(c) \/ Ending(c)
  <2>1. \A st \in {"ESTABLISHED", "ENDING"} : [session[c] EXCEPT !.state = st] \in SessionRecords
    BY <1>0 DEF SessionRecords
  <2>2. session' \in [Conns -> SessionRecords]
    BY <1>2, <2>1 DEF Established, Ending, TypeOK
  <2> QED
    BY <1>2, <2>2 DEF TypeOK, Established, Ending
<1>3. CASE Rejected(c) \/ MessageLoopEnds(c)
  BY <1>3 DEF TypeOK, Rejected, MessageLoopEnds
<1>4. CASE DialOutcome(c)
  <2>1. UNCHANGED <<listVars, session, txSenders, acceptVars, senderVars>>
    BY <1>4 DEF DialOutcome
  <2>2. receiver' \in [Conns -> {"none", "negotiating", "agreed", "established",
                               "rejected", "up", "ended", "exited"}]
    BY <1>4 DEF DialOutcome, TypeOK
  <2>3. interval' \in [Nodes -> 1 .. MaxReconnect] /\ wait' \in [Nodes -> 0 .. MaxReconnect]
    <3> DEFINE n == session[c].dialNode
    <3>1. \/ UNCHANGED dialVars \/ DialReset(n) \/ BackOff(n)
      <4>1. session[c].activeRole \in BOOLEAN /\ receiver[c] \in {"established", "rejected"}
        BY <1>0, <1>4 DEF DialOutcome, SessionRecords
      <4>2. CASE ~session[c].activeRole
        BY <1>4, <4>2 DEF DialOutcome
      <4>3. CASE session[c].activeRole /\ receiver[c] = "established"
        BY <1>4, <4>3 DEF DialOutcome
      <4>4. CASE session[c].activeRole /\ receiver[c] = "rejected"
        BY <1>4, <4>4 DEF DialOutcome
      <4> QED
        BY <4>1, <4>2, <4>3, <4>4
    <3> HIDE DEF n
    <3>2. CASE UNCHANGED dialVars
      BY <3>2 DEF TypeOK
    <3>3. CASE DialReset(n)
      <4>1. 1 \in 1 .. MaxReconnect /\ 0 \in 0 .. MaxReconnect
        BY LimitsAssumption
      <4> QED
        BY <3>3, <4>1 DEF TypeOK, DialReset
    <3>4. CASE BackOff(n)
      <4>1. CASE n \in Nodes
        BY <3>4, <4>1, BackOffType
      <4>2. CASE n \notin Nodes
        BY <3>4, <4>2 DEF BackOff, TypeOK
      <4> QED
        BY <4>1, <4>2
    <3> QED
      BY <3>1, <3>2, <3>3, <3>4
  <2> QED
    BY <2>1, <2>2, <2>3 DEF TypeOK
<1>5. CASE ConnFail(c)
  <2>1. session' \in [Conns -> SessionRecords]
    BY <1>5, SessionTypes DEF ConnFail, TypeOK
  <2> QED
    BY <1>5, <2>1 DEF TypeOK, ConnFail
<1>6. CASE ReceiverDone(c)
  <2>1. [session[c] EXCEPT !.failed = TRUE, !.receiverDone = TRUE] \in SessionRecords
    BY <1>0 DEF SessionRecords
  <2>2. session' \in [Conns -> SessionRecords]
    BY <1>6, <2>1 DEF ReceiverDone, TypeOK
  <2> QED
    BY <1>6, <2>2 DEF TypeOK, ReceiverDone
<1> QED
  BY <1>1, <1>2, <1>3, <1>4, <1>5, <1>6 DEF ReceiverThread

LEMMA TypeSender ==
    ASSUME TypeOK, HandsOK, NEW s \in Senders, Sender(s) PROVE TypeOK'
<1>1. CASE SendTo(s) \/ FindNone(s) \/ WaitWoken(s) \/ WaitTimedOut(s)
  BY <1>1 DEF TypeOK, SendTo, FindNone, WaitWoken, WaitTimedOut
<1>2. CASE FindConn(s)
  <2>1. Best(Target[s]) \in Conns
    BY <1>2, BestFacts DEF FindConn
  <2>2. sConn' \in [Senders -> Conns \cup {NoConn}] /\ txSenders' \in [Conns -> Int]
    BY <1>2, <2>1 DEF FindConn, TypeOK
  <2> QED
    BY <1>2, <2>2 DEF TypeOK, FindConn
<1>3. CASE OpenSession(s)
  <2>1. dialed' \in [Senders -> BOOLEAN]
    BY <1>3 DEF OpenSession, TypeOK
  <2>2. \E pc \in {"find", "idle", "connect"} : spc' = [spc EXCEPT ![s] = pc]
    BY <1>3 DEF OpenSession
  <2> QED
    BY <1>3, <2>1, <2>2 DEF TypeOK, OpenSession
<1>4. CASE Connect(s)
  <2>1. Target[s] \in Nodes
    BY NodesAssumption
  <2>2. interval' \in [Nodes -> 1 .. MaxReconnect] /\ wait' \in [Nodes -> 0 .. MaxReconnect]
    BY <1>4, <2>1, BackOffType DEF Connect, TypeOK
  <2>3. \E pc \in {"insert", "idle"} : spc' = [spc EXCEPT ![s] = pc]
    BY <1>4 DEF Connect
  <2> QED
    BY <1>4, <2>2, <2>3 DEF TypeOK, Connect
<1>5. CASE SenderInsert(s)
  <2>1. CASE spc' = [spc EXCEPT ![s] = "idle"] /\ UNCHANGED <<listVars, session, sConn>>
    BY <1>5, <2>1 DEF TypeOK, SenderInsert
  <2>2. CASE /\ spc' = [spc EXCEPT ![s] = "begin"]
             /\ \E c \in Unused : /\ Insert(c, NewSession(TRUE, Target[s], NoAddr, FALSE))
                                  /\ sConn' = [sConn EXCEPT ![s] = c]
    <3>1. PICK c \in Unused : /\ Insert(c, NewSession(TRUE, Target[s], NoAddr, FALSE))
                              /\ sConn' = [sConn EXCEPT ![s] = c]
      BY <2>2
    <3>2. /\ conns' \in Seq(Conns) /\ c \in Conns /\ dead' = dead /\ freed' = freed
          /\ session' = [session EXCEPT ![c] = NewSession(TRUE, Target[s], NoAddr, FALSE)]
      BY <3>1, InsertFacts
    <3>3. NewSession(TRUE, Target[s], NoAddr, FALSE) \in SessionRecords
      BY NewSessionType, NodesAssumption
    <3>4. session' \in [Conns -> SessionRecords]
      BY <3>2, <3>3 DEF TypeOK
    <3> QED
      BY <1>5, <2>2, <3>1, <3>2, <3>4 DEF TypeOK, SenderInsert
  <2> QED
    BY <1>5, <2>1, <2>2 DEF SenderInsert
<1>6. CASE SenderBegin(s)
  <2>1. sConn[s] \in Conns
    BY <1>6, ListedAreConns DEF SenderBegin, HandsOK
  <2>2. session' \in [Conns -> SessionRecords]
    <3> DEFINE c == sConn[s]
    <3>1. session' = session \/ session' = [session EXCEPT ![c] = Stillborn(c)]
      BY <1>6 DEF SenderBegin
    <3>2. Stillborn(c) \in SessionRecords
      BY <2>1, SessionTypes
    <3> HIDE DEF c
    <3> QED
      BY <3>1, <3>2 DEF TypeOK
  <2>3. receiver' \in [Conns -> {"none", "negotiating", "agreed", "established",
                               "rejected", "up", "ended", "exited"}]
    BY <1>6 DEF SenderBegin, TypeOK
  <2>4. /\ spc' = [spc EXCEPT ![s] = "mark"] \/ spc' = [spc EXCEPT ![s] = "idle"]
        /\ sConn' \in [Senders -> Conns \cup {NoConn}]
    BY <1>6 DEF SenderBegin, TypeOK
  <2> QED
    BY <1>6, <2>2, <2>3, <2>4 DEF SenderBegin, TypeOK
<1>7. CASE SenderMark(s)
  <2>1. sConn[s] \in Conns
    BY <1>7, ListedAreConns DEF SenderMark, HandsOK
  <2>2. session' \in [Conns -> SessionRecords]
    BY <1>7, <2>1, SessionTypes DEF SenderMark, TypeOK
  <2> QED
    BY <1>7, <2>2 DEF SenderMark, TypeOK
<1>8. CASE ReleaseConn(s)
  <2>1. sConn[s] \in Conns
    BY <1>8, ListedAreConns DEF ReleaseConn, HandsOK
  <2>2. txSenders[sConn[s]] - 1 \in Int
    BY <2>1 DEF TypeOK
  <2>3. txSenders' \in [Conns -> Int]
    BY <1>8, <2>2 DEF ReleaseConn, TypeOK
  <2> QED
    BY <1>8, <2>3 DEF ReleaseConn, TypeOK
<1> QED
  BY <1>1, <1>2, <1>3, <1>4, <1>5, <1>6, <1>7, <1>8 DEF Sender

LEMMA TypeClock == ASSUME TypeOK, Clock PROVE TypeOK'
<1>1. CASE Tick
  <2>1. MaxReconnect \in Nat
    BY LimitsAssumption
  <2>2. wait' \in [Nodes -> 0 .. MaxReconnect]
    BY <1>1, <2>1 DEF Tick, TypeOK
  <2> QED
    BY <1>1, <2>2 DEF Tick, TypeOK
<1>2. CASE ReapConns
  BY <1>2, ReapFacts, ListedAreConns DEF TypeOK
<1>3. CASE \E c \in Conns : FreeConn(c)
  <2>1. PICK c \in Conns : FreeConn(c)
    BY <1>3
  <2>2. session' \in [Conns -> SessionRecords]
    BY <2>1, SessionTypes DEF FreeConn, TypeOK
  <2> QED
    BY <2>1, <2>2 DEF FreeConn, TypeOK
<1> QED
  BY <1>1, <1>2, <1>3 DEF Clock

LEMMA TypeStep ==
    ASSUME TypeOK, HandsOK, [Next]_vars PROVE TypeOK'
<1>1. CASE UNCHANGED vars
  BY <1>1 DEF vars, TypeOK
<1> QED
  BY <1>1, TypeAccept, TypeReceiver, TypeSender, TypeClock DEF Next

-----------------------------------------------------------------------------
(* The list, and who has a session in hand. *)

\* Three kinds of step change it: a session joins, the clock thread takes the
\* finished ones out, or frees one.
Joins(c) == c \notin Known /\ Listed' = Listed \cup {c} /\ dead' = dead /\ freed' = freed

LEMMA ListCases ==
    ASSUME TypeOK, Next
    PROVE  \/ UNCHANGED listVars
           \/ \E c \in Conns : Joins(c)
           \/ ReapConns
           \/ \E c \in Conns : FreeConn(c)
<1>1. CASE AcceptThread
  <2>1. CASE AcceptInsert
    BY <2>1, InsertFacts DEF AcceptInsert, Joins
  <2> QED
    BY <1>1, <2>1 DEF AcceptThread, Accept, AcceptBegin, AcceptMark
<1>2. CASE Clock
  BY <1>2 DEF Clock, Tick
<1>3. CASE \E c \in Conns : ReceiverThread(c)
  <2>1. PICK c \in Conns : ReceiverThread(c)
    BY <1>3
  <2>2. CASE \E claim \in Nodes \cup {NoNode}, auth \in BOOLEAN : SessInit(c, claim, auth)
    BY <2>2 DEF SessInit
  <2>3. CASE Established(c) \/ Rejected(c) \/ DialOutcome(c) \/ Ending(c)
    BY <2>3 DEF Established, Rejected, DialOutcome, Ending
  <2>4. CASE MessageLoopEnds(c) \/ ConnFail(c) \/ ReceiverDone(c)
    BY <2>4 DEF MessageLoopEnds, ConnFail, ReceiverDone
  <2> QED
    BY <2>1, <2>2, <2>3, <2>4 DEF ReceiverThread
<1>4. CASE \E s \in Senders : Sender(s)
  <2>1. PICK s \in Senders : Sender(s)
    BY <1>4
  <2>2. CASE SenderInsert(s)
    BY <2>2, InsertFacts DEF SenderInsert, Joins
  <2> QED
    BY <2>1, <2>2 DEF Sender, SendTo, FindConn, FindNone, WaitWoken, WaitTimedOut,
                      OpenSession, Connect, SenderBegin, SenderMark, ReleaseConn
<1> QED
  BY <1>1, <1>2, <1>3, <1>4 DEF Next

LEMMA KnownGrows ==
    ASSUME TypeOK, PlacesOK, Next
    PROVE  Known \subseteq Known' /\ Listed' \cap (dead' \cup freed') = {}
<1>1. CASE UNCHANGED listVars
  BY <1>1 DEF Known, Listed, PlacesOK
<1>2. CASE \E c \in Conns : Joins(c)
  BY <1>2 DEF Joins, Known, PlacesOK
<1>3. CASE ReapConns
  BY <1>3, ReapFacts DEF Known, PlacesOK
<1>4. CASE \E c \in Conns : FreeConn(c)
  <2>1. PICK c \in Conns : FreeConn(c)
    BY <1>4
  <2>2. c \in dead /\ Listed' = Listed /\ dead' = dead \ {c} /\ freed' = freed \cup {c}
    BY <2>1 DEF FreeConn, Listed
  <2> QED
    BY <2>2 DEF Known, PlacesOK
<1> QED
  BY <1>1, <1>2, <1>3, <1>4, ListCases

LEMMA HandsStep ==
    ASSUME TypeOK, HandsOK, PlacesOK, Next
    PROVE  HandsOK'
<1>1. Known \subseteq Known'
  BY KnownGrows
<1>2. SUFFICES /\ apc' \in {"begin", "mark"} => aConn' \in Known'
               /\ \A s \in Senders : spc'[s] \in {"begin", "mark", "claimed"}
                                       => sConn'[s] \in Known'
  BY DEF HandsOK
<1>3. CASE AcceptThread
  <2>1. UNCHANGED <<spc, sConn>>
    BY <1>3 DEF AcceptThread, Accept, AcceptInsert, AcceptBegin, AcceptMark
  <2>2. apc' \in {"begin", "mark"} => aConn' \in Known'
    <3>1. CASE AcceptInsert
      BY <3>1, InsertFacts DEF AcceptInsert
    <3> QED
      BY <1>1, <1>3, <3>1 DEF AcceptThread, Accept, AcceptBegin, AcceptMark, HandsOK
  <2> QED
    BY <1>1, <2>1, <2>2 DEF HandsOK
<1>4. CASE Clock \/ \E c \in Conns : ReceiverThread(c)
  <2>1. UNCHANGED <<apc, aConn, spc, sConn>>
    BY <1>4 DEF Clock, Tick, ReapConns, FreeConn, ReceiverThread, SessInit, Established,
                Rejected, DialOutcome, Ending, MessageLoopEnds, ConnFail, ReceiverDone
  <2> QED
    BY <1>1, <2>1 DEF HandsOK
<1>5. CASE \E s \in Senders : Sender(s)
  <2>1. PICK s \in Senders : Sender(s)
    BY <1>5
  <2>2. UNCHANGED <<apc, aConn>> /\ \A t \in Senders : t # s => spc'[t] = spc[t] /\ sConn'[t] = sConn[t]
    BY <2>1 DEF Sender, SendTo, FindConn, FindNone, WaitWoken, WaitTimedOut, OpenSession,
                Connect, SenderInsert, SenderBegin, SenderMark, ReleaseConn, TypeOK
  <2>3. spc'[s] \in {"begin", "mark", "claimed"} => sConn'[s] \in Known'
    <3>1. CASE SenderInsert(s)
      <4>1. CASE spc' = [spc EXCEPT ![s] = "idle"]
        BY <4>1 DEF TypeOK
      <4>2. CASE \E c \in Unused : /\ Insert(c, NewSession(TRUE, Target[s], NoAddr, FALSE))
                                   /\ sConn' = [sConn EXCEPT ![s] = c]
        <5>1. PICK c \in Unused : /\ Insert(c, NewSession(TRUE, Target[s], NoAddr, FALSE))
                                  /\ sConn' = [sConn EXCEPT ![s] = c]
          BY <4>2
        <5>2. c \in Known'
          BY <5>1, InsertFacts
        <5> QED
          BY <5>1, <5>2 DEF TypeOK
      <4> QED
        BY <3>1, <4>1, <4>2 DEF SenderInsert
    <3>2. CASE FindConn(s)
      BY <1>1, <3>2, BestFacts DEF FindConn, TypeOK, Known
    <3>3. CASE SenderBegin(s)
      <4>1. sConn[s] \in Known
        BY <3>3 DEF SenderBegin, HandsOK
      <4>2. \/ spc' = [spc EXCEPT ![s] = "mark"] /\ sConn' = sConn
            \/ spc' = [spc EXCEPT ![s] = "idle"]
        BY <3>3 DEF SenderBegin
      <4>3. spc'[s] \in {"begin", "mark", "claimed"} => sConn' = sConn
        BY <4>2 DEF TypeOK
      <4> QED
        BY <1>1, <4>1, <4>3
    <3>4. CASE SendTo(s) \/ FindNone(s) \/ WaitWoken(s) \/ WaitTimedOut(s)
      BY <3>4 DEF SendTo, FindNone, WaitWoken, WaitTimedOut, TypeOK
    <3>5. CASE OpenSession(s) \/ Connect(s)
      BY <3>5 DEF OpenSession, Connect, TypeOK
    <3>6. CASE SenderMark(s) \/ ReleaseConn(s)
      BY <3>6 DEF SenderMark, ReleaseConn, TypeOK
    <3> QED
      BY <2>1, <3>1, <3>2, <3>3, <3>4, <3>5, <3>6 DEF Sender
  <2> QED
    BY <1>1, <2>2, <2>3 DEF HandsOK
<1> QED
  BY <1>3, <1>4, <1>5 DEF Next

LEMMA PlacesStep ==
    ASSUME TypeOK, HandsOK, PlacesOK, Next
    PROVE  PlacesOK'
<1>1. Known \subseteq Known' /\ Listed' \cap (dead' \cup freed') = {}
  BY KnownGrows
<1>2. SUFFICES ASSUME NEW c \in Conns, receiver'[c] # "none", receiver[c] = "none"
               PROVE  c \in Known
  BY <1>1 DEF PlacesOK
<1>3. CASE AcceptThread
  BY <1>2, <1>3 DEF AcceptThread, Accept, AcceptInsert, AcceptBegin, AcceptMark, HandsOK,
                    TypeOK
<1>4. CASE Clock
  BY <1>2, <1>4 DEF Clock, Tick, ReapConns, FreeConn
<1>5. CASE \E d \in Conns : ReceiverThread(d)
  <2>1. PICK d \in Conns : ReceiverThread(d)
    BY <1>5
  <2>2. CASE \E claim \in Nodes \cup {NoNode}, auth \in BOOLEAN : SessInit(d, claim, auth)
    BY <1>2, <2>2 DEF SessInit, TypeOK
  <2>3. CASE Established(d) \/ Rejected(d) \/ DialOutcome(d) \/ Ending(d)
    BY <1>2, <2>3 DEF Established, Rejected, DialOutcome, Ending, TypeOK
  <2>4. CASE MessageLoopEnds(d) \/ ConnFail(d) \/ ReceiverDone(d)
    BY <1>2, <2>4 DEF MessageLoopEnds, ConnFail, ReceiverDone, TypeOK
  <2> QED
    BY <2>1, <2>2, <2>3, <2>4 DEF ReceiverThread
<1>6. CASE \E s \in Senders : Sender(s)
  <2>1. PICK s \in Senders : Sender(s)
    BY <1>6
  <2>2. SenderBegin(s)
    BY <1>2, <2>1 DEF Sender, SendTo, FindConn, FindNone, WaitWoken, WaitTimedOut,
                      OpenSession, Connect, SenderInsert, SenderMark, ReleaseConn
  <2> QED
    BY <1>2, <2>2 DEF SenderBegin, HandsOK, TypeOK
<1> QED
  BY <1>3, <1>4, <1>5, <1>6 DEF Next

-----------------------------------------------------------------------------
(* Claims: txSenders counts the senders that have claimed a session, so that  *)
(* reapConns, which looks at nothing else, passes over what they hold.        *)

LEMMA ClaimantsFinite == \A c : IsFiniteSet(Claimants(c)) /\ Cardinality(Claimants(c)) \in Nat
<1> SUFFICES ASSUME NEW c
             PROVE  IsFiniteSet(Claimants(c)) /\ Cardinality(Claimants(c)) \in Nat
  OBVIOUS
<1>1. IsFiniteSet(Claimants(c))
  BY FS_Subset, LimitsAssumption DEF Claimants
<1> QED
  BY <1>1, FS_CardinalityType

LEMMA ClaimsStep ==
    ASSUME TypeOK, HandsOK, ClaimsOK, ClaimedIsListed, Next
    PROVE  ClaimsOK' /\ ClaimedIsListed'
<1>1. CASE \E s \in Senders : Sender(s)
  <2>1. PICK s \in Senders : Sender(s)
    BY <1>1
  <2>2. CASE FindConn(s)
    <3>1. PICK b \in Conns : b = Best(Target[s]) /\ b \in Listed
      BY <2>2, BestFacts DEF FindConn
    <3>2. /\ spc[s] = "find" /\ spc' = [spc EXCEPT ![s] = "claimed"]
          /\ sConn' = [sConn EXCEPT ![s] = b]
          /\ txSenders' = [txSenders EXCEPT ![b] = @ + 1] /\ conns' = conns
      BY <2>2, <3>1 DEF FindConn
    <3>3. s \notin Claimants(b) /\ Claimants(b)' = Claimants(b) \cup {s}
      <4>1. /\ \A t \in Senders : t # s => spc'[t] = spc[t] /\ sConn'[t] = sConn[t]
            /\ spc'[s] = "claimed" /\ sConn'[s] = b /\ s \in Senders
        BY <3>2 DEF TypeOK
      <4>2. Claimants(b)' = {t \in Senders : spc'[t] = "claimed" /\ sConn'[t] = b}
        BY DEF Claimants
      <4> QED
        BY <3>1, <3>2, <4>1, <4>2 DEF Claimants
    <3>4. \A c \in Conns : c # b => Claimants(c)' = Claimants(c)
      BY <3>2 DEF Claimants, TypeOK
    <3>5. Cardinality(Claimants(b)') = Cardinality(Claimants(b)) + 1
      BY <3>3, ClaimantsFinite, FS_AddElement
    <3>6. ClaimsOK'
      <4>1. /\ txSenders'[b] = txSenders[b] + 1
            /\ \A c \in Conns : c # b => txSenders'[c] = txSenders[c]
        BY <3>1, <3>2 DEF TypeOK
      <4>2. txSenders'[b] = Cardinality(Claimants(b)')
        BY <3>1, <3>5, <4>1 DEF ClaimsOK
      <4>3. ASSUME NEW c \in Conns PROVE txSenders'[c] = Cardinality(Claimants(c)')
        BY <3>4, <4>1, <4>2 DEF ClaimsOK
      <4> QED
        BY <4>3 DEF ClaimsOK
    <3>7. ClaimedIsListed'
      BY <3>1, <3>2 DEF ClaimedIsListed, TypeOK, Listed
    <3> QED
      BY <3>6, <3>7
  <2>3. CASE ReleaseConn(s)
    <3>1. PICK b \in Conns : b = sConn[s]
      BY <2>3, ListedAreConns DEF ReleaseConn, HandsOK
    <3>2. /\ spc[s] = "claimed" /\ spc' = [spc EXCEPT ![s] = "idle"]
          /\ sConn[s] = b /\ sConn' = [sConn EXCEPT ![s] = NoConn]
          /\ txSenders' = [txSenders EXCEPT ![b] = @ - 1] /\ conns' = conns
      BY <2>3, <3>1 DEF ReleaseConn
    <3>3. s \in Claimants(b) /\ Claimants(b)' = Claimants(b) \ {s}
      <4>1. /\ \A t \in Senders : t # s => spc'[t] = spc[t] /\ sConn'[t] = sConn[t]
            /\ spc'[s] = "idle" /\ s \in Senders
        BY <3>2 DEF TypeOK
      <4>2. Claimants(b)' = {t \in Senders : spc'[t] = "claimed" /\ sConn'[t] = b}
        BY DEF Claimants
      <4> QED
        BY <3>1, <3>2, <4>1, <4>2 DEF Claimants
    <3>4. \A c \in Conns : c # b => Claimants(c)' = Claimants(c)
      BY <3>2 DEF Claimants, TypeOK
    <3>5. Cardinality(Claimants(b)') = Cardinality(Claimants(b)) - 1
      BY <3>3, ClaimantsFinite, FS_RemoveElement
    <3>6. ClaimsOK'
      <4>1. /\ txSenders'[b] = txSenders[b] - 1
            /\ \A c \in Conns : c # b => txSenders'[c] = txSenders[c]
        BY <3>1, <3>2 DEF TypeOK
      <4>2. txSenders'[b] = Cardinality(Claimants(b)')
        BY <3>1, <3>5, <4>1 DEF ClaimsOK
      <4>3. ASSUME NEW c \in Conns PROVE txSenders'[c] = Cardinality(Claimants(c)')
        BY <3>4, <4>1, <4>2 DEF ClaimsOK
      <4> QED
        BY <4>3 DEF ClaimsOK
    <3>7. ClaimedIsListed'
      BY <3>1, <3>2 DEF ClaimedIsListed, TypeOK, Listed
    <3> QED
      BY <3>6, <3>7
  <2>4. CASE ~FindConn(s) /\ ~ReleaseConn(s)
    <3>1. /\ txSenders' = txSenders /\ Listed \subseteq Listed'
          /\ \A t \in Senders : t # s => spc'[t] = spc[t] /\ sConn'[t] = sConn[t]
          /\ spc[s] # "claimed" /\ spc'[s] # "claimed"
      <4>1. CASE SendTo(s) \/ FindNone(s) \/ WaitWoken(s) \/ WaitTimedOut(s)
        BY <4>1 DEF SendTo, FindNone, WaitWoken, WaitTimedOut, TypeOK, Listed
      <4>2. CASE OpenSession(s) \/ Connect(s)
        BY <4>2 DEF OpenSession, Connect, TypeOK, Listed
      <4>3. CASE SenderBegin(s) \/ SenderMark(s)
        BY <4>3 DEF SenderBegin, SenderMark, TypeOK, Listed
      <4>4. CASE SenderInsert(s)
        <5>1. Listed \subseteq Listed'
          BY <4>4, InsertFacts DEF SenderInsert, Listed
        <5> QED
          BY <4>4, <5>1 DEF SenderInsert, TypeOK
      <4> QED
        BY <2>1, <2>4, <4>1, <4>2, <4>3, <4>4 DEF Sender
    <3>2. \A c \in Conns : Claimants(c)' = Claimants(c)
      BY <3>1 DEF Claimants
    <3>3. ClaimsOK'
      BY <3>1, <3>2 DEF ClaimsOK
    <3>4. ClaimedIsListed'
      BY <3>1 DEF ClaimedIsListed
    <3> QED
      BY <3>3, <3>4
  <2> QED
    BY <2>2, <2>3, <2>4
<1>2. CASE ReapConns
  <2>1. /\ Listed' = Listed \ dead' /\ dead' = {c \in Listed : Reapable(c)}
        /\ UNCHANGED <<txSenders, spc, sConn>>
    BY <1>2, ReapFacts
  <2>2. ASSUME NEW s \in Senders, spc[s] = "claimed" PROVE sConn[s] \notin dead'
    <3>1. sConn[s] \in Conns /\ s \in Claimants(sConn[s])
      BY <2>2, ListedAreConns DEF ClaimedIsListed, Claimants
    <3>2. Cardinality(Claimants(sConn[s])) # 0
      BY <3>1, ClaimantsFinite, FS_EmptySet
    <3> QED
      BY <2>1, <3>1, <3>2 DEF ClaimsOK, Reapable
  <2>3. \A c : Claimants(c)' = Claimants(c)
    BY <2>1 DEF Claimants
  <2> QED
    BY <2>1, <2>2, <2>3 DEF ClaimsOK, ClaimedIsListed
<1>3. CASE AcceptThread \/ Tick \/ (\E c \in Conns : FreeConn(c))
           \/ \E c \in Conns : ReceiverThread(c)
  <2>1. UNCHANGED <<txSenders, spc, sConn>> /\ Listed \subseteq Listed'
    <3>1. CASE AcceptInsert
      <4>1. Listed \subseteq Listed'
        BY <3>1, InsertFacts DEF AcceptInsert, Listed
      <4> QED
        BY <3>1, <4>1 DEF AcceptInsert
    <3>2. CASE (\E a \in Addrs : Accept(a)) \/ AcceptBegin \/ AcceptMark
      BY <3>2 DEF Accept, AcceptBegin, AcceptMark, Listed
    <3>3. CASE Tick \/ \E c \in Conns : FreeConn(c)
      BY <3>3 DEF Tick, FreeConn, Listed
    <3>4. CASE \E c \in Conns : ReceiverThread(c)
      BY <3>4 DEF ReceiverThread, SessInit, Established, Rejected, DialOutcome, Ending,
                  MessageLoopEnds, ConnFail, ReceiverDone, Listed
    <3> QED
      BY <1>3, <3>1, <3>2, <3>3, <3>4 DEF AcceptThread
  <2>2. \A c : Claimants(c)' = Claimants(c)
    BY <2>1 DEF Claimants
  <2> QED
    BY <2>1, <2>2 DEF ClaimsOK, ClaimedIsListed
<1> QED
  BY <1>1, <1>2, <1>3 DEF Next, Clock

-----------------------------------------------------------------------------
(* The limit: who opened a session, and whether it was within the limit, is *)
(* settled when it joins the list.                                          *)

RolesKept ==
    /\ conns' = conns
    /\ \A c \in Conns : /\ session'[c].activeRole = session[c].activeRole
                        /\ session'[c].busy = session[c].busy

LEMMA BeginKeeps ==
    ASSUME TypeOK, NEW c \in Conns, UNCHANGED conns,
           \/ session' = session
           \/ session' = [session EXCEPT ![c] = Stillborn(c)]
           \/ session' = [session EXCEPT ![c].hasReceiver = TRUE]
    PROVE  RolesKept /\ \A d \in Conns : session'[d].state = session[d].state
<1>1. session \in [Conns -> SessionRecords] /\ session[c] \in SessionRecords
  BY DEF TypeOK
<1>2. \A r \in SessionRecords :
         LET q == [r EXCEPT !.failed = TRUE, !.receiverDone = TRUE]
             h == [r EXCEPT !.hasReceiver = TRUE]
         IN /\ q.activeRole = r.activeRole /\ q.busy = r.busy /\ q.state = r.state
            /\ h.activeRole = r.activeRole /\ h.busy = r.busy /\ h.state = r.state
  BY DEF SessionRecords
<1>3. CASE session' = session
  BY <1>3 DEF RolesKept
<1>4. CASE session' = [session EXCEPT ![c] = Stillborn(c)]
  BY <1>1, <1>2, <1>4 DEF RolesKept, Stillborn
<1>5. CASE session' = [session EXCEPT ![c].hasReceiver = TRUE]
  BY <1>1, <1>2, <1>5 DEF RolesKept
<1> QED
  BY <1>3, <1>4, <1>5

LEMMA ReceiverKeeps ==
    ASSUME TypeOK, BusyOK, NEW c \in Conns, ReceiverThread(c)
    PROVE  RolesKept /\ BusyOK'
<1>1. session \in [Conns -> SessionRecords] /\ session[c] \in SessionRecords
  BY DEF TypeOK
<1>2. CASE \E claim \in Nodes \cup {NoNode}, auth \in BOOLEAN : SessInit(c, claim, auth)
  <2>1. PICK claim \in Nodes \cup {NoNode}, auth \in BOOLEAN : SessInit(c, claim, auth)
    BY <1>2
  <2> DEFINE n == RouteNode(c, claim, auth)
  <2>2. /\ ~session[c].busy /\ conns' = conns
        /\ session' = [session EXCEPT ![c].routeNode = n, ![c].authenticated = auth]
        /\ receiver' = [receiver EXCEPT ![c] = "agreed"]
    BY <2>1 DEF SessInit
  <2> HIDE DEF n
  <2>3. RolesKept /\ \A d \in Conns : session'[d].state = session[d].state
    BY <1>1, <2>2 DEF RolesKept, SessionRecords
  <2>4. \A d \in Conns : d # c => receiver'[d] = receiver[d]
    BY <2>2 DEF TypeOK
  <2> QED
    BY <2>2, <2>3, <2>4 DEF RolesKept, BusyOK
<1>3. CASE Established(c)
  <2>1. /\ receiver[c] = "agreed" /\ conns' = conns
        /\ session' = [session EXCEPT ![c].state = "ESTABLISHED"]
        /\ receiver' = [receiver EXCEPT ![c] = "established"]
    BY <1>3 DEF Established
  <2>2. RolesKept /\ \A d \in Conns : d # c => session'[d].state = session[d].state
    BY <1>1, <2>1 DEF RolesKept, SessionRecords
  <2>3. \A d \in Conns : d # c => receiver'[d] = receiver[d]
    BY <2>1 DEF TypeOK
  <2> QED
    BY <2>1, <2>2, <2>3 DEF RolesKept, BusyOK
<1>4. CASE Ending(c) \/ ConnFail(c)
  <2>1. /\ receiver' = receiver /\ conns' = conns
        /\ \/ session' = [session EXCEPT ![c].state = "ENDING"]
           \/ session' = [session EXCEPT ![c].failed = TRUE]
    BY <1>4 DEF Ending, ConnFail
  <2>2. /\ RolesKept
        /\ \A d \in Conns : session'[d].state \in {session[d].state, "ENDING"}
    BY <1>1, <2>1 DEF RolesKept, SessionRecords
  <2> QED
    BY <2>1, <2>2 DEF RolesKept, BusyOK
<1>5. CASE Rejected(c) \/ MessageLoopEnds(c) \/ DialOutcome(c)
  <2>1. /\ conns' = conns /\ session' = session
        /\ \A d \in Conns : receiver'[d] \in {receiver[d], "rejected", "ended"}
                            \/ receiver[d] = "established"
    BY <1>5 DEF Rejected, MessageLoopEnds, DialOutcome, TypeOK
  <2> QED
    BY <2>1 DEF RolesKept, BusyOK
<1>6. CASE ReceiverDone(c)
  <2>1. /\ conns' = conns
        /\ session' = [session EXCEPT ![c].failed = TRUE, ![c].receiverDone = TRUE]
        /\ receiver' = [receiver EXCEPT ![c] = "exited"]
    BY <1>6 DEF ReceiverDone
  <2>2. RolesKept /\ \A d \in Conns : session'[d].state = session[d].state
    BY <1>1, <2>1 DEF RolesKept, SessionRecords
  <2>3. \A d \in Conns : receiver'[d] \in {receiver[d], "exited"}
    BY <2>1 DEF TypeOK
  <2> QED
    BY <2>1, <2>2, <2>3 DEF RolesKept, BusyOK
<1> QED
  BY <1>2, <1>3, <1>4, <1>5, <1>6 DEF ReceiverThread

LEMMA InsertKeeps ==
    ASSUME TypeOK, PlacesOK, BusyOK, NEW c \in Unused, NEW fields,
           Insert(c, fields), fields.state = "NEGOTIATING", receiver' = receiver
    PROVE  /\ BusyOK'
           /\ session'[c] = fields /\ \A d \in Conns : d # c => session'[d] = session[d]
<1>1. /\ c \notin Known /\ c \in Conns
      /\ session' = [session EXCEPT ![c] = fields]
  BY InsertFacts
<1>2. /\ session'[c] = fields /\ \A d \in Conns : d # c => session'[d] = session[d]
  BY <1>1 DEF TypeOK
<1>3. receiver[c] = "none"
  BY <1>1 DEF PlacesOK
<1> QED
  BY <1>1, <1>2, <1>3 DEF BusyOK

\* The steps of the engine, by what they do to the sessions within the limit.
LEMMA LimitCases ==
    ASSUME TypeOK, HandsOK, PlacesOK, BusyOK, Next
    PROVE  /\ BusyOK'
           /\ \/ (\E a \in Addrs : Accept(a)) \/ AcceptInsert
              \/ /\ Admitted' \subseteq Admitted
                 /\ apc' = "insert" => apc = "insert" /\ aBusy' = aBusy
<1>1. ASSUME RolesKept PROVE Admitted' = Admitted
  <2>1. Listed' = Listed /\ Listed \subseteq Conns
    BY <1>1, ListedAreConns DEF RolesKept, Listed
  <2> QED
    BY <1>1, <2>1 DEF RolesKept, Admitted
<1>2. ASSUME session' = session, receiver' = receiver PROVE BusyOK'
  BY <1>2 DEF BusyOK
<1>3. CASE \E a \in Addrs : Accept(a)
  BY <1>2, <1>3 DEF Accept
<1>4. CASE AcceptInsert
  <2>1. receiver' = receiver
    BY <1>4 DEF AcceptInsert
  <2>2. CASE session' = session
    BY <1>2, <1>4, <2>1, <2>2
  <2>3. CASE \E c \in Unused : Insert(c, NewSession(FALSE, NoNode, aAddr, aBusy))
    BY <1>4, <2>1, <2>3, InsertKeeps DEF NewSession
  <2> QED
    BY <1>4, <2>2, <2>3 DEF AcceptInsert
<1>5. CASE AcceptBegin \/ AcceptMark
  <2>1. aConn \in Conns
    BY <1>5, ListedAreConns DEF AcceptBegin, AcceptMark, HandsOK
  <2>2. RolesKept /\ \A d \in Conns : session'[d].state = session[d].state
    <3>1. PICK c \in Conns : c = aConn
      BY <2>1
    <3> QED
      BY <1>5, <3>1, BeginKeeps DEF AcceptBegin, AcceptMark
  <2>3. /\ \A d \in Conns : receiver'[d] \in {receiver[d], "negotiating"}
        /\ apc' # "insert"
    BY <1>5 DEF AcceptBegin, AcceptMark, TypeOK
  <2>4. BusyOK'
    BY <2>2, <2>3 DEF BusyOK, RolesKept
  <2> QED
    BY <1>1, <2>2, <2>3, <2>4
<1>6. CASE \E c \in Conns : ReceiverThread(c)
  <2>1. UNCHANGED <<apc, aBusy>>
    BY <1>6 DEF ReceiverThread, SessInit, Established, Rejected, DialOutcome, Ending,
                MessageLoopEnds, ConnFail, ReceiverDone
  <2> QED
    BY <1>1, <1>6, <2>1, ReceiverKeeps
<1>7. CASE Tick \/ ReapConns
  <2>1. UNCHANGED <<apc, aBusy, session, receiver>>
    BY <1>7 DEF Tick, ReapConns
  <2>2. Listed' \subseteq Listed
    BY <1>7, ReapFacts DEF Tick, Listed
  <2>3. Admitted' \subseteq Admitted
    BY <2>1, <2>2 DEF Admitted
  <2> QED
    BY <1>2, <2>1, <2>3
<1>8. CASE \E c \in Conns : FreeConn(c)
  <2>1. PICK c \in Conns : FreeConn(c)
    BY <1>8
  <2>2. /\ c \in dead /\ Listed' = Listed /\ UNCHANGED <<apc, aBusy, receiver>>
        /\ session' = [session EXCEPT ![c] = Remains(c)]
    BY <2>1 DEF FreeConn, Listed
  <2>3. c \notin Listed /\ Listed \subseteq Conns
    BY <2>2, ListedAreConns DEF PlacesOK
  <2>4. ~Remains(c).busy /\ \A d \in Conns : d # c => session'[d] = session[d]
    BY <2>2 DEF Remains, NewSession, TypeOK
  <2>5. session'[c] = Remains(c)
    BY <2>2 DEF TypeOK
  <2>6. Admitted' \subseteq Admitted
    BY <2>2, <2>3, <2>4 DEF Admitted
  <2>7. BusyOK'
    BY <2>2, <2>4, <2>5 DEF BusyOK
  <2> QED
    BY <2>2, <2>6, <2>7
<1>9. CASE \E s \in Senders : Sender(s)
  <2>1. PICK s \in Senders : Sender(s)
    BY <1>9
  <2>2. UNCHANGED <<apc, aBusy>>
    BY <2>1 DEF Sender, SendTo, FindConn, FindNone, WaitWoken, WaitTimedOut, OpenSession,
                Connect, SenderInsert, SenderBegin, SenderMark, ReleaseConn
  <2>3. CASE SenderInsert(s)
    <3>1. receiver' = receiver
      BY <2>3 DEF SenderInsert
    <3>2. CASE UNCHANGED <<listVars, session>>
      <4>1. RolesKept
        BY <3>2 DEF RolesKept
      <4> QED
        BY <1>1, <1>2, <2>2, <3>1, <3>2, <4>1
    <3>3. CASE \E c \in Unused : Insert(c, NewSession(TRUE, Target[s], NoAddr, FALSE))
      <4> DEFINE fields == NewSession(TRUE, Target[s], NoAddr, FALSE)
      <4>1. PICK c \in Unused : Insert(c, fields)
        BY <3>3
      <4>2. fields.state = "NEGOTIATING" /\ fields.activeRole
        BY DEF NewSession
      <4> HIDE DEF fields
      <4>3. /\ BusyOK'
            /\ session'[c] = fields /\ \A d \in Conns : d # c => session'[d] = session[d]
        BY <3>1, <4>1, <4>2, InsertKeeps
      <4>4. Listed' = Listed \cup {c} /\ Listed \subseteq Conns
        BY <4>1, InsertFacts, ListedAreConns
      <4>5. Admitted' \subseteq Admitted
        BY <4>2, <4>3, <4>4 DEF Admitted
      <4> QED
        BY <2>2, <4>3, <4>5
    <3> QED
      BY <2>3, <3>2, <3>3 DEF SenderInsert
  <2>4. CASE SenderBegin(s) \/ SenderMark(s)
    <3>1. PICK c \in Conns : c = sConn[s]
      BY <2>4, ListedAreConns DEF SenderBegin, SenderMark, HandsOK
    <3>2. /\ UNCHANGED conns
          /\ \/ session' = session
             \/ session' = [session EXCEPT ![c] = Stillborn(c)]
             \/ session' = [session EXCEPT ![c].hasReceiver = TRUE]
          /\ receiver' = receiver \/ receiver' = [receiver EXCEPT ![c] = "negotiating"]
      BY <2>4, <3>1 DEF SenderBegin, SenderMark
    <3>3. RolesKept /\ \A d \in Conns : session'[d].state = session[d].state
      BY <3>2, BeginKeeps
    <3>4. \A d \in Conns : receiver'[d] \in {receiver[d], "negotiating"}
      BY <3>2 DEF TypeOK
    <3>5. BusyOK'
      BY <3>3, <3>4 DEF BusyOK, RolesKept
    <3> QED
      BY <1>1, <2>2, <3>3, <3>5
  <2>5. CASE ~SenderInsert(s) /\ ~SenderBegin(s) /\ ~SenderMark(s)
    <3>1. UNCHANGED <<conns, session, receiver>>
      BY <2>1, <2>5 DEF Sender, SendTo, FindConn, FindNone, WaitWoken, WaitTimedOut,
                        OpenSession, Connect, ReleaseConn
    <3>2. RolesKept
      BY <3>1 DEF RolesKept
    <3> QED
      BY <1>1, <1>2, <2>2, <3>1, <3>2
  <2> QED
    BY <2>3, <2>4, <2>5
<1> QED
  BY <1>3, <1>4, <1>5, <1>6, <1>7, <1>8, <1>9 DEF Next, AcceptThread, Clock

LEMMA ListedFinite ==
    ASSUME TypeOK
    PROVE  /\ IsFiniteSet(Listed) /\ Cardinality(Listed) <= Len(conns)
           /\ IsFiniteSet(Admitted) /\ Cardinality(Admitted) <= Len(conns)
           /\ Cardinality(Admitted) \in Nat /\ Len(conns) \in Nat
<1> DEFINE n == Len(conns)
<1>1. n \in Nat /\ conns \in [1 .. n -> Listed] /\ \A c \in Listed : \E i \in 1 .. n : conns[i] = c
  BY ListedIsRange DEF TypeOK, Range
<1> HIDE DEF n
<1>2. conns \in Surjection(1 .. n, Listed)
  BY <1>1 DEF Surjection
<1>3. ExistsSurjection(1 .. n, Listed)
  BY <1>2 DEF ExistsSurjection
<1>4. Cardinality(Listed) <= n
  BY <1>1, <1>3, FS_SurjCardinalityBound
<1>5. IsFiniteSet(1 .. n)
  BY <1>1, FS_Interval
<1>6. IsFiniteSet(Listed)
  BY <1>2, <1>5, FS_Surjection
<1>7. Admitted \subseteq Listed
  BY DEF Admitted
<1>8. IsFiniteSet(Admitted) /\ Cardinality(Admitted) <= Cardinality(Listed)
  BY <1>6, <1>7, FS_Subset
<1>9. Cardinality(Admitted) \in Nat /\ Cardinality(Listed) \in Nat
  BY <1>6, <1>8, FS_CardinalityType
<1> QED
  BY <1>1, <1>4, <1>6, <1>8, <1>9 DEF n

LEMMA AdmittedStep ==
    ASSUME TypeOK, HandsOK, PlacesOK, BusyOK, AdmittedOK, Next
    PROVE  BusyOK' /\ AdmittedOK'
<1>1. BusyOK'
  BY LimitCases
<1>2. /\ IsFiniteSet(Admitted) /\ Cardinality(Admitted) <= Len(conns)
      /\ Cardinality(Admitted) \in Nat /\ Len(conns) \in Nat /\ MaxSessions \in Nat
  BY ListedFinite, LimitsAssumption
<1>3. CASE \E a \in Addrs : Accept(a)
  <2>1. UNCHANGED <<conns, session>> /\ apc' = "insert" /\ aBusy' = Busy /\ apc = "poll"
    BY <1>3 DEF Accept
  <2>2. Admitted' = Admitted
    BY <2>1 DEF Admitted, Listed
  <2>3. CASE Busy
    <3>1. Admitting' = 0 /\ Admitting = 0
      BY <2>1, <2>3 DEF Admitting
    <3> QED
      BY <1>1, <2>2, <3>1 DEF AdmittedOK
  <2>4. CASE ~Busy
    <3>1. Admitting' = 1
      BY <2>1, <2>4 DEF Admitting
    <3>2. Len(conns) < MaxSessions
      BY <1>2, <2>4 DEF Busy
    <3>3. Cardinality(Admitted) + 1 <= MaxSessions
      BY <1>2, <3>2
    <3> QED
      BY <1>1, <2>2, <3>1, <3>3 DEF AdmittedOK
  <2> QED
    BY <2>3, <2>4
<1>4. CASE AcceptInsert
  <2>1. Admitting' = 0 /\ apc = "insert" /\ receiver' = receiver
    BY <1>4 DEF AcceptInsert, Admitting
  <2>2. CASE UNCHANGED <<listVars, session>>
    <3>1. Admitted' = Admitted
      BY <2>2 DEF Admitted, Listed
    <3>2. Admitting \in 0 .. 1
      BY DEF Admitting
    <3> QED
      BY <1>1, <1>2, <2>1, <3>1, <3>2 DEF AdmittedOK
  <2>3. CASE \E c \in Unused : Insert(c, NewSession(FALSE, NoNode, aAddr, aBusy))
    <3> DEFINE fields == NewSession(FALSE, NoNode, aAddr, aBusy)
    <3>1. PICK c \in Unused : Insert(c, fields)
      BY <2>3
    <3>2. fields.state = "NEGOTIATING" /\ ~fields.activeRole /\ fields.busy = aBusy
      BY DEF NewSession
    <3> HIDE DEF fields
    <3>3. session'[c] = fields /\ \A d \in Conns : d # c => session'[d] = session[d]
      BY <2>1, <3>1, <3>2, InsertKeeps
    <3>4. Listed' = Listed \cup {c} /\ Listed \subseteq Conns /\ c \notin Listed
      BY <3>1, InsertFacts, ListedAreConns DEF Known
    <3>5. CASE aBusy
      <4>1. Admitted' = Admitted
        BY <3>2, <3>3, <3>4, <3>5 DEF Admitted
      <4>2. Admitting = 0
        BY <3>5 DEF Admitting
      <4> QED
        BY <1>1, <2>1, <4>1, <4>2 DEF AdmittedOK
    <3>6. CASE ~aBusy
      <4>1. Admitted' = Admitted \cup {c} /\ c \notin Admitted
        BY <3>2, <3>3, <3>4, <3>6 DEF Admitted
      <4>2. Admitting = 1
        BY <2>1, <3>6 DEF Admitting
      <4>3. Cardinality(Admitted') = Cardinality(Admitted) + 1
        BY <1>2, <4>1, FS_AddElement
      <4>4. Cardinality(Admitted') + Admitting' <= MaxSessions
        BY <1>2, <2>1, <4>2, <4>3 DEF AdmittedOK
      <4> QED
        BY <1>1, <4>4 DEF AdmittedOK
    <3> QED
      BY <3>5, <3>6
  <2> QED
    BY <1>4, <2>2, <2>3 DEF AcceptInsert
<1>5. CASE Admitted' \subseteq Admitted /\ (apc' = "insert" => apc = "insert" /\ aBusy' = aBusy)
  <2>1. Cardinality(Admitted') <= Cardinality(Admitted) /\ Cardinality(Admitted') \in Nat
    BY <1>2, <1>5, FS_Subset, FS_CardinalityType
  <2>2. Admitting \in 0 .. 1 /\ Admitting' \in 0 .. 1 /\ Admitting' <= Admitting
    BY <1>5 DEF Admitting
  <2>3. Cardinality(Admitted') + Admitting' <= MaxSessions
    BY <1>2, <2>1, <2>2 DEF AdmittedOK
  <2> QED
    BY <1>1, <2>3 DEF AdmittedOK
<1> QED
  BY <1>3, <1>4, <1>5, LimitCases

-----------------------------------------------------------------------------
(* The invariant is inductive, and what follows from it. *)

LEMMA EngineInvInit == Init => EngineInv
<1> SUFFICES ASSUME Init PROVE EngineInv
  OBVIOUS
<1>1. TypeOK
  BY TypeInit
<1>2. Listed = {} /\ Known = {}
  <2>1. Listed = {}
    BY ListedIsRange DEF Init, Range
  <2> QED
    BY <2>1 DEF Init, Known
<1>3. HandsOK /\ PlacesOK /\ ClaimedIsListed
  BY <1>2 DEF Init, HandsOK, PlacesOK, ClaimedIsListed
<1>4. ClaimsOK
  <2>1. \A c : Claimants(c) = {}
    BY DEF Init, Claimants
  <2> QED
    BY <2>1, FS_EmptySet DEF Init, ClaimsOK
<1>5. BusyOK
  BY DEF Init, BusyOK, NewSession
<1>6. AdmittedOK
  <2>1. Admitted = {} /\ Admitting = 0
    BY <1>2 DEF Init, Admitted, Admitting
  <2> QED
    BY <2>1, FS_EmptySet, LimitsAssumption DEF AdmittedOK
<1> QED
  BY <1>1, <1>3, <1>4, <1>5, <1>6 DEF EngineInv

LEMMA EngineInvStep == EngineInv /\ [Next]_vars => EngineInv'
<1> SUFFICES ASSUME EngineInv, [Next]_vars PROVE EngineInv'
  OBVIOUS
<1>1. CASE Next
  BY <1>1, TypeStep, HandsStep, PlacesStep, ClaimsStep, AdmittedStep DEF EngineInv
<1>2. CASE UNCHANGED vars
  <2>1. TypeOK' /\ HandsOK' /\ PlacesOK' /\ ClaimedIsListed' /\ BusyOK'
    BY <1>2 DEF vars, EngineInv, TypeOK, HandsOK, PlacesOK, ClaimedIsListed, BusyOK, Known, Listed
  <2>2. ClaimsOK'
    BY <1>2 DEF vars, EngineInv, ClaimsOK, Claimants
  <2>3. AdmittedOK'
    BY <1>2 DEF vars, EngineInv, AdmittedOK, Admitted, Admitting, Listed
  <2> QED
    BY <2>1, <2>2, <2>3 DEF EngineInv
<1> QED
  BY <1>1, <1>2

\* EngineInv holds in every reachable state of the engine's accept, sender, receiver
\* and clock threads.
THEOREM EngineInvariant == Spec => []EngineInv
BY EngineInvInit, EngineInvStep, PTL DEF Spec

\* Type correctness of the engine: the list holds session records, a session's
\* fields keep their types, the reconnection interval stays between one second and
\* TCPV4_MAX_RECONNECT, and what a thread has in hand is a record.
THEOREM EngineTypeCorrect == Spec => []TypeOK
<1>1. EngineInv => TypeOK
  BY DEF EngineInv
<1> QED
  BY <1>1, EngineInvariant, PTL

\* A session a sender has claimed is not unlinked under it, however many senders,
\* sessions and failures there are (findConn, releaseConn and reapConns).
THEOREM EngineClaimedIsListed == Spec => []ClaimedIsListed
<1>1. EngineInv => ClaimedIsListed
  BY DEF EngineInv
<1> QED
  BY <1>1, EngineInvariant, PTL

\* txSenders is the number of senders that have claimed the session, never less.
THEOREM EngineClaimsCounted == Spec => []ClaimsOK
<1>1. EngineInv => ClaimsOK
  BY DEF EngineInv
<1> QED
  BY <1>1, EngineInvariant, PTL

\* Peers hold at most e->maxSessions established sessions, whatever the limit, the
\* slack for those that are told we are busy, and the sessions this node dials.
THEOREM EngineSessionsBounded == Spec => []SessionsBounded
<1>1. ASSUME EngineInv PROVE SessionsBounded
  <2> DEFINE up == {c \in Listed : /\ ~session[c].activeRole
                                   /\ Live(c)
                                   /\ session[c].state = "ESTABLISHED"}
  <2>1. up \subseteq Admitted
    BY <1>1, ListedAreConns DEF EngineInv, BusyOK, Admitted
  <2>2. IsFiniteSet(Admitted) /\ Cardinality(Admitted) \in Nat
    BY <1>1, ListedFinite DEF EngineInv
  <2>3. Cardinality(up) <= Cardinality(Admitted) /\ Cardinality(up) \in Nat
    BY <2>1, <2>2, FS_Subset, FS_CardinalityType
  <2>4. Cardinality(Admitted) <= MaxSessions
    <3>1. Admitting \in Nat /\ MaxSessions \in Nat
      BY LimitsAssumption DEF Admitting
    <3> QED
      BY <1>1, <2>2, <3>1 DEF EngineInv, AdmittedOK
  <2>5. Cardinality(up) <= MaxSessions
    BY <2>2, <2>3, <2>4, LimitsAssumption
  <2> QED
    BY <2>5 DEF SessionsBounded
<1> QED
  BY <1>1, EngineInvariant, PTL
=============================================================================
