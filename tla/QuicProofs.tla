----------------------------- MODULE QuicProofs -----------------------------
(***************************************************************************)
(* Proofs about the quic convergence layer: the connections of an engine   *)
(* (QuicEngine), for any number of sender threads and connections and any  *)
(* peers; then the bundles on a connection (QuicXfer), for any bundles,    *)
(* segment size and losses.                                                *)
(***************************************************************************)
EXTENDS QuicEngine, QuicXfer, ListFacts, SequenceTheorems

USE DEF poolVars, sendVars, ioVars

-----------------------------------------------------------------------------
(* The connections: the inductive invariant. *)

ConnRecords ==
    [role : {"none", "client", "server", "any", "freed"},
     phase : {"new", "init", "open"},
     sess : {"connecting", "established", "ending"},
     peer : Nodes \cup {NoNode}, failed : BOOLEAN, busy : BOOLEAN]

QuicTypeOK ==
    /\ conns \in Seq(Conns)
    /\ conn \in [Conns -> ConnRecords]
    /\ freed \subseteq Conns
    /\ spc \in [Senders -> {"none", "starting", "idle", "seek", "dial", "connect",
                            "wait", "ended"}]
    /\ sConn \in [Senders -> Conns \cup {NoConn}]
    /\ iopc \in {"poll", "stalled", "reap", "exited"}
    /\ ioConn \in Conns \cup {NoConn}
    /\ mpc \in {"run", "join", "stop", "ended"}

\* A connection is on the list once, and not after it was freed; a record in use
\* is not taken for a new connection.
PoolOK ==
    /\ \A i, j \in DOMAIN conns : conns[i] = conns[j] => i = j
    /\ \A i \in DOMAIN conns : conns[i] \notin freed /\ conn[conns[i]].role # "none"
    /\ \A c \in freed : conn[c].role # "none"

\* sendBusy pins: what a sender holds is on the list and busy, and no two senders
\* hold the same connection.
PinsOK ==
    /\ \A s \in Senders :
          Holding(s) => sConn[s] \in Listed /\ conn[sConn[s]].busy
    /\ \A s, t \in Senders :
          Holding(s) /\ Holding(t) /\ sConn[s] = sConn[t] => s = t

\* What the I/O thread is about to remove is on the list and nobody's.
ReapOK == iopc = "reap" => ioConn \in Listed /\ ~conn[ioConn].busy

\* The engine is stopped by a daemon whose senders have ended.
StopOK ==
    mpc \in {"stop", "ended"} => \A s \in Senders : spc[s] \in {"none", "ended"}

PoolInv == QuicTypeOK /\ PoolOK /\ PinsOK /\ ReapOK /\ StopOK

\* Once the race has happened nothing is claimed any more.
QuicInv == raced = TRUE \/ (raced = FALSE /\ PoolInv)

LEMMA BusyRecord ==
    ASSUME NEW r \in ConnRecords, NEW v \in BOOLEAN
    PROVE  [r EXCEPT !.busy = v] \in ConnRecords
BY DEF ConnRecords

LEMMA ListedAreConns == QuicTypeOK => Listed \subseteq Conns
BY DEF QuicTypeOK, Listed, Range

LEMMA QuicInvInit == QuicEngineInit => QuicInv
<1> SUFFICES ASSUME QuicEngineInit PROVE PoolInv /\ raced = FALSE
  BY DEF QuicInv
<1> USE DEF QuicEngineInit
<1>1. QuicTypeOK
  BY QuicEngineAssumption DEF QuicTypeOK, ConnRecords, Fresh, NoConn
<1>2. PoolOK /\ PinsOK /\ ReapOK /\ StopOK
  BY DEF PoolOK, PinsOK, ReapOK, StopOK, Holding, Listed, Range
<1> QED
  BY <1>1, <1>2 DEF PoolInv

-----------------------------------------------------------------------------
(* Steps that touch neither the connections nor the pins. *)

\* What the parts of the invariant about the pool look at.
LEMMA SenderQuiet ==
    ASSUME PoolInv, NEW s \in Senders,
           spc' \in [Senders -> {"none", "starting", "idle", "seek", "dial", "connect",
                            "wait", "ended"}],
           \A t \in Senders : Holding(t)' => Holding(t) /\ sConn'[t] = sConn[t],
           \A t \in Senders : spc[t] \in {"none", "ended"} => spc'[t] \in {"none", "ended"},
           sConn' \in [Senders -> Conns \cup {NoConn}],
           UNCHANGED <<conns, conn, freed, iopc, ioConn>>,
           mpc' \in {"run", "join"} \/ mpc' = mpc
    PROVE  PoolInv'
<1> USE DEF PoolInv
<1>1. QuicTypeOK'
  BY DEF QuicTypeOK
<1>2. PoolOK' /\ ReapOK'
  BY DEF PoolOK, ReapOK, Listed
<1>3. PinsOK'
  BY DEF PinsOK, Listed, Holding
<1>4. StopOK'
  BY DEF StopOK
<1> QED
  BY <1>1, <1>2, <1>3, <1>4

LEMMA SenderQuietSteps ==
    ASSUME PoolInv, NEW s \in Senders,
           \/ SenderStarts(s) \/ SenderDequeues(s) \/ SenderEnds(s)
           \/ NoClaim(s) \/ WaitedEnough(s) \/ EnsureNeighbor(s)
    PROVE  PoolInv'
<1> USE DEF PoolInv, QuicTypeOK, At, XmitFailure, LoopsOn, Holding, StopOK
<1>1. CASE SenderStarts(s) \/ SenderDequeues(s) \/ SenderEnds(s)
  BY <1>1, SenderQuiet DEF SenderStarts, SenderDequeues, SenderEnds
<1>2. CASE NoClaim(s) \/ WaitedEnough(s)
  BY <1>2, SenderQuiet DEF NoClaim, WaitedEnough
<1>3. CASE EnsureNeighbor(s)
  <2>1. /\ \A t \in Senders : Holding(t)' => Holding(t) /\ sConn'[t] = sConn[t]
        /\ conns' = conns /\ conn' = conn /\ freed' = freed /\ iopc' = iopc
        /\ ioConn' = ioConn /\ mpc' = mpc /\ mpc = "run" /\ sConn' = sConn
    BY <1>3 DEF EnsureNeighbor
  <2>2. QuicTypeOK'
    BY <2>1, <1>3 DEF EnsureNeighbor
  <2>3. PoolOK' /\ ReapOK' /\ StopOK'
    BY <2>1 DEF PoolOK, ReapOK, Listed
  <2>4. PinsOK'
    BY <2>1 DEF PinsOK, Listed
  <2> QED
    BY <2>2, <2>3, <2>4
<1> QED
  BY <1>1, <1>2, <1>3

-----------------------------------------------------------------------------
(* Steps that pin and unpin a connection. *)

\* claimReadyConn gives a connection of the list nobody has pinned.
LEMMA ClaimedIsFree ==
    ASSUME QuicTypeOK, NEW n, Candidates(n) # {}
    PROVE  LET c == conns[Min(Candidates(n))] IN
           c \in Listed /\ c \in Conns /\ ~conn[c].busy
<1>1. Candidates(n) \subseteq DOMAIN conns /\ DOMAIN conns \subseteq Nat
  BY DEF Candidates, QuicTypeOK
<1>2. Min(Candidates(n)) \in Candidates(n)
  BY <1>1, MinNat
<1>3. \A i \in Candidates(n) : conns[i] \in Exists(n) /\ Ready(conns[i])
  BY DEF Candidates
<1> QED
  BY <1>1, <1>2, <1>3 DEF Exists, Ready, QuicTypeOK

LEMMA ClaimStep ==
    ASSUME PoolInv, NEW s \in Senders, Claim(s), ~raced'
    PROVE  PoolInv'
<1> DEFINE c == conns[Min(Candidates(Target[s]))]
<1>1. c \in Listed /\ c \in Conns /\ ~conn[c].busy
  BY ClaimedIsFree DEF PoolInv, Claim
<1> HIDE DEF c
<1>2. /\ spc[s] = "seek"
      /\ conn' = [conn EXCEPT ![c].busy = TRUE]
      /\ sConn' = [sConn EXCEPT ![s] = c]
      /\ ~(iopc = "reap" /\ ioConn = c)
      /\ spc' = [spc EXCEPT ![s] = "wait"]
      /\ UNCHANGED <<conns, freed, iopc, ioConn, mpc>>
  BY DEF Claim, At, c
<1>3. QuicTypeOK'
  <2>1. [conn[c] EXCEPT !.busy = TRUE] \in ConnRecords
    <3>1. conn[c] \in ConnRecords
      BY <1>1 DEF PoolInv, QuicTypeOK
    <3> QED
      BY <3>1 DEF ConnRecords
  <2>2. conn' \in [Conns -> ConnRecords]
    BY <1>1, <1>2, <2>1 DEF PoolInv, QuicTypeOK
  <2> QED
    BY <1>1, <1>2, <2>2 DEF PoolInv, QuicTypeOK
<1>4. PoolOK'
  <2>1. \A d \in Conns : conn'[d].role = conn[d].role
    BY <1>1, <1>2 DEF PoolInv, QuicTypeOK, ConnRecords
  <2>2. (\A i \in DOMAIN conns : conns[i] \in Conns) /\ freed \subseteq Conns
    BY DEF PoolInv, QuicTypeOK
  <2> QED
    BY <1>2, <2>1, <2>2 DEF PoolInv, PoolOK
<1>5. PinsOK'
  <2>1. \A t \in Senders : Holding(t) => sConn[t] # c
    BY <1>1 DEF PoolInv, PinsOK
  <2>2. \A t \in Senders : t # s => (Holding(t)' <=> Holding(t)) /\ sConn'[t] = sConn[t]
    BY <1>2 DEF PoolInv, QuicTypeOK, Holding
  <2>3. sConn'[s] = c /\ Listed' = Listed /\ conn'[c].busy
    BY <1>1, <1>2 DEF PoolInv, QuicTypeOK, Listed, ConnRecords
  <2>4. \A d \in Conns : d # c => conn'[d] = conn[d]
    BY <1>2 DEF PoolInv, QuicTypeOK
  <2> QED
    BY <1>1, <2>1, <2>2, <2>3, <2>4, ListedAreConns DEF PoolInv, PinsOK
<1>6. ReapOK'
  BY <1>2 DEF PoolInv, QuicTypeOK, ReapOK, Listed
<1>7. StopOK'
  BY <1>2 DEF PoolInv, StopOK
<1> QED
  BY <1>3, <1>4, <1>5, <1>6, <1>7 DEF PoolInv

\* ConnectReturns and DoSendReturns: the sender lets go of its connection.
LEMMA UnpinStep ==
    ASSUME PoolInv, NEW s \in Senders, Holding(s),
           conn' = [conn EXCEPT ![sConn[s]].busy = FALSE],
           sConn' = [sConn EXCEPT ![s] = NoConn],
           \E pc \in {"seek", "idle", "ended"} : spc' = [spc EXCEPT ![s] = pc],
           UNCHANGED <<conns, freed, iopc, ioConn, mpc>>
    PROVE  PoolInv'
<1> DEFINE c == sConn[s]
<1>1. c \in Listed /\ c \in Conns /\ conn[c].busy
  BY ListedAreConns DEF PoolInv, PinsOK
<1>2. QuicTypeOK'
  <2>1. [conn[c] EXCEPT !.busy = FALSE] \in ConnRecords
    BY <1>1, BusyRecord DEF PoolInv, QuicTypeOK
  <2>2. conn' \in [Conns -> ConnRecords]
    BY <1>1, <2>1 DEF PoolInv, QuicTypeOK
  <2> QED
    BY <2>2 DEF PoolInv, QuicTypeOK
<1>3. PoolOK' /\ ReapOK'
  BY <1>1 DEF PoolInv, QuicTypeOK, PoolOK, ReapOK, ConnRecords, Listed
<1>4. PinsOK'
  <2>1. \A t \in Senders : Holding(t)' => t # s /\ Holding(t) /\ sConn'[t] = sConn[t]
    BY DEF PoolInv, QuicTypeOK, Holding
  <2>2. \A t \in Senders : t # s /\ Holding(t) => sConn[t] # c
    BY DEF PoolInv, PinsOK
  <2>3. \A d \in Conns : d # c => conn'[d] = conn[d]
    BY DEF PoolInv, QuicTypeOK
  <2> QED
    <3>1. Listed' = Listed
      BY DEF Listed
    <3> QED
      BY <2>1, <2>2, <2>3, <3>1, ListedAreConns DEF PoolInv, PinsOK
<1>5. StopOK'
  BY DEF PoolInv, StopOK, Holding
<1> QED
  BY <1>2, <1>3, <1>4, <1>5 DEF PoolInv

\* A connection joins the list, from either side.
LEMMA PoolGrows ==
    ASSUME PoolInv, NEW c \in Conns, Unused(c), conns' = <<c>> \o conns,
           conn' \in [Conns -> ConnRecords], conn'[c].role # "none",
           \A d \in Conns : d # c => conn'[d] = conn[d], freed' = freed
    PROVE  /\ conns' \in Seq(Conns) /\ PoolOK'
           /\ Listed' = Listed \cup {c} /\ c \notin Listed
<1>1. /\ conns' \in Seq(Conns) /\ Len(conns') = Len(conns) + 1
      /\ conns'[1] = c
      /\ \A i \in 2 .. Len(conns) + 1 : conns'[i] = conns[i - 1]
      /\ Listed' = Listed \cup {c}
  BY PushFacts DEF PoolInv, QuicTypeOK, Listed
<1>2. c \notin Listed /\ c \notin freed
  BY DEF PoolInv, QuicTypeOK, PoolOK, Unused, Listed, Range
<1>3. \A i \in DOMAIN conns : conns[i] # c /\ conns[i] \in Conns
  BY <1>2 DEF PoolInv, QuicTypeOK, Listed, Range
<1>4. DOMAIN conns' = 1 .. Len(conns) + 1 /\ DOMAIN conns = 1 .. Len(conns)
  BY <1>1 DEF PoolInv, QuicTypeOK
<1>5. ASSUME NEW i \in DOMAIN conns'
      PROVE  \/ conns'[i] = c /\ i = 1
             \/ i - 1 \in DOMAIN conns /\ conns'[i] = conns[i - 1]
  BY <1>1, <1>4
<1>6. \A i \in DOMAIN conns' : conns'[i] \notin freed' /\ conn'[conns'[i]].role # "none"
  BY <1>2, <1>3, <1>5 DEF PoolInv, PoolOK
<1>7. \A i, j \in DOMAIN conns' : conns'[i] = conns'[j] => i = j
  BY <1>3, <1>4, <1>5 DEF PoolInv, PoolOK
<1>8. \A d \in freed' : conn'[d].role # "none"
  BY <1>2 DEF PoolInv, PoolOK, QuicTypeOK
<1> QED
  BY <1>1, <1>2, <1>6, <1>7, <1>8 DEF PoolOK

\* quicEngineConnect publishes a connection that is pinned from the start.
LEMMA ConnectStep ==
    ASSUME PoolInv, NEW s \in Senders, Connect(s)
    PROVE  PoolInv'
<1> DEFINE Published(c) ==
             /\ Unused(c)
             /\ conn' = [conn EXCEPT ![c].role = "client", ![c].busy = TRUE]
             /\ conns' = <<c>> \o conns
             /\ sConn' = [sConn EXCEPT ![s] = c]
             /\ spc' = [spc EXCEPT ![s] = "connect"]
<1>1. CASE XmitFailure(s) /\ UNCHANGED <<conns, conn, sConn>>
  <2>1. /\ spc[s] = "dial" /\ UNCHANGED <<conns, conn, sConn, freed, iopc, ioConn, mpc>>
        /\ spc' = [spc EXCEPT ![s] = "ended"] \/ spc' = [spc EXCEPT ![s] = "idle"]
    BY <1>1 DEF Connect, At, XmitFailure, LoopsOn
  <2>2. \A t \in Senders : spc'[t] = spc[t] \/ (t = s /\ spc'[t] \in {"ended", "idle"})
    BY <2>1 DEF PoolInv, QuicTypeOK
  <2>3. spc' \in [Senders -> {"none", "starting", "idle", "seek", "dial", "connect",
                              "wait", "ended"}]
    BY <2>1 DEF PoolInv, QuicTypeOK
  <2> QED
    BY <2>1, <2>2, <2>3, SenderQuiet DEF PoolInv, QuicTypeOK, Holding
<1>2. CASE \E c \in Conns : Published(c)
  <2>1. PICK c \in Conns : Published(c)
    BY <1>2
  <2>2. spc[s] = "dial" /\ UNCHANGED <<freed, iopc, ioConn, mpc>>
    BY DEF Connect
  <2>3. \A d \in Conns : d # c => conn'[d] = conn[d]
    BY <2>1 DEF PoolInv, QuicTypeOK
  <2>4. conn'[c] = [conn[c] EXCEPT !.role = "client", !.busy = TRUE]
    BY <2>1 DEF PoolInv, QuicTypeOK
  <2>5. conn'[c] \in ConnRecords /\ conn'[c].busy /\ conn'[c].role = "client"
    <3>1. conn[c] \in ConnRecords
      BY DEF PoolInv, QuicTypeOK
    <3> QED
      BY <2>4, <3>1 DEF ConnRecords
  <2>6. conn' \in [Conns -> ConnRecords]
    BY <2>1, <2>3, <2>5 DEF PoolInv, QuicTypeOK
  <2>7. /\ conns' \in Seq(Conns) /\ PoolOK'
        /\ Listed' = Listed \cup {c} /\ c \notin Listed
    BY <2>1, <2>2, <2>3, <2>5, <2>6, PoolGrows
  <2>8. QuicTypeOK'
    BY <2>1, <2>2, <2>6, <2>7 DEF PoolInv, QuicTypeOK
  <2>9. PinsOK'
    <3>1. \A t \in Senders : t # s => (Holding(t)' <=> Holding(t)) /\ sConn'[t] = sConn[t]
      BY <2>1 DEF PoolInv, QuicTypeOK, Holding
    <3>2. sConn'[s] = c
      BY <2>1 DEF PoolInv, QuicTypeOK
    <3>3. \A t \in Senders : Holding(t) => sConn[t] # c /\ sConn[t] \in Conns
      BY <2>7, ListedAreConns DEF PoolInv, PinsOK
    <3> QED
      BY <2>3, <2>5, <2>7, <3>1, <3>2, <3>3 DEF PoolInv, PinsOK
  <2>10. ReapOK'
    BY <2>2, <2>3, <2>7, ListedAreConns DEF PoolInv, ReapOK
  <2>11. StopOK'
    BY <2>1, <2>2 DEF PoolInv, StopOK
  <2> QED
    BY <2>7, <2>8, <2>9, <2>10, <2>11 DEF PoolInv
<1> QED
  BY <1>1, <1>2 DEF Connect, At

LEMMA SenderInv ==
    ASSUME PoolInv, NEW s \in Senders, SenderSteps(s), ~raced'
    PROVE  PoolInv'
<1>1. CASE ConnectReturns(s)
  BY <1>1, UnpinStep DEF ConnectReturns, XmitFailure, LoopsOn, At, Holding
<1>2. CASE DoSendReturns(s)
  BY <1>2, UnpinStep DEF DoSendReturns, XmitFailure, XmitSuccess, LoopsOn, At, Holding
<1> QED
  BY <1>1, <1>2, SenderQuietSteps, ClaimStep, ConnectStep DEF SenderSteps

-----------------------------------------------------------------------------
(* The I/O thread. *)

\* It may change a connection in any way that leaves its pin alone.
LEMMA ConnChanges ==
    ASSUME PoolInv, conn' \in [Conns -> ConnRecords],
           \A c \in Conns : /\ conn'[c].busy = conn[c].busy
                            /\ conn[c].role # "none" => conn'[c].role # "none",
           UNCHANGED <<conns, freed, spc, sConn, mpc>>,
           iopc' \in {"poll", "stalled", "exited"}, ioConn' = ioConn
    PROVE  PoolInv'
<1>1. QuicTypeOK'
  BY DEF PoolInv, QuicTypeOK
<1>2. PoolOK'
  BY DEF PoolInv, PoolOK, QuicTypeOK
<1>3. PinsOK'
  <2>1. Listed' = Listed /\ \A s \in Senders : Holding(s)' <=> Holding(s)
    BY DEF Listed, Holding
  <2> QED
    BY <2>1, ListedAreConns DEF PoolInv, PinsOK
<1>4. ReapOK' /\ StopOK'
  BY DEF PoolInv, ReapOK, StopOK
<1> QED
  BY <1>1, <1>2, <1>3, <1>4 DEF PoolInv

LEMMA FailedRecord ==
    ASSUME PoolInv, NEW c \in Conns
    PROVE  Failed(c) \in ConnRecords /\ Failed(c).busy = conn[c].busy /\ Failed(c).role = "any"
<1>1. conn[c].busy \in BOOLEAN
  BY DEF PoolInv, QuicTypeOK, ConnRecords
<1> QED
  BY <1>1 DEF Failed, Fresh, ConnRecords

\* Bring-up, negotiation, writing, failure.
LEMMA IoQuietSteps ==
    ASSUME PoolInv, NEW c \in Conns,
           \/ HandshakeDone(c) \/ PerConnBringup(c) \/ HandleSessInit(c)
           \/ HandleSessTerm(c) \/ AcquireStalls(c) \/ ServiceConns(c) \/ ConnFails(c)
    PROVE  PoolInv'
<1>1. conn[c] \in ConnRecords
  BY DEF PoolInv, QuicTypeOK
<1>2. CASE HandshakeDone(c) \/ PerConnBringup(c)
  <2>1. [conn[c] EXCEPT !.phase = "open"] \in ConnRecords
    BY <1>1 DEF ConnRecords
  <2>2. conn' \in [Conns -> ConnRecords]
    BY <1>2, <2>1 DEF PoolInv, QuicTypeOK, HandshakeDone, PerConnBringup
  <2> QED
    BY <1>1, <1>2, <2>2, ConnChanges
       DEF PoolInv, QuicTypeOK, HandshakeDone, PerConnBringup, ConnRecords
<1>3. CASE HandleSessTerm(c)
  <2>1. [conn[c] EXCEPT !.sess = "ending"] \in ConnRecords
    BY <1>1 DEF ConnRecords
  <2>2. conn' \in [Conns -> ConnRecords]
    BY <1>3, <2>1 DEF PoolInv, QuicTypeOK, HandleSessTerm
  <2> QED
    BY <1>1, <1>3, <2>2, ConnChanges DEF PoolInv, QuicTypeOK, HandleSessTerm, ConnRecords
<1>4. CASE HandleSessInit(c)
  <2>1. PICK n \in Peers :
          conn' = [conn EXCEPT
                      ![c].sess = "established", ![c].peer = n,
                      ![c].phase = IF conn[c].role = "server" THEN "init" ELSE "open"]
    BY <1>4 DEF HandleSessInit
  <2> DEFINE ph == IF conn[c].role = "server" THEN "init" ELSE "open"
             now == [conn[c] EXCEPT !.sess = "established", !.peer = n, !.phase = ph]
  <2>2. n \in Nodes \cup {NoNode} /\ ph \in {"init", "open"}
    BY QuicEngineAssumption
  <2>3. now \in ConnRecords /\ now.busy = conn[c].busy /\ now.role = conn[c].role
    <3> HIDE DEF ph
    <3> QED
      BY <1>1, <2>2 DEF ConnRecords
  <2>4. conn'[c] = now /\ \A d \in Conns : d # c => conn'[d] = conn[d]
    BY <2>1 DEF PoolInv, QuicTypeOK
  <2> HIDE DEF now
  <2>5. conn' \in [Conns -> ConnRecords]
    BY <2>1, <2>3, <2>4 DEF PoolInv, QuicTypeOK
  <2> QED
    BY <1>4, <2>3, <2>4, <2>5, ConnChanges DEF HandleSessInit
<1>5. CASE ConnFails(c)
  <2>1. conn' \in [Conns -> ConnRecords]
    BY <1>5, FailedRecord DEF PoolInv, QuicTypeOK, ConnFails
  <2>2. conn'[c] = Failed(c) /\ \A d \in Conns : d # c => conn'[d] = conn[d]
    BY <1>5 DEF PoolInv, QuicTypeOK, ConnFails
  <2> QED
    BY <1>5, <2>1, <2>2, FailedRecord, ConnChanges DEF ConnFails
<1>6. CASE AcquireStalls(c) \/ ServiceConns(c)
  BY <1>6, ConnChanges DEF PoolInv, QuicTypeOK, AcquireStalls, ServiceConns
<1> QED
  BY <1>2, <1>3, <1>4, <1>5, <1>6

LEMMA IoWideSteps ==
    ASSUME PoolInv, AcquireGoesOn \/ AcquireCancelled \/ IoExits
    PROVE  PoolInv'
<1>1. CASE AcquireGoesOn
  BY <1>1, ConnChanges DEF PoolInv, QuicTypeOK, AcquireGoesOn
<1>2. CASE AcquireCancelled
  <2>1. PICK c \in Conns : conn' = [conn EXCEPT ![c] = Failed(c)]
    BY <1>2 DEF AcquireCancelled
  <2>2. conn' \in [Conns -> ConnRecords]
    BY <2>1, FailedRecord DEF PoolInv, QuicTypeOK
  <2>3. conn'[c] = Failed(c) /\ \A d \in Conns : d # c => conn'[d] = conn[d]
    BY <2>1 DEF PoolInv, QuicTypeOK
  <2> QED
    BY <1>2, <2>2, <2>3, FailedRecord, ConnChanges DEF AcquireCancelled
<1>3. CASE IoExits
  <2>1. conn' = [c \in Conns |-> IF c \in Listed THEN Failed(c) ELSE conn[c]]
    BY <1>3 DEF IoExits
  <2>2. conn' \in [Conns -> ConnRecords]
    BY <2>1, FailedRecord DEF PoolInv, QuicTypeOK
  <2>3. \A c \in Conns : conn'[c] = conn[c] \/ conn'[c] = Failed(c)
    BY <2>1
  <2> QED
    BY <1>3, <2>2, <2>3, FailedRecord, ConnChanges DEF IoExits
<1> QED
  BY <1>1, <1>2, <1>3

LEMMA AcceptConnStep ==
    ASSUME PoolInv, NEW c \in Conns, AcceptConn(c)
    PROVE  PoolInv'
<1>1. /\ Unused(c) /\ conn' = [conn EXCEPT ![c].role = "server"]
      /\ conns' = <<c>> \o conns
      /\ UNCHANGED <<freed, spc, sConn, iopc, ioConn, mpc>> /\ iopc = "poll"
  BY DEF AcceptConn
<1>2. \A d \in Conns : d # c => conn'[d] = conn[d]
  BY <1>1 DEF PoolInv, QuicTypeOK
<1>3. conn'[c] = [conn[c] EXCEPT !.role = "server"]
  BY <1>1 DEF PoolInv, QuicTypeOK
<1>4. conn'[c] \in ConnRecords /\ conn'[c].role = "server"
  BY <1>3 DEF PoolInv, QuicTypeOK, ConnRecords
<1>5. conn' \in [Conns -> ConnRecords]
  BY <1>1, <1>2, <1>4 DEF PoolInv, QuicTypeOK
<1>6. /\ conns' \in Seq(Conns) /\ PoolOK'
      /\ Listed' = Listed \cup {c} /\ c \notin Listed
  BY <1>1, <1>2, <1>4, <1>5, PoolGrows
<1>7. QuicTypeOK'
  BY <1>1, <1>5, <1>6 DEF PoolInv, QuicTypeOK
<1>8. PinsOK'
  <2>1. \A s \in Senders : Holding(s) => sConn[s] # c /\ sConn[s] \in Conns
    BY <1>6, ListedAreConns DEF PoolInv, PinsOK
  <2>2. \A s \in Senders : (Holding(s)' <=> Holding(s)) /\ sConn'[s] = sConn[s]
    BY <1>1 DEF Holding
  <2> QED
    BY <1>2, <1>6, <2>1, <2>2 DEF PoolInv, PinsOK
<1>9. ReapOK' /\ StopOK'
  BY <1>1 DEF PoolInv, ReapOK, StopOK
<1> QED
  BY <1>6, <1>7, <1>8, <1>9 DEF PoolInv

\* It chooses a connection nobody has pinned ...
LEMMA ReapChoice ==
    ASSUME PoolInv, NEW c \in Conns, ReapCheck(c) \/ ExpiryCheck(c)
    PROVE  PoolInv'
<1>1. /\ c \in Listed /\ ~conn[c].busy /\ iopc' = "reap" /\ ioConn' = c
      /\ UNCHANGED <<conns, conn, freed, spc, sConn, mpc>>
  BY DEF ReapCheck, ExpiryCheck, Live
<1>2. QuicTypeOK'
  BY <1>1 DEF PoolInv, QuicTypeOK
<1>3. PoolOK' /\ StopOK'
  BY <1>1 DEF PoolInv, PoolOK, StopOK
<1>4. PinsOK' /\ ReapOK'
  BY <1>1 DEF PoolInv, PinsOK, ReapOK, Holding, Listed
<1> QED
  BY <1>2, <1>3, <1>4 DEF PoolInv

\* ... and removes it before anybody has, unless a sender has claimed it meanwhile.
LEMMA RemoveConnStep ==
    ASSUME PoolInv, RemoveConn
    PROVE  PoolInv'
<1>1. /\ iopc = "reap" /\ iopc' = "poll" /\ ioConn' = NoConn
      /\ freed' = freed \cup {ioConn} /\ conn' = [conn EXCEPT ![ioConn] = Gone]
      /\ UNCHANGED <<spc, sConn, mpc>>
  BY DEF RemoveConn
<1>2. ioConn \in Listed /\ ~conn[ioConn].busy /\ ioConn \in Conns
  BY <1>1, ListedAreConns DEF PoolInv, ReapOK
<1>3. PICK i \in DOMAIN conns : conns[i] = ioConn /\ conns' = RemoveAt(conns, i)
  BY DEF RemoveConn
<1>4. i \in 1 .. Len(conns) /\ conns \in Seq(Conns)
  BY DEF PoolInv, QuicTypeOK
<1>5. conns' \in Seq(Conns)
  BY <1>3, <1>4, RemoveAtFacts
<1>6. /\ Listed' = Listed \ {ioConn}
      /\ \A j, k \in DOMAIN conns' : conns'[j] = conns'[k] => j = k
  BY <1>3, <1>4, RemoveAtRange DEF PoolInv, PoolOK, Listed
<1>7. Gone \in ConnRecords /\ Gone.role = "freed"
  BY DEF Gone, Fresh, ConnRecords
<1>8. QuicTypeOK'
  BY <1>1, <1>2, <1>5, <1>7 DEF PoolInv, QuicTypeOK
<1>9. PoolOK'
  <2>1. \A c \in Listed : c \notin freed /\ conn[c].role # "none"
    BY DEF PoolInv, PoolOK, Listed, Range
  <2>2. \A j \in DOMAIN conns' : conns'[j] \in Listed'
    BY DEF Listed, Range
  <2>3. \A d \in Conns : conn'[d] = IF d = ioConn THEN Gone ELSE conn[d]
    BY <1>1 DEF PoolInv, QuicTypeOK
  <2>4. \A j \in DOMAIN conns' : conns'[j] \notin freed' /\ conn'[conns'[j]].role # "none"
    BY <1>1, <1>6, <2>1, <2>2, <2>3, ListedAreConns DEF PoolInv
  <2>5. \A c \in freed' : conn'[c].role # "none"
    BY <1>1, <1>2, <1>7, <2>3 DEF PoolInv, PoolOK, QuicTypeOK
  <2> QED
    BY <1>6, <2>4, <2>5 DEF PoolOK
<1>10. PinsOK'
  <2>1. \A s \in Senders : Holding(s) => sConn[s] # ioConn /\ sConn[s] \in Conns
    BY <1>2, ListedAreConns DEF PoolInv, PinsOK
  <2>2. \A s \in Senders : (Holding(s)' <=> Holding(s)) /\ sConn'[s] = sConn[s]
    BY <1>1 DEF Holding
  <2>3. \A d \in Conns : d # ioConn => conn'[d] = conn[d]
    BY <1>1 DEF PoolInv, QuicTypeOK
  <2> QED
    BY <1>6, <2>1, <2>2, <2>3 DEF PoolInv, PinsOK
<1>11. ReapOK' /\ StopOK'
  BY <1>1 DEF PoolInv, ReapOK, StopOK
<1> QED
  BY <1>8, <1>9, <1>10, <1>11 DEF PoolInv

-----------------------------------------------------------------------------
(* The main thread, and the theorem. *)

LEMMA MainInv ==
    ASSUME PoolInv, EndSenders \/ SendersJoined \/ IoJoined
    PROVE  PoolInv'
<1>1. CASE EndSenders \/ SendersJoined
  <2>1. /\ UNCHANGED <<conns, conn, freed, spc, sConn, iopc, ioConn>>
        /\ mpc' \in {"join", "stop"}
        /\ mpc' = "stop" => \A s \in Senders : spc[s] \in {"none", "ended"}
    BY <1>1 DEF EndSenders, SendersJoined
  <2>2. QuicTypeOK' /\ PoolOK' /\ StopOK'
    BY <2>1 DEF PoolInv, QuicTypeOK, PoolOK, StopOK
  <2>3. PinsOK' /\ ReapOK'
    BY <2>1 DEF PoolInv, PinsOK, ReapOK, Holding, Listed
  <2> QED
    BY <2>2, <2>3 DEF PoolInv
<1>2. CASE IoJoined
  <2>1. /\ mpc = "stop" /\ mpc' = "ended" /\ iopc = "exited"
        /\ freed' = freed \cup Listed /\ conns' = <<>>
        /\ UNCHANGED <<conn, spc, sConn, iopc, ioConn>>
    BY <1>2 DEF IoJoined
  <2>2. \A s \in Senders : ~Holding(s)'
    BY <2>1 DEF PoolInv, StopOK, Holding
  <2>3. QuicTypeOK'
    BY <2>1, ListedAreConns DEF PoolInv, QuicTypeOK
  <2>4. PoolOK'
    BY <2>1 DEF PoolInv, PoolOK, Listed, Range
  <2>5. PinsOK' /\ ReapOK' /\ StopOK'
    BY <2>1, <2>2 DEF PoolInv, PinsOK, ReapOK, StopOK
  <2> QED
    BY <2>3, <2>4, <2>5 DEF PoolInv
<1> QED
  BY <1>1, <1>2

LEMMA QuicInvStep == QuicInv /\ [QuicEngineNext]_engVars => QuicInv'
<1> SUFFICES ASSUME QuicInv, [QuicEngineNext]_engVars PROVE QuicInv'
  OBVIOUS
<1>1. ASSUME ~ \E s \in Senders : Claim(s) PROVE raced' = raced
  <2>1. CASE UNCHANGED engVars
    BY <2>1 DEF engVars
  <2>2. CASE \E s \in Senders : SenderSteps(s)
    BY <1>1, <2>2 DEF SenderSteps, SenderStarts, SenderDequeues, SenderEnds, NoClaim,
                WaitedEnough, Connect, ConnectReturns, DoSendReturns
  <2>3. CASE IoTurn
    BY <2>3 DEF IoTurn, PerConnBringup, ServiceConns, ReapCheck, RemoveConn, IoToldToEnd,
                IoExits, AcquireCancelled
  <2>4. CASE Network
    BY <2>4 DEF Network, AcceptConn, HandshakeDone, HandleSessInit, HandleSessTerm,
                AcquireStalls, ConnFails, ExpiryCheck, AcquireGoesOn, PollFails, IoExits
  <2>5. CASE MainSteps
    BY <2>5 DEF MainSteps, EnsureNeighbor, EndSenders, SendersJoined, IoJoined
  <2> QED
    BY <2>1, <2>2, <2>3, <2>4, <2>5 DEF QuicEngineNext
<1>2. raced \in BOOLEAN /\ raced' \in BOOLEAN /\ (raced => raced')
  <2>1. CASE \E s \in Senders : Claim(s)
    BY <2>1 DEF QuicInv, Claim
  <2> QED
    BY <1>1, <2>1 DEF QuicInv
<1>3. CASE raced'
  BY <1>2, <1>3 DEF QuicInv
<1>4. CASE ~raced' /\ QuicEngineNext
  <2> SUFFICES PoolInv'
    BY <1>2, <1>4 DEF QuicInv
  <2>1. PoolInv
    BY <1>2, <1>4 DEF QuicInv
  <2>2. CASE \E s \in Senders : SenderSteps(s)
    BY <1>4, <2>1, <2>2, SenderInv
  <2>3. CASE IoTurn
    BY <2>1, <2>3, IoQuietSteps, IoWideSteps, ReapChoice, RemoveConnStep
       DEF IoTurn, IoToldToEnd
  <2>4. CASE Network
    BY <2>1, <2>4, IoQuietSteps, IoWideSteps, ReapChoice, AcceptConnStep
       DEF Network, PollFails
  <2>5. CASE MainSteps
    BY <2>1, <2>5, SenderQuietSteps, MainInv DEF MainSteps
  <2> QED
    BY <1>4, <2>2, <2>3, <2>4, <2>5 DEF QuicEngineNext
<1>5. CASE ~raced' /\ UNCHANGED engVars
  <2>1. UNCHANGED <<conns, conn, freed, spc, sConn, iopc, ioConn, mpc, raced>>
    BY <1>5 DEF engVars
  <2>2. PoolInv
    BY <1>2, <1>5 DEF QuicInv
  <2>3. QuicTypeOK' /\ PoolOK' /\ StopOK'
    BY <2>1, <2>2 DEF PoolInv, QuicTypeOK, PoolOK, StopOK
  <2>4. PinsOK' /\ ReapOK'
    BY <2>1, <2>2 DEF PoolInv, PinsOK, ReapOK, Holding, Listed
  <2> QED
    BY <1>2, <1>5, <2>3, <2>4 DEF QuicInv, PoolInv
<1> QED
  BY <1>3, <1>4, <1>5

\* What a sender holds is freed only if it was claimed after the I/O thread had
\* looked at sendBusy without the lock (quicsession.c, engineIo): with any number
\* of senders and connections, dialled or accepted.
THEOREM QuicHeldIsNotFreed == QuicEngineSpec => []HeldIsNotFreed
<1>1. QuicInv => HeldIsNotFreed
  <2> SUFFICES ASSUME PoolInv, NEW s \in Senders, Holding(s)
               PROVE  sConn[s] \notin freed
    BY DEF QuicInv, HeldIsNotFreed
  <2>1. sConn[s] \in Listed
    BY DEF PoolInv, PinsOK
  <2> QED
    BY <2>1 DEF PoolInv, PoolOK, Listed, Range
<1> QED
  BY QuicInvInit, QuicInvStep, <1>1, PTL DEF QuicEngineSpec

-----------------------------------------------------------------------------
(* Bundles on a connection: the inductive invariant.  What is on its way is   *)
(* looked at octet by octet, on a stream and with the sender: each octet is    *)
(* followed by the next of its transfer, the last of a transfer by the first   *)
(* of another, and the first of all is the one the receiver waits for.         *)

\* The data of segment i of bundle b.
SegLen(b, i) == IF i = Segments(b) - 1 THEN Size[b] - i * SegMru ELSE SegMru

\* The octet that comes after n octets of segment i of transfer tx.
Want(tx, i, n) ==
    IF n = 0 THEN Octet("type", tx, i)
    ELSE IF n = 1 THEN Octet("rest", tx, i)
    ELSE Octet("data", tx, i * SegMru + n - 1)

Cursor(xf, tx, i, n) ==
    /\ tx \in DOMAIN xf
    /\ i \in 0 .. Segments(xf[tx]) - 1
    /\ n \in 0 .. 1 + SegLen(xf[tx], i)

IsStart(xf, o) == \E tx \in DOMAIN xf : o = Want(tx, 0, 0)
IsEnd(xf, o) ==
    \E tx \in DOMAIN xf, i, n \in Nat :
       /\ i = Segments(xf[tx]) - 1 /\ n = 1 + SegLen(xf[tx], i)
       /\ o = Want(tx, i, n)

\* Octet q comes after octet o in their transfer.
Follows(xf, o, q) ==
    \E tx, i, n \in Nat :
       /\ Cursor(xf, tx, i, n) /\ o = Want(tx, i, n)
       /\ \/ n < 1 + SegLen(xf[tx], i) /\ q = Want(tx, i, n + 1)
          \/ /\ n = 1 + SegLen(xf[tx], i) /\ i + 1 < Segments(xf[tx])
             /\ q = Want(tx, i + 1, 0)
Linked(xf, o, q) == Follows(xf, o, q) \/ (IsEnd(xf, o) /\ IsStart(xf, q))

StreamOf(xf, tx) == PriorityStream(Ordinal[xf[tx]])

\* The octets p are what is to come on stream s, when the receiver has had n octets
\* of segment i of transfer tx (tx = 0: when it is between transfers).
Fits(xf, tx, i, n, s, p) ==
    /\ \A m \in 1 .. Len(p) : p[m].tx \in DOMAIN xf /\ StreamOf(xf, p[m].tx) = s
    /\ \A m \in 1 .. Len(p) - 1 : Linked(xf, p[m], p[m + 1])
    /\ Len(p) > 0 => IsEnd(xf, p[Len(p)])
    /\ IF tx # 0 /\ StreamOf(xf, tx) = s
       THEN Len(p) > 0 /\ p[1] = Want(tx, i, n)
       ELSE Len(p) > 0 => IsStart(xf, p[1])

\* What the receiver has then.
DataTo(tx, len) == [j \in 1 .. len |-> Octet("data", tx, j)]
HasSoFar(xf, tx, i, n, buf, x) ==
    /\ buf = [k \in 1 .. n |-> Want(tx, i, k - 1)]
    /\ IF i = 0 THEN ~x.active
       ELSE x = [tx |-> tx, data |-> DataTo(tx, i * SegMru), want |-> Size[xf[tx]],
                 active |-> TRUE]

Octets == [k : {"type", "rest", "data", "bad"}, tx : Nat, at : Nat]

\* What is on a stream, and then with the sender: the octets d from place off + 1.
OnStream == [octet : Octets, lost : BOOLEAN]
Line(q, d, off) ==
    [m \in 1 .. Len(q) + (Len(d) - off) |->
       IF m <= Len(q) THEN q[m].octet ELSE d[off + m - Len(q)]]
Pipe(s) ==
    IF sendData # <<>> /\ StreamOf(xfers, Len(xfers)) = s
    THEN Line(stream[s], sendData, sendOff)
    ELSE Line(stream[s], <<>>, 0)

FlowOK ==
    \E tx, i, n \in Nat :
       /\ IF tx = 0 THEN i = 0 /\ n = 0 ELSE Cursor(xfers, tx, i, n) /\ i + n > 0
       /\ HasSoFar(xfers, tx, i, n, rxBuf, xfer)
       /\ \A s \in 1 .. 4 : Fits(xfers, tx, i, n, s, Pipe(s))

XferTypeOK ==
    /\ xfers \in Seq(Bundles)
    /\ bp \in [Bundles -> {"queued", "sending", "sent", "failed"}]
    /\ sendData \in Seq(Octets) /\ sendOff \in 0 .. Len(sendData)
    /\ stream \in [1 .. 4 -> Seq(OnStream)]

\* What the I/O thread has to send is the last transfer given out.
SlotOK ==
    /\ sendData # <<>> => /\ service = "reliable" /\ ~Idle /\ Len(xfers) > 0
                          /\ sendData = Framed(Len(xfers), xfers[Len(xfers)])
    /\ sendDone => sendOff = Len(sendData)

\* A datagram is a segment of a transfer.
Datagrams(xf) ==
    {d \in [tx : Nat, seg : Nat] : d.tx \in DOMAIN xf /\ d.seg \in 0 .. Segments(xf[d.tx]) - 1}

\* What has been placed is what has been seen.
Received == [k : {"type", "rest", "data", "bad", "zero"}, tx : Nat, at : Nat]
DgRxs ==
    [tx : Nat, active : BOOLEAN, total : Nat, seen : SUBSET Nat, count : Nat, buf : Seq(Received)]
SegmentPlaces(b, i) == i * SegMru + 1 .. i * SegMru + SegLen(b, i)
Placed(b, tx, buf, seen) ==
    /\ Len(buf) = Size[b]
    /\ \A j \in 1 .. Size[b] :
          /\ buf[j].tx = tx /\ buf[j].at = j
          /\ \A i \in seen : j \in SegmentPlaces(b, i) => buf[j].k = "data"
DgRxOK(xf, x) ==
    /\ x.tx \in DOMAIN xf
    /\ x.total = Segments(xf[x.tx])
    /\ x.seen \subseteq 0 .. Segments(xf[x.tx]) - 1
    /\ x.count = Cardinality(x.seen)
    /\ Placed(xf[x.tx], x.tx, x.buf, x.seen)
DatagramsOK ==
    /\ dgQueue \in Seq(Datagrams(xfers)) /\ dgNet \subseteq Datagrams(xfers)
    /\ dgRx \in DgRxs /\ (dgRx.active => DgRxOK(xfers, dgRx))

WholeIn(xf, x, b) ==
    /\ Len(x) = Size[b]
    /\ \A j \in 1 .. Len(x) : /\ x[j].k = "data" /\ x[j].at = j
                              /\ x[j].tx \in DOMAIN xf /\ xf[x[j].tx] = b
DeliveredIn(xf, dl) ==
    /\ dl \in Seq(Seq(Received))
    /\ \A i \in 1 .. Len(dl) : \E b \in Bundles : WholeIn(xf, dl[i], b)

XferInv ==
    /\ XferTypeOK /\ SlotOK /\ DatagramsOK
    /\ spoilt = {} => DeliveredIn(xfers, delivered)
    /\ spoilt = {} /\ ~txFailed /\ ~rxFailed => FlowOK

-----------------------------------------------------------------------------
(* Segments. *)

\* The segments of a bundle are its octets, SegMru at a time.
LEMMA SegmentFacts ==
    ASSUME NEW b \in Bundles
    PROVE  /\ Size[b] \in Nat /\ SegMru \in Nat /\ SegMru >= 1
           /\ Segments(b) \in Nat /\ Segments(b) >= 1
           /\ Size[b] = 0 => Segments(b) = 1
           /\ Size[b] > 0 => /\ (Segments(b) - 1) * SegMru < Size[b]
                             /\ Size[b] <= Segments(b) * SegMru
<1>1. Size[b] \in Nat /\ SegMru \in Nat /\ SegMru >= 1
  BY QuicXferAssumption
<1>2. CASE Size[b] = 0
  BY <1>1, <1>2 DEF Segments
<1>3. CASE Size[b] > 0
  <2>1. PICK d : d = Size[b] + SegMru - 1
    OBVIOUS
  <2>2. PICK n : n = d \div SegMru
    OBVIOUS
  <2>3. d \in Nat /\ d >= SegMru
    BY <1>1, <1>3, <2>1
  <2>4. n \in Int /\ n * SegMru <= d /\ d < n * SegMru + SegMru
    BY <1>1, <2>2, <2>3
  <2>5. n >= 1
    BY <1>1, <2>3, <2>4
  <2>6. Segments(b) = n
    BY <1>3, <2>1, <2>2 DEF Segments
  <2>7. (n - 1) * SegMru = n * SegMru - SegMru
    BY <1>1, <2>4
  <2> QED
    BY <1>1, <1>3, <2>1, <2>4, <2>5, <2>6, <2>7
<1> QED
  BY <1>1, <1>2, <1>3

LEMMA ProductMonotone ==
    ASSUME NEW i \in Nat, NEW j \in Nat, i <= j, NEW k \in Nat
    PROVE  i * k \in Nat /\ j * k \in Nat /\ i * k <= j * k /\ (j - i) * k = j * k - i * k
<1>1. (j - i) * k = j * k - i * k /\ (j - i) * k >= 0
  OBVIOUS
<1> QED
  BY <1>1

\* Of each segment: how long it is, where it ends.
LEMMA SegLenFacts ==
    ASSUME NEW b \in Bundles, NEW i \in 0 .. Segments(b) - 1
    PROVE  /\ SegLen(b, i) \in 0 .. SegMru
           /\ i * SegMru \in Nat /\ i * SegMru + SegLen(b, i) <= Size[b]
           /\ Size[b] > 0 => SegLen(b, i) >= 1
           /\ i = Segments(b) - 1 => i * SegMru + SegLen(b, i) = Size[b]
           /\ i + 1 < Segments(b) => /\ SegLen(b, i) = SegMru /\ Size[b] > 0
                                     /\ i * SegMru + SegLen(b, i) = (i + 1) * SegMru
                                     /\ (i + 1) * SegMru < Size[b]
<1>0. i \in Nat /\ Segments(b) \in Nat /\ SegMru \in Nat /\ Size[b] \in Nat
  BY SegmentFacts
<1>1. i * SegMru \in Nat /\ (i + 1) * SegMru = i * SegMru + SegMru
  BY <1>0
<1>2. CASE i = Segments(b) - 1
  <2>1. SegLen(b, i) = Size[b] - i * SegMru
    BY <1>2 DEF SegLen
  <2>2. CASE Size[b] = 0
    <3>1. i = 0 /\ Segments(b) = 1
      BY <1>2, <2>2, SegmentFacts
    <3>2. i * SegMru = 0
      BY <1>0, <3>1
    <3>3. SegLen(b, i) = 0
      BY <2>1, <2>2, <3>2
    <3> QED
      BY <1>0, <2>2, <3>1, <3>2, <3>3
  <2>3. CASE Size[b] > 0
    <3>1. i * SegMru < Size[b] /\ Size[b] <= (i + 1) * SegMru
      <4>1. i + 1 = Segments(b)
        BY <1>0, <1>2
      <4> QED
        BY <1>2, <2>3, <4>1, SegmentFacts
    <3> QED
      BY <1>0, <1>1, <1>2, <2>1, <2>3, <3>1
  <2> QED
    BY <1>0, <2>2, <2>3
<1>3. CASE i + 1 < Segments(b)
  <2>1. SegLen(b, i) = SegMru
    BY <1>0, <1>3 DEF SegLen
  <2>2. Size[b] > 0
    BY <1>0, <1>3, SegmentFacts
  <2>3. (Segments(b) - 1) * SegMru < Size[b]
    BY <2>2, SegmentFacts
  <2>4. PICK last : last = Segments(b) - 1
    OBVIOUS
  <2>5. last \in Nat /\ i + 1 \in Nat /\ i + 1 <= last
    BY <1>0, <1>3, <2>4
  <2>6. (i + 1) * SegMru <= last * SegMru /\ last * SegMru < Size[b]
    BY <1>0, <2>3, <2>4, <2>5, ProductMonotone
  <2>7. last * SegMru \in Nat /\ (i + 1) * SegMru \in Nat
    BY <1>0, <2>5, ProductMonotone
  <2> QED
    BY <1>0, <1>1, <1>3, <2>1, <2>2, <2>6, <2>7, SegmentFacts
<1> QED
  BY <1>0, <1>2, <1>3

\* An octet is in one segment.
LEMMA SegmentUnique ==
    ASSUME NEW b \in Bundles, NEW i \in 0 .. Segments(b) - 1, NEW j \in 0 .. Segments(b) - 1,
           NEW k \in 1 .. SegLen(b, i), NEW l \in 1 .. SegLen(b, j),
           i * SegMru + k = j * SegMru + l
    PROVE  i = j /\ k = l
<1>0. /\ i \in Nat /\ j \in Nat /\ SegMru \in Nat /\ k \in 1 .. SegMru /\ l \in 1 .. SegMru
      /\ i * SegMru \in Nat /\ j * SegMru \in Nat
  BY SegmentFacts, SegLenFacts
<1>1. ASSUME i + 1 <= j PROVE FALSE
  <2>1. (i + 1) * SegMru <= j * SegMru
    BY <1>0, <1>1, ProductMonotone
  <2>2. (i + 1) * SegMru = i * SegMru + SegMru
    BY <1>0
  <2> QED
    BY <1>0, <2>1, <2>2
<1>2. ASSUME j + 1 <= i PROVE FALSE
  <2>1. (j + 1) * SegMru <= i * SegMru
    BY <1>0, <1>2, ProductMonotone
  <2>2. (j + 1) * SegMru = j * SegMru + SegMru
    BY <1>0
  <2> QED
    BY <1>0, <2>1, <2>2
<1>3. i = j
  BY <1>0, <1>1, <1>2
<1> QED
  BY <1>0, <1>3

\* And in one there is.
LEMMA SegmentsCover ==
    ASSUME NEW b \in Bundles, NEW j \in 1 .. Size[b]
    PROVE  \E i \in 0 .. Segments(b) - 1 : j \in i * SegMru + 1 .. i * SegMru + SegLen(b, i)
<1>0. SegMru \in Nat /\ SegMru >= 1 /\ Segments(b) \in Nat /\ Size[b] \in Nat /\ j \in Nat /\ j >= 1
      /\ Size[b] >= 1
  BY SegmentFacts
<1>1. PICK i : i = (j - 1) \div SegMru
  OBVIOUS
<1>2. i \in Int /\ i * SegMru <= j - 1 /\ j - 1 < i * SegMru + SegMru
  BY <1>0, <1>1
<1>3. i \in Nat
  BY <1>0, <1>2
<1>4. i < Segments(b)
  <2> SUFFICES ASSUME Segments(b) <= i PROVE FALSE
    BY <1>0, <1>3
  <2>1. Segments(b) * SegMru <= i * SegMru /\ Segments(b) * SegMru \in Nat /\ i * SegMru \in Nat
    BY <1>0, <1>3, ProductMonotone
  <2>2. Size[b] <= Segments(b) * SegMru
    BY <1>0, SegmentFacts
  <2> QED
    BY <1>0, <1>2, <2>1, <2>2
<1>5. i \in 0 .. Segments(b) - 1 /\ i * SegMru \in Nat /\ SegLen(b, i) \in Nat
  BY <1>0, <1>3, <1>4, SegLenFacts
<1>6. j <= i * SegMru + SegLen(b, i)
  <2>1. CASE i = Segments(b) - 1
    BY <1>0, <1>5, <2>1, SegLenFacts
  <2>2. CASE i + 1 < Segments(b)
    BY <1>0, <1>2, <1>5, <2>2, SegLenFacts
  <2> QED
    BY <1>0, <1>5, <2>1, <2>2
<1> QED
  BY <1>0, <1>2, <1>5, <1>6

-----------------------------------------------------------------------------
(* The octets of a transfer. *)

LEMMA WantFacts ==
    ASSUME NEW tx, NEW i, NEW n \in Nat
    PROVE  /\ Want(tx, i, n).tx = tx
           /\ Want(tx, i, 0) = Octet("type", tx, i)
           /\ Want(tx, i, 1) = Octet("rest", tx, i)
           /\ n > 1 => Want(tx, i, n) = Octet("data", tx, i * SegMru + n - 1)
BY DEF Want, Octet

\* An octet of a transfer has one place in it.
LEMMA WantUnique ==
    ASSUME NEW xf \in Seq(Bundles), NEW tx, NEW i, NEW n, Cursor(xf, tx, i, n),
           NEW ty, NEW j, NEW m, Cursor(xf, ty, j, m), Want(tx, i, n) = Want(ty, j, m)
    PROVE  tx = ty /\ i = j /\ n = m
<1>1. /\ xf[tx] \in Bundles /\ xf[ty] \in Bundles
      /\ i \in 0 .. Segments(xf[tx]) - 1 /\ j \in 0 .. Segments(xf[ty]) - 1
  BY DEF Cursor
<1>2. SegLen(xf[tx], i) \in Nat /\ SegLen(xf[ty], j) \in Nat
  BY <1>1, SegLenFacts, SegmentFacts
<1>3. n \in Nat /\ m \in Nat /\ n <= 1 + SegLen(xf[tx], i) /\ m <= 1 + SegLen(xf[ty], j)
  BY <1>2 DEF Cursor
<1>4. tx = ty
  BY <1>3, WantFacts
<1>5. CASE n <= 1 \/ m <= 1
  BY <1>3, <1>4, <1>5 DEF Want, Octet
<1>6. CASE n > 1 /\ m > 1
  <2>1. i * SegMru + n - 1 = j * SegMru + m - 1
    BY <1>3, <1>6 DEF Want, Octet
  <2>2. i * SegMru + (n - 1) = j * SegMru + (m - 1)
    <3>1. i * SegMru \in Nat /\ j * SegMru \in Nat
      BY <1>1, SegLenFacts
    <3> QED
      BY <1>3, <2>1, <3>1
  <2>3. n - 1 \in 1 .. SegLen(xf[tx], i) /\ m - 1 \in 1 .. SegLen(xf[tx], j)
    BY <1>2, <1>3, <1>4, <1>6
  <2>4. i = j /\ n - 1 = m - 1
    BY <1>1, <1>4, <2>2, <2>3, SegmentUnique
  <2> QED
    BY <1>3, <1>4, <2>4
<1> QED
  BY <1>3, <1>4, <1>5, <1>6

\* The place after one.
LEMMA NextPlace ==
    ASSUME NEW xf \in Seq(Bundles), NEW tx, NEW i, NEW n, Cursor(xf, tx, i, n)
    PROVE  /\ xf[tx] \in Bundles /\ i \in Nat /\ n \in Nat /\ tx \in Nat /\ tx >= 1
           /\ SegLen(xf[tx], i) \in Nat /\ Segments(xf[tx]) \in Nat /\ i < Segments(xf[tx])
           /\ n <= 1 + SegLen(xf[tx], i)
           /\ n < 1 + SegLen(xf[tx], i) => Cursor(xf, tx, i, n + 1)
           /\ i + 1 < Segments(xf[tx]) => Cursor(xf, tx, i + 1, 0)
<1>1. tx \in 1 .. Len(xf) /\ xf[tx] \in Bundles /\ i \in 0 .. Segments(xf[tx]) - 1
  BY DEF Cursor
<1>2. SegLen(xf[tx], i) \in Nat /\ Segments(xf[tx]) \in Nat
  BY <1>1, SegLenFacts, SegmentFacts
<1>3. i \in Nat /\ n \in Nat /\ n <= 1 + SegLen(xf[tx], i) /\ i < Segments(xf[tx])
  BY <1>1, <1>2 DEF Cursor
<1>4. n < 1 + SegLen(xf[tx], i) => Cursor(xf, tx, i, n + 1)
  BY <1>2, <1>3 DEF Cursor
<1>5. ASSUME i + 1 < Segments(xf[tx]) PROVE Cursor(xf, tx, i + 1, 0)
  <2>1. i + 1 \in 0 .. Segments(xf[tx]) - 1
    BY <1>2, <1>3, <1>5
  <2>2. SegLen(xf[tx], i + 1) \in Nat
    BY <1>1, <2>1, SegLenFacts, SegmentFacts
  <2> QED
    BY <1>1, <2>1, <2>2 DEF Cursor
<1> QED
  BY <1>1, <1>2, <1>3, <1>4, <1>5

\* The first place of a transfer, and the last.
LEMMA FirstPlace ==
    ASSUME NEW xf \in Seq(Bundles), NEW tx \in DOMAIN xf
    PROVE  Cursor(xf, tx, 0, 0) /\ Cursor(xf, tx, 0, 1)
<1>1. xf[tx] \in Bundles /\ 0 \in 0 .. Segments(xf[tx]) - 1
  BY SegmentFacts
<1>2. SegLen(xf[tx], 0) \in Nat
  BY <1>1, SegLenFacts, SegmentFacts
<1> QED
  BY <1>1, <1>2 DEF Cursor

LEMMA EndPlace ==
    ASSUME NEW xf \in Seq(Bundles), NEW o
    PROVE  IsEnd(xf, o) <=>
              \E tx, i, n \in Nat : /\ Cursor(xf, tx, i, n) /\ o = Want(tx, i, n)
                                    /\ n = 1 + SegLen(xf[tx], i) /\ i + 1 = Segments(xf[tx])
<1>1. ASSUME IsEnd(xf, o)
      PROVE  \E tx, i, n \in Nat : /\ Cursor(xf, tx, i, n) /\ o = Want(tx, i, n)
                                   /\ n = 1 + SegLen(xf[tx], i) /\ i + 1 = Segments(xf[tx])
  <2>1. PICK tx \in DOMAIN xf, i \in Nat, n \in Nat :
           i = Segments(xf[tx]) - 1 /\ n = 1 + SegLen(xf[tx], i) /\ o = Want(tx, i, n)
    BY <1>1 DEF IsEnd
  <2>2. xf[tx] \in Bundles /\ tx \in Nat /\ Segments(xf[tx]) \in Nat /\ Segments(xf[tx]) >= 1
    BY SegmentFacts
  <2>3. i \in 0 .. Segments(xf[tx]) - 1
    BY <2>1, <2>2
  <2>4. Cursor(xf, tx, i, n)
    BY <2>1, <2>3 DEF Cursor
  <2> QED
    BY <2>1, <2>2, <2>4
<1>2. ASSUME NEW tx \in Nat, NEW i \in Nat, NEW n \in Nat, Cursor(xf, tx, i, n),
             o = Want(tx, i, n), n = 1 + SegLen(xf[tx], i), i + 1 = Segments(xf[tx])
      PROVE  IsEnd(xf, o)
  <2>1. tx \in DOMAIN xf /\ i = Segments(xf[tx]) - 1
    BY <1>2 DEF Cursor
  <2> QED
    BY <1>2, <2>1 DEF IsEnd
<1> QED
  BY <1>1, <1>2

\* What may come after the octet at a place.
LEMMA AfterOctet ==
    ASSUME NEW xf \in Seq(Bundles), NEW tx, NEW i, NEW n, Cursor(xf, tx, i, n), NEW q
    PROVE  /\ IsEnd(xf, Want(tx, i, n))
                 => n = 1 + SegLen(xf[tx], i) /\ i + 1 = Segments(xf[tx])
           /\ Linked(xf, Want(tx, i, n), q) =>
                 \/ n < 1 + SegLen(xf[tx], i) /\ q = Want(tx, i, n + 1)
                 \/ /\ n = 1 + SegLen(xf[tx], i) /\ i + 1 < Segments(xf[tx])
                    /\ q = Want(tx, i + 1, 0)
                 \/ /\ n = 1 + SegLen(xf[tx], i) /\ i + 1 = Segments(xf[tx])
                    /\ IsStart(xf, q)
<1>1. ASSUME IsEnd(xf, Want(tx, i, n))
      PROVE  n = 1 + SegLen(xf[tx], i) /\ i + 1 = Segments(xf[tx])
  <2>1. PICK ty \in Nat, j \in Nat, m \in Nat :
           /\ Cursor(xf, ty, j, m) /\ Want(tx, i, n) = Want(ty, j, m)
           /\ m = 1 + SegLen(xf[ty], j) /\ j + 1 = Segments(xf[ty])
    BY <1>1, EndPlace
  <2>2. tx = ty /\ i = j /\ n = m
    BY <2>1, WantUnique
  <2> QED
    BY <2>1, <2>2
<1>2. ASSUME Follows(xf, Want(tx, i, n), q)
      PROVE  \/ n < 1 + SegLen(xf[tx], i) /\ q = Want(tx, i, n + 1)
             \/ /\ n = 1 + SegLen(xf[tx], i) /\ i + 1 < Segments(xf[tx])
                /\ q = Want(tx, i + 1, 0)
  <2>1. PICK ty \in Nat, j \in Nat, m \in Nat :
           /\ Cursor(xf, ty, j, m) /\ Want(tx, i, n) = Want(ty, j, m)
           /\ \/ m < 1 + SegLen(xf[ty], j) /\ q = Want(ty, j, m + 1)
              \/ /\ m = 1 + SegLen(xf[ty], j) /\ j + 1 < Segments(xf[ty])
                 /\ q = Want(ty, j + 1, 0)
    BY <1>2 DEF Follows
  <2>2. tx = ty /\ i = j /\ n = m
    BY <2>1, WantUnique
  <2> QED
    BY <2>1, <2>2
<1> QED
  BY <1>1, <1>2 DEF Linked

-----------------------------------------------------------------------------
(* The receiver takes an octet off a stream. *)

LEMMA TailFacts ==
    ASSUME NEW S, NEW p \in Seq(S), Len(p) > 0
    PROVE  /\ Tail(p) \in Seq(S) /\ Len(p) \in Nat /\ Len(Tail(p)) = Len(p) - 1
           /\ \A m \in 1 .. Len(p) - 1 : Tail(p)[m] = p[m + 1]
OBVIOUS

\* What is left when the first octet has gone, but for its head.
Chained(xf, s, o, t) ==
    /\ \A m \in 1 .. Len(t) : t[m].tx \in DOMAIN xf /\ StreamOf(xf, t[m].tx) = s
    /\ \A m \in 1 .. Len(t) - 1 : Linked(xf, t[m], t[m + 1])
    /\ Len(t) > 0 => IsEnd(xf, t[Len(t)]) /\ Linked(xf, o, t[1])
    /\ Len(t) = 0 => IsEnd(xf, o)

LEMMA RestFits ==
    ASSUME NEW S, NEW p \in Seq(S), Len(p) > 0, NEW xf, NEW tx, NEW i, NEW n, NEW s,
           Fits(xf, tx, i, n, s, p), NEW t, t = Tail(p)
    PROVE  Chained(xf, s, p[1], t)
<1>1. Len(p) \in Nat /\ Len(t) = Len(p) - 1 /\ \A m \in 1 .. Len(p) - 1 : t[m] = p[m + 1]
  BY TailFacts
<1>2. ASSUME NEW m \in 1 .. Len(t) PROVE t[m].tx \in DOMAIN xf /\ StreamOf(xf, t[m].tx) = s
  <2>1. m + 1 \in 1 .. Len(p) /\ t[m] = p[m + 1]
    BY <1>1
  <2> QED
    BY <2>1 DEF Fits
<1>3. ASSUME NEW m \in 1 .. Len(t) - 1 PROVE Linked(xf, t[m], t[m + 1])
  <2>1. m + 1 \in 1 .. Len(p) - 1 /\ t[m] = p[m + 1] /\ t[m + 1] = p[(m + 1) + 1]
    BY <1>1
  <2> QED
    BY <2>1 DEF Fits
<1>4. ASSUME Len(t) > 0 PROVE IsEnd(xf, t[Len(t)]) /\ Linked(xf, p[1], t[1])
  <2>1. t[Len(t)] = p[Len(p)] /\ t[1] = p[1 + 1] /\ 1 \in 1 .. Len(p) - 1
    BY <1>1, <1>4
  <2> QED
    BY <2>1 DEF Fits
<1>5. ASSUME Len(t) = 0 PROVE IsEnd(xf, p[1])
  <2>1. Len(p) = 1
    BY <1>1, <1>5
  <2> QED
    BY <2>1 DEF Fits
<1> QED
  BY <1>2, <1>3, <1>4, <1>5 DEF Chained

\* The first octet of a transfer.
LEMMA TakeFirst ==
    ASSUME NEW xf \in Seq(Bundles), NEW S, NEW p \in Seq(S), Len(p) > 0, NEW s,
           Fits(xf, 0, 0, 0, s, p)
    PROVE  \E tx \in DOMAIN xf : /\ p[1] = Want(tx, 0, 0) /\ StreamOf(xf, tx) = s
                                 /\ Cursor(xf, tx, 0, 1) /\ Fits(xf, tx, 0, 1, s, Tail(p))
<1>1. PICK tx \in DOMAIN xf : p[1] = Want(tx, 0, 0)
  BY DEF Fits, IsStart
<1>2. Cursor(xf, tx, 0, 0) /\ Cursor(xf, tx, 0, 1)
  BY FirstPlace
<1>3. p[1].tx = tx /\ 1 \in 1 .. Len(p)
  BY <1>1, WantFacts
<1>4. StreamOf(xf, tx) = s
  BY <1>3 DEF Fits
<1>5. PICK t : t = Tail(p)
  OBVIOUS
<1>6. Chained(xf, s, p[1], t)
  BY <1>5, RestFits
<1>7. SegLen(xf[tx], 0) \in Nat /\ 0 < 1 + SegLen(xf[tx], 0)
  <2>1. SegLen(xf[tx], 0) \in Nat
    BY <1>2, NextPlace
  <2> QED
    BY <2>1
<1>8. Len(t) > 0 /\ Linked(xf, p[1], t[1])
  <2>1. ~IsEnd(xf, p[1])
    BY <1>1, <1>2, <1>7, AfterOctet
  <2>2. Len(t) \in Nat
    BY <1>5, TailFacts
  <2> QED
    BY <1>6, <2>1, <2>2 DEF Chained
<1>9. t[1] = Want(tx, 0, 0 + 1)
  BY <1>1, <1>2, <1>7, <1>8, AfterOctet
<1>10. /\ \A m \in 1 .. Len(t) : t[m].tx \in DOMAIN xf /\ StreamOf(xf, t[m].tx) = s
       /\ \A m \in 1 .. Len(t) - 1 : Linked(xf, t[m], t[m + 1])
       /\ IsEnd(xf, t[Len(t)])
  BY <1>6, <1>8 DEF Chained
<1>11. Fits(xf, tx, 0, 1, s, t)
  <2>1. t[1] = Want(tx, 0, 1)
    BY <1>9
  <2>2. tx # 0
    OBVIOUS
  <2> QED
    BY <1>4, <1>8, <1>10, <2>1, <2>2 DEF Fits
<1> QED
  BY <1>1, <1>2, <1>4, <1>5, <1>11

\* The octet the receiver waits for.
LEMMA TakeNext ==
    ASSUME NEW xf \in Seq(Bundles), NEW S, NEW p \in Seq(S), NEW s,
           NEW tx, NEW i, NEW n, Cursor(xf, tx, i, n), StreamOf(xf, tx) = s,
           Fits(xf, tx, i, n, s, p)
    PROVE  /\ Len(p) > 0 /\ p[1] = Want(tx, i, n)
           /\ n < 1 + SegLen(xf[tx], i) => Fits(xf, tx, i, n + 1, s, Tail(p))
           /\ n = 1 + SegLen(xf[tx], i) /\ i + 1 < Segments(xf[tx])
                 => Fits(xf, tx, i + 1, 0, s, Tail(p))
           /\ n = 1 + SegLen(xf[tx], i) /\ i + 1 = Segments(xf[tx])
                 => Fits(xf, 0, 0, 0, s, Tail(p))
<1>0. /\ tx \in Nat /\ tx >= 1 /\ n \in Nat /\ SegLen(xf[tx], i) \in Nat /\ i \in Nat
      /\ Segments(xf[tx]) \in Nat
  BY NextPlace
<1>1. Len(p) > 0 /\ p[1] = Want(tx, i, n)
  BY <1>0 DEF Fits
<1>2. PICK t : t = Tail(p)
  OBVIOUS
<1>3. Len(t) \in Nat
  BY <1>1, <1>2, TailFacts
<1>4. /\ \A m \in 1 .. Len(t) : t[m].tx \in DOMAIN xf /\ StreamOf(xf, t[m].tx) = s
      /\ \A m \in 1 .. Len(t) - 1 : Linked(xf, t[m], t[m + 1])
      /\ Len(t) > 0 => IsEnd(xf, t[Len(t)]) /\ Linked(xf, Want(tx, i, n), t[1])
      /\ Len(t) = 0 => IsEnd(xf, Want(tx, i, n))
  <2>1. Chained(xf, s, p[1], t)
    BY <1>1, <1>2, RestFits
  <2> QED
    BY <1>1, <2>1 DEF Chained
<1>5. Len(t) = 0 => n = 1 + SegLen(xf[tx], i) /\ i + 1 = Segments(xf[tx])
  BY <1>4, AfterOctet
<1>6. ASSUME n < 1 + SegLen(xf[tx], i) PROVE Fits(xf, tx, i, n + 1, s, t)
  <2>1. Len(t) > 0
    BY <1>0, <1>3, <1>5, <1>6
  <2>2. t[1] = Want(tx, i, n + 1)
    <3>1. Linked(xf, Want(tx, i, n), t[1])
      BY <1>4, <2>1
    <3> QED
      BY <1>0, <1>6, <3>1, AfterOctet
  <2> QED
    BY <1>0, <1>4, <2>1, <2>2 DEF Fits
<1>7. ASSUME n = 1 + SegLen(xf[tx], i), i + 1 < Segments(xf[tx]) PROVE Fits(xf, tx, i + 1, 0, s, t)
  <2>1. Len(t) > 0
    BY <1>0, <1>3, <1>5, <1>7
  <2>2. t[1] = Want(tx, i + 1, 0)
    <3>1. Linked(xf, Want(tx, i, n), t[1])
      BY <1>4, <2>1
    <3> QED
      BY <1>0, <1>7, <3>1, AfterOctet
  <2> QED
    BY <1>0, <1>4, <2>1, <2>2 DEF Fits
<1>8. ASSUME n = 1 + SegLen(xf[tx], i), i + 1 = Segments(xf[tx]) PROVE Fits(xf, 0, 0, 0, s, t)
  <2>1. ASSUME Len(t) > 0 PROVE IsStart(xf, t[1])
    <3>1. Linked(xf, Want(tx, i, n), t[1])
      BY <1>4, <2>1
    <3> QED
      BY <1>0, <1>8, <3>1, AfterOctet
  <2> QED
    BY <1>4, <2>1 DEF Fits
<1> QED
  BY <1>1, <1>2, <1>6, <1>7, <1>8

\* Of another stream than the one the receiver is in the middle of.
LEMMA OtherFits ==
    ASSUME NEW xf, NEW s, NEW p, NEW tx, NEW i, NEW n, NEW ty, NEW j, NEW m,
           Fits(xf, tx, i, n, s, p), tx = 0 \/ StreamOf(xf, tx) # s,
           ty = 0 \/ StreamOf(xf, ty) # s
    PROVE  Fits(xf, ty, j, m, s, p)
BY DEF Fits

-----------------------------------------------------------------------------
(* A list of lists, flattened. *)

\* f[i] is what the first i of them make, up to place n.
IsFlat(f, n, seqs) ==
    f = [i \in 1 .. n |-> IF i = 1 THEN seqs[i] ELSE f[i - 1] \o seqs[i]]

\* The recursion defines a function: else there is a least place it does not reach.
LEMMA FlatExists == ASSUME NEW seqs, NEW len \in Nat PROVE \E f : IsFlat(f, len, seqs)
<1> DEFINE Bad == {n \in Nat : ~ \E f : IsFlat(f, n, seqs)}
<1>1. SUFFICES Bad = {}
  OBVIOUS
<1>2. SUFFICES ASSUME Bad # {} PROVE FALSE
  OBVIOUS
<1>3. PICK n \in Bad : \A m \in Bad : n <= m
  BY <1>2, LeastNat
<1>4. n # 0
  <2>1. IsFlat([i \in 1 .. 0 |-> <<>>], 0, seqs)
    BY DEF IsFlat
  <2> QED
    BY <2>1
<1>5. n - 1 \in Nat /\ n - 1 \notin Bad
  BY <1>3, <1>4
<1>6. PICK g : IsFlat(g, n - 1, seqs)
  BY <1>5
<1> DEFINE last == IF n = 1 THEN seqs[n] ELSE g[n - 1] \o seqs[n]
           f == [i \in 1 .. n |-> IF i < n THEN g[i] ELSE last]
<1>7. \A i \in 1 .. n - 1 : g[i] = IF i = 1 THEN seqs[i] ELSE g[i - 1] \o seqs[i]
  BY <1>6 DEF IsFlat
<1>8. \A i \in 1 .. n - 1 : f[i] = g[i]
  BY <1>5
<1>9. f[n] = last
  BY <1>5
<1>10. ASSUME NEW i \in 1 .. n PROVE f[i] = IF i = 1 THEN seqs[i] ELSE f[i - 1] \o seqs[i]
  <2> HIDE DEF f
  <2>1. CASE i = n
    <3>1. n # 1 => n - 1 \in 1 .. n - 1
      BY <1>5
    <3> QED
      BY <1>8, <1>9, <2>1, <3>1
  <2>2. CASE i # n
    <3>1. i \in 1 .. n - 1 /\ (i # 1 => i - 1 \in 1 .. n - 1)
      BY <1>5, <2>2
    <3>2. f[i] = g[i] /\ (i # 1 => f[i - 1] = g[i - 1])
      BY <1>8, <3>1
    <3> QED
      BY <1>7, <3>1, <3>2
  <2> QED
    BY <2>1, <2>2
<1>11. IsFlat(f, n, seqs)
  BY <1>10 DEF IsFlat
<1> QED
  BY <1>3, <1>11

LEMMA FlattenFacts ==
    ASSUME NEW seqs, Len(seqs) \in Nat, Len(seqs) >= 1
    PROVE  \E f : /\ FlattenSeq(seqs) = f[Len(seqs)] /\ f[1] = seqs[1]
                  /\ \A i \in 2 .. Len(seqs) : f[i] = f[i - 1] \o seqs[i]
<1>1. PICK n : n = Len(seqs)
  OBVIOUS
<1>2. \E f : IsFlat(f, n, seqs)
  BY <1>1, FlatExists
<1>3. PICK f : IsFlat(f, n, seqs) /\ FlattenSeq(seqs) = f[n]
  <2>1. n # 0
    BY <1>1
  <2> QED
    BY <1>1, <1>2, <2>1, Zenon DEF FlattenSeq, IsFlat
<1>4. \A i \in 1 .. n : f[i] = IF i = 1 THEN seqs[i] ELSE f[i - 1] \o seqs[i]
  BY <1>3 DEF IsFlat
<1>5. f[1] = seqs[1] /\ \A i \in 2 .. n : f[i] = f[i - 1] \o seqs[i]
  <2>1. n \in Nat /\ 1 \in 1 .. n
    BY <1>1
  <2>2. f[1] = seqs[1]
    BY <1>4, <2>1
  <2>3. ASSUME NEW i \in 2 .. n PROVE f[i] = f[i - 1] \o seqs[i]
    <3>1. i \in 1 .. n /\ i # 1
      BY <2>1
    <3> QED
      BY <1>4, <3>1
  <2> QED
    BY <2>2, <2>3
<1> QED
  BY <1>1, <1>3, <1>5

-----------------------------------------------------------------------------
(* What the sender frames. *)

\* One chain behind another.
LEMMA JoinFacts ==
    ASSUME NEW S, NEW p \in Seq(S), NEW q \in Seq(S), NEW pq, pq = p \o q
    PROVE  /\ pq \in Seq(S) /\ Len(p) \in Nat /\ Len(q) \in Nat /\ Len(pq) = Len(p) + Len(q)
           /\ \A m \in 1 .. Len(p) : pq[m] = p[m]
           /\ \A m \in 1 .. Len(q) : pq[Len(p) + m] = q[m]
OBVIOUS

LEMMA JoinChains ==
    ASSUME NEW S, NEW p \in Seq(S), NEW q \in Seq(S), NEW xf, NEW pq, pq = p \o q,
           Len(p) > 0, Len(q) > 0,
           \A m \in 1 .. Len(p) - 1 : Linked(xf, p[m], p[m + 1]),
           \A m \in 1 .. Len(q) - 1 : Linked(xf, q[m], q[m + 1]),
           Linked(xf, p[Len(p)], q[1])
    PROVE  \A m \in 1 .. Len(pq) - 1 : Linked(xf, pq[m], pq[m + 1])
<1>1. /\ pq \in Seq(S) /\ Len(p) \in Nat /\ Len(q) \in Nat /\ Len(pq) = Len(p) + Len(q)
      /\ \A m \in 1 .. Len(p) : pq[m] = p[m]
      /\ \A m \in 1 .. Len(q) : pq[Len(p) + m] = q[m]
  BY JoinFacts
<1> SUFFICES ASSUME NEW m \in 1 .. Len(pq) - 1 PROVE Linked(xf, pq[m], pq[m + 1])
  OBVIOUS
<1>2. CASE m < Len(p)
  BY <1>1, <1>2
<1>3. CASE m = Len(p)
  <2>1. pq[m] = p[Len(p)] /\ pq[m + 1] = q[1]
    BY <1>1, <1>3
  <2> QED
    BY <2>1
<1>4. CASE m > Len(p)
  <2>1. PICK k : k = m - Len(p)
    OBVIOUS
  <2>2. k \in 1 .. Len(q) - 1 /\ m = Len(p) + k /\ m + 1 = Len(p) + (k + 1)
    BY <1>1, <1>4, <2>1
  <2>3. pq[m] = q[k] /\ pq[m + 1] = q[k + 1]
    BY <1>1, <2>2
  <2> QED
    BY <2>2, <2>3
<1> QED
  BY <1>1, <1>2, <1>3, <1>4

\* A segment, octet by octet.
SegmentOctets(tx, b, i) ==
    <<Octet("type", tx, i), Octet("rest", tx, i)>> \o SegmentData(tx, b, i)

LEMMA SegmentSeq ==
    ASSUME NEW b \in Bundles, NEW tx \in Nat, NEW i \in 0 .. Segments(b) - 1, NEW p,
           p = SegmentOctets(tx, b, i)
    PROVE  /\ p \in Seq(Octets) /\ Len(p) = 2 + SegLen(b, i) /\ SegLen(b, i) \in Nat
           /\ \A n \in 0 .. 1 + SegLen(b, i) : p[n + 1] = Want(tx, i, n)
<1>0. SegLen(b, i) \in Nat /\ i * SegMru \in Nat /\ i \in Nat
  BY SegLenFacts, SegmentFacts
<1>1. PICK len : len = SegLen(b, i)
  OBVIOUS
<1>2. PICK from : from = i * SegMru
  OBVIOUS
<1>3. SegmentData(tx, b, i) = [j \in 1 .. len |-> Octet("data", tx, from + j)]
  BY <1>1, <1>2 DEF SegmentData, SegLen
<1>4. PICK q : q = [j \in 1 .. len |-> Octet("data", tx, from + j)]
  OBVIOUS
<1>5. \A j \in 1 .. len : Octet("data", tx, from + j) \in Octets
  BY <1>0, <1>1, <1>2 DEF Octet, Octets
<1>6. q \in Seq(Octets) /\ Len(q) = len /\ \A j \in 1 .. len : q[j] = Octet("data", tx, from + j)
  BY <1>0, <1>1, <1>4, <1>5
<1>7. PICK h : h = <<Octet("type", tx, i), Octet("rest", tx, i)>>
  OBVIOUS
<1>8. /\ h \in Seq(Octets) /\ Len(h) = 2
      /\ h[1] = Octet("type", tx, i) /\ h[2] = Octet("rest", tx, i)
  BY <1>0, <1>7 DEF Octet, Octets
<1>9. p = h \o q
  BY <1>3, <1>4, <1>7 DEF SegmentOctets
<1>10. /\ p \in Seq(Octets) /\ Len(p) = 2 + len
       /\ \A m \in 1 .. 2 : p[m] = h[m]
       /\ \A m \in 1 .. len : p[2 + m] = q[m]
  <2>1. /\ p \in Seq(Octets) /\ Len(p) = Len(h) + Len(q)
        /\ \A m \in 1 .. Len(h) : p[m] = h[m]
        /\ \A m \in 1 .. Len(q) : p[Len(h) + m] = q[m]
    <3>1. h \in Seq(Octets) /\ q \in Seq(Octets)
      BY <1>6, <1>8
    <3> QED
      BY <1>9, <3>1, JoinFacts
  <2> QED
    BY <1>6, <1>8, <2>1
<1>11. ASSUME NEW n \in 0 .. 1 + SegLen(b, i) PROVE p[n + 1] = Want(tx, i, n)
  <2>1. CASE n = 0
    BY <1>8, <1>10, <2>1 DEF Want
  <2>2. CASE n = 1
    BY <1>8, <1>10, <2>2 DEF Want
  <2>3. CASE n > 1
    <3>1. PICK m : m = n - 1
      OBVIOUS
    <3>2. m \in 1 .. len /\ n + 1 = 2 + m
      BY <1>0, <1>1, <2>3, <3>1
    <3>3. p[n + 1] = Octet("data", tx, from + m)
      BY <1>6, <1>10, <3>2
    <3>4. from + m = i * SegMru + n - 1
      BY <1>0, <1>2, <3>1
    <3> QED
      BY <1>0, <2>3, <3>3, <3>4 DEF Want
  <2> QED
    BY <1>0, <2>1, <2>2, <2>3
<1> QED
  BY <1>0, <1>1, <1>10, <1>11

\* A chain of octets of transfer tx, from the octet first to the octet last.
IsRun(xf, tx, p, first, last) ==
    /\ p \in Seq(Octets) /\ Len(p) > 0
    /\ p[1] = first /\ p[Len(p)] = last
    /\ \A m \in 1 .. Len(p) - 1 : Linked(xf, p[m], p[m + 1])
    /\ \A m \in 1 .. Len(p) : p[m].tx = tx

LEMMA SegmentRun ==
    ASSUME NEW xf \in Seq(Bundles), NEW tx \in DOMAIN xf, NEW b, b = xf[tx],
           NEW i \in 0 .. Segments(b) - 1, NEW p, p = SegmentOctets(tx, b, i)
    PROVE  IsRun(xf, tx, p, Want(tx, i, 0), Want(tx, i, 1 + SegLen(b, i)))
<1>0. b \in Bundles /\ tx \in Nat /\ i \in Nat
  BY SegmentFacts
<1>1. PICK len : len = SegLen(b, i)
  OBVIOUS
<1>2. p \in Seq(Octets) /\ Len(p) = 2 + len /\ len \in Nat
  BY <1>0, <1>1, SegmentSeq
<1>3. \A n \in 0 .. 1 + len : p[n + 1] = Want(tx, i, n)
  BY <1>0, <1>1, SegmentSeq
<1>4. \A n \in 0 .. 1 + len : Cursor(xf, tx, i, n)
  BY <1>0, <1>1 DEF Cursor
<1>5. ASSUME NEW m \in 1 .. Len(p) - 1 PROVE Linked(xf, p[m], p[m + 1])
  <2>1. PICK n : n = m - 1
    OBVIOUS
  <2>2. n \in 0 .. 1 + len /\ n + 1 \in 0 .. 1 + len /\ n < 1 + len /\ n + 1 = m /\ n \in Nat
    BY <1>2, <2>1
  <2>3. p[m] = Want(tx, i, n) /\ p[m + 1] = Want(tx, i, n + 1)
    BY <1>3, <2>2
  <2>4. Cursor(xf, tx, i, n)
    BY <1>4, <2>2
  <2>5. Follows(xf, p[m], p[m + 1])
    BY <1>0, <1>1, <2>2, <2>3, <2>4 DEF Follows
  <2> QED
    BY <2>5 DEF Linked
<1>6. ASSUME NEW m \in 1 .. Len(p) PROVE p[m].tx = tx
  <2>1. PICK n : n = m - 1
    OBVIOUS
  <2>2. n \in 0 .. 1 + len /\ n + 1 = m /\ n \in Nat
    BY <1>2, <2>1
  <2>3. p[m] = Want(tx, i, n)
    BY <1>3, <2>2
  <2> QED
    BY <2>2, <2>3, WantFacts
<1>7. p[1] = Want(tx, i, 0) /\ p[Len(p)] = Want(tx, i, 1 + len)
  <2>1. p[0 + 1] = Want(tx, i, 0) /\ p[(1 + len) + 1] = Want(tx, i, 1 + len)
    BY <1>2, <1>3
  <2> QED
    BY <1>2, <2>1
<1> QED
  BY <1>1, <1>2, <1>5, <1>6, <1>7 DEF IsRun

LEMMA JoinRuns ==
    ASSUME NEW xf, NEW tx, NEW p, NEW q, NEW a, NEW b, NEW c, NEW d,
           IsRun(xf, tx, p, a, b), IsRun(xf, tx, q, c, d), Linked(xf, b, c), NEW pq, pq = p \o q
    PROVE  IsRun(xf, tx, pq, a, d)
<1>1. p \in Seq(Octets) /\ q \in Seq(Octets) /\ Len(p) > 0 /\ Len(q) > 0
  BY DEF IsRun
<1>2. /\ pq \in Seq(Octets) /\ Len(p) \in Nat /\ Len(q) \in Nat /\ Len(pq) = Len(p) + Len(q)
      /\ \A m \in 1 .. Len(p) : pq[m] = p[m]
      /\ \A m \in 1 .. Len(q) : pq[Len(p) + m] = q[m]
  BY <1>1, JoinFacts
<1>3. \A m \in 1 .. Len(pq) - 1 : Linked(xf, pq[m], pq[m + 1])
  <2>1. /\ \A m \in 1 .. Len(p) - 1 : Linked(xf, p[m], p[m + 1])
        /\ \A m \in 1 .. Len(q) - 1 : Linked(xf, q[m], q[m + 1])
        /\ Linked(xf, p[Len(p)], q[1])
    BY DEF IsRun
  <2> QED
    BY <1>1, <2>1, JoinChains
<1>4. ASSUME NEW m \in 1 .. Len(pq) PROVE pq[m].tx = tx
  <2>1. CASE m <= Len(p)
    BY <1>2, <2>1 DEF IsRun
  <2>2. CASE m > Len(p)
    <3>1. PICK k : k = m - Len(p)
      OBVIOUS
    <3>2. k \in 1 .. Len(q) /\ m = Len(p) + k
      BY <1>2, <2>2, <3>1
    <3> QED
      BY <1>2, <3>2 DEF IsRun
  <2> QED
    BY <1>2, <2>1, <2>2
<1>5. pq[1] = a /\ pq[Len(pq)] = d /\ Len(pq) > 0
  <2>1. p[1] = a /\ q[Len(q)] = d
    BY DEF IsRun
  <2>2. 1 \in 1 .. Len(p) /\ Len(q) \in 1 .. Len(q)
    BY <1>1, <1>2
  <2> QED
    BY <1>1, <1>2, <2>1, <2>2
<1> QED
  BY <1>2, <1>3, <1>4, <1>5 DEF IsRun

\* What frameBundle makes of a bundle is its transfer, from its first octet to its
\* last.
LEMMA FramedFacts ==
    ASSUME NEW xf \in Seq(Bundles), NEW tx \in DOMAIN xf, NEW b, b = xf[tx]
    PROVE  \E last : /\ IsEnd(xf, last)
                     /\ IsRun(xf, tx, Framed(tx, b), Want(tx, 0, 0), last)
<1>0. b \in Bundles /\ tx \in Nat
  OBVIOUS
<1>1. PICK n : n = Segments(b)
  OBVIOUS
<1>2. n \in Nat /\ n >= 1
  BY <1>0, <1>1, SegmentFacts
<1>3. PICK seqs : seqs = [k \in 1 .. n |-> SegmentOctets(tx, b, k - 1)]
  OBVIOUS
<1>4. Framed(tx, b) = FlattenSeq(seqs)
  BY <1>1, <1>3 DEF Framed, SegmentOctets
<1>5. Len(seqs) = n /\ \A k \in 1 .. n : seqs[k] = SegmentOctets(tx, b, k - 1)
  BY <1>2, <1>3
<1>6. PICK f : /\ FlattenSeq(seqs) = f[n] /\ f[1] = seqs[1]
               /\ \A k \in 2 .. n : f[k] = f[k - 1] \o seqs[k]
  <2>1. Len(seqs) \in Nat /\ Len(seqs) >= 1
    BY <1>2, <1>5
  <2>2. PICK f : /\ FlattenSeq(seqs) = f[Len(seqs)] /\ f[1] = seqs[1]
                 /\ \A k \in 2 .. Len(seqs) : f[k] = f[k - 1] \o seqs[k]
    BY <2>1, FlattenFacts
  <2>3. Len(seqs) = n
    BY <1>5
  <2> QED
    BY <2>2, <2>3, Zenon
<1> DEFINE Good(k) ==
              IsRun(xf, tx, f[k], Want(tx, 0, 0), Want(tx, k - 1, 1 + SegLen(b, k - 1)))
           Bad == {k \in 1 .. n : ~Good(k)}
<1>7. Bad = {}
  <2> SUFFICES ASSUME Bad # {} PROVE FALSE
    OBVIOUS
  <2> HIDE DEF Good
  <2>1. PICK k \in Bad : \A l \in Bad : k <= l
    <3>1. Bad \subseteq Nat
      OBVIOUS
    <3> QED
      BY <3>1, LeastNat
  <2>2. PICK i : i = k - 1
    OBVIOUS
  <2>3. k \in 1 .. n /\ i \in 0 .. Segments(b) - 1 /\ k = i + 1 /\ i \in Nat
    BY <1>1, <1>2, <2>1, <2>2
  <2>4. IsRun(xf, tx, seqs[k], Want(tx, i, 0), Want(tx, i, 1 + SegLen(b, i)))
    BY <1>5, <2>2, <2>3, SegmentRun
  <2>5. CASE k = 1
    <3>1. i = 0 /\ f[k] = seqs[k]
      BY <1>6, <2>3, <2>5
    <3>2. Good(k)
      BY <2>2, <2>4, <3>1 DEF Good
    <3> QED
      BY <2>1, <3>2
  <2>6. CASE k # 1
    <3>1. PICK j : j = i - 1
      OBVIOUS
    <3>2. i \in 1 .. n /\ k \in 2 .. n /\ i = k - 1 /\ j \in 0 .. Segments(b) - 1 /\ j + 1 = i
          /\ j \in Nat
      BY <1>1, <1>2, <2>3, <2>6, <3>1
    <3>3. Good(i)
      <4>1. i \notin Bad
        BY <2>1, <2>3, <3>2
      <4> QED
        BY <3>2, <4>1
    <3>4. IsRun(xf, tx, f[i], Want(tx, 0, 0), Want(tx, j, 1 + SegLen(b, j)))
      BY <3>1, <3>3 DEF Good
    <3>5. SegLen(b, j) \in Nat
      BY <1>0, <3>2, SegLenFacts, SegmentFacts
    <3>6. PICK m : m = 1 + SegLen(b, j)
      OBVIOUS
    <3>7. m \in Nat /\ Cursor(xf, tx, j, m)
      BY <3>2, <3>5, <3>6 DEF Cursor
    <3>8. Linked(xf, Want(tx, j, m), Want(tx, i, 0))
      <4>1. j + 1 < Segments(xf[tx])
        BY <1>1, <1>2, <2>3, <3>2
      <4>2. Follows(xf, Want(tx, j, m), Want(tx, j + 1, 0))
        BY <1>0, <3>2, <3>6, <3>7, <4>1 DEF Follows
      <4> QED
        BY <3>2, <4>2 DEF Linked
    <3>9. f[k] = f[i] \o seqs[k]
      BY <1>6, <3>2
    <3>10. IsRun(xf, tx, f[k], Want(tx, 0, 0), Want(tx, i, 1 + SegLen(b, i)))
      BY <2>4, <3>4, <3>6, <3>8, <3>9, JoinRuns
    <3>11. Good(k)
      BY <3>2, <3>10 DEF Good
    <3> QED
      BY <2>1, <3>11
  <2> QED
    BY <2>5, <2>6
<1>8. Good(n)
  <2> HIDE DEF Good
  <2>1. n \in 1 .. n
    BY <1>2
  <2> QED
    BY <1>7, <2>1
<1>9. IsEnd(xf, Want(tx, n - 1, 1 + SegLen(b, n - 1)))
  <2>1. PICK i, m : i = n - 1 /\ m = 1 + SegLen(b, i)
    OBVIOUS
  <2>2. i \in 0 .. Segments(b) - 1
    BY <1>1, <1>2, <2>1
  <2>3. i \in Nat /\ m \in Nat
    BY <1>0, <2>1, <2>2, SegLenFacts, SegmentFacts
  <2>4. IsEnd(xf, Want(tx, i, m))
    BY <1>1, <2>1, <2>3 DEF IsEnd
  <2> QED
    BY <2>1, <2>4
<1> QED
  BY <1>4, <1>6, <1>8, <1>9

-----------------------------------------------------------------------------
(* A transfer is begun. *)

LEMMA AppendFacts ==
    ASSUME NEW S, NEW q \in Seq(S), NEW e \in S, NEW r, r = Append(q, e)
    PROVE  /\ r \in Seq(S) /\ Len(q) \in Nat /\ Len(r) = Len(q) + 1 /\ r[Len(q) + 1] = e
           /\ DOMAIN q = 1 .. Len(q) /\ DOMAIN r = 1 .. Len(q) + 1
           /\ \A m \in 1 .. Len(q) : r[m] = q[m]
OBVIOUS

\* What was so of the transfers before is still so.
Extends(new, old) ==
    /\ old \in Seq(Bundles) /\ new \in Seq(Bundles)
    /\ \A tx \in DOMAIN old : tx \in DOMAIN new /\ new[tx] = old[tx]

LEMMA CursorGrows ==
    ASSUME NEW xf, NEW old, Extends(xf, old), NEW tx, NEW i, NEW n, Cursor(old, tx, i, n)
    PROVE  Cursor(xf, tx, i, n) /\ xf[tx] = old[tx]
BY DEF Cursor, Extends

LEMMA StartGrows ==
    ASSUME NEW xf, NEW old, Extends(xf, old), NEW o, IsStart(old, o)
    PROVE  IsStart(xf, o)
BY DEF IsStart, Extends

LEMMA EndGrows ==
    ASSUME NEW xf, NEW old, Extends(xf, old), NEW o, IsEnd(old, o)
    PROVE  IsEnd(xf, o)
<1>1. PICK tx \in DOMAIN old, i \in Nat, n \in Nat :
         i = Segments(old[tx]) - 1 /\ n = 1 + SegLen(old[tx], i) /\ o = Want(tx, i, n)
  BY DEF IsEnd
<1>2. tx \in DOMAIN xf /\ xf[tx] = old[tx]
  BY DEF Extends
<1> QED
  BY <1>1, <1>2 DEF IsEnd

LEMMA LinkedGrows ==
    ASSUME NEW xf, NEW old, Extends(xf, old), NEW o, NEW q, Linked(old, o, q)
    PROVE  Linked(xf, o, q)
<1>1. CASE Follows(old, o, q)
  <2>1. PICK tx \in Nat, i \in Nat, n \in Nat :
           /\ Cursor(old, tx, i, n) /\ o = Want(tx, i, n)
           /\ \/ n < 1 + SegLen(old[tx], i) /\ q = Want(tx, i, n + 1)
              \/ /\ n = 1 + SegLen(old[tx], i) /\ i + 1 < Segments(old[tx])
                 /\ q = Want(tx, i + 1, 0)
    BY <1>1 DEF Follows
  <2>2. Cursor(xf, tx, i, n) /\ xf[tx] = old[tx]
    BY <2>1, CursorGrows
  <2>3. Follows(xf, o, q)
    BY <2>1, <2>2 DEF Follows
  <2> QED
    BY <2>3 DEF Linked
<1>2. CASE IsEnd(old, o) /\ IsStart(old, q)
  BY <1>2, StartGrows, EndGrows DEF Linked
<1> QED
  BY <1>1, <1>2 DEF Linked

LEMMA FitsGrows ==
    ASSUME NEW xf, NEW old, Extends(xf, old), NEW tx, NEW i, NEW n, NEW s, NEW p,
           tx = 0 \/ tx \in DOMAIN old, Fits(old, tx, i, n, s, p)
    PROVE  Fits(xf, tx, i, n, s, p)
<1>1. \A t \in DOMAIN old : t \in DOMAIN xf /\ StreamOf(xf, t) = StreamOf(old, t)
  BY DEF Extends, StreamOf
<1>2. \A m \in 1 .. Len(p) : p[m].tx \in DOMAIN xf /\ StreamOf(xf, p[m].tx) = s
  BY <1>1 DEF Fits
<1>3. \A m \in 1 .. Len(p) - 1 : Linked(xf, p[m], p[m + 1])
  BY LinkedGrows DEF Fits
<1>4. Len(p) > 0 => IsEnd(xf, p[Len(p)])
  BY EndGrows DEF Fits
<1>5. IF tx # 0 /\ StreamOf(xf, tx) = s
      THEN Len(p) > 0 /\ p[1] = Want(tx, i, n)
      ELSE Len(p) > 0 => IsStart(xf, p[1])
  <2>1. tx # 0 => StreamOf(xf, tx) = StreamOf(old, tx)
    BY <1>1
  <2>2. IsStart(old, p[1]) => IsStart(xf, p[1])
    BY StartGrows
  <2> QED
    BY <2>1, <2>2 DEF Fits
<1> QED
  BY <1>2, <1>3, <1>4, <1>5 DEF Fits

\* Another transfer behind what is to come on a stream.
LEMMA RunFits ==
    ASSUME NEW xf, NEW tx, NEW i, NEW n, NEW s, NEW p \in Seq(Octets), Fits(xf, tx, i, n, s, p),
           NEW t \in DOMAIN xf, StreamOf(xf, t) = s, NEW q, NEW end,
           IsRun(xf, t, q, Want(t, 0, 0), end), IsEnd(xf, end), NEW pq, pq = p \o q
    PROVE  Fits(xf, tx, i, n, s, pq)
<1>1. /\ q \in Seq(Octets) /\ Len(q) > 0 /\ q[1] = Want(t, 0, 0) /\ IsEnd(xf, q[Len(q)])
      /\ \A m \in 1 .. Len(q) - 1 : Linked(xf, q[m], q[m + 1])
      /\ \A m \in 1 .. Len(q) : q[m].tx = t
  BY DEF IsRun
<1>2. /\ pq \in Seq(Octets) /\ Len(p) \in Nat /\ Len(q) \in Nat /\ Len(pq) = Len(p) + Len(q)
      /\ \A m \in 1 .. Len(p) : pq[m] = p[m]
      /\ \A m \in 1 .. Len(q) : pq[Len(p) + m] = q[m]
  BY <1>1, JoinFacts
<1>3. IsStart(xf, q[1])
  BY <1>1 DEF IsStart
<1>4. ASSUME NEW m \in 1 .. Len(pq) PROVE pq[m].tx \in DOMAIN xf /\ StreamOf(xf, pq[m].tx) = s
  <2>1. CASE m <= Len(p)
    BY <1>2, <2>1 DEF Fits
  <2>2. CASE m > Len(p)
    <3>1. PICK k : k = m - Len(p)
      OBVIOUS
    <3>2. k \in 1 .. Len(q) /\ m = Len(p) + k
      BY <1>2, <2>2, <3>1
    <3>3. pq[m].tx = t
      BY <1>1, <1>2, <3>2
    <3> QED
      BY <3>3
  <2> QED
    BY <1>2, <2>1, <2>2
<1>5. IsEnd(xf, pq[Len(pq)])
  BY <1>1, <1>2
<1>6. CASE Len(p) = 0
  <2>1. \A m \in 1 .. Len(q) : pq[m] = q[m]
    BY <1>2, <1>6
  <2>2. \A m \in 1 .. Len(pq) - 1 : Linked(xf, pq[m], pq[m + 1])
    BY <1>1, <1>2, <1>6, <2>1
  <2>3. IsStart(xf, pq[1]) /\ ~(tx # 0 /\ StreamOf(xf, tx) = s)
    BY <1>1, <1>2, <1>3, <1>6, <2>1 DEF Fits
  <2> QED
    BY <1>4, <1>5, <2>2, <2>3 DEF Fits
<1>7. CASE Len(p) > 0
  <2>1. Linked(xf, p[Len(p)], q[1])
    BY <1>3, <1>7 DEF Fits, Linked
  <2>2. \A m \in 1 .. Len(p) - 1 : Linked(xf, p[m], p[m + 1])
    BY DEF Fits
  <2>3. \A m \in 1 .. Len(pq) - 1 : Linked(xf, pq[m], pq[m + 1])
    BY <1>1, <1>7, <2>1, <2>2, JoinChains
  <2>4. pq[1] = p[1] /\ Len(pq) > 0
    BY <1>2, <1>7
  <2> QED
    BY <1>4, <1>5, <1>7, <2>3, <2>4 DEF Fits
<1> QED
  BY <1>2, <1>6, <1>7

-----------------------------------------------------------------------------
(* From the sender to a stream, and off it. *)

\* LineIs(q, d, off, p): place by place.
LineIs(q, d, off, p) ==
    /\ p \in Seq(Octets)
    /\ Len(p) = Len(q) + (Len(d) - off)
    /\ \A m \in 1 .. Len(q) : p[m] = q[m].octet
    /\ \A m \in 1 .. Len(d) - off : p[Len(q) + m] = d[off + m]

LEMMA LineFacts ==
    ASSUME NEW q \in Seq(OnStream), NEW d \in Seq(Octets), NEW off \in 0 .. Len(d)
    PROVE  LineIs(q, d, off, Line(q, d, off)) /\ Len(q) \in Nat /\ Len(d) \in Nat /\ off \in Nat
<1>0. Len(q) \in Nat /\ Len(d) \in Nat /\ off \in Nat /\ off <= Len(d)
  OBVIOUS
<1>1. PICK a, c : a = Len(q) /\ c = Len(d) - off
  <2> QED
    OBVIOUS
<1>2. a \in Nat /\ c \in Nat
  BY <1>0, <1>1
<1>3. PICK p : p = Line(q, d, off)
  OBVIOUS
<1>4. p = [m \in 1 .. a + c |-> IF m <= a THEN q[m].octet ELSE d[off + m - a]]
  BY <1>1, <1>3 DEF Line
<1>5. ASSUME NEW m \in 1 .. a PROVE q[m].octet \in Octets
  <2>1. q[m] \in OnStream
    BY <1>1, <1>2
  <2> QED
    BY <2>1 DEF OnStream
<1>6. ASSUME NEW m \in 1 .. c PROVE d[off + m] \in Octets
  <2>1. off + m \in 1 .. Len(d)
    BY <1>0, <1>1, <1>2
  <2> QED
    BY <2>1
<1>7. ASSUME NEW m \in 1 .. a + c PROVE (IF m <= a THEN q[m].octet ELSE d[off + m - a]) \in Octets
  <2>1. CASE m <= a
    BY <1>2, <1>5, <2>1
  <2>2. CASE m > a
    <3>1. PICK k : k = m - a
      OBVIOUS
    <3>2. k \in 1 .. c /\ off + m - a = off + k /\ ~(m <= a)
      BY <1>0, <1>2, <2>2, <3>1
    <3>3. d[off + k] \in Octets
      BY <1>6, <3>2
    <3> QED
      BY <3>2, <3>3
  <2> QED
    BY <1>2, <2>1, <2>2
<1>8. p \in Seq(Octets) /\ Len(p) = a + c
  BY <1>2, <1>4, <1>7
<1>9. \A m \in 1 .. a : p[m] = q[m].octet
  BY <1>2, <1>4
<1>10. ASSUME NEW m \in 1 .. c PROVE p[a + m] = d[off + m]
  <2>1. a + m \in 1 .. a + c /\ ~(a + m <= a) /\ off + (a + m) - a = off + m
    BY <1>0, <1>2
  <2> QED
    BY <1>4, <2>1
<1> QED
  BY <1>0, <1>1, <1>3, <1>8, <1>9, <1>10 DEF LineIs

\* There is one such line.
LEMMA LineUnique ==
    ASSUME NEW q \in Seq(OnStream), NEW d \in Seq(Octets), NEW off \in 0 .. Len(d),
           NEW p, LineIs(q, d, off, p)
    PROVE  p = Line(q, d, off)
<1>1. PICK r : r = Line(q, d, off)
  OBVIOUS
<1>2. LineIs(q, d, off, r) /\ Len(q) \in Nat /\ Len(d) \in Nat /\ off \in Nat
  BY <1>1, LineFacts
<1>3. p \in Seq(Octets) /\ r \in Seq(Octets) /\ Len(p) = Len(r) /\ Len(p) = Len(q) + (Len(d) - off)
  BY <1>2 DEF LineIs
<1>4. ASSUME NEW m \in 1 .. Len(p) PROVE p[m] = r[m]
  <2>1. CASE m <= Len(q)
    <3>1. m \in 1 .. Len(q)
      BY <1>2, <2>1
    <3> QED
      BY <1>2, <3>1 DEF LineIs
  <2>2. CASE m > Len(q)
    <3>1. PICK k : k = m - Len(q)
      OBVIOUS
    <3>2. k \in 1 .. Len(d) - off /\ m = Len(q) + k
      BY <1>2, <1>3, <2>2, <3>1
    <3> QED
      BY <1>2, <3>2 DEF LineIs
  <2> QED
    BY <1>2, <2>1, <2>2
<1>5. p = r
  <2>1. p \in Seq(Octets) /\ r \in Seq(Octets) /\ Len(p) = Len(r)
    BY <1>3
  <2> QED
    BY <1>4, <2>1, SeqEqual
<1> QED
  BY <1>1, <1>5

\* The sender gives QUIC an octet.
LEMMA LineTaken ==
    ASSUME NEW q \in Seq(OnStream), NEW d \in Seq(Octets), NEW off \in 0 .. Len(d),
           off < Len(d), NEW e \in OnStream, e.octet = d[off + 1], NEW r, r = Append(q, e)
    PROVE  Line(r, d, off + 1) = Line(q, d, off)
<1>1. PICK p : p = Line(q, d, off)
  OBVIOUS
<1>2. LineIs(q, d, off, p) /\ Len(q) \in Nat /\ Len(d) \in Nat /\ off \in Nat
  BY <1>1, LineFacts
<1>3. /\ r \in Seq(OnStream) /\ Len(r) = Len(q) + 1 /\ r[Len(q) + 1] = e
      /\ \A m \in 1 .. Len(q) : r[m] = q[m]
  BY AppendFacts
<1>4. p \in Seq(Octets) /\ Len(p) = Len(r) + (Len(d) - (off + 1))
  BY <1>2, <1>3 DEF LineIs
<1>5. ASSUME NEW m \in 1 .. Len(r) PROVE p[m] = r[m].octet
  <2>1. CASE m <= Len(q)
    <3>1. m \in 1 .. Len(q)
      BY <1>2, <1>3, <2>1
    <3> QED
      BY <1>2, <1>3, <3>1 DEF LineIs
  <2>2. CASE m > Len(q)
    <3>1. m = Len(q) + 1 /\ 1 \in 1 .. Len(d) - off
      BY <1>2, <1>3, <2>2
    <3> QED
      BY <1>2, <1>3, <3>1 DEF LineIs
  <2> QED
    BY <1>2, <1>3, <2>1, <2>2
<1>6. ASSUME NEW m \in 1 .. Len(d) - (off + 1) PROVE p[Len(r) + m] = d[(off + 1) + m]
  <2>1. PICK k : k = m + 1
    OBVIOUS
  <2>2. k \in 1 .. Len(d) - off /\ Len(r) + m = Len(q) + k /\ (off + 1) + m = off + k
    BY <1>2, <1>3, <2>1
  <2>3. p[Len(q) + k] = d[off + k]
    BY <1>2, <2>2 DEF LineIs
  <2> QED
    BY <2>2, <2>3
<1>7. LineIs(r, d, off + 1, p)
  BY <1>4, <1>5, <1>6 DEF LineIs
<1>8. off + 1 \in 0 .. Len(d)
  BY <1>2
<1> QED
  BY <1>1, <1>3, <1>7, <1>8, LineUnique

\* An octet is lost, or sent again as it was.
LEMMA LineSame ==
    ASSUME NEW q \in Seq(OnStream), NEW d \in Seq(Octets), NEW off \in 0 .. Len(d),
           NEW i \in 1 .. Len(q), NEW e \in OnStream, e.octet = q[i].octet,
           NEW r, r = [q EXCEPT ![i] = e]
    PROVE  Line(r, d, off) = Line(q, d, off)
<1>1. PICK p : p = Line(q, d, off)
  OBVIOUS
<1>2. LineIs(q, d, off, p)
  BY <1>1, LineFacts
<1>3. r \in Seq(OnStream) /\ Len(r) = Len(q)
  OBVIOUS
<1>4. \A m \in 1 .. Len(q) : r[m] = IF m = i THEN e ELSE q[m]
  OBVIOUS
<1>5. LineIs(r, d, off, p)
  BY <1>2, <1>3, <1>4 DEF LineIs
<1> QED
  BY <1>1, <1>3, <1>5, LineUnique

\* A bundle is framed: its octets are behind what is on the stream.
LEMMA LineBegun ==
    ASSUME NEW q \in Seq(OnStream), NEW d \in Seq(Octets)
    PROVE  /\ Line(q, <<>>, 0) \in Seq(Octets)
           /\ Line(q, d, 0) = Line(q, <<>>, 0) \o d
           /\ Line(q, d, Len(d)) = Line(q, <<>>, 0)
<1>0. Len(q) \in Nat /\ Len(d) \in Nat /\ 0 \in 0 .. Len(d) /\ Len(d) \in 0 .. Len(d)
  OBVIOUS
<1>1. PICK none : none = <<>>
  OBVIOUS
<1>2. none \in Seq(Octets) /\ Len(none) = 0 /\ 0 \in 0 .. Len(none)
  BY <1>1
<1>3. PICK p : p = Line(q, none, 0)
  OBVIOUS
<1>4. LineIs(q, none, 0, p)
  BY <1>2, <1>3, LineFacts
<1>5. p \in Seq(Octets) /\ Len(p) = Len(q) /\ \A m \in 1 .. Len(q) : p[m] = q[m].octet
  BY <1>0, <1>2, <1>4 DEF LineIs
<1>6. PICK pd : pd = p \o d
  OBVIOUS
<1>7. /\ pd \in Seq(Octets) /\ Len(pd) = Len(p) + Len(d)
      /\ \A m \in 1 .. Len(p) : pd[m] = p[m]
      /\ \A m \in 1 .. Len(d) : pd[Len(p) + m] = d[m]
  <2>1. p \in Seq(Octets)
    BY <1>5
  <2> QED
    BY <1>6, <2>1, JoinFacts
<1>8. LineIs(q, d, 0, pd)
  <2>1. Len(pd) = Len(q) + (Len(d) - 0)
    BY <1>0, <1>5, <1>7
  <2>2. \A m \in 1 .. Len(q) : pd[m] = q[m].octet
    BY <1>5, <1>7
  <2>3. ASSUME NEW m \in 1 .. Len(d) - 0 PROVE pd[Len(q) + m] = d[0 + m]
    <3>1. m \in 1 .. Len(d) /\ 0 + m = m
      BY <1>0
    <3> QED
      BY <1>5, <1>7, <3>1
  <2> QED
    BY <1>7, <2>1, <2>2, <2>3 DEF LineIs
<1>9. LineIs(q, d, Len(d), p)
  <2>1. Len(p) = Len(q) + (Len(d) - Len(d))
    BY <1>0, <1>5
  <2>2. \A m \in 1 .. Len(d) - Len(d) : p[Len(q) + m] = d[Len(d) + m]
    BY <1>0
  <2> QED
    BY <1>5, <2>1, <2>2 DEF LineIs
<1>10. pd = Line(q, d, 0) /\ p = Line(q, d, Len(d))
  BY <1>0, <1>8, <1>9, LineUnique
<1> QED
  BY <1>1, <1>3, <1>5, <1>6, <1>10

\* The first octet leaves the stream.
LEMMA LineTail ==
    ASSUME NEW q \in Seq(OnStream), NEW d \in Seq(Octets), NEW off \in 0 .. Len(d), Len(q) > 0
    PROVE  /\ Line(q, d, off)[1] = q[1].octet /\ Len(Line(q, d, off)) > 0
           /\ Line(Tail(q), d, off) = Tail(Line(q, d, off))
<1>1. PICK p : p = Line(q, d, off)
  OBVIOUS
<1>2. LineIs(q, d, off, p) /\ Len(q) \in Nat /\ Len(d) \in Nat /\ off \in Nat
  BY <1>1, LineFacts
<1>3. p[1] = q[1].octet /\ Len(p) > 0 /\ p \in Seq(Octets)
  BY <1>2 DEF LineIs
<1>4. PICK t, u : t = Tail(q) /\ u = Tail(p)
  OBVIOUS
<1>5. t \in Seq(OnStream) /\ Len(t) = Len(q) - 1 /\ \A m \in 1 .. Len(q) - 1 : t[m] = q[m + 1]
  BY <1>4, TailFacts
<1>6. u \in Seq(Octets) /\ Len(u) = Len(p) - 1 /\ \A m \in 1 .. Len(p) - 1 : u[m] = p[m + 1]
  BY <1>3, <1>4, TailFacts
<1>7. LineIs(t, d, off, u)
  <2>1. Len(p) = Len(q) + (Len(d) - off)
    BY <1>2 DEF LineIs
  <2>2. Len(u) = Len(t) + (Len(d) - off)
    BY <1>2, <1>5, <1>6, <2>1
  <2>3. ASSUME NEW m \in 1 .. Len(t) PROVE u[m] = t[m].octet
    <3>1. m \in 1 .. Len(p) - 1 /\ m \in 1 .. Len(q) - 1 /\ m + 1 \in 1 .. Len(q)
      BY <1>2, <1>5, <2>1
    <3>2. p[m + 1] = q[m + 1].octet
      BY <1>2, <3>1 DEF LineIs
    <3> QED
      BY <1>5, <1>6, <3>1, <3>2
  <2>4. ASSUME NEW m \in 1 .. Len(d) - off PROVE u[Len(t) + m] = d[off + m]
    <3>1. Len(t) + m \in 1 .. Len(p) - 1 /\ (Len(t) + m) + 1 = Len(q) + m
      BY <1>2, <1>5, <2>1
    <3>2. p[Len(q) + m] = d[off + m]
      BY <1>2 DEF LineIs
    <3> QED
      BY <1>6, <3>1, <3>2
  <2> QED
    BY <1>6, <2>2, <2>3, <2>4 DEF LineIs
<1>8. u = Line(t, d, off)
  BY <1>5, <1>7, LineUnique
<1> QED
  BY <1>1, <1>3, <1>4, <1>8

-----------------------------------------------------------------------------
(* What the receiver has of a segment. *)

\* The first n octets of segment i of transfer tx.
Begun(tx, i, n) == [k \in 1 .. n |-> Want(tx, i, k - 1)]

LEMMA BegunFacts ==
    ASSUME NEW tx, NEW i, NEW n \in Nat
    PROVE  /\ Len(Begun(tx, i, n)) = n /\ DOMAIN Begun(tx, i, n) = 1 .. n
           /\ \A k \in 1 .. n : Begun(tx, i, n)[k] = Want(tx, i, k - 1)
           /\ Begun(tx, i, 0) = <<>>
BY DEF Begun

LEMMA BegunAppend ==
    ASSUME NEW tx \in Nat, NEW i \in Nat, NEW n \in Nat
    PROVE  Append(Begun(tx, i, n), Want(tx, i, n)) = Begun(tx, i, n + 1)
<1>1. PICK o : o = Want(tx, i, n)
  OBVIOUS
<1>2. PICK a, c : a = Begun(tx, i, n) /\ c = Begun(tx, i, n + 1)
  <2> QED
    OBVIOUS
<1>3. /\ Len(a) = n /\ a = [k \in 1 .. n |-> Want(tx, i, k - 1)]
      /\ c = [k \in 1 .. n + 1 |-> Want(tx, i, k - 1)]
  BY <1>2, BegunFacts DEF Begun
<1>4. Append(a, o) = [k \in 1 .. n + 1 |-> IF k = n + 1 THEN o ELSE a[k]]
  BY <1>3
<1>5. ASSUME NEW k \in 1 .. n + 1 PROVE (IF k = n + 1 THEN o ELSE a[k]) = Want(tx, i, k - 1)
  <2>1. CASE k = n + 1
    <3>1. k - 1 = n
      BY <2>1
    <3> QED
      BY <1>1, <2>1, <3>1
  <2>2. CASE k # n + 1
    BY <1>3, <2>2
  <2> QED
    BY <2>1, <2>2
<1>6. Append(a, o) = c
  BY <1>3, <1>4, <1>5
<1> QED
  BY <1>1, <1>2, <1>6

\* The data of the segments before, and of this one.
LEMMA DataJoin ==
    ASSUME NEW tx \in Nat, NEW i \in Nat, NEW n \in Nat, i * SegMru \in Nat
    PROVE  DataTo(tx, i * SegMru) \o SubSeq(Begun(tx, i, n + 2), 3, n + 2)
              = DataTo(tx, i * SegMru + n)
<1>1. PICK from : from = i * SegMru
  OBVIOUS
<1>2. PICK c : c = Begun(tx, i, n + 2)
  OBVIOUS
<1>3. n + 2 \in Nat /\ from \in Nat
  BY <1>1
<1>4. Len(c) = n + 2 /\ \A k \in 1 .. n + 2 : c[k] = Want(tx, i, k - 1)
  BY <1>2, <1>3, BegunFacts
<1>5. c \in Seq(Octets)
  <2>1. c = [k \in 1 .. n + 2 |-> Want(tx, i, k - 1)]
    BY <1>2 DEF Begun
  <2>2. ASSUME NEW k \in 1 .. n + 2 PROVE Want(tx, i, k - 1) \in Octets
    <3>1. k > 2 => i * SegMru + (k - 1) - 1 \in Nat
      OBVIOUS
    <3> QED
      BY <3>1 DEF Want, Octet, Octets
  <2> QED
    BY <1>3, <2>1, <2>2
<1>6. PICK d : d = SubSeq(c, 3, n + 2)
  OBVIOUS
<1>7. d \in Seq(Octets) /\ Len(d) = n /\ \A k \in 1 .. n : d[k] = c[k + 2]
  <2>1. \A k \in 3 .. n + 2 : c[k] \in Octets
    BY <1>4, <1>5
  <2>2. /\ d \in Seq(Octets)
        /\ Len(d) = IF 3 <= n + 2 THEN (n + 2) - 3 + 1 ELSE 0
        /\ \A k \in 1 .. (n + 2) - 3 + 1 : d[k] = c[3 + k - 1]
    BY <1>5, <1>6, <2>1, SubSeqProperties
  <2>3. Len(d) = n
    BY <2>2
  <2>4. ASSUME NEW k \in 1 .. n PROVE d[k] = c[k + 2]
    <3>1. k \in 1 .. (n + 2) - 3 + 1 /\ 3 + k - 1 = k + 2
      OBVIOUS
    <3> QED
      BY <2>2, <3>1
  <2> QED
    BY <2>2, <2>3, <2>4
<1>8. PICK a, w : a = DataTo(tx, from) /\ w = DataTo(tx, from + n)
  <2> QED
    OBVIOUS
<1>9. /\ a \in Seq(Octets) /\ Len(a) = from /\ w \in Seq(Octets) /\ Len(w) = from + n
      /\ \A k \in 1 .. from : a[k] = Octet("data", tx, k)
      /\ \A k \in 1 .. from + n : w[k] = Octet("data", tx, k)
  <2>1. \A k \in 1 .. from + n : Octet("data", tx, k) \in Octets
    BY <1>3 DEF Octet, Octets
  <2> QED
    BY <1>3, <1>8, <2>1 DEF DataTo
<1>10. ASSUME NEW k \in 1 .. n PROVE d[k] = Octet("data", tx, from + k)
  <2>1. k + 2 \in 1 .. n + 2 /\ (k + 2) - 1 = k + 1 /\ k + 1 > 1
    OBVIOUS
  <2>2. PICK m : m = k + 1
    OBVIOUS
  <2>3. d[k] = Want(tx, i, m)
    BY <1>4, <1>7, <2>1, <2>2
  <2>4. Want(tx, i, m) = Octet("data", tx, from + m - 1)
    BY <1>1, <2>1, <2>2 DEF Want
  <2>5. from + m - 1 = from + k
    BY <1>3, <2>2
  <2> QED
    BY <2>3, <2>4, <2>5
<1>11. PICK ad : ad = a \o d
  OBVIOUS
<1>12. /\ ad \in Seq(Octets) /\ Len(ad) = from + n
       /\ \A k \in 1 .. from : ad[k] = a[k]
       /\ \A k \in 1 .. n : ad[from + k] = d[k]
  <2>1. a \in Seq(Octets) /\ d \in Seq(Octets)
    BY <1>7, <1>9
  <2>2. /\ ad \in Seq(Octets) /\ Len(ad) = Len(a) + Len(d)
        /\ \A k \in 1 .. Len(a) : ad[k] = a[k]
        /\ \A k \in 1 .. Len(d) : ad[Len(a) + k] = d[k]
    BY <1>11, <2>1, JoinFacts
  <2> QED
    BY <1>7, <1>9, <2>2
<1>13. ASSUME NEW k \in 1 .. from + n PROVE ad[k] = w[k]
  <2>1. CASE k <= from
    BY <1>3, <1>9, <1>12, <2>1
  <2>2. CASE k > from
    <3>1. PICK m : m = k - from
      OBVIOUS
    <3>2. m \in 1 .. n /\ from + m = k
      BY <1>3, <2>2, <3>1
    <3> QED
      BY <1>9, <1>10, <1>12, <3>2
  <2> QED
    BY <1>3, <2>1, <2>2
<1>14. ad = w
  <2>1. ad \in Seq(Octets) /\ w \in Seq(Octets) /\ Len(ad) = Len(w)
    BY <1>9, <1>12
  <2>2. \A k \in 1 .. Len(ad) : ad[k] = w[k]
    BY <1>12, <1>13
  <2> QED
    BY <2>1, <2>2, SeqEqual
<1> QED
  BY <1>1, <1>2, <1>6, <1>8, <1>11, <1>14

\* A bundle of which the receiver has all octets is whole.
LEMMA DataWhole ==
    ASSUME NEW xf \in Seq(Bundles), NEW tx \in DOMAIN xf, NEW b, b = xf[tx]
    PROVE  DataTo(tx, Size[b]) \in Seq(Received) /\ WholeIn(xf, DataTo(tx, Size[b]), b)
<1>1. tx \in Nat /\ b \in Bundles
  OBVIOUS
<1>2. PICK n : n = Size[b]
  OBVIOUS
<1>3. n \in Nat
  BY <1>1, <1>2, SegmentFacts
<1>4. PICK x : x = DataTo(tx, n)
  OBVIOUS
<1>5. x = [j \in 1 .. n |-> Octet("data", tx, j)]
  BY <1>4 DEF DataTo
<1>6. \A j \in 1 .. n : Octet("data", tx, j) \in Received
  BY <1>1, <1>3 DEF Octet, Received
<1>7. x \in Seq(Received) /\ Len(x) = n
  BY <1>3, <1>5, <1>6
<1>8. \A j \in 1 .. n : x[j].k = "data" /\ x[j].at = j /\ x[j].tx = tx
  BY <1>5 DEF Octet
<1> QED
  BY <1>2, <1>4, <1>7, <1>8 DEF WholeIn

-----------------------------------------------------------------------------
(* Datagrams. *)

LEMMA FunctionIsSeq ==
    ASSUME NEW S, NEW n \in Nat, NEW f \in [1 .. n -> S]
    PROVE  f \in Seq(S) /\ Len(f) = n
OBVIOUS

\* The fields of a segment's header.
LEMMA HeaderFacts ==
    ASSUME NEW tx \in DOMAIN xfers, xfers \in Seq(Bundles), NEW b, b = xfers[tx],
           NEW i \in 0 .. Segments(b) - 1, NEW h, h = Header(tx, i)
    PROVE  /\ h.tx = tx /\ h.seg = i /\ h.len = SegLen(b, i) /\ h.bundleLen = Size[b]
           /\ h.total = Segments(b) /\ h.start = (i = 0) /\ h.end = (i = Segments(b) - 1)
           /\ h.end \in BOOLEAN
BY DEF Header, SegLen

\* Where a segment is placed in the buffer.
LEMMA DatagramPlace ==
    ASSUME NEW b \in Bundles, NEW i \in 0 .. Segments(b) - 1
    PROVE  (IF i = Segments(b) - 1 THEN Size[b] - SegLen(b, i) ELSE i * SegLen(b, i)) = i * SegMru
<1>1. SegLen(b, i) \in Nat /\ i * SegMru \in Nat /\ Segments(b) \in Nat /\ Size[b] \in Nat
      /\ i \in Nat
  BY SegmentFacts, SegLenFacts
<1>2. CASE i = Segments(b) - 1
  <2>1. i * SegMru + SegLen(b, i) = Size[b]
    BY <1>2, SegLenFacts
  <2> QED
    BY <1>1, <1>2, <2>1
<1>3. CASE i # Segments(b) - 1
  BY <1>3 DEF SegLen
<1> QED
  BY <1>2, <1>3

\* A transfer begun, or the one there is: its parts are in place.
LEMMA DgStartedOK ==
    ASSUME XferTypeOK, DatagramsOK, NEW d \in Datagrams(xfers), NEW h, h = Header(d.tx, d.seg),
           NEW y, y = DgStarted(h)
    PROVE  y \in DgRxs /\ y.active /\ DgRxOK(xfers, y) /\ y.tx = d.tx
<1>0. xfers \in Seq(Bundles)
  BY DEF XferTypeOK
<1>1. d.tx \in DOMAIN xfers /\ d.tx \in Nat /\ d.seg \in 0 .. Segments(xfers[d.tx]) - 1
  BY DEF Datagrams
<1>2. PICK tx, b : tx = d.tx /\ b = xfers[tx]
  <2> QED
    OBVIOUS
<1>3. b \in Bundles /\ Segments(b) \in Nat /\ Size[b] \in Nat /\ tx \in Nat
  BY <1>0, <1>1, <1>2, SegmentFacts
<1>4. h.tx = tx /\ h.total = Segments(b) /\ h.bundleLen = Size[b]
  BY <1>0, <1>1, <1>2, HeaderFacts
<1>5. CASE h.start \/ ~dgRx.active \/ dgRx.tx # h.tx
  <2>1. PICK buf : buf = [j \in 1 .. Size[b] |-> Octet("zero", tx, j)]
    OBVIOUS
  <2>2. y = [tx |-> tx, active |-> TRUE, total |-> Segments(b), seen |-> {}, count |-> 0,
             buf |-> buf]
    BY <1>4, <1>5, <2>1 DEF DgStarted
  <2>3. \A j \in 1 .. Size[b] : Octet("zero", tx, j) \in Received
    BY <1>3 DEF Octet, Received
  <2>4. /\ buf \in Seq(Received) /\ Len(buf) = Size[b]
        /\ \A j \in 1 .. Size[b] : buf[j].tx = tx /\ buf[j].at = j
    BY <1>3, <2>1, <2>3 DEF Octet
  <2>5. y \in DgRxs
    BY <1>3, <2>2, <2>4 DEF DgRxs
  <2>6. Cardinality({}) = 0
    BY FS_EmptySet
  <2>7. Placed(b, tx, buf, {})
    BY <2>4 DEF Placed
  <2> QED
    BY <1>1, <1>2, <2>2, <2>5, <2>6, <2>7 DEF DgRxOK
<1>6. CASE ~(h.start \/ ~dgRx.active \/ dgRx.tx # h.tx)
  <2>1. y = dgRx /\ dgRx.active /\ dgRx.tx = h.tx
    BY <1>6 DEF DgStarted
  <2> QED
    BY <1>2, <1>4, <2>1 DEF DatagramsOK
<1> QED
  BY <1>5, <1>6

\* With the segment placed, they are so too.
LEMMA DgPlacedOK ==
    ASSUME XferTypeOK, DatagramsOK, NEW d \in Datagrams(xfers), NEW h, h = Header(d.tx, d.seg),
           NEW x, x = DgPlaced(DgStarted(h), h)
    PROVE  x \in DgRxs /\ DgRxOK(xfers, x)
<1>0. xfers \in Seq(Bundles)
  BY DEF XferTypeOK
<1>1. d.tx \in DOMAIN xfers /\ d.tx \in Nat /\ d.seg \in 0 .. Segments(xfers[d.tx]) - 1
      /\ d.seg \in Nat
  BY DEF Datagrams
<1>2. PICK tx, b, i, y : tx = d.tx /\ b = xfers[tx] /\ i = d.seg /\ y = DgStarted(h)
  <2> QED
    OBVIOUS
<1>3. b \in Bundles /\ Segments(b) \in Nat /\ Size[b] \in Nat /\ tx \in Nat /\ i \in Nat
      /\ i \in 0 .. Segments(b) - 1
  BY <1>0, <1>1, <1>2, SegmentFacts
<1>4. /\ h.tx = tx /\ h.seg = i /\ h.bundleLen = Size[b]
      /\ h.len = SegLen(b, i) /\ h.end = (i = Segments(b) - 1)
  BY <1>0, <1>1, <1>2, HeaderFacts
<1>5. y \in DgRxs /\ y.active /\ DgRxOK(xfers, y) /\ y.tx = tx
  BY <1>2, DgStartedOK
<1>6. PICK at : at = i * SegMru
  OBVIOUS
<1>7. (IF h.end THEN h.bundleLen - h.len ELSE h.seg * h.len) = at
  <2>1. (IF i = Segments(b) - 1 THEN Size[b] - SegLen(b, i) ELSE i * SegLen(b, i)) = at
    BY <1>3, <1>6, DatagramPlace
  <2> QED
    BY <1>4, <2>1
<1>8. PICK buf, seen, count :
         /\ buf = [j \in DOMAIN y.buf |-> IF j \in at + 1 .. at + h.len
                                          THEN Octet("data", h.tx, j) ELSE y.buf[j]]
         /\ seen = y.seen \cup {i}
         /\ count = IF i \in y.seen THEN y.count ELSE y.count + 1
  <2> QED
    OBVIOUS
<1>9. x = [y EXCEPT !.buf = buf, !.seen = seen, !.count = count]
  BY <1>2, <1>4, <1>7, <1>8, Zenon DEF DgPlaced
<1>10. x = [tx |-> y.tx, active |-> y.active, total |-> y.total, seen |-> seen,
            count |-> count, buf |-> buf]
  BY <1>5, <1>9 DEF DgRxs
<1>11. /\ y.buf \in Seq(Received) /\ Len(y.buf) = Size[b] /\ DOMAIN y.buf = 1 .. Size[b]
       /\ \A j \in 1 .. Size[b] :
            /\ y.buf[j] \in Received /\ y.buf[j].tx = tx /\ y.buf[j].at = j
            /\ \A l \in y.seen : j \in SegmentPlaces(b, l) => y.buf[j].k = "data"
  <2>1. y.buf \in Seq(Received)
    BY <1>5 DEF DgRxs
  <2>2. Placed(b, tx, y.buf, y.seen)
    BY <1>2, <1>5 DEF DgRxOK
  <2> QED
    BY <2>1, <2>2 DEF Placed
<1>12. ASSUME NEW j \in 1 .. Size[b]
       PROVE  /\ buf[j] \in Received /\ buf[j].tx = tx /\ buf[j].at = j
              /\ \A l \in seen : j \in SegmentPlaces(b, l) => buf[j].k = "data"
  <2>1. buf[j] = IF j \in SegmentPlaces(b, i) THEN Octet("data", tx, j) ELSE y.buf[j]
    BY <1>4, <1>6, <1>8, <1>11 DEF SegmentPlaces
  <2>2. CASE j \in SegmentPlaces(b, i)
    BY <1>3, <2>1, <2>2 DEF Octet, Received
  <2>3. CASE j \notin SegmentPlaces(b, i)
    BY <1>8, <1>11, <2>1, <2>3
  <2> QED
    BY <2>2, <2>3
<1>13. buf \in Seq(Received) /\ Len(buf) = Size[b]
  <2>1. buf \in [1 .. Size[b] -> Received]
    BY <1>8, <1>11, <1>12
  <2> QED
    BY <1>3, <2>1, FunctionIsSeq
<1>14. Placed(b, tx, buf, seen)
  BY <1>12, <1>13 DEF Placed
<1>15. /\ y.seen \subseteq 0 .. Segments(b) - 1 /\ y.count = Cardinality(y.seen)
       /\ y.total = Segments(b)
  BY <1>2, <1>5 DEF DgRxOK
<1>16. count = Cardinality(seen) /\ count \in Nat
  <2>1. IsFiniteSet(0 .. Segments(b) - 1)
    BY <1>3, FS_Interval
  <2>2. IsFiniteSet(y.seen)
    BY <1>15, <2>1, FS_Subset
  <2>3. Cardinality(y.seen) \in Nat
    BY <2>2, FS_CardinalityType
  <2>4. Cardinality(seen) = IF i \in y.seen THEN Cardinality(y.seen) ELSE Cardinality(y.seen) + 1
    BY <1>8, <2>2, FS_AddElement
  <2> QED
    BY <1>8, <1>15, <2>3, <2>4
<1>17. seen \subseteq 0 .. Segments(b) - 1 /\ seen \in SUBSET Nat
  BY <1>3, <1>8, <1>15
<1>18. x \in DgRxs
  BY <1>3, <1>5, <1>10, <1>13, <1>15, <1>16, <1>17 DEF DgRxs
<1>19. x.tx = tx /\ x.total = Segments(b) /\ x.seen = seen /\ x.count = count /\ x.buf = buf
  BY <1>5, <1>10, <1>15
<1> QED
  BY <1>1, <1>2, <1>14, <1>16, <1>17, <1>18, <1>19 DEF DgRxOK

\* When all segments are there, so is the bundle.
LEMMA DgWhole ==
    ASSUME NEW xf \in Seq(Bundles), NEW x \in DgRxs, DgRxOK(xf, x), x.count = x.total
    PROVE  x.buf \in Seq(Received) /\ WholeIn(xf, x.buf, xf[x.tx]) /\ xf[x.tx] \in Bundles
<1>1. PICK tx, b, buf : tx = x.tx /\ b = xf[tx] /\ buf = x.buf
  <2> QED
    OBVIOUS
<1>2. /\ tx \in DOMAIN xf /\ b \in Bundles /\ x.total = Segments(b)
      /\ x.seen \subseteq 0 .. Segments(b) - 1
      /\ x.count = Cardinality(x.seen) /\ Placed(b, tx, buf, x.seen)
  BY <1>1 DEF DgRxOK
<1>3. Segments(b) \in Nat /\ Size[b] \in Nat
  BY <1>2, SegmentFacts
<1>4. x.seen = 0 .. Segments(b) - 1
  <2>1. PICK top : top = Segments(b) - 1
    OBVIOUS
  <2>2. top \in Int /\ Segments(b) = top + 1 /\ Segments(b) >= 1
    BY <1>2, <1>3, <2>1, SegmentFacts
  <2>3. IsFiniteSet(0 .. top) /\ Cardinality(0 .. top) = Segments(b)
    <3>1. Cardinality(0 .. top) = IF 0 <= top THEN top - 0 + 1 ELSE 0
      BY <2>2, FS_Interval
    <3>2. IsFiniteSet(0 .. top)
      BY <2>2, FS_Interval
    <3> QED
      BY <1>3, <2>2, <3>1, <3>2
  <2>4. Cardinality(x.seen) = Cardinality(0 .. top)
    BY <1>2, <2>3
  <2> QED
    BY <1>2, <2>1, <2>3, <2>4, FS_Subset
<1>5. /\ Len(buf) = Size[b]
      /\ \A j \in 1 .. Size[b] :
            /\ buf[j].tx = tx /\ buf[j].at = j
            /\ \A i \in x.seen : j \in SegmentPlaces(b, i) => buf[j].k = "data"
  BY <1>2 DEF Placed
<1>6. ASSUME NEW j \in 1 .. Size[b] PROVE buf[j].k = "data"
  <2>1. PICK i \in 0 .. Segments(b) - 1 : j \in SegmentPlaces(b, i)
    BY <1>2, SegmentsCover DEF SegmentPlaces
  <2> QED
    BY <1>4, <1>5, <2>1
<1>7. buf \in Seq(Received)
  BY <1>1 DEF DgRxs
<1> QED
  BY <1>1, <1>2, <1>5, <1>6, <1>7 DEF WholeIn

-----------------------------------------------------------------------------
(* The octets to come on a stream, as the actions leave them. *)

LEMMA PriorityType == ASSUME NEW n PROVE PriorityStream(n) \in 1 .. 4
BY DEF PriorityStream

LEMMA PipeType ==
    ASSUME XferTypeOK, NEW s \in 1 .. 4
    PROVE  Pipe(s) \in Seq(Octets)
<1>1. stream[s] \in Seq(OnStream) /\ sendData \in Seq(Octets) /\ sendOff \in 0 .. Len(sendData)
  BY DEF XferTypeOK
<1>2. Line(stream[s], sendData, sendOff) \in Seq(Octets)
  BY <1>1, LineFacts DEF LineIs
<1>3. Line(stream[s], <<>>, 0) \in Seq(Octets)
  BY <1>1, LineBegun
<1> QED
  BY <1>2, <1>3 DEF Pipe

LEMMA PipeTail ==
    ASSUME XferTypeOK, NEW s \in 1 .. 4, stream[s] # <<>>,
           UNCHANGED <<xfers, sendData, sendOff>>, stream' = [stream EXCEPT ![s] = Tail(@)]
    PROVE  /\ Pipe(s)[1] = stream[s][1].octet /\ Len(Pipe(s)) > 0
           /\ Pipe(s)' = Tail(Pipe(s))
           /\ \A t \in 1 .. 4 : t # s => Pipe(t)' = Pipe(t)
<1>1. stream[s] \in Seq(OnStream) /\ sendData \in Seq(Octets) /\ sendOff \in 0 .. Len(sendData)
  BY DEF XferTypeOK
<1>2. PICK q : q = stream[s]
  OBVIOUS
<1>3. q \in Seq(OnStream) /\ Len(q) > 0
  <2>1. q \in Seq(OnStream) /\ q # <<>>
    BY <1>1, <1>2
  <2> QED
    BY <2>1
<1>4. stream'[s] = Tail(q) /\ \A t \in 1 .. 4 : t # s => stream'[t] = stream[t]
  BY <1>2 DEF XferTypeOK
<1>5. PICK none : none = <<>>
  OBVIOUS
<1>6. none \in Seq(Octets) /\ 0 \in 0 .. Len(none)
  BY <1>5
<1>7. /\ Line(q, sendData, sendOff)[1] = q[1].octet /\ Len(Line(q, sendData, sendOff)) > 0
      /\ Line(Tail(q), sendData, sendOff) = Tail(Line(q, sendData, sendOff))
  BY <1>1, <1>3, LineTail
<1>8. /\ Line(q, none, 0)[1] = q[1].octet /\ Len(Line(q, none, 0)) > 0
      /\ Line(Tail(q), none, 0) = Tail(Line(q, none, 0))
  BY <1>3, <1>6, LineTail
<1>9. \A t : Pipe(t)' = IF sendData # none /\ StreamOf(xfers, Len(xfers)) = t
                         THEN Line(stream'[t], sendData, sendOff) ELSE Line(stream'[t], none, 0)
  BY <1>5 DEF Pipe
<1>10. \A t : Pipe(t) = IF sendData # none /\ StreamOf(xfers, Len(xfers)) = t
                         THEN Line(stream[t], sendData, sendOff) ELSE Line(stream[t], none, 0)
  BY <1>5 DEF Pipe
<1>11. Pipe(s)[1] = q[1].octet /\ Len(Pipe(s)) > 0 /\ Pipe(s)' = Tail(Pipe(s))
  BY <1>2, <1>4, <1>7, <1>8, <1>9, <1>10
<1>12. \A t \in 1 .. 4 : t # s => Pipe(t)' = Pipe(t)
  BY <1>4, <1>9, <1>10
<1> QED
  BY <1>2, <1>11, <1>12

\* What the sender frames is its last transfer.
LEMMA SlotOctets ==
    ASSUME XferTypeOK, SlotOK, sendData # <<>>, NEW m \in 1 .. Len(sendData)
    PROVE  sendData[m].tx = Len(xfers) /\ Len(xfers) \in DOMAIN xfers
<1>1. xfers \in Seq(Bundles) /\ Len(xfers) > 0 /\ Len(xfers) \in DOMAIN xfers
  BY DEF XferTypeOK, SlotOK
<1>2. PICK tx, b : tx = Len(xfers) /\ b = xfers[tx]
  <2> QED
    OBVIOUS
<1>3. sendData = Framed(tx, b)
  BY <1>2 DEF SlotOK
<1>4. PICK last : IsRun(xfers, tx, Framed(tx, b), Want(tx, 0, 0), last)
  BY <1>1, <1>2, FramedFacts
<1> QED
  BY <1>1, <1>2, <1>3, <1>4 DEF IsRun

\* WriteConn moves the next octet from there to the stream.
LEMMA PipeTaken ==
    ASSUME XferTypeOK, SlotOK, WriteConn
    PROVE  XferTypeOK' /\ \A s \in 1 .. 4 : Pipe(s)' = Pipe(s)
<1>0. /\ sendData \in Seq(Octets) /\ sendOff \in 0 .. Len(sendData) /\ sendOff < Len(sendData)
      /\ sendOff \in Nat /\ Len(sendData) \in Nat
      /\ stream \in [1 .. 4 -> Seq(OnStream)]
  <2>1. /\ sendData \in Seq(Octets) /\ sendOff \in 0 .. Len(sendData)
        /\ stream \in [1 .. 4 -> Seq(OnStream)]
    BY DEF XferTypeOK
  <2>2. sendOff < Len(sendData)
    BY DEF WriteConn
  <2>3. Len(sendData) \in Nat
    BY <2>1
  <2> QED
    BY <2>1, <2>2, <2>3
<1>1. PICK o : o = sendData[sendOff + 1]
  OBVIOUS
<1>2. sendOff + 1 \in 1 .. Len(sendData) /\ sendData # <<>>
  BY <1>0
<1>3. o \in Octets /\ o.tx = Len(xfers)
  BY <1>0, <1>1, <1>2, SlotOctets
<1>4. PICK s : s = StreamOf(xfers, Len(xfers))
  OBVIOUS
<1>5. s \in 1 .. 4
  BY <1>4, PriorityType DEF StreamOf
<1>6. PICK lost \in BOOLEAN :
         stream' = [stream EXCEPT ![s] = Append(@, [octet |-> o, lost |-> lost])]
  BY <1>1, <1>3, <1>4 DEF WriteConn, StreamOf
<1>7. PICK q, e, r : q = stream[s] /\ e = [octet |-> o, lost |-> lost] /\ r = Append(q, e)
  <2> QED
    OBVIOUS
<1>8. q \in Seq(OnStream) /\ e \in OnStream /\ e.octet = sendData[sendOff + 1]
  BY <1>0, <1>1, <1>3, <1>5, <1>7 DEF OnStream
<1>9. stream'[s] = r /\ \A t \in 1 .. 4 : t # s => stream'[t] = stream[t]
  BY <1>0, <1>5, <1>6, <1>7
<1>10. Line(r, sendData, sendOff + 1) = Line(q, sendData, sendOff)
  <2>1. sendData \in Seq(Octets) /\ sendOff \in 0 .. Len(sendData) /\ sendOff < Len(sendData)
    BY <1>0
  <2>2. q \in Seq(OnStream) /\ e \in OnStream /\ e.octet = sendData[sendOff + 1]
    BY <1>8
  <2>3. r = Append(q, e)
    BY <1>7
  <2> QED
    BY <2>1, <2>2, <2>3, LineTaken
<1>11. UNCHANGED <<xfers, bp, sendData>> /\ sendOff' = sendOff + 1
  BY DEF WriteConn
<1>12. \A t : Pipe(t) = IF t = s THEN Line(stream[t], sendData, sendOff)
                        ELSE Line(stream[t], <<>>, 0)
  BY <1>2, <1>4 DEF Pipe
<1>13. \A t : Pipe(t)' = IF t = s THEN Line(stream'[t], sendData, sendOff + 1)
                         ELSE Line(stream'[t], <<>>, 0)
  BY <1>2, <1>4, <1>11 DEF Pipe
<1>14. \A t \in 1 .. 4 : Pipe(t)' = Pipe(t)
  BY <1>7, <1>9, <1>10, <1>12, <1>13
<1>15. XferTypeOK'
  <2>1. r \in Seq(OnStream)
    BY <1>7, <1>8
  <2>2. stream' \in [1 .. 4 -> Seq(OnStream)]
    BY <1>0, <1>6, <1>7, <2>1
  <2>3. sendOff' \in 0 .. Len(sendData)
    BY <1>0, <1>11
  <2> QED
    BY <1>11, <2>2, <2>3 DEF XferTypeOK
<1> QED
  BY <1>14, <1>15

\* QUIC sends an octet again.
LEMMA PipeRetransmit ==
    ASSUME XferTypeOK, NEW s \in 1 .. 4, NEW i \in 1 .. Len(stream[s]), Retransmit(s, i)
    PROVE  /\ XferTypeOK'
           /\ spoilt' = {} => spoilt = {} /\ \A t \in 1 .. 4 : Pipe(t)' = Pipe(t)
<1>0. /\ sendData \in Seq(Octets) /\ sendOff \in 0 .. Len(sendData)
      /\ stream \in [1 .. 4 -> Seq(OnStream)]
  BY DEF XferTypeOK
<1>1. PICK q, o : q = stream[s] /\ o = stream[s][i].octet
  <2> QED
    OBVIOUS
<1>2. q \in Seq(OnStream) /\ i \in 1 .. Len(q) /\ o = q[i].octet /\ q[i] \in OnStream
  BY <1>0, <1>1
<1>3. o \in Octets
  BY <1>2 DEF OnStream
<1>4. PICK e : e = [octet |-> IF StillHeld(o.tx) THEN o ELSE Octet("bad", o.tx, o.at),
                    lost |-> FALSE]
  OBVIOUS
<1>5. e \in OnStream
  <2>1. Octet("bad", o.tx, o.at) \in Octets
    BY <1>3 DEF Octet, Octets
  <2> QED
    BY <1>3, <1>4, <2>1 DEF OnStream
<1>6. PICK r : r = [q EXCEPT ![i] = e]
  OBVIOUS
<1>7. stream' = [stream EXCEPT ![s] = r]
  BY <1>0, <1>1, <1>4, <1>6 DEF Retransmit
<1>8. r \in Seq(OnStream)
  BY <1>2, <1>5, <1>6
<1>9. stream'[s] = r /\ \A t \in 1 .. 4 : t # s => stream'[t] = stream[t]
  BY <1>0, <1>7
<1>10. UNCHANGED <<xfers, bp, sendData, sendOff>>
  BY DEF Retransmit, txVars
<1>11. XferTypeOK'
  <2>1. stream' \in [1 .. 4 -> Seq(OnStream)]
    BY <1>0, <1>7, <1>8
  <2> QED
    BY <1>10, <2>1 DEF XferTypeOK
<1>12. ASSUME spoilt' = {} PROVE spoilt = {} /\ \A t \in 1 .. 4 : Pipe(t)' = Pipe(t)
  <2>1. spoilt' = IF StillHeld(o.tx) THEN spoilt ELSE spoilt \cup {"freed"}
    BY <1>1 DEF Retransmit
  <2>2. spoilt = {} /\ StillHeld(o.tx)
    BY <1>12, <2>1
  <2>3. e.octet = q[i].octet
    BY <1>2, <1>4, <2>2
  <2>4. PICK none : none = <<>>
    OBVIOUS
  <2>5. none \in Seq(Octets) /\ 0 \in 0 .. Len(none)
    BY <2>4
  <2>6. Line(r, sendData, sendOff) = Line(q, sendData, sendOff)
    <3>1. /\ sendData \in Seq(Octets) /\ sendOff \in 0 .. Len(sendData)
          /\ q \in Seq(OnStream) /\ i \in 1 .. Len(q) /\ e \in OnStream
      BY <1>0, <1>2, <1>5
    <3> QED
      BY <1>6, <2>3, <3>1, LineSame
  <2>7. Line(r, none, 0) = Line(q, none, 0)
    <3>1. q \in Seq(OnStream) /\ i \in 1 .. Len(q) /\ e \in OnStream
      BY <1>2, <1>5
    <3> QED
      BY <1>6, <2>3, <2>5, <3>1, LineSame
  <2>8. \A t : Pipe(t)' = IF sendData # none /\ StreamOf(xfers, Len(xfers)) = t
                          THEN Line(stream'[t], sendData, sendOff) ELSE Line(stream'[t], none, 0)
    BY <1>10, <2>4 DEF Pipe
  <2>9. \A t : Pipe(t) = IF sendData # none /\ StreamOf(xfers, Len(xfers)) = t
                         THEN Line(stream[t], sendData, sendOff) ELSE Line(stream[t], none, 0)
    BY <2>4 DEF Pipe
  <2>10. \A t \in 1 .. 4 : Pipe(t)' = Pipe(t)
    BY <1>1, <1>9, <2>6, <2>7, <2>8, <2>9
  <2> QED
    BY <2>2, <2>10
<1> QED
  BY <1>11, <1>12

\* The framed octets are freed when QUIC has taken them all.
LEMMA PipeDone ==
    ASSUME XferTypeOK, sendOff = Len(sendData), sendData' = <<>>, sendOff' = 0,
           UNCHANGED <<xfers, stream>>
    PROVE  \A s \in 1 .. 4 : Pipe(s)' = Pipe(s)
<1> SUFFICES ASSUME NEW s \in 1 .. 4 PROVE Pipe(s)' = Pipe(s)
  OBVIOUS
<1>1. stream[s] \in Seq(OnStream) /\ sendData \in Seq(Octets)
  BY DEF XferTypeOK
<1>2. Line(stream[s], sendData, Len(sendData)) = Line(stream[s], <<>>, 0)
  BY <1>1, LineBegun
<1>3. Pipe(s) = Line(stream[s], <<>>, 0)
  BY <1>2 DEF Pipe
<1>4. Pipe(s)' = Line(stream[s], <<>>, 0)
  BY DEF Pipe
<1> QED
  BY <1>3, <1>4

\* A step that leaves the octets to come alone.
LEMMA FlowKept ==
    ASSUME FlowOK, Extends(xfers', xfers), \A s \in 1 .. 4 : Pipe(s)' = Pipe(s),
           UNCHANGED <<rxBuf, xfer>>
    PROVE  FlowOK'
<1>1. PICK tx \in Nat, i \in Nat, n \in Nat :
         /\ IF tx = 0 THEN i = 0 /\ n = 0 ELSE Cursor(xfers, tx, i, n) /\ i + n > 0
         /\ HasSoFar(xfers, tx, i, n, rxBuf, xfer)
         /\ \A s \in 1 .. 4 : Fits(xfers, tx, i, n, s, Pipe(s))
  BY DEF FlowOK
<1>2. tx # 0 => tx \in DOMAIN xfers /\ xfers'[tx] = xfers[tx] /\ Cursor(xfers', tx, i, n)
  BY <1>1, CursorGrows DEF Cursor
<1>3. HasSoFar(xfers', tx, i, n, rxBuf', xfer')
  BY <1>1, <1>2 DEF HasSoFar
<1>4. ASSUME NEW s \in 1 .. 4 PROVE Fits(xfers', tx, i, n, s, Pipe(s)')
  <2>1. PICK p : p = Pipe(s)
    OBVIOUS
  <2>2. Fits(xfers, tx, i, n, s, p) /\ Pipe(s)' = p
    BY <1>1, <2>1
  <2>3. PICK xf : xf = xfers'
    OBVIOUS
  <2>4. PICK old : old = xfers
    OBVIOUS
  <2>5. Fits(xf, tx, i, n, s, p)
    BY <1>2, <2>2, <2>3, <2>4, FitsGrows
  <2> QED
    BY <2>2, <2>3, <2>5
<1> QED
  BY <1>1, <1>2, <1>3, <1>4 DEF FlowOK

\* doSend: a transfer is behind what is to come on its stream.
LEMMA FlowBegun ==
    ASSUME XferTypeOK, SlotOK, FlowOK, NEW b \in Bundles, DoSend(b)
    PROVE  FlowOK'
<1>0. sendData = <<>> /\ xfers \in Seq(Bundles) /\ stream \in [1 .. 4 -> Seq(OnStream)]
  BY DEF SlotOK, DoSend, XferTypeOK
<1>1. PICK old, xf, t : old = xfers /\ xf = xfers' /\ t = Len(xfers) + 1
  <2> QED
    OBVIOUS
<1>2. xf = Append(old, b) /\ UNCHANGED <<stream, rxBuf, xfer>> /\ sendOff' = 0
      /\ sendData' = Framed(t, b)
  BY <1>1 DEF DoSend, rxVars
<1>3. /\ old \in Seq(Bundles) /\ xf \in Seq(Bundles) /\ t \in Nat /\ t = Len(xf) /\ t \in DOMAIN xf
      /\ xf[t] = b /\ \A k \in DOMAIN old : k \in DOMAIN xf /\ xf[k] = old[k]
  BY <1>0, <1>1, <1>2, AppendFacts
<1>4. Extends(xf, old)
  BY <1>3 DEF Extends
<1>5. PICK q, end : q = Framed(t, b) /\ IsEnd(xf, end) /\ IsRun(xf, t, q, Want(t, 0, 0), end)
  BY <1>3, FramedFacts
<1>6. q \in Seq(Octets) /\ Len(q) > 0 /\ q # <<>>
  BY <1>5 DEF IsRun
<1>7. PICK s0 : s0 = StreamOf(xf, t)
  OBVIOUS
<1>8. \A s \in 1 .. 4 : Pipe(s) = Line(stream[s], <<>>, 0) /\ Pipe(s) \in Seq(Octets)
  BY <1>0, PipeType DEF Pipe
<1>9. ASSUME NEW s \in 1 .. 4
      PROVE  Pipe(s)' = IF s0 = s THEN Pipe(s) \o q ELSE Pipe(s)
  <2>1. stream[s] \in Seq(OnStream)
    BY <1>0
  <2>2. Line(stream[s], q, 0) = Line(stream[s], <<>>, 0) \o q
    BY <1>6, <2>1, LineBegun
  <2>3. Pipe(s)' = IF q # <<>> /\ s0 = s THEN Line(stream[s], q, 0) ELSE Line(stream[s], <<>>, 0)
    BY <1>1, <1>2, <1>3, <1>5, <1>7 DEF Pipe
  <2> QED
    BY <1>6, <1>8, <2>2, <2>3
<1>10. PICK tx \in Nat, i \in Nat, n \in Nat :
          /\ IF tx = 0 THEN i = 0 /\ n = 0 ELSE Cursor(xfers, tx, i, n) /\ i + n > 0
          /\ HasSoFar(xfers, tx, i, n, rxBuf, xfer)
          /\ \A s \in 1 .. 4 : Fits(xfers, tx, i, n, s, Pipe(s))
  BY DEF FlowOK
<1>11. tx # 0 => tx \in DOMAIN old /\ xf[tx] = old[tx] /\ Cursor(xf, tx, i, n)
  BY <1>1, <1>4, <1>10, CursorGrows DEF Cursor
<1>12. HasSoFar(xf, tx, i, n, rxBuf', xfer')
  BY <1>1, <1>2, <1>10, <1>11 DEF HasSoFar
<1>13. ASSUME NEW s \in 1 .. 4 PROVE Fits(xf, tx, i, n, s, Pipe(s)')
  <2>1. PICK p : p = Pipe(s)
    OBVIOUS
  <2>2. Fits(old, tx, i, n, s, p) /\ p \in Seq(Octets)
    BY <1>1, <1>8, <1>10, <2>1
  <2>3. Fits(xf, tx, i, n, s, p)
    BY <1>4, <1>11, <2>2, FitsGrows
  <2>4. CASE s0 = s
    <3>1. PICK pq : pq = p \o q
      OBVIOUS
    <3>2. Pipe(s)' = pq
      BY <1>9, <2>1, <2>4, <3>1
    <3>3. p \in Seq(Octets) /\ t \in DOMAIN xf /\ StreamOf(xf, t) = s
      BY <1>3, <1>7, <2>2, <2>4
    <3>4. Fits(xf, tx, i, n, s, pq)
      BY <1>5, <2>3, <3>1, <3>3, RunFits
    <3> QED
      BY <3>2, <3>4
  <2>5. CASE s0 # s
    BY <1>9, <2>1, <2>3, <2>5
  <2> QED
    BY <2>4, <2>5
<1> QED
  BY <1>1, <1>10, <1>11, <1>12, <1>13 DEF FlowOK

-----------------------------------------------------------------------------
(* The receiver and the octet it waits for. *)

\* Where the receiver is: it has n octets of segment i of transfer tx.
AtPlace(tx, i, n) ==
    /\ IF tx = 0 THEN i = 0 /\ n = 0 ELSE Cursor(xfers, tx, i, n) /\ i + n > 0
    /\ HasSoFar(xfers, tx, i, n, rxBuf, xfer)

LEMMA InProgressFacts ==
    ASSUME NEW tx \in Nat, NEW i \in Nat, NEW n \in Nat, AtPlace(tx, i, n)
    PROVE  InProgress = tx
<1>1. rxBuf = Begun(tx, i, n)
  BY DEF AtPlace, HasSoFar, Begun
<1>2. CASE n > 0
  <2>1. Len(rxBuf) = n /\ rxBuf[1] = Want(tx, i, 1 - 1)
    BY <1>1, <1>2, BegunFacts
  <2>2. rxBuf # <<>> /\ rxBuf[1].tx = tx
    <3>1. rxBuf[1] = Want(tx, i, 0)
      BY <2>1
    <3>2. rxBuf[1].tx = tx
      BY <3>1, WantFacts
    <3>3. Len(rxBuf) # 0
      BY <1>2, <2>1
    <3> QED
      BY <3>2, <3>3
  <2> QED
    BY <2>2 DEF InProgress
<1>3. CASE n = 0
  <2>1. rxBuf = <<>>
    BY <1>1, <1>3, BegunFacts
  <2>2. CASE tx = 0
    BY <2>1, <2>2 DEF AtPlace, HasSoFar, InProgress
  <2>3. CASE tx # 0
    <3>1. i # 0
      BY <1>3, <2>3 DEF AtPlace
    <3>2. xfer.active /\ xfer.tx = tx
      BY <3>1 DEF AtPlace, HasSoFar
    <3> QED
      BY <2>1, <3>2 DEF InProgress
  <2> QED
    BY <2>2, <2>3
<1> QED
  BY <1>2, <1>3

\* What it takes the octets for, with the next.
LEMMA ParseFacts ==
    ASSUME xfers \in Seq(Bundles), NEW tx, NEW i, NEW n, Cursor(xfers, tx, i, n),
           NEW buf, buf = Begun(tx, i, n + 1)
    PROVE  /\ ~Garbled(buf)
           /\ Complete(buf) <=> n = 1 + SegLen(xfers[tx], i)
           /\ Complete(buf) => /\ HeaderOf(buf) = Header(tx, i)
                               /\ Len(buf) = SegLen(xfers[tx], i) + 2
<1>0. /\ tx \in DOMAIN xfers /\ tx \in Nat /\ i \in Nat /\ n \in Nat
      /\ i \in 0 .. Segments(xfers[tx]) - 1
      /\ SegLen(xfers[tx], i) \in Nat /\ n <= 1 + SegLen(xfers[tx], i)
  BY NextPlace DEF Cursor
<1>1. PICK len, m : len = SegLen(xfers[tx], i) /\ m = n + 1
  <2> QED
    OBVIOUS
<1>2. len \in Nat /\ m \in Nat /\ m >= 1 /\ m <= len + 2
  BY <1>0, <1>1
<1>3. Len(buf) = m /\ buf[1] = Want(tx, i, 0) /\ (m >= 2 => buf[2] = Want(tx, i, 1))
  <2>1. Len(buf) = m /\ \A k \in 1 .. m : buf[k] = Want(tx, i, k - 1)
    BY <1>1, <1>2, BegunFacts
  <2>2. buf[1] = Want(tx, i, 1 - 1)
    BY <1>2, <2>1
  <2>3. m >= 2 => buf[2] = Want(tx, i, 2 - 1)
    BY <1>2, <2>1
  <2> QED
    BY <2>1, <2>2, <2>3
<1>4. /\ buf[1].k = "type"
      /\ m >= 2 => buf[2].k = "rest" /\ buf[2].tx = tx /\ buf[2].at = i
  BY <1>3 DEF Want, Octet
<1>5. ~Garbled(buf)
  BY <1>3, <1>4 DEF Garbled
<1>6. m >= 2 => HeaderOf(buf) = Header(tx, i)
  BY <1>4 DEF HeaderOf
<1>7. Header(tx, i).len = len
  BY <1>0, <1>1, HeaderFacts
<1>8. Complete(buf) <=> m >= 2 /\ m >= 2 + len
  BY <1>3, <1>5, <1>6, <1>7 DEF Complete
<1>9. Complete(buf) <=> n = 1 + len
  BY <1>0, <1>1, <1>2, <1>8
<1> QED
  BY <1>0, <1>1, <1>2, <1>3, <1>5, <1>6, <1>8, <1>9

\* A complete segment: refused, or the transfer is a segment further.
LEMMA ReassembleFacts ==
    ASSUME xfers \in Seq(Bundles), NEW tx, NEW i, NEW n, Cursor(xfers, tx, i, n),
           AtPlace(tx, i, n), NEW len, len = SegLen(xfers[tx], i), NEW b, b = xfers[tx],
           XferReassemble(Header(tx, i), SubSeq(Begun(tx, i, len + 2), 3, len + 2)), ~rxFailed'
    PROVE  /\ i + 1 < Segments(b) =>
                /\ xfer' = [tx |-> tx, data |-> DataTo(tx, (i + 1) * SegMru), want |-> Size[b],
                            active |-> TRUE]
                /\ delivered' = delivered
           /\ i + 1 = Segments(b) =>
                ~xfer'.active /\ delivered' = Append(delivered, DataTo(tx, Size[b]))
<1>0. /\ tx \in DOMAIN xfers /\ tx \in Nat /\ i \in Nat /\ b \in Bundles
      /\ i \in 0 .. Segments(b) - 1 /\ len \in Nat /\ Segments(b) \in Nat
      /\ i * SegMru \in Nat
  BY NextPlace, SegLenFacts DEF Cursor
<1>1. PICK h, data : h = Header(tx, i) /\ data = SubSeq(Begun(tx, i, len + 2), 3, len + 2)
  <2> QED
    OBVIOUS
<1>2. /\ h.tx = tx /\ h.bundleLen = Size[b] /\ h.start = (i = 0) /\ h.end = (i = Segments(b) - 1)
  BY <1>0, <1>1, HeaderFacts
<1>3. PICK x : x = XferStarted(h)
  OBVIOUS
<1>4. x = [tx |-> tx, data |-> DataTo(tx, i * SegMru), want |-> Size[b], active |-> TRUE]
  <2>1. CASE i = 0
    <3>1. i * SegMru = 0
      BY <2>1, SegmentFacts, <1>0
    <3>2. DataTo(tx, 0) = <<>>
      BY DEF DataTo
    <3> QED
      BY <1>2, <1>3, <2>1, <3>1, <3>2 DEF XferStarted
  <2>2. CASE i # 0
    BY <1>2, <1>3, <2>2 DEF XferStarted, AtPlace, HasSoFar
  <2> QED
    BY <2>1, <2>2
<1>5. PICK whole : whole = x.data \o data
  OBVIOUS
<1>6. whole = DataTo(tx, i * SegMru + len)
  <2>1. DataTo(tx, i * SegMru) \o SubSeq(Begun(tx, i, len + 2), 3, len + 2)
           = DataTo(tx, i * SegMru + len)
    <3>1. tx \in Nat /\ i \in Nat /\ len \in Nat /\ i * SegMru \in Nat
      BY <1>0
    <3> QED
      BY <3>1, DataJoin
  <2> QED
    BY <1>1, <1>4, <1>5, <2>1
<1>7. /\ xfer' = [x EXCEPT !.data = whole, !.active = ~h.end]
      /\ delivered' = IF h.end THEN Append(delivered, whole) ELSE delivered
  <2>1. XferReassemble(h, data)
    BY <1>1
  <2> QED
    BY <1>3, <1>5, <2>1 DEF XferReassemble
<1>8. xfer' = [tx |-> tx, data |-> whole, want |-> Size[b], active |-> ~h.end]
  BY <1>4, <1>7
<1>9. ASSUME i + 1 < Segments(b)
      PROVE  /\ xfer' = [tx |-> tx, data |-> DataTo(tx, (i + 1) * SegMru), want |-> Size[b],
                         active |-> TRUE]
             /\ delivered' = delivered
  <2>1. i * SegMru + len = (i + 1) * SegMru
    <3>1. b \in Bundles /\ i \in 0 .. Segments(b) - 1
      BY <1>0
    <3>2. i * SegMru + SegLen(b, i) = (i + 1) * SegMru
      BY <1>9, <3>1, SegLenFacts
    <3> QED
      BY <3>2
  <2>2. h.end = FALSE
    <3>1. i # Segments(b) - 1
      BY <1>0, <1>9
    <3> QED
      BY <1>2, <3>1
  <2> QED
    BY <1>6, <1>7, <1>8, <2>1, <2>2
<1>10. ASSUME i + 1 = Segments(b)
       PROVE  ~xfer'.active /\ delivered' = Append(delivered, DataTo(tx, Size[b]))
  <2>1. i = Segments(b) - 1
    BY <1>0, <1>10
  <2>2. i * SegMru + len = Size[b] /\ h.end = TRUE
    BY <1>0, <1>2, <2>1, SegLenFacts
  <2> QED
    BY <1>6, <1>7, <1>8, <2>2
<1> QED
  BY <1>9, <1>10

\* Another bundle is delivered; another transfer is given out.
LEMMA DeliveredAppend ==
    ASSUME NEW xf, NEW dl, DeliveredIn(xf, dl), NEW x \in Seq(Received), NEW b \in Bundles,
           WholeIn(xf, x, b), NEW new, new = Append(dl, x)
    PROVE  DeliveredIn(xf, new)
<1>1. dl \in Seq(Seq(Received)) /\ \A i \in 1 .. Len(dl) : \E c \in Bundles : WholeIn(xf, dl[i], c)
  BY DEF DeliveredIn
<1>2. /\ new \in Seq(Seq(Received)) /\ Len(dl) \in Nat /\ Len(new) = Len(dl) + 1
      /\ new[Len(dl) + 1] = x /\ \A i \in 1 .. Len(dl) : new[i] = dl[i]
  BY <1>1, AppendFacts
<1>3. ASSUME NEW i \in 1 .. Len(new) PROVE \E c \in Bundles : WholeIn(xf, new[i], c)
  <2>1. CASE i <= Len(dl)
    <3>1. i \in 1 .. Len(dl)
      BY <1>2, <2>1
    <3> QED
      BY <1>1, <1>2, <3>1
  <2>2. CASE i = Len(dl) + 1
    BY <1>2, <2>2
  <2> QED
    BY <1>2, <2>1, <2>2
<1> QED
  BY <1>2, <1>3 DEF DeliveredIn

LEMMA DeliveredGrows ==
    ASSUME NEW xf, NEW old, Extends(xf, old), NEW dl, DeliveredIn(old, dl)
    PROVE  DeliveredIn(xf, dl)
<1>1. ASSUME NEW x, NEW b \in Bundles, WholeIn(old, x, b) PROVE WholeIn(xf, x, b)
  BY <1>1 DEF WholeIn, Extends
<1> QED
  BY <1>1 DEF DeliveredIn

\* recvStreamDataCb: with nothing spoilt, the octet is the one the receiver waits
\* for, or the first of a transfer.
LEMMA FlowReceived ==
    ASSUME XferTypeOK, FlowOK, DeliveredIn(xfers, delivered), NEW s \in 1 .. 4,
           RecvStreamData(s), spoilt' = {}
    PROVE  /\ ~rxFailed' => FlowOK'
           /\ DeliveredIn(xfers', delivered')
<1>0. xfers \in Seq(Bundles)
  BY DEF XferTypeOK
<1>1. PICK tx \in Nat, i \in Nat, n \in Nat :
         AtPlace(tx, i, n) /\ \A t \in 1 .. 4 : Fits(xfers, tx, i, n, t, Pipe(t))
  BY DEF FlowOK, AtPlace
<1>2. PICK p, o, buf : p = Pipe(s) /\ o = stream[s][1].octet /\ buf = Append(rxBuf, o)
  <2> QED
    OBVIOUS
<1>3. UNCHANGED <<xfers, sendData, sendOff>> /\ stream # <<>> /\ stream[s] # <<>>
      /\ stream' = [stream EXCEPT ![s] = Tail(@)]
  BY DEF RecvStreamData, txVars, XferTypeOK
<1>4. /\ p \in Seq(Octets) /\ Len(p) > 0 /\ p[1] = o /\ Pipe(s)' = Tail(p)
      /\ \A t \in 1 .. 4 : t # s => Pipe(t)' = Pipe(t)
  BY <1>2, <1>3, PipeTail, PipeType
<1>5. Fits(xfers, tx, i, n, s, p)
  BY <1>1, <1>2
<1>6. InProgress \in {0, o.tx}
  BY <1>2 DEF RecvStreamData
<1>7. tx = 0 \/ tx = o.tx
  BY <1>1, <1>6, InProgressFacts
<1>8. \/ /\ Garbled(buf) /\ rxFailed' \in BOOLEAN /\ rxBuf' = buf
         /\ UNCHANGED <<xfer, ackPend, delivered>>
      \/ /\ Complete(buf)
         /\ XferReassemble(HeaderOf(buf), SubSeq(buf, 3, Len(buf)))
         /\ rxBuf' = <<>>
      \/ /\ ~Garbled(buf) /\ ~Complete(buf) /\ rxBuf' = buf
         /\ UNCHANGED <<xfer, ackPend, delivered, rxFailed>>
  BY <1>2 DEF RecvStreamData
<1>9. rxBuf = Begun(tx, i, n)
  BY <1>1 DEF AtPlace, HasSoFar, Begun
<1>10. xfers' = xfers
  BY <1>3
\* To show: the place the receiver is at then.
<1> DEFINE Then(ty, j, m) ==
              /\ IF ty = 0 THEN j = 0 /\ m = 0 ELSE Cursor(xfers, ty, j, m) /\ j + m > 0
              /\ HasSoFar(xfers, ty, j, m, rxBuf', xfer')
              /\ Fits(xfers, ty, j, m, s, Tail(p))
              /\ ty = 0 \/ StreamOf(xfers, ty) = s
<1>11. ASSUME tx = 0 \/ StreamOf(xfers, tx) = s,
              NEW ty \in Nat, NEW j \in Nat, NEW m \in Nat, Then(ty, j, m)
       PROVE  FlowOK'
  <2>1. ASSUME NEW t \in 1 .. 4 PROVE Fits(xfers, ty, j, m, t, Pipe(t)')
    <3>1. CASE t = s
      BY <1>4, <1>11, <3>1
    <3>2. CASE t # s
      <4>1. PICK r : r = Pipe(t)
        OBVIOUS
      <4>2. Fits(xfers, tx, i, n, t, r) /\ Pipe(t)' = r
        BY <1>1, <1>4, <3>2, <4>1
      <4>3. (tx = 0 \/ StreamOf(xfers, tx) # t) /\ (ty = 0 \/ StreamOf(xfers, ty) # t)
        BY <1>11, <3>2
      <4>4. Fits(xfers, ty, j, m, t, r)
        BY <4>2, <4>3, OtherFits
      <4> QED
        BY <4>2, <4>4
    <3> QED
      BY <3>1, <3>2
  <2> QED
    BY <1>10, <1>11, <2>1 DEF FlowOK
<1> HIDE DEF Then
<1>12. CASE tx = 0
  <2>1. i = 0 /\ n = 0 /\ ~xfer.active
    BY <1>1, <1>12 DEF AtPlace, HasSoFar
  <2>2. Fits(xfers, 0, 0, 0, s, p)
    BY <1>5, <1>12, <2>1
  <2>3. PICK ty \in DOMAIN xfers :
           /\ p[1] = Want(ty, 0, 0) /\ StreamOf(xfers, ty) = s
           /\ Cursor(xfers, ty, 0, 1) /\ Fits(xfers, ty, 0, 1, s, Tail(p))
    BY <1>0, <1>4, <2>2, TakeFirst
  <2>4. buf = Begun(ty, 0, 1)
    <3>1. Begun(tx, i, n) = <<>> /\ Begun(ty, 0, 0) = <<>>
      BY <2>1, BegunFacts
    <3>2. ty \in Nat /\ 0 \in Nat
      BY <1>0
    <3>3. Append(Begun(ty, 0, 0), Want(ty, 0, 0)) = Begun(ty, 0, 0 + 1)
      BY <3>2, BegunAppend
    <3>4. rxBuf = Begun(ty, 0, 0) /\ o = Want(ty, 0, 0)
      BY <1>4, <1>9, <2>3, <3>1
    <3>5. 0 + 1 = 1
      OBVIOUS
    <3> QED
      BY <1>2, <3>3, <3>4, <3>5
  <2>5. ~Garbled(buf) /\ ~Complete(buf)
    <3>1. Cursor(xfers, ty, 0, 0) /\ buf = Begun(ty, 0, 0 + 1) /\ SegLen(xfers[ty], 0) \in Nat
      BY <1>0, <2>4, FirstPlace, NextPlace
    <3>2. ~Garbled(buf) /\ (Complete(buf) <=> 0 = 1 + SegLen(xfers[ty], 0))
      BY <1>0, <3>1, ParseFacts
    <3> QED
      BY <3>1, <3>2
  <2>6. rxBuf' = buf /\ UNCHANGED <<xfer, delivered>>
    BY <1>8, <2>5
  <2>7. HasSoFar(xfers, ty, 0, 1, rxBuf', xfer')
    <3>1. rxBuf' = [k \in 1 .. 1 |-> Want(ty, 0, k - 1)]
      BY <2>4, <2>6, Zenon DEF Begun
    <3>2. ~xfer'.active
      BY <2>1, <2>6, Zenon
    <3>3. IF 0 = 0 THEN ~xfer'.active
          ELSE xfer' = [tx |-> ty, data |-> DataTo(ty, 0 * SegMru), want |-> Size[xfers[ty]],
                        active |-> TRUE]
      BY <3>2
    <3> QED
      BY <3>1, <3>3, Zenon DEF HasSoFar
  <2>8. Then(ty, 0, 1)
    <3>1. ty # 0 /\ 0 + 1 > 0
      BY <1>0
    <3> QED
      BY <2>3, <2>7, <3>1 DEF Then
  <2>9. FlowOK'
    <3>1. ty \in Nat /\ 0 \in Nat /\ 1 \in Nat
      BY <1>0
    <3> QED
      BY <1>11, <1>12, <2>8, <3>1
  <2> QED
    BY <1>10, <2>6, <2>9
<1>13. CASE tx # 0
  <2>1. Cursor(xfers, tx, i, n)
    BY <1>1, <1>13 DEF AtPlace
  <2>2. StreamOf(xfers, tx) = s
    <3>1. tx = p[1].tx /\ 1 \in 1 .. Len(p)
      BY <1>4, <1>7, <1>13
    <3> QED
      BY <1>5, <3>1 DEF Fits
  <2>3. PICK len, b : len = SegLen(xfers[tx], i) /\ b = xfers[tx]
    <3> QED
      OBVIOUS
  <2>4. /\ p[1] = Want(tx, i, n)
        /\ n < 1 + len => Fits(xfers, tx, i, n + 1, s, Tail(p))
        /\ n = 1 + len /\ i + 1 < Segments(b) => Fits(xfers, tx, i + 1, 0, s, Tail(p))
        /\ n = 1 + len /\ i + 1 = Segments(b) => Fits(xfers, 0, 0, 0, s, Tail(p))
    BY <1>0, <1>4, <1>5, <2>1, <2>2, <2>3, TakeNext
  <2>5. /\ b \in Bundles /\ len \in Nat /\ Segments(b) \in Nat /\ i < Segments(b) /\ n <= 1 + len
        /\ n < 1 + len => Cursor(xfers, tx, i, n + 1)
        /\ i + 1 < Segments(b) => Cursor(xfers, tx, i + 1, 0)
    BY <1>0, <2>1, <2>3, NextPlace
  <2>6. buf = Begun(tx, i, n + 1)
    <3>1. buf = Append(Begun(tx, i, n), Want(tx, i, n))
      BY <1>2, <1>4, <1>9, <2>4
    <3>2. Append(Begun(tx, i, n), Want(tx, i, n)) = Begun(tx, i, n + 1)
      BY BegunAppend
    <3> QED
      BY <3>1, <3>2
  <2>7. /\ ~Garbled(buf)
        /\ Complete(buf) <=> n = 1 + len
        /\ Complete(buf) => HeaderOf(buf) = Header(tx, i) /\ Len(buf) = len + 2
    BY <1>0, <2>1, <2>3, <2>6, ParseFacts
  <2>8. CASE n < 1 + len
    <3>1. ~Complete(buf)
      BY <2>5, <2>7, <2>8
    <3>2. rxBuf' = buf /\ UNCHANGED <<xfer, delivered>>
      BY <1>8, <2>7, <3>1
    <3>3. HasSoFar(xfers, tx, i, n + 1, rxBuf', xfer')
      BY <1>1, <2>6, <3>2 DEF AtPlace, HasSoFar, Begun
    <3>4. i + (n + 1) > 0
      OBVIOUS
    <3>5. Then(tx, i, n + 1)
      BY <1>13, <2>2, <2>4, <2>5, <2>8, <3>3, <3>4 DEF Then
    <3>6. FlowOK'
      <4>1. n + 1 \in Nat
        OBVIOUS
      <4> QED
        BY <1>11, <2>2, <3>5, <4>1
    <3> QED
      BY <1>10, <3>2, <3>6
  <2>9. CASE n = 1 + len
    <3>1. rxBuf' = <<>> /\ XferReassemble(Header(tx, i), SubSeq(Begun(tx, i, len + 2), 3, len + 2))
      <4>1. Complete(buf) /\ HeaderOf(buf) = Header(tx, i) /\ Len(buf) = len + 2
        BY <2>7, <2>9
      <4>2. buf = Begun(tx, i, len + 2)
        <5>1. n + 1 = len + 2
          BY <2>5, <2>9
        <5> QED
          BY <2>6, <5>1
      <4> QED
        BY <1>8, <2>7, <4>1, <4>2
    <3>2. CASE rxFailed'
      BY <1>10, <3>1, <3>2 DEF XferReassemble, RecvStreamData
    <3>3. CASE ~rxFailed'
      <4>1. /\ i + 1 < Segments(b) =>
                 /\ xfer' = [tx |-> tx, data |-> DataTo(tx, (i + 1) * SegMru), want |-> Size[b],
                             active |-> TRUE]
                 /\ delivered' = delivered
            /\ i + 1 = Segments(b) =>
                 ~xfer'.active /\ delivered' = Append(delivered, DataTo(tx, Size[b]))
        BY <1>0, <1>1, <2>1, <2>3, <3>1, <3>3, ReassembleFacts
      <4>2. rxBuf' = Begun(tx, i + 1, 0) /\ rxBuf' = Begun(0, 0, 0)
        BY <3>1, BegunFacts
      <4>3. CASE i + 1 < Segments(b)
        <5>1. i + 1 # 0 /\ (i + 1) + 0 > 0 /\ i + 1 \in Nat /\ 0 \in Nat
          OBVIOUS
        <5>2. HasSoFar(xfers, tx, i + 1, 0, rxBuf', xfer')
          BY <2>3, <4>1, <4>2, <4>3, <5>1 DEF HasSoFar, Begun
        <5>3. Then(tx, i + 1, 0)
          BY <1>13, <2>2, <2>4, <2>5, <2>9, <4>3, <5>1, <5>2 DEF Then
        <5>4. FlowOK'
          BY <1>11, <2>2, <5>1, <5>3
        <5> QED
          BY <1>10, <4>1, <4>3, <5>4
      <4>4. CASE i + 1 = Segments(b)
        <5>1. HasSoFar(xfers, 0, 0, 0, rxBuf', xfer')
          BY <4>1, <4>2, <4>4 DEF HasSoFar, Begun
        <5>2. Then(0, 0, 0)
          BY <2>4, <2>9, <4>4, <5>1 DEF Then
        <5>3. FlowOK'
          <6>1. 0 \in Nat
            OBVIOUS
          <6> QED
            BY <1>11, <2>2, <5>2, <6>1
        <5>4. DeliveredIn(xfers, delivered')
          <6>1. PICK x : x = DataTo(tx, Size[b])
            OBVIOUS
          <6>2. tx \in DOMAIN xfers
            BY <2>1 DEF Cursor
          <6>3. x \in Seq(Received) /\ WholeIn(xfers, x, b)
            BY <1>0, <2>3, <6>1, <6>2, DataWhole
          <6>4. delivered' = Append(delivered, x)
            BY <4>1, <4>4, <6>1
          <6> QED
            BY <2>5, <6>3, <6>4, DeliveredAppend
        <5> QED
          BY <1>10, <5>3, <5>4
      <4> QED
        BY <2>5, <4>3, <4>4
    <3> QED
      BY <3>2, <3>3
  <2> QED
    BY <2>5, <2>8, <2>9
<1> QED
  BY <1>12, <1>13

-----------------------------------------------------------------------------
(* The steps that touch the datagrams. *)

LEMMA DatagramsGrow ==
    ASSUME NEW xf, NEW old, Extends(xf, old)
    PROVE  /\ Datagrams(old) \subseteq Datagrams(xf)
           /\ \A x : DgRxOK(old, x) => DgRxOK(xf, x)
<1>1. \A tx \in DOMAIN old : tx \in DOMAIN xf /\ xf[tx] = old[tx]
  BY DEF Extends
<1>2. Datagrams(old) \subseteq Datagrams(xf)
  BY <1>1 DEF Datagrams
<1>3. \A x : DgRxOK(old, x) => DgRxOK(xf, x)
  BY <1>1 DEF DgRxOK
<1> QED
  BY <1>2, <1>3

LEMMA DatagramsKept ==
    ASSUME DatagramsOK, Extends(xfers', xfers), UNCHANGED <<dgQueue, dgNet, dgRx>>
    PROVE  DatagramsOK'
<1>1. PICK xf, old : xf = xfers' /\ old = xfers
  <2> QED
    OBVIOUS
<1>2. Datagrams(old) \subseteq Datagrams(xf) /\ \A x : DgRxOK(old, x) => DgRxOK(xf, x)
  BY <1>1, DatagramsGrow
<1>3. dgQueue \in Seq(Datagrams(xf))
  <2>1. dgQueue \in Seq(Datagrams(old))
    BY <1>1 DEF DatagramsOK
  <2> QED
    BY <1>2, <2>1, SeqMonotonic
<1> QED
  BY <1>1, <1>2, <1>3 DEF DatagramsOK

LEMMA SegmentsQueued ==
    ASSUME XferTypeOK, DatagramsOK, NEW b \in Bundles, SendDatagrams(b)
    PROVE  Extends(xfers', xfers) /\ DatagramsOK'
<1>0. xfers \in Seq(Bundles)
  BY DEF XferTypeOK
<1>1. PICK old, xf, t : old = xfers /\ xf = xfers' /\ t = Len(xfers) + 1
  <2> QED
    OBVIOUS
<1>2. xf = Append(old, b) /\ UNCHANGED <<dgNet, dgRx>>
  BY <1>1 DEF SendDatagrams
<1>3. /\ old \in Seq(Bundles) /\ xf \in Seq(Bundles) /\ t \in Nat /\ t \in DOMAIN xf /\ xf[t] = b
      /\ \A k \in DOMAIN old : k \in DOMAIN xf /\ xf[k] = old[k]
  BY <1>0, <1>1, <1>2, AppendFacts
<1>4. Extends(xf, old)
  BY <1>3 DEF Extends
<1>5. Datagrams(old) \subseteq Datagrams(xf) /\ \A x : DgRxOK(old, x) => DgRxOK(xf, x)
  BY <1>4, DatagramsGrow
<1>6. PICK n \in 0 .. Segments(b) :
         dgQueue' = dgQueue \o [i \in 1 .. n |-> [tx |-> Len(xfers) + 1, seg |-> i - 1]]
  BY DEF SendDatagrams
<1>7. PICK new : new = [i \in 1 .. n |-> [tx |-> t, seg |-> i - 1]]
  OBVIOUS
<1>8. Segments(b) \in Nat /\ n \in Nat /\ n <= Segments(b)
  BY <1>6, SegmentFacts
<1>9. ASSUME NEW i \in 1 .. n PROVE [tx |-> t, seg |-> i - 1] \in Datagrams(xf)
  <2>1. i - 1 \in Nat /\ i - 1 \in 0 .. Segments(b) - 1
    BY <1>8
  <2> QED
    BY <1>3, <2>1 DEF Datagrams
<1>10. new \in Seq(Datagrams(xf))
  BY <1>7, <1>8, <1>9
<1>11. dgQueue \in Seq(Datagrams(xf))
  <2>1. dgQueue \in Seq(Datagrams(old))
    BY <1>1 DEF DatagramsOK
  <2> QED
    BY <1>5, <2>1, SeqMonotonic
<1>12. dgQueue' \in Seq(Datagrams(xf))
  <2>1. dgQueue' = dgQueue \o new
    BY <1>1, <1>6, <1>7
  <2> QED
    BY <1>10, <1>11, <2>1
<1>13. DatagramsOK'
  BY <1>1, <1>2, <1>5, <1>12 DEF DatagramsOK
<1> QED
  BY <1>1, <1>4, <1>13

LEMMA DatagramWritten ==
    ASSUME DatagramsOK, WriteDatagram PROVE DatagramsOK'
<1>1. PICK D : D = Datagrams(xfers)
  OBVIOUS
<1>2. dgQueue \in Seq(D) /\ dgNet \subseteq D /\ dgQueue # <<>>
  BY <1>1 DEF DatagramsOK, WriteDatagram
<1>3. Head(dgQueue) \in D /\ Tail(dgQueue) \in Seq(D)
  BY <1>2, HeadTailProperties
<1>4. dgNet' \subseteq D /\ dgQueue' \in Seq(D)
  BY <1>2, <1>3 DEF WriteDatagram
<1>5. UNCHANGED <<xfers, dgRx>>
  BY DEF WriteDatagram, txVars
<1> QED
  BY <1>1, <1>4, <1>5 DEF DatagramsOK

LEMMA DatagramReceived ==
    ASSUME XferTypeOK, DatagramsOK, RecvDatagram
    PROVE  /\ DatagramsOK'
           /\ spoilt' = spoilt /\ xfers' = xfers
           /\ DeliveredIn(xfers, delivered) => DeliveredIn(xfers, delivered')
<1>0. /\ dgQueue \in Seq(Datagrams(xfers)) /\ dgNet \subseteq Datagrams(xfers) /\ dgRx \in DgRxs
      /\ dgRx.active => DgRxOK(xfers, dgRx)
      /\ xfers \in Seq(Bundles)
  BY DEF DatagramsOK, XferTypeOK
<1>1. UNCHANGED <<xfers, dgQueue, spoilt>>
  BY DEF RecvDatagram, txVars
<1>2. PICK d \in dgNet :
         LET h == Header(d.tx, d.seg)
             x == DgPlaced(DgStarted(h), h)
             whole == x.count = x.total
         IN /\ dgNet' = dgNet \ {d}
            /\ \/ /\ dgRx' = [x EXCEPT !.active = ~whole]
                  /\ delivered' = IF whole THEN Append(delivered, x.buf) ELSE delivered
               \/ /\ dgRx' = [dgRx EXCEPT !.active = FALSE]
                  /\ UNCHANGED delivered
               \/ UNCHANGED <<dgRx, delivered>>
  BY DEF RecvDatagram
<1>3. PICK h : h = Header(d.tx, d.seg)
  OBVIOUS
<1>4. PICK x : x = DgPlaced(DgStarted(h), h)
  OBVIOUS
<1>5. /\ dgNet' = dgNet \ {d}
      /\ \/ /\ dgRx' = [x EXCEPT !.active = ~(x.count = x.total)]
            /\ delivered' = IF x.count = x.total THEN Append(delivered, x.buf) ELSE delivered
         \/ dgRx' = [dgRx EXCEPT !.active = FALSE] /\ UNCHANGED delivered
         \/ UNCHANGED <<dgRx, delivered>>
  BY <1>2, <1>3, <1>4
<1>6. x \in DgRxs /\ DgRxOK(xfers, x)
  <2>1. d \in Datagrams(xfers)
    BY <1>0
  <2> QED
    BY <1>3, <1>4, <2>1, DgPlacedOK
<1>7. CASE /\ dgRx' = [x EXCEPT !.active = ~(x.count = x.total)]
           /\ delivered' = IF x.count = x.total THEN Append(delivered, x.buf) ELSE delivered
  <2>1. /\ dgRx' \in DgRxs
        /\ dgRx'.tx = x.tx /\ dgRx'.total = x.total /\ dgRx'.seen = x.seen
        /\ dgRx'.count = x.count /\ dgRx'.buf = x.buf
    BY <1>6, <1>7 DEF DgRxs
  <2>2. DgRxOK(xfers, dgRx')
    BY <1>6, <2>1 DEF DgRxOK
  <2>3. ASSUME DeliveredIn(xfers, delivered) PROVE DeliveredIn(xfers, delivered')
    <3>1. CASE x.count = x.total
      <4>1. x.buf \in Seq(Received) /\ WholeIn(xfers, x.buf, xfers[x.tx]) /\ xfers[x.tx] \in Bundles
        BY <1>0, <1>6, <3>1, DgWhole
      <4>2. PICK y, b : y = x.buf /\ b = xfers[x.tx]
        <5> QED
          OBVIOUS
      <4>3. y \in Seq(Received) /\ b \in Bundles /\ WholeIn(xfers, y, b)
        BY <4>1, <4>2
      <4>4. delivered' = Append(delivered, y)
        BY <1>7, <3>1, <4>2
      <4> QED
        BY <2>3, <4>3, <4>4, DeliveredAppend
    <3>2. CASE x.count # x.total
      BY <1>7, <2>3, <3>2
    <3> QED
      BY <3>1, <3>2
  <2> QED
    BY <1>0, <1>1, <1>5, <2>1, <2>2, <2>3 DEF DatagramsOK
<1>8. CASE dgRx' = [dgRx EXCEPT !.active = FALSE] /\ UNCHANGED delivered
  <2>1. dgRx' \in DgRxs /\ ~dgRx'.active
    BY <1>0, <1>8 DEF DgRxs
  <2> QED
    BY <1>0, <1>1, <1>5, <1>8, <2>1 DEF DatagramsOK
<1>9. CASE UNCHANGED <<dgRx, delivered>>
  BY <1>0, <1>1, <1>5, <1>9 DEF DatagramsOK
<1> QED
  BY <1>5, <1>7, <1>8, <1>9

-----------------------------------------------------------------------------
(* The invariant is inductive. *)

LEMMA XferInvInit == QuicXferInit => XferInv
<1> SUFFICES ASSUME QuicXferInit PROVE XferInv
  OBVIOUS
<1>1. XferTypeOK
  <2>1. /\ xfers = <<>> /\ bp = [b \in Bundles |-> "queued"] /\ sendData = <<>> /\ sendOff = 0
        /\ stream = [s \in 1 .. 4 |-> <<>>]
    BY DEF QuicXferInit
  <2> QED
    BY <2>1 DEF XferTypeOK
<1>2. SlotOK
  BY DEF QuicXferInit, SlotOK
<1>3. DatagramsOK
  <2>1. dgRx = NoDgRx /\ NoDgRx \in DgRxs /\ ~NoDgRx.active
    BY DEF QuicXferInit, NoDgRx, DgRxs
  <2>2. dgQueue = <<>> /\ dgNet = {}
    BY DEF QuicXferInit
  <2>3. dgQueue \in Seq(Datagrams(xfers))
    BY <2>2
  <2> QED
    BY <2>1, <2>2, <2>3 DEF DatagramsOK
<1>4. DeliveredIn(xfers, delivered)
  <2>1. delivered = <<>>
    BY DEF QuicXferInit
  <2>2. delivered \in Seq(Seq(Received)) /\ Len(delivered) = 0
    BY <2>1
  <2> QED
    BY <2>2 DEF DeliveredIn
<1>5. FlowOK
  <2>1. HasSoFar(xfers, 0, 0, 0, rxBuf, xfer)
    <3>1. rxBuf = <<>> /\ ~xfer.active
      BY DEF QuicXferInit, NoXfer
    <3>2. rxBuf = Begun(0, 0, 0)
      BY <3>1, BegunFacts
    <3> QED
      BY <3>1, <3>2 DEF HasSoFar, Begun
  <2>2. ASSUME NEW s \in 1 .. 4 PROVE Fits(xfers, 0, 0, 0, s, Pipe(s))
    <3>1. PICK p, none : p = Pipe(s) /\ none = <<>>
      <4> QED
        OBVIOUS
    <3>2. stream[s] = none /\ sendData = none
      BY <3>1 DEF QuicXferInit
    <3>3. none \in Seq(OnStream) /\ none \in Seq(Octets) /\ Len(none) = 0 /\ 0 \in 0 .. Len(none)
      BY <3>1
    <3>4. p = Line(none, none, 0)
      BY <3>1, <3>2 DEF Pipe
    <3>5. LineIs(none, none, 0, p)
      BY <3>3, <3>4, LineFacts
    <3>6. Len(p) = 0
      BY <3>3, <3>5 DEF LineIs
    <3>7. Fits(xfers, 0, 0, 0, s, p)
      BY <3>6 DEF Fits
    <3> QED
      BY <3>1, <3>7
  <2>3. AtPlace(0, 0, 0) /\ 0 \in Nat
    BY <2>1 DEF AtPlace
  <2> QED
    BY <2>2, <2>3 DEF FlowOK, AtPlace
<1> QED
  BY <1>1, <1>2, <1>3, <1>4, <1>5 DEF XferInv

LEMMA ExtendsSelf == ASSUME XferTypeOK, UNCHANGED xfers PROVE Extends(xfers', xfers)
BY DEF XferTypeOK, Extends

\* A step that leaves the streams and what is sent on them alone.
LEMMA PipesKept ==
    ASSUME UNCHANGED <<xfers, sendData, sendOff, stream>>
    PROVE  \A s \in 1 .. 4 : Pipe(s)' = Pipe(s)
BY DEF Pipe

\* One that also gives no transfer out, and leaves the receiver alone.
LEMMA XferInvKept ==
    ASSUME XferInv, UNCHANGED <<service, xfers, bp, sendData, sendOff, sendDone, stream>>,
           UNCHANGED <<rxBuf, xfer, delivered, spoilt>>, DatagramsOK',
           ~txFailed' => ~txFailed, ~rxFailed' => ~rxFailed
    PROVE  XferInv'
<1>1. XferTypeOK' /\ SlotOK'
  BY DEF XferInv, XferTypeOK, SlotOK, Idle, Sending
<1>2. spoilt' = {} => DeliveredIn(xfers', delivered')
  BY DEF XferInv
<1>3. ASSUME FlowOK PROVE FlowOK'
  <2>1. Extends(xfers', xfers)
    BY ExtendsSelf DEF XferInv
  <2>2. \A s \in 1 .. 4 : Pipe(s)' = Pipe(s)
    BY PipesKept
  <2> QED
    BY <1>3, <2>1, <2>2, FlowKept
<1> QED
  BY <1>1, <1>2, <1>3 DEF XferInv

\* The steps of the sender thread.
LEMMA DoSendInv ==
    ASSUME XferInv, NEW b \in Bundles, DoSend(b) PROVE XferInv'
<1>0. XferTypeOK /\ SlotOK /\ DatagramsOK
  BY DEF XferInv
<1>1. PICK old, xf, t : old = xfers /\ xf = xfers' /\ t = Len(xfers) + 1
  <2> QED
    OBVIOUS
<1>2. /\ xf = Append(old, b) /\ sendOff' = 0 /\ ~sendDone' /\ sendData' = Framed(t, b)
      /\ bp' = [bp EXCEPT ![b] = "sending"] /\ service = "reliable"
      /\ UNCHANGED <<service, stream, dgQueue, dgNet, dgRx, txFailed>>
      /\ UNCHANGED <<delivered, rxFailed, spoilt>>
  BY <1>1 DEF DoSend, dgVars, rxVars
<1>3. /\ old \in Seq(Bundles) /\ xf \in Seq(Bundles) /\ t \in Nat /\ t = Len(xf) /\ t \in DOMAIN xf
      /\ t > 0 /\ xf[t] = b /\ \A k \in DOMAIN old : k \in DOMAIN xf /\ xf[k] = old[k]
  <2>1. old \in Seq(Bundles)
    BY <1>0, <1>1 DEF XferTypeOK
  <2> QED
    BY <1>1, <1>2, <2>1, AppendFacts
<1>4. Extends(xf, old)
  BY <1>3 DEF Extends
<1>5. Framed(t, b) \in Seq(Octets)
  <2>1. PICK end : IsRun(xf, t, Framed(t, b), Want(t, 0, 0), end)
    BY <1>3, FramedFacts
  <2> QED
    BY <2>1 DEF IsRun
<1>6. bp' \in [Bundles -> {"queued", "sending", "sent", "failed"}] /\ bp'[b] = "sending"
  BY <1>0, <1>2 DEF XferTypeOK
<1>7. XferTypeOK'
  BY <1>0, <1>1, <1>2, <1>3, <1>5, <1>6 DEF XferTypeOK
<1>8. SlotOK'
  BY <1>1, <1>2, <1>3, <1>6 DEF SlotOK, Idle, Sending
<1>9. DatagramsOK'
  BY <1>0, <1>1, <1>2, <1>4, DatagramsKept
<1>10. spoilt' = {} => DeliveredIn(xfers', delivered')
  <2>1. ASSUME DeliveredIn(old, delivered) PROVE DeliveredIn(xf, delivered)
    BY <1>4, <2>1, DeliveredGrows
  <2> QED
    BY <1>1, <1>2, <2>1 DEF XferInv
<1>11. FlowOK => FlowOK'
  BY <1>0, FlowBegun
<1> QED
  BY <1>2, <1>7, <1>8, <1>9, <1>10, <1>11 DEF XferInv

LEMMA DoSendReturnInv ==
    ASSUME XferInv, NEW b \in Bundles, DoSendReturn(b) PROVE XferInv'
<1>0. XferTypeOK /\ SlotOK /\ DatagramsOK
  BY DEF XferInv
<1>1. /\ sendData' = <<>> /\ sendOff' = 0 /\ ~sendDone' /\ (sendDone \/ txFailed)
      /\ \E r \in {"failed", "sent"} : bp' = [bp EXCEPT ![b] = r]
      /\ UNCHANGED <<service, xfers, stream, dgQueue, dgNet, dgRx, txFailed>>
      /\ UNCHANGED <<rxBuf, xfer, delivered, rxFailed, spoilt>>
  BY DEF DoSendReturn, dgVars, rxVars
<1>2. XferTypeOK'
  BY <1>0, <1>1 DEF XferTypeOK
<1>3. SlotOK'
  BY <1>1 DEF SlotOK
<1>4. Extends(xfers', xfers)
  BY <1>0, <1>1, ExtendsSelf
<1>5. DatagramsOK'
  BY <1>0, <1>1, <1>4, DatagramsKept
<1>6. spoilt' = {} => DeliveredIn(xfers', delivered')
  BY <1>1 DEF XferInv
<1>7. ASSUME FlowOK, ~txFailed PROVE FlowOK'
  <2>1. sendOff = Len(sendData)
    BY <1>0, <1>1, <1>7 DEF SlotOK
  <2>2. \A s \in 1 .. 4 : Pipe(s)' = Pipe(s)
    BY <1>0, <1>1, <2>1, PipeDone
  <2> QED
    BY <1>1, <1>4, <1>7, <2>2, FlowKept
<1> QED
  BY <1>1, <1>2, <1>3, <1>5, <1>6, <1>7 DEF XferInv

LEMMA SendDatagramsInv ==
    ASSUME XferInv, NEW b \in Bundles, SendDatagrams(b) PROVE XferInv'
<1>0. XferTypeOK /\ SlotOK /\ DatagramsOK
  BY DEF XferInv
<1>1. /\ xfers' = Append(xfers, b) /\ bp' = [bp EXCEPT ![b] = "sending"] /\ Idle
      /\ UNCHANGED <<service, sendData, sendOff, sendDone, stream, txFailed>>
      /\ UNCHANGED <<rxBuf, xfer, delivered, rxFailed, spoilt>>
  BY DEF SendDatagrams, rxVars
<1>2. sendData = <<>>
  BY <1>0, <1>1 DEF SlotOK
<1>3. Extends(xfers', xfers) /\ DatagramsOK'
  BY <1>0, SegmentsQueued
<1>4. XferTypeOK'
  BY <1>0, <1>1 DEF XferTypeOK
<1>5. SlotOK'
  BY <1>0, <1>1, <1>2 DEF SlotOK
<1>6. spoilt' = {} => DeliveredIn(xfers', delivered')
  <2>1. PICK old, xf : old = xfers /\ xf = xfers'
    <3> QED
      OBVIOUS
  <2>2. Extends(xf, old)
    BY <1>3, <2>1
  <2>3. ASSUME DeliveredIn(old, delivered) PROVE DeliveredIn(xf, delivered)
    BY <2>2, <2>3, DeliveredGrows
  <2> QED
    BY <1>1, <2>1, <2>3 DEF XferInv
<1>7. ASSUME FlowOK PROVE FlowOK'
  <2>1. \A s \in 1 .. 4 : Pipe(s)' = Pipe(s)
    BY <1>1, <1>2 DEF Pipe
  <2> QED
    BY <1>1, <1>3, <1>7, <2>1, FlowKept
<1> QED
  BY <1>1, <1>3, <1>4, <1>5, <1>6, <1>7 DEF XferInv

LEMMA SendDatagramsReturnInv ==
    ASSUME XferInv, NEW b \in Bundles, SendDatagramsReturn(b) PROVE XferInv'
<1>0. XferTypeOK /\ SlotOK /\ DatagramsOK
  BY DEF XferInv
<1>1. /\ service = "datagram" /\ \E r \in {"failed", "sent"} : bp' = [bp EXCEPT ![b] = r]
      /\ UNCHANGED <<service, xfers, sendData, sendOff, sendDone, stream, txFailed>>
      /\ UNCHANGED <<dgQueue, dgNet, dgRx>>
      /\ UNCHANGED <<rxBuf, xfer, delivered, rxFailed, spoilt>>
  BY DEF SendDatagramsReturn, dgVars, rxVars
<1>2. XferTypeOK'
  BY <1>0, <1>1 DEF XferTypeOK
<1>3. SlotOK'
  <2>1. sendData = <<>>
    BY <1>0, <1>1 DEF SlotOK
  <2> QED
    BY <1>0, <1>1, <2>1 DEF SlotOK
<1>4. Extends(xfers', xfers)
  BY <1>0, <1>1, ExtendsSelf
<1>5. DatagramsOK'
  BY <1>0, <1>1, <1>4, DatagramsKept
<1>6. spoilt' = {} => DeliveredIn(xfers', delivered')
  BY <1>1 DEF XferInv
<1>7. ASSUME FlowOK PROVE FlowOK'
  <2>1. \A s \in 1 .. 4 : Pipe(s)' = Pipe(s)
    BY <1>1, PipesKept
  <2> QED
    BY <1>1, <1>4, <1>7, <2>1, FlowKept
<1> QED
  BY <1>1, <1>2, <1>3, <1>5, <1>6, <1>7 DEF XferInv

\* The steps of the sender's I/O thread and of QUIC.
LEMMA WriteConnInv ==
    ASSUME XferInv, WriteConn PROVE XferInv'
<1>0. XferTypeOK /\ SlotOK /\ DatagramsOK
  BY DEF XferInv
<1>1. /\ sendOff' = sendOff + 1 /\ sendOff < Len(sendData)
      /\ UNCHANGED <<service, xfers, bp, sendData, sendDone, txFailed>>
      /\ UNCHANGED <<dgQueue, dgNet, dgRx>>
      /\ UNCHANGED <<rxBuf, xfer, delivered, rxFailed, spoilt>>
  BY DEF WriteConn, dgVars, rxVars
<1>2. XferTypeOK' /\ \A s \in 1 .. 4 : Pipe(s)' = Pipe(s)
  BY <1>0, PipeTaken
<1>3. ~sendDone
  <2>1. sendOff \in Nat /\ Len(sendData) \in Nat
    BY <1>0 DEF XferTypeOK
  <2> QED
    BY <1>0, <1>1, <2>1 DEF SlotOK
<1>4. SlotOK'
  BY <1>0, <1>1, <1>3 DEF SlotOK, Idle, Sending
<1>5. Extends(xfers', xfers)
  BY <1>0, <1>1, ExtendsSelf
<1>6. DatagramsOK'
  BY <1>0, <1>1, <1>5, DatagramsKept
<1>7. spoilt' = {} => DeliveredIn(xfers', delivered')
  BY <1>1 DEF XferInv
<1>8. ASSUME FlowOK PROVE FlowOK'
  BY <1>1, <1>2, <1>5, <1>8, FlowKept
<1> QED
  BY <1>1, <1>2, <1>4, <1>6, <1>7, <1>8 DEF XferInv

LEMMA WakeInv ==
    ASSUME XferInv, EngineWakeWaiters PROVE XferInv'
<1>0. XferTypeOK /\ SlotOK /\ DatagramsOK
  BY DEF XferInv
<1>1. /\ sendOff >= Len(sendData)
      /\ UNCHANGED <<service, xfers, bp, sendData, sendOff, stream, txFailed>>
      /\ UNCHANGED <<dgQueue, dgNet, dgRx>>
      /\ UNCHANGED <<rxBuf, xfer, delivered, rxFailed, spoilt>>
  BY DEF EngineWakeWaiters, dgVars, rxVars
<1>2. XferTypeOK'
  BY <1>0, <1>1 DEF XferTypeOK
<1>3. SlotOK'
  <2>1. sendOff = Len(sendData)
    <3>1. sendOff \in 0 .. Len(sendData) /\ Len(sendData) \in Nat
      BY <1>0 DEF XferTypeOK
    <3> QED
      BY <1>1, <3>1
  <2> QED
    BY <1>0, <1>1, <2>1 DEF SlotOK, Idle, Sending
<1>4. Extends(xfers', xfers)
  BY <1>0, <1>1, ExtendsSelf
<1>5. DatagramsOK'
  BY <1>0, <1>1, <1>4, DatagramsKept
<1>6. spoilt' = {} => DeliveredIn(xfers', delivered')
  BY <1>1 DEF XferInv
<1>7. ASSUME FlowOK PROVE FlowOK'
  <2>1. \A s \in 1 .. 4 : Pipe(s)' = Pipe(s)
    BY <1>1, PipesKept
  <2> QED
    BY <1>1, <1>4, <1>7, <2>1, FlowKept
<1> QED
  BY <1>1, <1>2, <1>3, <1>5, <1>6, <1>7 DEF XferInv

LEMMA RetransmitInv ==
    ASSUME XferInv, NEW s \in 1 .. 4, NEW i \in 1 .. Len(stream[s]), Retransmit(s, i)
    PROVE  XferInv'
<1>0. XferTypeOK /\ SlotOK /\ DatagramsOK
  BY DEF XferInv
<1>1. /\ UNCHANGED <<service, xfers, bp, sendData, sendOff, sendDone, txFailed>>
      /\ UNCHANGED <<dgQueue, dgNet, dgRx>>
      /\ UNCHANGED <<rxBuf, xfer, delivered, rxFailed>>
  BY DEF Retransmit, txVars, dgVars
<1>2. /\ XferTypeOK'
      /\ spoilt' = {} => spoilt = {} /\ \A t \in 1 .. 4 : Pipe(t)' = Pipe(t)
  BY <1>0, PipeRetransmit
<1>3. SlotOK'
  BY <1>0, <1>1 DEF SlotOK, Idle, Sending
<1>4. Extends(xfers', xfers)
  BY <1>0, <1>1, ExtendsSelf
<1>5. DatagramsOK'
  BY <1>0, <1>1, <1>4, DatagramsKept
<1>6. spoilt' = {} => DeliveredIn(xfers', delivered')
  BY <1>1, <1>2 DEF XferInv
<1>7. ASSUME FlowOK, spoilt' = {} PROVE FlowOK'
  BY <1>1, <1>2, <1>4, <1>7, FlowKept
<1> QED
  BY <1>1, <1>2, <1>3, <1>5, <1>6, <1>7 DEF XferInv

\* The steps that concern datagrams, acknowledgements and the connection alone.
LEMMA OtherStepsInv ==
    ASSUME XferInv,
           WriteDatagram \/ TxFails \/ DatagramLost \/ AckedOffset \/ SendAck
              \/ UNCHANGED quicVars
    PROVE  XferInv'
<1>0. XferTypeOK /\ SlotOK /\ DatagramsOK
  BY DEF XferInv
<1>1. /\ UNCHANGED <<service, xfers, bp, sendData, sendOff, sendDone, stream>>
      /\ UNCHANGED <<rxBuf, xfer, delivered, spoilt>>
      /\ rxFailed' = rxFailed /\ (~txFailed' => ~txFailed)
  BY DEF WriteDatagram, TxFails, DatagramLost, AckedOffset, SendAck, quicVars, txVars, rxVars
<1>2. Extends(xfers', xfers)
  BY <1>0, <1>1, ExtendsSelf
<1>3. DatagramsOK'
  <2>1. CASE WriteDatagram
    BY <1>0, <2>1, DatagramWritten
  <2>2. CASE DatagramLost
    <3>1. dgNet' \subseteq dgNet /\ UNCHANGED <<dgQueue, dgRx>>
      BY <2>2 DEF DatagramLost
    <3> QED
      BY <1>0, <1>1, <3>1 DEF DatagramsOK
  <2>3. CASE TxFails \/ AckedOffset \/ SendAck \/ UNCHANGED quicVars
    <3>1. UNCHANGED <<dgQueue, dgNet, dgRx>>
      BY <2>3 DEF TxFails, AckedOffset, SendAck, quicVars, dgVars
    <3> QED
      BY <1>0, <1>2, <3>1, DatagramsKept
  <2> QED
    BY <2>1, <2>2, <2>3
<1> QED
  BY <1>1, <1>3, XferInvKept

\* The steps of the receiver's I/O thread.
LEMMA RecvStreamDataInv ==
    ASSUME XferInv, NEW s \in 1 .. 4, RecvStreamData(s) PROVE XferInv'
<1>0. XferTypeOK /\ SlotOK /\ DatagramsOK
  BY DEF XferInv
<1>1. /\ stream' = [stream EXCEPT ![s] = Tail(@)] /\ stream[s] # <<>> /\ ~rxFailed /\ ~txFailed
      /\ UNCHANGED <<service, xfers, bp, sendData, sendOff, sendDone, txFailed>>
      /\ UNCHANGED <<dgQueue, dgNet, dgRx>>
      /\ spoilt' = {} => spoilt = {}
  BY DEF RecvStreamData, txVars, dgVars
<1>2. XferTypeOK'
  <2>1. stream \in [1 .. 4 -> Seq(OnStream)]
    BY <1>0 DEF XferTypeOK
  <2>2. Tail(stream[s]) \in Seq(OnStream)
    <3>1. stream[s] \in Seq(OnStream) /\ stream[s] # <<>>
      BY <1>1, <2>1
    <3> QED
      BY <3>1, HeadTailProperties
  <2>3. stream' \in [1 .. 4 -> Seq(OnStream)]
    BY <1>1, <2>1, <2>2
  <2> QED
    BY <1>0, <1>1, <2>3 DEF XferTypeOK
<1>3. SlotOK'
  BY <1>0, <1>1 DEF SlotOK, Idle, Sending
<1>4. Extends(xfers', xfers)
  BY <1>0, <1>1, ExtendsSelf
<1>5. DatagramsOK'
  BY <1>0, <1>1, <1>4, DatagramsKept
<1>6. ASSUME spoilt' = {}
      PROVE  (~rxFailed' => FlowOK') /\ DeliveredIn(xfers', delivered')
  <2>1. FlowOK /\ DeliveredIn(xfers, delivered)
    BY <1>1, <1>6 DEF XferInv
  <2> QED
    BY <1>0, <1>6, <2>1, FlowReceived
<1> QED
  BY <1>2, <1>3, <1>5, <1>6 DEF XferInv

LEMMA RecvDatagramInv ==
    ASSUME XferInv, RecvDatagram PROVE XferInv'
<1>0. XferTypeOK /\ SlotOK /\ DatagramsOK
  BY DEF XferInv
<1>1. /\ UNCHANGED <<service, xfers, bp, sendData, sendOff, sendDone, stream, txFailed>>
      /\ UNCHANGED <<rxBuf, xfer>> /\ ~rxFailed
  BY DEF RecvDatagram, txVars
<1>2. /\ DatagramsOK' /\ spoilt' = spoilt
      /\ DeliveredIn(xfers, delivered) => DeliveredIn(xfers, delivered')
  BY <1>0, DatagramReceived
<1>3. XferTypeOK' /\ SlotOK'
  BY <1>0, <1>1 DEF XferTypeOK, SlotOK, Idle, Sending
<1>4. spoilt' = {} => DeliveredIn(xfers', delivered')
  BY <1>1, <1>2 DEF XferInv
<1>5. ASSUME FlowOK PROVE FlowOK'
  <2>1. Extends(xfers', xfers)
    BY <1>0, <1>1, ExtendsSelf
  <2>2. \A s \in 1 .. 4 : Pipe(s)' = Pipe(s)
    BY <1>1, PipesKept
  <2> QED
    BY <1>1, <1>5, <2>1, <2>2, FlowKept
<1> QED
  BY <1>1, <1>2, <1>3, <1>4, <1>5 DEF XferInv

LEMMA XferInvNext == XferInv /\ [QuicXferNext]_quicVars => XferInv'
<1> SUFFICES ASSUME XferInv, [QuicXferNext]_quicVars PROVE XferInv'
  OBVIOUS
<1>1. CASE \E b \in Bundles : DoSend(b)
  BY <1>1, DoSendInv
<1>2. CASE \E b \in Bundles : DoSendReturn(b)
  BY <1>2, DoSendReturnInv
<1>3. CASE \E b \in Bundles : SendDatagrams(b)
  BY <1>3, SendDatagramsInv
<1>4. CASE \E b \in Bundles : SendDatagramsReturn(b)
  BY <1>4, SendDatagramsReturnInv
<1>5. CASE WriteConn
  BY <1>5, WriteConnInv
<1>6. CASE EngineWakeWaiters
  BY <1>6, WakeInv
<1>7. CASE \E s \in 1 .. 4 : \E i \in 1 .. Len(stream[s]) : Retransmit(s, i)
  BY <1>7, RetransmitInv
<1>8. CASE WriteDatagram \/ TxFails \/ DatagramLost \/ AckedOffset \/ SendAck
              \/ UNCHANGED quicVars
  BY <1>8, OtherStepsInv
<1>9. CASE \E s \in 1 .. 4 : RecvStreamData(s)
  BY <1>9, RecvStreamDataInv
<1>10. CASE RecvDatagram
  BY <1>10, RecvDatagramInv
<1> QED
  BY <1>1, <1>2, <1>3, <1>4, <1>5, <1>6, <1>7, <1>8, <1>9, <1>10 DEF QuicXferNext

LEMMA XferInvIntact == XferInv => XferIntact
<1> SUFFICES ASSUME XferInv, spoilt = {}, NEW i \in 1 .. Len(delivered)
             PROVE  \E b \in Bundles : IsWhole(delivered[i], b)
  BY DEF XferIntact
<1>1. PICK b \in Bundles : WholeIn(xfers, delivered[i], b)
  BY DEF XferInv, DeliveredIn
<1> QED
  BY <1>1 DEF WholeIn, IsWhole

\* What the receiver of a quic connection gives to BP is a bundle that was sent, whole
\* and each octet in its place: on streams unless octets of two transfers were mixed or freed
\* memory was sent again, with datagrams whatever is lost, reordered or short of memory
\* (recvStreamDataCb, xferReassemble and dgReassemble against frameBundle and
\* quicClientSendDatagram).
THEOREM QuicDeliversIntact == QuicXferSpec => []XferIntact
<1>1. QuicXferInit => XferInv
  BY XferInvInit
<1>2. XferInv /\ [QuicXferNext]_quicVars => XferInv'
  BY XferInvNext
<1>3. XferInv => XferIntact
  BY XferInvIntact
<1> QED
  BY <1>1, <1>2, <1>3, PTL DEF QuicXferSpec

=============================================================================
