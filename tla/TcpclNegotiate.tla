---------------------------- MODULE TcpclNegotiate ----------------------------
(***************************************************************************)
(* tcpv4negotiate.c between the two ends of one TCP connection: contact    *)
(* headers, the TLS handshake and the checks of the peer's certificate,    *)
(* SESS_INIT; and then how the message loop cuts the stream into messages  *)
(* again (tcpv4io.c, recvXferSegmentHdr of tcpv4rx.c).  Streams carry the  *)
(* octets of TcpclMsg.  What a message then does is TcpclTx and TcpclRx.   *)
(*                                                                         *)
(* Both ends run this code.  A configuration may also let an end send what *)
(* this code never sends but has to cope with: another magic or version, a *)
(* message before SESS_INIT, extension items, a message of no known type.  *)
(*                                                                         *)
(* A step is what a receiver thread does from one blocking read to the     *)
(* next; what it writes on the way goes to the peer's stream at once.      *)
(***************************************************************************)
EXTENDS TcpclMsg, FiniteSets

CONSTANTS
    Configs,    \* pairs of configurations, one for each end
    NodeOf,     \* NodeOf[id]: the node a well-formed node ID names
    MaxNodeId,  \* TCPV4_MAX_NODEID_LEN
    MaxExt,     \* TCPV4_MAX_EXT_LEN
    RxBufSize,  \* TCPV4_RXBUF_SIZE
    Direct      \* TCPV4_RXBUF_DIRECT

Ends == {"active", "passive"}
Peer(e) == IF e = "active" THEN "passive" ELSE "active"

ASSUME BaseAssumption == Base \in Nat /\ Base > SessInit
ASSUME LimitsAssumption == {MaxNodeId, MaxExt, RxBufSize, Direct} \subseteq Nat \ {0}

VARIABLES
    cfg,      \* cfg[e]: e's Tcpv4ClaConfig, certificate and messages to send
    pc,       \* pc[e]: where e's receiver thread is
    tls,      \* tls[e]: conn->tls is set
    stream,   \* stream[e]: octets sent to e and not yet read from the socket
    rxBuf,    \* rxBuf[e]: octets read ahead
    buf,      \* buf[e]: what e has read of the message it is reading
    conn,     \* conn[e]: the parameters applySessInit settles
    cut,      \* the network has broken the connection
    said,     \* said[e]: the messages e has sent since its SESS_INIT
    got       \* got[e]: the messages e has read since it was established
vars == <<cfg, pc, tls, stream, rxBuf, buf, conn, cut, said, got>>

NoConn == [keepalive |-> -1, segmentMtu |-> 0, transferMtu |-> 0,
           peerNodeId |-> <<>>, routeNodeId |-> <<>>, authenticated |-> FALSE]

Init ==
    /\ cfg \in Configs
    /\ pc = [e \in Ends |-> IF e = "active" THEN "hello" ELSE "contact"]
    /\ tls = [e \in Ends |-> FALSE]
    /\ stream = [e \in Ends |-> <<>>]
    /\ rxBuf = [e \in Ends |-> <<>>]
    /\ buf = [e \in Ends |-> <<>>]
    /\ conn = [e \in Ends |-> NoConn]
    /\ cut = FALSE
    /\ said = [e \in Ends |-> <<>>]
    /\ got = [e \in Ends |-> <<>>]

-----------------------------------------------------------------------------
(* The stream. *)

\* What e writes goes nowhere once the connection or the peer's end of it is gone.
Carried(e) == ~cut /\ pc[Peer(e)] # "failed"
ToPeer(e, octets) ==
    IF Carried(e) THEN [stream EXCEPT ![Peer(e)] = @ \o octets] ELSE stream

\* A read ends with what is there once nothing more can come.
AtEnd(e, n) == ~Carried(e) /\ Len(rxBuf[e]) + Len(stream[e]) < n

\* tcpv4ConnRecv of n octets in all: until the session is established octet
\* for octet, later through rxBuf, which one read of the socket fills with what
\* has arrived - none, or as much as it holds - unless what is missing is long.
Received(e, n) ==
    LET ahead == Len(rxBuf[e])
        missing == n - ahead
        left == Len(stream[e]) - missing
        most == IF RxBufSize - missing < left THEN RxBufSize - missing ELSE left
        more == IF pc[e] = "up" /\ missing < Direct THEN {0, most} ELSE {0}
    IN IF missing <= 0
       THEN {[octets |-> SubSeq(rxBuf[e], 1, n),
              rxBuf |-> SubSeq(rxBuf[e], n + 1, ahead), stream |-> stream[e]]}
       ELSE {[octets |-> rxBuf[e] \o SubSeq(stream[e], 1, missing),
              rxBuf |-> SubSeq(stream[e], missing + 1, missing + k),
              stream |-> SubSeq(stream[e], missing + k + 1, Len(stream[e]))]
             : k \in more}

\* Mutant of Took: what was read ahead is lost.
TookNoAhead(e, r) ==
    /\ rxBuf' = [rxBuf EXCEPT ![e] = <<>>]
    /\ stream' = [stream EXCEPT ![e] = r.stream]

Took(e, r) ==
    /\ rxBuf' = [rxBuf EXCEPT ![e] = r.rxBuf]
    /\ stream' = [stream EXCEPT ![e] = r.stream]

\* n octets are there for e to read.
Ready(e, n) == Len(rxBuf[e]) + Len(stream[e]) >= n

\* How far into the message the next read goes, given what was read of it: as
\* far as the octets read so far are known to need, Len(b) when it is complete.
SegmentUpTo(b) ==
    LET start == Has(b[2], FlagStart)
        ext == Number(SubSeq(b, 11, 14))
        dataAt == IF start THEN 14 + ext + 8 ELSE 18
    IN CASE Len(b) = 1 -> 10
         [] Len(b) = 10 /\ start -> 14
         [] Len(b) >= 14 /\ start /\ Len(b) < 14 + ext -> 14 + ext
         [] Len(b) \in {10, 14} \/ Len(b) < dataAt -> dataAt
         [] OTHER -> dataAt + Number(SubSeq(b, dataAt - 7, dataAt))

SessInitUpTo(b) ==
    LET extAt == 21 + Number(SubSeq(b, 20, 21))
    IN CASE Len(b) = 1 -> 21
         [] Len(b) >= 21 /\ Len(b) < extAt -> extAt
         [] Len(b) >= 21 /\ Len(b) = extAt -> extAt + 4
         [] OTHER -> extAt + 4 + Number(SubSeq(b, extAt + 1, extAt + 4))

UpTo(b) ==
    IF b = <<>> THEN 1
    ELSE CASE b[1] = XferSegment -> SegmentUpTo(b)
           [] b[1] = XferAck -> 18
           [] b[1] = XferRefuse -> 10
           [] b[1] \in {SessTerm, MsgReject} -> 3
           [] b[1] = SessInit -> SessInitUpTo(b)
           [] OTHER -> 1

Complete(b) == b # <<>> /\ UpTo(b) = Len(b)

\* A length the code does not go on to read.
Oversized(b) ==
    \/ /\ b[1] = SessInit /\ Len(b) >= 21
       /\ \/ Number(SubSeq(b, 20, 21)) >= MaxNodeId
          \/ UpTo(b) - Len(b) > MaxExt
    \/ /\ b[1] = XferSegment /\ Len(b) = 14 /\ Has(b[2], FlagStart)
       /\ Number(SubSeq(b, 11, 14)) > MaxExt

-----------------------------------------------------------------------------
(* Negotiation. *)

Negotiating(e) == pc[e] \in {"hello", "contact", "tls", "checks", "init"}

Contact(e) == EncodeContact(cfg[e].magic, cfg[e].version, cfg[e].tls # "disable")
Plain(t, m) == [type |-> t, m |-> m, data |-> <<>>, total |-> {}]
Term(reason) == <<Plain(SessTerm, [flags |-> 0, reason |-> reason])>>
Reject(reason, t) == <<Plain(MsgReject, [reason |-> reason, rejectedType |-> t])>>
VersionMismatch == 2
Busy == 3
ContactFailure == 4
TypeUnknown == 1
Unexpected == 3

\* The octets of a message; one of no known type is its type alone.
Written(msg) ==
    (IF msg.type \in DOMAIN Layout THEN Encode(msg.type, msg.m) ELSE <<msg.type>>)
    \o msg.data

\* The receiver thread gives up: with a contact header not yet answered, or the
\* messages it owes the peer, written, it shuts the socket down.
Fails(e, contact, msgs) ==
    /\ pc' = [pc EXCEPT ![e] = "failed"]
    /\ stream' = [ToPeer(e, contact \o FlattenSeq([i \in DOMAIN msgs |-> Written(msgs[i])]))
                    EXCEPT ![e] = <<>>]
    /\ said' = [said EXCEPT ![e] = @ \o msgs]
    /\ rxBuf' = [rxBuf EXCEPT ![e] = <<>>]
    /\ buf' = [buf EXCEPT ![e] = <<>>]
    /\ UNCHANGED <<cfg, tls, conn, cut, got>>

\* Once contact and TLS are settled: a session too many is refused, any other
\* announces itself and waits for the peer to do so.
Announces(e, before, rest) ==
    LET hello == Encode(SessInit, cfg[e].init)
    IN IF cfg[e].busy
       THEN Fails(e, before, Term(Busy))
       ELSE /\ pc' = [pc EXCEPT ![e] = "init"]
            /\ stream' = [ToPeer(e, before \o (IF cfg[e].early THEN <<Keepalive>> ELSE <<>>)
                                    \o hello) EXCEPT ![e] = rest]
            /\ UNCHANGED <<cfg, tls, rxBuf, buf, conn, cut, said, got>>

\* The active end sends its contact header first.
Hello ==
    /\ pc["active"] = "hello"
    /\ pc' = [pc EXCEPT !["active"] = "contact"]
    /\ stream' = ToPeer("active", Contact("active"))
    /\ UNCHANGED <<cfg, tls, rxBuf, buf, conn, cut, said, got>>

\* Mutant of EnableTls: this end alone decides.
EnableTlsAlone(e, peer) == cfg[e].tls # "disable"

EnableTls(e, peer) == cfg[e].tls # "disable" /\ peer.canTls

\* exchangeContact, from the peer's contact header on.
ExchangeContact(e) ==
    /\ pc[e] = "contact"
    /\ Ready(e, ContactLen)
    /\ \E r \in Received(e, ContactLen) :
        LET peer == DecodeContact(r.octets)
            reply == IF e = "passive" THEN Contact(e) ELSE <<>>
        IN \/ /\ ~peer.ok
              /\ Fails(e, <<>>, <<>>)
           \/ /\ peer.ok /\ peer.version # cfg[e].version
              /\ Fails(e, reply, IF e = "passive" THEN Term(VersionMismatch) ELSE <<>>)
           \/ /\ peer.ok /\ peer.version = cfg[e].version
              /\ ~EnableTls(e, peer) /\ cfg[e].tls = "require"
              /\ Fails(e, reply, Term(ContactFailure))
           \/ /\ peer.ok /\ peer.version = cfg[e].version
              /\ ~EnableTls(e, peer) /\ cfg[e].tls # "require"
              /\ Announces(e, reply, r.stream)
           \/ /\ peer.ok /\ peer.version = cfg[e].version
              /\ EnableTls(e, peer)
              /\ pc' = [pc EXCEPT ![e] = "tls"]
              /\ stream' = [ToPeer(e, reply) EXCEPT ![e] = r.stream]
              /\ UNCHANGED <<cfg, tls, rxBuf, buf, conn, cut, said, got>>

\* tcpv4TlsHandshake (external) needs both ends.  It may fail at both, or, the
\* server being the last to verify, at the server only.
Handshake ==
    /\ \A e \in Ends : pc[e] = "tls"
    /\ ~cut
    /\ \E failing \in {{}, {"passive"}, Ends} :
         /\ tls' = [e \in Ends |-> e \notin failing]
         /\ pc' = [e \in Ends |-> IF e \in failing THEN "failed" ELSE "checks"]
    /\ UNCHANGED <<cfg, stream, rxBuf, buf, conn, cut, said, got>>

\* checkCertProfile
ProfileOk(e, cert) ==
    /\ cert.maySign
    /\ cert.keyPurpose # "wrong"
    /\ cert.keyPurpose = "no_bundle" => cfg[e].eku # "require"

CheckPeer(e) ==
    /\ pc[e] = "checks"
    /\ \/ /\ ~cfg[e].noVerify /\ ~ProfileOk(e, cfg[Peer(e)].cert)
          /\ Fails(e, <<>>, Term(ContactFailure))
       \/ /\ cfg[e].noVerify \/ ProfileOk(e, cfg[Peer(e)].cert)
          /\ Announces(e, <<>>, stream[e])

-----------------------------------------------------------------------------
(* applySessInit. *)

NodeIdIsSet(id) == id # <<>>

\* The same node, however the two IDs are spelled.
NodeIdMatches(a, b) ==
    NodeIdIsSet(a) /\ NodeIdIsSet(b) /\ NodeOf[a] = NodeOf[b]

Claimed(peer) == peer.nodeId

\* Whether the certificate is asked about the node ID, and what it says.
NodeIdChecked(e, peer) ==
    tls[e] /\ ~cfg[e].noVerify /\ cfg[e].eid # "none" /\ NodeIdIsSet(Claimed(peer))
MatchNodeId(e, peer) ==
    LET ids == cfg[Peer(e)].cert.ids
    IN CASE ids = {} -> "absent"
         [] \E id \in ids : NodeIdMatches(id, Claimed(peer)) -> "success"
         [] OTHER -> "failure"

Authenticated(e, peer) == NodeIdChecked(e, peer) /\ MatchNodeId(e, peer) = "success"

Acceptable(e, peer) ==
    /\ peer.segmentMru # 0 /\ peer.transferMru # 0
    /\ ~HasCriticalExt(peer.sessExt)
    /\ NodeIdIsSet(Claimed(peer)) => Claimed(peer) \in DOMAIN NodeOf
    /\ NodeIdChecked(e, peer) =>
         /\ MatchNodeId(e, peer) # "failure"
         /\ MatchNodeId(e, peer) = "absent" => cfg[e].eid # "require"

\* Mutant of Route: an accepted session is routed on what its peer claims.
RouteOnClaim(e, peer) ==
    CASE Authenticated(e, peer) \/ e = "passive" -> Claimed(peer)
      [] OTHER ->
           IF NodeIdIsSet(Claimed(peer)) /\ ~NodeIdMatches(Claimed(peer), cfg[e].dial)
           THEN <<>> ELSE cfg[e].dial

\* The node the session may carry bundles to: the one authenticated; else the
\* one dialled, unless the peer claims another; else, trusting it, the one claimed.
Route(e, peer) ==
    CASE Authenticated(e, peer) -> Claimed(peer)
      [] ~Authenticated(e, peer) /\ e = "active" ->
           IF NodeIdIsSet(Claimed(peer)) /\ ~NodeIdMatches(Claimed(peer), cfg[e].dial)
           THEN <<>> ELSE cfg[e].dial
      [] OTHER -> IF cfg[e].eid = "none" THEN Claimed(peer) ELSE <<>>

Smaller(a, b) == IF a < b THEN a ELSE b

Settled(e, peer) ==
    [keepalive |-> Smaller(peer.keepalive, cfg[e].init.keepalive),
     segmentMtu |-> peer.segmentMru, transferMtu |-> peer.transferMru,
     peerNodeId |-> Claimed(peer), routeNodeId |-> Route(e, peer),
     authenticated |-> Authenticated(e, peer)]

-----------------------------------------------------------------------------
(* Reading messages: recvSessInit, then tcpv4MessageLoop. *)

Reading(e) == pc[e] \in {"init", "up"}

\* The next read of e ends; it has now read b of the message.
Reads(e, b, r) ==
    /\ Took(e, r)
    /\ buf' = [buf EXCEPT ![e] = b]
    /\ UNCHANGED <<cfg, pc, tls, conn, cut, said, got>>

\* A first message that is not SESS_INIT ends the session.
First(t) == t = SessInit

\* recvSessInit: SESS_TERM and MSG_REJECT are not answered.
RecvSessInit(e, b, r) ==
    \/ /\ ~First(b[1])
       /\ Fails(e, <<>>, IF b[1] \in {SessTerm, MsgReject} THEN <<>>
                         ELSE Reject(Unexpected, b[1]))
    \/ /\ First(b[1]) /\ Oversized(b)
       /\ Fails(e, <<>>, <<>>)
    \/ /\ First(b[1]) /\ ~Oversized(b) /\ ~Complete(b)
       /\ Reads(e, b, r)
    \/ /\ First(b[1]) /\ ~Oversized(b) /\ Complete(b)
       /\ LET peer == Decode(SessInit, b)
          IN \/ /\ peer.n # Len(b)
                /\ Fails(e, <<>>, <<>>)
             \/ /\ peer.n = Len(b) /\ ~Acceptable(e, peer.m)
                /\ Fails(e, <<>>, Term(ContactFailure))
             \/ /\ peer.n = Len(b) /\ Acceptable(e, peer.m)
                /\ pc' = [pc EXCEPT ![e] = "up"]
                /\ conn' = [conn EXCEPT ![e] = Settled(e, peer.m)]
                /\ Took(e, r)
                /\ buf' = [buf EXCEPT ![e] = <<>>]
                /\ UNCHANGED <<cfg, tls, cut, said, got>>

\* What the code knows of a message that it has read.
Message(b) ==
    LET m == Decode(b[1], b)
        hasExt == b[1] = XferSegment /\ Has(m.m.flags, FlagStart)
    IN [type |-> b[1], m |-> m.m, data |-> SubSeq(b, m.n + 1, Len(b)),
        total |-> IF hasExt THEN FindXferLength(m.m.xferExt) ELSE {}]

\* tcpv4MessageLoop
RecvMessage(e, b, r) ==
    \/ /\ b[1] \notin XferSegment .. MsgReject
       /\ Fails(e, <<>>, Reject(IF b[1] = SessInit THEN Unexpected ELSE TypeUnknown, b[1]))
    \/ /\ b[1] \in XferSegment .. MsgReject /\ Oversized(b)
       /\ Fails(e, <<>>, <<>>)
    \/ /\ b[1] \in XferSegment .. MsgReject /\ ~Oversized(b) /\ ~Complete(b)
       /\ Reads(e, b, r)
    \/ /\ b[1] \in XferSegment .. MsgReject /\ ~Oversized(b) /\ Complete(b)
       /\ got' = [got EXCEPT ![e] = Append(@, Message(b))]
       /\ Took(e, r)
       /\ buf' = [buf EXCEPT ![e] = <<>>]
       /\ UNCHANGED <<cfg, pc, tls, conn, cut, said>>

Recv(e) ==
    /\ Reading(e)
    /\ LET n == UpTo(buf[e]) - Len(buf[e])
       IN /\ Ready(e, n)
          /\ \E r \in Received(e, n) :
               \/ pc[e] = "init" /\ RecvSessInit(e, buf[e] \o r.octets, r)
               \/ pc[e] = "up" /\ RecvMessage(e, buf[e] \o r.octets, r)

\* The stream ends before what e waits for has come.
Ended(e) ==
    /\ \/ pc[e] = "contact" /\ AtEnd(e, ContactLen)
       \/ pc[e] = "tls" /\ ~Carried(e)
       \/ Reading(e) /\ AtEnd(e, UpTo(buf[e]) - Len(buf[e]))
    /\ Fails(e, <<>>, <<>>)

-----------------------------------------------------------------------------
(* The rest of the system. *)

\* An established end sends its next message, as one write.
Send(e) ==
    /\ pc[e] = "up" /\ Len(said[e]) < Len(cfg[e].script)
    /\ LET next == cfg[e].script[Len(said[e]) + 1]
       IN /\ stream' = ToPeer(e, Written(next))
          /\ said' = [said EXCEPT ![e] = Append(@, next)]
    /\ UNCHANGED <<cfg, pc, tls, rxBuf, buf, conn, cut, got>>

\* clockTick: the negotiation has taken too long.
TimesOut(e) == Negotiating(e) /\ pc[e] # "hello" /\ Fails(e, <<>>, <<>>)

\* The connection breaks, and of what is under way none, half or all arrives.
Cut ==
    /\ ~cut /\ \E e \in Ends : pc[e] # "failed"
    /\ cut' = TRUE
    /\ \E part \in 0 .. 2 :
         stream' = [e \in Ends |-> SubSeq(stream[e], 1, (Len(stream[e]) * part) \div 2)]
    /\ UNCHANGED <<cfg, pc, tls, rxBuf, buf, conn, said, got>>

AllRead(e) == got[e] = said[Peer(e)] /\ said[e] = cfg[e].script

Over ==
    \/ \A e \in Ends : pc[e] = "failed"
    \/ \A e \in Ends : pc[e] = "up" /\ AllRead(e)
Finished == Over /\ UNCHANGED vars

Steps(e) == ExchangeContact(e) \/ CheckPeer(e) \/ Recv(e) \/ Ended(e)

Next ==
    \/ Hello \/ Handshake \/ Cut \/ Finished
    \/ \E e \in Ends : Steps(e) \/ Send(e) \/ TimesOut(e)

\* What e waits for has come, or cannot come any more: ENABLED Steps(e).
CanStep(e) ==
    \/ pc[e] = "contact" /\ (Ready(e, ContactLen) \/ ~Carried(e))
    \/ pc[e] = "tls" /\ ~Carried(e)
    \/ pc[e] = "checks"
    \/ Reading(e) /\ (Ready(e, UpTo(buf[e]) - Len(buf[e])) \/ ~Carried(e))

\* A receiver thread goes on reading what has arrived, an end of the stream
\* included, and sends what there is to send; a handshake both ends have begun
\* ends somehow.  Nothing is assumed of the clock thread: a peer that goes on,
\* or a connection that breaks, needs no timeout.  For steps this is WF_vars
\* with its ENABLED spelled out, which TLC would not compute in reasonable time.
Spec ==
    /\ Init /\ [][Next]_vars
    /\ WF_vars(Hello) /\ WF_vars(Handshake)
    /\ \A e \in Ends : WF_vars(Send(e))
    /\ \A e \in Ends : []<>~CanStep(e) \/ []<><<Steps(e)>>_vars

-----------------------------------------------------------------------------
(* Properties. *)

\* What e can know of its peer: a certificate, when TLS has been asked to verify
\* one, and the node ID the peer sends in its SESS_INIT.
Verifies(e) == tls[e] /\ ~cfg[e].noVerify
PeerCert(e) == cfg[Peer(e)].cert
PeerClaim(e) == cfg[Peer(e)].init.nodeId
CertNames(e, id) == \E certified \in PeerCert(e).ids : NodeIdMatches(certified, id)

\* A session is protected as both ends' policies say.  An end that requires TLS
\* is never established without it nor one that disables it with it, and the ends
\* agree.  An end that verifies has accepted no certificate that its profile
\* policy excludes, and of a peer that claims a node ID none whose NODE-IDs do not
\* name that node, unless its policy is not to ask, and none without a NODE-ID if
\* its policy requires one.  (Of a peer that claims none, tcpv4negotiate.c:214 asks
\* nothing, though tcpv4cla.pod:111 says -E require ends the session.)  What
\* arrives before the handshake has all been read when it begins: TLS would not
\* see an octet more than it.
SecuredAsConfigured ==
    \A e \in Ends :
        /\ pc[e] = "up" =>
             /\ tls[e] = (\A f \in Ends : cfg[f].tls # "disable")
             /\ cfg[e].tls = "require" => tls[e]
        /\ pc[e] = "up" /\ Verifies(e) =>
             /\ PeerCert(e).maySign
             /\ PeerCert(e).keyPurpose \notin
                  {"wrong"} \cup (IF cfg[e].eku = "require" THEN {"no_bundle"} ELSE {})
        /\ pc[e] = "up" /\ Verifies(e) /\ PeerClaim(e) # <<>> =>
             \/ cfg[e].eid = "none"
             \/ CertNames(e, PeerClaim(e))
             \/ cfg[e].eid = "prefer" /\ PeerCert(e).ids = {}
        /\ pc[e] = "tls" => stream[e] = <<>> /\ rxBuf[e] = <<>>

\* Authentication decides where a session routes.  One that this end accepted
\* routes to a node only if the peer claims that node and its verified certificate
\* names it.  One that this end dialled routes to such a node, or to the one dialled
\* if the peer does not claim to be another.  Of an accepted session under -E none
\* nothing is promised here: it routes on the claim (UnauthenticatedNotRouted).
RoutedIfEntitled ==
    \A e \in Ends : pc[e] = "up" /\ conn[e].routeNodeId # <<>> =>
        LET route == conn[e].routeNodeId
            authentic == Verifies(e) /\ CertNames(e, route) /\ PeerClaim(e) = route
        IN IF e = "active"
           THEN authentic \/ (route = cfg[e].dial
                              /\ (PeerClaim(e) = <<>> \/ NodeIdMatches(PeerClaim(e), route)))
           ELSE cfg[e].eid = "none" \/ authentic

\* "A node ID that was not authenticated is never used to route bundles to the
\* peer", whatever the policy (README.md:154, tcpv4cla.pod:45): a session this end
\* accepted routes nowhere unless the peer's node ID was authenticated.  Violated:
\* under -E none the claim is taken for the node (tcpv4negotiate.c:300).
UnauthenticatedNotRouted ==
    pc["passive"] = "up" /\ conn["passive"].routeNodeId # <<>> =>
        conn["passive"].authenticated

\* The stream is cut into the messages that were sent, in order and whole,
\* whatever reads find there and however far they run ahead; a transfer's
\* length is found in its first segment.
ReadAsSent ==
    \A e \in Ends : IsPrefix(got[e], said[Peer(e)])

\* The two ends never wait for each other: in the end both have failed, or both
\* are established and have read all that the other has sent.
EndsInStep == <>[]Over

===============================================================================
