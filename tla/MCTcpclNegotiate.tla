--------------------------- MODULE MCTcpclNegotiate ---------------------------
(***************************************************************************)
(* Two ends that differ from a common configuration in one or two respects *)
(* at a time.                                                              *)
(***************************************************************************)
EXTENDS TcpclNegotiate

\* Node IDs: two spellings of node 1, one of node 2, and one that is no URI.
Id1 == <<1>>
Id1Long == <<1, 0>>
Id2 == <<2>>
NotUri == <<7>>
MCNodeOf == Id1 :> 1 @@ Id1Long :> 1 @@ Id2 :> 2
MCMagic == <<5, 6, 7, 1>>

Cert(ids) == [maySign |-> TRUE, keyPurpose |-> "ok", ids |-> ids]
InitMsg(id) == [keepalive |-> 3, segmentMru |-> 5, transferMru |-> 9,
                nodeId |-> id, sessExt |-> <<>>]
Msg(t, fields) == [type |-> t, m |-> fields, data |-> <<>>, total |-> {}]
\* A transfer in two segments, and the answers to one.
Transfer ==
    <<[type |-> XferSegment, data |-> <<6, 5>>, total |-> {4},
       m |-> [flags |-> FlagStart, transferId |-> 0, dataLength |-> 2,
              xferExt |-> EncodeXferLengthExt(4)]],
      [type |-> XferSegment, data |-> <<1, 1>>, total |-> {},
       m |-> [flags |-> FlagEnd, transferId |-> 0, dataLength |-> 2]]>>
Answers ==
    <<Msg(XferAck, [flags |-> FlagEnd, transferId |-> 9, ackLength |-> 12]),
      Msg(Keepalive, <<>>),
      Msg(XferRefuse, [reason |-> 2, transferId |-> 10])>>
Bare ==
    <<[type |-> XferSegment, data |-> <<>>, total |-> {},
       m |-> [flags |-> FlagStart + FlagEnd, transferId |-> 1, dataLength |-> 0,
              xferExt |-> <<>>]],
      Msg(SessTerm, [flags |-> 0, reason |-> 1]),
      Msg(MsgReject, [reason |-> 1, rejectedType |-> 5])>>
Long == <<[type |-> XferSegment, data |-> <<>>, total |-> {},
           m |-> [flags |-> FlagStart, transferId |-> 1, dataLength |-> 0,
                  xferExt |-> [i \in 1 .. MaxExt + 1 |-> 0]]]>>

Common(id) ==
    [tls |-> "prefer", eid |-> "prefer", eku |-> "prefer", noVerify |-> FALSE,
     magic |-> Magic, version |-> 4, busy |-> FALSE, early |-> FALSE,
     init |-> InitMsg(id), cert |-> Cert({id}), dial |-> Id2, script |-> <<>>]
Pair(a, p) == [e \in Ends |-> IF e = "active" THEN a ELSE p]
A == Common(Id1)
P == Common(Id2)

\* The TLS policies of both ends.
TlsPairs ==
    {Pair([A EXCEPT !.tls = s], [P EXCEPT !.tls = t]) :
        s, t \in {"require", "prefer", "disable"}}
\* What a certificate says of its holder, what is made of it, and what the
\* holder claims.
IdPairs ==
    {Pair([A EXCEPT !.eid = s, !.noVerify = n, !.tls = t],
          [P EXCEPT !.eid = s, !.init.nodeId = id, !.cert.ids = ids]) :
        s \in {"require", "prefer", "none"}, n \in BOOLEAN,
        t \in {"prefer", "disable"},
        id \in {<<>>, Id2, Id1Long}, ids \in {{}, {Id1}, {Id2, Id1}}}
ProfilePairs ==
    {Pair([A EXCEPT !.eku = s, !.noVerify = n],
          [P EXCEPT !.cert.maySign = m, !.cert.keyPurpose = k]) :
        s \in {"require", "none"}, n \in BOOLEAN, m \in BOOLEAN,
        k \in {"wrong", "no_bundle", "absent"}}
\* Peers of another kind, or at odds with the protocol.
OtherPairs ==
    {Pair([A EXCEPT !.version = 3], P), Pair([A EXCEPT !.magic = <<5, 5, 5, 5>>], P),
     Pair(A, [P EXCEPT !.busy = TRUE]), Pair([A EXCEPT !.early = TRUE], P),
     Pair([A EXCEPT !.init.segmentMru = 0], P), Pair([A EXCEPT !.init.keepalive = 1], P),
     Pair([A EXCEPT !.init.nodeId = NotUri], P),
     Pair([A EXCEPT !.init.nodeId = [i \in 1 .. MaxNodeId |-> 1]], P),
     Pair(A, [P EXCEPT !.init.sessExt = EncodeExtItem(1, 5, <<>>)]),
     Pair(A, [P EXCEPT !.init.sessExt = EncodeExtItem(0, 5, <<2>>)]),
     Pair(A, [P EXCEPT !.init.sessExt = <<0, 0, 1>>]),
     Pair(A, [P EXCEPT !.init.sessExt = [i \in 1 .. MaxExt + 1 |-> 0]])}
Talks ==
    {Pair([A EXCEPT !.script = s, !.tls = x, !.init.transferMru = 8],
          [P EXCEPT !.script = t, !.init.segmentMru = 70]) :
        s \in {Transfer, Bare}, t \in {<<>>, Answers}, x \in {"prefer", "disable"}}
    \cup {Pair([A EXCEPT !.script = <<Msg(t, <<>>)>>], P) : t \in {0}}
    \cup {Pair([A EXCEPT !.script = Long], P)}
    \cup {Pair([A EXCEPT !.script = <<Msg(SessInit, InitMsg(Id1))>>], P)}

MCConfigs == TlsPairs \cup IdPairs \cup ProfilePairs \cup OtherPairs \cup Talks
===============================================================================
