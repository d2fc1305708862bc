------------------------------- MODULE TcpclMsg -------------------------------
(***************************************************************************)
(* tcpv4msg.c: the octets of a TCPCLv4 message.  Every codec function of   *)
(* that file writes, or reads, the fields of one message in order, so a    *)
(* message type is a layout here (a sequence of fields) and one writer and *)
(* one reader serve them all.  Widths are the code's; an octet has Base    *)
(* values instead of 256, which leaves the widths of numbers as they are   *)
(* and keeps their values within what TLC can count.                       *)
(***************************************************************************)
EXTENDS Integers, SequencesExt, TLC

CONSTANTS
    Base,   \* the number of values of an octet
    Magic   \* TMSG_MAGIC

\* TMSG_*: message types, flags and the one extension item this code knows.
XferSegment == 1
XferAck == 2
XferRefuse == 3
Keepalive == 4
SessTerm == 5
MsgReject == 6
SessInit == 7

FlagEnd == 1
FlagStart == 2
ExtCritical == 1
XferExtLength == 1

Has(flags, bit) == (flags \div bit) % 2 = 1

-----------------------------------------------------------------------------
(* Numbers and counted octets: Writer and Reader. *)

\* wU8 ... wU64: w octets, the most significant one first.
Octets(w, v) == [i \in 1 .. w |-> (v \div Base ^ (w - i)) % Base]

\* rU8 ... rU64
Number(octets) == FoldLeft(LAMBDA n, o : n * Base + o, 0, octets)

\* A field is a number of w octets, or octets behind their number in w octets;
\* a field of START is there only when the flags before it say START.
Num(f, w)        == [name |-> f, width |-> w, counted |-> FALSE, start |-> FALSE]
Counted(f, w)    == [name |-> f, width |-> w, counted |-> TRUE, start |-> FALSE]
StartCounted(f, w) == [name |-> f, width |-> w, counted |-> TRUE, start |-> TRUE]

Layout ==
    [t \in XferSegment .. SessInit |->
      CASE t = XferSegment -> <<Num("flags", 1), Num("transferId", 8),
                                StartCounted("xferExt", 4), Num("dataLength", 8)>>
        [] t = XferAck     -> <<Num("flags", 1), Num("transferId", 8),
                                Num("ackLength", 8)>>
        [] t = XferRefuse  -> <<Num("reason", 1), Num("transferId", 8)>>
        [] t = Keepalive   -> <<>>
        [] t = SessTerm    -> <<Num("flags", 1), Num("reason", 1)>>
        [] t = MsgReject   -> <<Num("reason", 1), Num("rejectedType", 1)>>
        [] t = SessInit    -> <<Num("keepalive", 2), Num("segmentMru", 8),
                                Num("transferMru", 8), Counted("nodeId", 2),
                                Counted("sessExt", 4)>>]

Present(field, m) == field.start => Has(m.flags, FlagStart)

\* Mutant of FieldOctets: a count one too large.
FieldOctetsMiscounted(field, m) ==
    IF ~Present(field, m) THEN <<>>
    ELSE IF field.counted
         THEN Octets(field.width, Len(m[field.name]) + 1) \o m[field.name]
         ELSE Octets(field.width, m[field.name])

FieldOctets(field, m) ==
    IF ~Present(field, m) THEN <<>>
    ELSE IF field.counted
         THEN Octets(field.width, Len(m[field.name])) \o m[field.name]
         ELSE Octets(field.width, m[field.name])

\* tcpv4MsgEncode*
Encode(t, m) ==
    <<t>> \o FlattenSeq([i \in DOMAIN Layout[t] |-> FieldOctets(Layout[t][i], m)])

\* The reader: the octets taken so far, whether there were enough of them, and
\* the fields they spell.  Once it underflows it reads nothing more.
ReadField(buf, r, field) ==
    LET valueAt == r.off + field.width
        number == Number(SubSeq(buf, r.off + 1, valueAt))
        end == IF field.counted THEN valueAt + number ELSE valueAt
    IN CASE ~r.ok -> r
         [] r.ok /\ ~Present(field, r.m) -> r
         [] r.ok /\ Present(field, r.m) /\ (valueAt > Len(buf) \/ end > Len(buf)) ->
               [r EXCEPT !.ok = FALSE]
         [] OTHER ->
               [off |-> end, ok |-> TRUE,
                m |-> (field.name :> IF field.counted
                                     THEN SubSeq(buf, valueAt + 1, end)
                                     ELSE number) @@ r.m]

\* tcpv4MsgDecode*: how many octets the message takes, 0 when it needs more
\* than there are, -1 when it is another message.
Decode(t, buf) ==
    LET r == FoldLeft(LAMBDA acc, field : ReadField(buf, acc, field),
                      [off |-> 1, ok |-> TRUE, m |-> <<>>], Layout[t])
    IN CASE buf = <<>> -> [n |-> 0, m |-> <<>>]
         [] buf # <<>> /\ buf[1] # t -> [n |-> -1, m |-> <<>>]
         [] OTHER -> IF r.ok THEN [n |-> r.off, m |-> r.m]
                             ELSE [n |-> 0, m |-> <<>>]

-----------------------------------------------------------------------------
(* The contact header. *)

EncodeContact(magic, version, canTls) == magic \o <<version, IF canTls THEN 1 ELSE 0>>

ContactLen == Len(Magic) + 2

\* tcpv4MsgDecodeContact of ContactLen octets; not ok when the magic is wrong.
DecodeContact(buf) ==
    [ok |-> SubSeq(buf, 1, Len(Magic)) = Magic,
     version |-> buf[Len(Magic) + 1],
     canTls |-> Has(buf[Len(Magic) + 2], 1)]

-----------------------------------------------------------------------------
(* Extension items. *)

ExtHdrLen == 5

EncodeExtItem(flags, type, value) ==
    <<flags>> \o Octets(2, type) \o Octets(2, Len(value)) \o value

EncodeXferLengthExt(length) == EncodeExtItem(0, XferExtLength, Octets(8, length))

\* An item that runs past the end of the list.
Malformed == [flags |-> ExtCritical, type |-> -1, value |-> <<>>]

\* tcpv4MsgNextExtItem until the list ends: its items in order, Malformed last
\* where the list does not end with an item.
ExtItems(list) ==
    LET from[off \in 0 .. Len(list)] ==
          LET hdr == off + ExtHdrLen
              end == hdr + Number(SubSeq(list, off + 4, off + 5))
          IN CASE off = Len(list) -> <<>>
               [] off < Len(list) /\ (hdr > Len(list) \/ end > Len(list)) -> <<Malformed>>
               [] OTHER -> <<[flags |-> list[off + 1],
                              type |-> Number(SubSeq(list, off + 2, off + 3)),
                              value |-> SubSeq(list, hdr + 1, end)]>> \o from[end]
    IN from[0]

\* An item that must be understood - none is - or a list that is malformed.
HasCriticalExt(list) == \E i \in DOMAIN ExtItems(list) :
                            Has(ExtItems(list)[i].flags, ExtCritical)

\* tcpv4MsgFindXferLength: the length the first such item gives, or none.
FindXferLength(list) ==
    LET lengths == SelectSeq(ExtItems(list), LAMBDA item :
                       item.type = XferExtLength /\ Len(item.value) = 8)
    IN IF lengths = <<>> THEN {} ELSE {Number(Head(lengths).value)}
===============================================================================
