------------------------------ MODULE MailCodec ------------------------------
(***************************************************************************)
(* mailmsg.c: bundles framed into the text of a mail message, and found    *)
(* again in it.  A text is a sequence of items: octets 0..255, base64      *)
(* characters (Char + sextet, Pad), and the strings the framing consists   *)
(* of, one item each.                                                      *)
(***************************************************************************)
EXTENDS Integers, Sequences, SequencesExt

Char == 1000      \* Char + n is the n-th character of the base64 alphabet
Pad == 2000       \* '='
Crlf == -1        \* line end
Separator == -2   \* the line MAIL_SEPARATOR
Delim == -3       \* "--" and the multipart boundary
Dashes == -4      \* "--" behind the closing delimiter
HeadersEnd == -5  \* headers of the message or of a part, up to the empty line

-----------------------------------------------------------------------------
(* Base64. *)

\* Three octets are four characters; what is left at the end is padded.
Quad(in, i) ==
    LET left == Len(in) - i + 1
        octet(k) == IF k <= left THEN in[i + k - 1] ELSE 0
        v == octet(1) * 65536 + octet(2) * 256 + octet(3)
        chars == <<v \div 262144, (v \div 4096) % 64, (v \div 64) % 64, v % 64>>
    IN [k \in 1 .. 4 |-> IF k <= left + 1 THEN Char + chars[k] ELSE Pad]

B64Encode(in) ==
    FlattenSeq([q \in 1 .. ((Len(in) + 2) \div 3) |-> Quad(in, 3 * q - 2)])

IsChar(c) == c \in Char .. Char + 63
Blank(c) == c = Crlf

\* The characters up to the padding, blanks left out.
B64Chars(text) ==
    LET pads == {i \in 1 .. Len(text) : text[i] = Pad}
        n == IF pads = {} THEN Len(text)
             ELSE (CHOOSE i \in pads : \A j \in pads : i <= j) - 1
    IN SelectSeq(SubSeq(text, 1, n), LAMBDA c : ~Blank(c))

\* Six bits a character, an octet whenever there are eight: octet j lies in two
\* neighbouring characters.  Any other character spoils the text.
Octet(cs, j) ==
    LET k == (8 * j) \div 6
        two == (cs[k + 1] - Char) * 64 + (cs[k + 2] - Char)
    IN (two \div 2 ^ (4 - ((8 * j) % 6))) % 256
B64Decode(cs) ==
    IF \A i \in 1 .. Len(cs) : IsChar(cs[i])
    THEN [j \in 1 .. ((6 * Len(cs)) \div 8) |-> Octet(cs, j - 1)]
    ELSE <<>>

-----------------------------------------------------------------------------
(* mailBuildMessage. *)

\* Base64 in lines (of one length here).
Lines(body) == Append(B64Encode(body), Crlf)

BuildAttach(bodies) ==
    <<HeadersEnd>>
    \o FlattenSeq([i \in 1 .. Len(bodies) |->
          <<Delim, HeadersEnd>> \o Lines(bodies[i])])
    \o <<Delim, Dashes, Crlf>>

BuildBody(bodies, b64) ==
    <<HeadersEnd>>
    \o FlattenSeq([i \in 1 .. Len(bodies) |->
          (IF i > 1 THEN <<Crlf, Separator, Crlf>> ELSE <<>>)
          \o (IF b64 THEN Lines(bodies[i]) ELSE bodies[i])])

BuildMessage(enc, bodies) ==
    IF enc = "attach" THEN BuildAttach(bodies) ELSE BuildBody(bodies, enc = "b64")

-----------------------------------------------------------------------------
(* mailParseMessage: the bodies found, in order. *)

\* memfind: the first place of an item from i on; past the end when there is none.
Find(text, item, i) ==
    LET at == {k \in i .. Len(text) : text[k] = item}
    IN IF at = {} THEN Len(text) + 1 ELSE CHOOSE k \in at : \A j \in at : k <= j

BodyStart(text) ==
    LET h == Find(text, HeadersEnd, 1) IN IF h > Len(text) THEN 1 ELSE h + 1

\* deliverB64: what is not base64, or decodes to nothing, is no bundle.
DeliverB64(chunk) ==
    LET d == B64Decode(B64Chars(chunk)) IN IF d = <<>> THEN <<>> ELSE <<d>>

Trim(chunk) ==
    IF chunk # <<>> /\ Last(chunk) = Crlf THEN Front(chunk) ELSE chunk
TrimFront(chunk) ==
    IF chunk # <<>> /\ Head(chunk) = Crlf THEN Tail(chunk) ELSE chunk

\* A part runs from its delimiter to the next one; the last one has "--" after it.
ParseAttach(text) ==
    LET body == BodyStart(text)
        delims == {k \in body .. Len(text) : text[k] = Delim}
        starts == SetToSortSeq({k \in delims :
                     /\ k + 1 < Find(text, Dashes, body)
                     /\ Find(text, HeadersEnd, k) <= Len(text)
                     /\ Find(text, Delim, Find(text, HeadersEnd, k)) <= Len(text)},
                     LAMBDA a, b : a < b)
        part(k) == LET h == Find(text, HeadersEnd, k)
                   IN SubSeq(text, h + 1, Find(text, Delim, h) - 1)
    IN FlattenSeq([i \in 1 .. Len(starts) |-> DeliverB64(Trim(part(starts[i])))])

\* A chunk without the line ends that came with the separators.
Chunk(text, from, to, first, last) ==
    LET c == SubSeq(text, from, to)
        d == IF first THEN c ELSE TrimFront(c)
    IN IF last THEN d ELSE Trim(d)

ParseBody(text, b64) ==
    LET seps == SetToSortSeq({k \in BodyStart(text) .. Len(text) :
                                 text[k] = Separator}, LAMBDA a, b : a < b)
        n == Len(seps)
        chunk(i) == Chunk(text, IF i = 1 THEN BodyStart(text) ELSE seps[i - 1] + 1,
                          IF i = n + 1 THEN Len(text) ELSE seps[i] - 1,
                          i = 1, i = n + 1)
        found(c) == IF b64 THEN DeliverB64(c)
                    ELSE IF c = <<>> THEN <<>> ELSE <<c>>
    IN FlattenSeq([i \in 1 .. n + 1 |-> found(chunk(i))])

ParseMessage(enc, text) ==
    IF enc = "attach" THEN ParseAttach(text) ELSE ParseBody(text, enc = "b64")
=============================================================================
