-------------------------------- MODULE ZclRx --------------------------------
(***************************************************************************)
(* zcli, the input side of the compressing tunnel: carriers arrive in any  *)
(* order, late, repeatedly or not at all; per sender (stream) they are     *)
(* buffered and decoded in order, chunk by chunk.  A gap is given up once  *)
(* the carrier behind it has waited the reorder timeout.                   *)
(*                                                                         *)
(* zcli is a single thread.  A call of zclRxCarrier or zclRxTick is spelt  *)
(* out into the rounds of settle; time is reduced to whether a buffered    *)
(* carrier has waited the timeout.  The limit on buffered octets is the    *)
(* same test as the one on carriers, and is left out.                      *)
(***************************************************************************)
EXTENDS ListOps

CONSTANTS
    Streams,     \* stream ids
    MaxStreams,  \* limits.maxStreams
    MaxBuf       \* limits.maxCarriers

ASSUME ZclRxAssumption == MaxStreams \in Nat \ {0} /\ MaxBuf \in Nat

VARIABLES
    rx,        \* rx[s]: the ZclStream of stream id s
    lru,       \* the streams in use, the least recently used first
    settling,  \* the streams the call under way has still to settle
    emitted    \* history: per stream, the records handed to BP since it was
               \* created

zclRxVars == <<rx, lru, settling, emitted>>

\* A stream as findStream creates it.  fed counts the carriers of chunk cur the
\* decompressor has seen since it was reset.
NewStream == [synced |-> FALSE, cur |-> 0, next |-> 0, haveDone |-> FALSE,
              done |-> 0, fed |-> 0, buf |-> {}]

ZclRxInit ==
    /\ rx = [s \in Streams |-> NewStream]
    /\ lru = <<>>
    /\ settling = {}
    /\ emitted = [s \in Streams |-> <<>>]

-----------------------------------------------------------------------------
(* The reorder buffer, sorted by chunk and position. *)

Before(p, q) == p.chunk < q.chunk \/ (p.chunk = q.chunk /\ p.seq < q.seq)
First(S)     == CHOOSE p \in S : \A q \in S \ {p} : Before(p, q)
Starts(x)    == {p \in x.buf : p.seq = 0}
Overfull(x)  == Cardinality(x.buf) > MaxBuf

DropBelow(buf, chunk) == {p \in buf : p.chunk >= chunk}

\* Mutant of ResetChunk: the decompressor goes on with the old frame.
KeepFrame(x) == x

\* resetChunk: the decompressor forgets the frame.
ResetChunk(x) == [x EXCEPT !.fed = 0]

\* endChunk: the current chunk is over, and what is buffered of it goes too.
EndChunk(x) ==
    ResetChunk([x EXCEPT !.synced = FALSE, !.haveDone = TRUE, !.done = x.cur,
                         !.buf = DropBelow(@, x.cur + 1)])

SyncTo(x, chunk) ==
    ResetChunk([x EXCEPT !.synced = TRUE, !.cur = chunk, !.next = 0,
                         !.buf = DropBelow(@, chunk)])

\* The chunk to begin at once: the one after the last, or chunk 0 of a stream
\* not seen before.
NextChunk(x) == IF x.haveDone THEN x.done + 1 ELSE 0

CanSync(x) ==
    /\ ~x.synced
    /\ Starts(x) # {}
    /\ First(Starts(x)).chunk = NextChunk(x)

CanDecode(x) ==
    /\ x.synced
    /\ x.buf # {}
    /\ First(x.buf).chunk = x.cur /\ First(x.buf).seq = x.next

\* Mutant of GapLasted: a gap is only given up when the buffer is full.
GapFull(x) == Overfull(x)

\* The carrier behind the gap has waited the reorder timeout.
GapLasted(x) == Overfull(x) \/ First(x.buf).old

-----------------------------------------------------------------------------
(* Rounds of settle. *)

DrainSync(s) ==
    /\ s \in settling
    /\ CanSync(rx[s])
    /\ rx' = [rx EXCEPT ![s] = SyncTo(@, First(Starts(@)).chunk)]
    /\ UNCHANGED <<lru, settling, emitted>>

\* Records of carrier p, as emitted by a decompressor that has seen fed carriers
\* of the chunk: what it makes of a carrier out of place is not what was sent.
Decoded(x, p) ==
    [i \in 1 .. Len(p.recs) |->
        [chunk |-> p.chunk, seq |-> p.seq, pos |-> i, rec |-> p.recs[i],
         sound |-> x.fed = p.seq]]

\* decodeCarrier succeeds.
DrainDecode(s) ==
    /\ s \in settling
    /\ CanDecode(rx[s])
    /\ LET x == rx[s]
           p == First(x.buf)
           y == [x EXCEPT !.buf = @ \ {p}, !.fed = @ + 1] IN
       /\ emitted' = [emitted EXCEPT ![s] = @ \o Decoded(x, p)]
       /\ rx' = [rx EXCEPT ![s] = IF p.end THEN EndChunk(y)
                                           ELSE [y EXCEPT !.next = @ + 1]]
    /\ UNCHANGED <<lru, settling>>

\* The chunk is corrupt or exceeds a limit, after some records were emitted.
DrainCorrupt(s) ==
    /\ s \in settling
    /\ CanDecode(rx[s])
    /\ LET x == rx[s]
           p == First(x.buf) IN
       /\ \E n \in 0 .. Len(p.recs) :
             emitted' = [emitted EXCEPT ![s] = @ \o SubSeq(Decoded(x, p), 1, n)]
       /\ rx' = [rx EXCEPT ![s] = EndChunk([x EXCEPT !.buf = @ \ {p}])]
    /\ UNCHANGED <<lru, settling>>

\* resolveGap
GapResolved(x) ==
    CASE x.synced -> EndChunk(x)
      [] ~x.synced /\ Starts(x) # {} -> SyncTo(x, First(Starts(x)).chunk)
      [] OTHER -> [x EXCEPT !.haveDone = TRUE, !.done = First(x.buf).chunk,
                            !.buf = DropBelow(@, First(x.buf).chunk + 1)]

Stuck(x) == x.buf # {} /\ ~CanSync(x) /\ ~CanDecode(x)

ResolveGap(s) ==
    /\ s \in settling
    /\ Stuck(rx[s]) /\ GapLasted(rx[s])
    /\ rx' = [rx EXCEPT ![s] = GapResolved(@)]
    /\ UNCHANGED <<lru, settling, emitted>>

Settled(s) ==
    /\ s \in settling
    /\ rx[s].buf = {} \/ (Stuck(rx[s]) /\ ~GapLasted(rx[s]))
    /\ settling' = settling \ {s}
    /\ UNCHANGED <<rx, lru, emitted>>

-----------------------------------------------------------------------------
(* zclRxCarrier, zclRxTick *)

InUse == ToSet(lru)

\* findStream: a new stream takes the place of the least recently used one.
Victims(s) == IF s \notin InUse /\ Len(lru) = MaxStreams THEN {Head(lru)} ELSE {}

\* Mutant of Stale: a carrier of a chunk already given up is taken.
StaleIfDecoded(x, c) == x.synced /\ c.chunk = x.cur /\ c.seq < x.next

Stale(x, c) ==
    \/ x.haveDone /\ c.chunk <= x.done
    \/ x.synced /\ c.chunk = x.cur /\ c.seq < x.next
    \/ x.synced /\ c.chunk < x.cur

Buffered(x, c) == \E p \in x.buf : p.chunk = c.chunk /\ p.seq = c.seq

\* A carrier of stream s arrives; a malformed one has no effect at all.
RxCarrier(s, c) ==
    /\ settling = {}
    /\ LET was == [rx EXCEPT ![s] = IF s \in InUse THEN @ ELSE NewStream]
           x   == was[s]
           p   == [chunk |-> c.chunk, seq |-> c.seq, end |-> c.end,
                   recs |-> c.recs, old |-> FALSE]
           gone(v) == v \in Victims(s) IN
       /\ emitted' = [t \in Streams |-> IF gone(t) THEN <<>> ELSE emitted[t]]
       /\ lru' = Append(Without(lru, Victims(s) \cup {s}), s)
       /\ IF Stale(x, c) \/ Buffered(x, c)
             THEN /\ rx' = [t \in Streams |-> IF gone(t) THEN NewStream ELSE was[t]]
                  /\ UNCHANGED settling
             ELSE /\ rx' = [t \in Streams |->
                              IF gone(t) THEN NewStream
                              ELSE IF t = s THEN [x EXCEPT !.buf = @ \cup {p}]
                              ELSE was[t]]
                  /\ settling' = {s}

\* No memory: for the stream, after room was made for it, or for the carrier.
RxNoMemory(s) ==
    /\ settling = {}
    /\ Victims(s) # {}
    /\ lru' = Tail(lru)
    /\ rx' = [rx EXCEPT ![Head(lru)] = NewStream]
    /\ emitted' = [emitted EXCEPT ![Head(lru)] = <<>>]
    /\ UNCHANGED settling

\* Each second without a carrier; only a stream with something buffered is
\* affected.
RxTick ==
    /\ settling = {}
    /\ settling' = {s \in InUse : rx[s].buf # {}}
    /\ UNCHANGED <<rx, lru, emitted>>

\* The reorder timeout passes for what is buffered.
Elapse ==
    /\ settling = {}
    /\ rx' = [s \in Streams |->
                 [rx[s] EXCEPT !.buf = {[p EXCEPT !.old = TRUE] : p \in @}]]
    /\ UNCHANGED <<lru, settling, emitted>>

\* zcli ends and is started again: nothing is remembered.
RxRestart ==
    /\ settling = {} /\ lru # <<>>
    /\ rx' = [s \in Streams |-> NewStream]
    /\ lru' = <<>>
    /\ emitted' = [s \in Streams |-> <<>>]
    /\ UNCHANGED settling

Settle == \E s \in Streams : \/ DrainSync(s) \/ DrainDecode(s) \/ DrainCorrupt(s)
                             \/ ResolveGap(s) \/ Settled(s)

-----------------------------------------------------------------------------
(* Properties. *)

\* BP gets the records of a stream in the order they were compressed and each at
\* most once, whatever arrives late or twice, as long as zcli keeps
\* running and the stream is not evicted.
InOrderOnce ==
    \A s \in Streams : \A i, j \in DOMAIN emitted[s] :
        i < j => LET d == emitted[s][i]
                     e == emitted[s][j] IN
                 Before(d, e) \/ (d.chunk = e.chunk /\ d.seq = e.seq
                                  /\ d.pos < e.pos)

\* No carrier is given to a decompressor that has not seen the chunk from its
\* start.
DecodedFromStart ==
    \A s \in Streams : \A i \in DOMAIN emitted[s] : emitted[s][i].sound
=============================================================================
