------------------------------ MODULE ZclProofs ------------------------------
(***************************************************************************)
(* Proofs about the compressing tunnel (ZclTunnel), for any bundles, any   *)
(* number of carriers and runs of zclo, any limits of zcli, and a network  *)
(* that loses, repeats and reorders carriers at will.                      *)
(***************************************************************************)
EXTENDS ZclTunnel, ListFacts

USE DEF encVars, flushVars

-----------------------------------------------------------------------------
(* The inductive invariant of zclo. *)

Carriers == [stream : 1 .. MaxRuns, chunk : Nat, seq : Nat, end : BOOLEAN,
             recs : Seq(Bundles)]

TxTypeOK ==
    /\ stream \in 1 .. MaxRuns
    /\ chunkId \in Nat /\ seq \in Nat /\ chunkIn \in Nat
    /\ outBuf \in Seq(Bundles) /\ zcos \in Seq(Bundles) /\ taken \in Seq(Bundles)
    /\ given \in [Threads -> Seq(Bundles)]
    /\ hand \in Bundles \cup {NoBundle}
    /\ mpc \in {"dequeue", "add", "abandon", "fail", "join", "ended"}
    /\ fpc \in {"loop", "send", "abandon", "settle", "exited"}
    /\ atBp \subseteq Bundles /\ settled \subseteq Bundles
    /\ fpc = "send" => carrier \in Carriers
    /\ net \subseteq Carriers

\* Where the two threads are says what they have in hand; the list and the chunk's
\* output fill and empty together, so none is left when the flush thread exits.
TxHandsOK ==
    /\ hand # NoBundle <=> mpc \in {"add", "abandon", "fail"}
    /\ given["main"] # <<>> => mpc = "abandon"
    /\ given["flush"] # <<>> => fpc = "abandon"
    /\ taken # <<>> => fpc \in {"send", "abandon", "settle"}
    /\ zcos = outBuf
    /\ shutdown <=> mpc \in {"join", "ended"}
    /\ last => shutdown /\ outBuf = <<>>
    /\ fpc = "exited" => shutdown /\ outBuf = <<>>
    /\ mpc = "ended" => fpc = "exited"

TxInv == TxTypeOK /\ TxHandsOK /\ ZclCustody

-----------------------------------------------------------------------------
(* The inductive invariant of zcli, stream by stream. *)

Packets == [chunk : Nat, seq : Nat, end : BOOLEAN, recs : Seq(Bundles), old : BOOLEAN]
StreamRecords ==
    [synced : BOOLEAN, cur : Nat, next : Nat, haveDone : BOOLEAN, done : Nat, fed : Nat,
     buf : SUBSET Packets]
Records == [chunk : Nat, seq : Nat, pos : Nat, rec : Bundles, sound : BOOLEAN]

\* What has been emitted of a stream, es, is in order and sound.
LogOK(es) ==
    /\ es \in Seq(Records)
    /\ \A i, j \in DOMAIN es :
          i < j => \/ Before(es[i], es[j])
                   \/ es[i].chunk = es[j].chunk /\ es[i].seq = es[j].seq /\ es[i].pos < es[j].pos
    /\ \A i \in DOMAIN es : es[i].sound

\* The stream is past record e: it will not come to it again.
Passed(x, e) ==
    IF x.synced THEN e.chunk < x.cur \/ (e.chunk = x.cur /\ e.seq < x.next)
                ELSE x.haveDone /\ e.chunk <= x.done

\* No two carriers of the buffer have the same place in the stream.
KeysOK(buf) == \A p, q \in buf : p.chunk = q.chunk /\ p.seq = q.seq => p = q

\* What is buffered is still to come.
BufferOK(x) ==
    /\ KeysOK(x.buf)
    /\ x.haveDone => \A p \in x.buf : x.done < p.chunk
    /\ x.synced => \A p \in x.buf : x.cur <= p.chunk
    /\ x.synced /\ x.haveDone => x.done < x.cur

StreamOK(x, es) ==
    /\ x \in StreamRecords /\ LogOK(es)
    /\ BufferOK(x)
    /\ x.synced => x.fed = x.next
    /\ \A i \in DOMAIN es : Passed(x, es[i])

\* A stream that is not in use has emitted nothing; only one that is in use is settled.
UseOK ==
    /\ lru \in Seq(Streams) /\ settling \subseteq InUse
    /\ \A s \in Streams : s \notin InUse => emitted[s] = <<>>

RxInv ==
    /\ rx \in [Streams -> StreamRecords] /\ emitted \in [Streams -> Seq(Records)]
    /\ \A s \in Streams : StreamOK(rx[s], emitted[s])
    /\ UseOK

TunnelInv == TxInv /\ RxInv

-----------------------------------------------------------------------------
(* zclo. *)

LEMMA TxInit == ZclTxInit => TxInv
<1> SUFFICES ASSUME ZclTxInit PROVE TxInv
  OBVIOUS
<1>1. TxTypeOK /\ TxHandsOK
  <2>1. stream \in 1 .. MaxRuns
    BY ZclTxAssumption DEF ZclTxInit
  <2>2. given \in [Threads -> Seq(Bundles)] /\ given["main"] = <<>> /\ given["flush"] = <<>>
    BY DEF ZclTxInit, Threads
  <2> QED
    BY <2>1, <2>2 DEF ZclTxInit, EncInit, TxTypeOK, TxHandsOK
<1>2. ASSUME NEW b \in Bundles PROVE Holds(b) = 1
  <2>1. given["main"] = <<>> /\ given["flush"] = <<>>
    BY DEF ZclTxInit, Threads
  <2>2. b # NoBundle
    BY ZclTxAssumption
  <2> QED
    BY <2>1, <2>2, TimesEmpty DEF ZclTxInit, Holds
<1> QED
  BY <1>1, <1>2 DEF TxInv, ZclCustody

\* What the lists hold, in numbers.
LEMMA TxNumbers ==
    ASSUME TxInv, NEW b \in Bundles
    PROVE  /\ Times(zcos, b) \in Nat /\ Times(taken, b) \in Nat
           /\ Times(given["main"], b) \in Nat /\ Times(given["flush"], b) \in Nat
           /\ Holds(b) = 1 /\ b # NoBundle
<1>1. /\ zcos \in Seq(Bundles) /\ taken \in Seq(Bundles)
      /\ given["main"] \in Seq(Bundles) /\ given["flush"] \in Seq(Bundles)
  BY DEF TxInv, TxTypeOK, Threads
<1> QED
  BY <1>1, TimesFacts, ZclTxAssumption DEF TxInv, ZclCustody

LEMMA MainKeeps == ASSUME TxInv, Main PROVE TxInv'
<1> USE DEF TxInv
<1>0. /\ zcos \in Seq(Bundles) /\ hand \in Bundles \cup {NoBundle}
      /\ given["main"] \in Seq(Bundles) /\ given \in [Threads -> Seq(Bundles)]
      /\ "main" \in Threads /\ "flush" \in Threads
  BY DEF TxTypeOK, Threads
<1>1. CASE \E b \in Bundles : MainDequeue(b)
  <2>1. PICK a \in Bundles : MainDequeue(a)
    BY <1>1
  <2>2. TxTypeOK' /\ TxHandsOK'
    <3>1. a # NoBundle
      BY ZclTxAssumption
    <3> QED
      BY <2>1, <3>1 DEF MainDequeue, TxTypeOK, TxHandsOK
  <2>3. ASSUME NEW b \in Bundles PROVE Holds(b)' = 1
    <3>1. hand = NoBundle /\ a \in atBp
      BY <2>1 DEF MainDequeue, TxHandsOK
    <3> QED
      BY <2>1, <3>1, TxNumbers DEF MainDequeue, Holds
  <2> QED
    BY <2>2, <2>3 DEF ZclCustody
<1>2. CASE MainAdd
  <2>1. hand \in Bundles
    BY <1>0, <1>2 DEF MainAdd, TxHandsOK
  <2>2. TxTypeOK' /\ TxHandsOK'
    <3>1. Append(outBuf, hand) = Append(zcos, hand) /\ Append(zcos, hand) \in Seq(Bundles)
      BY <1>0, <2>1 DEF TxHandsOK
    <3>2. chunkIn + 1 \in Nat
      BY DEF TxTypeOK
    <3>3. ~shutdown
      BY <1>2 DEF MainAdd, TxHandsOK
    <3> QED
      BY <1>2, <3>1, <3>2, <3>3 DEF MainAdd, EncAdd, TxTypeOK, TxHandsOK
  <2>3. ASSUME NEW b \in Bundles PROVE Holds(b)' = 1
    <3>1. Times(zcos', b) = Times(zcos, b) + (IF hand = b THEN 1 ELSE 0)
      BY <1>0, <1>2, <2>1, TimesAppend DEF MainAdd
    <3>2. hand' = NoBundle /\ UNCHANGED <<atBp, settled, given, taken>>
      BY <1>2 DEF MainAdd
    <3> QED
      BY <3>1, <3>2, TxNumbers DEF Holds
  <2> QED
    BY <2>2, <2>3 DEF ZclCustody
<1>3. CASE MainAddRefused
  <2>1. TxTypeOK' /\ TxHandsOK'
    BY <1>3 DEF MainAddRefused, TxTypeOK, TxHandsOK
  <2>2. ASSUME NEW b \in Bundles PROVE Holds(b)' = 1
    BY <1>3, TxNumbers DEF MainAddRefused, Holds
  <2> QED
    BY <2>1, <2>2 DEF ZclCustody
<1>4. CASE MainAddAborts
  <2>1. given["main"] = <<>> /\ given'["main"] = zcos /\ given'["flush"] = given["flush"]
    BY <1>0, <1>4 DEF MainAddAborts, AbandonChunk, TxHandsOK
  <2>2. TxTypeOK' /\ TxHandsOK'
    <3>1. chunkId' \in Nat /\ seq' \in Nat /\ chunkIn' \in Nat
      BY <1>4 DEF MainAddAborts, AbandonChunk, EncAbort, ChunkAfterAbort, TxTypeOK
    <3>2. given' \in [Threads -> Seq(Bundles)]
      BY <1>0, <1>4 DEF MainAddAborts, AbandonChunk
    <3>3. zcos' = <<>> /\ outBuf' = <<>> /\ <<>> \in Seq(Bundles)
      BY <1>4 DEF MainAddAborts, AbandonChunk, EncAbort
    <3>4. /\ mpc = "add" /\ mpc' = "abandon"
          /\ UNCHANGED <<stream, shutdown, hand, flushVars, atBp, settled, cuts, net>>
      BY <1>4 DEF MainAddAborts
    <3>5. TxTypeOK'
      BY <3>1, <3>2, <3>3, <3>4 DEF TxTypeOK
    <3>6. TxHandsOK'
      BY <2>1, <3>3, <3>4 DEF TxHandsOK
    <3> QED
      BY <3>5, <3>6
  <2>3. ASSUME NEW b \in Bundles PROVE Holds(b)' = 1
    <3>1. zcos' = <<>> /\ UNCHANGED <<hand, taken, atBp, settled>>
      BY <1>4 DEF MainAddAborts, AbandonChunk
    <3> QED
      BY <2>1, <3>1, TimesEmpty, TxNumbers DEF Holds
  <2> QED
    BY <2>2, <2>3 DEF ZclCustody
<1>5. CASE MainAbandoned
  <2>1. /\ given'["main"] = <<>> /\ given'["flush"] = given["flush"]
        /\ given' \in [Threads -> Seq(Bundles)]
        /\ atBp' = atBp \cup ToSet(given["main"])
        /\ UNCHANGED <<zcos, taken, hand, settled, outBuf>>
        /\ ToSet(given["main"]) \subseteq Bundles
    BY <1>0, <1>5 DEF MainAbandoned, HandBack, ToSet
  <2>2. TxTypeOK' /\ TxHandsOK'
    BY <1>5, <2>1 DEF MainAbandoned, TxTypeOK, TxHandsOK
  <2>3. ASSUME NEW b \in Bundles PROVE Holds(b)' = 1
    <3>1. (IF b \in atBp THEN 1 ELSE 0) + Times(given["main"], b) <= 1
      BY TxNumbers DEF Holds
    <3>2. (IF b \in atBp' THEN 1 ELSE 0)
             = (IF b \in atBp THEN 1 ELSE 0) + Times(given["main"], b)
      BY <1>0, <2>1, <3>1, TimesJoin
    <3> QED
      BY <2>1, <3>2, TimesEmpty, TxNumbers DEF Holds
  <2> QED
    BY <2>2, <2>3 DEF ZclCustody
<1>6. CASE MainFail
  <2>1. /\ atBp' = atBp \cup {hand} /\ hand \in Bundles /\ hand' = NoBundle
        /\ UNCHANGED <<zcos, taken, given, settled, outBuf>>
    BY <1>0, <1>6 DEF MainFail, HandBack, ToSet, TxHandsOK
  <2>2. TxTypeOK' /\ TxHandsOK'
    BY <1>6, <2>1 DEF MainFail, TxTypeOK, TxHandsOK
  <2>3. ASSUME NEW b \in Bundles PROVE Holds(b)' = 1
    BY <2>1, TxNumbers DEF Holds
  <2> QED
    BY <2>2, <2>3 DEF ZclCustody
<1>7. CASE MainStop
  <2>1. TxTypeOK' /\ TxHandsOK'
    BY <1>7 DEF MainStop, TxTypeOK, TxHandsOK
  <2>2. ASSUME NEW b \in Bundles PROVE Holds(b)' = 1
    BY <1>7, TxNumbers DEF MainStop, Holds
  <2> QED
    BY <2>1, <2>2 DEF ZclCustody
<1>8. CASE MainJoin
  <2>1. zcos' = zcos
    BY <1>8 DEF MainJoin, TxHandsOK
  <2>2. TxTypeOK' /\ TxHandsOK'
    BY <1>8, <2>1 DEF MainJoin, TxTypeOK, TxHandsOK
  <2>3. ASSUME NEW b \in Bundles PROVE Holds(b)' = 1
    BY <1>8, <2>1, TxNumbers DEF MainJoin, Holds
  <2> QED
    BY <2>2, <2>3 DEF ZclCustody
<1> QED
  BY <1>1, <1>2, <1>3, <1>4, <1>5, <1>6, <1>7, <1>8 DEF Main

\* The chunk is abandoned: its list goes to the flush thread.
LEMMA FlushAbandons ==
    ASSUME TxInv, AbandonChunk("flush"), given["flush"] = <<>>,
           fpc' = "abandon", fpc \in {"loop", "send"},
           last' => shutdown,
           UNCHANGED <<stream, shutdown, mpc, hand, carrier, taken, atBp, settled, net>>
    PROVE  TxInv'
<1> USE DEF TxInv
<1>0. /\ zcos \in Seq(Bundles) /\ given \in [Threads -> Seq(Bundles)]
      /\ "main" \in Threads /\ "flush" \in Threads
  BY DEF TxTypeOK, Threads
<1>1. given'["flush"] = zcos /\ given'["main"] = given["main"] /\ given' \in [Threads -> Seq(Bundles)]
  BY <1>0 DEF AbandonChunk
<1>2. zcos' = <<>> /\ outBuf' = <<>> /\ <<>> \in Seq(Bundles)
  BY DEF AbandonChunk, EncAbort
<1>3. chunkId' \in Nat /\ seq' \in Nat /\ chunkIn' \in Nat
  BY DEF AbandonChunk, EncAbort, ChunkAfterAbort, TxTypeOK
<1>4. TxTypeOK'
  BY <1>1, <1>2, <1>3 DEF TxTypeOK
<1>5. mpc # "ended"
  BY DEF TxHandsOK
<1>6. TxHandsOK'
  BY <1>1, <1>2, <1>5 DEF TxHandsOK
<1>7. ASSUME NEW b \in Bundles PROVE Holds(b)' = 1
  BY <1>1, <1>2, TimesEmpty, TxNumbers DEF Holds
<1> QED
  BY <1>4, <1>6, <1>7 DEF ZclCustody

\* A carrier is cut: what it settles moves from the open chunk's list to taken.
LEMMA CutKeeps ==
    ASSUME TxInv, NEW end \in BOOLEAN, TakeAndCut(end), fpc = "loop",
           last' => shutdown
    PROVE  TxInv'
<1> USE DEF TxInv
<1>1. /\ taken = <<>> /\ taken' = zcos /\ zcos' = <<>> /\ outBuf' = <<>> /\ fpc' = "send"
      /\ <<>> \in Seq(Bundles)
      /\ UNCHANGED <<stream, shutdown, mpc, hand, given, atBp, settled, net>>
  BY DEF TakeAndCut, EncCut, TxHandsOK
<1>2. chunkId' \in Nat /\ seq' \in Nat /\ chunkIn' \in Nat
  BY DEF TakeAndCut, EncCut, TxTypeOK
<1>3. carrier' \in Carriers
  <2>1. carrier' = [stream |-> stream, chunk |-> chunkId, seq |-> seq, end |-> end, recs |-> outBuf]
    BY DEF TakeAndCut, EncCut, Cut
  <2> QED
    BY <2>1 DEF TxTypeOK, Carriers
<1>4. TxTypeOK'
  BY <1>1, <1>2, <1>3 DEF TxTypeOK
<1>5. mpc # "ended"
  BY DEF TxHandsOK
<1>6. TxHandsOK'
  BY <1>1, <1>5 DEF TxHandsOK
<1>7. ASSUME NEW b \in Bundles PROVE Holds(b)' = 1
  BY <1>1, TimesEmpty, TxNumbers DEF Holds
<1> QED
  BY <1>4, <1>6, <1>7 DEF ZclCustody

LEMMA FlushKeeps == ASSUME TxInv, Flush PROVE TxInv'
<1> USE DEF TxInv
<1>0. /\ taken \in Seq(Bundles) /\ given["flush"] \in Seq(Bundles)
      /\ given \in [Threads -> Seq(Bundles)]
      /\ "main" \in Threads /\ "flush" \in Threads
  BY DEF TxTypeOK, Threads
<1>1. CASE FlushCut
  <2>1. PICK end \in EndChoices : TakeAndCut(end)
    BY <1>1 DEF FlushCut
  <2>2. end \in BOOLEAN
    BY DEF EndChoices
  <2>3. fpc = "loop" /\ (last' => shutdown)
    BY <1>1 DEF FlushCut, TxHandsOK
  <2> QED
    BY <2>1, <2>2, <2>3, CutKeeps
<1>2. CASE FlushLast
  <2>1. fpc = "loop" /\ TakeAndCut(TRUE) /\ (last' => shutdown)
    BY <1>2 DEF FlushLast
  <2> QED
    BY <2>1, CutKeeps
<1>3. CASE FlushCutFails
  <2>1. given["flush"] = <<>> /\ (last' => shutdown)
    BY <1>3 DEF FlushCutFails, TxHandsOK
  <2> QED
    BY <1>3, <2>1, FlushAbandons DEF FlushCutFails
<1>4. CASE FlushSendFails
  <2>1. given["flush"] = <<>> /\ (last' => shutdown)
    BY <1>4 DEF FlushSendFails, TxHandsOK
  <2> QED
    BY <1>4, <2>1, FlushAbandons DEF FlushSendFails
<1>5. CASE FlushExit
  <2>1. TxTypeOK' /\ TxHandsOK'
    BY <1>5 DEF FlushExit, TxTypeOK, TxHandsOK
  <2>2. ASSUME NEW b \in Bundles PROVE Holds(b)' = 1
    BY <1>5, TxNumbers DEF FlushExit, Holds
  <2> QED
    BY <2>1, <2>2 DEF ZclCustody
<1>6. CASE FlushSend
  <2>1. TxTypeOK' /\ TxHandsOK'
    BY <1>6 DEF FlushSend, TxTypeOK, TxHandsOK
  <2>2. ASSUME NEW b \in Bundles PROVE Holds(b)' = 1
    BY <1>6, TxNumbers DEF FlushSend, Holds
  <2> QED
    BY <2>1, <2>2 DEF ZclCustody
<1>7. CASE FlushAbandoned
  <2>1. /\ given'["flush"] = <<>> /\ given'["main"] = given["main"]
        /\ given' \in [Threads -> Seq(Bundles)]
        /\ atBp' = atBp \cup ToSet(given["flush"])
        /\ UNCHANGED <<zcos, taken, hand, settled, outBuf>>
        /\ ToSet(given["flush"]) \subseteq Bundles
    BY <1>0, <1>7 DEF FlushAbandoned, HandBack, ToSet
  <2>2. TxTypeOK' /\ TxHandsOK'
    BY <1>7, <2>1 DEF FlushAbandoned, TxTypeOK, TxHandsOK
  <2>3. ASSUME NEW b \in Bundles PROVE Holds(b)' = 1
    <3>1. (IF b \in atBp THEN 1 ELSE 0) + Times(given["flush"], b) <= 1
      BY TxNumbers DEF Holds
    <3>2. (IF b \in atBp' THEN 1 ELSE 0)
             = (IF b \in atBp THEN 1 ELSE 0) + Times(given["flush"], b)
      BY <1>0, <2>1, <3>1, TimesJoin
    <3> QED
      BY <2>1, <3>2, TimesEmpty, TxNumbers DEF Holds
  <2> QED
    BY <2>2, <2>3 DEF ZclCustody
<1>8. CASE FlushSettle
  <2>1. /\ taken' = <<>> /\ ToSet(taken) \subseteq Bundles /\ <<>> \in Seq(Bundles)
        /\ fpc = "settle" /\ fpc' = (IF last THEN "exited" ELSE "loop")
        /\ UNCHANGED <<stream, encVars, zcos, shutdown, mpc, hand, last, given, net>>
    BY <1>0, <1>8 DEF FlushSettle, ToSet
  <2>2. \/ settled' = settled \cup ToSet(taken) /\ atBp' = atBp
        \/ atBp' = atBp \cup ToSet(taken) /\ settled' = settled
    BY <1>8 DEF FlushSettle, HandBack
  <2>3. TxTypeOK'
    BY <2>1, <2>2 DEF TxTypeOK
  <2>4. TxHandsOK'
    BY <2>1 DEF TxHandsOK
  <2>5. ASSUME NEW b \in Bundles PROVE Holds(b)' = 1
    <3>1. /\ (IF b \in atBp THEN 1 ELSE 0) + Times(taken, b) <= 1
          /\ (IF b \in settled THEN 1 ELSE 0) + Times(taken, b) <= 1
      BY TxNumbers DEF Holds
    <3>2. (IF b \in atBp \cup ToSet(taken) THEN 1 ELSE 0)
             = (IF b \in atBp THEN 1 ELSE 0) + Times(taken, b)
      BY <1>0, <3>1, TimesJoin
    <3>3. (IF b \in settled \cup ToSet(taken) THEN 1 ELSE 0)
             = (IF b \in settled THEN 1 ELSE 0) + Times(taken, b)
      BY <1>0, <3>1, TimesJoin
    <3>4. CASE settled' = settled \cup ToSet(taken) /\ atBp' = atBp
      BY <2>1, <3>3, <3>4, TimesEmpty, TxNumbers DEF Holds
    <3>5. CASE atBp' = atBp \cup ToSet(taken) /\ settled' = settled
      BY <2>1, <3>2, <3>5, TimesEmpty, TxNumbers DEF Holds
    <3> QED
      BY <2>2, <3>4, <3>5
  <2> QED
    BY <2>3, <2>4, <2>5 DEF ZclCustody
<1> QED
  BY <1>1, <1>2, <1>3, <1>4, <1>5, <1>6, <1>7, <1>8 DEF Flush

LEMMA RestartKeeps == ASSUME TxInv, Restart PROVE TxInv'
<1> USE DEF TxInv
<1>1. stream' \in 1 .. MaxRuns
  BY ZclTxAssumption DEF Restart, TxTypeOK
<1>2. fpc = "exited" /\ outBuf = <<>> /\ outBuf' = <<>> /\ taken = <<>>
  BY DEF Restart, TxHandsOK
<1>3. TxTypeOK' /\ TxHandsOK'
  BY <1>1, <1>2 DEF Restart, TxTypeOK, TxHandsOK
<1>4. ASSUME NEW b \in Bundles PROVE Holds(b)' = 1
  BY TxNumbers DEF Restart, Holds
<1> QED
  BY <1>3, <1>4 DEF ZclCustody

\* A step of zcli leaves zclo alone.
LEMMA TxStep == ASSUME TxInv, ZclTxNext \/ UNCHANGED zclTxVars PROVE TxInv'
<1>1. CASE UNCHANGED zclTxVars
  <2>1. TxTypeOK' /\ TxHandsOK'
    BY <1>1 DEF TxInv, zclTxVars, TxTypeOK, TxHandsOK
  <2>2. ZclCustody'
    BY <1>1 DEF TxInv, zclTxVars, ZclCustody, Holds
  <2> QED
    BY <2>1, <2>2 DEF TxInv
<1> QED
  BY <1>1, MainKeeps, FlushKeeps, RestartKeeps DEF ZclTxNext

-----------------------------------------------------------------------------
(* zcli: the reorder buffer. *)

\* The buffer's first carrier is the one of the least chunk and, in it, place.
LEMMA FirstFacts ==
    ASSUME NEW S, S \subseteq Packets, KeysOK(S), S # {}
    PROVE  /\ First(S) \in S
           /\ \A q \in S : First(S).chunk <= q.chunk
<1>1. \A p \in S : p.chunk \in Nat /\ p.seq \in Nat
  BY DEF Packets
<1>2. PICK f \in S : \A q \in S \ {f} : Before(f, q)
  <2> DEFINE Chunks == {p.chunk : p \in S}
  <2>1. PICK c \in Chunks : \A d \in Chunks : c <= d
    <3>1. Chunks \subseteq Nat /\ Chunks # {}
      BY <1>1
    <3> QED
      BY <3>1, LeastNat
  <2> DEFINE Seqs == {p.seq : p \in {q \in S : q.chunk = c}}
  <2>2. PICK n \in Seqs : \A m \in Seqs : n <= m
    <3>1. Seqs \subseteq Nat /\ Seqs # {}
      BY <1>1, <2>1
    <3> QED
      BY <3>1, LeastNat
  <2>3. PICK f \in S : f.chunk = c /\ f.seq = n
    BY <2>2
  <2>4. ASSUME NEW q \in S \ {f} PROVE Before(f, q)
    <3>1. c <= q.chunk /\ (q.chunk = c => n <= q.seq)
      BY <2>1, <2>2
    <3>2. q.chunk = c => q.seq # n
      BY <2>3 DEF KeysOK
    <3> QED
      BY <1>1, <2>3, <3>1, <3>2 DEF Before
  <2> QED
    BY <2>4
<1>3. First(S) \in S /\ \A q \in S \ {First(S)} : Before(First(S), q)
  BY <1>2, Zenon DEF First
<1>4. ASSUME NEW q \in S PROVE First(S).chunk <= q.chunk
  <2>1. CASE q = First(S)
    BY <1>1, <1>3, <2>1
  <2>2. CASE q # First(S)
    BY <1>1, <1>3, <2>2 DEF Before
  <2> QED
    BY <2>1, <2>2
<1> QED
  BY <1>3, <1>4

\* Dropping old chunks keeps the rest as it was.
LEMMA DropFacts ==
    ASSUME NEW buf \in SUBSET Packets, NEW c \in Nat, KeysOK(buf)
    PROVE  /\ DropBelow(buf, c) \in SUBSET Packets /\ KeysOK(DropBelow(buf, c))
           /\ \A p \in DropBelow(buf, c) : p \in buf /\ c <= p.chunk
<1>1. \A p \in buf : p.chunk \in Nat
  BY DEF Packets
<1> QED
  BY <1>1 DEF DropBelow, KeysOK

LEMMA LogFields ==
    ASSUME NEW es, LogOK(es), NEW i \in DOMAIN es
    PROVE  es[i] \in Records /\ es[i].chunk \in Nat /\ es[i].seq \in Nat /\ es[i].pos \in Nat
<1>1. es \in Seq(Records)
  BY DEF LogOK
<1>2. es[i] \in Records
  BY <1>1
<1> QED
  BY <1>2 DEF Records

\* A stream as it is created.
LEMMA NewStreamOK == StreamOK(NewStream, <<>>)
<1>1. NewStream \in StreamRecords
  BY DEF NewStream, StreamRecords
<1>2. LogOK(<<>>)
  BY DEF LogOK
<1>3. BufferOK(NewStream)
  BY DEF BufferOK, KeysOK, NewStream
<1> QED
  BY <1>1, <1>2, <1>3 DEF StreamOK, NewStream

LEMMA SyncOK ==
    ASSUME NEW x, NEW es, StreamOK(x, es), ~x.synced, Starts(x) # {}
    PROVE  StreamOK(SyncTo(x, First(Starts(x)).chunk), es)
<1>0. x \in StreamRecords /\ KeysOK(x.buf) /\ x.buf \in SUBSET Packets
  BY DEF StreamOK, BufferOK, StreamRecords
<1>1. PICK p \in x.buf : p = First(Starts(x))
  <2>1. Starts(x) \subseteq x.buf /\ Starts(x) \subseteq Packets /\ KeysOK(Starts(x))
    BY <1>0 DEF Starts, KeysOK
  <2> QED
    BY <2>1, FirstFacts
<1>2. PICK c \in Nat : c = First(Starts(x)).chunk /\ c = p.chunk
  BY <1>0, <1>1 DEF Packets
<1>3. PICK left : left = DropBelow(x.buf, c)
  OBVIOUS
<1>4. /\ left \in SUBSET Packets /\ KeysOK(left)
      /\ \A q \in left : q \in x.buf /\ c <= q.chunk
  BY <1>0, <1>3, DropFacts
<1>5. PICK y : y = SyncTo(x, c)
  OBVIOUS
<1>6. y = [x EXCEPT !.synced = TRUE, !.cur = c, !.next = 0, !.buf = left, !.fed = 0]
  BY <1>0, <1>3, <1>5 DEF SyncTo, ResetChunk, StreamRecords
<1>7. /\ y \in StreamRecords
      /\ y.synced = TRUE /\ y.cur = c /\ y.next = 0 /\ y.buf = left /\ y.fed = 0
      /\ y.haveDone = x.haveDone /\ y.done = x.done
  BY <1>0, <1>2, <1>4, <1>6 DEF StreamRecords
<1>8. x.haveDone => x.done < c
  BY <1>1, <1>2 DEF StreamOK, BufferOK
<1>9. BufferOK(y)
  BY <1>4, <1>7, <1>8 DEF StreamOK, BufferOK
<1>10. ASSUME NEW i \in DOMAIN es PROVE Passed(y, es[i])
  <2>1. x.haveDone /\ es[i].chunk <= x.done
    BY DEF StreamOK, Passed
  <2>2. es[i].chunk \in Nat /\ x.done \in Nat
    BY <1>0, LogFields DEF StreamOK, StreamRecords
  <2> QED
    BY <1>2, <1>7, <1>8, <2>1, <2>2 DEF Passed
<1> QED
  BY <1>2, <1>5, <1>7, <1>9, <1>10 DEF StreamOK

LEMMA EndOK ==
    ASSUME NEW x \in StreamRecords, NEW es, LogOK(es), BufferOK(x),
           \A i \in DOMAIN es : es[i].chunk <= x.cur
    PROVE  StreamOK(EndChunk(x), es)
<1>0. x.cur \in Nat /\ x.cur + 1 \in Nat /\ KeysOK(x.buf) /\ x.buf \in SUBSET Packets
  BY DEF BufferOK, StreamRecords
<1>1. PICK left : left = DropBelow(x.buf, x.cur + 1)
  OBVIOUS
<1>2. /\ left \in SUBSET Packets /\ KeysOK(left)
      /\ \A q \in left : q \in x.buf /\ x.cur + 1 <= q.chunk
  BY <1>0, <1>1, DropFacts
<1>3. PICK y : y = EndChunk(x)
  OBVIOUS
<1>4. y = [x EXCEPT !.synced = FALSE, !.haveDone = TRUE, !.done = x.cur, !.buf = left, !.fed = 0]
  BY <1>1, <1>3 DEF EndChunk, ResetChunk, StreamRecords
<1>5. /\ y \in StreamRecords
      /\ y.synced = FALSE /\ y.haveDone = TRUE /\ y.done = x.cur /\ y.buf = left /\ y.fed = 0
  BY <1>0, <1>2, <1>4 DEF StreamRecords
<1>6. \A q \in left : x.cur < q.chunk
  BY <1>0, <1>2 DEF Packets
<1>7. BufferOK(y)
  BY <1>2, <1>5, <1>6 DEF BufferOK
<1> QED
  BY <1>3, <1>5, <1>7 DEF StreamOK, Passed

\* A gap is given up: the chunk in hand ends, a later chunk begins, or what
\* has no start is dropped.
LEMMA GapOK ==
    ASSUME NEW x, NEW es, StreamOK(x, es), x.buf # {}
    PROVE  StreamOK(GapResolved(x), es)
<1>0. /\ x \in StreamRecords /\ KeysOK(x.buf) /\ x.buf \in SUBSET Packets /\ LogOK(es)
      /\ x.done \in Nat /\ x.cur \in Nat
      /\ \A i \in DOMAIN es : es[i].chunk \in Nat
  BY LogFields DEF StreamOK, BufferOK, StreamRecords
<1>1. CASE x.synced
  <2>1. \A i \in DOMAIN es : es[i].chunk <= x.cur
    BY <1>0, <1>1 DEF StreamOK, Passed
  <2> QED
    BY <1>0, <1>1, <2>1, EndOK DEF StreamOK, GapResolved
<1>2. CASE ~x.synced /\ Starts(x) # {}
  BY <1>2, SyncOK DEF GapResolved
<1>3. CASE ~x.synced /\ ~(Starts(x) # {})
  <2>1. PICK p \in x.buf : p = First(x.buf)
    BY <1>0, FirstFacts
  <2>2. PICK c \in Nat : c = p.chunk
    BY <1>0, <2>1 DEF Packets
  <2>3. PICK left : left = DropBelow(x.buf, c + 1)
    OBVIOUS
  <2>4. /\ left \in SUBSET Packets /\ KeysOK(left)
        /\ \A q \in left : q \in x.buf /\ c + 1 <= q.chunk
    BY <1>0, <2>2, <2>3, DropFacts
  <2>5. PICK y : y = GapResolved(x)
    OBVIOUS
  <2>6. y = [x EXCEPT !.haveDone = TRUE, !.done = c, !.buf = left]
    BY <1>3, <2>1, <2>2, <2>3, <2>5 DEF GapResolved
  <2>7. /\ y \in StreamRecords
        /\ y.synced = x.synced /\ y.haveDone = TRUE /\ y.done = c /\ y.buf = left
    BY <1>0, <2>2, <2>4, <2>6 DEF StreamRecords
  <2>8. \A q \in left : c < q.chunk
    BY <1>0, <2>2, <2>4 DEF Packets
  <2>9. BufferOK(y)
    BY <1>3, <2>4, <2>7, <2>8 DEF BufferOK
  <2>10. ASSUME NEW i \in DOMAIN es PROVE Passed(y, es[i])
    <3>1. x.haveDone /\ es[i].chunk <= x.done
      BY <1>3 DEF StreamOK, Passed
    <3>2. x.done < c
      BY <2>1, <2>2, <3>1 DEF StreamOK, BufferOK
    <3> QED
      BY <1>0, <1>3, <2>2, <2>7, <3>1, <3>2 DEF Passed
  <2> QED
    BY <1>0, <1>3, <2>5, <2>7, <2>9, <2>10 DEF StreamOK
<1> QED
  BY <1>1, <1>2, <1>3

-----------------------------------------------------------------------------
(* zcli: what is emitted. *)

\* Records of one carrier, the next in the chunk, from a decompressor that has
\* seen all of the chunk before it.
IsRun(ds, x) ==
    /\ ds \in Seq(Records)
    /\ \A i \in DOMAIN ds : /\ ds[i].chunk = x.cur /\ ds[i].seq = x.next
                            /\ ds[i].pos = i /\ ds[i].sound

\* The carrier in turn is decoded from where the decompressor stands.
LEMMA DecodedRun ==
    ASSUME NEW x \in StreamRecords, x.fed = x.next, NEW p \in Packets,
           p.chunk = x.cur, p.seq = x.next, NEW n \in 0 .. Len(p.recs)
    PROVE  IsRun(Decoded(x, p), x) /\ IsRun(SubSeq(Decoded(x, p), 1, n), x)
<1> DEFINE len == Len(p.recs)
           r(i) == [chunk |-> p.chunk, seq |-> p.seq, pos |-> i, rec |-> p.recs[i],
                    sound |-> x.fed = p.seq]
<1>0. p.recs \in Seq(Bundles) /\ len \in Nat /\ p.chunk \in Nat /\ p.seq \in Nat
  BY DEF Packets
<1>1. PICK ds : ds = Decoded(x, p)
  OBVIOUS
<1>2. ds = [i \in 1 .. len |-> r(i)]
  BY <1>1 DEF Decoded
<1>3. (x.fed = p.seq) = TRUE
  OBVIOUS
<1>4. ASSUME NEW i \in 1 .. len
      PROVE  /\ r(i) \in Records /\ r(i).chunk = x.cur /\ r(i).seq = x.next
             /\ r(i).pos = i /\ r(i).sound
  <2>1. p.recs[i] \in Bundles /\ i \in Nat
    BY <1>0
  <2>2. r(i) = [chunk |-> p.chunk, seq |-> p.seq, pos |-> i, rec |-> p.recs[i],
                sound |-> TRUE]
    BY <1>3
  <2> QED
    BY <1>0, <2>1, <2>2 DEF Records
<1> HIDE DEF len, r
<1>5. ds \in [1 .. len -> Records] /\ DOMAIN ds = 1 .. len
  BY <1>2, <1>4
<1>6. ds \in Seq(Records) /\ Len(ds) = len
  BY <1>0, <1>5
<1>7. IsRun(ds, x)
  BY <1>2, <1>4, <1>5, <1>6 DEF IsRun
<1>8. PICK es : es = SubSeq(ds, 1, n)
  OBVIOUS
<1>9. n \in 0 .. len
  BY DEF len
<1>10. /\ es \in Seq(Records) /\ Len(es) = n
       /\ \A i \in 1 .. n : es[i] = ds[i]
  BY <1>0, <1>6, <1>8, <1>9
<1>11. DOMAIN es = 1 .. n /\ \A i \in 1 .. n : i \in DOMAIN ds
  BY <1>0, <1>5, <1>9, <1>10
<1>12. IsRun(es, x)
  BY <1>7, <1>10, <1>11 DEF IsRun
<1> QED
  BY <1>1, <1>7, <1>8, <1>12

\* A carrier's records behind the ones before.
LEMMA LogJoin ==
    ASSUME NEW x \in StreamRecords, x.synced, NEW es, LogOK(es),
           \A i \in DOMAIN es : Passed(x, es[i]), NEW ds, IsRun(ds, x)
    PROVE  /\ LogOK(es \o ds)
           /\ \A i \in DOMAIN (es \o ds) :
                 LET e == (es \o ds)[i] IN
                 e.chunk < x.cur \/ (e.chunk = x.cur /\ e.seq < x.next + 1)
<1>0. es \in Seq(Records) /\ ds \in Seq(Records) /\ x.next \in Nat /\ x.cur \in Nat
  BY DEF LogOK, IsRun, StreamRecords
<1>1. PICK n \in Nat : n = Len(es)
  BY <1>0
<1>2. PICK all : all = es \o ds
  OBVIOUS
<1>3. all \in Seq(Records)
  BY <1>0, <1>2
<1>4. ASSUME NEW i \in DOMAIN all
      PROVE  /\ i \in Nat
             /\ \/ i <= n /\ i \in DOMAIN es /\ all[i] = es[i]
                \/ n < i /\ i - n \in DOMAIN ds /\ all[i] = ds[i - n]
  BY <1>0, <1>1, <1>2
<1>5. ASSUME NEW i \in DOMAIN es
      PROVE  /\ es[i].chunk \in Nat /\ es[i].seq \in Nat /\ es[i].sound
             /\ es[i].chunk < x.cur \/ (es[i].chunk = x.cur /\ es[i].seq < x.next)
  BY LogFields DEF LogOK, Passed
<1>6. ASSUME NEW i \in DOMAIN all PROVE all[i].sound
  BY <1>4, <1>5 DEF IsRun
<1>7. ASSUME NEW i \in DOMAIN all
      PROVE  all[i].chunk < x.cur \/ (all[i].chunk = x.cur /\ all[i].seq < x.next + 1)
  <2>1. CASE i <= n /\ i \in DOMAIN es /\ all[i] = es[i]
    BY <1>0, <1>5, <2>1
  <2>2. CASE n < i /\ i - n \in DOMAIN ds /\ all[i] = ds[i - n]
    BY <1>0, <2>2 DEF IsRun
  <2> QED
    BY <1>4, <2>1, <2>2
<1>8. ASSUME NEW i \in DOMAIN all, NEW j \in DOMAIN all, i < j
      PROVE  \/ Before(all[i], all[j])
             \/ all[i].chunk = all[j].chunk /\ all[i].seq = all[j].seq /\ all[i].pos < all[j].pos
  <2>1. CASE i <= n /\ i \in DOMAIN es /\ all[i] = es[i]
    <3>1. CASE j <= n /\ j \in DOMAIN es /\ all[j] = es[j]
      BY <1>8, <2>1, <3>1 DEF LogOK
    <3>2. CASE n < j /\ j - n \in DOMAIN ds /\ all[j] = ds[j - n]
      <4>1. all[j].chunk = x.cur /\ all[j].seq = x.next
        BY <3>2 DEF IsRun
      <4>2. all[i].chunk < x.cur \/ (all[i].chunk = x.cur /\ all[i].seq < x.next)
        BY <1>5, <2>1
      <4> QED
        BY <4>1, <4>2 DEF Before
    <3> QED
      BY <1>4, <3>1, <3>2
  <2>2. CASE n < i /\ i - n \in DOMAIN ds /\ all[i] = ds[i - n]
    <3>1. n < j /\ j - n \in DOMAIN ds /\ all[j] = ds[j - n] /\ i - n < j - n
      BY <1>1, <1>4, <1>8, <2>2
    <3> QED
      BY <2>2, <3>1 DEF IsRun
  <2> QED
    BY <1>4, <2>1, <2>2
<1>9. LogOK(all)
  BY <1>3, <1>6, <1>8 DEF LogOK
<1> QED
  BY <1>2, <1>7, <1>9

\* A carrier is decoded, with more of the chunk to come or as its last.
LEMMA DecodeOK ==
    ASSUME NEW x, NEW es, StreamOK(x, es), CanDecode(x), NEW p, p = First(x.buf),
           NEW y, y = [x EXCEPT !.buf = @ \ {p}, !.fed = @ + 1]
    PROVE  /\ StreamOK(EndChunk(y), es \o Decoded(x, p))
           /\ StreamOK([y EXCEPT !.next = @ + 1], es \o Decoded(x, p))
           /\ \A n \in 0 .. Len(p.recs) :
                 StreamOK(EndChunk([x EXCEPT !.buf = @ \ {p}]),
                          es \o SubSeq(Decoded(x, p), 1, n))
<1>0. /\ x \in StreamRecords /\ BufferOK(x) /\ LogOK(es) /\ x.synced /\ x.fed = x.next
      /\ \A i \in DOMAIN es : Passed(x, es[i])
      /\ p \in x.buf /\ p \in Packets /\ p.chunk = x.cur /\ p.seq = x.next
      /\ x.cur \in Nat /\ x.next \in Nat
  <2>1. x \in StreamRecords /\ KeysOK(x.buf) /\ x.buf # {}
    BY DEF StreamOK, BufferOK, CanDecode
  <2>2. x.buf \subseteq Packets /\ x.cur \in Nat /\ x.next \in Nat
    BY <2>1 DEF StreamRecords
  <2>3. p \in x.buf
    BY <2>1, <2>2, FirstFacts
  <2> QED
    BY <2>1, <2>2, <2>3 DEF StreamOK, CanDecode
<1>1. PICK z : z = [x EXCEPT !.buf = @ \ {p}]
  OBVIOUS
<1>2. PICK w : w = [y EXCEPT !.next = @ + 1]
  OBVIOUS
<1>3. /\ z \in StreamRecords /\ z.buf = x.buf \ {p} /\ z.synced = x.synced /\ z.cur = x.cur
      /\ z.haveDone = x.haveDone /\ z.done = x.done
  BY <1>0, <1>1 DEF StreamRecords
<1>4. /\ y \in StreamRecords /\ y.buf = x.buf \ {p} /\ y.synced = x.synced /\ y.cur = x.cur
      /\ y.haveDone = x.haveDone /\ y.done = x.done
      /\ y.fed = x.fed + 1 /\ y.next = x.next
  <2>1. x.fed + 1 \in Nat /\ x.buf \ {p} \in SUBSET Packets
    BY <1>0 DEF StreamRecords
  <2>2. y = [x EXCEPT !.buf = x.buf \ {p}, !.fed = x.fed + 1]
    BY <1>0 DEF StreamRecords
  <2> QED
    BY <1>0, <2>1, <2>2 DEF StreamRecords
<1>5. /\ w \in StreamRecords /\ w.buf = x.buf \ {p} /\ w.synced = x.synced /\ w.cur = x.cur
      /\ w.haveDone = x.haveDone /\ w.done = x.done
      /\ w.fed = x.fed + 1 /\ w.next = x.next + 1
  BY <1>0, <1>2, <1>4 DEF StreamRecords
<1>6. BufferOK(z) /\ BufferOK(y) /\ BufferOK(w)
  BY <1>0, <1>3, <1>4, <1>5 DEF BufferOK, KeysOK
<1>7. Len(p.recs) \in Nat
  BY <1>0 DEF Packets
<1>8. ASSUME NEW ds, IsRun(ds, x)
      PROVE  /\ LogOK(es \o ds)
             /\ \A i \in DOMAIN (es \o ds) :
                   /\ (es \o ds)[i].chunk <= x.cur
                   /\ Passed(w, (es \o ds)[i])
  <2>1. PICK all : all = es \o ds
    OBVIOUS
  <2>2. /\ LogOK(all)
        /\ \A i \in DOMAIN all :
              all[i].chunk < x.cur \/ (all[i].chunk = x.cur /\ all[i].seq < x.next + 1)
    BY <1>0, <1>8, <2>1, LogJoin
  <2>3. ASSUME NEW i \in DOMAIN all PROVE all[i].chunk <= x.cur /\ Passed(w, all[i])
    <3>1. all[i].chunk \in Nat
      BY <2>2, LogFields
    <3> QED
      BY <1>0, <1>5, <2>2, <3>1 DEF Passed
  <2> QED
    BY <2>1, <2>2, <2>3
<1>9. IsRun(Decoded(x, p), x)
  BY <1>0, <1>7, DecodedRun
<1>10. PICK all : all = es \o Decoded(x, p)
  OBVIOUS
<1>11. LogOK(all) /\ \A i \in DOMAIN all : all[i].chunk <= x.cur /\ Passed(w, all[i])
  BY <1>8, <1>9, <1>10
<1>12. StreamOK(EndChunk(y), all)
  BY <1>4, <1>6, <1>11, EndOK
<1>13. StreamOK(w, all)
  BY <1>0, <1>5, <1>6, <1>11 DEF StreamOK
<1>14. ASSUME NEW n \in 0 .. Len(p.recs)
       PROVE  StreamOK(EndChunk(z), es \o SubSeq(Decoded(x, p), 1, n))
  <2>1. PICK some : some = es \o SubSeq(Decoded(x, p), 1, n)
    OBVIOUS
  <2>2. IsRun(SubSeq(Decoded(x, p), 1, n), x)
    BY <1>0, DecodedRun
  <2>3. LogOK(some) /\ \A i \in DOMAIN some : some[i].chunk <= x.cur
    BY <1>8, <2>1, <2>2
  <2> QED
    BY <1>3, <1>6, <2>1, <2>3, EndOK
<1> QED
  BY <1>1, <1>2, <1>10, <1>12, <1>13, <1>14

-----------------------------------------------------------------------------
(* zcli: arrivals, and the steps of its one thread. *)

\* A carrier that is neither late nor there already joins the buffer.
LEMMA BufferedOK ==
    ASSUME NEW x, NEW es, StreamOK(x, es), NEW c \in Carriers,
           ~Stale(x, c), ~Buffered(x, c),
           NEW p, p = [chunk |-> c.chunk, seq |-> c.seq, end |-> c.end,
                       recs |-> c.recs, old |-> FALSE]
    PROVE  StreamOK([x EXCEPT !.buf = @ \cup {p}], es)
<1>0. /\ x \in StreamRecords /\ BufferOK(x) /\ x.done \in Nat /\ x.cur \in Nat
      /\ c.chunk \in Nat
  BY DEF StreamOK, StreamRecords, Carriers
<1>1. p \in Packets /\ p.chunk = c.chunk /\ p.seq = c.seq
  BY DEF Carriers, Packets
<1>2. PICK y : y = [x EXCEPT !.buf = @ \cup {p}]
  OBVIOUS
<1>3. /\ y \in StreamRecords /\ y.buf = x.buf \cup {p} /\ y.synced = x.synced /\ y.cur = x.cur
      /\ y.haveDone = x.haveDone /\ y.done = x.done /\ y.fed = x.fed /\ y.next = x.next
  BY <1>0, <1>1, <1>2 DEF StreamRecords
<1>4. \A q \in x.buf : ~(q.chunk = p.chunk /\ q.seq = p.seq)
  BY <1>1 DEF Buffered
<1>5. KeysOK(y.buf)
  BY <1>0, <1>3, <1>4 DEF BufferOK, KeysOK
<1>6. (x.haveDone => x.done < p.chunk) /\ (x.synced => x.cur <= p.chunk)
  BY <1>0, <1>1 DEF Stale
<1>7. BufferOK(y)
  BY <1>0, <1>3, <1>5, <1>6 DEF BufferOK
<1> QED
  BY <1>2, <1>3, <1>7 DEF StreamOK, Passed

\* The clock says nothing of where a carrier belongs.
LEMMA ElapseOK ==
    ASSUME NEW x, NEW es, StreamOK(x, es)
    PROVE  StreamOK([x EXCEPT !.buf = {[p EXCEPT !.old = TRUE] : p \in @}], es)
<1>0. x \in StreamRecords /\ BufferOK(x) /\ x.buf \subseteq Packets
  BY DEF StreamOK, StreamRecords
<1>1. PICK aged : aged = {[p EXCEPT !.old = TRUE] : p \in x.buf}
  OBVIOUS
<1>2. \A p \in Packets : /\ [p EXCEPT !.old = TRUE] \in Packets
                          /\ [p EXCEPT !.old = TRUE].chunk = p.chunk
                          /\ [p EXCEPT !.old = TRUE].seq = p.seq
  BY DEF Packets
<1>3. /\ aged \in SUBSET Packets
      /\ \A q \in aged : \E p \in x.buf :
            q = [p EXCEPT !.old = TRUE] /\ q.chunk = p.chunk /\ q.seq = p.seq
  <2>1. \A q : q \in aged <=> \E p \in x.buf : q = [p EXCEPT !.old = TRUE]
    BY <1>1
  <2>2. ASSUME NEW q \in aged
        PROVE  /\ q \in Packets
               /\ \E p \in x.buf :
                     q = [p EXCEPT !.old = TRUE] /\ q.chunk = p.chunk /\ q.seq = p.seq
    <3>1. PICK p \in x.buf : q = [p EXCEPT !.old = TRUE]
      BY <2>1, <2>2
    <3> QED
      BY <1>0, <1>2, <3>1
  <2> QED
    BY <2>2
<1>4. PICK y : y = [x EXCEPT !.buf = {[p EXCEPT !.old = TRUE] : p \in @}]
  OBVIOUS
<1>5. y = [x EXCEPT !.buf = aged]
  BY <1>0, <1>1, <1>4 DEF StreamRecords
<1>6. /\ y \in StreamRecords /\ y.buf = aged /\ y.synced = x.synced /\ y.cur = x.cur
      /\ y.haveDone = x.haveDone /\ y.done = x.done /\ y.fed = x.fed /\ y.next = x.next
  BY <1>0, <1>3, <1>5 DEF StreamRecords
<1>7. KeysOK(aged)
  <2>1. SUFFICES ASSUME NEW a \in aged, NEW b \in aged, a.chunk = b.chunk, a.seq = b.seq
                 PROVE  a = b
    BY DEF KeysOK
  <2>2. PICK p \in x.buf : a = [p EXCEPT !.old = TRUE] /\ a.chunk = p.chunk /\ a.seq = p.seq
    BY <1>3
  <2>3. PICK q \in x.buf : b = [q EXCEPT !.old = TRUE] /\ b.chunk = q.chunk /\ b.seq = q.seq
    BY <1>3
  <2>4. p = q
    BY <1>0, <2>1, <2>2, <2>3 DEF BufferOK, KeysOK
  <2> QED
    BY <2>2, <2>3, <2>4
<1>8. BufferOK(y)
  BY <1>0, <1>3, <1>6, <1>7 DEF BufferOK
<1> QED
  BY <1>4, <1>6, <1>8 DEF StreamOK, Passed

LEMMA RxInit == ZclRxInit => RxInv
<1> SUFFICES ASSUME ZclRxInit PROVE RxInv
  OBVIOUS
<1>1. NewStream \in StreamRecords /\ <<>> \in Seq(Records)
  BY NewStreamOK DEF StreamOK
<1>2. /\ rx \in [Streams -> StreamRecords] /\ emitted \in [Streams -> Seq(Records)]
      /\ \A s \in Streams : rx[s] = NewStream /\ emitted[s] = <<>>
  BY <1>1 DEF ZclRxInit
<1>3. UseOK
  BY <1>2 DEF ZclRxInit, UseOK
<1> QED
  BY <1>2, <1>3, NewStreamOK DEF RxInv

\* A step on one stream in use: its state and its log go on together.
LEMMA OneStream ==
    ASSUME RxInv, NEW s \in Streams, s \in settling,
           NEW x, NEW es, StreamOK(x, es),
           rx' = [rx EXCEPT ![s] = x], emitted' = [emitted EXCEPT ![s] = es],
           UNCHANGED <<lru, settling>>
    PROVE  RxInv'
<1>1. x \in StreamRecords /\ es \in Seq(Records)
  BY DEF StreamOK, LogOK
<1>2. /\ rx' \in [Streams -> StreamRecords] /\ emitted' \in [Streams -> Seq(Records)]
      /\ \A t \in Streams : /\ rx'[t] = IF t = s THEN x ELSE rx[t]
                            /\ emitted'[t] = IF t = s THEN es ELSE emitted[t]
  <2>1. rx \in [Streams -> StreamRecords] /\ emitted \in [Streams -> Seq(Records)]
    BY DEF RxInv
  <2>2. /\ rx' \in [Streams -> StreamRecords]
        /\ \A t \in Streams : rx'[t] = IF t = s THEN x ELSE rx[t]
    BY <1>1, <2>1
  <2>3. /\ emitted' \in [Streams -> Seq(Records)]
        /\ \A t \in Streams : emitted'[t] = IF t = s THEN es ELSE emitted[t]
    BY <1>1, <2>1
  <2> QED
    BY <2>2, <2>3, Zenon
<1>3. InUse' = InUse
  BY DEF InUse
<1>4. UseOK'
  BY <1>2, <1>3 DEF RxInv, UseOK
<1> QED
  BY <1>2, <1>4 DEF RxInv

LEMMA SettleKeeps == ASSUME RxInv, Settle PROVE RxInv'
<1>1. PICK s \in Streams :
         DrainSync(s) \/ DrainDecode(s) \/ DrainCorrupt(s) \/ ResolveGap(s) \/ Settled(s)
  BY DEF Settle
<1>2. PICK x : x = rx[s]
  OBVIOUS
<1>3. PICK es : es = emitted[s]
  OBVIOUS
<1>4. /\ StreamOK(x, es) /\ rx \in [Streams -> StreamRecords]
      /\ emitted \in [Streams -> Seq(Records)] /\ emitted = [emitted EXCEPT ![s] = es]
  BY <1>2, <1>3 DEF RxInv
<1>5. CASE DrainSync(s)
  <2>1. PICK y : y = SyncTo(x, First(Starts(x)).chunk)
    OBVIOUS
  <2>2. StreamOK(y, es)
    BY <1>2, <1>4, <1>5, <2>1, SyncOK DEF DrainSync, CanSync
  <2>3. rx' = [rx EXCEPT ![s] = y]
    BY <1>2, <1>4, <1>5, <2>1 DEF DrainSync
  <2> QED
    BY <1>4, <1>5, <2>2, <2>3, OneStream DEF DrainSync
<1>6. CASE DrainDecode(s)
  <2>1. PICK p : p = First(x.buf)
    OBVIOUS
  <2>2. PICK y : y = [x EXCEPT !.buf = @ \ {p}, !.fed = @ + 1]
    OBVIOUS
  <2>3. PICK all : all = es \o Decoded(x, p)
    OBVIOUS
  <2>4. PICK z : z = IF p.end THEN EndChunk(y) ELSE [y EXCEPT !.next = @ + 1]
    OBVIOUS
  <2>5. CanDecode(x) /\ s \in settling /\ UNCHANGED <<lru, settling>>
    BY <1>2, <1>6 DEF DrainDecode
  <2>6. StreamOK(EndChunk(y), all) /\ StreamOK([y EXCEPT !.next = @ + 1], all)
    <3>1. /\ StreamOK(EndChunk(y), es \o Decoded(x, p))
          /\ StreamOK([y EXCEPT !.next = @ + 1], es \o Decoded(x, p))
      BY <1>4, <2>1, <2>2, <2>5, DecodeOK, Zenon
    <3> QED
      BY <2>3, <3>1
  <2>7. StreamOK(z, all)
    BY <2>4, <2>6
  <2>8. rx' = [rx EXCEPT ![s] = z] /\ emitted' = [emitted EXCEPT ![s] = all]
    BY <1>2, <1>3, <1>4, <1>6, <2>1, <2>2, <2>3, <2>4 DEF DrainDecode
  <2> QED
    BY <2>5, <2>7, <2>8, OneStream
<1>7. CASE DrainCorrupt(s)
  <2>1. PICK p : p = First(x.buf)
    OBVIOUS
  <2>2. PICK z : z = EndChunk([x EXCEPT !.buf = @ \ {p}])
    OBVIOUS
  <2>3. PICK n \in 0 .. Len(p.recs) :
           emitted' = [emitted EXCEPT ![s] = @ \o SubSeq(Decoded(x, p), 1, n)]
    BY <1>2, <1>7, <2>1 DEF DrainCorrupt
  <2>4. PICK some : some = es \o SubSeq(Decoded(x, p), 1, n)
    OBVIOUS
  <2>5. CanDecode(x) /\ s \in settling /\ UNCHANGED <<lru, settling>>
    BY <1>2, <1>7 DEF DrainCorrupt
  <2>6. StreamOK(z, some)
    BY <1>4, <2>1, <2>2, <2>4, <2>5, DecodeOK
  <2>7. rx' = [rx EXCEPT ![s] = z] /\ emitted' = [emitted EXCEPT ![s] = some]
    BY <1>2, <1>3, <1>4, <1>7, <2>1, <2>2, <2>3, <2>4 DEF DrainCorrupt
  <2> QED
    BY <2>5, <2>6, <2>7, OneStream
<1>8. CASE ResolveGap(s)
  <2>1. PICK y : y = GapResolved(x)
    OBVIOUS
  <2>2. StreamOK(y, es)
    BY <1>2, <1>4, <1>8, <2>1, GapOK DEF ResolveGap, Stuck
  <2>3. rx' = [rx EXCEPT ![s] = y]
    BY <1>2, <1>4, <1>8, <2>1 DEF ResolveGap
  <2> QED
    BY <1>4, <1>8, <2>2, <2>3, OneStream DEF ResolveGap
<1>9. CASE Settled(s)
  BY <1>9 DEF Settled, RxInv, UseOK, InUse
<1> QED
  BY <1>1, <1>5, <1>6, <1>7, <1>8, <1>9

\* A carrier, whether it is taken or not, makes its stream the one last used.
LEMMA ListKeeps ==
    ASSUME RxInv, NEW s \in Streams,
           lru' = Append(Without(lru, Victims(s) \cup {s}), s)
    PROVE  /\ Victims(s) \subseteq InUse \ {s}
           /\ lru' \in Seq(Streams)
           /\ InUse' = (InUse \ Victims(s)) \cup {s}
<1>0. lru \in Seq(Streams)
  BY DEF RxInv, UseOK
<1>1. Victims(s) \subseteq InUse \ {s}
  <2>1. ASSUME s \notin InUse, Len(lru) = MaxStreams PROVE Head(lru) \in InUse \ {s}
    <3>1. Len(lru) # 0 /\ Head(lru) = lru[1] /\ 1 \in DOMAIN lru
      BY <1>0, <2>1, ZclRxAssumption
    <3>2. Head(lru) \in InUse
      BY <3>1 DEF InUse, ToSet
    <3> QED
      BY <2>1, <3>2
  <2> QED
    BY <2>1 DEF Victims
<1>2. PICK rest : rest = Without(lru, Victims(s) \cup {s})
  OBVIOUS
<1>3. rest \in Seq(Streams) /\ Range(rest) = Range(lru) \ (Victims(s) \cup {s})
  BY <1>0, <1>2, WithoutFacts
<1>4. lru' \in Seq(Streams) /\ Range(lru') = Range(rest) \cup {s}
  <2>1. lru' = Append(rest, s)
    BY <1>2
  <2>2. Append(rest, s) \in Seq(Streams) /\ Range(Append(rest, s)) = Range(rest) \cup {s}
    BY <1>3, AppendRange
  <2> QED
    BY <2>1, <2>2
<1>5. InUse = Range(lru) /\ InUse' = Range(lru')
  BY DEF InUse, ToSet, Range
<1> QED
  BY <1>1, <1>3, <1>4, <1>5

LEMMA CarrierKeeps ==
    ASSUME RxInv, NEW c \in Carriers, RxCarrier(c.stream, c)
    PROVE  RxInv'
<1>1. PICK s \in Streams : s = c.stream
  BY StreamsAssumption DEF Carriers
<1>2. PICK x : x = IF s \in InUse THEN rx[s] ELSE NewStream
  OBVIOUS
<1>3. PICK p : p = [chunk |-> c.chunk, seq |-> c.seq, end |-> c.end, recs |-> c.recs,
                    old |-> FALSE]
  OBVIOUS
<1>4. PICK y : y = IF Stale(x, c) \/ Buffered(x, c) THEN x ELSE [x EXCEPT !.buf = @ \cup {p}]
  OBVIOUS
<1>5. PICK gone : gone = Victims(s)
  OBVIOUS
<1>6. /\ gone \subseteq InUse \ {s} /\ lru' \in Seq(Streams)
      /\ InUse' = (InUse \ gone) \cup {s}
  BY <1>1, <1>5, ListKeeps DEF RxCarrier
<1>7. StreamOK(x, emitted[s])
  <2>1. CASE s \in InUse
    BY <1>2, <2>1 DEF RxInv
  <2>2. CASE s \notin InUse
    BY <1>2, <2>2, NewStreamOK DEF RxInv, UseOK
  <2> QED
    BY <2>1, <2>2
<1>8. StreamOK(y, emitted[s])
  BY <1>3, <1>4, <1>7, BufferedOK
<1>9. rx' = [t \in Streams |-> IF t \in gone THEN NewStream ELSE IF t = s THEN y ELSE rx[t]]
  <2>1. PICK was : was = [rx EXCEPT ![s] = IF s \in InUse THEN @ ELSE NewStream]
    OBVIOUS
  <2>2. \A t \in Streams : was[t] = IF t = s THEN x ELSE rx[t]
    BY <1>2, <2>1 DEF RxInv
  <2>3. CASE Stale(x, c) \/ Buffered(x, c)
    <3>1. rx' = [t \in Streams |-> IF t \in gone THEN NewStream ELSE was[t]]
      BY <1>1, <1>5, <2>1, <2>2, <2>3 DEF RxCarrier
    <3> QED
      BY <1>4, <2>2, <2>3, <3>1
  <2>4. CASE ~(Stale(x, c) \/ Buffered(x, c))
    <3>1. rx' = [t \in Streams |-> IF t \in gone THEN NewStream
                                   ELSE IF t = s THEN [x EXCEPT !.buf = @ \cup {p}]
                                   ELSE was[t]]
      BY <1>1, <1>3, <1>5, <2>1, <2>2, <2>4 DEF RxCarrier
    <3> QED
      BY <1>4, <2>2, <2>4, <3>1
  <2> QED
    BY <2>3, <2>4
<1>10. emitted' = [t \in Streams |-> IF t \in gone THEN <<>> ELSE emitted[t]]
  BY <1>1, <1>5 DEF RxCarrier
<1>11. settling' \subseteq {s}
  BY <1>1 DEF RxCarrier
<1>12. ASSUME NEW t \in Streams PROVE StreamOK(rx'[t], emitted'[t])
  <2>1. CASE t \in gone
    BY <1>9, <1>10, <2>1, NewStreamOK
  <2>2. CASE t \notin gone /\ t = s
    BY <1>8, <1>9, <1>10, <2>2
  <2>3. CASE t \notin gone /\ t # s
    BY <1>9, <1>10, <2>3 DEF RxInv
  <2> QED
    BY <2>1, <2>2, <2>3
<1>13. rx' \in [Streams -> StreamRecords] /\ emitted' \in [Streams -> Seq(Records)]
  BY <1>9, <1>10, <1>12 DEF StreamOK, LogOK
<1>14. UseOK'
  <2>1. ASSUME NEW t \in Streams, t \notin InUse' PROVE emitted'[t] = <<>>
    BY <1>6, <1>10, <2>1 DEF RxInv, UseOK
  <2> QED
    BY <1>6, <1>11, <2>1 DEF UseOK
<1> QED
  BY <1>12, <1>13, <1>14 DEF RxInv

LEMMA NoMemoryKeeps ==
    ASSUME RxInv, NEW s \in Streams, RxNoMemory(s)
    PROVE  RxInv'
<1>0. lru \in Seq(Streams) /\ lru # <<>>
  <2>1. lru \in Seq(Streams) /\ Len(lru) = MaxStreams
    BY DEF RxInv, UseOK, RxNoMemory, Victims
  <2> QED
    BY <2>1, ZclRxAssumption
<1>1. PICK v : v = Head(lru)
  OBVIOUS
<1>2. v \in Streams /\ lru' \in Seq(Streams)
  BY <1>0, <1>1 DEF RxNoMemory
<1>3. InUse \subseteq InUse' \cup {v}
  <2>1. ASSUME NEW i \in DOMAIN lru, i # 1 PROVE i - 1 \in DOMAIN lru' /\ lru'[i - 1] = lru[i]
    BY <1>0, <2>1 DEF RxNoMemory
  <2>2. lru[1] = v
    BY <1>0, <1>1
  <2> QED
    BY <2>1, <2>2 DEF InUse, ToSet
<1>4. /\ rx' = [rx EXCEPT ![v] = NewStream] /\ emitted' = [emitted EXCEPT ![v] = <<>>]
      /\ settling = {} /\ settling' = {}
  BY <1>1 DEF RxNoMemory
<1>5. ASSUME NEW t \in Streams
      PROVE  /\ rx'[t] = IF t = v THEN NewStream ELSE rx[t]
             /\ emitted'[t] = IF t = v THEN <<>> ELSE emitted[t]
             /\ StreamOK(rx'[t], emitted'[t])
  <2>1. rx \in [Streams -> StreamRecords] /\ emitted \in [Streams -> Seq(Records)]
    BY DEF RxInv
  <2>2. rx'[t] = IF t = v THEN NewStream ELSE rx[t]
    BY <1>2, <1>4, <2>1
  <2>3. emitted'[t] = IF t = v THEN <<>> ELSE emitted[t]
    BY <1>2, <1>4, <2>1
  <2> QED
    BY <2>2, <2>3, NewStreamOK DEF RxInv
<1>6. rx' \in [Streams -> StreamRecords] /\ emitted' \in [Streams -> Seq(Records)]
  <2>1. NewStream \in StreamRecords /\ <<>> \in Seq(Records)
    BY NewStreamOK DEF StreamOK
  <2> QED
    BY <1>2, <1>4, <2>1 DEF RxInv
<1>7. UseOK'
  <2>1. ASSUME NEW t \in Streams, t \notin InUse' PROVE emitted'[t] = <<>>
    BY <1>3, <1>5, <2>1 DEF RxInv, UseOK
  <2> QED
    BY <1>2, <1>4, <2>1 DEF UseOK
<1> QED
  BY <1>5, <1>6, <1>7 DEF RxInv

LEMMA RxStep ==
    ASSUME RxInv, TxInv, [TunnelNext]_tunnelVars
    PROVE  RxInv'
<1>1. CASE UNCHANGED zclRxVars
  BY <1>1 DEF RxInv, UseOK, InUse, zclRxVars
<1>2. CASE Arrive
  BY <1>2, CarrierKeeps DEF Arrive, TxInv, TxTypeOK
<1>3. CASE Settle
  BY <1>3, SettleKeeps
<1>4. CASE RxTick
  BY <1>4 DEF RxTick, RxInv, UseOK, InUse
<1>5. CASE Elapse
  <2>1. \A s \in Streams : /\ emitted'[s] = emitted[s]
                           /\ StreamOK(rx'[s], emitted'[s])
    BY <1>5, ElapseOK DEF Elapse, RxInv
  <2>2. DOMAIN rx' = Streams /\ rx' = [s \in Streams |-> rx'[s]]
    BY <1>5 DEF Elapse
  <2>3. rx' \in [Streams -> StreamRecords]
    BY <2>1, <2>2 DEF StreamOK
  <2> QED
    BY <1>5, <2>1, <2>3 DEF Elapse, RxInv, UseOK, InUse
<1>6. CASE RxRestart
  <2>1. /\ rx' = [s \in Streams |-> NewStream] /\ emitted' = [s \in Streams |-> <<>>]
        /\ lru' = <<>> /\ settling' = {}
    BY <1>6 DEF RxRestart
  <2>2. NewStream \in StreamRecords /\ <<>> \in Seq(Records)
    BY NewStreamOK DEF StreamOK
  <2> QED
    BY <2>1, <2>2, NewStreamOK DEF RxInv, UseOK
<1>7. CASE \E c \in net : RxNoMemory(c.stream)
  <2>1. PICK c \in Carriers : RxNoMemory(c.stream)
    BY <1>7 DEF TxInv, TxTypeOK
  <2>2. c.stream \in Streams
    BY StreamsAssumption DEF Carriers
  <2> QED
    BY <2>1, <2>2, NoMemoryKeeps
<1> QED
  BY <1>1, <1>2, <1>3, <1>4, <1>5, <1>6, <1>7 DEF TunnelNext, tunnelVars

-----------------------------------------------------------------------------
(* The theorems. *)

\* The inductive invariant of the tunnel: zclo, the network and zcli.
THEOREM TunnelInvariant == TunnelSpec => []TunnelInv
<1>1. TunnelInit => TunnelInv
  BY TxInit, RxInit DEF TunnelInit, TunnelInv
<1>2. TunnelInv /\ [TunnelNext]_tunnelVars => TunnelInv'
  <2> SUFFICES ASSUME TunnelInv, [TunnelNext]_tunnelVars PROVE TunnelInv'
    OBVIOUS
  <2>1. ZclTxNext \/ UNCHANGED zclTxVars
    BY DEF TunnelNext, tunnelVars, Arrive
  <2> QED
    BY <2>1, TxStep, RxStep DEF TunnelInv
<1> QED
  BY <1>1, <1>2, PTL DEF TunnelSpec

\* Whichever thread of zclo abandons the chunk, and whatever is compressed while
\* a carrier is being sent, a bundle zclo took from BP is in one place and is
\* settled once (addBundle, cutAndSend, abandonChunk, settle).
THEOREM ZclCustodyHolds == TunnelSpec => []ZclCustody
<1>1. TunnelInv => ZclCustody
  BY DEF TunnelInv, TxInv
<1> QED
  BY <1>1, TunnelInvariant, PTL

\* However carriers are lost, repeated and reordered, zcli hands the records of a
\* stream to BP in the order they were compressed, each at most once, as long as
\* it runs and keeps the stream (zclRxCarrier, settle, resolveGap).
THEOREM ZclInOrderOnce == TunnelSpec => []InOrderOnce
<1>1. TunnelInv => InOrderOnce
  BY DEF TunnelInv, RxInv, StreamOK, LogOK, InOrderOnce
<1> QED
  BY <1>1, TunnelInvariant, PTL

\* zcli gives a carrier only to a decompressor that has seen its chunk from the
\* start, whatever gaps were given up before (resetChunk, decodeCarrier).
THEOREM ZclDecodedFromStart == TunnelSpec => []DecodedFromStart
<1>1. TunnelInv => DecodedFromStart
  BY DEF TunnelInv, RxInv, StreamOK, LogOK, DecodedFromStart
<1> QED
  BY <1>1, TunnelInvariant, PTL

=============================================================================
