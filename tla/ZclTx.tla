-------------------------------- MODULE ZclTx --------------------------------
(***************************************************************************)
(* zclo, the output side of the compressing tunnel: the main thread        *)
(* compresses the bundles of its outduct into the open chunk while the     *)
(* flush thread cuts carriers from it and sends them.  One lock (st.mtx)   *)
(* guards the compressor and the list of bundles to settle; it is let go   *)
(* while a carrier is sent and while bundles are reported to BP.           *)
(*                                                                         *)
(* A bundle's bytes are the bundle's name, and count as one.               *)
(***************************************************************************)
EXTENDS ListOps

CONSTANTS
    Bundles,
    NoBundle,
    ChunkBytes,   \* -c: a chunk that took in as much ends with its next carrier
    MaxCuts,      \* bound: carriers cut
    MaxRuns       \* bound: times zclo is started

ASSUME ZclTxAssumption ==
    /\ NoBundle \notin Bundles
    /\ ChunkBytes \in Nat \ {0} /\ MaxCuts \in Nat /\ MaxRuns \in Nat \ {0}

VARIABLES
    stream,    \* enc.streamId: the run of zclo, new with each start
    chunkId, seq, inChunk, chunkIn,   \* the fields of ZclEnc
    outBuf,    \* enc.out: bundles compressed since the last carrier was cut
    zcos,      \* st.zcos: bundles to settle with the next carrier
    shutdown,
    mpc, hand, \* the main thread and the bundle it has dequeued
    fpc, carrier, taken, sentOk, last, \* the flush thread in cutAndSend
    given,     \* per thread, bundles of an abandoned chunk to hand back
    atBp,      \* bundles BP may hand to the outduct
    settled,   \* history: bundles BP was told are sent
    cuts,      \* carriers cut, for the bound
    net        \* carriers handed to BP, on their way to the peer

encVars == <<chunkId, seq, inChunk, chunkIn, outBuf>>
flushVars == <<fpc, carrier, taken, sentOk, last>>
zclTxVars == <<stream, encVars, zcos, shutdown, mpc, hand, flushVars, given,
               atBp, settled, cuts, net>>

Threads == {"main", "flush"}

NoCarrier == [stream |-> 0, chunk |-> 0, seq |-> 0, end |-> FALSE,
              recs |-> <<>>]

EncInit ==
    /\ chunkId = 0 /\ seq = 0 /\ inChunk = FALSE /\ chunkIn = 0
    /\ outBuf = <<>>

ZclTxInit ==
    /\ stream = 1
    /\ EncInit
    /\ zcos = <<>>
    /\ shutdown = FALSE
    /\ mpc = "dequeue" /\ hand = NoBundle
    /\ fpc = "loop" /\ carrier = NoCarrier /\ taken = <<>>
    /\ sentOk = FALSE /\ last = FALSE
    /\ given = [t \in Threads |-> <<>>]
    /\ atBp = Bundles
    /\ settled = {}
    /\ cuts = 0
    /\ net = {}

-----------------------------------------------------------------------------
(* The compressor. *)

\* zclEncAdd: one more record in the open chunk.
EncAdd(b) ==
    /\ inChunk' = TRUE
    /\ chunkIn' = chunkIn + 1
    /\ outBuf' = Append(outBuf, b)
    /\ UNCHANGED <<chunkId, seq>>

\* The carrier zclEncCut makes of what is pending.
Cut(end) == [stream |-> stream, chunk |-> chunkId, seq |-> seq, end |-> end,
             recs |-> outBuf]

\* zclEncCut, once there is something to cut.
EncCut(end) ==
    /\ carrier' = Cut(end)
    /\ outBuf' = <<>>
    /\ chunkId' = IF end THEN chunkId + 1 ELSE chunkId
    /\ seq' = IF end THEN 0 ELSE seq + 1
    /\ inChunk' = ~end
    /\ chunkIn' = IF end THEN 0 ELSE chunkIn

\* "A chunk nothing was sent of may keep its number; one that is partly out must
\* not be continued under it."
ChunkAfterAbort == IF seq > 0 THEN chunkId + 1 ELSE chunkId

\* zclEncAbort
EncAbort ==
    /\ chunkId' = ChunkAfterAbort
    /\ seq' = 0 /\ inChunk' = FALSE /\ chunkIn' = 0 /\ outBuf' = <<>>

\* Mutant of AbandonChunk: the list is handed back and kept.
AbandonKeepingList(t) ==
    /\ EncAbort
    /\ given' = [given EXCEPT ![t] = zcos]
    /\ UNCHANGED zcos

\* abandonChunk, up to where it lets go of the lock: thread t hands back what
\* was compressed and not sent.
AbandonChunk(t) ==
    /\ EncAbort
    /\ given' = [given EXCEPT ![t] = zcos]
    /\ zcos' = <<>>

\* settle(zcos, n, FALSE): BP re-forwards the bundles.
HandBack(bs) == atBp' = atBp \cup ToSet(bs) /\ UNCHANGED settled

-----------------------------------------------------------------------------
(* The main thread. *)

\* A carrier that was routed into its own outduct is reported sent and dropped
\* here; that is one more way for the network to lose it.
MainDequeue(b) ==
    /\ mpc = "dequeue" /\ ~shutdown
    /\ b \in atBp
    /\ atBp' = atBp \ {b}
    /\ hand' = b
    /\ mpc' = "add"
    /\ UNCHANGED <<stream, encVars, zcos, shutdown, flushVars, given, settled,
                   cuts, net>>

\* addBundle
MainAdd ==
    /\ mpc = "add"
    /\ EncAdd(hand)
    /\ zcos' = Append(zcos, hand)
    /\ hand' = NoBundle
    /\ mpc' = "dequeue"
    /\ UNCHANGED <<stream, shutdown, flushVars, given, atBp, settled, cuts, net>>

\* The bundle cannot be read, or there is no memory to note it.
MainAddRefused ==
    /\ mpc = "add"
    /\ mpc' = "fail"
    /\ UNCHANGED <<stream, encVars, zcos, shutdown, hand, flushVars, given, atBp,
                   settled, cuts, net>>

\* The compressor fails: the chunk is lost, whatever the flush thread is at.
MainAddAborts ==
    /\ mpc = "add"
    /\ AbandonChunk("main")
    /\ mpc' = "abandon"
    /\ UNCHANGED <<stream, shutdown, hand, flushVars, atBp, settled, cuts, net>>

MainAbandoned ==
    /\ mpc = "abandon"
    /\ HandBack(given["main"])
    /\ given' = [given EXCEPT !["main"] = <<>>]
    /\ mpc' = "fail"
    /\ UNCHANGED <<stream, encVars, zcos, shutdown, hand, flushVars, cuts, net>>

\* bpHandleXmitFailure for the bundle itself.
MainFail ==
    /\ mpc = "fail"
    /\ HandBack(<<hand>>)
    /\ hand' = NoBundle
    /\ mpc' = "dequeue"
    /\ UNCHANGED <<stream, encVars, zcos, shutdown, flushVars, given, cuts, net>>

\* The outduct is closed or zclo is told to end.
MainStop ==
    /\ mpc = "dequeue"
    /\ shutdown' = TRUE
    /\ mpc' = "join"
    /\ UNCHANGED <<stream, encVars, zcos, hand, flushVars, given, atBp, settled,
                   cuts, net>>

\* pthread_join, and the end of the daemon: what is still listed is only freed.
MainJoin ==
    /\ mpc = "join" /\ fpc = "exited"
    /\ zcos' = <<>>
    /\ mpc' = "ended"
    /\ UNCHANGED <<stream, encVars, shutdown, hand, flushVars, given, atBp,
                   settled, cuts, net>>

\* zclo is started again: a new stream, and numbering from 0.
Restart ==
    /\ mpc = "ended" /\ stream < MaxRuns
    /\ stream' = stream + 1
    /\ chunkId' = 0 /\ seq' = 0 /\ inChunk' = FALSE /\ chunkIn' = 0
    /\ outBuf' = <<>>
    /\ shutdown' = FALSE
    /\ mpc' = "dequeue"
    /\ fpc' = "loop" /\ carrier' = NoCarrier /\ last' = FALSE
    /\ UNCHANGED <<zcos, hand, taken, sentOk, given, atBp, settled, cuts, net>>

Main == \/ \E b \in Bundles : MainDequeue(b)
        \/ MainAdd \/ MainAddRefused \/ MainAddAborts \/ MainAbandoned
        \/ MainFail \/ MainStop \/ MainJoin

-----------------------------------------------------------------------------
(* The flush thread. *)

\* end: the chunk is long enough, has been open long enough, or zclo ends.  A
\* carrier is cut once enough is pending or the window has passed, so at any
\* time.
EndChoices == IF shutdown \/ chunkIn >= ChunkBytes THEN {TRUE} ELSE BOOLEAN

TakeAndCut(end) ==
    /\ cuts < MaxCuts
    /\ cuts' = cuts + 1
    /\ EncCut(end)
    /\ taken' = zcos
    /\ zcos' = <<>>
    /\ fpc' = "send"
    /\ UNCHANGED <<stream, shutdown, mpc, hand, sentOk, given, atBp, settled, net>>

FlushCut ==
    /\ fpc = "loop" /\ outBuf # <<>>
    /\ \E end \in EndChoices : TakeAndCut(end)
    /\ UNCHANGED last

\* The loop ends with the last carrier: the open frame is closed, with an empty
\* carrier if nothing is pending.
FlushLast ==
    /\ fpc = "loop" /\ outBuf = <<>> /\ shutdown /\ inChunk
    /\ TakeAndCut(TRUE)
    /\ last' = TRUE

\* zclEncCut fails: the compressor, or a carrier the peer would refuse.
FlushCutFails ==
    /\ fpc = "loop" /\ (outBuf # <<>> \/ (shutdown /\ inChunk))
    /\ last' = (outBuf = <<>>)
    /\ AbandonChunk("flush")
    /\ fpc' = "abandon"
    /\ UNCHANGED <<stream, shutdown, mpc, hand, carrier, taken, sentOk, atBp,
                   settled, cuts, net>>

\* Mutant of FlushExit: the flag is tested only while there is output.
FlushExitMissed ==
    /\ fpc = "loop" /\ outBuf # <<>> /\ shutdown /\ ~inChunk
    /\ fpc' = "exited"
    /\ UNCHANGED <<stream, encVars, zcos, shutdown, mpc, hand, carrier, taken,
                   sentOk, last, given, atBp, settled, cuts, net>>

FlushExit ==
    /\ fpc = "loop" /\ outBuf = <<>> /\ shutdown /\ ~inChunk
    /\ fpc' = "exited"
    /\ UNCHANGED <<stream, encVars, zcos, shutdown, mpc, hand, carrier, taken,
                   sentOk, last, given, atBp, settled, cuts, net>>

\* sendCarrier, without the lock.
FlushSend ==
    /\ fpc = "send"
    /\ net' = net \cup {carrier}
    /\ sentOk' = TRUE
    /\ fpc' = "settle"
    /\ UNCHANGED <<stream, encVars, zcos, shutdown, mpc, hand, carrier, taken,
                   last, given, atBp, settled, cuts>>

\* No room for the carrier in the data store, or bp_send refuses it: the rest of
\* the chunk could not be decoded.
FlushSendFails ==
    /\ fpc = "send"
    /\ AbandonChunk("flush")
    /\ sentOk' = FALSE
    /\ fpc' = "abandon"
    /\ UNCHANGED <<stream, shutdown, mpc, hand, carrier, taken, last, atBp,
                   settled, cuts, net>>

FlushAbandoned ==
    /\ fpc = "abandon"
    /\ HandBack(given["flush"])
    /\ given' = [given EXCEPT !["flush"] = <<>>]
    /\ fpc' = "settle"
    /\ UNCHANGED <<stream, encVars, zcos, shutdown, mpc, hand, carrier, taken,
                   sentOk, last, cuts, net>>

\* The bundles of the carrier are settled by how it fared.
FlushSettle ==
    /\ fpc = "settle"
    /\ IF sentOk THEN settled' = settled \cup ToSet(taken) /\ UNCHANGED atBp
                 ELSE HandBack(taken)
    /\ taken' = <<>>
    /\ carrier' = NoCarrier
    /\ sentOk' = FALSE
    /\ fpc' = IF last THEN "exited" ELSE "loop"
    /\ UNCHANGED <<stream, encVars, zcos, shutdown, mpc, hand, last, given, cuts,
                   net>>

Flush == FlushCut \/ FlushCutFails \/ FlushLast \/ FlushExit \/ FlushSend
         \/ FlushSendFails \/ FlushAbandoned \/ FlushSettle

ZclTxNext == Main \/ Flush \/ Restart

ZclTxSpec == ZclTxInit /\ [][ZclTxNext]_zclTxVars

-----------------------------------------------------------------------------
(* Properties. *)

\* How many times a bundle is held: by BP, the main thread, the list of the open chunk,
\* the carrier being sent, or an abandoned chunk being handed back.
Holds(b) ==
    (IF b \in atBp THEN 1 ELSE 0) + (IF b \in settled THEN 1 ELSE 0)
    + (IF hand = b THEN 1 ELSE 0)
    + Times(zcos, b) + Times(taken, b)
    + Times(given["main"], b) + Times(given["flush"], b)

\* Every bundle is settled once, whichever thread abandons the chunk and
\* whatever is compressed while a carrier is being sent.
ZclCustody == \A b \in Bundles : Holds(b) = 1

=============================================================================
