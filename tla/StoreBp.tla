------------------------------- MODULE StoreBp -------------------------------
(***************************************************************************)
(* What the daemons of the mail, mysql and mqtt convergence layers share:  *)
(* BP's view of the bundles, the main loop of the output daemon with the   *)
(* bundle it has in hand, its flush thread, and what the input daemon has  *)
(* acquired.  The daemons of one protocol are two processes that meet only *)
(* in the store: a mailbox, a table, a broker.                             *)
(***************************************************************************)
EXTENDS ListOps, FiniteSetsExt

CONSTANTS
    Bundles,
    NoBundle,
    BatchMax,  \* bundles in a digest, or in a transaction
    MaxFaults  \* bound: faults on the receiving side

ASSUME StoreAssumption ==
    NoBundle \notin Bundles /\ BatchMax \in Nat \ {0} /\ IsFiniteSet(Bundles)

VARIABLES
    bp,        \* where BP believes each bundle is
    acquired,  \* bundles the receiving BP has acquired
    mpc,       \* main thread of the output daemon
    hand,      \* the bundle it has dequeued
    running,   \* FALSE once the main thread tells the flush thread to end
    pend,      \* bundles buffered for the flush thread
    fpc,       \* flush thread
    batch,     \* the bundles it is sending
    ok,        \* what it will tell BP of them
    stranded,  \* history: bundles dequeued and never given back
    rpc,       \* receiver thread of the input daemon
    faults     \* what has gone wrong there so far

bpVars == <<bp, acquired, stranded>>
cliVars == <<rpc, faults>>
cloVars == <<mpc, hand, running, pend, fpc, batch, ok>>

StoreInit ==
    /\ bp = [b \in Bundles |-> "queued"]
    /\ acquired = {} /\ stranded = {}
    /\ mpc = "start" /\ hand = NoBundle /\ running = FALSE
    /\ pend = <<>> /\ fpc = "exited" /\ batch = <<>> /\ ok = FALSE
    /\ rpc = "ended" /\ faults = 0

\* bpHandleXmitSuccess, bpHandleXmitFailure: BP forwards a failed bundle again.
Settle(S, how) == bp' = [b \in Bundles |-> IF b \in S THEN how ELSE bp[b]]
XmitSuccess(S) == Settle(S, "sent")
XmitFailure(S) == Settle(S, "queued")

\* bpadmin starts the output daemon, with a flush thread or without; a behaviour
\* is one run of it.
CloStart(flusher) ==
    /\ mpc = "start"
    /\ mpc' = "loop"
    /\ running' = TRUE
    /\ fpc' = IF flusher THEN "wait" ELSE "exited"
    /\ pend' = <<>>
    /\ UNCHANGED <<bpVars, hand, batch, ok, cliVars>>

\* bpDequeue.
Dequeue ==
    /\ mpc = "loop"
    /\ \E b \in Bundles :
          /\ bp[b] = "queued"
          /\ bp' = [bp EXCEPT ![b] = "out"]
          /\ hand' = b
    /\ mpc' = "have"
    /\ UNCHANGED <<acquired, stranded, running, pend, fpc, batch,
                   ok, cliVars>>

\* The bundle in hand is given back to BP.
GiveBack ==
    /\ mpc = "have"
    /\ XmitFailure({hand})
    /\ hand' = NoBundle
    /\ mpc' = "loop"
    /\ UNCHANGED <<acquired, stranded, running, pend, fpc, batch,
                   ok, cliVars>>

\* The daemon leaves its loop with the bundle in hand unsettled.
BreakOff ==
    /\ mpc = "have"
    /\ stranded' = stranded \cup {hand}
    /\ hand' = NoBundle
    /\ mpc' = "stop"
    /\ UNCHANGED <<bp, acquired, running, pend, fpc, batch, ok,
                   cliVars>>

\* The outduct is closed, SIGTERM came, or BP cannot dequeue.
LeaveLoop ==
    /\ mpc = "loop"
    /\ mpc' = "stop"
    /\ UNCHANGED <<bpVars, hand, running, pend, fpc, batch, ok, cliVars>>

\* The main thread has the flush thread end, and waits for it.
TellEnd ==
    /\ mpc = "stop"
    /\ running' = FALSE
    /\ mpc' = "join"
    /\ UNCHANGED <<bpVars, hand, pend, fpc, batch, ok, cliVars>>
Joined ==
    /\ mpc = "join" /\ fpc = "exited"
    /\ mpc' = "ended"
    /\ UNCHANGED <<bpVars, hand, running, pend, fpc, batch, ok, cliVars>>

\* The bundle in hand joins those buffered.
Buffer ==
    /\ mpc = "have"
    /\ pend' = Append(pend, hand)
    /\ hand' = NoBundle
    /\ mpc' = "loop"
    /\ UNCHANGED <<bpVars, running, fpc, batch, ok, cliVars>>

\* Mutant of TakeBatch: the count is not reset.
TakeBatchKeepsCount ==
    /\ fpc = "wait" /\ pend # <<>>
    /\ batch' = pend
    /\ fpc' = "send"
    /\ UNCHANGED <<bpVars, mpc, hand, running, pend, ok, cliVars>>

\* The flush thread takes all that is buffered: a full batch at once, a partial
\* one when the time it is held for is over, that is, at any time.
TakeBatch ==
    /\ fpc = "wait" /\ pend # <<>>
    /\ batch' = pend
    /\ pend' = <<>>
    /\ fpc' = "send"
    /\ UNCHANGED <<bpVars, mpc, hand, running, ok, cliVars>>

\* Mutant of FlushEnds: the thread ends with bundles buffered.
FlushEndsAtOnce ==
    /\ fpc = "wait" /\ ~running
    /\ fpc' = "exited"
    /\ UNCHANGED <<bpVars, mpc, hand, running, pend, batch, ok, cliVars>>

FlushEnds ==
    /\ fpc = "wait" /\ pend = <<>> /\ ~running
    /\ fpc' = "exited"
    /\ UNCHANGED <<bpVars, mpc, hand, running, pend, batch, ok, cliVars>>

\* Each bundle of the batch is reported.
SettleBatch ==
    /\ fpc = "settle"
    /\ IF ok THEN XmitSuccess(Range(batch)) ELSE XmitFailure(Range(batch))
    /\ batch' = <<>> /\ ok' = FALSE
    /\ fpc' = "wait"
    /\ UNCHANGED <<acquired, stranded, mpc, hand, running, pend, cliVars>>

\* Something goes wrong on the receiving side; one such thing is that the input
\* daemon ends.
Fault == faults < MaxFaults /\ faults' = faults + 1
CliEnds == rpc' = "ended" /\ Fault

\* bpBeginAcq, bpContinueAcq, bpEndAcq.
Acquire(S) == acquired' = acquired \cup S
=============================================================================
