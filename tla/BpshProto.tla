----------------------------- MODULE BpshProto -----------------------------
(***************************************************************************)
(* The frames bpsh and bpshd exchange, each in a bundle of its own.  BP    *)
(* may reorder bundles, lose one (it expires) or deliver one twice.  A     *)
(* frame to the daemon carries the client's endpoint; a frame to a client  *)
(* the session it belongs to and a sequence number that the client, and    *)
(* only the client, looks at.                                              *)
(***************************************************************************)
EXTENDS Naturals, Sequences, FiniteSets, SequencesExt

CONSTANTS
    Clients,    \* endpoints of the clients
    OneShot,    \* those running bpsh -c with a stdin that is no terminal
    MaxFaults   \* bound: bundles lost or repeated, sends and forks that fail, signals

ASSUME BpshAssumption == OneShot \subseteq Clients /\ MaxFaults \in Nat

VARIABLES
    up,         \* frames on their way to the daemon
    twice,      \* those of them that BP will deliver once more
    again,      \* history: frames that the daemon took and BP keeps for a second time
    down,       \* frames on their way to each client
    faults,     \* faults so far, or ruled out from the start
    broken      \* history: a frame somebody waits for will never come

upVars == <<up, twice, again>>
netVars == <<upVars, down, faults, broken>>

NetInit ==
    /\ up = {} /\ twice = {} /\ again = {}
    /\ down = [c \in Clients |-> {}]
    /\ faults \in 0 .. MaxFaults
    /\ broken = FALSE

\* What may go wrong once more.
Outcomes == IF faults < MaxFaults THEN BOOLEAN ELSE {TRUE}
Count(well) == faults' = IF well THEN faults ELSE faults + 1

ToDaemon(c, sid, n, type, arg) ==
    [eid |-> c, sid |-> sid, n |-> n, type |-> type, arg |-> arg]
ToClient(sid, seq, type, arg) ==
    [sid |-> sid, seq |-> seq, type |-> type, arg |-> arg]

\* BP loses a bundle on its way.
Lost ==
    /\ faults < MaxFaults
    /\ \/ \E f \in up \ twice : up' = up \ {f} /\ UNCHANGED down
       \/ \E c \in Clients : \E f \in down[c] :
             down' = [down EXCEPT ![c] = @ \ {f}] /\ UNCHANGED up
    /\ faults' = faults + 1
    /\ broken' = TRUE
    /\ UNCHANGED <<twice, again>>

\* BP comes to hold a second copy of a bundle for the daemon.
Repeat ==
    /\ faults < MaxFaults
    /\ \E f \in up \ twice : twice' = twice \cup {f}
    /\ faults' = faults + 1
    /\ UNCHANGED <<up, again, down, broken>>

\* The daemon takes one copy of a frame.
TakeUp(f) ==
    \/ /\ f \in twice
       /\ twice' = twice \ {f} /\ again' = again \cup {f}
       /\ UNCHANGED up
    \/ /\ f \notin twice
       /\ up' = up \ {f}
       /\ UNCHANGED <<twice, again>>
=============================================================================
