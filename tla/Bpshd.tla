-------------------------------- MODULE Bpshd --------------------------------
(***************************************************************************)
(* The daemon: one thread that dispatches frames to a table of sessions,   *)
(* and, while a command runs, does nothing but serve it.  The shell and    *)
(* the command it runs are a process group of their own, which meets the   *)
(* daemon in four pipes: two for output, one for the forwarded stdin, one  *)
(* for the exit code.  A payload is a chunk; a pipe holds PipeCap of them. *)
(***************************************************************************)
EXTENDS BpshProto, Integers

CONSTANTS
    PipeCap,    \* chunks a pipe holds
    OutLimit,   \* BPSHD_OUTPUT_LIMIT, in chunks
    MaxIdle     \* bound: sessions that outlive the idle limit

ASSUME PipeAssumption == PipeCap \in Nat \ {0} /\ OutLimit \in Nat

VARIABLES
    cfg,        \* how the daemon was started: command timeout, sources refused
    running,    \* FALSE once it has had its signal
    sessions,   \* the session of each client
    deferred,   \* frames put off while a command ran
    job,        \* the command that is running
    served,     \* client whose frame was just taken, until the idle are reaped
    ended,      \* the daemon has ended
    idles,      \* sessions reaped so far
    dropped     \* history: output chunks bpshd failed to send

daemonVars == <<cfg, running, sessions, deferred, job, served, ended, idles, dropped>>

Streams == {"out", "err"}
NoSession == [sid |-> 0]
NoJob == [eid |-> "none"]
NoClient == "none"

DaemonInit ==
    /\ cfg \in [timeout : BOOLEAN, refused : {{}, OneShot}]
    /\ running = TRUE /\ ended = FALSE
    /\ sessions = [c \in Clients |-> NoSession]
    /\ deferred = <<>> /\ job = NoJob /\ served = NoClient
    /\ idles = 0 /\ dropped = {}

\* The frames of a burst of control replies that cannot be sent: none, one as a
\* fault, or any once the attendant is paused for the shutdown.
Unsent(n) ==
    IF running THEN {{}} \cup {{i} : i \in {j \in 1 .. n : faults < MaxFaults}}
    ELSE SUBSET (1 .. n)

\* Replies of a session, numbered from first on: a number is used up whether its
\* frame could be sent or not.
Put(c, sid, first, frames, unsent) ==
    down' = [down EXCEPT ![c] = @ \cup
               {ToClient(sid, first + i - 1, frames[i][1], frames[i][2]) :
                  i \in DOMAIN frames \ unsent}]
Reply(c, sid, first, frames, unsent) ==
    /\ Put(c, sid, first, frames, unsent)
    /\ Count(unsent = {} \/ ~running)
    /\ broken' = (broken \/ unsent # {})

\* An ERROR goes outside the numbering.
Error(f) == \E u \in Unsent(1) : Reply(f.eid, f.sid, 0, <<<<"ERROR", 0>>>>, u)

-----------------------------------------------------------------------------
(* The dispatcher: handleFrame. *)

\* removeSession: the shell is told to end, and killed if it does not.
Closed(c) == [sessions EXCEPT ![c] = NoSession]

\* sourceAllowed, authOk.
Refuse(f) ==
    /\ f.eid \in cfg.refused
    /\ Error(f)
    /\ UNCHANGED <<sessions, job, dropped>>

\* A session the client had before is closed, whatever the new one comes to.  The
\* cwd, where /proc shows it, has the number before INIT_ACK's.
Opened(f) == [sid |-> f.sid, replySeq |-> 0, wantStdin |-> f.arg,
              stdinOpen |-> f.arg, shellAlive |-> TRUE]
HandleInit(f) ==
    LET frames == <<<<"CWD", 0>>, <<"INIT_ACK", 0>>>>
    IN /\ f.type = "INIT"
       /\ \E u \in Unsent(2) : Reply(f.eid, f.sid, 0, frames, u)
       /\ sessions' = [sessions EXCEPT ![f.eid] = [Opened(f) EXCEPT !.replySeq = 2]]
       /\ dropped' = {d \in dropped : d[1] # f.eid}
       /\ UNCHANGED job

\* The shell cannot be forked, or its session not be kept.
HandleInitFails(f) ==
    /\ f.type = "INIT"
    /\ faults < MaxFaults
    /\ down' = [down EXCEPT ![f.eid] = @ \cup {ToClient(f.sid, 0, "ERROR", 0)}]
    /\ faults' = faults + 1
    /\ sessions' = Closed(f.eid)
    /\ UNCHANGED <<broken, job, dropped>>

\* bpshSessionRun up to its loop: the command line goes to the shell.
Started(f) == [eid |-> f.eid, req |-> f.n, cmd |-> f.arg, pc |-> "loop",
               group |-> TRUE, made |-> [s \in Streams |-> 0],
               out |-> [s \in Streams |-> <<>>], in |-> <<>>, hold |-> 0,
               rc |-> FALSE, writing |-> 0, total |-> 0, cause |-> "normal"]
HandleReq(f) ==
    /\ f.type = "REQ"
    /\ UNCHANGED <<sessions, dropped>>
    /\ IF /\ sessions[f.eid] # NoSession
          /\ sessions[f.eid].sid = f.sid
          /\ sessions[f.eid].shellAlive
       THEN job' = Started(f) /\ UNCHANGED <<down, faults, broken>>
       ELSE Error(f) /\ UNCHANGED job

\* No memory for the command line, or the shell is gone: the session is kept, or
\* closed, and the client told that the command was killed.
HandleReqFails(f) ==
    /\ f.type = "REQ"
    /\ sessions[f.eid] # NoSession
    /\ sessions[f.eid].sid = f.sid
    /\ faults < MaxFaults
    /\ down' = [down EXCEPT ![f.eid] = @ \cup
                  {ToClient(f.sid, sessions[f.eid].replySeq, "EXIT", <<f.n, "killed">>)}]
    /\ faults' = faults + 1
    /\ \/ sessions' = [sessions EXCEPT ![f.eid].replySeq = @ + 1]
       \/ sessions' = Closed(f.eid)
    /\ UNCHANGED <<broken, job, dropped>>

\* EXIT_SESSION closes the client's session, whichever it was meant for.
HandleExit(f) ==
    /\ f.type = "EXIT_SESSION"
    /\ sessions' = Closed(f.eid)
    /\ UNCHANGED <<down, faults, broken, job, dropped>>

\* Stdin that comes when its command does not run is thrown away.
HandleOther(f) ==
    /\ f.type \in {"STDIN", "STDIN_EOF"}
    /\ UNCHANGED <<down, faults, broken, sessions, job, dropped>>

HandleFrame(f) ==
    \/ Refuse(f)
    \/ /\ f.eid \notin cfg.refused
       /\ \/ HandleInit(f) \/ HandleInitFails(f) \/ HandleReq(f)
          \/ HandleReqFails(f) \/ HandleExit(f) \/ HandleOther(f)

-----------------------------------------------------------------------------
(* The receive loop. *)

AtLoop == ~ended /\ job = NoJob /\ served = NoClient

\* What was put off while a command ran goes first, in the order it came.
PutOff(f) == Append(deferred, f)
DrainDeferred ==
    /\ AtLoop /\ running /\ deferred # <<>>
    /\ HandleFrame(Head(deferred))
    /\ deferred' = Tail(deferred)
    /\ UNCHANGED <<upVars, cfg, running, served, ended, idles>>

ReceiveFrame ==
    /\ AtLoop /\ running /\ deferred = <<>>
    /\ \E f \in up :
          /\ HandleFrame(f)
          /\ TakeUp(f)
          /\ served' = f.eid
    /\ UNCHANGED <<cfg, running, deferred, ended, idles>>

\* pruneIdleSessions, when the frame (and the command it started) is done with;
\* the session just used is not idle.
PruneIdleSessions ==
    /\ ~ended /\ job = NoJob /\ served # NoClient
    /\ served' = NoClient
    /\ \/ UNCHANGED <<sessions, idles>>
       \/ \E c \in Clients \ {served} :
             /\ sessions[c] # NoSession /\ idles < MaxIdle
             /\ sessions' = Closed(c)
             /\ idles' = idles + 1
    /\ UNCHANGED <<netVars, cfg, running, deferred, job, ended, dropped>>

HandleQuit ==
    /\ running /\ faults < MaxFaults
    /\ running' = FALSE
    /\ faults' = faults + 1
    /\ UNCHANGED <<upVars, down, broken, cfg, sessions, deferred, job, served, ended, idles, dropped>>

TeardownDrained ==
    /\ AtLoop /\ ~running /\ deferred = <<>>
    /\ ended' = TRUE
    /\ sessions' = [c \in Clients |-> NoSession]
    /\ UNCHANGED <<netVars, cfg, running, deferred, job, served, idles, dropped>>
Teardown ==
    /\ AtLoop /\ ~running
    /\ ended' = TRUE
    /\ sessions' = [c \in Clients |-> NoSession]
    /\ UNCHANGED <<netVars, cfg, running, deferred, job, served, idles, dropped>>
=============================================================================
