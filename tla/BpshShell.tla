------------------------------ MODULE BpshShell ------------------------------
(* Clients and daemon, over BP. *)
EXTENDS BpshSession, BpshClient

bpshVars == <<netVars, daemonVars, clientVars>>

BpshInit == NetInit /\ DaemonInit /\ ClientInit

Threads(c) ==
    \/ TakePending(c) \/ Receive(c) \/ ForwardEof(c) \/ ExitSession(c) \/ CloseSap(c)
User(c) == SendReq(c) \/ LeaveRepl(c) \/ Interrupt(c) \/ ForwardChunk(c)

BpshNext ==
    \/ (DaemonStep \/ RunTimeout \/ HandleQuit \/ Command) /\ UNCHANGED clientVars
    \/ \E c \in Clients : Start(c) /\ UNCHANGED daemonVars
    \/ \E c \in Clients : (Threads(c) \/ User(c)) /\ UNCHANGED <<daemonVars, plan>>
    \/ (Lost \/ Repeat) /\ UNCHANGED <<daemonVars, clientVars>>

BpshSpec == BpshInit /\ [][BpshNext]_bpshVars

\* The daemon's thread and the process group run, the clock reaches the limit, a
\* bundle that is not lost arrives, and a client's threads run.  What a user does
\* (start, type, interrupt, feed stdin) is not assumed.
BpshFairness ==
    /\ WF_bpshVars(DaemonStep /\ UNCHANGED clientVars)
    /\ WF_bpshVars(RunTimeout /\ UNCHANGED clientVars)
    /\ WF_bpshVars(Command /\ UNCHANGED clientVars)
    /\ \A c \in Clients :
          WF_bpshVars(Threads(c) /\ UNCHANGED <<daemonVars, plan>>)

BpshFairSpec == BpshSpec /\ BpshFairness

-----------------------------------------------------------------------------
(* Properties. *)

\* The EXIT a client takes is the answer to its last REQ, and by then the client
\* has written, in order and once, every chunk that the command wrote to either
\* stream and bpshd could send, whatever order the bundles came in and whichever
\* of the daemon's came twice.  Two repeats are excepted, for what bpshd takes twice
\* it does twice: after a repeated REQ the EXIT of the second run may be taken for a
\* later command's, and a repeated INIT starts the numbers anew.
CameAgain(c, type) ==
    \E f \in again : f.eid = c /\ f.sid = cli[c].sid /\ f.type = type
ExitAfterAllOutput ==
    \A c \in Clients : cli[c].res # <<>> =>
        /\ cli[c].res[1] = cli[c].req \/ CameAgain(c, "REQ")
        /\ (/\ cli[c].res = <<cli[c].req, "normal">> /\ cli[c].cmd = "say"
            /\ ~CameAgain(c, "INIT"))
           => \A s \in Streams :
              SelectSeq(cli[c].shown, LAMBDA o : o[2] = s)
              = SelectSeq([i \in 1 .. OutLen[s] |-> <<cli[c].req, s, i>>],
                          LAMBDA o : <<c, cli[c].sid, o>> \notin dropped)

\* The daemon's write of stdin waits for room in a pipe that nobody will read any
\* more: the command does not read, has ended (the shell keeps the pipe open), or
\* waits itself for the daemon to read its output.  This is for ever: the loop that
\* would read the output, look at the clock and see the signal is the one that waits.
Reads == CmdRuns /\ job.cmd = "cat" /\ (job.hold = 0 \/ Len(job.out["out"]) < PipeCap)
Jammed == job # NoJob /\ job.pc = "write" /\ job.group /\ Len(job.in) = PipeCap /\ ~Reads

\* A client that waits for INIT_ACK or for its command's EXIT gets an answer,
\* unless a frame was lost or a numbered reply could not be sent; an output chunk
\* that could not be sent does not stall it, nor does a repeated bundle, except the
\* session's own INIT.  With the command timeout disabled a command that does not
\* end keeps everybody waiting, except its own client that starts anew; a jammed
\* daemon does so with the timeout too.
Stuck(c) ==
    /\ ~cfg.timeout /\ job # NoJob /\ job.cmd \in {"hang", "cat"}
    /\ job.eid # c \/ cli[c].st = "result"
AnswersCome ==
    \A c \in Clients :
        Waiting(c) ~> \/ ~Waiting(c) \/ broken \/ ~running \/ Stuck(c)
                      \/ CameAgain(c, "INIT") \/ Jammed

\* Told to end, bpshd ends, if commands are limited and it is not jammed.
QuitEnds == ~running /\ cfg.timeout ~> ended \/ Jammed

=============================================================================
