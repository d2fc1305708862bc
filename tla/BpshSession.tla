---------------------------- MODULE BpshSession ----------------------------
(***************************************************************************)
(* A session of the daemon while it runs a command (bpshSessionRun), and   *)
(* the command itself, which is one of                                     *)
(*   say    writes OutLen chunks to each stream and exits;                 *)
(*   flood  the same, with more chunks than the output limit allows;       *)
(*   cat    copies its stdin to stdout until the end of it;                *)
(*   hang   neither reads, writes nor ends;                                *)
(*   exit   ends the shell, or the subshell where stdin is forwarded.      *)
(***************************************************************************)
EXTENDS Bpshd

CONSTANT OutLen    \* chunks "say" writes to each stream

sess == sessions[job.eid]
runFrame == <<cfg, running, served, ended, idles>>

Writes(cmd, s) ==
    CASE cmd = "say" -> OutLen[s]
      [] cmd = "flood" -> IF s = "err" THEN OutLimit + 1 ELSE 0
      [] OTHER -> 0

-----------------------------------------------------------------------------
(* The process group. *)

CmdRuns == job # NoJob /\ job.group /\ ~job.rc

CmdWrite(s) ==
    /\ CmdRuns
    /\ job.made[s] < Writes(job.cmd, s)
    /\ Len(job.out[s]) < PipeCap
    /\ job' = [job EXCEPT !.made[s] = @ + 1,
                          !.out[s] = Append(@, job.made[s] + 1)]
    /\ UNCHANGED <<netVars, runFrame, sessions, deferred, dropped>>

CatRead ==
    /\ CmdRuns /\ job.cmd = "cat" /\ job.hold = 0 /\ job.in # <<>>
    /\ job' = [job EXCEPT !.hold = Head(job.in), !.in = Tail(@)]
    /\ UNCHANGED <<netVars, runFrame, sessions, deferred, dropped>>

CatWrite ==
    /\ CmdRuns /\ job.hold # 0 /\ Len(job.out["out"]) < PipeCap
    /\ job' = [job EXCEPT !.hold = 0, !.out["out"] = Append(@, job.hold)]
    /\ UNCHANGED <<netVars, runFrame, sessions, deferred, dropped>>

\* The shell writes the exit code to fd 4 when the command has ended.
Finished ==
    \/ /\ job.cmd \in {"say", "flood"}
       /\ \A s \in Streams : job.made[s] = Writes(job.cmd, s)
    \/ job.cmd = "cat" /\ job.in = <<>> /\ job.hold = 0 /\ ~sess.stdinOpen
    \/ job.cmd = "exit" /\ sess.wantStdin
CmdEnds ==
    /\ CmdRuns /\ Finished
    /\ job' = [job EXCEPT !.rc = TRUE]
    /\ UNCHANGED <<netVars, runFrame, sessions, deferred, dropped>>

ShellExits ==
    /\ CmdRuns /\ job.cmd = "exit" /\ ~sess.wantStdin
    /\ job' = [job EXCEPT !.group = FALSE]
    /\ UNCHANGED <<netVars, runFrame, sessions, deferred, dropped>>

Command == CatRead \/ CatWrite \/ CmdEnds \/ ShellExits \/ \E s \in Streams : CmdWrite(s)

-----------------------------------------------------------------------------
(* The daemon's loop around the command. *)

InLoop == job # NoJob /\ job.pc = "loop"

\* killSession.
Killed(j, why) == [j EXCEPT !.group = FALSE, !.pc = "finish", !.cause = why]

\* A chunk of output that cannot be sent is passed over, and takes no number.
SendStream(s, sent) ==
    LET chunk == <<job.req, s, Head(job.out[s])>>
    IN /\ down' = IF sent THEN [down EXCEPT ![job.eid] = @ \cup
                                 {ToClient(sess.sid, sess.replySeq, "OUTPUT", chunk)}]
                  ELSE down
       /\ dropped' = IF sent THEN dropped ELSE dropped \cup {<<job.eid, sess.sid, chunk>>}
       /\ Count(sent)
       /\ UNCHANGED broken

NextSeqAlways(sent) == sess.replySeq + 1
NextSeq(sent) == IF sent THEN sess.replySeq + 1 ELSE sess.replySeq

\* One pass reads a chunk of a stream; past the output limit the group is killed.
RunRead(s) ==
    /\ InLoop /\ job.out[s] # <<>>
    /\ \E sent \in Outcomes \cup (IF running THEN {} ELSE {FALSE}) :
          /\ SendStream(s, sent)
          /\ LET over == job.total + 1 > OutLimit
                 j == [job EXCEPT !.out[s] = Tail(@), !.total = @ + 1]
             IN /\ job' = IF over THEN Killed(j, "output-limit") ELSE j
                /\ sessions' = [sessions EXCEPT ![job.eid].replySeq = NextSeq(sent),
                                                ![job.eid].shellAlive = ~over]
    /\ UNCHANGED <<upVars, runFrame, deferred>>

\* The exit code arrives on the control pipe.
RunCtl ==
    /\ InLoop /\ job.rc
    /\ job' = [job EXCEPT !.pc = "finish"]
    /\ UNCHANGED <<netVars, runFrame, sessions, deferred, dropped>>

\* The clock has reached the limit, if there is one.
ExpiredRunning == cfg.timeout /\ running
ExpiredNoStdin == cfg.timeout /\ ~sess.stdinOpen
Expired == cfg.timeout
RunTimeout ==
    /\ InLoop /\ Expired
    /\ job' = Killed(job, "timeout")
    /\ sessions' = [sessions EXCEPT ![job.eid].shellAlive = FALSE]
    /\ UNCHANGED <<netVars, runFrame, deferred, dropped>>

\* Both streams have closed without an exit code: the shell itself has ended.
RunEof ==
    /\ InLoop /\ ~job.group /\ ~job.rc /\ \A s \in Streams : job.out[s] = <<>>
    /\ job' = [job EXCEPT !.pc = "finish", !.cause = "killed"]
    /\ sessions' = [sessions EXCEPT ![job.eid].shellAlive = FALSE]
    /\ UNCHANGED <<netVars, runFrame, deferred, dropped>>

Own(f) == f.eid = job.eid /\ f.sid = sess.sid
PollTakes(f) ==
    /\ InLoop /\ running /\ f \in up
    /\ TakeUp(f)
    /\ UNCHANGED <<down, faults, broken, runFrame, dropped>>

\* pollIncoming writes the session's own stdin to the pipe, and waits there while
\* it is full; a pipe nobody reads any more is closed.
PollStdin(f) ==
    /\ PollTakes(f)
    /\ f.type = "STDIN" /\ Own(f)
    /\ job' = IF sess.stdinOpen /\ job.group
              THEN IF Len(job.in) < PipeCap THEN [job EXCEPT !.in = Append(@, f.arg)]
                   ELSE [job EXCEPT !.pc = "write", !.writing = f.arg]
              ELSE job
    /\ sessions' = [sessions EXCEPT ![job.eid].stdinOpen = @ /\ job.group]
    /\ UNCHANGED deferred

\* The write that found the pipe full; a signal does not end it.
RunWrite ==
    /\ job # NoJob /\ job.pc = "write"
    /\ job.group => Len(job.in) < PipeCap
    /\ job' = [job EXCEPT !.pc = "loop", !.writing = 0,
                          !.in = IF job.group THEN Append(@, job.writing) ELSE @]
    /\ sessions' = [sessions EXCEPT ![job.eid].stdinOpen = job.group]
    /\ UNCHANGED <<netVars, runFrame, deferred, dropped>>

PollStdinEof(f) ==
    /\ PollTakes(f)
    /\ f.type = "STDIN_EOF" /\ Own(f)
    /\ sessions' = [sessions EXCEPT ![job.eid].stdinOpen = FALSE]
    /\ UNCHANGED <<job, deferred>>

\* Every other frame is put off; an INIT of this client kills the process group
\* first, so that the command ends and the INIT gets its turn.
PollDefer(f) ==
    /\ PollTakes(f)
    /\ ~(Own(f) /\ f.type \in {"STDIN", "STDIN_EOF"})
    /\ job' = [job EXCEPT !.group = @ /\ ~(f.type = "INIT" /\ f.eid = job.eid)]
    /\ deferred' = PutOff(f)
    /\ UNCHANGED sessions

\* What the pipes still hold, then the cwd of a live shell, then EXIT.  A drain
\* that fails leaves the rest of its stream behind.
DrainedNot(s, k) == <<>>
Drained(s, k) == [i \in 1 .. k |-> <<"OUTPUT", <<job.req, s, job.out[s][i]>>>>]
RunFinish ==
    /\ job # NoJob /\ job.pc = "finish"
    /\ \E k \in [Streams -> 0 .. PipeCap] :
          LET Cut(s) == k[s] < Len(job.out[s])
              cut == {s \in Streams : Cut(s)}
              out == Drained("out", k["out"]) \o Drained("err", k["err"])
              ctl == (IF sess.shellAlive /\ job.group THEN <<<<"CWD", 0>>>> ELSE <<>>)
                     \o <<<<"EXIT", <<job.req, job.cause>>>>>>
          IN /\ \A s \in Streams : k[s] <= Len(job.out[s])
             /\ Cardinality(cut) <= (IF running THEN MaxFaults - faults ELSE 2)
             /\ \E u \in IF cut = {} \/ ~running THEN Unsent(Len(ctl)) ELSE {{}} :
                   /\ Put(job.eid, sess.sid, sess.replySeq, out \o ctl,
                          {Len(out) + i : i \in u})
                   /\ faults' = IF running THEN faults + Cardinality(cut) + Cardinality(u)
                                ELSE faults
                   /\ broken' = (broken \/ u # {})
             /\ dropped' = dropped \cup
                   UNION {{<<job.eid, sess.sid, <<job.req, s, job.out[s][i]>>>> :
                             i \in k[s] + 1 .. Len(job.out[s])} : s \in Streams}
             /\ sessions' = IF sess.shellAlive
                   THEN [sessions EXCEPT ![job.eid].replySeq = @ + Len(out) + Len(ctl)]
                   ELSE Closed(job.eid)
    /\ job' = NoJob
    /\ UNCHANGED <<upVars, runFrame, deferred>>

RunPoll == \E f \in up : PollStdin(f) \/ PollStdinEof(f) \/ PollDefer(f)

DaemonStep ==
    \/ DrainDeferred \/ ReceiveFrame \/ PruneIdleSessions \/ Teardown
    \/ RunCtl \/ RunEof \/ RunWrite \/ RunFinish \/ RunPoll
    \/ \E s \in Streams : RunRead(s)
=============================================================================
