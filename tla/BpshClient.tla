----------------------------- MODULE BpshClient -----------------------------
(***************************************************************************)
(* The client: starts a session, sends a command line, and takes the       *)
(* frames that answer it in the order of their numbers until EXIT.  With   *)
(* stdin forwarding a second thread sends chunks until the command ends.   *)
(***************************************************************************)
EXTENDS BpshProto

CONSTANTS
    StdinLen,    \* chunks on each client's stdin
    Commands,    \* what the user may type, line by line, in each session
    Plans        \* bound: how often each client may be started

VARIABLES
    cli,
    plan    \* how often each client will still be started

clientVars == <<cli, plan>>

Off == [st |-> "off", sid |-> 0, seq |-> 0, next |-> 0, pending |-> {},
        req |-> 0, cmd |-> "none", shown |-> <<>>, res |-> <<>>, fwd |-> "no", sent |-> 0]
ClientInit == cli = [c \in Clients |-> Off] /\ plan \in Plans

Awaits(k) == k.st \in {"ack", "result"}
Waiting(c) == Awaits(cli[c])

\* sendTyped: the number is taken and the frame sent under sendMutex.
SendTyped(c, type, arg, well) ==
    /\ up' = IF well THEN up \cup {ToDaemon(c, cli[c].sid, cli[c].seq, type, arg)} ELSE up
    /\ Count(well)
    /\ UNCHANGED <<twice, again, down, broken>>

\* bpsh is started, with a session id of its own, and sends INIT.
Start(c) ==
    /\ cli[c].st = "off" /\ plan[c] > 0
    /\ plan' = [plan EXCEPT ![c] = @ - 1]
    /\ LET sid == cli[c].sid + 1
       IN /\ cli' = [cli EXCEPT ![c] = [Off EXCEPT !.st = "ack", !.sid = sid, !.seq = 1]]
          /\ up' = up \cup {ToDaemon(c, sid, 0, "INIT", c \in OneShot)}
    /\ UNCHANGED <<twice, again, down, faults, broken>>

\* A frame whose turn has come, or an ERROR, which waits for none, taken by client
\* c in state k: awaitInitAck, awaitCommandResult.
Over(k) == IF k.fwd = "no" THEN "exiting" ELSE "join"
Taken(c, k, f) ==
    CASE k.st = "ack" /\ f.type = "INIT_ACK" -> [k EXCEPT !.st = "prompt"]
      [] k.st = "ack" /\ f.type = "ERROR" -> [k EXCEPT !.st = "closing"]
      [] k.st = "result" /\ f.type = "OUTPUT" -> [k EXCEPT !.shown = Append(@, f.arg)]
      [] k.st = "result" /\ f.type = "ERROR" -> [k EXCEPT !.st = Over(k)]
      [] k.st = "result" /\ f.type = "EXIT" ->
           [k EXCEPT !.res = f.arg,
                     !.st = IF c \in OneShot \/ f.arg[2] = "killed" THEN Over(k)
                            ELSE "prompt"]
      [] OTHER -> k

\* recvOrderedFrame: a frame that is held and whose turn it is goes first.
InTurn(c, f) == f.seq = cli[c].next
TakePending(c) ==
    /\ Waiting(c)
    /\ \E f \in cli[c].pending :
          /\ InTurn(c, f)
          /\ cli' = [cli EXCEPT ![c] = [Taken(c, @, f) EXCEPT !.next = @ + 1,
                                                              !.pending = @ \ {f}]]
    /\ UNCHANGED netVars

\* A bundle arrives.  Its frame is taken, held for its turn, or dropped (another
\* session, stale, already held).  BP may deliver the bundle once more.
Keeps(c, f) == f.seq > cli[c].next /\ \A p \in cli[c].pending : p.seq # f.seq
Arrived(c, f) ==
    CASE f.sid # cli[c].sid -> cli[c]
      [] f.sid = cli[c].sid /\ f.type = "ERROR" -> Taken(c, cli[c], f)
      [] f.sid = cli[c].sid /\ f.type # "ERROR" ->
           IF InTurn(c, f) THEN [Taken(c, cli[c], f) EXCEPT !.next = @ + 1]
           ELSE IF Keeps(c, f) THEN [cli[c] EXCEPT !.pending = @ \cup {f}]
           ELSE cli[c]
Receive(c) ==
    /\ Waiting(c)
    /\ \A p \in cli[c].pending : ~InTurn(c, p)
    /\ \E f \in down[c], last \in Outcomes :
          /\ down' = IF last THEN [down EXCEPT ![c] = @ \ {f}] ELSE down
          /\ Count(last)
          /\ cli' = [cli EXCEPT ![c] = Arrived(c, f)]
    /\ UNCHANGED <<upVars, broken>>

\* The next command line: typed at the prompt, or the one of -c, which is given
\* up when it cannot be sent, as is the REPL.
SendReq(c) ==
    /\ cli[c].st = "prompt"
    /\ cli[c].seq \in DOMAIN Commands[c][cli[c].sid]
    /\ \E cmd \in Commands[c][cli[c].sid][cli[c].seq], well \in Outcomes :
          /\ SendTyped(c, "REQ", cmd, well)
          /\ cli' = [cli EXCEPT ![c].seq = @ + 1, ![c].req = cli[c].seq,
                       ![c].cmd = cmd, ![c].shown = <<>>, ![c].res = <<>>,
                       ![c].fwd = IF well /\ c \in OneShot THEN "run" ELSE "no",
                       ![c].st = IF well THEN "result" ELSE "exiting"]

\* End of input at the prompt.
LeaveRepl(c) ==
    /\ cli[c].st = "prompt" /\ c \notin OneShot
    /\ cli' = [cli EXCEPT ![c].st = "exiting"]
    /\ UNCHANGED netVars

\* SIGINT while it waits; before INIT_ACK no EXIT_SESSION is sent.
Interrupt(c) ==
    /\ Waiting(c) /\ faults < MaxFaults
    /\ faults' = faults + 1
    /\ cli' = [cli EXCEPT ![c].st =
                 IF @ = "ack" THEN "closing" ELSE Over(cli[c])]
    /\ UNCHANGED <<upVars, down, broken>>

\* stdinForwarder: a chunk; then, at the end of stdin, after a send that failed or
\* when the main thread has told it to stop, STDIN_EOF.
ForwardChunk(c) ==
    /\ cli[c].fwd = "run" /\ cli[c].sent < StdinLen[c] /\ cli[c].st # "join"
    /\ \E well \in Outcomes :
          /\ SendTyped(c, "STDIN", cli[c].sent + 1, well)
          /\ cli' = [cli EXCEPT ![c].seq = @ + 1, ![c].sent = @ + 1,
                       ![c].fwd = IF well THEN @ ELSE "eof"]
ForwardEof(c) ==
    /\ cli[c].fwd \in {"run", "eof"}
    /\ cli[c].sent = StdinLen[c] \/ cli[c].fwd = "eof" \/ cli[c].st = "join"
    /\ \E well \in Outcomes : SendTyped(c, "STDIN_EOF", 0, well)
    /\ cli' = [cli EXCEPT ![c].seq = @ + 1, ![c].fwd = "over"]

\* pthread_join, then EXIT_SESSION, and the client is gone.
ExitSession(c) ==
    /\ cli[c].st = "exiting" \/ (cli[c].st = "join" /\ cli[c].fwd = "over")
    /\ \E well \in Outcomes : SendTyped(c, "EXIT_SESSION", 0, well)
    /\ cli' = [cli EXCEPT ![c] = [Off EXCEPT !.sid = cli[c].sid]]

\* bp_close without a session to leave.
CloseSap(c) ==
    /\ cli[c].st = "closing"
    /\ cli' = [cli EXCEPT ![c] = [Off EXCEPT !.sid = cli[c].sid]]
    /\ UNCHANGED netVars
=============================================================================
