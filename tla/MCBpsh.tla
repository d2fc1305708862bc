------------------------------- MODULE MCBpsh -------------------------------
(* BpshShell for TLC: a REPL, a one-shot client beside it, and one by itself *)
(* that forwards more stdin than the command and the pipes hold.             *)
EXTENDS BpshShell

Lens == [s \in Streams |-> IF s = "out" THEN 1 ELSE 0]
Stdin == [c \in Clients |-> CASE c = "feed" -> 4 [] c = "shot" -> 1 [] OTHER -> 0]
Typed == [c \in Clients |->
    CASE c = "repl" -> << <<{"say", "hang"}>>, <<{"say", "flood", "exit"}, {"say"}>> >>
      [] c = "shot" -> << <<{"cat"}>> >>
      [] c = "feed" -> << <<{"say", "cat", "hang"}>> >>]

Runs(who) == [c \in Clients |-> who[c]]
MCPlans == {Runs([repl |-> 2, shot |-> 0, feed |-> 0]),
            Runs([repl |-> 1, shot |-> 1, feed |-> 0]),
            Runs([repl |-> 0, shot |-> 0, feed |-> 1])}

\* A REPL started twice, with a fault; it and a one-shot client, without one; or a
\* client that feeds a command, with no fault but the signal.
MCInit ==
    /\ BpshInit
    /\ plan["repl"] = 2 => cfg.refused = {}
    /\ plan["shot"] = 1 => faults = MaxFaults /\ cfg.timeout
    /\ plan["feed"] = 1 => cfg.timeout /\ cfg.refused = {}
Feeding == plan["feed"] = 1 \/ cli["feed"].sid = 1
OnlyQuit == Feeding /\ faults' # faults => running' # running

MCSpec == MCInit /\ [][BpshNext /\ OnlyQuit]_bpshVars /\ BpshFairness
=============================================================================
