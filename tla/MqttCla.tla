------------------------------- MODULE MqttCla -------------------------------
(***************************************************************************)
(* The mqtt convergence layer: mqttclo publishes each bundle with QoS 1,   *)
(* mqttcli receives them in a persistent session of the broker's.          *)
(* The broker and the Paho client are external: the broker queues what is  *)
(* published for a session that has subscribed; the client acknowledges a  *)
(* message when it comes, before the daemon asks for it.                   *)
(***************************************************************************)
EXTENDS StoreBp

CONSTANT MaxPause   \* MQTT_MAX_RECONNECT_PAUSE

VARIABLES
    brokerUp,   \* the broker can be reached
    cloLink,    \* mqttclo's client is connected
    pause,      \* seconds mqttclo sleeps after a failure
    cliLink,    \* mqttcli's client is connected
    subscribed, \* the broker's session of mqttcli has the subscription
    queue,      \* messages the broker holds for that session, in order; one
                \* published again while it is still here is not told apart
    inbox,      \* messages acknowledged and not yet received by the daemon
    gone        \* history: bundles taken and lost by the broker or the client

mqttVars == <<brokerUp, cloLink, pause, cliLink, subscribed, queue, inbox, gone>>

MqttInit ==
    /\ brokerUp = FALSE /\ cloLink = FALSE /\ pause = 0 /\ cliLink = FALSE
    /\ subscribed = FALSE /\ queue = <<>> /\ inbox = <<>> /\ gone = {}

\* The broker goes and comes; it keeps its sessions.
MqttBroker ==
    /\ brokerUp' = ~brokerUp
    /\ IF brokerUp THEN Fault ELSE UNCHANGED faults
    /\ cloLink' = FALSE /\ cliLink' = FALSE
    /\ UNCHANGED <<bpVars, cloVars, rpc, pause, subscribed, queue, inbox, gone>>

-----------------------------------------------------------------------------
(* mqttclo. *)

\* The first connection may fail.
MqttStart ==
    /\ CloStart(FALSE)
    /\ cloLink' \in {FALSE, brokerUp}
    /\ pause' = 0
    /\ UNCHANGED <<brokerUp, cliLink, subscribed, queue, inbox, gone>>
MqttDequeue == Dequeue /\ UNCHANGED mqttVars
MqttGiveBack == GiveBack /\ UNCHANGED mqttVars
MqttBreakOff == BreakOff /\ UNCHANGED mqttVars
MqttLeaveLoop == LeaveLoop /\ UNCHANGED mqttVars
MqttEnd ==
    /\ mpc = "stop"
    /\ mpc' = "ended" /\ running' = FALSE
    /\ cloLink' = FALSE
    /\ UNCHANGED <<bpVars, hand, pend, fpc, batch, ok, cliVars, brokerUp, pause,
                   cliLink, subscribed, queue, inbox, gone>>

\* One second, then doubled up to the limit.
Backoff == IF pause = 0 THEN 1
           ELSE IF 2 * pause > MaxPause THEN MaxPause ELSE 2 * pause

\* The reconnection fails: BP has the bundle again.
MqttReconnectFails ==
    /\ mpc = "have" /\ ~cloLink
    /\ XmitFailure({hand}) /\ hand' = NoBundle /\ mpc' = "loop"
    /\ pause' = Backoff
    /\ UNCHANGED <<acquired, stranded, running, pend, fpc, batch, ok,
                   cliVars, brokerUp, cloLink, cliLink, subscribed, queue, inbox, gone>>

MqttReconnect ==
    /\ mpc = "have" /\ ~cloLink /\ brokerUp
    /\ cloLink' = TRUE /\ pause' = 0
    /\ UNCHANGED <<bpVars, cloVars, cliVars, brokerUp, cliLink, subscribed, queue, inbox,
                   gone>>

Enqueue(q, b) == IF b \in Range(q) THEN q ELSE Append(q, b)

\* The broker takes a message: for the session, or for nobody.
Publish(b) ==
    /\ IF subscribed THEN queue' = Enqueue(queue, b) /\ UNCHANGED gone
                     ELSE gone' = gone \cup {b} /\ UNCHANGED queue

\* publishMessage and waitForCompletion; without an answer in time it failed,
\* whether the broker has the message or not.
MqttPublish ==
    /\ mpc = "have" /\ cloLink
    /\ \E taken \in BOOLEAN, heard \in BOOLEAN :
          /\ heard => taken
          /\ IF taken THEN Publish(hand) ELSE UNCHANGED <<queue, gone>>
          /\ IF heard THEN XmitSuccess({hand}) ELSE XmitFailure({hand})
          /\ pause' = IF heard THEN 0 ELSE Backoff
    /\ hand' = NoBundle /\ mpc' = "loop"
    /\ UNCHANGED <<acquired, stranded, running, pend, fpc, batch, ok, cliVars,
                   brokerUp, cloLink, cliLink, subscribed, inbox>>

MqttClo ==
    \/ MqttStart \/ MqttDequeue \/ MqttGiveBack \/ MqttBreakOff \/ MqttLeaveLoop
    \/ MqttEnd \/ MqttReconnectFails \/ MqttReconnect \/ MqttPublish

-----------------------------------------------------------------------------
(* mqttcli. *)

\* Connects and subscribes if it can; a refused subscription ends it.
MqttCliStart ==
    /\ rpc = "ended"
    /\ \/ rpc' = "idle" /\ UNCHANGED <<cliLink, subscribed>>
       \/ brokerUp /\ rpc' = "idle" /\ cliLink' = TRUE /\ subscribed' = TRUE
    /\ UNCHANGED <<faults, bpVars, cloVars, brokerUp, cloLink, pause, queue, inbox, gone>>

\* The client reconnects and subscribes again.  A subscription that fails is not
\* tried again while the connection lasts.
MqttCliReconnect ==
    /\ rpc = "idle" /\ ~cliLink /\ brokerUp
    /\ cliLink' = TRUE
    /\ subscribed' \in {subscribed, TRUE}
    /\ UNCHANGED <<bpVars, cloVars, cliVars, brokerUp, cloLink, pause, queue, inbox,
                   gone>>

\* The client takes a message off the network and acknowledges it.
MqttArrive ==
    /\ rpc # "ended" /\ cliLink
    /\ queue # <<>> /\ queue' = Tail(queue) /\ inbox' = Enqueue(inbox, Head(queue))
    /\ UNCHANGED <<bpVars, cloVars, cliVars, brokerUp, cloLink, pause, cliLink,
                   subscribed, gone>>

\* The daemon receives a message and has BP acquire it.
MqttReceive ==
    /\ rpc = "idle" /\ cliLink
    /\ inbox # <<>> /\ inbox' = Tail(inbox) /\ Acquire({Head(inbox)})
    /\ UNCHANGED <<bp, stranded, cloVars, cliVars, brokerUp, cloLink, pause,
                   cliLink, subscribed, queue, gone>>

\* The client is destroyed with what it holds.
CliDies ==
    /\ gone' = gone \cup Range(inbox)
    /\ inbox' = <<>> /\ cliLink' = FALSE /\ CliEnds

\* BP cannot acquire: the message is freed and the daemon ends.
MqttReceiveFails ==
    /\ rpc = "idle" /\ cliLink /\ inbox # <<>>
    /\ CliDies
    /\ UNCHANGED <<bpVars, cloVars, brokerUp, cloLink, pause, subscribed, queue>>

MqttCliStop ==
    /\ rpc = "idle"
    /\ CliDies
    /\ UNCHANGED <<bpVars, cloVars, brokerUp, cloLink, pause, subscribed, queue>>

MqttCliStep == MqttCliStart \/ MqttCliReconnect \/ MqttArrive \/ MqttReceive
MqttCli == MqttCliStep \/ MqttReceiveFails \/ MqttCliStop

MqttNext == MqttBroker \/ MqttClo \/ MqttCli

AtBroker(b) == b \in Range(queue) \cup Range(inbox)
=============================================================================
