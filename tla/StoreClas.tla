------------------------------ MODULE StoreClas ------------------------------
(***************************************************************************)
(* The three convergence layers that go through a store.  A duct uses one  *)
(* of them; nothing is shared between ducts but BP, so a behaviour here is *)
(* a behaviour of the daemons of one protocol.                             *)
(***************************************************************************)
EXTENDS MailCla, MysqlCla, MqttCla

VARIABLE proto    \* the protocol of the duct

storeVars == <<bpVars, cloVars, cliVars, mailVars, sqlVars, mqttVars, proto>>

StoresInit ==
    /\ proto \in {"mail", "mysql", "mqtt"}
    /\ StoreInit /\ SqlInit /\ MqttInit
    /\ MailInit
    /\ proto # "mail" => <<digest, enc>> = CHOOSE m \in MailModes : TRUE

ViaMail(A) == proto = "mail" /\ A /\ UNCHANGED <<sqlVars, mqttVars, proto>>
ViaMysql(A) == proto = "mysql" /\ A /\ UNCHANGED <<mailVars, mqttVars, proto>>
ViaMqtt(A) == proto = "mqtt" /\ A /\ UNCHANGED <<mailVars, sqlVars, proto>>

StoresNext == ViaMail(MailNext) \/ ViaMysql(SqlNext) \/ ViaMqtt(MqttNext)

StoresSpec == StoresInit /\ [][StoresNext]_storeVars

\* Every thread runs, a server that is away comes back, and bpadmin restarts an
\* input daemon that ended; the faults of the receiving side are finitely many.
\* (proto never changes, so a disjunction over the protocols states the fairness
\* of each.)
StoresFairness ==
    /\ WF_storeVars(\/ ViaMail(MailTellEnd \/ MailJoined)
                    \/ ViaMysql(SqlTellEnd \/ SqlJoined)
                    \/ ViaMqtt(MqttEnd))
    /\ WF_storeVars(\/ ViaMail(MailSmtp \/ MailSettle \/ MailTakeBatch \/ MailFlushEnds)
                    \/ ViaMysql(SqlConnect \/ SqlInsert \/ SqlSettle \/ SqlTakeBatch
                                \/ SqlFlushEnds))
    /\ WF_storeVars(\/ ViaMail(MailCliStep) \/ ViaMysql(SqlCliStep)
                    \/ ViaMqtt(MqttCliStart \/ MqttCliReconnect \/ MqttReceive))
    /\ WF_storeVars(ViaMqtt(MqttArrive))
    /\ WF_storeVars(ViaMysql(~dbUp /\ SqlServer) \/ ViaMqtt(~brokerUp /\ MqttBroker))

StoresFairSpec == StoresSpec /\ StoresFairness

-----------------------------------------------------------------------------
(* Properties. *)

\* The store of the duct's protocol has the bundle.
Held(b) ==
    CASE proto = "mail" -> InMail(b)
      [] proto = "mysql" -> InTable(b)
      [] proto = "mqtt" -> AtBroker(b)

\* A bundle BP may forget is in the store or has been acquired at the other end:
\* no message is deleted, no row committed away, no session thrown away, before
\* what it carries has been injected, whatever is skipped, retried or rolled back.
\* (Two losses of mqtt are recorded in gone and excepted: what a broker takes without
\* a subscriber, and what a client has acknowledged when it is destroyed.)
KeptUntilAcquired ==
    \A b \in Bundles : bp[b] = "sent" => b \in acquired \/ Held(b) \/ b \in gone

\* A bundle BP has handed over is in exactly one place of the output daemon, from
\* where it will be reported once; what the daemon frees unreported is stranded.
OutIsInOnePlace ==
    \A b \in Bundles :
        (IF hand = b THEN 1 ELSE 0) + Times(pend, b) + Times(batch, b)
            = IF bp[b] = "out" /\ b \notin stranded THEN 1 ELSE 0

\* An output daemon told to end ends, also while the server is away, and has
\* reported all that it buffered.
EndsDrained ==
    mpc = "stop" ~> mpc = "ended" /\ pend = <<>> /\ batch = <<>>

\* What the store holds for the node comes out of it in the end, across failed
\* polls, rolled back batches, skipped messages and restarts.
HeldIsAcquired ==
    \A b \in Own : Held(b) ~> b \in acquired \cup gone

=============================================================================
