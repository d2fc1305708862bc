------------------------------ MODULE ZclTunnel ------------------------------
(***************************************************************************)
(* The compressing tunnel: zclo, a network that loses, repeats and         *)
(* reorders carriers, and zcli.  A run of zclo is a stream.                *)
(***************************************************************************)
EXTENDS ZclTx, ZclRx

\* Each run of zclo draws a stream id.
ASSUME StreamsAssumption == 1 .. MaxRuns \subseteq Streams

tunnelVars == <<zclTxVars, zclRxVars>>

TunnelInit == ZclTxInit /\ ZclRxInit

\* BP hands a carrier to zcli; it stays in net, so it may come again.
Arrive ==
    /\ \E c \in net : RxCarrier(c.stream, c)
    /\ UNCHANGED zclTxVars

TunnelNext ==
    \/ ZclTxNext /\ UNCHANGED zclRxVars
    \/ Arrive
    \/ (Settle \/ RxTick \/ Elapse \/ RxRestart \/ \E c \in net : RxNoMemory(c.stream))
       /\ UNCHANGED zclTxVars

TunnelSpec == TunnelInit /\ [][TunnelNext]_tunnelVars

\* bp_receive returns with a carrier, or after a second without one; only then is
\* the reorder timeout applied to all streams.
Receives == Arrive \/ (RxTick /\ UNCHANGED zclTxVars)

\* Both threads of zclo run, a carrier being sent is sent or refused, zcli receives
\* and goes on with what it has received, and time passes whatever it does.
TunnelFairSpec ==
    /\ TunnelSpec
    /\ WF_tunnelVars((MainAdd \/ MainAbandoned \/ MainFail \/ MainJoin)
                     /\ UNCHANGED zclRxVars)
    /\ WF_tunnelVars(Flush /\ UNCHANGED zclRxVars)
    /\ WF_tunnelVars(Settle /\ UNCHANGED zclTxVars)
    /\ WF_tunnelVars(Receives)
    /\ SF_tunnelVars(Elapse /\ UNCHANGED zclTxVars)

-----------------------------------------------------------------------------
(* Properties. *)

\* Nothing stays in the reorder buffer for ever, if seconds without a carrier come
\* again and again.  That they do is not for zcli to say: a carrier of any stream,
\* also a repeated one, each second is enough that they never do, and that a gap
\* then outlasts reorder_ms for ever.
IdleSeconds == SF_tunnelVars(RxTick /\ UNCHANGED zclTxVars)
BufferEmpties == IdleSeconds => \A s \in Streams : rx[s].buf # {} ~> rx[s].buf = {}

\* zclo, told to end, ends, and by then every bundle is BP's again or sent.
EndsSettled ==
    mpc = "join" ~> (mpc = "ended" /\ \A b \in Bundles : b \in atBp \cup settled)

=============================================================================
