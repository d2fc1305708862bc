---------------------------- MODULE MCZclTunnel ----------------------------
(* ZclTunnel for TLC. *)
EXTENDS ZclTunnel

CONSTANTS b1, b2
=============================================================================
