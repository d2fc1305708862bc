--------------------------- MODULE MCTcpclSession ---------------------------
(* TcpclSession for TLC: bundle lengths as a definition over model values. *)
EXTENDS TcpclSession

CONSTANTS b1, s1

Lengths == [b \in Bundles |-> 1]
=============================================================================
