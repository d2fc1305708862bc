----------------------------- MODULE MCQuicXfer -----------------------------
(* QuicXfer for TLC: bundles of one segment and of two. *)
EXTENDS QuicXfer

CONSTANTS b1, b2

Sizes == [b \in Bundles |-> IF b = b1 THEN 3 ELSE 1]
Urgent == [b \in Bundles |-> IF b = b1 THEN 0 ELSE 255]
=============================================================================
