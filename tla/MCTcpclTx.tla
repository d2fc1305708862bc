------------------------------ MODULE MCTcpclTx ------------------------------
(* TcpclTx for TLC: bundle lengths as a definition over model values. *)
EXTENDS TcpclTx

CONSTANTS b1, b2, b3, s1, s2

Lengths == [b \in Bundles |-> IF b = b2 THEN 2 ELSE 1]

\* Senders are alike, and so are the bundles of one length.
TxSymmetry == Permutations(Senders) \cup Permutations(Bundles \ {b2})
=============================================================================
