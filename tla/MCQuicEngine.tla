---------------------------- MODULE MCQuicEngine ----------------------------
(* QuicEngine for TLC: two outducts to one neighbour. *)
EXTENDS QuicEngine

CONSTANTS n1

ToOne == [s \in Senders |-> n1]
=============================================================================
