---------------------------- MODULE MCTcpclEngine ----------------------------
(* TcpclEngine for TLC: every sender thread serves an outduct to one node. *)
EXTENDS TcpclEngine

CONSTANTS n1, n2, s1, c1, c2

Targets == [s \in Senders |-> n1]
=============================================================================
