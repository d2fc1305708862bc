------------------------------ MODULE MCTcpclRx ------------------------------
(* TcpclRx for TLC. *)
EXTENDS TcpclRx
=============================================================================
