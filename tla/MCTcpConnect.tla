---------------------------- MODULE MCTcpConnect ----------------------------
(* A small instance of TcpConnect. *)
EXTENDS TcpConnect
=============================================================================
