----------------------------- MODULE MCTcpServer -----------------------------
(* Small instances of TcpServer.  Buffers are interchangeable, and so are the *)
(* connections; descriptors are not, for the kernel takes the lowest.         *)
EXTENDS TcpServer, TLC

Symmetry == Permutations(Bufs) \cup Permutations(Clients)
=============================================================================
