---------------------------- MODULE MCSeqLock ------------------------------
(* A small instance of TscClock whose numbers wrap round, with one reader,   *)
(* for readers write nothing that another one reads.                         *)
EXTENDS TscClock
=============================================================================
