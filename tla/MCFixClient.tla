----------------------------- MODULE MCFixClient -----------------------------
(* Small instances of FixClient.  Buffers are interchangeable: no action and *)
(* no safety property tells one from another.                                *)
EXTENDS FixClient, TLC

Symmetry == Permutations(Bufs)
=============================================================================
