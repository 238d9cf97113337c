---------------------------- MODULE MCFixHandler ----------------------------
(* Small instances of FixHandler. *)
EXTENDS FixHandler

\* Two types of message, of two lengths.
TwoKinds == {[type |-> "logon", fields |-> 1], [type |-> "beat", fields |-> 2]}
=============================================================================
