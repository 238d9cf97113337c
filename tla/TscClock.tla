------------------------------ MODULE TscClock ------------------------------
(***************************************************************************)
(* The clock of include/tscns.h as a program uses it: init() calls         *)
(* syncTime() and saves what it returns; then calibrations and readers     *)
(* share the parameters.                                                   *)
(***************************************************************************)
EXTENDS SeqLock, ClockSync

ClockInit == Init /\ SyncInit

\* The readings are syncTime()'s own and end with it.
Synced == Len(ns) = N /\ tsc' = <<>> /\ ns' = <<>>

ClockNext ==
  \/ Trial /\ UNCHANGED vars
  \/ Synced /\ UNCHANGED vars
  \/ tsc = <<>> /\ Next /\ UNCHANGED <<tsc, ns>>

ClockSpec == ClockInit /\ [][ClockNext]_<<vars, tsc, ns>> /\ Fairness
=============================================================================
