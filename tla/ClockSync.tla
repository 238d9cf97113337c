----------------------------- MODULE ClockSync -----------------------------
(***************************************************************************)
(* syncTime() of include/tscns.h: the system clock is read N times between *)
(* N + 1 readings of the counter, and the shortest trial is taken.  Ticks  *)
(* and nanoseconds are the same unit here: a trial's system time is the    *)
(* moment at which the clock was read.                                     *)
(***************************************************************************)
EXTENDS Integers, Sequences, SequencesExt, FiniteSetsExt

CONSTANTS
  N,       \* trials, 3 in the code
  MaxGap   \* bound: ticks that a trial takes

ASSUME SyncAssumption == N \in Nat \ {0} /\ MaxGap \in Nat

VARIABLES
  tsc,     \* tsc[0] to tsc[i], counted from 1
  ns       \* ns[1] to ns[i]

SyncInit == tsc = <<0>> /\ ns = <<>>

\* One trial: the thread may be interrupted before and after the clock is read.
Trial ==
  /\ tsc # <<>> /\ Len(ns) < N
  /\ \E late \in 0..MaxGap, gap \in 0..MaxGap :
       /\ late <= gap
       /\ ns'  = Append(ns, Last(tsc) + late)
       /\ tsc' = Append(tsc, Last(tsc) + gap)

Took(i) == tsc[i + 1] - tsc[i]

\* Slip: the last trial is not looked at.
BestOfFirst ==
  LET best[i \in 1..N] ==
        IF i = 1 THEN 1
        ELSE IF i < N /\ Took(i) < Took(best[i - 1]) THEN i ELSE best[i - 1]
  IN  best[N]

\* `best` after the loop: the first of the shortest trials.
Best ==
  LET best[i \in 1..N] ==
        IF i = 1 THEN 1
        ELSE IF Took(i) < Took(best[i - 1]) THEN i ELSE best[i - 1]
  IN  best[N]

syncTime == [tsc |-> (tsc[Best] + tsc[Best + 1]) \div 2, ns |-> ns[Best]]

\* However often and wherever the thread is interrupted: the result is off by no
\* more than half of the shortest trial, rounded up.
SyncWithinBest ==
  Len(ns) = N =>
    LET off == syncTime.ns - syncTime.tsc
    IN  2 * Max({off, -off}) <= Min({Took(i) : i \in 1..N}) + 1
=============================================================================
