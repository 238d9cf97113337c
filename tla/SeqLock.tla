------------------------------ MODULE SeqLock ------------------------------
(***************************************************************************)
(* The sequence lock of include/tscns.h: one thread calls calibrate(),     *)
(* which saves three parameters, others call tsc2ns(), which reads them    *)
(* without a lock and starts again when param_seq_ has changed.            *)
(*                                                                         *)
(* An action is one load or store of shared memory.  The parameters are    *)
(* plain variables between compiler fences: they may be read and written   *)
(* in any order within these, and x86 keeps the order across them.  A      *)
(* parameter is the number of the calibration that it comes from.          *)
(***************************************************************************)
EXTENDS Naturals

CONSTANTS
  Readers,         \* threads that call tsc2ns()
  Numbers,         \* param_seq_ counts modulo Numbers, 2^32 in the code
  MaxCalibrations  \* bound: calls of saveParam()

\* A reader would have to sleep until the numbers come round to deceive it: with
\* one calibration every 3 seconds this is 200 years.
ASSUME SeqAssumption ==
  /\ MaxCalibrations \in Nat
  /\ Numbers \in Nat /\ Numbers % 2 = 0 /\ 2 * MaxCalibrations < Numbers

VARIABLES
  seq,      \* param_seq_
  param,    \* base_tsc_, base_ns_, ns_per_tsc_
  saving,   \* saveParam() is between its two stores of param_seq_
  pending,  \* the parameters that it has not written yet
  stage,    \* where each reader is in tsc2ns()
  before,   \* its before_seq
  left,     \* the parameters that it has not read yet
  seen,     \* those it has
  result,   \* what its last call has used
  current   \* number of calibrations that are complete

writer == <<seq, param, saving, pending, current>>
reader == <<stage, before, left, seen, result>>
vars   == <<writer, reader>>

Fields == {"base_tsc_", "base_ns_", "ns_per_tsc_"}
Gens   == 0..MaxCalibrations
Of(g)  == [f \in Fields |-> g]

TypeOK ==
  /\ seq \in 0..Numbers - 1 /\ (saving <=> seq % 2 = 1)
  /\ param \in [Fields -> Gens]
  /\ saving \in BOOLEAN /\ pending \in SUBSET Fields
  /\ stage \in [Readers -> {"idle", "again", "reading"}]
  /\ before \in [Readers -> 0..Numbers - 1]
  /\ left \in [Readers -> SUBSET Fields]
  /\ seen \in [Readers -> [Fields -> Gens]]
  /\ result \in [Readers -> [Fields -> Gens]]
  /\ current \in Gens

\* After init(), and any number of calibrations.
Init ==
  /\ seq \in {n \in 0..Numbers - 1 : n % 2 = 0}
  /\ param = Of(0) /\ saving = FALSE /\ pending = {} /\ current = 0
  /\ stage = [r \in Readers |-> "idle"] /\ before = [r \in Readers |-> 0]
  /\ left = [r \in Readers |-> {}]
  /\ seen = [r \in Readers |-> Of(0)] /\ result = [r \in Readers |-> Of(0)]

-----------------------------------------------------------------------------
(* calibrate()                                                             *)

\* Slip: the number does not wrap.
IncPlain == seq' = seq + 1

Inc == seq' = (seq + 1) % Numbers

\* It is time to calibrate.  The thread's own tsc2ns() finds nobody saving.
StartSave ==
  /\ ~saving /\ current < MaxCalibrations
  /\ saving' = TRUE /\ pending' = Fields
  /\ Inc
  /\ UNCHANGED <<param, current, reader>>

Save(f) ==
  /\ saving /\ f \in pending
  /\ param' = [param EXCEPT ![f] = current + 1]
  /\ pending' = pending \ {f}
  /\ UNCHANGED <<seq, saving, current, reader>>

\* Slip: param_seq_ stays odd.
EndSaveOdd ==
  /\ saving /\ pending = {}
  /\ saving' = FALSE /\ current' = current + 1
  /\ UNCHANGED <<seq, param, pending, reader>>

EndSave ==
  /\ saving /\ pending = {}
  /\ saving' = FALSE /\ current' = current + 1
  /\ Inc
  /\ UNCHANGED <<param, pending, reader>>

-----------------------------------------------------------------------------
(* tsc2ns()                                                                *)

\* Slip: an odd number is taken as it is.
EvenPlain(n) == n

\* & ~1
Even(n) == n - (n % 2)

LoadBefore(r) ==
  /\ stage[r] \in {"idle", "again"}
  /\ before' = [before EXCEPT ![r] = Even(seq)]
  /\ left' = [left EXCEPT ![r] = Fields]
  /\ stage' = [stage EXCEPT ![r] = "reading"]
  /\ UNCHANGED <<seen, result, writer>>

Load(r, f) ==
  /\ stage[r] = "reading" /\ f \in left[r]
  /\ seen' = [seen EXCEPT ![r][f] = param[f]]
  /\ left' = [left EXCEPT ![r] = @ \ {f}]
  /\ UNCHANGED <<stage, before, result, writer>>

\* Slip: the number is not looked at again.
LoadAfterTrusts(r) ==
  /\ stage[r] = "reading" /\ left[r] = {}
  /\ result' = [result EXCEPT ![r] = seen[r]]
  /\ stage' = [stage EXCEPT ![r] = "idle"]
  /\ UNCHANGED <<before, left, seen, writer>>

LoadAfter(r) ==
  /\ stage[r] = "reading" /\ left[r] = {}
  /\ IF before[r] = seq
     THEN /\ result' = [result EXCEPT ![r] = seen[r]]
          /\ stage' = [stage EXCEPT ![r] = "idle"]
     ELSE /\ stage' = [stage EXCEPT ![r] = "again"]
          /\ UNCHANGED result
  /\ UNCHANGED <<before, left, seen, writer>>

-----------------------------------------------------------------------------

Writer == StartSave \/ EndSave \/ \E f \in Fields : Save(f)

Reader(r) == LoadBefore(r) \/ LoadAfter(r) \/ \E f \in Fields : Load(r, f)

Next == Writer \/ \E r \in Readers : Reader(r)

Spec == Init /\ [][Next]_vars

\* Threads run: a calibration that has begun goes on, and so does a call.
Fairness ==
  /\ WF_vars(Writer /\ saving)
  /\ \A r \in Readers : WF_vars(Reader(r) /\ stage[r] # "idle")

FairSpec == Spec /\ Fairness

-----------------------------------------------------------------------------

\* What a reader has read so far belongs to the calibration that is current, as
\* long as param_seq_ has not moved on from the number it started with.
SeenIsCurrent ==
  \A r \in Readers :
    stage[r] = "reading" /\ before[r] = seq =>
      \A f \in Fields \ left[r] : seen[r][f] = current

\* A calibration is visible as a whole or not at all, and a call uses one that
\* was current while it ran, however reads and writes interleave.
Clock == INSTANCE AtomicClock WITH
  Values <- {Of(g) : g \in Gens},
  params <- Of(current)

ReadsAreAtomic == Clock!Spec

\* A call returns, if calibrations are rare enough: here, finitely many.
ReadsReturn == \A r \in Readers : stage[r] = "reading" ~> stage[r] = "idle"
=============================================================================
