---------------------------- MODULE AtomicClock ----------------------------
(***************************************************************************)
(* What the clock of include/tscns.h promises its readers: a read takes    *)
(* the parameters of one calibration, those that are current at some       *)
(* moment of the read.                                                     *)
(***************************************************************************)
CONSTANTS Readers, Values
VARIABLES params,   \* the current parameters
          result    \* what each reader has read last

Init == params \in Values /\ result \in [Readers -> Values]

Calibrate == params' \in Values /\ UNCHANGED result

Read(r) == result' = [result EXCEPT ![r] = params] /\ UNCHANGED params

Next == Calibrate \/ \E r \in Readers : Read(r)

Spec == Init /\ [][Next]_<<params, result>>
=============================================================================
