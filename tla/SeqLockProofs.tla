--------------------------- MODULE SeqLockProofs ---------------------------
(***************************************************************************)
(* Theorems about SeqLock, for every set of readers, every modulus and     *)
(* every number of calibrations that SeqAssumption allows, and about       *)
(* syncTime() and the clock that the two make up, for every number of      *)
(* trials.                                                                 *)
(***************************************************************************)
EXTENDS TscClock, QueueLemmas

\* The parameters: complete ones between calibrations, and during one those
\* that are not written yet are the old ones.
ParamsInStep ==
  /\ ~saving => pending = {}
  /\ saving => current < MaxCalibrations
  /\ \A f \in Fields :
       param[f] = IF saving /\ f \notin pending THEN current + 1 ELSE current

\* param_seq_ is d calibrations ahead of the number n, and is odd during one.
Ahead(n, d) ==
  LET m == n + 2 * d + (IF saving THEN 1 ELSE 0)
  IN  seq = IF m < Numbers THEN m ELSE m - Numbers

\* What r has seen is current as long as no calibration has begun since it
\* read param_seq_; d have ended.
ReadSince(r, d) ==
  /\ Ahead(before[r], d)
  /\ d = 0 /\ ~saving => \A f \in Fields \ left[r] : seen[r][f] = current

ReadersFollow ==
  \A r \in Readers : stage[r] = "reading" => \E d \in 0..current : ReadSince(r, d)

\* The inductive invariant.
Locked == TypeOK /\ ParamsInStep /\ ReadersFollow

-----------------------------------------------------------------------------

\* The number that follows, without `%`.
LEMMA IncStep ==
  ASSUME NEW n \in 0..Numbers - 1
  PROVE  /\ (n + 1) % Numbers = IF n + 1 < Numbers THEN n + 1 ELSE 0
         /\ (n + 1) % Numbers \in 0..Numbers - 1
         /\ ((n + 1) % Numbers) % 2 = 1 - (n % 2)
<1>1. Numbers \in Nat /\ Numbers % 2 = 0 /\ Numbers > 0
  BY SeqAssumption DEF SeqAssumption
<1>2. (n + 1) % Numbers = IF n + 1 < Numbers THEN n + 1 ELSE 0
  BY <1>1
<1>3. (n + 1) % 2 = 1 - (n % 2)
  OBVIOUS
<1>. QED
  BY <1>1, <1>2, <1>3

\* & ~1 clears the last bit and nothing else.
LEMMA EvenBelow ==
  ASSUME NEW n \in 0..Numbers - 1
  PROVE  /\ Even(n) \in 0..Numbers - 1
         /\ n = Even(n) + (IF n % 2 = 1 THEN 1 ELSE 0)
BY SeqAssumption DEF SeqAssumption, Even

\* A number that is that of a reader again was never left: no more calibrations
\* fit into one call than param_seq_ can tell apart.
LEMMA NeverLeft ==
  ASSUME TypeOK, ParamsInStep,
         NEW n \in 0..Numbers - 1, NEW d \in 0..current, Ahead(n, d), n = seq
  PROVE  d = 0 /\ ~saving
<1>1. current \in Nat /\ current <= MaxCalibrations /\ MaxCalibrations \in Nat
  BY SeqAssumption DEF SeqAssumption, TypeOK, Gens
<1>2. 2 * d + (IF saving THEN 1 ELSE 0) < Numbers
  BY <1>1, SeqAssumption DEF SeqAssumption, ParamsInStep
<1>. QED
  BY <1>1, <1>2, SeqAssumption DEF SeqAssumption, Ahead

-----------------------------------------------------------------------------
(* The invariant.                                                          *)

\* Nobody reads or writes in the beginning.
LEMMA LockedInit == Init => Locked
<1>. SUFFICES ASSUME Init PROVE Locked
  OBVIOUS
<1>1. 0 \in 0..Numbers - 1 /\ 0 \in Gens
  BY SeqAssumption DEF SeqAssumption, Gens
<1>2. Of(0) \in [Fields -> Gens]
  BY <1>1 DEF Of
<1>3. TypeOK
  <2>1. /\ seq \in 0..Numbers - 1 /\ seq % 2 = 0
        /\ saving = FALSE /\ current = 0 /\ pending = {} /\ param = Of(0)
    BY DEF Init
  <2>2. saving <=> seq % 2 = 1
    BY <2>1
  <2>3. /\ stage \in [Readers -> {"idle", "again", "reading"}]
        /\ before \in [Readers -> 0..Numbers - 1]
        /\ left \in [Readers -> SUBSET Fields]
        /\ seen \in [Readers -> [Fields -> Gens]]
        /\ result \in [Readers -> [Fields -> Gens]]
    BY <1>1, <1>2 DEF Init
  <2>. QED
    BY <1>1, <1>2, <2>1, <2>2, <2>3 DEF TypeOK
<1>4. ParamsInStep
  BY DEF Init, ParamsInStep, Of
<1>5. ReadersFollow
  BY DEF Init, ReadersFollow
<1>. QED
  BY <1>3, <1>4, <1>5 DEF Locked

\* The first store of param_seq_.
LEMMA LockedStartSave == Locked /\ StartSave => Locked'
<1>. SUFFICES ASSUME Locked, StartSave PROVE Locked'
  OBVIOUS
<1>. USE DEF Locked
<1>1. TypeOK'
  <2>1. seq \in 0..Numbers - 1 /\ seq' = (seq + 1) % Numbers /\ ~saving /\ seq % 2 # 1
    BY DEF TypeOK, StartSave, Inc
  <2>2. seq' \in 0..Numbers - 1 /\ seq' % 2 = 1
    BY <2>1, IncStep
  <2>. QED
    BY <2>2 DEF TypeOK, StartSave, reader
<1>2. ParamsInStep'
  BY DEF ParamsInStep, StartSave
<1>3. ASSUME NEW r \in Readers, stage'[r] = "reading"
      PROVE  \E d \in 0..current' : ReadSince(r, d)'
  <2>1. PICK d \in 0..current : ReadSince(r, d)
    BY <1>3 DEF ReadersFollow, StartSave, reader
  <2>2. before'[r] = before[r] /\ before[r] \in 0..Numbers - 1
    BY DEF StartSave, reader, TypeOK
  <2>3. Ahead(before[r], d)'
    <3>1. seq' = IF seq + 1 < Numbers THEN seq + 1 ELSE 0
      BY IncStep DEF StartSave, Inc, TypeOK
    <3>2. ~saving /\ saving' /\ current \in Nat /\ current < MaxCalibrations
      BY DEF StartSave, TypeOK, Gens
    <3>. QED
      BY <2>1, <2>2, <3>1, <3>2, SeqAssumption
      DEF SeqAssumption, ReadSince, Ahead
  <2>. QED
    BY <2>1, <2>2, <2>3 DEF ReadSince, StartSave
<1>. QED
  BY <1>1, <1>2, <1>3 DEF ReadersFollow

\* A parameter is written.
LEMMA LockedSave ==
  ASSUME NEW f \in Fields PROVE Locked /\ Save(f) => Locked'
<1>. SUFFICES ASSUME Locked, Save(f) PROVE Locked'
  OBVIOUS
<1>. USE DEF Locked
<1>1. TypeOK'
  <2>1. current + 1 \in Gens
    BY SeqAssumption DEF SeqAssumption, ParamsInStep, Save, TypeOK, Gens
  <2>. QED
    BY <2>1 DEF TypeOK, Save, reader
<1>2. ParamsInStep'
  BY DEF ParamsInStep, Save, TypeOK
<1>3. ReadersFollow'
  BY DEF ReadersFollow, ReadSince, Ahead, Save, reader
<1>. QED
  BY <1>1, <1>2, <1>3

\* The second store of param_seq_.
LEMMA LockedEndSave == Locked /\ EndSave => Locked'
<1>. SUFFICES ASSUME Locked, EndSave PROVE Locked'
  OBVIOUS
<1>. USE DEF Locked
<1>1. TypeOK'
  <2>1. current + 1 \in Gens
    BY SeqAssumption DEF SeqAssumption, ParamsInStep, EndSave, TypeOK, Gens
  <2>2. seq \in 0..Numbers - 1 /\ seq' = (seq + 1) % Numbers /\ saving /\ seq % 2 = 1
    BY DEF TypeOK, EndSave, Inc
  <2>3. seq' \in 0..Numbers - 1 /\ seq' % 2 = 0
    <3>1. /\ (seq + 1) % Numbers \in 0..Numbers - 1
          /\ ((seq + 1) % Numbers) % 2 = 1 - (seq % 2)
      BY <2>2, IncStep
    <3>2. seq' \in 0..Numbers - 1 /\ seq' % 2 = 1 - 1
      BY <2>2, <3>1, Zenon
    <3>3. 1 - 1 = 0
      OBVIOUS
    <3>. QED
      BY <3>2, <3>3, Zenon
  <2>4. saving' = FALSE /\ current' \in Gens
    BY <2>1 DEF EndSave
  <2>5. saving' <=> seq' % 2 = 1
    <3>1. 0 # 1
      OBVIOUS
    <3>. QED
      BY <2>3, <2>4, <3>1, Zenon
  <2>6. /\ param' \in [Fields -> Gens] /\ pending' \in SUBSET Fields
        /\ stage' \in [Readers -> {"idle", "again", "reading"}]
        /\ before' \in [Readers -> 0..Numbers - 1]
        /\ left' \in [Readers -> SUBSET Fields]
        /\ seen' \in [Readers -> [Fields -> Gens]]
        /\ result' \in [Readers -> [Fields -> Gens]]
    BY DEF TypeOK, EndSave, reader
  <2>. QED
    BY <2>3, <2>4, <2>5, <2>6 DEF TypeOK
<1>2. ParamsInStep'
  BY DEF ParamsInStep, EndSave
<1>3. ASSUME NEW r \in Readers, stage'[r] = "reading"
      PROVE  \E d \in 0..current' : ReadSince(r, d)'
  <2>1. PICK d \in 0..current : ReadSince(r, d)
    BY <1>3 DEF ReadersFollow, EndSave, reader
  <2>2. before'[r] = before[r] /\ before[r] \in 0..Numbers - 1
    BY DEF EndSave, reader, TypeOK
  <2>3. /\ saving /\ ~saving' /\ current' = current + 1
        /\ current \in Nat /\ current < MaxCalibrations
    BY DEF EndSave, ParamsInStep, TypeOK, Gens
  <2>4. Ahead(before[r], d + 1)'
    <3>1. seq' = IF seq + 1 < Numbers THEN seq + 1 ELSE 0
      BY IncStep DEF EndSave, Inc, TypeOK
    <3>. QED
      BY <2>1, <2>2, <2>3, <3>1, SeqAssumption
      DEF SeqAssumption, ReadSince, Ahead
  <2>5. d + 1 \in 0..current' /\ d + 1 # 0
    BY <2>3
  <2>6. ReadSince(r, d + 1)'
    BY <2>2, <2>4, <2>5 DEF ReadSince
  <2>. QED
    BY <2>5, <2>6
<1>. QED
  BY <1>1, <1>2, <1>3 DEF ReadersFollow

\* A reader takes the number: none has ended since.
LEMMA LockedLoadBefore ==
  ASSUME NEW r \in Readers PROVE Locked /\ LoadBefore(r) => Locked'
<1>. SUFFICES ASSUME Locked, LoadBefore(r) PROVE Locked'
  OBVIOUS
<1>. USE DEF Locked
<1>1. TypeOK'
  BY EvenBelow DEF TypeOK, LoadBefore, writer
<1>2. ParamsInStep'
  BY DEF ParamsInStep, LoadBefore, writer
<1>3. ASSUME NEW q \in Readers, stage'[q] = "reading"
      PROVE  \E d \in 0..current' : ReadSince(q, d)'
  <2>1. CASE q = r
    <3>1. before'[r] = Even(seq) /\ left'[r] = Fields
      BY DEF LoadBefore, TypeOK
    <3>2. Ahead(Even(seq), 0)
      <4>1. seq \in 0..Numbers - 1 /\ (saving <=> seq % 2 = 1)
        BY DEF TypeOK
      <4>2. seq = Even(seq) + (IF saving THEN 1 ELSE 0)
        BY <4>1, EvenBelow
      <4>3. Even(seq) \in Nat /\ Numbers \in Nat /\ seq < Numbers
        BY <4>1, EvenBelow, SeqAssumption DEF SeqAssumption
      <4>. QED
        BY <4>2, <4>3 DEF Ahead
    <3>3. ReadSince(r, 0)'
      BY <3>1, <3>2 DEF ReadSince, Ahead, LoadBefore, writer
    <3>4. 0 \in 0..current'
      BY DEF TypeOK, LoadBefore, writer, Gens
    <3>. QED
      BY <2>1, <3>3, <3>4
  <2>2. CASE q # r
    BY <1>3, <2>2 DEF ReadersFollow, ReadSince, Ahead, LoadBefore, writer, TypeOK
  <2>. QED
    BY <2>1, <2>2
<1>. QED
  BY <1>1, <1>2, <1>3 DEF ReadersFollow

\* A reader loads a parameter.
LEMMA LockedLoad ==
  ASSUME NEW r \in Readers, NEW f \in Fields PROVE Locked /\ Load(r, f) => Locked'
<1>. SUFFICES ASSUME Locked, Load(r, f) PROVE Locked'
  OBVIOUS
<1>. USE DEF Locked
<1>1. TypeOK'
  BY DEF TypeOK, Load, writer
<1>2. ParamsInStep'
  BY DEF ParamsInStep, Load, writer
<1>3. ASSUME NEW q \in Readers, stage'[q] = "reading"
      PROVE  \E d \in 0..current' : ReadSince(q, d)'
  <2>1. PICK d \in 0..current : ReadSince(q, d)
    BY <1>3 DEF ReadersFollow, Load
  <2>2. Ahead(before[q], d)'
    BY <2>1 DEF ReadSince, Ahead, Load, writer
  <2>3. ASSUME d = 0, ~saving, NEW g \in Fields \ left'[q]
        PROVE  seen'[q][g] = current
    <3>1. CASE q = r /\ g = f
      BY <2>3, <3>1 DEF ParamsInStep, Load, TypeOK
    <3>2. CASE ~(q = r /\ g = f)
      <4>1. g \in Fields \ left[q] /\ seen'[q][g] = seen[q][g]
        BY <2>3, <3>2 DEF Load, TypeOK
      <4>. QED
        BY <2>1, <2>3, <4>1 DEF ReadSince
    <3>. QED
      BY <3>1, <3>2
  <2>. QED
    BY <2>2, <2>3 DEF ReadSince, Load, writer
<1>. QED
  BY <1>1, <1>2, <1>3 DEF ReadersFollow

\* A call ends or starts again.
LEMMA LockedLoadAfter ==
  ASSUME NEW r \in Readers PROVE Locked /\ LoadAfter(r) => Locked'
<1>. SUFFICES ASSUME Locked, LoadAfter(r) PROVE Locked'
  OBVIOUS
<1>. USE DEF Locked
<1>1. TypeOK'
  BY DEF TypeOK, LoadAfter, writer
<1>2. ParamsInStep'
  BY DEF ParamsInStep, LoadAfter, writer
<1>3. ReadersFollow'
  BY DEF ReadersFollow, ReadSince, Ahead, LoadAfter, writer, TypeOK
<1>. QED
  BY <1>1, <1>2, <1>3

LEMMA LockedStutter == Locked /\ UNCHANGED vars => Locked'
BY DEF Locked, TypeOK, ParamsInStep, ReadersFollow, ReadSince, Ahead,
       vars, writer, reader

\* The lock works: how far each reader is behind, and what it may have seen.
THEOREM LockHolds == Spec => []Locked
<1>1. Locked /\ [Next]_vars => Locked'
  BY LockedStartSave, LockedSave, LockedEndSave, LockedLoadBefore, LockedLoad,
     LockedLoadAfter, LockedStutter, Zenon
  DEF Next, Writer, Reader
<1>. QED
  BY LockedInit, <1>1, PTL DEF Spec

-----------------------------------------------------------------------------
(* What follows from it.                                                   *)

\* Types, and that the number is odd exactly during a calibration.
THEOREM SeqTypeCorrect == Spec => []TypeOK
<1>1. Locked => TypeOK
  BY DEF Locked
<1>. QED
  BY LockHolds, <1>1, PTL

\* A reader that finds its number has seen current parameters.
LEMMA SeenFollows == Locked => SeenIsCurrent
<1>. SUFFICES ASSUME Locked, NEW r \in Readers,
                     stage[r] = "reading", before[r] = seq
              PROVE  \A f \in Fields \ left[r] : seen[r][f] = current
  BY DEF SeenIsCurrent
<1>1. PICK d \in 0..current : ReadSince(r, d)
  BY DEF Locked, ReadersFollow
<1>2. d = 0 /\ ~saving
  BY <1>1, NeverLeft DEF Locked, TypeOK, ReadSince
<1>. QED
  BY <1>1, <1>2 DEF ReadSince

\* What a reader has read so far belongs to the current calibration, as long as
\* param_seq_ is the number it started with.
THEOREM SeenStaysCurrent == Spec => []SeenIsCurrent
BY LockHolds, SeenFollows, PTL

\* What Of() makes of a number of a calibration is a value of the abstract clock.
LEMMA AbstractValue ==
  ASSUME NEW g \in Gens PROVE Of(g) \in {Of(h) : h \in Gens}
OBVIOUS

\* The initial states agree.
LEMMA AtomicInit == Init => Clock!Init
<1>1. 0 \in Gens
  BY SeqAssumption DEF SeqAssumption, Gens
<1>. QED
  BY <1>1, AbstractValue DEF Init, Clock!Init

\* The end of a calibration is the abstract one, the end of a call that has
\* found its number again is the abstract read, all else is invisible.
LEMMA AtomicStep ==
  Locked /\ [Next]_vars => [Clock!Next]_<<Of(current), result>>
<1>. SUFFICES ASSUME Locked, [Next]_vars
              PROVE  \/ Clock!Next
                     \/ UNCHANGED <<Of(current), result>>
  OBVIOUS
<1>1. CASE EndSave
  <2>1. current' \in Gens
    BY <1>1, SeqAssumption
    DEF SeqAssumption, Locked, ParamsInStep, TypeOK, EndSave, Gens
  <2>2. Of(current)' \in {Of(g) : g \in Gens}
    BY <2>1, AbstractValue DEF Of
  <2>. QED
    BY <1>1, <2>2 DEF EndSave, reader, Clock!Next, Clock!Calibrate
<1>2. ASSUME NEW r \in Readers, LoadAfter(r)
      PROVE  Clock!Next \/ UNCHANGED <<Of(current), result>>
  <2>1. UNCHANGED current
    BY <1>2 DEF LoadAfter, writer
  <2>2. CASE before[r] = seq
    <3>1. \A f \in Fields : seen[r][f] = current
      BY <1>2, <2>2, SeenFollows DEF LoadAfter, SeenIsCurrent
    <3>2. seen[r] = Of(current)
      BY <3>1 DEF Locked, TypeOK, Of
    <3>3. result' = [result EXCEPT ![r] = Of(current)]
      BY <1>2, <2>2, <3>2 DEF LoadAfter
    <3>. QED
      BY <2>1, <3>3 DEF Clock!Next, Clock!Read, Of
  <2>3. CASE before[r] # seq
    BY <1>2, <2>1, <2>3 DEF LoadAfter, Of
  <2>. QED
    BY <2>2, <2>3
<1>3. CASE \/ StartSave \/ \E f \in Fields : Save(f)
           \/ \E r \in Readers : LoadBefore(r) \/ \E f \in Fields : Load(r, f)
           \/ UNCHANGED vars
  <2>1. UNCHANGED <<current, result>>
    BY <1>3 DEF StartSave, Save, LoadBefore, Load, vars, writer, reader
  <2>. QED
    BY <2>1 DEF Of
<1>. QED
  BY <1>1, <1>2, <1>3 DEF Next, Writer, Reader

\* A read of the clock takes the parameters of one calibration, one that was
\* current during the read: the sequence lock implements the clock without one.
THEOREM ClockIsAtomic == Spec => ReadsAreAtomic
<1>. QED
  BY LockHolds, AtomicInit, AtomicStep, PTL DEF Spec, ReadsAreAtomic, Clock!Spec

(***************************************************************************)
(* syncTime()                                                              *)
(***************************************************************************)

\* Each time lies between the two readings of the counter around it.
Readings ==
  \/ tsc = <<>> /\ ns = <<>>
  \/ /\ tsc \in Seq(Nat) /\ ns \in Seq(Nat)
     /\ Len(tsc) = Len(ns) + 1 /\ Len(ns) <= N
     /\ \A i \in 1..Len(ns) : tsc[i] <= ns[i] /\ ns[i] <= tsc[i + 1]

\* syncTime() begins with one reading of the counter.
LEMMA ReadingsInit == SyncInit => Readings
<1>. SUFFICES ASSUME SyncInit PROVE Readings
  OBVIOUS
<1>1. tsc = <<0>> /\ ns = <<>> /\ N \in Nat
  BY SyncAssumption DEF SyncInit, SyncAssumption
<1>2. tsc \in Seq(Nat) /\ ns \in Seq(Nat) /\ Len(tsc) = 1 /\ Len(ns) = 0
  BY <1>1
<1>. QED
  BY <1>1, <1>2 DEF Readings

\* A trial adds a time between two readings.
LEMMA ReadingsTrial == Readings /\ Trial => Readings'
<1>. SUFFICES ASSUME Readings, Trial PROVE Readings'
  OBVIOUS
<1>1. /\ tsc \in Seq(Nat) /\ ns \in Seq(Nat)
      /\ Len(tsc) = Len(ns) + 1 /\ Len(ns) < N
      /\ \A i \in 1..Len(ns) : tsc[i] <= ns[i] /\ ns[i] <= tsc[i + 1]
  BY DEF Readings, Trial
<1>2. PICK late \in 0..MaxGap, gap \in 0..MaxGap :
        /\ late <= gap
        /\ ns' = Append(ns, Last(tsc) + late)
        /\ tsc' = Append(tsc, Last(tsc) + gap)
  BY DEF Trial
<1>3. PICK n \in Nat : n = Len(ns) /\ n + 1 = Len(tsc)
  BY <1>1
<1>4. tsc[n + 1] \in Nat /\ Last(tsc) = tsc[n + 1] /\ late \in Nat /\ gap \in Nat
  <2>1. n + 1 \in 1..Len(tsc)
    BY <1>3
  <2>. QED
    BY <1>1, <1>3, <2>1, SyncAssumption DEF Last, SyncAssumption
<1>5. Last(tsc) + late \in Nat /\ Last(tsc) + gap \in Nat
  BY <1>4
<1>6. /\ ns' \in Seq(Nat) /\ Len(ns') = n + 1
      /\ \A i \in 1..n : ns'[i] = ns[i]
      /\ ns'[n + 1] = Last(tsc) + late
  BY <1>1, <1>2, <1>3, <1>5, PushBack
<1>7. /\ tsc' \in Seq(Nat) /\ Len(tsc') = (n + 1) + 1
      /\ \A i \in 1..n + 1 : tsc'[i] = tsc[i]
      /\ tsc'[(n + 1) + 1] = Last(tsc) + gap
  BY <1>1, <1>2, <1>3, <1>5, PushBack
<1>8. ASSUME NEW i \in 1..n + 1
      PROVE  tsc'[i] <= ns'[i] /\ ns'[i] <= tsc'[i + 1]
  <2>1. CASE i = n + 1
    BY <1>2, <1>4, <1>6, <1>7, <2>1
  <2>2. CASE i \in 1..n
    <3>1. i + 1 \in 1..n + 1
      BY <2>2
    <3>2. ns'[i] = ns[i] /\ tsc'[i] = tsc[i] /\ tsc'[i + 1] = tsc[i + 1]
      BY <1>6, <1>7, <2>2, <3>1
    <3>. QED
      BY <1>1, <1>3, <2>2, <3>2
  <2>. QED
    BY <2>1, <2>2
<1>9. n + 1 <= N
  BY <1>1, <1>3, SyncAssumption DEF SyncAssumption
<1>. QED
  BY <1>6, <1>7, <1>8, <1>9 DEF Readings

\* The loop over the trials ends with one that is none longer than another.
LEMMA BestIsShortest ==
  ASSUME \A i \in 1..N : Took(i) \in Nat
  PROVE  Best \in 1..N /\ \A j \in 1..N : Took(Best) <= Took(j)
<1>. DEFINE Eq(f) == f = [i \in 1..N |->
                            IF i = 1 THEN 1
                            ELSE IF Took(i) < Took(f[i - 1]) THEN i ELSE f[i - 1]]
            best == CHOOSE f : Eq(f)
            step == [i \in 1..N |-> [b \in 1..N |-> IF Took(i) < Took(b) THEN i ELSE b]]
<1>1. N \in Nat /\ 1 \in 1..N
  BY SyncAssumption DEF SyncAssumption
<1>2. step \in [1..N -> [1..N -> 1..N]]
  OBVIOUS
<1>3. PICK f \in [1..N -> 1..N] : Computes(f, N, 1, step)
  <2>. HIDE DEF step
  <2>. QED
    BY <1>1, <1>2, Recursion
<1>4. Eq(f)
  <2>1. ASSUME NEW i \in 1..N
        PROVE  f[i] = IF i = 1 THEN 1
                      ELSE IF Took(i) < Took(f[i - 1]) THEN i ELSE f[i - 1]
    <3>1. f[i] = IF i = 1 THEN 1 ELSE step[i][f[i - 1]]
      BY <1>3 DEF Computes
    <3>2. CASE i = 1
      BY <3>1, <3>2
    <3>3. CASE i # 1
      <4>1. i - 1 \in 1..N
        <5>. HIDE DEF step, Eq, best
        <5>. QED
          BY <1>1, <3>3
      <4>2. f[i - 1] \in 1..N
        BY <4>1
      <4>. QED
        BY <3>1, <3>3, <4>2
    <3>. QED
      BY <3>2, <3>3
  <2>. QED
    BY <2>1
<1>5. Eq(best)
  <2>. HIDE DEF Eq
  <2>. QED
    BY <1>4
<1>. HIDE DEF best
<1>6. \A i \in 1..N : best[i] = IF i = 1 THEN 1
                      ELSE IF Took(i) < Took(best[i - 1]) THEN i ELSE best[i - 1]
  BY <1>5
<1>. DEFINE Least(k) == best[k] \in 1..k /\ \A j \in 1..k : Took(best[k]) <= Took(j)
            Ok == {k \in Nat : k \in 1..N => Least(k)}
<1>7. 0 \in Ok
  BY <1>1
<1>8. ASSUME NEW k \in Nat, k \in Ok PROVE k + 1 \in Ok
  <2>. SUFFICES ASSUME k + 1 \in 1..N PROVE Least(k + 1)
    OBVIOUS
  <2>1. CASE k = 0
    <3>1. best[1] = 1
      BY <1>1, <1>6
    <3>2. Took(1) \in Nat /\ \A j \in 1..1 : j = 1
      BY <1>1
    <3>. QED
      BY <2>1, <3>1, <3>2
  <2>2. CASE k # 0
    <3>1. k \in 1..N /\ k + 1 # 1 /\ (k + 1) - 1 = k
      BY <1>1, <2>2
    <3>2. PICK b \in 1..k : b = best[k] /\ \A j \in 1..k : Took(b) <= Took(j)
      <4>1. Least(k)
        BY <1>8, <3>1
      <4>. QED
        BY <4>1
    <3>3. best[k + 1] = IF Took(k + 1) < Took(b) THEN k + 1 ELSE b
      <4>1. best[k + 1] = IF k + 1 = 1 THEN 1
              ELSE IF Took(k + 1) < Took(best[(k + 1) - 1]) THEN k + 1
                   ELSE best[(k + 1) - 1]
        BY <1>6
      <4>. QED
        BY <3>1, <3>2, <4>1
    <3>4. \A j \in 1..k + 1 : j \in 1..N /\ Took(j) \in Nat /\ (j = k + 1 \/ j \in 1..k)
      <4>1. \A j \in 1..k + 1 : j \in 1..N
        BY <1>1
      <4>2. \A j \in 1..k + 1 : j = k + 1 \/ j \in 1..k
        OBVIOUS
      <4>. QED
        BY <4>1, <4>2, Zenon
    <3>5. b \in 1..k + 1 /\ k + 1 \in 1..k + 1
      OBVIOUS
    <3>6. ASSUME NEW j \in 1..k + 1 PROVE Took(best[k + 1]) <= Took(j)
      <4>. DEFINE x == Took(b)
                  y == Took(k + 1)
                  z == Took(j)
      <4>1. x \in Nat /\ y \in Nat /\ z \in Nat /\ (j = k + 1 => z = y) /\ (j \in 1..k => x <= z)
        BY <3>2, <3>4, <3>5
      <4>2. Took(best[k + 1]) = IF y < x THEN y ELSE x
        BY <3>3
      <4>3. j = k + 1 \/ j \in 1..k
        BY <3>4
      <4>. HIDE DEF x, y, z
      <4>4. Took(best[k + 1]) <= z
        BY <4>1, <4>2, <4>3
      <4>. QED
        BY <4>4 DEF z
    <3>. QED
      BY <3>3, <3>5, <3>6
  <2>. QED
    BY <2>1, <2>2
<1>9. Nat \subseteq Ok
  <2>. HIDE DEF Ok
  <2>. QED
    BY <1>7, <1>8, Inductive
<1>10. Least(N)
  <2>1. N \in 1..N
    BY <1>1
  <2>. QED
    BY <1>1, <1>9, <2>1
<1>11. Best = best[N]
  BY Zenon DEF Best, best
<1>. QED
  BY <1>10, <1>11

\* Half a sum of integers is rounded down.
LEMMA Half ==
  ASSUME NEW s \in Nat
  PROVE  s \div 2 \in Nat /\ 2 * (s \div 2) <= s /\ s <= 2 * (s \div 2) + 1
OBVIOUS

\* The absolute value is one of the two.
LEMMA Larger ==
  ASSUME NEW a \in Int
  PROVE  Max({a, -a}) \in {a, -a}
<1>1. \E x \in {a, -a} : \A y \in {a, -a} : x >= y
  <2>1. CASE a >= 0
    BY <2>1
  <2>2. CASE ~(a >= 0)
    BY <2>2
  <2>. QED
    BY <2>1, <2>2
<1>. QED
  BY <1>1 DEF Max

\* The middle of the best trial is at most half of it away from its time.
LEMMA SyncedWithinBest == Readings => SyncWithinBest
<1>. SUFFICES ASSUME Readings, Len(ns) = N
              PROVE  LET off == syncTime.ns - syncTime.tsc
                     IN  2 * Max({off, -off}) <= Min({Took(i) : i \in 1..N}) + 1
  BY DEF SyncWithinBest
<1>1. N \in Nat \ {0}
  BY SyncAssumption DEF SyncAssumption
<1>2. /\ tsc \in Seq(Nat) /\ ns \in Seq(Nat) /\ Len(tsc) = N + 1
      /\ \A i \in 1..N : tsc[i] <= ns[i] /\ ns[i] <= tsc[i + 1]
  <2>1. ns # <<>>
    BY <1>1
  <2>. QED
    BY <2>1 DEF Readings
<1>3. ASSUME NEW i \in 1..N
      PROVE  tsc[i] \in Nat /\ tsc[i + 1] \in Nat /\ ns[i] \in Nat
  <2>1. i \in 1..Len(tsc) /\ i + 1 \in 1..Len(tsc) /\ i \in 1..Len(ns)
    BY <1>1, <1>2
  <2>. QED
    BY <1>2, <2>1
<1>4. \A i \in 1..N : Took(i) \in Nat
  <2>1. ASSUME NEW i \in 1..N PROVE Took(i) \in Nat
    <3>. DEFINE a == tsc[i]
                b == ns[i]
                c == tsc[i + 1]
    <3>1. a \in Nat /\ b \in Nat /\ c \in Nat /\ a <= b /\ b <= c /\ Took(i) = c - a
      BY <1>2, <1>3 DEF Took
    <3>. HIDE DEF a, b, c
    <3>. QED
      BY <3>1
  <2>. QED
    BY <2>1
<1>5. Best \in 1..N /\ \A j \in 1..N : Took(Best) <= Took(j)
  BY <1>4, BestIsShortest
<1>6. Min({Took(i) : i \in 1..N}) = Took(Best)
  <2>. DEFINE S == {Took(i) : i \in 1..N}
  <2>1. S \subseteq Nat /\ Took(Best) \in S /\ \A y \in S : Took(Best) <= y
    BY <1>4, <1>5
  <2>. HIDE DEF S
  <2>2. Min(S) \in S /\ \A y \in S : Min(S) <= y
    BY <2>1, HasMin
  <2>3. Min(S) \in Nat /\ Took(Best) \in Nat /\ Took(Best) <= Min(S) /\ Min(S) <= Took(Best)
    BY <2>1, <2>2
  <2>4. Min(S) = Took(Best)
    BY <2>3
  <2>. QED
    BY <2>4 DEF S
<1>. DEFINE a == tsc[Best]
            b == ns[Best]
            c == tsc[Best + 1]
            m == (a + c) \div 2
            off == b - m
<1>7. /\ a \in Nat /\ b \in Nat /\ c \in Nat /\ a <= b /\ b <= c
      /\ Took(Best) = c - a
  BY <1>2, <1>3, <1>5 DEF Took
<1>8. syncTime.ns - syncTime.tsc = off
  BY DEF syncTime
<1>9. m \in Nat /\ 2 * m <= a + c /\ a + c <= 2 * m + 1
  <2>. HIDE DEF a, b, c
  <2>1. a + c \in Nat
    BY <1>7
  <2>. QED
    BY <2>1, Half
<1>. HIDE DEF a, b, c, m
<1>10. off \in Int /\ 2 * off <= c - a + 1 /\ 2 * (-off) <= c - a + 1
  BY <1>7, <1>9
<1>11. 2 * Max({off, -off}) <= c - a + 1
  <2>. HIDE DEF off
  <2>. QED
    BY <1>10, Larger
<1>. QED
  BY <1>6, <1>7, <1>8, <1>11

\* The readings are in order at all times.
LEMMA ReadingsAlways == ClockSpec => []Readings
<1>1. ClockInit => Readings
  BY ReadingsInit DEF ClockInit
<1>2. Readings /\ [ClockNext]_<<vars, tsc, ns>> => Readings'
  <2>1. Readings /\ Synced => Readings'
    BY DEF Readings, Synced
  <2>2. Readings /\ UNCHANGED <<tsc, ns>> => Readings'
    BY DEF Readings
  <2>. QED
    BY <2>1, <2>2, ReadingsTrial DEF ClockNext
<1>. QED
  BY <1>1, <1>2, PTL DEF ClockSpec

\* syncTime() is off by no more than half of its shortest trial, rounded up, for
\* any number of trials, wherever the thread is interrupted and for how long.
THEOREM SyncIsExact == ClockSpec => []SyncWithinBest
BY ReadingsAlways, SyncedWithinBest, PTL

\* The trials of init() leave the lock alone: what is proved of the lock holds of
\* the whole clock.
THEOREM ClockRunsLock == ClockSpec => Spec /\ []Locked /\ ReadsAreAtomic
<1>1. ClockInit => Init
  BY DEF ClockInit
<1>2. [ClockNext]_<<vars, tsc, ns>> => [Next]_vars
  BY DEF ClockNext
<1>3. ClockSpec => Spec
  BY <1>1, <1>2, PTL DEF ClockSpec, Spec
<1>. QED
  BY <1>3, LockHolds, ClockIsAtomic, PTL
=============================================================================
