SPECIFICATION ClockSpec
CONSTANTS
  Readers = {r1}
  Numbers = 8
  MaxCalibrations = 3
  N = 3
  MaxGap = 5
INVARIANTS TypeOK SeenIsCurrent SyncWithinBest
PROPERTIES ReadsAreAtomic ReadsReturn
CHECK_DEADLOCK FALSE
