SPECIFICATION FairSpec
CONSTANTS
  Bufs = {b1, b2, b3}
  NoBuf = NoBuf
  InSize = 1
  OutSize = 3
  Tails = {"exact"}
  MaxPerRead = 1
  MaxReads = 3
  Window = 2
INVARIANT NoMutualWait
PROPERTIES BeatAnswered RequestFollowsLogon InQueueDrains
CHECK_DEADLOCK FALSE
