SPECIFICATION Spec
CONSTANTS
  Bufs = {b1, b2, b3}
  NoBuf = NoBuf
  InSize = 2
  OutSize = 3
  Tails = {"exact", "overrun", "stuck"}
  MaxPerRead = 2
  MaxReads = 3
  Window = 99
SYMMETRY Symmetry
INVARIANTS TypeOK Discipline NoUseAfterRelease PostedIsPrivate PostNeverWaits OnlyCutReadsLeak
PROPERTIES BuffersFollowLife WireInOrder
CHECK_DEADLOCK FALSE
