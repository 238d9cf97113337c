SPECIFICATION Spec
CONSTANTS
  Bufs = {b1, b2, b3}
  NoBuf = NoBuf
  InSize = 3
  OutSize = 3
  Tails = {"exact"}
  MaxPerRead = 2
  MaxReads = 3
  Window = 3
SYMMETRY Symmetry
INVARIANT NoMutualWait
CHECK_DEADLOCK FALSE
