SPECIFICATION FairSpec
CONSTANTS
  Kinds <- TwoKinds
  Uninit = {0}
  BufCells = 12
  MaxMsgs = 2
  MaxReads = 2
PROPERTY CallsReturn
CHECK_DEADLOCK FALSE
