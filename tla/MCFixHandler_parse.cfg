SPECIFICATION Spec
CONSTANTS
  Kinds <- TwoKinds
  Uninit = {0, 8, 10}
  BufCells = 20
  MaxMsgs = 3
  MaxReads = 3
INVARIANTS TypeOK WholeReadsParsed CompleteComeFirst
PROPERTY ContractKept
CHECK_DEADLOCK FALSE
