SPECIFICATION FairSpec
CONSTANTS
  Clients = {c1, c2}
  NoClient = NoClient
  Fds = {4, 5}
  m_fd = 3
  Bufs = {b1, b2}
  NoBuf = NoBuf
  OutSize = 1
  Targets = {"all"}
  Endings = {"fin"}
  Slow = FALSE
  MaxReads = 4
INVARIANT NeverWaitsForItself
PROPERTY Served
CHECK_DEADLOCK FALSE
