SPECIFICATION Spec
CONSTANTS
  Clients = {c1, c2, c3}
  NoClient = NoClient
  Fds = {4, 5}
  m_fd = 3
  Bufs = {b1, b2}
  NoBuf = NoBuf
  OutSize = 1
  Targets = {"all", "sender"}
  Endings = {"rst"}
  Slow = TRUE
  MaxReads = 4
SYMMETRY Symmetry
INVARIANTS TypeOK OnePlace ListenerStays GetNeverWaits PolledUntilAWriteFails 
CHECK_DEADLOCK FALSE
