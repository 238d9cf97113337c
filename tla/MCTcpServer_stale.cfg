SPECIFICATION Spec
CONSTANTS
  Clients = {c1, c2}
  NoClient = NoClient
  Fds = {4, 5}
  m_fd = 3
  Bufs = {b1, b2, b3}
  NoBuf = NoBuf
  OutSize = 2
  Targets = {"all"}
  Endings = {"fin"}
  Slow = FALSE
  MaxReads = 4
SYMMETRY Symmetry
INVARIANT SubscribersAsked
CHECK_DEADLOCK FALSE
