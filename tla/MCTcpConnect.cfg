SPECIFICATION FairSpec
CONSTANTS
  Fds = {3, 4}
  MaxAddrs = 3
  MaxCalls = 3
  MaxFaults = 3
INVARIANTS TypeOK NothingLeaks OkMeansUsable
PROPERTY Returns
CHECK_DEADLOCK FALSE
