CONSTANTS
  i1 = i1
  i2 = i2
  i3 = i3
  p1 = p1
  p2 = p2
  None = None
  Proc <- Three
  Pid <- TwoPids
  MayFail <- SetupFaults
SPECIFICATION FairSpec
INVARIANT NothingLeaks
PROPERTIES LeaseSpec CleanupCompletes
CHECK_DEADLOCK FALSE
