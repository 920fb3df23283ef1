SPECIFICATION FairSpec
CONSTANTS
  Size = 4
  SizeMax = 16
  MaxSignals = 2
  MayFail <- AllFaults
INVARIANT Inv
PROPERTIES PromiseSpec ReturnsUnlessCut
CHECK_DEADLOCK FALSE
