SPECIFICATION FairSpec
CONSTANTS
  h1 = h1
  h2 = h2
  None = None
  Helper <- TwoHelpers
  MayFail <- AllFaults
INVARIANTS
  Inv
  InStep
  HelperLearns
  NoRequestPanics
PROPERTIES
  PromiseSpec
  HelperSettles
  TaskSettles
CHECK_DEADLOCK FALSE
