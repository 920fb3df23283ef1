CONSTANTS
  i1 = i1
  i2 = i2
  None = None
  Proc <- Two
  WithNet = TRUE
  MayFail <- AllFaults
SPECIFICATION FairSpec
INVARIANTS Inv ReadyMeansCreated
PROPERTIES EveryVmmSettles ListenerHearsUnlessPending
CHECK_DEADLOCK FALSE
