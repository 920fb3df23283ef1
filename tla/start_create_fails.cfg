CONSTANTS
  i1 = i1
  i2 = i2
  None = None
  Proc <- Two
  WithNet = TRUE
  MayFail <- CreateFails
SPECIFICATION FairSpec
PROPERTIES FailedCreateEndsVmm
CHECK_DEADLOCK FALSE
