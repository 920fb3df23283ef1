SPECIFICATION FairSpec
CONSTANTS
  Name <- Names
  MaxEvents <- KvmTwice
  Vm <- Vms
  Providers <- AppUsesNet
  NetVm = "netvm"
  MaxDeaths = 1
INVARIANTS Inv RootComplete WaitSound ProvidersFirst
PROPERTIES RootFoundUnlessMissed LockReleased NetServed StartServed
CHECK_DEADLOCK FALSE
