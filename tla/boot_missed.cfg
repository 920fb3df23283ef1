SPECIFICATION FairSpec
CONSTANTS
  Name <- Names
  MaxEvents <- Once
  Vm <- Vms
  Providers <- AppUsesNet
  NetVm = "netvm"
  MaxDeaths = 0
PROPERTY RootFound
CHECK_DEADLOCK FALSE
