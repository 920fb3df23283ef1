SPECIFICATION FairSpec
CONSTANTS
  Client <- Clients
  Pid <- Pids
  Uplink = Uplink
  UplinkMac <- Mac255
  None = None
  MaxEth = 1
INVARIANTS Inv NoMisroute
PROPERTY ClientRouted
CHECK_DEADLOCK FALSE
