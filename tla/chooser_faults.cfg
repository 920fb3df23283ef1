SPECIFICATION FairSpec
CONSTANTS
  r1 = r1
  r2 = r2
  f1 = f1
  f2 = f2
  NoFile = NoFile
  NoName = NoName
  Request <- Requests
  File <- Files
  MaxChosen = 2
  MayFail <- AllFaults
INVARIANTS
  SuccessIsUsable
  RightsFromUser
PROPERTY RequestAnswered
CHECK_DEADLOCK FALSE
