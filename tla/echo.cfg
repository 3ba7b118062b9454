SPECIFICATION FairSpec
CONSTANTS
  u = u
  v = v
  User <- BothUsers
  Wants <- OneEcho
  MaxSession = 2
  MaxLine <- OneTypes
  MaxUpset = 1
  SockCap = 1
  PipeCap = 1
  DropAborted = TRUE
INVARIANTS EchoTypeOK EchoedInOrder DiesOfAKill 
PROPERTIES  TimeComes 
CHECK_DEADLOCK FALSE
