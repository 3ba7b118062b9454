SPECIFICATION FairSpec
CONSTANTS
  FileLen = 3
  BigSeq = 8
  SendWindow = 2
  Clock = {1}
  AckGarbage = {0}
  GarbageSeq = {0, 8}
  MaxNrexmt = 1
  MaxCwnd = 5
  Addr <- ThreeNodes
  header = header
  NULL = NULL
  RecvWin = 3
  MaxLoss = 1
  Overlap = FALSE
  MaxEarly = 1
  StalePorts = 1
  
PROPERTIES DeliverySpec Completes
CHECK_DEADLOCK FALSE
