SPECIFICATION FairSpec
CONSTANTS
  FileLen = 2
  BigSeq = 6
  SendWindow = 3
  Clock = {1}
  AckGarbage = {0}
  GarbageSeq = {0, 6}
  MaxNrexmt = 2
  MaxCwnd = 5
  Addr <- ThreeNodes
  header = header
  NULL = NULL
  RecvWin = 1
  MaxLoss = 1
  Overlap = FALSE
  MaxEarly = 0
  StalePorts = 0
PROPERTIES ChildEnds
CHECK_DEADLOCK FALSE
