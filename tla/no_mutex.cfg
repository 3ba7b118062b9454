SPECIFICATION Spec
CONSTANTS
  FileLen = 3
  BigSeq = 8
  SendWindow = 3
  Clock = {1}
  AckGarbage = {0}
  GarbageSeq = {0, 8}
  MaxNrexmt = 1
  MaxCwnd = 5
  Addr <- ThreeNodes
  header = header
  NULL = NULL
  RecvWin = 3
  MaxLoss = 0
  Overlap = TRUE
  MaxEarly = 0
  StalePorts = 0
INVARIANTS PrintsInOrder
CHECK_DEADLOCK FALSE
