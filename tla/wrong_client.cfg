SPECIFICATION TimeSpec
CONSTANTS
  Node <- ThreeNodes
  Lan <- LineLans
  Attach <- Line
  Client = {"c1", "c2"}
  Server = "srv"
  NoIf = NoIf
  NoPath = NoPath
  Running <- TwoAtOne
  Flags = {0}
  LittleEndian = TRUE
  PortSlots = 3
  GarbageId <- NoGarbage
  GarbageTail <- CleanBuffer
  Lossy = FALSE
  Targets = {"vm2", "vm3"}
  MaxAsk = 1
  MaxRetry = 0
  Quits = FALSE
INVARIANTS AnswersMatch
CHECK_DEADLOCK FALSE
