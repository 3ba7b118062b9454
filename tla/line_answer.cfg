SPECIFICATION FairTimeSpec
CONSTANTS
  Node <- ThreeNodes
  Lan <- LineLans
  Attach <- Line
  Client = {"c1"}
  Server = "srv"
  NoIf = NoIf
  NoPath = NoPath
  Running <- ServerBetween
  Flags = {0, 1}
  LittleEndian = TRUE
  PortSlots = 3
  GarbageId <- HighGarbage
  GarbageTail <- CleanBuffer
  Lossy = FALSE
  Targets = {"vm2"}
  MaxAsk = 2
  MaxRetry = 1
  Quits = FALSE
INVARIANTS AppTypeOK  AllUp
PROPERTIES Answered ODRSpec
CHECK_DEADLOCK FALSE
