SPECIFICATION FairTimeSpec
CONSTANTS
  Node <- ThreeNodes
  Lan <- RingLans
  Attach <- Ring
  Client = {"c1"}
  Server = "srv"
  NoIf = NoIf
  NoPath = NoPath
  Running <- TwoClients
  Flags = {0}
  LittleEndian = TRUE
  PortSlots = 3
  GarbageId <- NoGarbage
  GarbageTail <- CleanBuffer
  Lossy = FALSE
  Targets = {"vm1", "vm3"}
  MaxAsk = 1
  MaxRetry = 0
  Quits = FALSE
INVARIANTS TypeOK LoopFree
  
CHECK_DEADLOCK FALSE
