SPECIFICATION TimeSpec
CONSTANTS
  Node <- ThreeNodes
  Lan <- LineLans
  Attach <- Line
  Client = {"c1", "c2"}
  Server = "srv"
  NoIf = NoIf
  NoPath = NoPath
  Running <- SharedCrowd
  Flags = {0, 1}
  LittleEndian = TRUE
  PortSlots = 2
  GarbageId <- NoGarbage
  GarbageTail <- CleanBuffer
  Lossy = TRUE
  Targets = {"vm3"}
  MaxAsk = 2
  MaxRetry = 0
  Quits = TRUE
INVARIANTS RelayHasRoute Contained HopsAreReal NextHopIsNeighbour
 
CHECK_DEADLOCK FALSE
