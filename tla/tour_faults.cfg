SPECIFICATION TourSpec
CONSTANTS
  Node <- ThreeNodes
  NoMac = NoMac
  Route <- Again
  Lossy = TRUE
  Quits = {"vm1"}
INVARIANTS ArpTypeOK TourTypeOK CacheCorrect AnswersCorrect ReplyFindsAsker EndsAfterAllVisited PacketOnRoute
PROPERTIES ARPSpec
CHECK_DEADLOCK FALSE
