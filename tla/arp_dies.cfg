SPECIFICATION TourSpec
CONSTANTS
  Node <- ThreeNodes
  NoMac = NoMac
  Route <- Again
  Lossy = FALSE
  Quits = {}
INVARIANTS ArpStaysUp
CHECK_DEADLOCK FALSE
