SPECIFICATION FairTourSpec
CONSTANTS
  Node <- ThreeNodes
  NoMac = NoMac
  Route <- Once
  Lossy = FALSE
  Quits = {}
INVARIANTS ArpStaysUp
PROPERTIES TourEnds
CHECK_DEADLOCK FALSE
