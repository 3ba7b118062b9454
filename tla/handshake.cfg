SPECIFICATION FairSpec
CONSTANTS
  Client <- SamePort
  MaxAsk = 2
  MaxLoss = 1
  MaxReuse = 1
  MaxChild = 3
  MaxNrexmt = 1
  Missing = TRUE
INVARIANTS HandshakeTypeOK OneChild  WaitFindsChild
PROPERTIES Served
CHECK_DEADLOCK FALSE
