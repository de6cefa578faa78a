SPECIFICATION FairSpec
CONSTANTS
  r1 = r1
  r2 = r2
  Requests <- TwoCalls
  Regulated <- OneCall
  Droppable <- None
  Permitted <- TwoCalls
  WindowSize = 1
  Headroom = 1
  MaxSeq = 1
  MaxMissed = 2
  KeepaliveOn = FALSE
  ReconnectEnabled = FALSE
  DeliveryCapacity = 1
  MaxConnections = 1
  MaxPeerPdus = 0
  PeerAnswers <- None
  NoOwner = NoOwner
PROPERTY ServedCallReturns
CHECK_DEADLOCK FALSE
