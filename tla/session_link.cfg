SPECIFICATION FairSpec
CONSTANTS
  r1 = r1
  r2 = r2
  Requests <- None
  Regulated <- None
  Droppable <- None
  Permitted <- None
  WindowSize = 1
  Headroom = 0
  MaxSeq = 2
  MaxMissed = 2
  KeepaliveOn = TRUE
  ReconnectEnabled = TRUE
  DeliveryCapacity = 1
  MaxConnections = 1
  MaxPeerPdus = 2
  PeerAnswers <- LinkAnswers
  NoOwner = NoOwner
PROPERTIES
  ShutdownReturns
  SilenceIsNoticed
CHECK_DEADLOCK FALSE
