SPECIFICATION Spec
CONSTANTS
  r1 = r1
  r2 = r2
  Requests <- TwoCalls
  Regulated <- TwoCalls
  Droppable <- OneCall
  Permitted <- TwoCalls
  WindowSize = 1
  Headroom = 1
  MaxSeq = 4
  MaxMissed = 2
  KeepaliveOn = FALSE
  ReconnectEnabled = TRUE
  DeliveryCapacity = 1
  MaxConnections = 2
  MaxPeerPdus = 1
  PeerAnswers <- CoreAnswers
  NoOwner = NoOwner
INVARIANTS
  SessionInv
PROPERTIES
  KeepsContract
CHECK_DEADLOCK FALSE
