SPECIFICATION FairSpec
CONSTANTS
  a = a
  foreign = foreign
  doomed = doomed
  nobody = nobody
  Messages <- AllMessages
  Nobody = nobody
  IdOf <- Ids
  Own <- OwnMessages
  Doomed <- OnlyDoomed
  Pdus <- Deliveries
  Matching = "relaxed"
  DeliveryCapacity = 1
  ReceiptCapacity = 1
  MaxReceipts = 3
  MaxDelay = 1
  StoreFails = TRUE
  MaxDeliveries = 3
INVARIANTS
  ReceiptsInv
PROPERTIES
  EndsStand
  StraysAreStrangers
  ReceiptsDrain
CHECK_DEADLOCK FALSE
