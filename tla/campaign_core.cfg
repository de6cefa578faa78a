SPECIFICATION FairSpec
CONSTANTS
  a = a
  b = b
  Source <- BadLast
  Recipients <- Two
  Unbuildable <- SecondOnly
  Unencodable <- None
  QueueCapacity = 1
  MaxAttempts = 2
  Policy = "reemit"
  StoreFails = TRUE
  SourceFails = FALSE
  MaxRuns = 2
INVARIANTS
  CampaignInv
  RunDecides
PROPERTIES
  KeepsMessageContract
  RunEnds
CHECK_DEADLOCK FALSE
