SPECIFICATION Spec
CONSTANTS
  a = a
  b = b
  Source <- TwiceListed
  Recipients <- Two
  Unbuildable <- None
  Unencodable <- SecondOnly
  QueueCapacity = 1
  MaxAttempts = 2
  Policy = "abandon"
  StoreFails = TRUE
  SourceFails = TRUE
  MaxRuns = 2
INVARIANTS
  CompletedCovers
PROPERTIES
  AbandonLeavesAlone
CHECK_DEADLOCK FALSE
