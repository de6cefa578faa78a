SPECIFICATION DeskFairSpec
CONSTANTS
  c1 = c1
  c2 = c2
  Commands <- TwoCalls
  MaxRuns = 2
  MaxRestarts = 1
  StoreFails = TRUE
  Exits = TRUE
INVARIANTS
  DeskInv
PROPERTIES
  EndStands
  CancelFrees
  LiveIsShown
CHECK_DEADLOCK FALSE
