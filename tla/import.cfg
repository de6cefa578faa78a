SPECIFICATION FairSpec
CONSTANTS
    list = list
    None = None
    MaxImports = 2
    Regions = {"CI", "FR"}
    Requests <- McRequests
    RowQueue = 1
    BatchSize = 2
    ProgressEvery = 2
    ProgressQueue = 1
INVARIANTS
  ImportInv
PROPERTIES
  ImportEnds
