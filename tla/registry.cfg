SPECIFICATION FairSpec
CONSTANTS
  k1 = k1
  k2 = k2
  p = p
  q = q
  Callers <- TwoCallers
  Profiles <- TwoProfiles
  MaxBinds = 2
  MaxChanges = 1
INVARIANTS
  RegistryInv
  LastStateIsTold
PROPERTIES
  ClosedFirst
  CallsReturn
CHECK_DEADLOCK FALSE
