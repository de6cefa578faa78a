SPECIFICATION FairSpec
CONSTANTS
  Senders = {s1, s2}
  Window = 1
  Period = 2
  Cooldown = 2
  QueueLimit = 1
  Buckets = 2
  BucketTicks = 2
  None = None
INVARIANTS
  PacingInv
PROPERTIES
  CooldownHolds
  RequestsReturn
CHECK_DEADLOCK FALSE
