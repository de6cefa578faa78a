SPECIFICATION Spec
CONSTANTS
  b1 = b1
  b2 = b2
  l1 = l1
  p1 = p1
  p2 = p2
  h1 = h1
  Absent = Absent
  Body = 7
  Header = 2
  Payload = 9
  MaxSegments = 3
  Layouts <- UsedLayouts
  MaxText = 10
  MaxUnusual = 2
  MaxTemplate = 10
  MaxBlanked = 7
  MaxBlanks = 1
  Binds <- BothBinds
  MaxSeen <- PdusSeen
  QueueRoom = 1
  Threshold = 2
  Limit = 1
  MaxMessages = 2
  MaxCalls = 2
  WordBits = 6
  PowerOfTwo <- Powers
  Tick = 4
  MaxSeconds = 6
  MaxTries = 3
  Day = 5
  RateSlots = 3
  MaxFailures = 8
  MaxRateClock = 7
  MaxBurst = 2
  BookLists <- OneList
  Selections <- UsedSelections
  ContactRows = 1
  MaxContacts = 2
  MaxImports = 1
  MaxQueries = 1
  MaxAsked = 2
  SessionIds <- BothIds
  MaxFields = 2
  MaxOpened = 2
  MaxUses = 2
  Hosts <- OneHost
  Unset = Unset
  MinDigits = 2
  MaxDigits = 3
  MaxSender = 2
  MaxChoices = 2
  MaxRequests = 2
  LengthField = 2
  PduHeader = 3
  MaxLength = 5
  PeerPdus <- SomePdus
  MaxPdus = 3
  NotSet = NotSet
  Zones <- TwoZones
  MaxEdits = 2
  Tools <- AllTools
INVARIANTS
  TextsAreFaithful
  LogsAreWhole
  DelaysAreRight
  BookIsTheSelection
  ProfilesStand
  MessagesAreAsComposed
  CampaignsAreAsComposed
  PdusAreFramed
CHECK_DEADLOCK FALSE
