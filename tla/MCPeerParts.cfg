SPECIFICATION PartsSpec
CONSTANTS
  a = a
  b = b
  None = None
  ReuseIds = TRUE
  MaxPeers = 2
  ResendLimit = 1
  HalfOpenTime = 0
  SendsEarly = FALSE
  MaxMade = 2
  MaxNumbered = 2
  NetCapacity = 2
CONSTANTS
  Ids <- MCIds
INVARIANTS
  NoUseAfterFree
  NothingLeaks
  ProgramFollows
  OpenMeansAgreed
  NoneWithoutId
  FirstPeerLosesNothing
CHECK_DEADLOCK FALSE
