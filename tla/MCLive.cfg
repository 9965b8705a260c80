CONSTANTS
  a = a
  b = b
  None = None
  RecvWindow = 7
  SeqSpace = 14
  SeqInitial = 12
  MinWindow = 4
  MaxWindow = 4
  StartWindow = 4
  Requeue = 2
  ChunkCounts = {1, 2}
  MaxStream = 4
  MaxPings = 1
  NetCapacity = 1
  ResendLimit = 1
  HalfOpenTime = 1
  SendsEarly = FALSE
  MaxMade = 1
  MaxNumbered = 1
  ReuseIds = FALSE
  MaxPeers = 1
CONSTANTS
  WindowSteps <- MCWindowSteps
  Ids <- MCIds
SPECIFICATION PartsSpec
PROPERTIES
  ImplementsFifo
  Arrives
  Acknowledged
  HalfOpenEnds
  OpenAcknowledges
  TakenOutIsFreed
  DisconnectHappens
CHECK_DEADLOCK FALSE
