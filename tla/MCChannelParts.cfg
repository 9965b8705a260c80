SPECIFICATION PartsSpec
CONSTANTS
  RecvWindow = 5
  SeqSpace = 10
  SeqInitial = 8
  MinWindow = 1
  MaxWindow = 2
  StartWindow = 2
  Requeue = 2
  ChunkCounts = {1, 2}
  MaxStream = 6
  MaxPings = 1
  NetCapacity = 2
  SplitSpace = 2
  SplitInitial = 1
  ChunkSizeMax = 16
  Timeout = 2
  Lifetime = 1
  ReuseTime = 3
  MaxPackets = 3
  MaxCopies = 2
CONSTANTS
  WindowSteps <- MCWindowSteps
  Sizes <- MCSizes
INVARIANTS
  InOrderExactlyOnce
  NothingLost
  AcksAreHonest
  NeverStallsOnBuffered
  BacklogBounded
  WholePackets
  ReliableComeOut
PROPERTIES
  ImplementsWindow
  SilenceStopsGrowth
CHECK_DEADLOCK FALSE
