SPECIFICATION FairSpec
CONSTANTS
  a = a
  b = b
  c = c
  d = d
  p = p
  None = None
  OverLimit = {c}
  OnDisk = {b}
  OverMapgenLimit = {3}
  NThreads = 2
  Peers = {p}
  QTotal = 2
  QGen = 1
  QDisk = 2
  MaxRequests = 3
CONSTANTS
  Blocks <- MCBlocks
  ChunkOf <- MCChunkOf
  Kinds <- MCKinds
  Scenarios <- MCScenarios
INVARIANTS
  QueuesAgree
  AnsweredOnce
  OneGenerator
PROPERTIES
  HonestAnswers
  EveryoneAnswered
  StopReturns
CHECK_DEADLOCK FALSE
