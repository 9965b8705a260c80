CONSTANTS
  Places = {0, 3}
  OnDisk = {3}
  SendD = 3
  GenD = 1
  CullD = 2
  AlwaysD = 0
  MaxSends = 2
  LimitedSends = 1
  QLimit = 2
  FarD = 3
  NearD = 0
  ManyEvents = 2
  MaxEdits = 2
  c1 = c1
  c2 = c2
  c3 = c3
  x = x
  y = y
  z = z
  None = None
  Names = {x, y, z}
  Admins = {y}
CONSTANTS
  Blocks <- MCBlocks
  Scenarios <- MCScenarios
  Peers <- MCPeers
  Settings <- MCOnePlace
SYMMETRY MCSymmetry
SPECIFICATION PartsSpec
INVARIANTS
  ClientsHavePlayers
  UserLimit
  ComesBackAsLeft
  NewestUnlessAstray
PROPERTIES
  RegisteredOnce
  OnePlayerUnlessLeaving
  EventuallySent
CHECK_DEADLOCK FALSE
