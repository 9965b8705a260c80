SPECIFICATION SendingSpec
CONSTANTS
  Places = {0}
  OnDisk = {0}
  SendD = 3
  GenD = 4
  CullD = 1
  AlwaysD = 0
  MaxSends = 2
  LimitedSends = 1
  QLimit = 1
  FarD = 3
  NearD = 0
  ManyEvents = 2
  MaxEdits = 2
CONSTANTS
  Blocks <- BorderBlocks
  Scenarios <- MCBorder
PROPERTY
  RefusedIsReverted
CHECK_DEADLOCK FALSE
