SPECIFICATION FairSending
CONSTANTS
  Places = {0}
  OnDisk = {4}
  SendD = 4
  GenD = 0
  CullD = 1
  AlwaysD = 0
  MaxSends = 2
  LimitedSends = 1
  QLimit = 1
  FarD = 3
  NearD = 0
  ManyEvents = 2
  MaxEdits = 2
CONSTANTS
  Blocks <- StuckBlocks
  Scenarios <- MCStuck
PROPERTY
  WantedArrives
CHECK_DEADLOCK FALSE
