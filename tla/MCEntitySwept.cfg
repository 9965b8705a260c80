CONSTANTS
  a = a
  b = b
  x = x
  y = y
  Absent = Absent
  MaxStored = 1
  Parting = FALSE
  MaxId = 2
  IdleLimit = 1
  MaxCalls = 2
CONSTANTS
  Positions <- MCPositions
  Entities <- MCEntities
  FarFrom <- MCFarFrom
SPECIFICATION ObjectsSpec
INVARIANTS
  ClearsOnlyWhatWasThere
CHECK_DEADLOCK FALSE
