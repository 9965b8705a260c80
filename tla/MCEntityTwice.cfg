CONSTANTS
  a = a
  b = b
  x = x
  y = y
  Absent = Absent
  MaxStored = 2
  Parting = TRUE
  MaxId = 2
  IdleLimit = 1
  MaxCalls = 1
CONSTANTS
  Positions <- MCPositions
  Entities <- MCEntities
  FarFrom <- MCFarFrom
SPECIFICATION ObjectsSpec
INVARIANTS
  NotDoubled
CHECK_DEADLOCK FALSE
