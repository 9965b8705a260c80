CONSTANTS
  a = a
  b = b
  c = c
  d = d
  e = e
  f = f
  None = None
  Absent = Absent
  Workers = {v, w}
  MaxVersions = 2
  MaxUnloads = 1
  Entities = {e, f}
  MaxStored = 1
  Parting = FALSE
  MaxId = 2
  IdleLimit = 1
  MaxCalls = 2
CONSTANTS
  Blocks <- MCBlocks
  Around <- MCAround
  Airy <- MCAiry
  Positions <- MCPositions
  FarFrom <- MCFarFrom
SYMMETRY MCSymmetry
SPECIFICATION PartsSpec
INVARIANTS
  AckedOnce
  NewestMesh
  QueueIsServed
  OneForm
  SavedWhenSettled
CHECK_DEADLOCK FALSE
