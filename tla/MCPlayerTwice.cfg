SPECIFICATION Spec
CONSTANTS
  c1 = c1
  c2 = c2
  c3 = c3
  x = x
  y = y
  z = z
  None = None
  Names = {x}
  Admins = {}
CONSTANTS
  Peers <- MCPeers
  Settings <- MCSameName
INVARIANT
  OnePlayerPerName
CHECK_DEADLOCK FALSE
