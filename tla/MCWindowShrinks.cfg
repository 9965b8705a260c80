SPECIFICATION Spec
CONSTANTS
  MinWindow = 32
  MaxWindow = 2048
  StartWindow = 64
  PacketSize = 512
  Acked = {0, 1200}
  Lost = {0, 240, 1200}
PROPERTY
  CongestionShrinks
CHECK_DEADLOCK FALSE
