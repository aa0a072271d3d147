SPECIFICATION FrameSpec
CONSTANTS
  Wires <- MCTcpWires
  MaxChunk = 9
  MaxHeld = 3
  PoolSize = 3
  Checksum <- MCChecksum
  Base = 3
  MaxVarint = 2
  LastLimit = 2
  MaxPayload = 3
  MaxPdu = 4
  FrameHead = 5
  FrameTail = 4
CHECK_DEADLOCK FALSE
INVARIANTS
  ViewIntact
