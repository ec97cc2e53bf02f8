SPECIFICATION BridgeSpec
CONSTANTS
  QueueSize = 2
  Reenumerates = TRUE
  MaxCaptures = 2
  MaxId = 3
  MaxInits = 1
INVARIANTS PacketIsOneFrame
CHECK_DEADLOCK FALSE
