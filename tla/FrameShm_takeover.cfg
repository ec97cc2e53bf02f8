SPECIFICATION FramesSpec
CONSTANTS
  FieldCount = 2
  Offers = {{1, 2}, {1}}
  MaxPackets = 3
  MaxEvents = 1
INVARIANTS IsLatest
CHECK_DEADLOCK FALSE
