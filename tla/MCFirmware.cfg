SPECIFICATION MCSpec
CONSTANTS
  ClockMod = 8
  ReadPeriod = 1
  MaxStale = 2
  Retry = 2
  ErrorLimit = 2
  Standby = 2
  MaxLoop = 1
  SensorFaults = 2
  MaxFaults = 3
  LossInWindow = FALSE
  LineLength = 1
  CommandLength = 1
  NonceMod = 2
  PruneAbove = 1
  PruneTo = 1
  MaxObs = 3
  KeepMin = 2
  KeepMax = 2
  RoundTrips = {1, 2}
  MaxRestarts = 1
  Block = 3
  Packets <- WirePackets
  BaseBuffer = 8
  HostBuffer = 9
  MaxBytes = 3
INVARIANTS AnswersMatchRequests ValidIsRecent SensorIsRetried
PROPERTIES LinkIsRestored ClockRecovers StillNodeSleeps WholePacketsAreTaken
CHECK_DEADLOCK FALSE
