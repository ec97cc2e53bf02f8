SPECIFICATION MCSpec
CONSTANTS
  PollTime = 1
  StartupTimeout = 6
  FrameStale = 1
  FrameDead = 4
  HeartbeatDead = 3
  StableTime = 3
  BackoffTimes <- BackoffTimesMC
  BackoffSteps = 3
  AttachTime = 2
  FirstFrameTime = 5
  BeatTime = 2
  FrameTime = 4
  HangPoints = {"STARTING", "ONLINE"}
  MaxGenerations = 4
  MaxAge = 10
  Supervisors <- SupervisorsMC
  Workers <- WorkersMC
  NoProcess = NoProcess
  Overlap = FALSE
  BusyReads = FALSE
  CrashPoints <- SafeCrashPoints
  FieldCount = 2
  Offers <- OffersMC
  MaxPackets = 3
  MaxEvents = 1
  QueueSize = 1
  Reenumerates = TRUE
  MaxCaptures = 2
  MaxId = 3
  MaxInits = 2
  Turns = {a, b}
  Angles = {d0, d1}
  Level = d0
  Names = {p}
  MinTrain = 1
  MinValidate = 1
  MaxLocks = 1
  MaxRotations = 1
  MaxMishaps = 1
INVARIANTS SickWorkerIsStopped OneSupervisor OneWriter ActiveSlotIsComplete NeverTorn IsLatestOfSupervisor   ReadyIsValidated MountHasItsProfile
PROPERTIES BackoffHolds
CHECK_DEADLOCK FALSE
