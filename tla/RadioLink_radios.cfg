SPECIFICATION Spec
CONSTANTS
  TickMod = 28
  IdMod = 16
  SeqMod = 16
  MaxFrameGap = 6
  MaxSeqGap = 6
  LinkGap = 5
  Reject = 4
  StepDown = 1
  StepUp = 1
  QueueLength = 1
  Messages = {}
  NoSample = NoSample
  MaxTime = 9
  Capacity = 2
  MaxBundle = 2
  Builds = {TRUE, FALSE}
  Period = 2
  MaxLatency = 4
  RestartTime = 2
  MetaPeriod <- MetaOf
  MaxAir = 2
  MaxBoots <- BootsOf
  MaxSent <- BundleOf
  NodeAge = 12
INVARIANTS LossesAreCounted ClockIsTrue
PROPERTIES DeliveredOnceInOrder TimestampsKeepAdvancing LossIsFlaggedInEpoch MetaEndsTheKnownBoot
CHECK_DEADLOCK FALSE
