SPECIFICATION FairSpec
CONSTANTS
  Modulus = 10
  Period = 1
  FlushAge = 2
  DropAge = 3
  MetaPeriod = 3
  MetaRetry = 1
  RingSize = 2
  MaxSamples = 2
  HeaderLen = 1
  SampleLen = 2
  MetaLen = 1
  DefaultCap = 1
  Caps = {3, 5}
  MaxFrames = 3
  MaxStall = 1
  MaxOutage = 4
  ReconnectTime = 3
  MaxNow = 10
INVARIANTS MetaIsPeriodic DropsAreCounted
PROPERTIES EveryFrameLeaves NeverReplaysOldMovements ImplementsSource
