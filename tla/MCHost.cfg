SPECIFICATION MCSpec
CONSTANTS
  CameraQueue = 2
  IngestQueue = 1
  BrushQueue = 1
  Clip = 2
  MaxReplay = 2
  MaxPredict = 1
  WarmUp = 1
  Uses = {{"brush"}, {"sam3"}}
  MaxFrames = 4
  MaxSamples = 2
  MaxFaults = 1
  Scenes = {"flat", "near", "far"}
  AutoFrames = 2
  MaxStarts = 1
  MaxConfirms = 2
  MaxCalls = 1
INVARIANTS EvidenceIsWhole  TrackIsFresh ReleasedInOrder 
PROPERTIES RecorderEnds
CHECK_DEADLOCK FALSE
