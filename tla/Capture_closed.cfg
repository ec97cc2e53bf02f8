SPECIFICATION CaptureSpec
CONSTANTS
  CameraQueue = 2
  IngestQueue = 1
  BrushQueue = 1
  Clip = 2
  MaxReplay = 2
  MaxPredict = 1
  WarmUp = 0
  Uses = {{"brush"}, {"sam3"}}
  MaxFrames = 3
  MaxSamples = 2
  MaxFaults = 1
INVARIANTS FailsClosed
CHECK_DEADLOCK FALSE
