SPECIFICATION PoseSpec
CONSTANTS
  MaxStarts = 0
  MaxConfirms = 1
  MaxCalls = 1
INVARIANTS StagesAreValidated
CHECK_DEADLOCK FALSE
