SPECIFICATION BleSpec
CONSTANTS
  MaxFaults = 1
  LossInWindow = TRUE

PROPERTIES LinkIsRestored
CHECK_DEADLOCK FALSE
