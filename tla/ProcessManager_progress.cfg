CONSTANTS
  MaxTasks = 1
  MaxRunning = 1
  MaxTracked = 1
  MaxRetained = 1
  MaxTombstones = 1
  GlobalPermits = 1
  MaxOthers = 0
  BackgroundEnabled = TRUE
  ForegroundWait = TRUE
SPECIFICATION BothSpec
CHECK_DEADLOCK FALSE
PROPERTY CallsEnd
