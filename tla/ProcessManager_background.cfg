CONSTANTS
  MaxTasks = 2
  MaxRunning = 2
  MaxTracked = 2
  MaxRetained = 0
  MaxTombstones = 1
  GlobalPermits = 2
  MaxOthers = 0
  BackgroundEnabled = TRUE
  ForegroundWait = TRUE
SPECIFICATION Spec
CHECK_DEADLOCK FALSE
INVARIANT HeardExactlyOnce
INVARIANT OutputKeptUntilHeard
