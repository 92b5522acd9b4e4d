CONSTANTS
  MaxTasks = 2
  MaxRunning = 1
  MaxTracked = 1
  MaxRetained = 0
  MaxTombstones = 1
  GlobalPermits = 2
  MaxOthers = 1
  BackgroundEnabled = TRUE
  ForegroundWait = FALSE
SPECIFICATION Spec
CHECK_DEADLOCK FALSE
INVARIANT PermitsBalance
PROPERTY ImplementsTaskOutcome
INVARIANT LivingIsTracked
