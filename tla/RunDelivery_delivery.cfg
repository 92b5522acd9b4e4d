CONSTANTS
  DeltaKinds = {"text", "thinking"}
  CoalesceAfter = 1
  MaxPendingBytes = 3
  Script <- OneTurn
  Closing = 8
  SinkCapacity = 1
  Payload <- Sizes
SPECIFICATION Spec
INVARIANTS
  ContentIsConserved
  BudgetIsKept
PROPERTY RunEnds
CHECK_DEADLOCK FALSE
