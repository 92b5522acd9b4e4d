CONSTANTS
  Handle = {a, b}
  Payload = {}
  NoCall = NoCall
  Same = Same
  MaxRetries = 1
  MaxItems = 3
  MaxBatches = 3
SYMMETRY Symmetry
SPECIFICATION Spec
CHECK_DEADLOCK FALSE
INVARIANT FileIsSound
INVARIANT MemoryMatchesFile
INVARIANT CompactionIsExact
