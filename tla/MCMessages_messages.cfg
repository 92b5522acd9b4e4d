CONSTANTS
  MaxItems = 3
  MaxPieces = 2
  MaxHistory = 4
  Caps = {0, 1, 2, 3, 9, 40}
  Files = {"f"}
  MaxMessages = 6
  MaxCompactions = 3
  KeepRecent = 2
  InputParts = 3
  SpillKeys = {"k", "l"}
  MaxResult = 6
  MaxOutput = 5
  PreviewBytes = 4
  MaxTime = 2
  Window = 8
  MaxSpoken = 3
  MaxTurns = 2
  MaxSummaries = 2
  MaxTroubles = 1
SPECIFICATION Spec
CHECK_DEADLOCK FALSE
 
 
INVARIANT ToolCallsAreFaithful
INVARIANT LiveAndResumedAgree
