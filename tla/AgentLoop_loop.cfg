SPECIFICATION Spec
CONSTANTS
  Scopes <- AllScopes
  Prompt = {"p", "q"}
  NoEntry = NoEntry
  MaxVersion = 2
CHECK_DEADLOCK FALSE
INVARIANTS
  PromptsConserved
  ExchangesStayWhole
  TranscriptAgrees
  RepetitionEnds
  AbortReachesTheEngine
