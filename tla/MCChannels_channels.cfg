CONSTANTS
  Events = {"message"}
  Parts <- MCParts
  Accepted <- MCAccepted
  Credential <- MCCredential
  NoRevision = NoRevision
  Unreadable = Unreadable
  MaxConfigEdits = 1
  MaxTroubles = 1
  MaxSends = 2
  MaxLapses = 1
  Dispatcher = {d1, d2}
  Run = {r1}
  Target = {c1, c2}
  Mortal = {d1}
  MaxFaults = 2
  MaxExpiries = 1
  MaxText = 5
  MinInitial = 2
  MaxLen = 4
  Reserve = 1
  MaxEdits = 3
  MaxToolEvents = 3
SPECIFICATION PartsSpec
CHECK_DEADLOCK FALSE
INVARIANT OneTransport
INVARIANT AckedIsTaken
INVARIANT OncePerLease
INVARIANT ReportIsTrue
INVARIANT AnswerIsWhole
PROPERTY ReachesRevision
PROPERTY EveryRunIsReported
