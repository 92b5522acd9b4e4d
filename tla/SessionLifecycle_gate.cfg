SPECIFICATION PartsSpec
CONSTANTS
  s1 = s1
  s2 = s2
  a = a
  Session = {s1, s2}
  SessionId = {s1, s2}
  Shard = {a}
  ShardOf <- SharedShard
  Request = {q1, q2}
  None = None
  MaxFlushes = 1
  Command = {c1, c2}
  MaxManagers = 1
  MaxMade = 2
CHECK_DEADLOCK FALSE
INVARIANTS
  OneAtATime
  RegistryIsExact
  
  ManagersAreKept
PROPERTY RequestsAreAnswered
