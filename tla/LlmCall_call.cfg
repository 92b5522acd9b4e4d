CONSTANTS
  Policies = {0, 2}
  ProtocolMax = 1
  QuotaCap = 2
  StreamCapacity = 1
  MaxDeltas = 1
  MaxStreams = 4
  Failures <- SomeFailures
SPECIFICATION Spec
INVARIANTS
  StreamsArriveWhole
  RepeatedIfItHelps
PROPERTY CallResolves
CHECK_DEADLOCK FALSE
