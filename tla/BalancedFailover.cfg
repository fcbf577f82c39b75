SPECIFICATION MCSpec
CONSTANTS
  Conn = {c1, c2}
  N = 2
  Extras = 1
  UseLatency = TRUE
  SlowMs = {1, 2}
  Pooling = TRUE
  Strategies = {"off", "iphash", "roundrobin"}
  Weight <- Weights21
  RingLen = 2
  Ring <- RingAB
  HealthCheck = TRUE
  MaxFails = 1
  FailTimeout = 1
  MaxAge = 0
INVARIANTS
  NoNeedlessFailure
  BlameFollowsStream
  ReserveIsFastest
PROPERTIES
  AttemptEnds
