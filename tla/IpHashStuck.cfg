SPECIFICATION BalancedFairSpec
CONSTANTS
  Conn = {c1}
  N = 2
  Extras = 1
  UseLatency = FALSE
  SlowMs = {1}
  Pooling = FALSE
  Strategies = {"iphash"}
  Weight <- Weights21
  RingLen = 2
  Ring <- RingAB
  HealthCheck = FALSE
  MaxFails = 1
  FailTimeout = 1
  MaxAge = 0
PROPERTIES
  FindsHealthyPeer
