SPECIFICATION CallsSpec
CONSTANTS
  N = 2
  RingLen = 2
  Ring <- RingAB
  HealthCheck = TRUE
  MaxFails = 1
  FailTimeout = 1
  Thread = {t1, t2, t3}
  Caller = t1
  MaxAge = 1
INVARIANTS
  Affinity
SYMMETRY Symmetric
VIEW Seen
