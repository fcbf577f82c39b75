SPECIFICATION ShareFairSpec
CONSTANTS
  N = 3
  Weight <- Weights321
  HealthCheck = TRUE
  MaxFails = 2
  FailTimeout = 2
  MaxLag = 1
  MaxStretch = 12
INVARIANTS
  TypeOK
  ZeroSum
  CwBounded
  WindowBehindFailures
  EwBounds
  FairShare
PROPERTIES
  Readmitted
  WindowNotExtended
  NoEarlyReadmission
  PickIsHealthiest
