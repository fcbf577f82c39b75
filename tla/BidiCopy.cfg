SPECIFICATION FairSpec
CONSTANTS
  MaxBytes = 3
  BufSize = 2
  Held = 1
  Window = 1
PROPERTIES
  KeepsPromise
  Delivered
  CloseAnswered
CHECK_DEADLOCK FALSE
