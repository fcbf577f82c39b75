SPECIFICATION Spec
CONSTANTS
  Conn = {c1}
  Extras = 0
  Tokens = {0}
  Addrs <- OneAddr
  PoolSize = 1
  IdleTimeout = 1
  Interval = 1
  MinIdles = {1}
INVARIANTS
  RefsValid
