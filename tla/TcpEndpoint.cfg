SPECIFICATION FairSpec
CONSTANTS
  Conn = {c1}
  Extras = 1
  Tokens = {0, 2}
  Addrs <- TwoAddrs
  PoolSize = 2
  IdleTimeout = 1
  Interval = 1
  MinIdles = {1, 3}
INVARIANTS
  PoolBounded
PROPERTIES
  PopHonest
  Refilled
