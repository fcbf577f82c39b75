SPECIFICATION FairSpec
CONSTANTS
  Setups <- Tunnels
  Most <- Chunks
  Junk = {0, 1}
INVARIANTS
  TunnelIntact
  ProperHeaders
  ServiceNotBlamed
PROPERTIES
  Delivered
CHECK_DEADLOCK FALSE
