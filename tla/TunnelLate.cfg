SPECIFICATION FairSpec
CONSTANTS
  Setups <- LateTunnels
  Most <- Chunks
  Junk = {0}
PROPERTIES
  LateRelayGoesOn
CHECK_DEADLOCK FALSE
