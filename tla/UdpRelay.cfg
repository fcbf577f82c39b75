SPECIFICATION FairSpec
CONSTANTS
  Client = {c1, c2}
  Nobody = Nobody
  MaxPackets = 3
  MaxBatch = 2
  AssociateTimeout = TRUE
INVARIANTS
  UdpTypeOK
  Registered
  RepliesGoHome
  NoDeadAssociation
PROPERTIES
  NeverReplaced
  AllTaken
  Cleared
  AnswersReturn
CHECK_DEADLOCK FALSE
