SPECIFICATION Spec
CONSTANTS
  Bad = Bad
  Library = Library
  Environments <- MCEnvironments
  CommandLines <- MCCommandLines
  Directories <- MCDirectories
  PortNumbers = 8
  OverflowChecks = {TRUE, FALSE}
INVARIANTS
  Precedence
  AllOrNothing
  LegacyServed
CHECK_DEADLOCK FALSE
