SPECIFICATION GroupSpec
CONSTANTS
  Addr = {a1, a2, a3}
  MaxPkts = 6
INVARIANTS
  GroupTypeOK
  Permuted
  GroupsUniform
  OneGroupPerAddress
CHECK_DEADLOCK FALSE
