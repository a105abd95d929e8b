CONSTANTS
  Node = {n1,n2,n3}
  Index = {i1,i2}
  Slot = {s1,s2}
  Bound = Bound
  None = None
  EXPORT_UNIT_WEC = 5
  MIN_WEC = 2
  TRANSFER_CNT = 2
  MaxVars = 1
  MaxThrows = 3
  MaxBinds = 1
  MaxAliases = 0
SPECIFICATION Spec
SYMMETRY Everything
CHECK_DEADLOCK FALSE
INVARIANTS TypeOK NeverIllegal NoneWaitsInVain
