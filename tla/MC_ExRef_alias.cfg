CONSTANTS
  Node = {n1,n2}
  Index = {i1,i2}
  Slot = {s1,s2}
  Bound = Bound
  None = None
  EXPORT_UNIT_WEC = 6
  MIN_WEC = 2
  TRANSFER_CNT = 3
  MaxVars = 2
  MaxThrows = 2
  MaxBinds = 1
  MaxAliases = 1
SPECIFICATION FairSpec
CHECK_DEADLOCK FALSE
INVARIANTS WecConserved NoneWaitsInVain NothingDangles AnsweredOnce
PROPERTIES BindingArrives Reclaimed
