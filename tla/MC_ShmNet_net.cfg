CONSTANTS
  Node = {n1,shoen}
  Shoen = shoen
  None = None
  Capacity = 2
  MaxSends = 3
SPECIFICATION Spec
CHECK_DEADLOCK FALSE
INVARIANTS TypeOK SomebodyLooks AlarmNoticed NobodyDeaf
PROPERTY ImplementsMailbox
