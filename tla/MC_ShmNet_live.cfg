CONSTANTS
  Node = {n1,shoen}
  Shoen = shoen
  None = None
  Capacity = 1
  MaxSends = 2
SPECIFICATION FairSpec
CHECK_DEADLOCK FALSE
PROPERTY Delivered
