SPECIFICATION Spec
CONSTANTS
  Term <- MCTerm
  Depth <- MCDepth
  Message <- MCMessage
  Point <- MCPoint
  HEAPSIZE = 7
  MAXHEAPSIZE = 20
  INCREMENTSIZE = 4
  ObjectSize = 2
  VariableSize = 1
  GoalSize = 3
  UnifyWords = 2
  MaxWords = 3
  MaxMessages = 2
  MaxReductions = 2
INVARIANTS TypeOK AsSent NoOverrun StackClean
PROPERTY PacketDecoded
CHECK_DEADLOCK FALSE
