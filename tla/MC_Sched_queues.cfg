SPECIFICATION Spec
CONSTANTS
  Main = main
  Goal = {main, a, b, w}
  Waiter = {w}
  Var = {x, y}
  External = {y}
  Prio = {0, 1, 2}
  Value <- Values
  TopGoal = top
  None = None
INVARIANTS TypeOK PlacedOnce CountRight NoneSleepsBound HighestFirst DoorbellRung KeepsPriority
SYMMETRY Symmetric
