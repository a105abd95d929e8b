SPECIFICATION Spec
CONSTANTS
  Main = main
  Goal = {main, a, w}
  Waiter = {w}
  Var = {x, y}
  External = {}
  Prio = {0, 1, 2}
  Value <- Values
  TopGoal = top
  None = None
INVARIANT NothingLeft
