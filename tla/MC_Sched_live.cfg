SPECIFICATION FairSpec
CONSTANTS
  Main = main
  Goal = {main, a, b}
  Waiter = {}
  Var = {x, y}
  External = {y}
  Prio = {0, 1, 2}
  Value = {1}
  TopGoal = top
  None = None
INVARIANT NothingLeft
PROPERTY ReadyRuns
