SPECIFICATION Spec
CONSTANTS
  App = {a1, a2}
  Dispatcher = {d1, d2}
  Cell = {c1, c2}
  Dummy = Dummy
  None = None
  MaxThreads = 3
  Args = {0, 1, 2}
  InitThreads = {1, 2}
  Detected = 3
  SemaMax = 1
  MaxTasks = 3
  MaxResize = 1
  MaxCalls = 4
SYMMETRY Symmetry
INVARIANTS
  IInv
  CellsInOnePlace
  DummyKept
  CounterCounts
  WorkersMatch
PROPERTIES
  ImplementsTaskGroup
CHECK_DEADLOCK FALSE
