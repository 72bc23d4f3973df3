SPECIFICATION Spec
CONSTANTS
  App = {a1}
  Dispatcher = {d1}
  Cell = {c1}
  Dummy = Dummy
  None = None
  MaxThreads = 3
  Args = {0, 1, 2, 3}
  InitThreads = {1, 2}
  Detected = 3
  SemaMax = 20
  MaxTasks = 1
  MaxResize = 2
  MaxCalls = 3
PROPERTIES
  GrowsUnlessReduced
CHECK_DEADLOCK FALSE
