SPECIFICATION FairSpec
CONSTANTS
  App = {a1, a2}
  Dispatcher = {d1}
  Cell = {c1}
  Dummy = Dummy
  None = None
  MaxThreads = 3
  Args = {1, 2}
  InitThreads = {2, 3}
  Detected = 3
  SemaMax = 2
  MaxTasks = 2
  MaxResize = 1
  MaxCalls = 2
PROPERTIES
  WaitReturns
  TasksRun
  ExitObeyed
CHECK_DEADLOCK FALSE
