SPECIFICATION QueueFairSpec
CONSTANTS
  Thread = {t1, t2, t3}
  Cell = {c1, c2}
  Dummy = Dummy
  Null = Null
  MaxLoop = 100
  Reloads = FALSE
  MaxCalls = 5
INVARIANTS
  TailIsNearEnd
  NextIsValid
  FewLoops
PROPERTIES
  ImplementsCellQueue
  CallsReturn
CHECK_DEADLOCK FALSE
