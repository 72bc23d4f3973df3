SPECIFICATION QueueSpec
CONSTANTS
  Thread = {t1, t2}
  Cell = {c1, c2}
  Dummy = Dummy
  Null = Null
  MaxLoop = 100
  Reloads = TRUE
  MaxCalls = 5
INVARIANTS
  NextIsValid
CHECK_DEADLOCK FALSE
