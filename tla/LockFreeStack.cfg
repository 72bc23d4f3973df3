SPECIFICATION StackFairSpec
CONSTANTS
  Thread = {t1, t2, t3}
  Cell = {c1, c2}
  Null = Null
  MaxCalls = 5
INVARIANTS
  NoCellLost
PROPERTIES
  ImplementsFreeList
  CallsReturn
CHECK_DEADLOCK FALSE
