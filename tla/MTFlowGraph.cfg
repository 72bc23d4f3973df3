SPECIFICATION FairSpec
CONSTANTS
  MAXT = 4
  MaxDeps = 4
  MaxStarts = 2
INVARIANTS
  OnceInOrder
PROPERTIES
  StartRunsAll
CHECK_DEADLOCK FALSE
