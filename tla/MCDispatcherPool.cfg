SPECIFICATION Spec
CONSTANTS
  Thread = {t1, t2, t3}
  Obj = {d1, d2, d3}
  None = None
SYMMETRY Symmetry
INVARIANTS
  OneInstance
  GivenOnce
  AllKnown
  CellsBalanced
  CleanedUp
CHECK_DEADLOCK FALSE
