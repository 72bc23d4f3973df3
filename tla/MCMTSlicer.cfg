SPECIFICATION Spec
CONSTANTS
  Slicer = {s1, s2}
  Dispatcher = {d1, d2}
  Dummy = Dummy
  None = None
  MAXT = 2
  NbrThreads = {0, 3}
  MaxHeight = 3
  MaxMin = 2
  MaxStarts = 2
SYMMETRY Symmetry
INVARIANTS
  SlicesTile
  LinesOnce
  NoTaskLeft
CHECK_DEADLOCK FALSE
