SPECIFICATION FairSpec
CONSTANTS
  Plugin = {p1, p2}
  Host = {h1}
  Lib = {std, dir}
  Std = std
  Old = {dir}
  None = None
  MaxLoads = 1
  NbrWorkers = 1
INVARIANTS
  PathIsWhole
  RefsMatch
  FindsPublished
  OneLibrary
  RunsSafely
PROPERTIES
  CallsEnd
CHECK_DEADLOCK FALSE
