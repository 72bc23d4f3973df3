SPECIFICATION FairSpec
CONSTANTS
  Thread = {t1, t2}
  None = None
  MaxZones = 3
  BaseSize = 2
  InitCells = 1
  MaxHeld = 3
  Modulus = 16
INVARIANTS
  CellsAccounted
  AvailMatches
  ZonesContiguous
PROPERTIES
  TakeReturns
CHECK_DEADLOCK FALSE
