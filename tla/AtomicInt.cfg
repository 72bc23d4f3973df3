SPECIFICATION FairSpec
CONSTANTS
  Thread = {t1, t2}
  Half = 2
  Arg = {1, 2}
  None = None
  MaxCalls = 3
PROPERTIES
  ImplementsAtomicWord
  CallsReturn
CHECK_DEADLOCK FALSE
