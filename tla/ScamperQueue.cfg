SPECIFICATION Spec
CONSTANTS
  Task = {t1, t2, t3}
  Event = {e1}
  Delay = {1}
  DoneDelay = {0}
  MaxTime = 2
SYMMETRY TaskSymmetry
INVARIANTS
  TypeInv
  OneQueue
PROPERTIES
  OrderKept
  ScanComplete
CHECK_DEADLOCK FALSE
