SPECIFICATION FairSpec
CONSTANTS
  Task = {t1}
  Event = {e1, e2}
  Delay = {1}
  DoneDelay = {0}
  MaxTime = 2
INVARIANTS
  EarliestFirst
PROPERTIES
  NothingWaitsForever
CHECK_DEADLOCK FALSE
