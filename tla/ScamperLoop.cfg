SPECIFICATION FairSpec
CONSTANTS
  t1 = t1
  t2 = t2
  t3 = t3
  Task = {t1, t2}
  Attempts = 2
  MaxWait = 2
  WaitBetween = 2
  ProbeWindow = 4
  Window = 1
  MaxLag = 1
  Control = TRUE
  Traffic = TRUE
  Allow = {"done", "cancel", "now", "flush"}
INVARIANTS TypeInv WindowKept WakesInTime ExitsClean
PROPERTIES Paced AllWritten
CHECK_DEADLOCK FALSE
