SPECIFICATION FairSpec
CONSTANTS
  t1 = t1
  t2 = t2
  t3 = t3
  Task = {t1, t2}
  Attempts = 1
  MaxWait = 2
  WaitBetween = 1
  ProbeWindow = 2
  Window = 0
  MaxLag = 1
  Control = FALSE
  Traffic = FALSE
  Allow = {}
PROPERTIES Exits
CHECK_DEADLOCK FALSE
