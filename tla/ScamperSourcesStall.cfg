SPECIFICATION FairSpec
CONSTANTS
  sa = sa
  sb = sb
  sc = sc
  t1 = t1
  t2 = t2
  t3 = t3
  t4 = t4
  Source = {sa}
  Task = {t1, t2}
  NoSource = NoSource
  NoTask = NoTask
  SourceOf <- OneSource
  Submits <- InTurn
  Kind <- FileAndControl
  Priority <- OneEach
  Conflict <- Clique
  Pps = 2
  Asserts = FALSE
  Allow = {}
PROPERTY FileRead
CHECK_DEADLOCK FALSE
