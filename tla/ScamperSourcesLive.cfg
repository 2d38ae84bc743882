SPECIFICATION FairSpec
CONSTANTS
  sa = sa
  sb = sb
  sc = sc
  t1 = t1
  t2 = t2
  t3 = t3
  t4 = t4
  Source = {sa, sb}
  Task = {t1, t2, t3}
  NoSource = NoSource
  NoTask = NoTask
  SourceOf <- TwoSources
  Submits <- InTurn
  Kind <- StdinAndControl
  Priority <- OneEach
  Conflict <- Clique
  Pps = 2
  Asserts = TRUE
  Allow = {}
INVARIANTS NoFault Placed CommandsLive
PROPERTIES AllEnd StartInOrder
CHECK_DEADLOCK FALSE
