SPECIFICATION Spec
CONSTANTS
  sa = sa
  sb = sb
  sc = sc
  t1 = t1
  t2 = t2
  t3 = t3
  t4 = t4
  Source = {sa, sb}
  Task = {t1, t2, t3}
  NoSource = NoSource
  NoTask = NoTask
  SourceOf <- TwoSources
  Submits <- InTurn
  Kind <- AllControl
  Priority <- OneEach
  Conflict <- Clique
  Pps = 2
  Asserts = FALSE
  Allow = {"halt_held"}
INVARIANT DoneStaysDone
CHECK_DEADLOCK FALSE
