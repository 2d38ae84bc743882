SPECIFICATION Spec
CONSTANTS
  sa = sa
  sb = sb
  sc = sc
  t1 = t1
  t2 = t2
  t3 = t3
  t4 = t4
  Source = {sa, sb, sc}
  Task = {t1, t2, t3, t4}
  NoSource = NoSource
  NoTask = NoTask
  SourceOf <- ThreeSources
  Submits <- InTurn
  Kind <- FileAndControl
  Priority <- TwoForA
  Conflict <- Chain
  Pps = 2
  Asserts = FALSE
  Allow = {"flush", "halt_held"}
INVARIANTS TypeInv RingKept BlockersRun Quantum Exclusive CountsExact
PROPERTIES AdmissionSpec
CHECK_DEADLOCK FALSE
