SPECIFICATION FairSpec
CONSTANTS
  Task = {ta, tb}
  Pieces = 2
  MayHalt = {}
  Patient = FALSE
CHECK_DEADLOCK FALSE
PROPERTIES
  DoneDisconnects
