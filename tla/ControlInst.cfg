SPECIFICATION Spec
CONSTANTS
  Task = {ta, tb}
  Pieces = 2
  MayHalt = {ta}
  Patient = TRUE
CHECK_DEADLOCK FALSE
INVARIANTS
  TypeOK
  OnlyHaltsFail
  IdsAgree
  AllAnswered
  MoreWhenIdle
  NeverStuck
PROPERTIES
  WorkRunsOut
