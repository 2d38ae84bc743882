SPECIFICATION Spec
CONSTANTS
  ma = ma
  mb = mb
  Magic <- MCMagic
  Conn <- MCConn
  NoConn = 0
  Body <- MCBody
  Chan <- MCChan
  MaxLines = 1
  MaxUsers = 1
  MaxLog = 6
  MaxWire = 2
  MaxBreaks = 2
INVARIANTS
  TypeOK
  NoFault
  RejOnlyIfGone
  NothingLost
  ResultsBeforeEnd
  RefusesOnlyAfterDone
PROPERTIES
  StreamSpec
  Settles
  
CHECK_DEADLOCK FALSE
