SPECIFICATION Spec
CONSTANTS
  e1 = e1
  guardsLen = 3
  TURNS_LENGTH = 3
  UP_TIME_LENGTH = 1
  requiredSign = 2
  Txs = {1, 2}
  Events = {e1}
  EventOf <- MCEventOf
  messageValidDuration = 2
  MaxTime = 3
  MaxRestarts = 1
CONSTRAINT OneHandler
CHECK_DEADLOCK FALSE
INVARIANTS
  TypeOK
  
