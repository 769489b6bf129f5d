SPECIFICATION Spec
CONSTANTS
  e1 = e1
  guardsLen = 3
  TURNS_LENGTH = 3
  UP_TIME_LENGTH = 1
  requiredSign = 3
  Txs = {1, 2}
  Events = {e1}
  EventOf <- MCEventOf
  messageValidDuration = 2
  MaxTime = 0
  MaxRestarts = 2
CHECK_DEADLOCK FALSE
INVARIANTS
  QuorumBehindRow
PROPERTIES
  ImplementsQuorumApproval
