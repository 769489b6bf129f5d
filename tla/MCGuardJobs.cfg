SPECIFICATION FairSpec
CONSTANTS
  e1 = e1
  Events = {e1}
  ErgoEvents <- MCErgoEvents
  Txs = {1}
  TypeOf <- MCTypeOf
  EventOf <- MCEventOf
  NoEvent = NoEvent
  Free = Free
  Handlers = {h1}
  isManualTxRequestActive = FALSE
  MaxSign = 1
PROPERTIES
  ApprovalsFinish
  SigningEnds
  ApprovedTxMovesOn
