SPECIFICATION Spec
CONSTANTS
  e1 = e1
  Events = {e1}
  ErgoEvents <- MCErgoEvents
  Txs = {1, 2, 3, 4}
  TypeOf <- MCTypeOf
  EventOf <- MCEventOf
  NoEvent = NoEvent
  Free = Free
  Handlers = {h1}
  isManualTxRequestActive = FALSE
  MaxSign = 1
CONSTRAINT LateRivals
INVARIANTS
  SingleValidTx
