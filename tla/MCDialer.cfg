SPECIFICATION DialerSpec
CONSTANTS
  p = p
  q = q
  f = f
  Peers = {p, q}
  Subscribers = {f}
  messageSendingRetriesMaxCount = 1
  MaxMessages = 3
  MaxStreams = 2
  MaxSubscribed = 2
CHECK_DEADLOCK FALSE
INVARIANTS
  HandledOnce
  OvertakesOnlyOnRetry
PROPERTIES
  IsLossyChannel
