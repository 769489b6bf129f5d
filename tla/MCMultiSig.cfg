SPECIFICATION MultiSigSpec
CONSTANTS
  g1 = g1
  g2 = g2
  g3 = g3
  Guards = {g1, g2, g3}
  requiredSign = 3
  txSignTimeout = 0
  Introduced = TRUE
  MaxRequests = 2
  MaxDelayed = 1
CONSTRAINT OneActive
CHECK_DEADLOCK FALSE
INVARIANTS
  FullProofsVerify
PROPERTY IsThresholdSigner
