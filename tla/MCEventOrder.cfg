SPECIFICATION EventOrderSpec
CONSTANTS
  g = g
  h = h
  v = v
  w = w
  Guards = {g, h}
  Watchers = {v, w}
  RwtCounts = {1, 2}
  Events <- MCEvents
  feeConfig <- MCFeeConfig
  watchersSharePercent = 50
  watchersEmissionSharePercent = 30
  minimumErg = 4
  additionalErgOnPayment = 2
  chainMinTransfer = 1
  MaxCommitments = 3
  MaxHeight = 4
CONSTRAINTS
  OneCreates
  ScanLater
  SecondBlock
SYMMETRY SymmetricWatchers
CHECK_DEADLOCK FALSE
INVARIANTS
  RwtConserved
  OneShareEach
  FeesConserved
  RejectedOnlyOnRedeem
