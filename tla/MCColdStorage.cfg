SPECIFICATION ColdStorageSpec
CONSTANTS
  a = a
  b = b
  c = c
  tok = tok
  nat = nat
  Guards = {a, b, c}
  requiredSign = 2
  Tokens = {tok}
  native = nat
  low <- MCLow
  high <- MCHigh
  maxNativeTransfer = 1
  minimumNativeToken = 1
  SplitsOrders = FALSE
  MaxTxs = 2
  MaxPeriods = 3
  MaxBalance = 4
SYMMETRY SymmetricGuards
CONSTRAINT ThreeGuardsOrEvents
ACTION_CONSTRAINTS
  WaitOnce
  NativeFirst
CHECK_DEADLOCK FALSE
INVARIANTS
  
  
  CreatedIsVerified
