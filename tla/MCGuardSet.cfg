SPECIFICATION GuardSetSpec
CONSTANTS
  a = a
  b = b
  c = c
  Keys = {a, b, c}
  GuardSets <- MCGuardSets
  Lossy = TRUE
  MaxUpdates = 3
  MaxChanges = 1
CHECK_DEADLOCK FALSE
INVARIANTS
  PeersAreThemselves
PROPERTIES
  ApprovedByFreshAnswer
