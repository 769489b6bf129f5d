SPECIFICATION ServicesSpec
CONSTANTS
  r1 = r1
  r2 = r2
  g1 = g1
  g2 = g2
  e1 = e1
  e2 = e2
  e3 = e3
  m1 = m1
  m2 = m2
  a = a
  b = b
  guardsLen = 4
  TURNS_LENGTH = 180
  UP_TIME_LENGTH = 120
  Relays = {r1, r2}
  Listeners = {g1}
  p2pBrokenTimeAllowed = 1
  MaxDeletions = 2
  Events = {e1, e2, e3}
  Rows = {"e1 fee", "e1 erg", "e2 erg"}
  rowsOf <- MCRowsOf
  requiredConfirmation = 1
  MaxHeight = 5
  MaxFailures = 2
  Messages = {m1, m2}
  Algorithms = {"curve", "edward"}
  algorithmOf <- MCAlgorithmOf
  MaxStarts = 2
  PublicKeys = {a, b}
  GuardSets <- MCGuardSets
  Lossy = FALSE
  MaxUpdates = 3
  MaxChanges = 0
  Signers = {g1, g2}
  requiredSign = 2
  txSignTimeout = 0
  Introduced = FALSE
  MaxRequests = 2
  MaxDelayed = 1
CONSTRAINT OneAtATime
CHECK_DEADLOCK FALSE
INVARIANTS
  WakesInOwnTurn
  ResetsBeforeNextTurn
  JobsStopInGap
  OneIntervalWhileAway
  CountedOnce
  OneBinary
PROPERTIES
  RelaysComeBack
  GuardsAreFoundAgain
  EventsAreSaved
  RequestsAreSettled
  GuardsMeet
  RequestIsAnswered
