SPECIFICATION Spec
CONSTANTS
  Updaters = {w1}
  Freezers = {w2}
  Keys = {k1}
  Stakes = {3}
  Melts <- StepByStep
  MaxBalances = 3
  EndAt = 0
  MaxTime = 1
  MaxClaims = 1
  MaxFailures = 1
  MaxRetries = 2
  NULL = NULL
  w1 = w1
  w2 = w2
  k1 = k1
CHECK_DEADLOCK FALSE
INVARIANTS TypeOK CountedOnce OnlyInTime KeepsOrigin
PROPERTIES FrozenStays FreezeCovers Converges FreezeHappens
