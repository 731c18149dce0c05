SPECIFICATION Spec
CONSTANTS
  Workers = {w1, w2}
  Roles <- OnePoller
  Proposals = {1}
  Adds = {1}
  Tokens = {wbtc}
  TokenOf <- OneToken
  Tally = {close, clear}
  Supply = {low}
  Passing <- Landslide
  MaxTx = 2
  MaxPolls = 1
  MaxLost = 0
  MaxCrashes = 0
  NULL = NULL
  w1 = w1
  w2 = w2
  wbtc = wbtc
  close = close
  clear = clear
  low = low
CHECK_DEADLOCK FALSE
INVARIANTS TypeOK OneLiveExecution SuccessMeansExecuted
PROPERTIES FrozenStays ImplementsSingleExecution
