SPECIFICATION Spec
CONSTANTS
  Workers = {w1, w2}
  Roles <- Pool
  Proposals = {1}
  Adds = {1}
  Tokens = {wbtc}
  TokenOf <- OneToken
  Tally = {close, clear}
  Supply = {low}
  Passing <- Won
  MaxTx = 1
  MaxPolls = 2
  MaxLost = 0
  MaxCrashes = 1
  NULL = NULL
  w1 = w1
  w2 = w2
  wbtc = wbtc
  close = close
  clear = clear
  low = low
CHECK_DEADLOCK FALSE
INVARIANT DecidedOnFrozenTally
