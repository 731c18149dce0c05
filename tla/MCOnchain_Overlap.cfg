SPECIFICATION OrderlySpec
CONSTANTS
  Workers = {w1, w2}
  Roles <- TwoPollers
  Proposals = {1, 2}
  Adds = {1}
  Tokens = {wbtc}
  TokenOf <- OneToken
  Tally = {clear}
  Supply = {low}
  Passing <- Won
  MaxTx = 3
  MaxPolls = 1
  MaxLost = 1
  MaxCrashes = 0
  NULL = NULL
  w1 = w1
  w2 = w2
  wbtc = wbtc
  close = close
  clear = clear
  low = low
CHECK_DEADLOCK FALSE
INVARIANTS ReportedWasExecuted SyncedMeansUpToDate
