SPECIFICATION AdminSpec
CONSTANTS
  Proposals = {1, 2}
  Web = {w1}
  Beats = {b1}
  Managers = {}
  Hashes = {g1, g2, h1, h2}
  Contents = {a}
  Weeks = {1, 2}
  MaxTime = 4
  Endpoints = {"TO_SUBMIT"}
  Advisory = {"FINE"}
  DiscussionTime = 0
  ExpiredTime = 9
  NotFoundTimeout = 9
  WeekLength = 2
  BookingHorizon = 2
  Genesis <- BothGenesis
  PaymentInfo <- GeneralCreations
  AssetOf <- NoAssets
  TextOf <- MCTextOf
  LegacyMemoAccepted = FALSE
  RearmActions <- NoRearm
  Edits <- NoEdits
  Payments = {pg1, pg2, p1, p2}
  PaymentOf <- MCPaymentOf
  ProposedBy <- MCProposedBy
  TitleOf <- MCTitleOf
  Sweep = sweep
  NULL = NULL
  NoHash = NoHash
  alice = alice
  usdc = usdc
  h1 = h1
  h2 = h2
  g1 = g1
  g2 = g2
  p1 = p1
  p2 = p2
  pg1 = pg1
  pg2 = pg2
  a = a
CHECK_DEADLOCK FALSE
INVARIANT OneVoteAtATime
