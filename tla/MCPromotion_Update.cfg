SPECIFICATION Spec
CONSTANTS
  Proposals = {1}
  Web = {w1}
  Hashes = {g1, h1, h1f, h2}
  Contents = {a, b}
  Weeks = {}
  MaxTime = 1
  Endpoints = {"TO_UPDATE"}
  Advisory = {"FINE"}
  DiscussionTime = 0
  NotFoundTimeout = 1
  WeekLength = 2
  BookingHorizon = 1
  Genesis <- OneGenesis
  PaymentInfo <- UpdateWorld
  AssetOf <- NoAssets
  TextOf <- OwnText
  LegacyMemoAccepted = FALSE
  RearmActions <- NoRearm
  Payments = {pg1, p1, p2}
  PaymentOf <- MCPaymentOf
  ProposedBy <- MCProposedBy
  TitleOf <- MCTitleOf
  Sweep = sweep
  NULL = NULL
  NoHash = NoHash
  alice = alice
  usdc = usdc
  h1 = h1
  h1f = h1f
  h2 = h2
  g1 = g1
  g2 = g2
  p1 = p1
  p2 = p2
  pg1 = pg1
  pg2 = pg2
  a = a
  b = b
  x = x
  y = y
CHECK_DEADLOCK FALSE
INVARIANTS TypeOK PromotedIsClean AppliedAuthorised BurnedIffApplied PublishedWasPaid
PROPERTIES OnlyOwnCopyConsumed
