SPECIFICATION TimelyFairSpec
CONSTANTS
  Proposals = {1, 2, 3}
  Web = {w1}
  Beats = {b1}
  Managers = {m1}
  Hashes = {g1, g2, h1}
  Contents = {a}
  Weeks = {1, 2}
  MaxTime = 5
  Endpoints = {"TO_SUBMIT"}
  Advisory = {"FINE"}
  DiscussionTime = 1
  ExpiredTime = 2
  NotFoundTimeout = 9
  WeekLength = 2
  BookingHorizon = 2
  Genesis <- BothGenesis
  PaymentInfo <- Creations
  AssetOf <- OthersAsset
  TextOf <- MCTextOf
  LegacyMemoAccepted = FALSE
  RearmActions <- NoRearm
  Edits <- WeekTwo
  Payments = {pg1, pg2, p1}
  PaymentOf <- MCPaymentOf
  ProposedBy <- MCProposedBy
  TitleOf <- MCTitleOf
  Sweep = sweep
  NULL = NULL
  NoHash = NoHash
  alice = alice
  usdc = usdc
  h1 = h1
  h2 = h2
  g1 = g1
  g2 = g2
  p1 = p1
  p2 = p2
  pg1 = pg1
  pg2 = pg2
  a = a
CHECK_DEADLOCK FALSE
INVARIANTS NoDoubleBooking OneActivePerAsset PaidBookingHoldsSlot VotesKeepTheirWeek
PROPERTIES DueVoteStarts OverdueVoteEnds
