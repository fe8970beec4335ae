SPECIFICATION Spec
CONSTANTS
  v1 = v1
  v2 = v2
  n1 = n1
  NoNonce = NoNonce
  NoValidator = NoValidator
  NoBalance = NoBalance
  NoBid = NoBid
  Validators = {v1, v2}
  Nonces = {n1}
  Bids = {1, 2}
  InitialAnt <- RichEnough
  MarketBalances = {NoBalance}
  MaxBurnAmount = 2
  RapidBidLimit = 1
  RapidWindow = 8
  BidHistoryLimit = 1
  AuctionHistoryBlocks = 1
  TimeSteps = {5}
  Heights = {1, 2}
  LastBlock = 3
SYMMETRY Symmetry
INVARIANTS TypeOK RevealsMatchCommits BlindThenAwarded RapidBidsBounded
PROPERTIES OnlyWinnersPay ImplementsSealedBid
CHECK_DEADLOCK FALSE
