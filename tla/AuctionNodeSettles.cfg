SPECIFICATION NodeSpec
CONSTANTS
  v1 = v1
  v2 = v2
  n1 = n1
  NoNonce = NoNonce
  NoValidator = NoValidator
  NoBalance = NoBalance
  Validators = {v1, v2}
  Nonces = {n1}
  Bids = {1}
  InitialAnt <- RichEnough
  MarketBalances = {}
  MaxBurnAmount = 2
  RapidBidLimit = 5
  RapidWindow = 100
  BidHistoryLimit = 100
  AuctionHistoryBlocks = 1
  TimeSteps = {5}
  Heights = {1, 2, 3, 4}
  LastBlock = 3
PROPERTIES EndBlockerSettlesReveals
CHECK_DEADLOCK FALSE
