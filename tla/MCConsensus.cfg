SPECIFICATION Spec
CONSTANTS
  v1 = v1
  v2 = v2
  Validators = {v1, v2}
  Amounts = {1, 3, 4}
  MinLznAmount = 1
  MaxLznAmount = 3
  InitialLzn <- SomeLzn
  InitialAnt <- SomeAnt
  Reports <- SmallReports
  NoStatus = NoStatus
  HalvingInterval = 2
  BaseBlockReward = 7
  UintWidth = 16
  Thresholds <- DefaultThresholds
  AverageBlockTimeWindowSize = 3
  DefaultBlockTime = 5
  TimeSteps = {1, 4}
  Weights = {1}
  BankOutcomes = {"paid", "not sent", "panic"}
  LastBlock = 3
  MaxRestarts = 1
  NoValidator = NoValidator
  NoGap = NoGap
INVARIANTS TypeOK HalvingsMatchRewards AverageIsRecent RewardsWithinSchedule
PROPERTIES ActiveStaysActive
CHECK_DEADLOCK FALSE
