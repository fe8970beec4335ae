SPECIFICATION Spec
CONSTANTS
  u1 = u1
  u2 = u2
  Users = {u1, u2}
  OrderIds = {1, 2, 3}
  OwnerOf <- TwoOwners
  Amounts <- MixedAmounts
  Prices = {1, 2, NaN}
  RewardRate = 2
  AccumulationLimit = 1
  Period = 2
  TimeSteps = {1}
  LastTime = 2
  NaN = NaN
  NoOrder = NoOrder
  Never = Never
INVARIANTS TypeOK OrdersAccountForTrades BookUncrossed OnlyNaNStopsMatching TradesWithinLimits AccrualWithinSchedule
CHECK_DEADLOCK FALSE
