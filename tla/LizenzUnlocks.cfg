SPECIFICATION KeeperSpec
CONSTANTS
  v1 = v1
  v2 = v2
  v3 = v3
  Validators = {v1, v2, v3}
  Amounts = {1, 3, 4}
  MinLznAmount = 1
  MaxLznAmount = 3
  InitialLzn <- OneWithout
  InitialAnt <- NoAnt
  Reports <- SmallReports
  NoStatus = NoStatus
  InactivityPeriod = 5
  DeactivationPeriod = 2
  Grace = 1
  MaxAge = 6
  TimeSteps = {2}
  NotDeactivating = NotDeactivating
INVARIANTS UnlocksOnlyWhatWasLocked
CHECK_DEADLOCK FALSE
