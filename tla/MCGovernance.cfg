SPECIFICATION Spec
CONSTANTS
  a1 = a1
  a2 = a2
  Malformed = Malformed
  MaxUint32 = 3
  Accounts = {a1, a2}
  ChangeLists <- SmallChangeLists
  Deposits = {0, 1}
  InitialParams <- SmallParams
  InitialBalances <- SmallBalances
  Supply = 5
  VotingDelay = 1
  TimeSteps = {1, 2}
  MaxProposals = 2
  MaxTime = 5
INVARIANTS TypeOK ParamsStayValid TalliesWithinSupply
PROPERTIES ParamsChangeOnlyByProposal DecisionsAreFinal
CHECK_DEADLOCK FALSE
