SPECIFICATION FairSpec
CONSTANTS
    n1 = n1
    n2 = n2
    n3 = n3
    n4 = n4
    Nodes = {n1, n2}
    Quorums <- TwoThirds
    Unreliable = {n2}
    a = a
    b = b
    Accounts = {a, b}
    GenesisAccount = a
    GenesisBalance = 3
    MaxInt = 6
    Blocks <- SmallBlocks
    MaxHeight = 1
    MaxRound = 1
    MaxSimulations = 1
    None = None
INVARIANTS TypeOK RoundsDecideOnce MemoryIsReplayed TotalIsKept
PROPERTIES CatchesUp
