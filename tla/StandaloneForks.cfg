SPECIFICATION Spec
CONSTANTS
    n1 = n1
    n2 = n2
    n3 = n3
    n4 = n4
    Nodes = {n1, n2, n3, n4}
    Quorums <- TwoThirds
    Unreliable = {}
    a = a
    b = b
    Accounts = {a, b}
    GenesisAccount = a
    GenesisBalance = 3
    MaxInt = 4
    Blocks <- EmptyBlocks
    MaxHeight = 1
    MaxRound = 3
    MaxSimulations = 0
    None = None
INVARIANTS HistoryIsKept
SYMMETRY Equals
