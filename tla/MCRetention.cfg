SPECIFICATION Spec
CONSTANTS
    Times = {1, 10, 11, 20}
    Intervals = {1, 10}
    Counts = {0, 1, 2}
    MaxPolicies = 2
    Tokens = {"0", "1", "d", "h", "daily", "=", ":", "full"}
    MaxTokens = 5
INVARIANTS
    ChainMatchesLoop
    RetainsGreedily
    KeepsWholeChains
    PruneIdempotent
    MostRecentRetained
    NewBackupStays
    ParsesPolicies
