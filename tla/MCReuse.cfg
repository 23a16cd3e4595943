SPECIFICATION Spec
CONSTANTS
    d1 = d1
    d2 = d2
    Sources <- AllSources
    Dests = {d1, d2}
    ReuseInterval = 1
    Spacing = 2
    SourcePolicies <- KeepOne
    DestPolicies <- MixedPolicies
    MaxTime = 6
INVARIANTS
    TypeOK
    ChainsEnd
    DistinctNames
    OnlyBrokenSendsListed
    RecordedNotLost
CHECK_DEADLOCK FALSE
