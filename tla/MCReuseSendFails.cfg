SPECIFICATION Spec
CONSTANTS
    d1 = d1
    d2 = d2
    Sources <- Btrfs
    Dests = {d1, d2}
    ReuseInterval = 1
    Spacing = 2
    SourcePolicies <- KeepOne
    DestPolicies <- MixedPolicies
    MaxTime = 6
INVARIANT RecordedSucceeded
CHECK_DEADLOCK FALSE
