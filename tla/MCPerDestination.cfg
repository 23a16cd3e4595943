SPECIFICATION Spec
CONSTANTS
    p1 = p1
    p2 = p2
    d1 = d1
    d2 = d2
    Sources <- Btrfs
    Procs = {p1, p2}
    Dests = {d1, d2}
    Overlap <- OnePerTarget
    UseStateFile = TRUE
    FullInterval = 3
    SourcePolicies <- KeepOne
    DestPolicies <- SamePolicies
    Unreliable = {d2}
    MaxTime = 4
INVARIANT StoreRestorable
PROPERTIES
    PruneIsCurrent
    RetainedStayRestorable
SYMMETRY ProcSymmetry
