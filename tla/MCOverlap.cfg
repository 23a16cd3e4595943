SPECIFICATION Spec
CONSTANTS
    p1 = p1
    p2 = p2
    d1 = d1
    d2 = d2
    Sources <- Tar
    Procs = {p1, p2}
    Dests = {d1, d2}
    Overlap <- OnePerTarget
    UseStateFile = TRUE
    FullInterval = 3
    SourcePolicies <- KeepNothing
    DestPolicies <- MixedPolicies
    Unreliable = {}
    MaxTime = 4
INVARIANT StateSnapshotsRetained
