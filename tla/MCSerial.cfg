SPECIFICATION Spec
CONSTANTS
    p1 = p1
    p2 = p2
    d1 = d1
    d2 = d2
    Sources <- AllSources
    Procs = {p1}
    Dests = {d1, d2}
    Overlap <- Serial
    UseStateFile = TRUE
    FullInterval = 3
    SourcePolicies <- KeepOne
    DestPolicies <- MixedPolicies
    Unreliable = {}
    MaxTime = 5
INVARIANTS
    TypeOK
    RecordedBackupPresent
    NothingLeaks
    StateSnapshotsRetained
PROPERTY StateForgetsNothing
