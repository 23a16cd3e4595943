SPECIFICATION Spec
CONSTANTS
    Names = {1, 2, 3}
    Stores <- Chains
    Routes <- SoundRoutes
    MaxStarts = 3
INVARIANTS
    TypeOK
    RestoredExactly
    NoImpostors
    FetchedRestorable
CHECK_DEADLOCK FALSE
