SPECIFICATION FairSpec
CONSTANTS
    Blocks = 3
    Window = 2
    Routes <- AllRoutes
INVARIANTS
    TypeOK
    CommittedWhole
    CommittedHasSnapshot
    SuccessMeansStored
PROPERTIES
    AtomicSpec
    EndsUnlessRemoteFails
CHECK_DEADLOCK FALSE
