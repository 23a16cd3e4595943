SPECIFICATION FairSpec
CONSTANTS
    Blocks = 2
    Window = 1
    Routes <- ProxiedSourceToFs
PROPERTY FailureReported
CHECK_DEADLOCK FALSE
