SPECIFICATION Spec
CONSTANTS
    Blocks = 2
    Window = 1
    Routes <- ProxiedFs
INVARIANT NothingTruncated
CHECK_DEADLOCK FALSE
