SPECIFICATION FairSpec
CONSTANTS
    k1 = k1
    k2 = k2
    KeyPairs = {k1, k2}
    NoKey = NoKey
    Blocks = 2
    Window = 2
    Cases <- AllCases
INVARIANTS
    TypeOK
    ReceivedWhole
    FailsForAReason
PROPERTY EndsUnlessRemoteFails
CHECK_DEADLOCK FALSE
