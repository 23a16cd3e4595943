SPECIFICATION FairSpec
CONSTANTS
    p1 = p1
    p2 = p2
    Setters = {p1}
    Readers = {p2}
    Names <- SoundNames
    Lines <- ShortLines
    OptionLines <- CommandLines
    Words <- Vocabulary
    Pascalize <- PascalCase
    Templates <- ReadsK
    Absent = Absent
    Torn = Torn
    MaxPairs = 2
    MaxDepth = 3
INVARIANTS
    TypeOK
    EvaluatesAsDocumented
PROPERTIES
    StoreSpec
    EndsUnlessNested
CHECK_DEADLOCK FALSE
