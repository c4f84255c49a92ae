SPECIFICATION CheckedSpec
CONSTANTS
    N = 1
    Depth = 6
    SeqMod = 8
    Built = TRUE
    Unknown = Unknown
    OutMax = 7
    AgeMax = 5
    Drains = {"freely", "always"}
INVARIANTS
    DataInOrder
    FullBandwidth
    StallTakesHold
    NoFalseReport
