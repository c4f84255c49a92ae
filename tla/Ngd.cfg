SPECIFICATION Spec
CONSTANTS
    STAGE = 4
    PORT = 2
    EPS = 0
    Fanout = 2
    Delay <- MCDelay
    Pin <- MCPin
    Kind <- MCKind
    Output <- MCOutput
    PortOf <- MCPortOf
    Mapped <- MCMapped
    Shapes <- MCShapes
    InBudgets <- MCInBudgets
    OutBudgets <- MCOutBudgets
CHECK_DEADLOCK FALSE
INVARIANTS
    PassesAgree
    WithinStage
    BoundaryStraight
