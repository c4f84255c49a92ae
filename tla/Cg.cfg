SPECIFICATION Spec
CONSTANTS
    Ident <- MCIdent
    EnableName = {"x_en"}
    ResetName = {"rst"}
    Bodies <- MCBodies
    Unit <- MCUnit
    Scenarios = 2
    Cycles = 5
    MIN_FLOPS = 2
    NGD_MAX = 0
    DCGE_MIN = 50
    MIN_CYCLES = 1
CHECK_DEADLOCK FALSE
INVARIANTS
    FormSound
    Judged
PROPERTIES
    GateExact
