SPECIFICATION PolicySpec
CONSTANTS
    Units <- MCUnits
    Modules <- MCModules
    Findings <- MCFindings
    Waivers <- MCWaivers
    Baseline <- MCBaseline
    FindingsBaseline <- MCFindingsBaseline
    MayFail = {"L1"}
    Ratchets <- MCRatchets
    FindingsRatchets <- MCFindingsRatchets
    Default <- MCDefault
    Instances <- MCInstances
    Top = "t"
    Control = {"ctl"}
    Arrival <- MCArrival
    BUDGET_PCT = 20
    MODULE_FLOPS = 3
    NGD_MAX = 6
    RealRegs <- MCRealRegs
CHECK_DEADLOCK FALSE
INVARIANTS
    BlockHeld
    AllowanceHeld
    NothingIdle
