SPECIFICATION Spec
CONSTANTS
    Units <- PoolUnits
    HEAVY = {h}
    Loads <- PoolLoads
    Slow <- PoolSlow
    Jobs = 2
    MaxKills = 1
    h = h
    a = a
CHECK_DEADLOCK FALSE
INVARIANTS
    HeavyAlone
    HitsWhole
    ListComplete
PROPERTIES
    NoOvertaking
    BothEnd
