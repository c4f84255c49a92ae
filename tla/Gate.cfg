SPECIFICATION ContractSpec
CONSTANTS
    HystMax = 3
    WakeHold = 3
    Lat = 4
    Quiesce = {0, 3}
    Stall = {2}
INVARIANTS
    GateOnTime
    WakeHeldOpen
    ValidMeetsClock
