SPECIFICATION FairSpec
CONSTANTS
    Stages = 2
    Depth = 3
    Msgs = {m1, m2}
    Zero = Zero
    HasLead = TRUE
PROPERTIES
    ImplementsFlow
    DrainsHome
