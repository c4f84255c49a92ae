SPECIFICATION Spec
CONSTANTS
    N = 4
    A = 2
    B = 3
    K = 2
    None = None
    FreeAfter = 2
INVARIANTS
    NamesKept
PROPERTIES
    ImplementsModel
