CONSTANTS
    N = 3
    Conns = {c1, c2}
    Limit <- Limits
SPECIFICATION Spec
INVARIANTS
    PlacesAccounted
    NothingLeft
PROPERTIES
    CutsOnlyLate
    RunReturns
