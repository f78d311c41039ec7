CONSTANTS
    small = small
    large = large
    huge = huge
    Keys = {k1, k2, k3}
    Responses = {small, large, huge}
    SizeOf <- Sizes
    Setters = {s1, s2}
    MaxEntries = 2
    MaxBytes = 3
    TTLs = {0, 2}
    MaxTime = 2
    Miss = Miss
    NoAnswer = NoAnswer
    Nobody = Nobody
SPECIFICATION Spec
INVARIANTS
    StoreAgrees
    WithinBounds
    SetKeepsNew
PROPERTIES
    EvictsLeastRecent
    ImplementsContract
    SetReturns
