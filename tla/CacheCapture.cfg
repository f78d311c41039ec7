CONSTANTS
    Bodies = {b1, b2}
    MaxLength = 3
    MaxCacheBody = 2
    MaxChunk = 2
    MaxDuration = 1
    DefaultTTL = 1
    Exchanges <- Samples
    MaxTime = 1
SPECIFICATION Spec
INVARIANTS
    BudgetAccounted
    CommitsWholeBodies
    OnlyShareable
    WithinFreshness
PROPERTIES
    ReservationsEnd
