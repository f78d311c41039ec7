CONSTANTS
    b1 = b1
    b2 = b2
    Pool <- Two
    Callers = {c1,c2}
    None = None
    NoHealthy = NoHealthy
    CounterWrap = 3
    MaxActive = 1
    MaxCalls = 3
    MaxChanges = 2
SPECIFICATION Spec
INVARIANTS
    RotatesEvenly
PROPERTIES
    ImplementsSelection
    LeastLoaded
