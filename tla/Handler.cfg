CONSTANTS
    HealthyThreshold = 1
    UnhealthyThreshold = 2
    MaxCount = 2
    Requests = {r1, r2}
    Backends = {b1, b2}
    None = None
    NoHealthy = NoHealthy
    MaxConcurrentRequests = 1
    MaxAttempts = 2
    Replayable = {r1}
    Rewindable = {r1}
    Cacheable = {r1}
    Upgrading = {r1}
SPECIFICATION Spec
INVARIANTS
    ActiveMatchesAssigned
    TripsBounded
    SlotsMatchAdmitted
    RetiredKeepsNothing
PROPERTIES
    RequestsLeave
    RetiredDrains
