CONSTANTS
    HealthyThreshold = 1
    UnhealthyThreshold = 2
    MaxCount = 2
    Requests = {r1, r2}
    Backends = {b1, b2}
    None = None
    NoHealthy = NoHealthy
    MaxConcurrentRequests = 2
    MaxAttempts = 2
    Replayable = {r2}
    Rewindable = {r2}
    Cacheable = {r2}
    Upgrading = {r2}
SPECIFICATION Spec
INVARIANT ActiveIsCurrent
