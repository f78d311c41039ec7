CONSTANTS
    k1 = k1
    k2 = k2
    proxy = proxy
    Callers = {c1, c2}
    Keys = {k1, k2, proxy}
    Limit = 2
    Window = 2
    MaxKeys = 1
    Second = 2
    MaxTime = 3
    Tables <- SampleNames
    RoutesOf <- Samples
    Nowhere <- Elsewhere
    Pools = {"pool"}
    Tokens = {"GET", "PUT", "key", "debug", "host"}
    Withheld = {"host"}
    Malformed = {"a/b"}
    MaxQueryBytes = 2
    MaxMaxKeys = 2
    Percent = {"a%20b"}
    NoRoute = NoRoute
    Ambiguous = {"a%2Fb"}
    TrustedProxies = {proxy}
    ClientHeaders <- Headers
    Invalid = Invalid
    Requests <- Arrivals
    LimitedRoute = "limited"
SPECIFICATION GateSpec
INVARIANTS
    AdmissionsBounded
    PatienceRewarded
    MostSpecificRoute
    CountedAsAppended
    RoutesReachable
PROPERTY RefusalsEarned
SYMMETRY Interchangeable
