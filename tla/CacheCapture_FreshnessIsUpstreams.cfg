CONSTANTS
    Bodies = {b1}
    MaxLength = 3
    MaxCacheBody = 2
    MaxChunk = 2
    MaxDuration = 1
    DefaultTTL = 1
    Exchanges <- Samples
    MaxTime = 0
SPECIFICATION Spec
INVARIANT FreshnessIsUpstreams
