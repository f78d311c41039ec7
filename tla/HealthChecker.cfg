\* Two backends, so that a round waits for both: the interplay of probes, passive evidence and the gauge.
CONSTANTS
    Backends = {b1, b2}
    HealthyThreshold = 2
    UnhealthyThreshold = 2
    MaxCount = 3
SPECIFICATION Spec
INVARIANTS
    NoFalseUnhealthy
PROPERTIES
    EjectionNeedsEvidence
    ReadmissionNeedsRun
    EvidenceActs
    RecoversWhenProbesPass
    EjectedWhenProbesFail
    StopsAfterCancel
