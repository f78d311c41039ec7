------------------------------- MODULE Backend -------------------------------
(***************************************************************************)
(* The health record of one upstream (internal/backend/backend.go).  Every *)
(* operation below runs under Backend.mu, and alive is the only field read *)
(* without it, so each operation is one atomic change of the record.       *)
(* The active counter is a separate atomic: see Handler.                   *)
(***************************************************************************)
EXTENDS Integers

CONSTANTS
    HealthyThreshold,    \* pools.*.health.healthy_threshold
    UnhealthyThreshold,  \* pools.*.health.unhealthy_threshold, also the
                         \* passive failure threshold of the pool
    MaxCount             \* where the evidence counters saturate

\* Configuration validation requires both thresholds to be positive.
ASSUME ThresholdAssumption ==
    /\ HealthyThreshold \in Nat \ {0}
    /\ UnhealthyThreshold \in Nat \ {0}

\* The counters are only ever compared with a threshold or reset, so a counter
\* that saturates no lower than either threshold behaves as the unbounded one does.
ASSUME MaxCountAssumption ==
    /\ MaxCount \in Nat
    /\ HealthyThreshold <= MaxCount
    /\ UnhealthyThreshold <= MaxCount

Count == 0..MaxCount

\* A count of passive failures that reaches its threshold is used up at once.
Health == [alive        : BOOLEAN,
           probeFails   : Count,
           probePasses  : Count,
           passiveFails : 0..UnhealthyThreshold - 1]

SetAlive(alive) ==
    [alive |-> alive, probeFails |-> 0, probePasses |-> 0, passiveFails |-> 0]

New == SetAlive(TRUE)

Bump(n) == IF n < MaxCount THEN n + 1 ELSE n

-----------------------------------------------------------------------------
(* Plausible slips in the operations below, for the mutation checks.       *)

ProbePassKeepsPassiveFails(b) ==
    LET passes == Bump(b.probePasses) IN
    IF ~b.alive /\ passes >= HealthyThreshold
    THEN [b EXCEPT !.alive = TRUE, !.probeFails = 0, !.probePasses = 0]
    ELSE [b EXCEPT !.probeFails = 0, !.probePasses = passes]

ProbePassExactThreshold(b) ==
    LET passes == Bump(b.probePasses) IN
    IF ~b.alive /\ passes = HealthyThreshold
    THEN SetAlive(TRUE)
    ELSE [b EXCEPT !.probeFails = 0, !.probePasses = passes]

ProbePassKeepsPasses(b) ==
    LET passes == Bump(b.probePasses) IN
    IF ~b.alive /\ passes >= HealthyThreshold
    THEN [SetAlive(TRUE) EXCEPT !.probePasses = passes]
    ELSE [b EXCEPT !.probeFails = 0, !.probePasses = passes]

ProbeFailOneLate(b) ==
    LET fails == Bump(b.probeFails) IN
    IF b.alive /\ fails > UnhealthyThreshold
    THEN [b EXCEPT !.alive = FALSE, !.probeFails = 0, !.probePasses = 0]
    ELSE [b EXCEPT !.probeFails = fails, !.probePasses = 0]

PassiveSuccessClearsProbeFails(b) ==
    [b EXCEPT !.passiveFails = 0, !.probeFails = 0]

-----------------------------------------------------------------------------
(* RecordProbe, split by the outcome of the probe.  A probe that readmits   *)
(* clears all three counters, as SetAlive does.                            *)

ProbePass(b) ==
    LET passes == Bump(b.probePasses) IN
    IF ~b.alive /\ passes >= HealthyThreshold
    THEN SetAlive(TRUE)
    ELSE [b EXCEPT !.probeFails = 0, !.probePasses = passes]

ProbeFail(b) ==
    LET fails == Bump(b.probeFails) IN
    IF b.alive /\ fails >= UnhealthyThreshold
    THEN [b EXCEPT !.alive = FALSE, !.probeFails = 0, !.probePasses = 0]
    ELSE [b EXCEPT !.probeFails = fails, !.probePasses = 0]

RecordProbe(b, success) == IF success THEN ProbePass(b) ELSE ProbeFail(b)

RecordPassiveFailure(b) ==
    LET fails == Bump(b.passiveFails) IN
    IF ~b.alive THEN b
    ELSE IF fails < UnhealthyThreshold THEN [b EXCEPT !.passiveFails = fails]
    ELSE [b EXCEPT !.passiveFails = 0, !.alive = FALSE]

RecordPassiveSuccess(b) == [b EXCEPT !.passiveFails = 0]
=============================================================================
