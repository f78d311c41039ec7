---------------------------- MODULE HealthChecker ----------------------------
(***************************************************************************)
(* The active health checker of one pool (internal/backend/health.go), the *)
(* requests that report passive evidence on the same backends, and the     *)
(* health gauge the checker publishes (proxy/runtime.go StartHealthChecks).*)
(*                                                                         *)
(* A round is one CheckOnce: every backend is probed by a goroutine of its *)
(* own, and Run waits for all of them before it selects between the ticker *)
(* and the canceled context.                                               *)
(***************************************************************************)
EXTENDS Backend

CONSTANT Backends    \* the backends of the pool

VARIABLES
    backend,     \* the health record of each backend
    run,         \* Checker.Run: "round", "late", "select" or "stopped";
                 \* "late" is a round begun on a context already canceled
    probe,       \* the goroutine of each backend in the round
    reading,     \* what OnChange's b.Alive() argument read
    gauge,       \* goproxy_backend_healthy as last published
    canceled,    \* the context of this checker is done
    evidence     \* history: what has been reported on each backend

vars == <<backend, run, probe, reading, gauge, canceled, evidence>>

Evidence == [passes       : Count,  \* successful probes since the last failed one
                                    \* or readmission
             fails        : Count,  \* consecutive failed probes
             passiveFails : Count]  \* passive failures since the last passive
                                    \* success or readmission
NoEvidence == [passes |-> 0, fails |-> 0, passiveFails |-> 0]

\* The types; in particular a count of passive failures never rests at its
\* threshold: RecordPassiveFailure uses it up in the same critical section.
TypeOK ==
    /\ backend \in [Backends -> Health]
    /\ run \in {"round", "late", "select", "stopped"}
    /\ probe \in [Backends -> {"probing", "changed", "publishing", "done"}]
    /\ reading \in [Backends -> BOOLEAN]
    /\ gauge \in [Backends -> BOOLEAN]
    /\ canceled \in BOOLEAN
    /\ evidence \in [Backends -> Evidence]

\* A new pool starts with every backend alive, or with the eligibility that
\* InheritBackendHealth copied from the previous snapshot.
Init ==
    /\ \E alive \in [Backends -> BOOLEAN] :
         /\ backend = [b \in Backends |-> SetAlive(alive[b])]
         /\ gauge = alive
         /\ reading = alive
    /\ run = "round"
    /\ probe = [b \in Backends |-> "probing"]
    /\ canceled = FALSE
    /\ evidence = [b \in Backends |-> NoEvidence]

Alive(b) == backend[b].alive
Ejected(b) == Alive(b) /\ ~Alive(b)'
Readmitted(b) == ~Alive(b) /\ Alive(b)'

-----------------------------------------------------------------------------
NotifyEjectionsOnly(old, new) == old.alive /\ ~new.alive
IgnoreCancel == FALSE

\* RecordProbe's result: the externally visible state changed.
Changed(old, new) == old.alive # new.alive

\* The history of b after a probe.
Probed(b, success) ==
    LET e == evidence[b]
        readmits == ~backend[b].alive /\ RecordProbe(backend[b], success).alive
    IN IF readmits THEN NoEvidence
       ELSE IF success THEN [e EXCEPT !.passes = Bump(@), !.fails = 0]
       ELSE [e EXCEPT !.passes = 0, !.fails = Bump(@)]

\* check: the probe is answered, or fails, and RecordProbe applies the result.
RecordResult(b, success) ==
    LET new == RecordProbe(backend[b], success) IN
    /\ run \in {"round", "late"}
    /\ probe[b] = "probing"
    /\ backend' = [backend EXCEPT ![b] = new]
    /\ probe' = [probe EXCEPT ![b] =
                    IF Changed(backend[b], new) THEN "changed" ELSE "done"]
    /\ evidence' = [evidence EXCEPT ![b] = Probed(b, success)]
    /\ UNCHANGED <<run, reading, gauge, canceled>>

\* The backend answers 2xx.  A request made on a canceled context cannot.
ProbeSucceeds(b) == run = "round" /\ RecordResult(b, TRUE)

\* The backend answers another status, refuses, or exceeds the timeout.
ProbeFails(b) == run = "round" /\ RecordResult(b, FALSE)

\* The canceled context ends the probe: client.Do or the body read fails.
ProbeCanceled(b) == canceled /\ RecordResult(b, FALSE)

\* OnChange(b, b.Alive()): the argument is read after RecordProbe unlocked.
ReadAlive(b) ==
    /\ probe[b] = "changed"
    /\ reading' = [reading EXCEPT ![b] = Alive(b)]
    /\ probe' = [probe EXCEPT ![b] = "publishing"]
    /\ UNCHANGED <<backend, run, gauge, canceled, evidence>>

\* The observer's SetBackendHealth.
Publish(b) ==
    /\ probe[b] = "publishing"
    /\ gauge' = [gauge EXCEPT ![b] = reading[b]]
    /\ probe' = [probe EXCEPT ![b] = "done"]
    /\ UNCHANGED <<backend, run, reading, canceled, evidence>>

\* CheckOnce has heard from every backend.
EndRound ==
    /\ run \in {"round", "late"}
    /\ \A b \in Backends : probe[b] = "done"
    /\ run' = "select"
    /\ UNCHANGED <<backend, probe, reading, gauge, canceled, evidence>>

\* The ticker case of the select, which may win against a canceled context.
Tick ==
    /\ run = "select"
    /\ run' = IF canceled THEN "late" ELSE "round"
    /\ probe' = [b \in Backends |-> "probing"]
    /\ UNCHANGED <<backend, reading, gauge, canceled, evidence>>

\* The ctx.Done() case is ready.
DoneReady == canceled

\* The ctx.Done() case of the select.
Stop ==
    /\ run = "select"
    /\ DoneReady
    /\ run' = "stopped"
    /\ UNCHANGED <<backend, probe, reading, gauge, canceled, evidence>>

\* A reload or the shutdown cancels the context of this checker.
Cancel ==
    /\ ~canceled
    /\ canceled' = TRUE
    /\ UNCHANGED <<backend, run, probe, reading, gauge, evidence>>

\* A round trip to b failed: retryTransport drops the returned transition.
PassiveFailure(b) ==
    /\ backend' = [backend EXCEPT ![b] = RecordPassiveFailure(@)]
    /\ evidence' = [evidence EXCEPT ![b].passiveFails =
                       IF Alive(b) THEN Bump(@) ELSE @]
    /\ UNCHANGED <<run, probe, reading, gauge, canceled>>

\* A round trip to b succeeded.
PassiveSuccess(b) ==
    /\ backend' = [backend EXCEPT ![b] = RecordPassiveSuccess(@)]
    /\ evidence' = [evidence EXCEPT ![b].passiveFails = 0]
    /\ UNCHANGED <<run, probe, reading, gauge, canceled>>

ProbeStep(b) ==
    \/ ProbeSucceeds(b)
    \/ ProbeFails(b)
    \/ ProbeCanceled(b)

CheckStep(b) ==
    \/ ProbeStep(b)
    \/ ReadAlive(b)
    \/ Publish(b)

Next ==
    \/ \E b \in Backends :
         \/ CheckStep(b)
         \/ PassiveFailure(b)
         \/ PassiveSuccess(b)
    \/ EndRound
    \/ Tick
    \/ Stop
    \/ Cancel

\* Every probe ends, because HealthPolicy.Timeout bounds it; the goroutines
\* and the ticker run; and a select whose two cases stay ready picks each of
\* them eventually, because Go chooses among the ready cases at random.
Fairness ==
    /\ \A b \in Backends : WF_vars(CheckStep(b))
    /\ WF_vars(EndRound)
    /\ WF_vars(Tick)
    /\ SF_vars(Stop)

Spec == Init /\ [][Next]_vars /\ Fairness

-----------------------------------------------------------------------------
(* Safety                                                                  *)

\* A backend is ejected only by unhealthy_threshold consecutive failed probes,
\* or by as many passive failures with no success and no readmission between
\* them: evidence from before a readmission never counts again.
EjectionNeedsEvidence ==
    [][\A b \in Backends : Ejected(b) =>
         \/ evidence'[b].fails >= UnhealthyThreshold
         \/ evidence'[b].passiveFails >= UnhealthyThreshold]_vars

\* Only a successful probe readmits, the last of at least healthy_threshold in
\* a row: passes that already brought the backend back never count again.
ReadmissionNeedsRun ==
    [][\A b \in Backends : Readmitted(b) =>
         /\ probe[b] = "probing" /\ probe'[b] # "probing"
         /\ evidence'[b].fails = 0
         /\ Bump(evidence[b].passes) >= HealthyThreshold]_vars

\* Nobody is alive with as many failures against it as a threshold asks for,
\* whatever requests and probes reported in between.
FailuresEject ==
    \A b \in Backends :
        Alive(b) => /\ evidence[b].fails < UnhealthyThreshold
                    /\ evidence[b].passiveFails < UnhealthyThreshold

\* Evidence acts as soon as it is complete, in both directions: the failure that
\* reaches a threshold ejects, and a probe leaves an ejected backend out only
\* while its run of successes is still too short.
EvidenceActs ==
    [][ /\ FailuresEject'
        /\ \A b \in Backends :
             /\ ~Alive(b) /\ ~Alive(b)'
             /\ probe[b] = "probing" /\ probe'[b] # "probing"
             => evidence'[b].passes < HealthyThreshold ]_vars

\* The gauge never tells a live backend to be unhealthy, except while the
\* checker's own goroutine is between RecordProbe and the end of OnChange:
\* a request that ejects the backend in between cannot leave it wrong.
NoFalseUnhealthy ==
    /\ TypeOK
    /\ \A b \in Backends :
         ~gauge[b] /\ Alive(b) => probe[b] \in {"changed", "publishing"}

-----------------------------------------------------------------------------
(* Liveness                                                                *)

\* A backend whose probes succeed from some point on is eligible again and
\* again, however often requests eject it, as long as the checker runs.
RecoversWhenProbesPass ==
    \A b \in Backends :
        <>[](evidence[b].fails = 0) /\ []~canceled => []<>Alive(b)

\* A backend whose probes fail from some point on ends up ejected for good,
\* however many requests it still answers.
EjectedWhenProbesFail ==
    \A b \in Backends :
        <>[](evidence[b].fails > 0) /\ []~canceled => <>[]~Alive(b)

\* A canceled checker stops: no probe outlives a reload for ever.
StopsAfterCancel == canceled ~> run = "stopped"
=============================================================================
