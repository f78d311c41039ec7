------------------------- MODULE HealthCheckerProofs -------------------------
(***************************************************************************)
(* Theorems about HealthChecker, for every set of backends and every       *)
(* positive thresholds: evidence of the past never counts twice, and the   *)
(* gauge is never left wrong about a live backend.                         *)
(***************************************************************************)
EXTENDS HealthChecker, TLAPS

-----------------------------------------------------------------------------
(* The inductive invariant.                                                *)

\* The record of a backend holds the run of successes reported since the last
\* failed probe or readmission, and never more failures than were reported.
Founded(b) ==
    /\ backend[b].probePasses = evidence[b].passes
    /\ backend[b].probeFails <= evidence[b].fails
    /\ backend[b].passiveFails <= evidence[b].passiveFails

\* What the gauge, or what is about to be published, says of a backend that is
\* alive: no probe can readmit it before the goroutine is done, and Run waits
\* for every goroutine before it begins another round.
Published(b) ==
    /\ run = "select" => probe[b] = "done"
    /\ probe[b] \notin {"changed", "publishing"} /\ Alive(b) => gauge[b]
    /\ probe[b] = "publishing" /\ Alive(b) => reading[b]

IInv ==
    /\ TypeOK
    /\ \A b \in Backends : Founded(b) /\ Published(b)

-----------------------------------------------------------------------------
(* The operations on a record keep its type.                               *)

\* A count goes up by one, or stays where it saturates.
LEMMA BumpType ==
    ASSUME NEW n \in Count
    PROVE  /\ Bump(n) \in Count
           /\ n <= Bump(n)
           /\ n < MaxCount => Bump(n) = n + 1
           /\ \A m \in Count : m <= n => Bump(m) <= Bump(n)
BY MaxCountAssumption DEF Bump, Count

LEMMA SetAliveType ==
    ASSUME NEW alive \in BOOLEAN
    PROVE  SetAlive(alive) \in Health
BY ThresholdAssumption, MaxCountAssumption DEF SetAlive, Health, Count

LEMMA RecordProbeType ==
    ASSUME NEW h \in Health, NEW success \in BOOLEAN
    PROVE  RecordProbe(h, success) \in Health
<1>1. 0 \in Count  BY MaxCountAssumption DEF Count
<1>2. CASE success
  BY <1>1, <1>2, BumpType, SetAliveType DEF RecordProbe, ProbePass, Health
<1>3. CASE ~success
  BY <1>1, <1>3, BumpType DEF RecordProbe, ProbeFail, Health
<1> QED  BY <1>2, <1>3

LEMMA RecordPassiveType ==
    ASSUME NEW h \in Health
    PROVE  RecordPassiveFailure(h) \in Health /\ RecordPassiveSuccess(h) \in Health
<1>1. 0 \in 0..UnhealthyThreshold - 1  BY ThresholdAssumption
<1>2. h.passiveFails \in Count  BY ThresholdAssumption, MaxCountAssumption DEF Health, Count
<1>3. Bump(h.passiveFails) \in Nat  BY <1>2, BumpType DEF Count
<1>4. Bump(h.passiveFails) < UnhealthyThreshold
        => Bump(h.passiveFails) \in 0..UnhealthyThreshold - 1
  BY <1>3, ThresholdAssumption
<1>5. RecordPassiveFailure(h) \in Health
  BY <1>1, <1>4 DEF RecordPassiveFailure, Health
<1> QED  BY <1>1, <1>5 DEF RecordPassiveSuccess, Health
-----------------------------------------------------------------------------
(* The steps.                                                              *)

LEMMA InitIInv == Init => IInv
<1> SUFFICES ASSUME Init PROVE IInv  OBVIOUS
<1>1. PICK alive \in [Backends -> BOOLEAN] :
        /\ backend = [b \in Backends |-> SetAlive(alive[b])]
        /\ gauge = alive
        /\ reading = alive
  BY DEF Init
<1>2. 0 \in Count  BY MaxCountAssumption DEF Count
<1>3. TypeOK
  BY <1>1, <1>2, SetAliveType DEF Init, TypeOK, Evidence, NoEvidence
<1>4. \A b \in Backends : Founded(b) /\ Published(b)
  BY <1>1 DEF Init, SetAlive, NoEvidence, Founded, Published, Alive
<1> QED  BY <1>3, <1>4 DEF IInv

\* A step that concerns one backend keeps what holds of the others.
LEMMA OneBackend ==
    ASSUME IInv, TypeOK', NEW b \in Backends, Founded(b)', Published(b)', run' = run,
           \A x \in Backends \ {b} :
              /\ backend'[x] = backend[x] /\ evidence'[x] = evidence[x]
              /\ probe'[x] = probe[x] /\ reading'[x] = reading[x] /\ gauge'[x] = gauge[x]
    PROVE  IInv'
<1> SUFFICES ASSUME NEW x \in Backends PROVE Founded(x)' /\ Published(x)'
  BY DEF IInv
<1>1. CASE x = b  BY <1>1
<1>2. CASE x # b
  BY <1>2 DEF IInv, Founded, Published, Alive
<1> QED  BY <1>1, <1>2

\* A probe's result: what the record counts, the history has counted too.
LEMMA RecordResultStep ==
    ASSUME IInv, NEW b \in Backends, NEW success \in BOOLEAN, RecordResult(b, success)
    PROVE  /\ IInv'
           /\ Ejected(b) => evidence'[b].fails >= UnhealthyThreshold
           /\ Readmitted(b) => /\ evidence'[b].fails = 0
                               /\ Bump(evidence[b].passes) >= HealthyThreshold
           /\ ~Alive(b) /\ ~Alive(b)' => evidence'[b].passes < HealthyThreshold
<1> DEFINE h == backend[b]
           e == evidence[b]
           new == RecordProbe(h, success)
<1>1. /\ backend' = [backend EXCEPT ![b] = new]
      /\ probe' = [probe EXCEPT ![b] = IF Changed(h, new) THEN "changed" ELSE "done"]
      /\ evidence' = [evidence EXCEPT ![b] = Probed(b, success)]
      /\ probe[b] = "probing"
      /\ UNCHANGED <<run, reading, gauge, canceled>>
  BY DEF RecordResult
<1>2. h \in Health /\ e \in Evidence /\ new \in Health
  BY RecordProbeType DEF IInv, TypeOK
<1>3. 0 \in Count /\ HealthyThreshold \in Nat /\ UnhealthyThreshold \in Nat
  BY MaxCountAssumption, ThresholdAssumption DEF Count
<1>4. Probed(b, success) \in Evidence
  <2>1. NoEvidence \in Evidence  BY <1>3 DEF NoEvidence, Evidence
  <2>2. /\ [e EXCEPT !.passes = Bump(@), !.fails = 0] \in Evidence
        /\ [e EXCEPT !.passes = 0, !.fails = Bump(@)] \in Evidence
    BY <1>2, <1>3, BumpType DEF Evidence
  <2> QED  BY <2>1, <2>2 DEF Probed
<1>5. TypeOK'
  BY <1>1, <1>2, <1>4 DEF IInv, TypeOK
<1>6. h.probePasses = e.passes /\ h.probeFails <= e.fails /\ h.passiveFails <= e.passiveFails
  BY DEF IInv, Founded
<1>7. /\ h.probePasses \in Count /\ h.probeFails \in Count /\ h.passiveFails \in Nat
      /\ h.alive \in BOOLEAN
      /\ e.passes \in Count /\ e.fails \in Count /\ e.passiveFails \in Count
  BY <1>2, ThresholdAssumption DEF Health, Evidence
<1>8. /\ Bump(h.probePasses) = Bump(e.passes) /\ Bump(h.probeFails) <= Bump(e.fails)
      /\ Bump(h.probePasses) \in Nat /\ Bump(h.probeFails) \in Nat
      /\ Bump(e.passes) \in Nat /\ Bump(e.fails) \in Nat
  BY <1>6, <1>7, BumpType DEF Count
<1>9. backend'[b] = new /\ evidence'[b] = Probed(b, success)  BY <1>1 DEF IInv, TypeOK
<1>10. CASE success
  <2>1. CASE ~h.alive /\ Bump(h.probePasses) >= HealthyThreshold
    <3>1. new = SetAlive(TRUE)  BY <1>10, <2>1 DEF RecordProbe, ProbePass
    <3>2. new.alive /\ Changed(h, new)
      <4>1. new.alive = TRUE /\ h.alive = FALSE  BY <1>7, <2>1, <3>1 DEF SetAlive
      <4> QED  BY <4>1 DEF Changed
    <3>3. Probed(b, success) = NoEvidence  BY <2>1, <3>2 DEF Probed
    <3>4. Founded(b)'  BY <1>9, <3>1, <3>3 DEF Founded, SetAlive, NoEvidence
    <3>5. probe'[b] = "changed"  BY <1>1, <3>2 DEF IInv, TypeOK
    <3>6. Published(b)'  BY <1>1, <3>5 DEF RecordResult, Published
    <3>7. IInv'  BY <1>1, <1>5, <3>4, <3>6, OneBackend DEF IInv, TypeOK
    <3>8. Alive(b)'  BY <1>9, <3>2 DEF Alive
    <3>9. evidence'[b].fails = 0  BY <1>9, <3>3 DEF NoEvidence
    <3>10. Bump(e.passes) >= HealthyThreshold  BY <1>8, <2>1
    <3> QED  BY <3>7, <3>8, <3>9, <3>10 DEF Ejected
  <2>2. CASE ~(~h.alive /\ Bump(h.probePasses) >= HealthyThreshold)
    <3>1. /\ new = [h EXCEPT !.probeFails = 0, !.probePasses = Bump(h.probePasses)]
      BY <1>10, <2>2 DEF RecordProbe, ProbePass
    <3>2. /\ new.alive = h.alive /\ new.probeFails = 0
          /\ new.probePasses = Bump(h.probePasses) /\ new.passiveFails = h.passiveFails
      BY <1>2, <3>1 DEF Health
    <3>4. /\ Probed(b, success).passes = Bump(e.passes) /\ Probed(b, success).fails = 0
          /\ Probed(b, success).passiveFails = e.passiveFails
      BY <1>2, <1>10, <3>2 DEF Probed, Evidence
    <3>5. Founded(b)'  BY <1>6, <1>8, <1>9, <3>2, <3>4 DEF Founded
    <3>6. Alive(b)' <=> Alive(b)  BY <1>9, <3>2 DEF Alive
    <3>7. Published(b)'  BY <1>1, <3>6 DEF IInv, TypeOK, Published
    <3>8. IInv'  BY <1>1, <1>5, <3>5, <3>7, OneBackend DEF IInv, TypeOK
    <3>9. ~Alive(b) => evidence'[b].passes < HealthyThreshold
      BY <1>3, <1>8, <1>9, <2>2, <3>4 DEF Alive
    <3> QED  BY <3>6, <3>8, <3>9 DEF Ejected, Readmitted
  <2> QED  BY <2>1, <2>2
<1>11. CASE ~success
  <2>2. /\ new.probePasses = 0 /\ new.passiveFails = h.passiveFails
        /\ new.probeFails \in {0, Bump(h.probeFails)}
        /\ new.alive => h.alive
        /\ h.alive /\ ~new.alive => Bump(h.probeFails) >= UnhealthyThreshold
    BY <1>2, <1>7, <1>11 DEF RecordProbe, ProbeFail, Health
  <2>1. /\ Probed(b, success).passes = 0 /\ Probed(b, success).fails = Bump(e.fails)
        /\ Probed(b, success).passiveFails = e.passiveFails
    BY <1>2, <1>11, <2>2 DEF Probed, Evidence
  <2>3. Founded(b)'  BY <1>6, <1>8, <1>9, <2>1, <2>2 DEF Founded
  <2>4. Published(b)'
    BY <1>1, <1>9, <2>2 DEF IInv, TypeOK, Published, Alive
  <2>5. IInv'  BY <1>1, <1>5, <2>3, <2>4, OneBackend DEF IInv, TypeOK
  <2>6. evidence'[b].passes < HealthyThreshold
    BY <1>9, <2>1, ThresholdAssumption
  <2> QED  BY <1>3, <1>8, <1>9, <2>1, <2>2, <2>5, <2>6 DEF Ejected, Readmitted, Alive
<1> QED  BY <1>10, <1>11

\* A passive failure: it ejects only at the threshold, and never readmits.
LEMMA PassiveFailureStep ==
    ASSUME IInv, NEW b \in Backends, PassiveFailure(b)
    PROVE  /\ IInv'
           /\ Ejected(b) => evidence'[b].passiveFails >= UnhealthyThreshold
           /\ ~Readmitted(b)
<1> DEFINE h == backend[b]
           e == evidence[b]
           new == RecordPassiveFailure(h)
           told == IF Alive(b) THEN Bump(e.passiveFails) ELSE e.passiveFails
<1>1. /\ backend' = [backend EXCEPT ![b] = new]
      /\ evidence' = [evidence EXCEPT ![b].passiveFails = told]
      /\ UNCHANGED <<run, probe, reading, gauge, canceled>>
  BY DEF PassiveFailure
<1>2. h \in Health /\ e \in Evidence /\ new \in Health
  BY RecordPassiveType DEF IInv, TypeOK
<1>3. UnhealthyThreshold \in Nat /\ MaxCount \in Nat /\ UnhealthyThreshold <= MaxCount
  BY ThresholdAssumption, MaxCountAssumption
<1>4. h.passiveFails \in Count /\ e.passiveFails \in Count
  BY <1>2, <1>3 DEF Health, Evidence, Count
<1>5. h.probePasses = e.passes /\ h.probeFails <= e.fails /\ h.passiveFails <= e.passiveFails
  BY DEF IInv, Founded
<1>6. /\ Bump(h.passiveFails) <= Bump(e.passiveFails)
      /\ Bump(h.passiveFails) \in Count /\ Bump(e.passiveFails) \in Count
  BY <1>4, <1>5, BumpType
<1>7. told \in Count  BY <1>4, <1>6
<1>8. /\ backend'[b] = new
      /\ evidence'[b] = [e EXCEPT !.passiveFails = told]
  BY <1>1 DEF IInv, TypeOK
<1>9. [e EXCEPT !.passiveFails = told] \in Evidence  BY <1>2, <1>7 DEF Evidence
<1>10. TypeOK'
  <2>1. evidence' \in [Backends -> Evidence]
    BY <1>1, <1>9 DEF IInv, TypeOK
  <2> QED  BY <1>1, <1>2, <2>1 DEF IInv, TypeOK
<1>11. evidence'[b].passes = e.passes /\ evidence'[b].fails = e.fails
       /\ evidence'[b].passiveFails = told
  BY <1>2, <1>8 DEF Evidence
<1>12. /\ new.probePasses = h.probePasses /\ new.probeFails = h.probeFails
       /\ new.alive => h.alive
  BY <1>2 DEF RecordPassiveFailure, Health
<1>13. CASE ~h.alive
  <2>1. new = h /\ told = e.passiveFails  BY <1>13 DEF RecordPassiveFailure, Alive
  <2>2. Founded(b)'  BY <1>5, <1>8, <1>11, <2>1 DEF Founded
  <2>3. Published(b)'  BY <1>1, <1>8, <1>13, <2>1 DEF IInv, Published, Alive
  <2>4. IInv'  BY <1>1, <1>10, <2>2, <2>3, OneBackend DEF IInv, TypeOK
  <2> QED  BY <1>8, <1>13, <2>1, <2>4 DEF Ejected, Readmitted, Alive
<1>14. CASE h.alive /\ Bump(h.passiveFails) < UnhealthyThreshold
  <2>1. new.passiveFails = Bump(h.passiveFails) /\ new.alive = h.alive
    BY <1>2, <1>14 DEF RecordPassiveFailure, Health
  <2>2. told = Bump(e.passiveFails)  BY <1>14 DEF Alive
  <2>3. Founded(b)'  BY <1>5, <1>6, <1>8, <1>11, <1>12, <2>1, <2>2 DEF Founded
  <2>4. Published(b)'  BY <1>1, <1>8, <2>1 DEF IInv, Published, Alive
  <2>5. IInv'  BY <1>1, <1>10, <2>3, <2>4, OneBackend DEF IInv, TypeOK
  <2> QED  BY <1>8, <1>14, <2>1, <2>5 DEF Ejected, Readmitted, Alive
<1>15. CASE h.alive /\ ~(Bump(h.passiveFails) < UnhealthyThreshold)
  <2>1. new.passiveFails = 0 /\ new.alive = FALSE
    BY <1>2, <1>15 DEF RecordPassiveFailure, Health
  <2>2. told = Bump(e.passiveFails)  BY <1>15 DEF Alive
  <2>3. told >= UnhealthyThreshold  BY <1>3, <1>6, <1>15, <2>2 DEF Count
  <2>4. Founded(b)'  BY <1>5, <1>7, <1>8, <1>11, <1>12, <2>1 DEF Founded, Count
  <2>5. Published(b)'  BY <1>1, <1>8, <2>1 DEF IInv, Published, Alive
  <2>6. IInv'  BY <1>1, <1>10, <2>4, <2>5, OneBackend DEF IInv, TypeOK
  <2>7. ~Readmitted(b)  BY <1>8, <2>1 DEF Readmitted, Alive
  <2> QED  BY <1>11, <2>3, <2>6, <2>7
<1> QED  BY <1>13, <1>14, <1>15

\* A passive success forgets the passive failures, of the record and of the
\* history alike, and changes nothing else.
LEMMA PassiveSuccessStep ==
    ASSUME IInv, NEW b \in Backends, PassiveSuccess(b)
    PROVE  IInv' /\ ~Ejected(b) /\ ~Readmitted(b)
<1> DEFINE h == backend[b]
           e == evidence[b]
<1>1. /\ backend' = [backend EXCEPT ![b] = RecordPassiveSuccess(h)]
      /\ evidence' = [evidence EXCEPT ![b].passiveFails = 0]
      /\ UNCHANGED <<run, probe, reading, gauge, canceled>>
  BY DEF PassiveSuccess
<1>2. h \in Health /\ e \in Evidence /\ RecordPassiveSuccess(h) \in Health
  BY RecordPassiveType DEF IInv, TypeOK
<1>3. 0 \in Count  BY MaxCountAssumption DEF Count
<1>4. [e EXCEPT !.passiveFails = 0] \in Evidence  BY <1>2, <1>3 DEF Evidence
<1>5. backend'[b] = RecordPassiveSuccess(h) /\ evidence'[b] = [e EXCEPT !.passiveFails = 0]
  BY <1>1 DEF IInv, TypeOK
<1>6. TypeOK'
  <2>1. evidence' \in [Backends -> Evidence]
    BY <1>1, <1>4 DEF IInv, TypeOK
  <2> QED  BY <1>1, <1>2, <2>1 DEF IInv, TypeOK
<1>7. /\ backend'[b].probePasses = h.probePasses /\ backend'[b].probeFails = h.probeFails
      /\ backend'[b].passiveFails = 0 /\ backend'[b].alive = h.alive
  BY <1>2, <1>5 DEF RecordPassiveSuccess, Health
<1>8. /\ evidence'[b].passes = e.passes /\ evidence'[b].fails = e.fails
      /\ evidence'[b].passiveFails = 0
  BY <1>2, <1>5 DEF Evidence
<1>9. Founded(b)'  BY <1>7, <1>8 DEF IInv, Founded
<1>10. Published(b)'  BY <1>1, <1>7 DEF IInv, Published, Alive
<1>11. IInv'  BY <1>1, <1>6, <1>9, <1>10, OneBackend DEF IInv, TypeOK
<1> QED  BY <1>7, <1>11 DEF Ejected, Readmitted, Alive

\* The goroutine of a changed backend: what it publishes was read after the
\* change, and only another probe could bring the backend back.
LEMMA OnChangeStep ==
    ASSUME IInv, NEW b \in Backends, ReadAlive(b) \/ Publish(b)
    PROVE  IInv'
<1>1. CASE ReadAlive(b)
  <2>1. TypeOK'  BY <1>1 DEF IInv, TypeOK, ReadAlive, Alive, Health
  <2>2. Founded(b)'  BY <1>1 DEF IInv, Founded, ReadAlive
  <2>3. Published(b)'  BY <1>1 DEF IInv, TypeOK, Published, ReadAlive, Alive
  <2> QED  BY <1>1, <2>1, <2>2, <2>3, OneBackend DEF IInv, TypeOK, ReadAlive
<1>2. CASE Publish(b)
  <2>1. TypeOK'  BY <1>2 DEF IInv, TypeOK, Publish
  <2>2. Founded(b)'  BY <1>2 DEF IInv, Founded, Publish
  <2>3. Published(b)'  BY <1>2 DEF IInv, TypeOK, Published, Publish, Alive
  <2> QED  BY <1>2, <2>1, <2>2, <2>3, OneBackend DEF IInv, TypeOK, Publish
<1> QED  BY <1>1, <1>2

\* The loop of Run changes no record, and a new round starts with no change
\* still to be published.
LEMMA RunStep ==
    ASSUME IInv, EndRound \/ Tick \/ Stop \/ Cancel \/ UNCHANGED vars
    PROVE  IInv' /\ UNCHANGED <<backend, evidence>>
<1>1. CASE EndRound
  BY <1>1 DEF IInv, TypeOK, Founded, Published, Alive, EndRound
<1>2. CASE Tick
  <2>1. TypeOK'  BY <1>2 DEF IInv, TypeOK, Tick
  <2>2. \A b \in Backends : Founded(b)'  BY <1>2 DEF IInv, Founded, Tick
  <2>3. \A b \in Backends : Published(b)'
    <3> SUFFICES ASSUME NEW b \in Backends PROVE Published(b)'  OBVIOUS
    <3>1. probe'[b] = "probing"  BY <1>2 DEF Tick
    <3>2. UNCHANGED <<backend, gauge>>  BY <1>2 DEF Tick
    <3>3. run = "select" /\ run' # "select"  BY <1>2 DEF Tick
    <3>4. Alive(b) => gauge[b]  BY <3>3 DEF IInv, Published
    <3> QED  BY <3>1, <3>2, <3>3, <3>4 DEF Published, Alive
  <2> QED  BY <1>2, <2>1, <2>2, <2>3 DEF IInv, Tick
<1>3. CASE Stop
  BY <1>3 DEF IInv, TypeOK, Founded, Published, Alive, Stop
<1>4. CASE Cancel
  BY <1>4 DEF IInv, TypeOK, Founded, Published, Alive, Cancel
<1>5. CASE UNCHANGED vars
  BY <1>5 DEF IInv, TypeOK, Founded, Published, Alive, vars
<1> QED  BY <1>1, <1>2, <1>3, <1>4, <1>5

-----------------------------------------------------------------------------
(* The theorems.                                                           *)

\* What a step owes to the evidence on b: an ejection or a readmission has what
\* it needs, and a probe that leaves b out has too little.
Justified(b) ==
    /\ Ejected(b) => \/ evidence'[b].fails >= UnhealthyThreshold
                     \/ evidence'[b].passiveFails >= UnhealthyThreshold
    /\ Readmitted(b) => /\ probe[b] = "probing" /\ probe'[b] # "probing"
                        /\ evidence'[b].fails = 0
                        /\ Bump(evidence[b].passes) >= HealthyThreshold
    /\ /\ ~Alive(b) /\ ~Alive(b)'
       /\ probe[b] = "probing" /\ probe'[b] # "probing"
       => evidence'[b].passes < HealthyThreshold

\* Every step keeps the invariant and owes nothing to the evidence.
LEMMA NextStep ==
    ASSUME IInv, [Next]_vars
    PROVE  IInv' /\ \A b \in Backends : Justified(b)
<1>1. CASE \E b \in Backends : CheckStep(b) \/ PassiveFailure(b) \/ PassiveSuccess(b)
  <2>1. PICK b \in Backends : CheckStep(b) \/ PassiveFailure(b) \/ PassiveSuccess(b)
    BY <1>1
  <2>2. CASE ProbeStep(b)
    <3>1. PICK success \in BOOLEAN : RecordResult(b, success)
      BY <2>2 DEF ProbeStep, ProbeSucceeds, ProbeFails, ProbeCanceled
    <3>2. IInv' /\ Justified(b)
      <4>1. probe[b] = "probing" /\ probe'[b] # "probing"
        BY <3>1 DEF RecordResult, IInv, TypeOK
      <4> QED  BY <3>1, <4>1, RecordResultStep DEF Justified
    <3>3. \A x \in Backends \ {b} : backend'[x] = backend[x] /\ probe'[x] = probe[x]
      BY <3>1 DEF RecordResult, IInv, TypeOK
    <3> QED  BY <3>2, <3>3 DEF Justified, Ejected, Readmitted, Alive
  <2>3. CASE ReadAlive(b) \/ Publish(b)
    <3>1. IInv'  BY <2>3, OnChangeStep
    <3>2. UNCHANGED backend  BY <2>3 DEF ReadAlive, Publish
    <3>3. \A x \in Backends : probe[x] = "probing" => probe'[x] = "probing"
      BY <2>3 DEF ReadAlive, Publish, IInv, TypeOK
    <3> QED  BY <3>1, <3>2, <3>3 DEF Justified, Ejected, Readmitted, Alive
  <2>4. CASE PassiveFailure(b)
    <3>1. UNCHANGED probe  BY <2>4 DEF PassiveFailure
    <3>2. IInv' /\ Justified(b)  BY <2>4, <3>1, PassiveFailureStep DEF Justified
    <3>3. \A x \in Backends \ {b} : backend'[x] = backend[x]
      BY <2>4 DEF PassiveFailure, IInv, TypeOK
    <3> QED  BY <3>1, <3>2, <3>3 DEF Justified, Ejected, Readmitted, Alive
  <2>5. CASE PassiveSuccess(b)
    <3>1. UNCHANGED probe  BY <2>5 DEF PassiveSuccess
    <3>2. IInv' /\ Justified(b)  BY <2>5, <3>1, PassiveSuccessStep DEF Justified
    <3>3. \A x \in Backends \ {b} : backend'[x] = backend[x]
      BY <2>5 DEF PassiveSuccess, IInv, TypeOK
    <3> QED  BY <3>1, <3>2, <3>3 DEF Justified, Ejected, Readmitted, Alive
  <2> QED  BY <2>1, <2>2, <2>3, <2>4, <2>5 DEF CheckStep
<1>2. CASE EndRound \/ Tick \/ Stop \/ Cancel \/ UNCHANGED vars
  <2>1. IInv' /\ UNCHANGED <<backend, evidence>>  BY <1>2, RunStep
  <2>2. \A x \in Backends : probe[x] = "probing" => probe'[x] = "probing"
    BY <1>2 DEF EndRound, Tick, Stop, Cancel, vars
  <2> QED  BY <2>1, <2>2 DEF Justified, Ejected, Readmitted, Alive
<1> QED  BY <1>1, <1>2 DEF Next

\* What the record counts was reported, and what the goroutines of a round are
\* about to publish is true of the backends that are alive: the inductive
\* invariant of the checker (backend.go RecordProbe, health.go check).
THEOREM Inductive == Spec => []IInv
<1>1. IInv /\ [Next]_vars => IInv'  BY NextStep
<1> QED  BY InitIInv, <1>1, PTL DEF Spec

\* The gauge says that a live backend is unhealthy only while OnChange is on
\* its way (health.go check, runtime.go StartHealthChecks), however requests
\* eject the backend in between.
THEOREM GaugeNeverFalse == Spec => []NoFalseUnhealthy
<1>1. IInv => NoFalseUnhealthy
  BY DEF IInv, TypeOK, Published, NoFalseUnhealthy
<1> QED  BY Inductive, <1>1, PTL

\* No backend is ejected without unhealthy_threshold failures in a row, probes
\* or passive ones, since it last recovered (backend.go RecordProbe and
\* RecordPassiveFailure).
THEOREM EjectionsJustified == Spec => EjectionNeedsEvidence
<1>1. IInv /\ [Next]_vars =>
        [\A b \in Backends : Ejected(b) =>
            \/ evidence'[b].fails >= UnhealthyThreshold
            \/ evidence'[b].passiveFails >= UnhealthyThreshold]_vars
  BY NextStep DEF Justified
<1> QED  BY Inductive, <1>1, PTL DEF Spec, EjectionNeedsEvidence

\* No backend is readmitted but by a successful probe that completes a run of
\* healthy_threshold since the last failed one or readmission (backend.go
\* RecordProbe), whatever requests report on it meanwhile.
THEOREM ReadmissionsJustified == Spec => ReadmissionNeedsRun
<1>1. IInv /\ [Next]_vars =>
        [\A b \in Backends : Readmitted(b) =>
            /\ probe[b] = "probing" /\ probe'[b] # "probing"
            /\ evidence'[b].fails = 0
            /\ Bump(evidence[b].passes) >= HealthyThreshold]_vars
  BY NextStep DEF Justified
<1> QED  BY Inductive, <1>1, PTL DEF Spec, ReadmissionNeedsRun

-----------------------------------------------------------------------------
(* Evidence acts at once.  Founded bounds the failures on record from      *)
(* above; of a live backend they are also no fewer than were reported.     *)

\* The record of a live backend counts every failure reported on it.
Exact(b) ==
    Alive(b) =>
        /\ backend[b].probeFails = evidence[b].fails
        /\ backend[b].passiveFails = evidence[b].passiveFails
        /\ evidence[b].fails < UnhealthyThreshold

AllExact == \A b \in Backends : Exact(b)

\* A probe's result: a backend that stays alive had its failures counted below
\* the threshold, one that comes back starts with none.
LEMMA ExactProbe ==
    ASSUME IInv, NEW b \in Backends, NEW success \in BOOLEAN, RecordResult(b, success),
           Exact(b)
    PROVE  Exact(b)'
<1> DEFINE h == backend[b]
           e == evidence[b]
           new == RecordProbe(h, success)
<1>1. backend'[b] = new /\ evidence'[b] = Probed(b, success)
  BY DEF RecordResult, IInv, TypeOK
<1>2. h \in Health /\ e \in Evidence  BY DEF IInv, TypeOK
<1>3. UnhealthyThreshold \in Nat \ {0}  BY ThresholdAssumption
<1>4. CASE success
  <2>1. Probed(b, success).fails = 0 /\ new.probeFails = 0
    <3>1. Probed(b, success).fails = 0
      BY <1>2, <1>4 DEF Probed, NoEvidence, Evidence
    <3>2. new.probeFails = 0
      BY <1>2, <1>4 DEF RecordProbe, ProbePass, SetAlive, Health
    <3> QED  BY <3>1, <3>2
  <2>2. CASE h.alive
    <3>1. new = [h EXCEPT !.probeFails = 0, !.probePasses = Bump(h.probePasses)]
      BY <1>4, <2>2 DEF RecordProbe, ProbePass
    <3>2. new.alive = h.alive /\ new.passiveFails = h.passiveFails  BY <1>2, <3>1 DEF Health
    <3>3. Probed(b, success).passiveFails = e.passiveFails
      BY <1>2, <1>4, <2>2 DEF Probed, Evidence
    <3>4. h.passiveFails = e.passiveFails  BY <2>2 DEF Exact, Alive
    <3> QED  BY <1>1, <1>3, <2>1, <3>2, <3>3, <3>4 DEF Exact
  <2>3. CASE ~h.alive
    <3>1. CASE new.alive
      <4>1. new = SetAlive(TRUE)
        BY <1>2, <1>4, <2>3, <3>1 DEF RecordProbe, ProbePass, Health
      <4>3. new.passiveFails = 0  BY <4>1 DEF SetAlive
      <4>4. Probed(b, success).passiveFails = 0
        BY <2>3, <3>1 DEF Probed, NoEvidence
      <4> QED  BY <1>1, <1>3, <2>1, <4>3, <4>4 DEF Exact
    <3>2. CASE ~new.alive
      BY <1>1, <3>2 DEF Exact, Alive
    <3> QED  BY <3>1, <3>2
  <2> QED  BY <2>2, <2>3
<1>5. CASE ~success
  <2>2. /\ new.passiveFails = h.passiveFails
        /\ new.alive => /\ h.alive
                        /\ ~(Bump(h.probeFails) >= UnhealthyThreshold)
                        /\ new.probeFails = Bump(h.probeFails)
    BY <1>2, <1>5 DEF RecordProbe, ProbeFail, Health
  <2>1. /\ Probed(b, success).fails = Bump(e.fails)
        /\ Probed(b, success).passiveFails = e.passiveFails
    BY <1>2, <1>5, <2>2 DEF Probed, Evidence
  <2>3. Bump(e.fails) \in Nat  BY <1>2, BumpType DEF Evidence, Count
  <2>4. SUFFICES ASSUME new.alive
                 PROVE  /\ new.probeFails = Probed(b, success).fails
                        /\ new.passiveFails = Probed(b, success).passiveFails
                        /\ Probed(b, success).fails < UnhealthyThreshold
    BY <1>1 DEF Exact, Alive
  <2>5. h.probeFails = e.fails /\ h.passiveFails = e.passiveFails
    BY <2>2, <2>4 DEF Exact, Alive
  <2> QED  BY <1>3, <2>1, <2>2, <2>3, <2>4, <2>5
<1> QED  BY <1>4, <1>5

\* Passive evidence: both counts go up together, and start again together.
LEMMA ExactPassive ==
    ASSUME IInv, NEW b \in Backends, PassiveFailure(b) \/ PassiveSuccess(b), Exact(b)
    PROVE  Exact(b)'
<1> DEFINE h == backend[b]
           e == evidence[b]
<1>1. h \in Health /\ e \in Evidence  BY DEF IInv, TypeOK
<1>2. CASE PassiveFailure(b)
  <2>1. /\ backend'[b] = RecordPassiveFailure(h)
        /\ evidence'[b] = [e EXCEPT !.passiveFails = IF h.alive THEN Bump(@) ELSE @]
    BY <1>2 DEF PassiveFailure, IInv, TypeOK, Alive
  <2>2. SUFFICES ASSUME RecordPassiveFailure(h).alive PROVE Exact(b)'
    BY <2>1 DEF Exact, Alive
  <2>3. /\ h.alive
        /\ RecordPassiveFailure(h).probeFails = h.probeFails
        /\ RecordPassiveFailure(h).passiveFails = Bump(h.passiveFails)
    BY <1>1, <2>2 DEF RecordPassiveFailure, Health
  <2>4. evidence'[b].fails = e.fails /\ evidence'[b].passiveFails = Bump(e.passiveFails)
    BY <1>1, <2>1, <2>3 DEF Evidence
  <2> QED  BY <2>1, <2>3, <2>4 DEF Exact, Alive
<1>3. CASE PassiveSuccess(b)
  <2>1. /\ backend'[b] = [h EXCEPT !.passiveFails = 0]
        /\ evidence'[b] = [e EXCEPT !.passiveFails = 0]
    BY <1>3 DEF PassiveSuccess, RecordPassiveSuccess, IInv, TypeOK
  <2>2. /\ backend'[b].alive = h.alive /\ backend'[b].probeFails = h.probeFails
        /\ backend'[b].passiveFails = 0
        /\ evidence'[b].fails = e.fails /\ evidence'[b].passiveFails = 0
    BY <1>1, <2>1 DEF Health, Evidence
  <2> QED  BY <2>2 DEF Exact, Alive
<1> QED  BY <1>2, <1>3

LEMMA ExactStep ==
    ASSUME IInv, AllExact, [Next]_vars
    PROVE  AllExact'
<1> USE DEF AllExact
<1>1. ASSUME UNCHANGED <<backend, evidence>> PROVE \A b \in Backends : Exact(b)'
  BY <1>1 DEF Exact, Alive
<1>2. ASSUME NEW b \in Backends, ProbeStep(b) \/ PassiveFailure(b) \/ PassiveSuccess(b)
      PROVE  \A x \in Backends : Exact(x)'
  <2>1. Exact(b)'
    <3>1. CASE ProbeStep(b)
      <4>1. PICK success \in BOOLEAN : RecordResult(b, success)
        BY <3>1 DEF ProbeStep, ProbeSucceeds, ProbeFails, ProbeCanceled
      <4> QED  BY <4>1, ExactProbe
    <3> QED  BY <1>2, <3>1, ExactPassive
  <2>2. \A x \in Backends \ {b} : backend'[x] = backend[x] /\ evidence'[x] = evidence[x]
    BY <1>2 DEF ProbeStep, ProbeSucceeds, ProbeFails, ProbeCanceled, RecordResult,
                PassiveFailure, PassiveSuccess, IInv, TypeOK
  <2>3. \A x \in Backends \ {b} : Exact(x)'  BY <2>2 DEF Exact, Alive
  <2> QED  BY <2>1, <2>3
<1>3. ASSUME NEW b \in Backends, ReadAlive(b) \/ Publish(b)
      PROVE  UNCHANGED <<backend, evidence>>
  BY <1>3 DEF ReadAlive, Publish
<1>4. ASSUME EndRound \/ Tick \/ Stop \/ Cancel \/ UNCHANGED vars
      PROVE  UNCHANGED <<backend, evidence>>
  BY <1>4 DEF EndRound, Tick, Stop, Cancel, vars
<1> QED  BY <1>1, <1>2, <1>3, <1>4 DEF Next, CheckStep

\* A live backend with its failures on record is below both thresholds.
LEMMA ExactEjects == IInv /\ AllExact => FailuresEject
<1> SUFFICES ASSUME IInv, AllExact, NEW b \in Backends, Alive(b)
             PROVE  /\ evidence[b].fails < UnhealthyThreshold
                    /\ evidence[b].passiveFails < UnhealthyThreshold
  BY DEF FailuresEject
<1>1. backend[b].passiveFails \in 0..UnhealthyThreshold - 1
  BY DEF IInv, TypeOK, Health
<1>2. /\ evidence[b].fails < UnhealthyThreshold
      /\ evidence[b].passiveFails = backend[b].passiveFails
  BY DEF AllExact, Exact
<1>3. \A n \in 0..UnhealthyThreshold - 1 : n < UnhealthyThreshold
  BY ThresholdAssumption
<1> QED  BY <1>1, <1>2, <1>3

\* A backend is ejected with the failure that reaches a threshold, and one that
\* is out comes back with the probe that completes its run, no later (backend.go
\* RecordProbe and RecordPassiveFailure): the thresholds are exact, since
\* EjectionsJustified and ReadmissionsJustified say that it is no sooner either.
THEOREM EvidenceActsAtOnce == Spec => EvidenceActs
<1>1. Init => AllExact
  BY ThresholdAssumption DEF Init, AllExact, Exact, Alive, SetAlive, NoEvidence
<1>2. IInv /\ AllExact /\ [Next]_vars => AllExact'
  BY ExactStep
<1>3. IInv /\ AllExact /\ [Next]_vars =>
        [ /\ FailuresEject'
          /\ \A b \in Backends :
               /\ ~Alive(b) /\ ~Alive(b)'
               /\ probe[b] = "probing" /\ probe'[b] # "probing"
               => evidence'[b].passes < HealthyThreshold ]_vars
  <2> SUFFICES ASSUME IInv, AllExact, [Next]_vars
               PROVE  /\ FailuresEject'
                      /\ \A b \in Backends :
                           /\ ~Alive(b) /\ ~Alive(b)'
                           /\ probe[b] = "probing" /\ probe'[b] # "probing"
                           => evidence'[b].passes < HealthyThreshold
    OBVIOUS
  <2>1. IInv' /\ \A b \in Backends : Justified(b)  BY NextStep
  <2>2. AllExact'  BY ExactStep
  <2>3. IInv' /\ AllExact' => FailuresEject'  BY ExactEjects, PTL
  <2> QED  BY <2>1, <2>2, <2>3 DEF Justified
<1> QED  BY Inductive, <1>1, <1>2, <1>3, PTL DEF Spec, EvidenceActs
=============================================================================
