---------------------------- MODULE HandlerProofs ----------------------------
(***************************************************************************)
(* Theorems about Handler, for every set of requests and backends and for  *)
(* every limit.  The counters are shown to be the cardinalities of the     *)
(* sets of requests they stand for; the remaining conjuncts of the         *)
(* inductive invariant say where a request that holds something can be.    *)
(***************************************************************************)
EXTENDS Handler, FiniteSetTheorems, TLAPS

-----------------------------------------------------------------------------
(* Counting the requests whose control is in a set of places.              *)

At(f, Q) == {r \in Requests : f[r] \in Q}

\* A finite set of requests has a natural number of members.
LEMMA AtFinite ==
    ASSUME NEW f, NEW Q
    PROVE  IsFiniteSet(At(f, Q)) /\ Cardinality(At(f, Q)) \in Nat
<1>1. At(f, Q) \subseteq Requests  BY DEF At
<1>2. IsFiniteSet(At(f, Q))  BY <1>1, FS_Subset, HandlerAssumption
<1> QED  BY <1>2, FS_CardinalityType

\* A step of one request within Q or outside of Q leaves the set alone.
LEMMA StaysPut ==
    ASSUME NEW f, NEW Q, NEW r \in Requests, NEW to,
           DOMAIN f = Requests,
           (f[r] \in Q) <=> (to \in Q)
    PROVE  At([f EXCEPT ![r] = to], Q) = At(f, Q)
BY DEF At

\* A step of one request into Q adds one to the count.
LEMMA MovesIn ==
    ASSUME NEW f \in [Requests -> PC], NEW Q, NEW r \in Requests, NEW to,
           f[r] \notin Q, to \in Q
    PROVE  Cardinality(At([f EXCEPT ![r] = to], Q)) = Cardinality(At(f, Q)) + 1
<1>1. At([f EXCEPT ![r] = to], Q) = At(f, Q) \union {r}  BY DEF At
<1>2. r \notin At(f, Q)  BY DEF At
<1> QED  BY <1>1, <1>2, AtFinite, FS_AddElement

\* A step of one request out of Q takes one from the count.
LEMMA MovesOut ==
    ASSUME NEW f \in [Requests -> PC], NEW Q, NEW r \in Requests, NEW to,
           f[r] \in Q, to \notin Q
    PROVE  Cardinality(At([f EXCEPT ![r] = to], Q)) = Cardinality(At(f, Q)) - 1
<1>1. At([f EXCEPT ![r] = to], Q) = At(f, Q) \ {r}  BY DEF At
<1>2. r \in At(f, Q)  BY DEF At
<1> QED  BY <1>1, <1>2, AtFinite, FS_RemoveElement

-----------------------------------------------------------------------------
(* The inductive invariant.                                                *)

InsidePCs == PC \ {"outside", "check", "closeIdle", "gone"}
Early == {"outside", "checks", "lookup", "select", "acquire", "proxy"}
Chosen == {"acquire", "proxy", "trip", "failed", "evidence", "aborted", "body", "close"}
After == {"free", "leave", "check", "closeIdle", "gone"}

\* The types, with counters that are only known to be integers.
Typed ==
    /\ pc \in [Requests -> PC]
    /\ backend \in [Requests -> Backends \union {None}]
    /\ trips \in [Requests -> 0..MaxAttempts]
    /\ held \subseteq Requests
    /\ selfAnswered \subseteq Requests
    /\ health \in [Backends -> Health]
    /\ active \in [Backends -> Int]
    /\ slots \in Int
    /\ inFlight \in Int
    /\ retired \in BOOLEAN
    /\ retire \in {"live", "stored", "close", "done"}
    /\ idle \in BOOLEAN
    /\ up \in [Requests -> SUBSET Backends]
    /\ down \in [Requests -> SUBSET Backends]

\* A request that may still start a round trip has not used up its attempts.
TripsPlaced ==
    \A r \in Requests :
        /\ trips[r] <= Attempts(r)
        /\ pc[r] \in Early => trips[r] < Attempts(r)

\* Where a request that holds an assignment can be, and whom it holds: it works
\* for the backend, or the reverse proxy answered it and nobody will release.
HoldPlaced ==
    /\ \A r \in Requests : pc[r] \in Chosen => backend[r] \in Backends
    /\ \A r \in Requests : pc[r] \in Working => r \in held
    /\ \A r \in held : backend[r] \in Backends
    /\ \A r \in held : pc[r] \in Working \/ r \in selfAnswered
    /\ \A r \in selfAnswered : r \in held /\ pc[r] \in After

SlotsCounted == slots = Cardinality(At(pc, WithSlot)) /\ slots <= MaxConcurrentRequests
InFlightCounted == inFlight = Cardinality(At(pc, InsidePCs))
ActiveCounted == \A b \in Backends : active[b] = Cardinality(Holders(b))

\* Somebody who will look at retired, or has, is left for the idle connections.
IdleWatched ==
    /\ retired <=> retire # "live"
    /\ retire = "done" /\ idle
         => \E r \in Requests : pc[r] \in InsidePCs \union {"check", "closeIdle"}

IInv ==
    /\ Typed
    /\ TripsPlaced
    /\ HoldPlaced
    /\ SlotsCounted
    /\ InFlightCounted
    /\ ActiveCounted
    /\ IdleWatched

-----------------------------------------------------------------------------
(* The operations on a health record keep its type.                        *)

\* Passive evidence and SetAlive return a health record.
LEMMA HealthType ==
    ASSUME NEW h \in Health
    PROVE  /\ RecordPassiveFailure(h) \in Health
           /\ RecordPassiveSuccess(h) \in Health
           /\ SetAlive(TRUE) \in Health
           /\ [h EXCEPT !.alive = FALSE] \in Health
<1>1. RecordPassiveFailure(h) \in Health
  <2> DEFINE fails == Bump(h.passiveFails)
  <2>1. fails \in Nat
    BY MaxCountAssumption, ThresholdAssumption DEF Health, Bump
  <2>2. CASE ~h.alive
    BY <2>2 DEF RecordPassiveFailure
  <2>3. CASE h.alive /\ fails < UnhealthyThreshold
    <3>1. RecordPassiveFailure(h) = [h EXCEPT !.passiveFails = fails]
      BY <2>3 DEF RecordPassiveFailure
    <3>2. fails \in 0..UnhealthyThreshold - 1
      BY <2>1, <2>3, ThresholdAssumption
    <3> HIDE DEF fails
    <3> QED  BY <3>1, <3>2 DEF Health
  <2>4. CASE h.alive /\ ~(fails < UnhealthyThreshold)
    <3>1. RecordPassiveFailure(h) = [h EXCEPT !.passiveFails = 0, !.alive = FALSE]
      BY <2>4 DEF RecordPassiveFailure
    <3>2. 0 \in 0..UnhealthyThreshold - 1
      BY ThresholdAssumption
    <3> HIDE DEF fails
    <3> QED  BY <3>1, <3>2 DEF Health
  <2> QED  BY <2>2, <2>3, <2>4 DEF Health
<1>2. RecordPassiveSuccess(h) \in Health
  BY ThresholdAssumption DEF RecordPassiveSuccess, Health, Count
<1>3. SetAlive(TRUE) \in Health
  BY ThresholdAssumption, MaxCountAssumption DEF SetAlive, Health, Count
<1>4. [h EXCEPT !.alive = FALSE] \in Health
  BY DEF Health
<1> QED  BY <1>1, <1>2, <1>3, <1>4

\* Initially nobody is inside and nothing is held.
LEMMA InitIInv == Init => IInv
<1> SUFFICES ASSUME Init PROVE IInv  OBVIOUS
<1>1. Typed
  <2>1. SetAlive(TRUE) \in Health /\ SetAlive(FALSE) \in Health
    BY ThresholdAssumption, MaxCountAssumption DEF SetAlive, Health, Count
  <2>2. health \in [Backends -> Health]
    BY <2>1 DEF Init
  <2>3. trips \in [Requests -> 0..MaxAttempts]
    BY HandlerAssumption DEF Init
  <2>4. pc \in [Requests -> PC] /\ backend \in [Requests -> Backends \union {None}]
    BY DEF Init, PC
  <2>5. active \in [Backends -> Int] /\ slots \in Int /\ inFlight \in Int
    BY DEF Init
  <2>6. up \in [Requests -> SUBSET Backends] /\ down \in [Requests -> SUBSET Backends]
    BY DEF Init
  <2>7. /\ held \subseteq Requests /\ selfAnswered \subseteq Requests
        /\ retired \in BOOLEAN /\ idle \in BOOLEAN
        /\ retire \in {"live", "stored", "close", "done"}
    BY DEF Init
  <2> QED  BY <2>2, <2>3, <2>4, <2>5, <2>6, <2>7 DEF Typed
<1>2. TripsPlaced  BY HandlerAssumption DEF Init, TripsPlaced, Attempts
<1>3. HoldPlaced  BY DEF Init, HoldPlaced, Chosen, Working
<1>4. At(pc, WithSlot) = {} /\ At(pc, InsidePCs) = {}
  BY DEF Init, At, WithSlot, InsidePCs
<1>5. SlotsCounted /\ InFlightCounted
  BY <1>4, FS_EmptySet, HandlerAssumption DEF Init, SlotsCounted, InFlightCounted
<1>6. ActiveCounted
  <2>1. \A b \in Backends : Holders(b) = {}  BY DEF Init, Holders
  <2> QED  BY <2>1, FS_EmptySet DEF Init, ActiveCounted
<1>7. IdleWatched  BY DEF Init, IdleWatched
<1> QED  BY <1>1, <1>2, <1>3, <1>5, <1>6, <1>7 DEF IInv

\* The history variables keep their type whatever the step.
LEMMA WatchType ==
    ASSUME Typed, Watch
    PROVE  /\ up' \in [Requests -> SUBSET Backends]
           /\ down' \in [Requests -> SUBSET Backends]
BY DEF Typed, Watch, Watched, AliveSet

-----------------------------------------------------------------------------
(* Types.                                                                  *)

\* Every step of a request moves its control and nobody else's.
LEMMA OneMoves ==
    ASSUME NEW r \in Requests, Enter(r) \/ Serve(r)
    PROVE  \E to \in PC : pc' = [pc EXCEPT ![r] = to]
<1>1. CASE Enter(r) \/ Reject(r) \/ TakeSlot(r) \/ Overload(r) \/ CacheHit(r)
           \/ CacheMiss(r) \/ NoBackend(r) \/ (\E b \in Backends : Choose(r, b))
           \/ Acquire(r) \/ StartTrip(r) \/ Refuse(r) \/ RewindFails(r)
  BY <1>1 DEF Enter, Reject, TakeSlot, Overload, CacheHit, CacheMiss, NoBackend,
              Choose, Acquire, StartTrip, Refuse, RewindFails, Goto, PC,
              AfterOverload, AfterNoBackend
<1>2. CASE TripSucceeds(r) \/ SwitchesProtocols(r) \/ TripFails(r) \/ TripAborted(r)
           \/ ReleaseAborted(r) \/ ReleaseFailed(r) \/ RecordFailure(r)
  BY <1>2 DEF TripSucceeds, SwitchesProtocols, TripFails, TripAborted,
              ReleaseAborted, ReleaseFailed, RecordFailure, Goto, PC
<1>3. CASE BodyEnds(r) \/ BodyBreaks(r) \/ CloseBody(r) \/ FreeSlot(r)
           \/ Leave(r) \/ CheckRetired(r) \/ CloseIdle(r)
  BY <1>3 DEF BodyEnds, BodyBreaks, CloseBody, FreeSlot, Leave, CheckRetired,
              CloseIdle, Goto, PC, AfterLeave
<1> QED  BY <1>1, <1>2, <1>3 DEF Serve

\* Every step keeps the types.
LEMMA TypedStep == IInv /\ Next => Typed'
<1> SUFFICES ASSUME IInv, Next PROVE Typed'  OBVIOUS
<1> USE DEF Typed
<1>0. Typed /\ TripsPlaced /\ HoldPlaced  BY DEF IInv
<1>1. ASSUME NEW r \in Requests, Enter(r) \/ Serve(r) PROVE Typed'
  <2>1. pc' \in [Requests -> PC]
    <3>1. PICK to \in PC : pc' = [pc EXCEPT ![r] = to]  BY <1>1, OneMoves
    <3> QED  BY <1>0, <3>1
  <2>2. CASE Enter(r) \/ Reject(r) \/ TakeSlot(r) \/ Overload(r) \/ CacheHit(r)
             \/ CacheMiss(r) \/ NoBackend(r) \/ Refuse(r) \/ TripFails(r)
             \/ TripAborted(r)
    <3>1. Watch
      BY <2>2 DEF Enter, Reject, TakeSlot, Overload, CacheHit, CacheMiss,
                  NoBackend, Refuse, TripFails, TripAborted
    <3>2. /\ UNCHANGED <<backend, trips, held, health, active, retired, retire, idle>>
          /\ slots' \in Int /\ inFlight' \in Int /\ selfAnswered' \subseteq Requests
      BY <1>0, <2>2 DEF Enter, Reject, TakeSlot, Overload, CacheHit, CacheMiss,
                  NoBackend, Refuse, TripFails, TripAborted
    <3> QED  BY <1>0, <2>1, <3>1, <3>2, WatchType
  <2>3. CASE BodyEnds(r) \/ BodyBreaks(r) \/ FreeSlot(r) \/ Leave(r)
             \/ CheckRetired(r) \/ CloseIdle(r)
    <3>1. Watch
      BY <2>3 DEF BodyEnds, BodyBreaks, FreeSlot, Leave, CheckRetired, CloseIdle
    <3>2. /\ UNCHANGED <<backend, trips, held, selfAnswered, health, active, retired,
                         retire>>
          /\ slots' \in Int /\ inFlight' \in Int
      BY <1>0, <2>3 DEF BodyEnds, BodyBreaks, FreeSlot, Leave, CheckRetired, CloseIdle
    <3>3. idle' = TRUE \/ idle' = FALSE \/ idle' = idle
      BY <2>3 DEF BodyEnds, BodyBreaks, FreeSlot, Leave, CheckRetired, CloseIdle
    <3>4. idle' \in BOOLEAN  BY <1>0, <3>3
    <3> QED  BY <1>0, <2>1, <3>1, <3>2, <3>4, WatchType
  <2>4. ASSUME NEW b \in Backends, Choose(r, b) PROVE Typed'
    <3>1. Watch  BY <2>4 DEF Choose
    <3>2. /\ UNCHANGED <<trips, held, selfAnswered, health, active, slots, inFlight, retired,
                         retire, idle>>
          /\ backend' = [backend EXCEPT ![r] = b]
      BY <2>4 DEF Choose
    <3> QED  BY <1>0, <2>1, <3>1, <3>2, WatchType
  <2>5. CASE Acquire(r)
    <3>1. Watch  BY <2>5 DEF Acquire
    <3>2. /\ UNCHANGED <<backend, trips, selfAnswered, health, slots, inFlight, retired,
                         retire, idle>>
          /\ active' = Acquired(r) /\ held' = held \union {r}
      BY <2>5 DEF Acquire
    <3>3. backend[r] \in Backends
      BY <1>0, <2>5 DEF Acquire, Goto, HoldPlaced, Chosen
    <3>4. active[backend[r]] + 1 \in Int  BY <1>0, <3>3
    <3>5. active' \in [Backends -> Int]  BY <1>0, <3>2, <3>4 DEF Acquired
    <3> QED  BY <1>0, <2>1, <3>1, <3>2, <3>5, WatchType
  <2>6. CASE StartTrip(r)
    <3>1. Watch  BY <2>6 DEF StartTrip
    <3>2. /\ UNCHANGED <<backend, held, selfAnswered, health, active, slots, inFlight, retired,
                         retire, idle>>
          /\ trips' = [trips EXCEPT ![r] = @ + 1]
      BY <2>6 DEF StartTrip
    <3>3. trips[r] < Attempts(r)
      BY <1>0, <2>6 DEF StartTrip, Goto, TripsPlaced, Early
    <3>4. trips[r] + 1 \in 0..MaxAttempts
      BY <1>0, <3>3, HandlerAssumption DEF Attempts
    <3> QED  BY <1>0, <2>1, <3>1, <3>2, <3>4, WatchType
  <2>7. CASE RewindFails(r) \/ ReleaseAborted(r) \/ ReleaseFailed(r) \/ CloseBody(r)
    <3>1. Watch
      BY <2>7 DEF RewindFails, ReleaseAborted, ReleaseFailed, CloseBody
    <3>2. /\ UNCHANGED <<backend, trips, selfAnswered, health, slots, inFlight, retired,
                         retire, idle>>
          /\ Release(r)
      BY <2>7 DEF RewindFails, ReleaseAborted, ReleaseFailed, CloseBody
    <3>3. active' \in [Backends -> Int] /\ held' \subseteq Requests
      <4>1. CASE r \in held
        <5>1. backend[r] \in Backends  BY <1>0, <4>1 DEF HoldPlaced
        <5>2. active[backend[r]] - 1 \in Int  BY <1>0, <5>1
        <5> QED  BY <1>0, <3>2, <4>1, <5>2 DEF Release, Released
      <4>2. CASE r \notin held
        BY <1>0, <3>2, <4>2 DEF Release, Released
      <4> QED  BY <4>1, <4>2
    <3> QED  BY <1>0, <2>1, <3>1, <3>2, <3>3, WatchType
  <2>8. CASE TripSucceeds(r) \/ SwitchesProtocols(r) \/ RecordFailure(r)
    <3>1. Watch
      BY <2>8 DEF TripSucceeds, SwitchesProtocols, RecordFailure
    <3>2. /\ UNCHANGED <<backend, trips, held, active, slots, inFlight, retired, retire,
                         idle>>
          /\ selfAnswered' \subseteq Requests
      BY <1>0, <2>8 DEF TripSucceeds, SwitchesProtocols, RecordFailure
    <3>3. backend[r] \in Backends
      BY <1>0, <2>8 DEF TripSucceeds, SwitchesProtocols, RecordFailure, Goto,
                        HoldPlaced, Chosen
    <3>4. \/ health' = [health EXCEPT ![backend[r]] = RecordPassiveSuccess(@)]
          \/ health' = [health EXCEPT ![backend[r]] = RecordPassiveFailure(@)]
      BY <2>8 DEF TripSucceeds, SwitchesProtocols, RecordFailure
    <3>5. health' \in [Backends -> Health]
      <4>1. health[backend[r]] \in Health  BY <1>0, <3>3
      <4>2. /\ RecordPassiveFailure(health[backend[r]]) \in Health
            /\ RecordPassiveSuccess(health[backend[r]]) \in Health
        BY <4>1, HealthType
      <4> QED  BY <1>0, <3>3, <3>4, <4>2
    <3> QED  BY <1>0, <2>1, <3>1, <3>2, <3>5, WatchType
  <2> QED  BY <1>1, <2>2, <2>3, <2>4, <2>5, <2>6, <2>7, <2>8 DEF Serve
<1>2. CASE Retire
  <2>1. Watch  BY <1>2 DEF Retire, RetireStore, RetireLoad, RetireClose
  <2>2. /\ UNCHANGED <<pc, backend, trips, held, selfAnswered, health, active, slots,
                       inFlight>>
        /\ retired' \in BOOLEAN /\ idle' \in BOOLEAN
        /\ retire' \in {"live", "stored", "close", "done"}
    BY <1>0, <1>2 DEF Retire, RetireStore, RetireLoad, RetireClose
  <2> QED  BY <1>0, <2>1, <2>2, WatchType
<1>3. ASSUME NEW b \in Backends, ProbeChange(b) PROVE Typed'
  <2>1. Watch  BY <1>3 DEF ProbeChange
  <2>2. /\ UNCHANGED <<pc, backend, trips, held, selfAnswered, active, slots, inFlight, retired,
                       retire, idle>>
        /\ health' = [health EXCEPT ![b] =
                        IF @.alive THEN [@ EXCEPT !.alive = FALSE] ELSE SetAlive(TRUE)]
    BY <1>3 DEF ProbeChange
  <2>3. health[b] \in Health  BY <1>0
  <2>4. [health[b] EXCEPT !.alive = FALSE] \in Health /\ SetAlive(TRUE) \in Health
    BY <2>3, HealthType
  <2>5. health' \in [Backends -> Health]  BY <1>0, <2>2, <2>4
  <2> QED  BY <1>0, <2>1, <2>2, <2>5, WatchType
<1> QED  BY <1>1, <1>2, <1>3 DEF Next

-----------------------------------------------------------------------------
(* Round trips.                                                            *)

\* No step lets a request start more round trips than its attempts.
LEMMA TripsStep == IInv /\ Next => TripsPlaced'
<1> SUFFICES ASSUME IInv, Next PROVE TripsPlaced'  OBVIOUS
<1>0. Typed /\ TripsPlaced  BY DEF IInv
<1>a. \A x \in Requests : Attempts(x) \in 1..MaxAttempts /\ trips[x] \in Nat
  BY <1>0, HandlerAssumption DEF Attempts, Typed
<1>b. \A x \in Requests : Attempts(x)' = Attempts(x)  BY DEF Attempts
<1>1. ASSUME NEW r \in Requests, Enter(r) \/ Serve(r) PROVE TripsPlaced'
  <2>1. CASE StartTrip(r)
    <3>1. /\ pc[r] \in Early
          /\ pc' = [pc EXCEPT ![r] = "trip"]
          /\ trips' = [trips EXCEPT ![r] = @ + 1]
      BY <2>1 DEF StartTrip, Goto, Early
    <3>2. trips[r] + 1 <= Attempts(r)  BY <1>0, <1>a, <3>1 DEF TripsPlaced
    <3> QED  BY <1>0, <1>b, <3>1, <3>2 DEF Typed, TripsPlaced, Early
  <2>2. CASE RecordFailure(r)
    <3>1. /\ pc' = [pc EXCEPT ![r] = IF trips[r] = Attempts(r) THEN "free" ELSE "select"]
          /\ trips' = trips
      BY <2>2 DEF RecordFailure, Goto
    <3>2. trips[r] # Attempts(r) => trips[r] < Attempts(r)
      BY <1>0, <1>a DEF TripsPlaced
    <3> QED  BY <1>0, <1>b, <3>1, <3>2 DEF Typed, TripsPlaced, Early
  <2>3. ASSUME NEW b \in Backends, Choose(r, b) PROVE TripsPlaced'
    BY <1>0, <1>b, <2>3 DEF Choose, Goto, Typed, TripsPlaced, Early
  <2>4. CASE Enter(r) \/ Reject(r) \/ TakeSlot(r) \/ Overload(r) \/ CacheHit(r)
             \/ CacheMiss(r) \/ NoBackend(r) \/ Acquire(r) \/ Refuse(r)
             \/ RewindFails(r)
    <3>1. \E to \in PC : /\ pc' = [pc EXCEPT ![r] = to]
                         /\ to \in Early => pc[r] \in Early
      BY <2>4 DEF Enter, Reject, TakeSlot, Overload, CacheHit, CacheMiss,
                  NoBackend, Acquire, Refuse, RewindFails, Goto, PC, Early,
                  AfterOverload, AfterNoBackend
    <3>2. trips' = trips
      BY <2>4 DEF Enter, Reject, TakeSlot, Overload, CacheHit, CacheMiss,
                  NoBackend, Acquire, Refuse, RewindFails
    <3> QED  BY <1>0, <1>b, <3>1, <3>2 DEF Typed, TripsPlaced
  <2>5. CASE TripSucceeds(r) \/ SwitchesProtocols(r) \/ TripFails(r)
             \/ TripAborted(r) \/ ReleaseAborted(r) \/ ReleaseFailed(r)
             \/ BodyEnds(r) \/ BodyBreaks(r) \/ CloseBody(r) \/ FreeSlot(r)
             \/ Leave(r) \/ CheckRetired(r) \/ CloseIdle(r)
    <3>1. \E to \in PC \ Early : pc' = [pc EXCEPT ![r] = to]
      BY <2>5 DEF TripSucceeds, SwitchesProtocols, TripFails, TripAborted,
                  ReleaseAborted, ReleaseFailed, BodyEnds, BodyBreaks, CloseBody,
                  FreeSlot, Leave, CheckRetired, CloseIdle, Goto, PC, Early,
                  AfterLeave
    <3>2. trips' = trips
      BY <2>5 DEF TripSucceeds, SwitchesProtocols, TripFails, TripAborted,
                  ReleaseAborted, ReleaseFailed, BodyEnds, BodyBreaks, CloseBody,
                  FreeSlot, Leave, CheckRetired, CloseIdle
    <3> QED  BY <1>0, <1>b, <3>1, <3>2 DEF Typed, TripsPlaced
  <2> QED  BY <1>1, <2>1, <2>2, <2>3, <2>4, <2>5 DEF Serve
<1>2. ASSUME Retire \/ \E b \in Backends : ProbeChange(b) PROVE TripsPlaced'
  <2>1. UNCHANGED <<pc, trips>>
    BY <1>2 DEF Retire, RetireStore, RetireLoad, RetireClose, ProbeChange
  <2> QED  BY <1>0, <1>b, <2>1 DEF TripsPlaced
<1> QED  BY <1>1, <1>2 DEF Next

-----------------------------------------------------------------------------
(* Assignments.                                                            *)

\* The steps that neither assign nor release keep a request in its class: it
\* works with its assignment, or it does not, or it was answered for.
LEMMA HoldKept ==
    ASSUME Typed, HoldPlaced, NEW r \in Requests, NEW to \in PC,
           pc' = [pc EXCEPT ![r] = to], held' = held,
           selfAnswered \subseteq selfAnswered',
           selfAnswered' \subseteq selfAnswered \union {r},
           \A x \in Requests : x # r => backend'[x] = backend[x],
           backend'[r] \in Backends \/ to \notin Chosen,
           r \in held => backend'[r] = backend[r],
           to \in Working => r \in held,
           r \in held => to \in Working \/ r \in selfAnswered',
           r \in selfAnswered' => r \in held /\ to \in After
    PROVE  HoldPlaced'
<1>1. /\ \A x \in Requests : x # r => pc'[x] = pc[x]
      /\ pc'[r] = to
  BY DEF Typed
<1>2. \A x : x # r => (x \in selfAnswered' <=> x \in selfAnswered)  OBVIOUS
<1>3. selfAnswered' \subseteq Requests /\ held \subseteq Requests  BY DEF Typed
<1> QED  BY <1>1, <1>2, <1>3 DEF HoldPlaced

\* Every step keeps the assignments where they belong.
LEMMA HoldStep == IInv /\ Next => HoldPlaced'
<1> SUFFICES ASSUME IInv, Next PROVE HoldPlaced'  OBVIOUS
<1>0. Typed /\ HoldPlaced  BY DEF IInv
<1>1. ASSUME NEW r \in Requests, Enter(r) \/ Serve(r) PROVE HoldPlaced'
  <2>a. /\ r \in held => pc[r] \in Working \/ r \in selfAnswered
        /\ r \in selfAnswered => r \in held /\ pc[r] \in After
        /\ pc[r] \in Working => r \in held
        /\ pc[r] \in Chosen => backend[r] \in Backends
    BY <1>0 DEF HoldPlaced
  <2>b. /\ After \intersect (Working \union Chosen) = {} /\ After \subseteq PC
        /\ Working \subseteq Chosen
    BY DEF After, Working, Chosen, PC
  <2>c. ASSUME UNCHANGED <<held, backend, selfAnswered>>,
               \E to \in PC :
                  /\ pc' = [pc EXCEPT ![r] = to]
                  /\ to \in Chosen => pc[r] \in Chosen
                  /\ to \in Working <=> pc[r] \in Working,
               pc[r] \notin After
        PROVE  HoldPlaced'
    <3>1. PICK to \in PC :
                  /\ pc' = [pc EXCEPT ![r] = to]
                  /\ to \in Chosen => pc[r] \in Chosen
                  /\ to \in Working <=> pc[r] \in Working
      BY <2>c
    <3>2. r \notin selfAnswered' /\ (r \in held <=> to \in Working)
      BY <2>a, <2>c, <3>1
    <3> QED  BY <1>0, <2>a, <2>c, <3>1, <3>2, HoldKept
  <2>1. CASE Enter(r) \/ Reject(r) \/ TakeSlot(r) \/ Overload(r) \/ CacheHit(r)
             \/ CacheMiss(r) \/ NoBackend(r) \/ StartTrip(r)
    <3>1. UNCHANGED <<held, backend, selfAnswered>>
      BY <2>1 DEF Enter, Reject, TakeSlot, Overload, CacheHit, CacheMiss,
                  NoBackend, StartTrip
    <3>2. /\ pc[r] \notin After
          /\ \E to \in PC :
                /\ pc' = [pc EXCEPT ![r] = to]
                /\ to \in Chosen => pc[r] \in Chosen
                /\ to \in Working <=> pc[r] \in Working
      BY <2>1 DEF Enter, Reject, TakeSlot, Overload, CacheHit, CacheMiss,
                  NoBackend, StartTrip, Goto, PC, Chosen, Working, After,
                  AfterOverload, AfterNoBackend
    <3> QED  BY <2>c, <3>1, <3>2
  <2>2. CASE TripSucceeds(r) \/ TripFails(r) \/ TripAborted(r) \/ RecordFailure(r)
             \/ BodyEnds(r) \/ BodyBreaks(r)
    <3>1. UNCHANGED <<held, backend, selfAnswered>>
      BY <2>2 DEF TripSucceeds, TripFails, TripAborted, RecordFailure, BodyEnds,
                  BodyBreaks
    <3>2. /\ pc[r] \notin After
          /\ \E to \in PC :
                /\ pc' = [pc EXCEPT ![r] = to]
                /\ to \in Chosen => pc[r] \in Chosen
                /\ to \in Working <=> pc[r] \in Working
      BY <2>2 DEF TripSucceeds, TripFails, TripAborted, RecordFailure, BodyEnds,
                  BodyBreaks, Goto, PC, Chosen, Working, After
    <3> QED  BY <2>c, <3>1, <3>2
  <2>7. CASE Refuse(r) \/ SwitchesProtocols(r)
    <3>1. /\ UNCHANGED <<held, backend>>
          /\ selfAnswered' = selfAnswered \union {r}
          /\ pc[r] \in Working
          /\ pc' = [pc EXCEPT ![r] = "free"]
      BY <2>7 DEF Refuse, SwitchesProtocols, Goto, Working
    <3>2. "free" \in After  BY DEF After
    <3> QED  BY <1>0, <2>a, <2>b, <3>1, <3>2, HoldKept
  <2>3. CASE FreeSlot(r) \/ Leave(r) \/ CheckRetired(r) \/ CloseIdle(r)
    <3>1. /\ UNCHANGED <<held, backend, selfAnswered>>
          /\ pc[r] \in After
          /\ \E to \in After : pc' = [pc EXCEPT ![r] = to]
      BY <2>3 DEF FreeSlot, Leave, CheckRetired, CloseIdle, Goto, After, AfterLeave
    <3>2. PICK to \in After : pc' = [pc EXCEPT ![r] = to]  BY <3>1
    <3> QED  BY <1>0, <2>a, <2>b, <3>1, <3>2, HoldKept
  <2>4. ASSUME NEW b \in Backends, Choose(r, b) PROVE HoldPlaced'
    <3>1. /\ UNCHANGED <<held, selfAnswered>> /\ backend' = [backend EXCEPT ![r] = b]
          /\ pc[r] = "select" /\ pc' = [pc EXCEPT ![r] = "acquire"]
      BY <2>4 DEF Choose, Goto
    <3>2. r \notin held /\ r \notin selfAnswered  BY <2>a, <3>1 DEF Working, After
    <3>3. "acquire" \in PC /\ "acquire" \notin Working  BY DEF PC, Working
    <3>4. backend'[r] = b /\ \A x \in Requests : x # r => backend'[x] = backend[x]
      BY <1>0, <3>1 DEF Typed
    <3> QED  BY <1>0, <3>1, <3>2, <3>3, <3>4, HoldKept
  <2>5. CASE Acquire(r)
    <3>1. /\ held' = held \union {r} /\ UNCHANGED <<backend, selfAnswered>>
          /\ pc[r] = "acquire" /\ pc' = [pc EXCEPT ![r] = "proxy"]
      BY <2>5 DEF Acquire, Goto
    <3>a. r \notin selfAnswered  BY <2>a, <3>1 DEF After
    <3>2. backend[r] \in Backends  BY <2>a, <3>1 DEF Chosen
    <3>3. "proxy" \in Working  BY DEF Working
    <3> QED  BY <1>0, <3>1, <3>2, <3>3, <3>a DEF Typed, HoldPlaced
  <2>6. CASE RewindFails(r) \/ ReleaseAborted(r) \/ ReleaseFailed(r) \/ CloseBody(r)
    <3>1. /\ held' = held \ {r} /\ UNCHANGED <<backend, selfAnswered>>
          /\ pc[r] \notin After
          /\ \E to \in PC \ Working :
                /\ pc' = [pc EXCEPT ![r] = to]
                /\ to \in Chosen => pc[r] \in Chosen
      BY <2>6 DEF RewindFails, ReleaseAborted, ReleaseFailed, CloseBody, Release,
                  Goto, PC, Working, Chosen, After
    <3>2. PICK to \in PC \ Working :
                /\ pc' = [pc EXCEPT ![r] = to]
                /\ to \in Chosen => pc[r] \in Chosen
      BY <3>1
    <3>3. /\ \A x \in Requests : x # r => pc'[x] = pc[x]
          /\ pc'[r] = to
      BY <1>0, <3>2 DEF Typed
    <3> QED  BY <1>0, <2>a, <3>1, <3>2, <3>3 DEF Typed, HoldPlaced
  <2> QED  BY <1>1, <2>1, <2>2, <2>3, <2>4, <2>5, <2>6, <2>7 DEF Serve
<1>2. ASSUME Retire \/ \E b \in Backends : ProbeChange(b) PROVE HoldPlaced'
  <2>1. UNCHANGED <<pc, backend, held, selfAnswered>>
    BY <1>2 DEF Retire, RetireStore, RetireLoad, RetireClose, ProbeChange
  <2> QED  BY <1>0, <2>1 DEF HoldPlaced
<1> QED  BY <1>1, <1>2 DEF Next

-----------------------------------------------------------------------------
(* Slots and the requests inside.                                          *)

\* Nothing that happens besides the steps of requests moves one of them.
LEMMA OthersMoveNone ==
    ASSUME Retire \/ \E b \in Backends : ProbeChange(b)
    PROVE  UNCHANGED <<pc, backend, trips, held, active, slots, inFlight>>
BY DEF Retire, RetireStore, RetireLoad, RetireClose, ProbeChange

\* The slots taken stay the requests between the send and the receive.
LEMMA SlotStep == IInv /\ Next => SlotsCounted'
<1> SUFFICES ASSUME IInv, Next PROVE SlotsCounted'  OBVIOUS
<1>0. Typed /\ SlotsCounted  BY DEF IInv
<1>a. pc \in [Requests -> PC] /\ slots \in Int  BY <1>0 DEF Typed
<1>1. ASSUME NEW r \in Requests, Enter(r) \/ Serve(r) PROVE SlotsCounted'
  <2>1. CASE TakeSlot(r)
    <3>1. /\ pc[r] \notin WithSlot
          /\ pc' = [pc EXCEPT ![r] = "lookup"]
          /\ slots' = slots + 1 /\ slots < MaxConcurrentRequests
      BY <2>1 DEF TakeSlot, Goto, WithSlot
    <3>2. "lookup" \in WithSlot  BY DEF WithSlot
    <3>3. Cardinality(At(pc', WithSlot)) = Cardinality(At(pc, WithSlot)) + 1
      BY <1>a, <3>1, <3>2, MovesIn
    <3> QED  BY <1>0, <1>a, <3>1, <3>3, HandlerAssumption DEF SlotsCounted
  <2>2. CASE FreeSlot(r)
    <3>1. /\ pc[r] \in WithSlot
          /\ pc' = [pc EXCEPT ![r] = "leave"]
          /\ slots' = slots - 1
      BY <2>2 DEF FreeSlot, Goto, WithSlot
    <3>2. "leave" \notin WithSlot  BY DEF WithSlot
    <3>3. Cardinality(At(pc', WithSlot)) = Cardinality(At(pc, WithSlot)) - 1
      BY <1>a, <3>1, <3>2, MovesOut
    <3> QED  BY <1>0, <1>a, <3>1, <3>3, HandlerAssumption DEF SlotsCounted
  <2>3. ASSUME slots' = slots,
               \E to \in PC : /\ pc' = [pc EXCEPT ![r] = to]
                              /\ (pc[r] \in WithSlot) <=> (to \in WithSlot)
        PROVE  SlotsCounted'
    <3>1. At(pc', WithSlot) = At(pc, WithSlot)
      <4>1. PICK to \in PC : /\ pc' = [pc EXCEPT ![r] = to]
                             /\ (pc[r] \in WithSlot) <=> (to \in WithSlot)
        BY <2>3
      <4>2. DOMAIN pc = Requests  BY <1>a
      <4>3. At([pc EXCEPT ![r] = to], WithSlot) = At(pc, WithSlot)
        BY <4>1, <4>2, StaysPut
      <4> QED  BY <4>1, <4>3
    <3> QED  BY <1>0, <2>3, <3>1 DEF SlotsCounted
  <2>4. CASE Enter(r) \/ Reject(r) \/ Overload(r) \/ Leave(r) \/ CheckRetired(r)
             \/ CloseIdle(r)
    <3>1. slots' = slots
      BY <2>4 DEF Enter, Reject, Overload, Leave, CheckRetired, CloseIdle
    <3>2. \E to \in PC : /\ pc' = [pc EXCEPT ![r] = to]
                         /\ (pc[r] \in WithSlot) <=> (to \in WithSlot)
      BY <2>4 DEF Enter, Reject, Overload, Leave, CheckRetired, CloseIdle, Goto,
                  PC, WithSlot, AfterOverload, AfterLeave
    <3> QED  BY <2>3, <3>1, <3>2
  <2>5. CASE CacheHit(r) \/ CacheMiss(r) \/ NoBackend(r)
             \/ (\E b \in Backends : Choose(r, b))
             \/ Acquire(r) \/ StartTrip(r) \/ Refuse(r) \/ RewindFails(r)
    <3>1. slots' = slots
      BY <2>5 DEF CacheHit, CacheMiss, NoBackend, Choose, Acquire, StartTrip,
                  Refuse, RewindFails
    <3>2. \E to \in PC : /\ pc' = [pc EXCEPT ![r] = to]
                         /\ (pc[r] \in WithSlot) <=> (to \in WithSlot)
      BY <2>5 DEF CacheHit, CacheMiss, NoBackend, Choose, Acquire, StartTrip,
                  Refuse, RewindFails, Goto, PC, WithSlot, AfterNoBackend
    <3> QED  BY <2>3, <3>1, <3>2
  <2>6. CASE TripSucceeds(r) \/ SwitchesProtocols(r) \/ TripFails(r)
             \/ TripAborted(r) \/ ReleaseAborted(r) \/ ReleaseFailed(r)
             \/ RecordFailure(r) \/ BodyEnds(r) \/ BodyBreaks(r) \/ CloseBody(r)
    <3>1. slots' = slots
      BY <2>6 DEF TripSucceeds, SwitchesProtocols, TripFails, TripAborted,
                  ReleaseAborted, ReleaseFailed, RecordFailure, BodyEnds,
                  BodyBreaks, CloseBody
    <3>2. \E to \in PC : /\ pc' = [pc EXCEPT ![r] = to]
                         /\ (pc[r] \in WithSlot) <=> (to \in WithSlot)
      BY <2>6 DEF TripSucceeds, SwitchesProtocols, TripFails, TripAborted,
                  ReleaseAborted, ReleaseFailed, RecordFailure, BodyEnds,
                  BodyBreaks, CloseBody, Goto, PC, WithSlot
    <3> QED  BY <2>3, <3>1, <3>2
  <2> QED  BY <1>1, <2>1, <2>2, <2>4, <2>5, <2>6 DEF Serve
<1>2. ASSUME Retire \/ \E b \in Backends : ProbeChange(b) PROVE SlotsCounted'
  BY <1>0, <1>2, OthersMoveNone DEF SlotsCounted
<1> QED  BY <1>1, <1>2 DEF Next

\* inFlight stays the number of requests between Add(1) and Add(-1).
LEMMA InFlightStep == IInv /\ Next => InFlightCounted'
<1> SUFFICES ASSUME IInv, Next PROVE InFlightCounted'  OBVIOUS
<1>0. Typed /\ InFlightCounted  BY DEF IInv
<1>a. pc \in [Requests -> PC] /\ inFlight \in Int  BY <1>0 DEF Typed
<1>1. ASSUME NEW r \in Requests, Enter(r) \/ Serve(r) PROVE InFlightCounted'
  <2>1. CASE Enter(r)
    <3>1. /\ pc[r] \notin InsidePCs
          /\ pc' = [pc EXCEPT ![r] = "checks"]
          /\ inFlight' = inFlight + 1
      BY <2>1 DEF Enter, Goto, InsidePCs
    <3>2. "checks" \in InsidePCs  BY DEF InsidePCs, PC
    <3>3. Cardinality(At(pc', InsidePCs)) = Cardinality(At(pc, InsidePCs)) + 1
      BY <1>a, <3>1, <3>2, MovesIn
    <3> QED  BY <1>0, <1>a, <3>1, <3>3 DEF InFlightCounted
  <2>2. CASE Leave(r)
    <3>1. /\ pc[r] \in InsidePCs
          /\ pc' = [pc EXCEPT ![r] = AfterLeave]
          /\ inFlight' = inFlight - 1
      BY <2>2 DEF Leave, Goto, InsidePCs, PC
    <3>2. AfterLeave \notin InsidePCs  BY DEF AfterLeave, InsidePCs
    <3>3. Cardinality(At(pc', InsidePCs)) = Cardinality(At(pc, InsidePCs)) - 1
      BY <1>a, <3>1, <3>2, MovesOut
    <3> QED  BY <1>0, <1>a, <3>1, <3>3 DEF InFlightCounted
  <2>3. ASSUME inFlight' = inFlight,
               \E to \in PC : /\ pc' = [pc EXCEPT ![r] = to]
                              /\ (pc[r] \in InsidePCs) <=> (to \in InsidePCs)
        PROVE  InFlightCounted'
    <3>1. At(pc', InsidePCs) = At(pc, InsidePCs)
      <4>1. PICK to \in PC : /\ pc' = [pc EXCEPT ![r] = to]
                             /\ (pc[r] \in InsidePCs) <=> (to \in InsidePCs)
        BY <2>3
      <4>2. DOMAIN pc = Requests  BY <1>a
      <4>3. At([pc EXCEPT ![r] = to], InsidePCs) = At(pc, InsidePCs)
        BY <4>1, <4>2, StaysPut
      <4> QED  BY <4>1, <4>3
    <3> QED  BY <1>0, <2>3, <3>1 DEF InFlightCounted
  <2>4. CASE Reject(r) \/ TakeSlot(r) \/ Overload(r) \/ CacheHit(r)
             \/ CacheMiss(r) \/ NoBackend(r)
             \/ (\E b \in Backends : Choose(r, b))
             \/ Acquire(r) \/ StartTrip(r) \/ Refuse(r) \/ RewindFails(r)
    <3>1. inFlight' = inFlight
      BY <2>4 DEF Reject, TakeSlot, Overload, CacheHit, CacheMiss, NoBackend,
                  Choose, Acquire, StartTrip, Refuse, RewindFails
    <3>2. \E to \in PC : /\ pc' = [pc EXCEPT ![r] = to]
                         /\ (pc[r] \in InsidePCs) <=> (to \in InsidePCs)
      BY <2>4 DEF Reject, TakeSlot, Overload, CacheHit, CacheMiss, NoBackend,
                  Choose, Acquire, StartTrip, Refuse, RewindFails, Goto, PC,
                  InsidePCs, AfterOverload, AfterNoBackend
    <3> QED  BY <2>3, <3>1, <3>2
  <2>5. CASE TripSucceeds(r) \/ SwitchesProtocols(r) \/ TripFails(r)
             \/ TripAborted(r) \/ ReleaseAborted(r) \/ ReleaseFailed(r)
             \/ RecordFailure(r) \/ BodyEnds(r) \/ BodyBreaks(r) \/ CloseBody(r)
    <3>1. inFlight' = inFlight
      BY <2>5 DEF TripSucceeds, SwitchesProtocols, TripFails, TripAborted,
                  ReleaseAborted, ReleaseFailed, RecordFailure, BodyEnds,
                  BodyBreaks, CloseBody
    <3>2. \E to \in PC : /\ pc' = [pc EXCEPT ![r] = to]
                         /\ (pc[r] \in InsidePCs) <=> (to \in InsidePCs)
      BY <2>5 DEF TripSucceeds, SwitchesProtocols, TripFails, TripAborted,
                  ReleaseAborted, ReleaseFailed, RecordFailure, BodyEnds,
                  BodyBreaks, CloseBody, Goto, PC, InsidePCs
    <3> QED  BY <2>3, <3>1, <3>2
  <2>6. CASE FreeSlot(r) \/ CheckRetired(r) \/ CloseIdle(r)
    <3>1. inFlight' = inFlight
      BY <2>6 DEF FreeSlot, CheckRetired, CloseIdle
    <3>2. \E to \in PC : /\ pc' = [pc EXCEPT ![r] = to]
                         /\ (pc[r] \in InsidePCs) <=> (to \in InsidePCs)
      BY <2>6 DEF FreeSlot, CheckRetired, CloseIdle, Goto, PC, InsidePCs
    <3> QED  BY <2>3, <3>1, <3>2
  <2> QED  BY <1>1, <2>1, <2>2, <2>4, <2>5, <2>6 DEF Serve
<1>2. ASSUME Retire \/ \E b \in Backends : ProbeChange(b) PROVE InFlightCounted'
  BY <1>0, <1>2, OthersMoveNone DEF InFlightCounted
<1> QED  BY <1>1, <1>2 DEF Next

-----------------------------------------------------------------------------
(* The active counters.                                                    *)

\* The holders of a backend are finitely many.
LEMMA HoldersFinite ==
    ASSUME Typed, NEW b \in Backends
    PROVE  IsFiniteSet(Holders(b)) /\ Cardinality(Holders(b)) \in Nat
<1>1. Holders(b) \subseteq Requests  BY DEF Typed, Holders
<1>2. IsFiniteSet(Holders(b))  BY <1>1, FS_Subset, HandlerAssumption
<1> QED  BY <1>2, FS_CardinalityType

\* Each active counter stays the number of assignments not yet released.
LEMMA ActiveStep == IInv /\ Next => ActiveCounted'
<1> SUFFICES ASSUME IInv, Next PROVE ActiveCounted'  OBVIOUS
<1>0. Typed /\ HoldPlaced /\ ActiveCounted  BY DEF IInv
<1>1. ASSUME NEW r \in Requests, Enter(r) \/ Serve(r) PROVE ActiveCounted'
  <2>1. CASE Acquire(r)
    <3>1. /\ backend' = backend /\ held' = held \union {r}
          /\ active' = [active EXCEPT ![backend[r]] = @ + 1]
          /\ pc[r] = "acquire"
      BY <2>1 DEF Acquire, Acquired, Goto
    <3>2. backend[r] \in Backends /\ r \notin held
      BY <1>0, <3>1 DEF HoldPlaced, Chosen, Working, After
    <3>3. ASSUME NEW b \in Backends PROVE active'[b] = Cardinality(Holders(b)')
      <4>1. CASE b = backend[r]
        <5>1. Holders(b)' = Holders(b) \union {r}
          BY <3>1, <4>1 DEF Holders
        <5>2. r \notin Holders(b)  BY <3>2 DEF Holders
        <5>3. active'[b] = active[b] + 1  BY <1>0, <3>1, <4>1 DEF Typed
        <5> QED  BY <1>0, <5>1, <5>2, <5>3, HoldersFinite, FS_AddElement
                 DEF ActiveCounted
      <4>2. CASE b # backend[r]
        <5>1. Holders(b)' = Holders(b)  BY <3>1, <4>2 DEF Holders
        <5>2. active'[b] = active[b]  BY <1>0, <3>1, <4>2 DEF Typed
        <5> QED  BY <1>0, <5>1, <5>2 DEF ActiveCounted
      <4> QED  BY <4>1, <4>2
    <3> QED  BY <3>3 DEF ActiveCounted
  <2>2. CASE RewindFails(r) \/ ReleaseAborted(r) \/ ReleaseFailed(r) \/ CloseBody(r)
    <3>1. backend' = backend /\ held' = held \ {r} /\ active' = Released(r)
      BY <2>2 DEF RewindFails, ReleaseAborted, ReleaseFailed, CloseBody, Release
    <3>2. CASE r \notin held
      <4>1. active' = active /\ held' = held  BY <3>1, <3>2 DEF Released
      <4> QED  BY <1>0, <3>1, <4>1 DEF ActiveCounted, Holders
    <3>3. CASE r \in held
      <4>1. active' = [active EXCEPT ![backend[r]] = @ - 1] /\ backend[r] \in Backends
        BY <1>0, <3>1, <3>3 DEF Released, HoldPlaced
      <4>2. ASSUME NEW b \in Backends PROVE active'[b] = Cardinality(Holders(b)')
        <5>1. CASE b = backend[r]
          <6>1. Holders(b)' = Holders(b) \ {r}
            BY <3>1 DEF Holders
          <6>2. r \in Holders(b)  BY <3>3, <5>1 DEF Holders
          <6>3. active'[b] = active[b] - 1  BY <1>0, <4>1, <5>1 DEF Typed
          <6> QED  BY <1>0, <6>1, <6>2, <6>3, HoldersFinite, FS_RemoveElement
                   DEF ActiveCounted
        <5>2. CASE b # backend[r]
          <6>1. Holders(b)' = Holders(b)  BY <3>1, <5>2 DEF Holders
          <6>2. active'[b] = active[b]  BY <1>0, <4>1, <5>2 DEF Typed
          <6> QED  BY <1>0, <6>1, <6>2 DEF ActiveCounted
        <5> QED  BY <5>1, <5>2
      <4> QED  BY <4>2 DEF ActiveCounted
    <3> QED  BY <3>2, <3>3
  <2>3. ASSUME NEW b \in Backends, Choose(r, b) PROVE ActiveCounted'
    <3>1. /\ held' = held /\ active' = active
          /\ backend' = [backend EXCEPT ![r] = b] /\ pc[r] = "select"
      BY <2>3 DEF Choose, Goto
    <3>2. r \notin held  BY <1>0, <3>1 DEF HoldPlaced, Working, After
    <3>3. \A x \in held : backend'[x] = backend[x]  BY <1>0, <3>1, <3>2 DEF Typed
    <3>4. \A c \in Backends : Holders(c)' = Holders(c)
      BY <3>1, <3>3 DEF Holders
    <3> QED  BY <1>0, <3>1, <3>4 DEF ActiveCounted
  <2>4. ASSUME UNCHANGED <<backend, held, active>> PROVE ActiveCounted'
    BY <1>0, <2>4 DEF ActiveCounted, Holders
  <2>5. CASE Enter(r) \/ Reject(r) \/ TakeSlot(r) \/ Overload(r) \/ CacheHit(r)
             \/ CacheMiss(r) \/ NoBackend(r) \/ StartTrip(r) \/ Refuse(r)
    BY <2>4, <2>5 DEF Enter, Reject, TakeSlot, Overload, CacheHit, CacheMiss,
                      NoBackend, StartTrip, Refuse
  <2>6. CASE TripSucceeds(r) \/ SwitchesProtocols(r) \/ TripFails(r)
             \/ TripAborted(r) \/ RecordFailure(r) \/ BodyEnds(r) \/ BodyBreaks(r)
             \/ FreeSlot(r) \/ Leave(r) \/ CheckRetired(r) \/ CloseIdle(r)
    BY <2>4, <2>6 DEF TripSucceeds, SwitchesProtocols, TripFails, TripAborted,
                      RecordFailure, BodyEnds, BodyBreaks, FreeSlot, Leave,
                      CheckRetired, CloseIdle
  <2> QED  BY <1>1, <2>1, <2>2, <2>3, <2>5, <2>6 DEF Serve
<1>2. ASSUME Retire \/ \E b \in Backends : ProbeChange(b) PROVE ActiveCounted'
  BY <1>0, <1>2, OthersMoveNone DEF ActiveCounted, Holders
<1> QED  BY <1>1, <1>2 DEF Next

-----------------------------------------------------------------------------
(* The idle connections.                                                   *)

Watching == InsidePCs \union {"check", "closeIdle"}

\* A request that goes on inside, or is on its way to look at retired, watches.
LEMMA StillWatched ==
    ASSUME Typed, IdleWatched, NEW r \in Requests, NEW to \in Watching,
           pc' = [pc EXCEPT ![r] = to], UNCHANGED <<retired, retire>>
    PROVE  IdleWatched'
<1>1. pc'[r] = to  BY DEF Typed
<1> QED  BY <1>1 DEF IdleWatched, Watching

\* A positive count means that somebody is inside.
LEMMA SomebodyInside ==
    ASSUME NEW f \in [Requests -> PC], Cardinality(At(f, InsidePCs)) # 0
    PROVE  \E r \in Requests : f[r] \in InsidePCs
<1>1. At(f, InsidePCs) # {}  BY FS_EmptySet
<1> QED  BY <1>1 DEF At

\* Whoever is the last to leave a retired snapshot finds out that it is.
LEMMA IdleStep == IInv /\ Next => IdleWatched'
<1> SUFFICES ASSUME IInv, Next PROVE IdleWatched'  OBVIOUS
<1>0. Typed /\ IdleWatched /\ InFlightCounted  BY DEF IInv
<1>1. ASSUME NEW r \in Requests, Enter(r) \/ Serve(r) PROVE IdleWatched'
  <2>0. UNCHANGED <<retired, retire>>
    <3>1. ASSUME NEW b \in Backends, Choose(r, b) PROVE UNCHANGED <<retired, retire>>
      BY <3>1 DEF Choose
    <3> QED
      BY <1>1, <3>1 DEF Enter, Serve, Reject, TakeSlot, Overload, CacheHit, CacheMiss,
         NoBackend, Acquire, StartTrip, Refuse, RewindFails, TripSucceeds,
         SwitchesProtocols, TripFails, TripAborted, ReleaseAborted, ReleaseFailed,
         RecordFailure, BodyEnds, BodyBreaks, CloseBody, FreeSlot, Leave,
         CheckRetired, CloseIdle
  <2>1. ASSUME \E to \in Watching : pc' = [pc EXCEPT ![r] = to] PROVE IdleWatched'
    BY <1>0, <2>0, <2>1, StillWatched
  <2>2. CASE Enter(r) \/ Reject(r) \/ TakeSlot(r) \/ Overload(r) \/ CacheHit(r)
             \/ CacheMiss(r) \/ NoBackend(r)
             \/ (\E b \in Backends : Choose(r, b))
             \/ Acquire(r) \/ StartTrip(r) \/ Refuse(r) \/ RewindFails(r)
    <3>1. \E to \in Watching : pc' = [pc EXCEPT ![r] = to]
      BY <2>2 DEF Enter, Reject, TakeSlot, Overload, CacheHit, CacheMiss, NoBackend,
                  Choose, Acquire, StartTrip, Refuse, RewindFails, Goto, PC,
                  InsidePCs, Watching, AfterOverload, AfterNoBackend
    <3> QED  BY <2>1, <3>1
  <2>3. CASE TripSucceeds(r) \/ SwitchesProtocols(r) \/ TripFails(r)
             \/ TripAborted(r) \/ ReleaseAborted(r) \/ ReleaseFailed(r)
             \/ RecordFailure(r) \/ BodyEnds(r) \/ BodyBreaks(r) \/ CloseBody(r)
             \/ FreeSlot(r)
    <3>1. \E to \in Watching : pc' = [pc EXCEPT ![r] = to]
      BY <2>3 DEF TripSucceeds, SwitchesProtocols, TripFails, TripAborted,
                  ReleaseAborted, ReleaseFailed, RecordFailure, BodyEnds,
                  BodyBreaks, CloseBody, FreeSlot, Goto, PC, InsidePCs, Watching
    <3> QED  BY <2>1, <3>1
  <2>4. CASE Leave(r)
    <3>1. CASE inFlight = 1
      <4>1. pc' = [pc EXCEPT ![r] = "check"] /\ "check" \in Watching
        BY <2>4, <3>1 DEF Leave, Goto, AfterLeave, Watching
      <4> QED  BY <2>1, <4>1
    <3>2. CASE inFlight # 1
      <4>1. inFlight' # 0  BY <1>0, <2>4, <3>2 DEF Leave, Typed
      <4>2. Cardinality(At(pc', InsidePCs)) # 0
        BY <4>1, InFlightStep DEF InFlightCounted
      <4>3. pc' \in [Requests -> PC]  BY TypedStep DEF Typed
      <4>4. \E x \in Requests : pc'[x] \in InsidePCs
        BY <4>2, <4>3, SomebodyInside
      <4> QED  BY <1>0, <2>0, <4>4 DEF IdleWatched
    <3> QED  BY <3>1, <3>2
  <2>5. CASE CheckRetired(r)
    <3>1. CASE retired
      <4>1. pc' = [pc EXCEPT ![r] = "closeIdle"] /\ "closeIdle" \in Watching
        BY <2>5, <3>1 DEF CheckRetired, Goto, Watching
      <4> QED  BY <2>1, <4>1
    <3>2. CASE ~retired
      BY <1>0, <2>0, <3>2 DEF IdleWatched
    <3> QED  BY <3>1, <3>2
  <2>6. CASE CloseIdle(r)
    BY <1>0, <2>0, <2>6 DEF CloseIdle, IdleWatched
  <2> QED  BY <1>1, <2>2, <2>3, <2>4, <2>5, <2>6 DEF Serve
<1>2. CASE RetireStore
  BY <1>0, <1>2 DEF RetireStore, IdleWatched
<1>3. CASE RetireLoad
  <2>1. pc' = pc /\ retired' = retired /\ retire = "stored"
    BY <1>3 DEF RetireLoad
  <2>2. CASE Quiet
    BY <1>0, <1>3, <2>1, <2>2 DEF RetireLoad, IdleWatched
  <2>3. CASE ~Quiet
    <3>1. Cardinality(At(pc, InsidePCs)) # 0
      BY <1>0, <2>3 DEF Quiet, InFlightCounted
    <3>2. \E x \in Requests : pc[x] \in InsidePCs
      BY <1>0, <3>1, SomebodyInside DEF Typed
    <3> QED  BY <1>0, <1>3, <2>1, <3>2 DEF RetireLoad, IdleWatched
  <2> QED  BY <2>2, <2>3
<1>4. CASE RetireClose
  BY <1>0, <1>4 DEF RetireClose, IdleWatched
<1>5. ASSUME NEW b \in Backends, ProbeChange(b) PROVE IdleWatched'
  BY <1>0, <1>5 DEF ProbeChange, IdleWatched
<1> QED  BY <1>1, <1>2, <1>3, <1>4, <1>5 DEF Next, Retire

-----------------------------------------------------------------------------
(* The theorems.                                                           *)

\* A step that changes nothing keeps the invariant.
LEMMA StutterStep == IInv /\ UNCHANGED vars => IInv'
<1> SUFFICES ASSUME IInv, UNCHANGED vars PROVE IInv'  OBVIOUS
<1>1. UNCHANGED <<pc, backend, trips, held, selfAnswered, health, active, slots,
                  inFlight, retired, retire, idle, up, down>>
  BY DEF vars, state
<1>2. Typed' /\ TripsPlaced'
  BY <1>1 DEF IInv, Typed, TripsPlaced, Attempts
<1>3. HoldPlaced' /\ ActiveCounted'
  BY <1>1 DEF IInv, HoldPlaced, ActiveCounted, Holders
<1>4. SlotsCounted' /\ InFlightCounted'
  BY <1>1 DEF IInv, SlotsCounted, InFlightCounted
<1>5. IdleWatched'  BY <1>1 DEF IInv, IdleWatched
<1> QED  BY <1>2, <1>3, <1>4, <1>5 DEF IInv

\* The invariant is inductive, and so always holds.
THEOREM Inductive == Spec => []IInv
<1>1. IInv /\ [Next]_vars => IInv'
  <2>1. IInv /\ Next => IInv'
    BY TypedStep, TripsStep, HoldStep, SlotStep, InFlightStep, ActiveStep, IdleStep
       DEF IInv
  <2> QED  BY <2>1, StutterStep
<1> QED  BY InitIInv, <1>1, PTL DEF Spec

\* The variables have their types; the counters, which the code only ever adds
\* to and subtracts from, never go below zero.
THEOREM TypeCorrect == Spec => []TypeOK
<1>1. IInv => TypeOK
  <2> SUFFICES ASSUME IInv PROVE TypeOK  OBVIOUS
  <2>1. Typed /\ SlotsCounted /\ InFlightCounted /\ ActiveCounted  BY DEF IInv
  <2>2. slots \in Nat /\ inFlight \in Nat
    BY <2>1, AtFinite DEF SlotsCounted, InFlightCounted
  <2>3. \A b \in Backends : active[b] \in Nat
    BY <2>1, HoldersFinite DEF ActiveCounted
  <2>4. active \in [Backends -> Nat]  BY <2>1, <2>3 DEF Typed
  <2> QED  BY <2>1, <2>2, <2>4 DEF Typed, TypeOK
<1> QED  BY Inductive, <1>1, PTL

\* Every path through ServeHTTP gives back the slot it took, whatever the limit
\* and however many requests there are.
THEOREM SlotsCorrect == Spec => []SlotsMatchAdmitted
<1>1. IInv /\ TypeOK => SlotsMatchAdmitted
  BY DEF IInv, SlotsCounted, SlotsMatchAdmitted, Admitted, At
<1> QED  BY Inductive, TypeCorrect, <1>1, PTL

\* Backend.Active counts the assignments whose release has not run, and these
\* belong to the requests the proxy works for and to those that the reverse
\* proxy answered itself.
THEOREM ActiveCorrect == Spec => []ActiveMatchesAssigned
<1>1. IInv => ActiveMatchesAssigned
  <2> SUFFICES ASSUME IInv PROVE ActiveMatchesAssigned  OBVIOUS
  <2>1. Typed /\ HoldPlaced /\ ActiveCounted  BY DEF IInv
  <2>2. held = Assigned \union selfAnswered
    BY <2>1 DEF Typed, HoldPlaced, Assigned
  <2> QED  BY <2>1, <2>2 DEF ActiveCounted, ActiveMatchesAssigned
<1> QED  BY Inductive, <1>1, PTL

\* No request makes more round trips than canRetry and max_attempts allow.
THEOREM TripsCorrect == Spec => []TripsBounded
<1>1. IInv => TripsBounded
  BY HandlerAssumption DEF IInv, Typed, TripsPlaced, TripsBounded, Attempts
<1> QED  BY Inductive, <1>1, PTL

\* An empty retired snapshot keeps no idle connection.
THEOREM RetirementCorrect == Spec => []RetiredKeepsNothing
<1>1. IInv => RetiredKeepsNothing
  BY DEF IInv, IdleWatched, RetiredKeepsNothing, InsidePCs
<1> QED  BY Inductive, <1>1, PTL
=============================================================================
