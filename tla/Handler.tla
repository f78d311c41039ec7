------------------------------- MODULE Handler -------------------------------
(***************************************************************************)
(* The life of the requests of one proxy snapshot (internal/proxy):        *)
(* Handler.ServeHTTP, retryTransport.RoundTrip, releaseBody, and the       *)
(* retirement of the snapshot by a reload.  Requests are goroutines that   *)
(* share the atomic counters inFlight and active, the channel requestSlots *)
(* and the health of the backends; every access to one of these is a step. *)
(*                                                                         *)
(* httputil.ReverseProxy and http.Transport are external: what they do     *)
(* between ServeHTTP and RoundTrip is modelled by its outcomes.            *)
(***************************************************************************)
EXTENDS Backend, FiniteSets

CONSTANTS
    Requests, Backends, None, NoHealthy,
    MaxConcurrentRequests,   \* capacity of requestSlots
    MaxAttempts,             \* pools.*.retry.max_attempts
    Replayable,              \* requests canRetry accepts
    Rewindable,              \* those of them with a GetBody
    Cacheable,               \* requests of a cached route that are eligible
    Upgrading                \* requests that ask for a protocol upgrade

ASSUME HandlerAssumption ==
    /\ IsFiniteSet(Requests)
    /\ MaxConcurrentRequests \in Nat \ {0}
    /\ MaxAttempts \in {1, 2}
    /\ Rewindable \subseteq Replayable
    /\ None \notin Backends

VARIABLES
    pc,          \* where each request is
    backend,     \* retryTransport's selected, None before the first choice
    trips,       \* the round trips each request has started
    held,        \* requests whose last release function has not run
    health,      \* the health record of each backend
    active,      \* Backend.active
    slots,       \* len(requestSlots)
    inFlight,    \* Handler.inFlight
    retired,     \* Handler.retired
    retire,      \* where the goroutine that retires the snapshot is
    idle,        \* the transports keep an idle connection
    up, down,    \* history of the choices being made: see Selection
    selfAnswered \* history: requests ended by an answer of the reverse proxy

state == <<pc, backend, trips, held, selfAnswered, health, active, slots,
           inFlight, retired, retire, idle>>
vars == <<state, up, down>>

PC == {"outside", "checks", "lookup", "select", "acquire", "proxy", "trip",
       "failed", "evidence", "aborted", "body", "close", "free", "leave",
       "check", "closeIdle", "gone"}

\* The types; in particular no release, deferred receive or deferred Add(-1)
\* takes active, slots or inFlight below zero.
TypeOK ==
    /\ pc \in [Requests -> PC]
    /\ backend \in [Requests -> Backends \union {None}]
    /\ trips \in [Requests -> 0..MaxAttempts]
    /\ held \subseteq Requests
    /\ selfAnswered \subseteq Requests
    /\ health \in [Backends -> Health]
    /\ active \in [Backends -> Nat]
    /\ slots \in Nat
    /\ inFlight \in Nat
    /\ retired \in BOOLEAN
    /\ retire \in {"live", "stored", "close", "done"}
    /\ idle \in BOOLEAN
    /\ up \in [Requests -> SUBSET Backends]
    /\ down \in [Requests -> SUBSET Backends]

Init ==
    /\ pc = [r \in Requests |-> "outside"]
    /\ backend = [r \in Requests |-> None]
    /\ trips = [r \in Requests |-> 0]
    /\ held = {}
    /\ selfAnswered = {}
    /\ health \in [Backends -> {SetAlive(TRUE), SetAlive(FALSE)}]
    /\ active = [b \in Backends |-> 0]
    /\ slots = 0
    /\ inFlight = 0
    /\ retired = FALSE
    /\ retire = "live"
    /\ idle = FALSE
    /\ up = [r \in Requests |-> {}]
    /\ down = [r \in Requests |-> {}]

AliveSet == {b \in Backends : health[b].alive}

Selecting == INSTANCE Selection WITH
    Callers <- Requests,
    alive <- AliveSet,
    choosing <- {r \in Requests : pc[r] = "select"},
    attempted <- [r \in Requests |-> IF pc[r] = "select" THEN backend[r] ELSE None],
    answer <- backend

\* The history of the choices in progress, kept by every step.
Watched(seen, now) ==
    [r \in Requests |-> IF pc'[r] # "select" THEN {}
                       ELSE IF pc[r] = "select" THEN seen[r] \union now ELSE now]

Watch ==
    /\ up' = Watched(up, AliveSet')
    /\ down' = Watched(down, Backends \ AliveSet')

Goto(r, from, to) == pc[r] = from /\ pc' = [pc EXCEPT ![r] = to]

-----------------------------------------------------------------------------
(* Plausible slips, for the mutation checks.                               *)
KeepActive(r) == active
WaitForBackend == "select"
SlotPerRefusal == "free"
RetryEverything(r) == MaxAttempts
NeverQuiet == FALSE
LeaveWithoutLooking == "gone"

-----------------------------------------------------------------------------
(* Admission                                                               *)

\* ServeHTTP begins, also for a request that loaded this snapshot from
\* Dynamic just before it was swapped out.
Enter(r) ==
    /\ Goto(r, "outside", "checks")
    /\ inFlight' = inFlight + 1
    /\ UNCHANGED <<backend, trips, held, selfAnswered, health, active, slots,
                   retired, retire, idle>>
    /\ Watch

\* The body limit, the path, the route, its policy or its rate limit answers.
Reject(r) ==
    /\ Goto(r, "checks", "leave")
    /\ UNCHANGED <<backend, trips, held, selfAnswered, health, active, slots,
                   inFlight, retired, retire, idle>>
    /\ Watch

\* The select on requestSlots: a slot is free, or the proxy is overloaded.
TakeSlot(r) ==
    /\ slots < MaxConcurrentRequests
    /\ Goto(r, "checks", "lookup")
    /\ slots' = slots + 1
    /\ UNCHANGED <<backend, trips, held, selfAnswered, health, active,
                   inFlight, retired, retire, idle>>
    /\ Watch

\* Where an overloaded request goes: its slot was never taken.
AfterOverload == "leave"

Overload(r) ==
    /\ slots = MaxConcurrentRequests
    /\ Goto(r, "checks", AfterOverload)
    /\ UNCHANGED <<backend, trips, held, selfAnswered, health, active, slots,
                   inFlight, retired, retire, idle>>
    /\ Watch

\* The response cache answers (its content is the matter of ResponseCache).
CacheHit(r) ==
    /\ r \in Cacheable
    /\ Goto(r, "lookup", "free")
    /\ UNCHANGED <<backend, trips, held, selfAnswered, health, active, slots,
                   inFlight, retired, retire, idle>>
    /\ Watch

CacheMiss(r) ==
    /\ Goto(r, "lookup", "select")
    /\ UNCHANGED <<backend, trips, held, selfAnswered, health, active, slots,
                   inFlight, retired, retire, idle>>
    /\ Watch

-----------------------------------------------------------------------------
(* Choice and assignment of a backend, first and for a retry               *)

\* Next or nextRetryBackend returns b: the promise of Selection.
Choose(r, b) ==
    /\ Goto(r, "select", "acquire")
    /\ Selecting!MayPick(r, b)
    /\ backend' = [backend EXCEPT ![r] = b]
    /\ UNCHANGED <<trips, held, selfAnswered, health, active, slots, inFlight,
                   retired, retire, idle>>
    /\ Watch

\* ErrNoHealthyBackend: 503 for the first choice, 502 for a retry.
AfterNoBackend == "free"

NoBackend(r) ==
    /\ Goto(r, "select", AfterNoBackend)
    /\ Selecting!MayFail(r)
    /\ UNCHANGED <<backend, trips, held, selfAnswered, health, active, slots,
                   inFlight, retired, retire, idle>>
    /\ Watch

Acquired(r) == [active EXCEPT ![backend[r]] = @ + 1]

\* Handler.acquire.  The reverse proxy, or the loop in RoundTrip for a retry,
\* prepares the request next.
Acquire(r) ==
    /\ Goto(r, "acquire", "proxy")
    /\ active' = Acquired(r)
    /\ held' = held \union {r}
    /\ UNCHANGED <<backend, trips, selfAnswered, health, slots, inFlight,
                   retired, retire, idle>>
    /\ Watch

\* The release function of r's assignment: idempotent, by compare-and-swap.
Released(r) == IF r \in held THEN [active EXCEPT ![backend[r]] = @ - 1] ELSE active

Release(r) == active' = Released(r) /\ held' = held \ {r}

\* The next round trip of r starts.
StartTrip(r) ==
    /\ Goto(r, "proxy", "trip")
    /\ trips' = [trips EXCEPT ![r] = @ + 1]
    /\ UNCHANGED <<backend, held, selfAnswered, health, active, slots,
                   inFlight, retired, retire, idle>>
    /\ Watch

\* The reverse proxy answers an upgrade to an invalid protocol itself and
\* never calls RoundTrip, the only place the first assignment is released.
Refuse(r) ==
    /\ r \in Upgrading
    /\ trips[r] = 0
    /\ Goto(r, "proxy", "free")
    /\ selfAnswered' = selfAnswered \union {r}
    /\ UNCHANGED <<backend, trips, held, health, active, slots,
                   inFlight, retired, retire, idle>>
    /\ Watch

\* GetBody fails for a retry: the new assignment is released at once.
RewindFails(r) ==
    /\ r \in Rewindable
    /\ trips[r] > 0
    /\ Goto(r, "proxy", "free")
    /\ Release(r)
    /\ UNCHANGED <<backend, trips, selfAnswered, health, slots, inFlight,
                   retired, retire, idle>>
    /\ Watch

-----------------------------------------------------------------------------
(* The round trip                                                          *)

\* MaxAttempts for a request whose body can be sent again, else one.
Attempts(r) == IF r \in Replayable THEN MaxAttempts ELSE 1

TripSucceeds(r) ==
    /\ Goto(r, "trip", "body")
    /\ health' = [health EXCEPT ![backend[r]] = RecordPassiveSuccess(@)]
    /\ UNCHANGED <<backend, trips, held, selfAnswered, active, slots,
                   inFlight, retired, retire, idle>>
    /\ Watch

\* The upstream answers 101, to an upgrade or to any other request: releaseBody
\* hides the connection's Write, so the reverse proxy cannot take it over; it
\* answers an error and closes no body.
SwitchesProtocols(r) ==
    /\ Goto(r, "trip", "free")
    /\ health' = [health EXCEPT ![backend[r]] = RecordPassiveSuccess(@)]
    /\ selfAnswered' = selfAnswered \union {r}
    /\ UNCHANGED <<backend, trips, held, active, slots, inFlight, retired,
                   retire, idle>>
    /\ Watch

\* A transport failure, a timeout of the upstream included.
TripFails(r) ==
    /\ Goto(r, "trip", "failed")
    /\ UNCHANGED <<backend, trips, held, selfAnswered, health, active, slots,
                   inFlight, retired, retire, idle>>
    /\ Watch

\* The client went away or its body exceeded the limit: isBackendFailure is
\* false.
TripAborted(r) ==
    /\ Goto(r, "trip", "aborted")
    /\ UNCHANGED <<backend, trips, held, selfAnswered, health, active, slots,
                   inFlight, retired, retire, idle>>
    /\ Watch

ReleaseAborted(r) ==
    /\ Goto(r, "aborted", "free")
    /\ Release(r)
    /\ UNCHANGED <<backend, trips, selfAnswered, health, slots, inFlight,
                   retired, retire, idle>>
    /\ Watch

ReleaseFailed(r) ==
    /\ Goto(r, "failed", "evidence")
    /\ Release(r)
    /\ UNCHANGED <<backend, trips, selfAnswered, health, slots, inFlight,
                   retired, retire, idle>>
    /\ Watch

\* RecordPassiveFailure, then the end of the loop or another choice.
RecordFailure(r) ==
    /\ Goto(r, "evidence", IF trips[r] = Attempts(r) THEN "free" ELSE "select")
    /\ health' = [health EXCEPT ![backend[r]] = RecordPassiveFailure(@)]
    /\ UNCHANGED <<backend, trips, held, selfAnswered, active, slots,
                   inFlight, retired, retire, idle>>
    /\ Watch

-----------------------------------------------------------------------------
(* The response body and the end of the request                            *)

\* The whole body is copied: the transport keeps the connection.
BodyEnds(r) ==
    /\ Goto(r, "body", "close")
    /\ idle' = TRUE
    /\ UNCHANGED <<backend, trips, held, selfAnswered, health, active, slots,
                   inFlight, retired, retire>>
    /\ Watch

\* Reading from the upstream or writing to the client fails.
BodyBreaks(r) ==
    /\ Goto(r, "body", "close")
    /\ UNCHANGED <<backend, trips, held, selfAnswered, health, active, slots,
                   inFlight, retired, retire, idle>>
    /\ Watch

\* releaseBody.Close, which the reverse proxy calls in either case.
CloseBody(r) ==
    /\ Goto(r, "close", "free")
    /\ Release(r)
    /\ UNCHANGED <<backend, trips, selfAnswered, health, slots, inFlight,
                   retired, retire, idle>>
    /\ Watch

\* The deferred receive from requestSlots; the observer's record follows.
FreeSlot(r) ==
    /\ Goto(r, "free", "leave")
    /\ slots' = slots - 1
    /\ UNCHANGED <<backend, trips, held, selfAnswered, health, active,
                   inFlight, retired, retire, idle>>
    /\ Watch

\* inFlight.Add(-1) == 0 && ...
AfterLeave == IF inFlight = 1 THEN "check" ELSE "gone"

Leave(r) ==
    /\ Goto(r, "leave", AfterLeave)
    /\ inFlight' = inFlight - 1
    /\ UNCHANGED <<backend, trips, held, selfAnswered, health, active, slots,
                   retired, retire, idle>>
    /\ Watch

\* ... retired.Load()
CheckRetired(r) ==
    /\ Goto(r, "check", IF retired THEN "closeIdle" ELSE "gone")
    /\ UNCHANGED <<backend, trips, held, selfAnswered, health, active, slots,
                   inFlight, retired, retire, idle>>
    /\ Watch

CloseIdle(r) ==
    /\ Goto(r, "closeIdle", "gone")
    /\ idle' = FALSE
    /\ UNCHANGED <<backend, trips, held, selfAnswered, health, active, slots,
                   inFlight, retired, retire>>
    /\ Watch

-----------------------------------------------------------------------------
(* The reload that retires the snapshot, and the probes                    *)

RetireStore ==
    /\ retire = "live"
    /\ retire' = "stored"
    /\ retired' = TRUE
    /\ UNCHANGED <<pc, backend, trips, held, selfAnswered, health, active,
                   slots, inFlight, idle>>
    /\ Watch

Quiet == inFlight = 0

RetireLoad ==
    /\ retire = "stored"
    /\ retire' = IF Quiet THEN "close" ELSE "done"
    /\ UNCHANGED <<pc, backend, trips, held, selfAnswered, health, active,
                   slots, inFlight, retired, idle>>
    /\ Watch

RetireClose ==
    /\ retire = "close"
    /\ retire' = "done"
    /\ idle' = FALSE
    /\ UNCHANGED <<pc, backend, trips, held, selfAnswered, health, active,
                   slots, inFlight, retired>>
    /\ Watch

\* A probe changes the eligibility of b at any time; the probe counters that
\* lead to it are the matter of HealthChecker.
ProbeChange(b) ==
    /\ health' = [health EXCEPT ![b] =
                     IF @.alive THEN [@ EXCEPT !.alive = FALSE] ELSE SetAlive(TRUE)]
    /\ UNCHANGED <<pc, backend, trips, held, selfAnswered, active, slots,
                   inFlight, retired, retire, idle>>
    /\ Watch

Serve(r) ==
    \/ Reject(r) \/ TakeSlot(r) \/ Overload(r)
    \/ CacheHit(r) \/ CacheMiss(r)
    \/ NoBackend(r) \/ (\E b \in Backends : Choose(r, b))
    \/ Acquire(r) \/ StartTrip(r) \/ Refuse(r) \/ RewindFails(r)
    \/ TripSucceeds(r) \/ SwitchesProtocols(r) \/ TripFails(r) \/ TripAborted(r)
    \/ ReleaseAborted(r) \/ ReleaseFailed(r) \/ RecordFailure(r)
    \/ BodyEnds(r) \/ BodyBreaks(r) \/ CloseBody(r)
    \/ FreeSlot(r) \/ Leave(r) \/ CheckRetired(r) \/ CloseIdle(r)

Retire == RetireStore \/ RetireLoad \/ RetireClose

Next ==
    \/ \E r \in Requests : Enter(r) \/ Serve(r)
    \/ Retire
    \/ \E b \in Backends : ProbeChange(b)

\* Goroutines run, upstreams answer or time out, and a client that stops
\* reading is cut off by the server's write timeout.
Fairness ==
    /\ \A r \in Requests : WF_vars(Serve(r))
    /\ WF_vars(RetireLoad \/ RetireClose)

Spec == Init /\ [][Next]_vars /\ Fairness

-----------------------------------------------------------------------------
(* Safety                                                                  *)

\* The requests between the send on requestSlots and the deferred receive.
WithSlot == {"lookup", "select", "acquire", "proxy", "trip", "failed", "evidence",
             "aborted", "body", "close", "free"}
Admitted == {r \in Requests : pc[r] \in WithSlot}

\* The requests the proxy has assigned to a backend and still works for.
Working == {"proxy", "trip", "failed", "aborted", "body", "close"}
Assigned == {r \in Requests : pc[r] \in Working}

\* The requests assigned to b whose release function has not run.
Holders(b) == {r \in held : backend[r] = b}

\* Every path through ServeHTTP, early returns included, gives back exactly
\* the slot it took, and never more than the limit are admitted.
SlotsMatchAdmitted ==
    /\ TypeOK
    /\ slots = Cardinality(Admitted)
    /\ slots <= MaxConcurrentRequests

\* Backend.Active, which LeastConnections balances on, counts the assignments
\* that were not released, and these are the requests assigned to it: no error
\* path releases one early, twice or not at all, but for the two on which the
\* reverse proxy answers itself (an invalid upgrade, a 101).
ActiveMatchesAssigned ==
    /\ \A b \in Backends :
         active[b] = Cardinality(Holders(b))
    /\ held = Assigned \union selfAnswered

\* No request makes more round trips than the pool allows, and one whose body
\* cannot be replayed makes one.
TripsBounded ==
    \A r \in Requests :
        trips[r] <= MaxAttempts /\ (trips[r] > 1 => r \in Replayable)

\* Once the snapshot is retired and nobody is in it, its transports keep no
\* idle connection, however retirement raced with the last request and with
\* requests that entered after it.
RetiredKeepsNothing ==
    retire = "done" /\ (\A r \in Requests : pc[r] \in {"outside", "gone"}) => ~idle

-----------------------------------------------------------------------------
(* Liveness                                                                *)

\* Every request that enters leaves, so the slot and the assignment it holds
\* come back.
RequestsLeave == \A r \in Requests : pc[r] = "checks" ~> pc[r] = "gone"

\* A retired snapshot ends up without connections.
RetiredDrains == <>[](retired => ~idle)

-----------------------------------------------------------------------------
(* What a comment says and the code does not do.                           *)

\* backend.go: "Active returns the number of currently assigned requests".
ActiveIsCurrent ==
    \A b \in Backends :
        active[b] = Cardinality({r \in Assigned : backend[r] = b})
=============================================================================
