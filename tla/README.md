# A TLA+ model of Gefahr

Gefahr (`src/`) is a reverse proxy in Go: it accepts HTTP requests, routes them
by host and path prefix, filters and rate-limits them, answers some from an
in-memory cache, and forwards the others to a healthy backend, with a retry.
It reloads its configuration on SIGHUP without dropping requests.

The modules here model the parts where goroutines, callbacks and reloads
interleave. TLC checks them on small instances, liveness included, and TLAPS
proves every safety property of these runs for every value of the constants:
each invariant and each action property, and that `Balance` and `ResponseCache`
implement the two abstract specifications.

## 1. The system

| Component | State | Operations | Interacts with | What makes it correct |
|---|---|---|---|---|
| Backend record (`backend/backend.go`) | `alive`, three evidence counters, `active` | `RecordProbe`, `RecordPassive*`, `SetAlive`, `Acquire` | called by probes, requests, reload | ejection and readmission need enough recent evidence; `active` is the assigned requests |
| Health checker (`backend/health.go`) | the round, its goroutines | `Run`, `CheckOnce`, `check` | the backend record; the metrics by callback | converges to what the probes say; the gauge follows; stops when canceled |
| Balancers (`balance/`) | the shared counter | `Next` of two strategies | read `alive` and `active` while they change | pick something that was alive; fail only if everything was down; even and least-loaded |
| Request life (`proxy/handler.go`) | `inFlight`, `requestSlots`, `active`, `retired` | `ServeHTTP`, `RoundTrip`, `releaseBody.Close`, `Retire` | everything | gives back what it took on every path; bounded trips; a retired snapshot drains |
| Routing, policy, identity (`routing/`, `proxy/policy.go`, `proxy/clientip.go`) | none | `Match`, `evaluateRoutePolicy`, `Identity` | called by `ServeHTTP` | the most specific route; the client is whom the trusted proxies saw |
| Rate limiter (`proxy/ratelimit.go`) | buckets by client | `Allow` | called by `ServeHTTP` | admits at most the limit per window; refuses only who earned it |
| Cache store (`cache/cache.go`) | map, LRU list, byte count | `Get`, `Set` | `ServeHTTP`, capture | the three agree; bounded; never stale nor replaced content |
| Cache capture (`proxy/handler.go`) | a buffer per body, the shared budget | `Read`, `Close` | the cache | budget exact; only whole bodies cached |
| Cache policy (`cache/policy.go`) | none | `RequestEligible`, `Evaluate`, `Key` | `ServeHTTP` | nothing private is shared; no lifetime longer than the headers say |
| Reload (`app/runtime.go`, `cmd/goproxy`) | current configuration, published snapshot, certificates, workers, log level | `Reload`, SIGHUP loop | all snapshots, metrics, TLS | all or nothing; health inherited; no signal lost |
| Metrics (`metrics/`) | gauges and counters by label | `Set*`, `Observe*`, `ReconcileConfig` | checker, requests, reload | gauges show the current snapshot |
| Servers (`server/server.go`) | listeners, connection semaphore | `Run`, `Accept`, `Close` | net/http | bounded shutdown; connections never leak a slot |
| Configuration (`config/`) | the file | `Load`, `Validate` | start, reload, router, policies | what it accepts can be served |
| Admin, transports, logging | none of their own | read-only views; settings; output | start, reload | - |

How they interact: a connection's goroutine calls `Dynamic.ServeHTTP`, which
loads the current snapshot (`*Handler`) and stays with it. The snapshot owns
its pools, balancers, rate limiters, cache and slots. Health workers belong to
a snapshot and write to the shared metrics. A reload builds a snapshot, copies
eligibility from the old one, publishes the new one, replaces the workers and
retires the old one, which drains while its last requests run.

What is hard: atomic counters updated by many requests along many error paths;
values read and used after they changed (`Alive` in the balancers and the
callback, the clock in the limiter, the lifetime in the capture); the race of
retirement with late requests; workers of two snapshots writing to one gauge.
`PROJECT.json` lists each of these hazards at its line, with the properties
that cover it.

## 2. The modules

| Module | Models | State and actions against the code |
|---|---|---|
| `Backend` | the backend's health record | pure operators `RecordProbe`, `RecordPassiveFailure`, `RecordPassiveSuccess`, `SetAlive`; each is one critical section of `Backend.mu`. Counters saturate at `MaxCount` |
| `HealthChecker` | `Checker.Run`, one pool | `run` is the place in `Run`, `probe[b]` that of the goroutine of `b`; `RecordResult`, `ReadAlive` and `Publish` are the three steps of line 77-78. `evidence` is history |
| `Selection` | what choosing a backend promises | abstract: a caller gets a backend that was alive at some instant of its choice, and the one it avoids only if every other was seen down |
| `Balance` | the two `Next` and `nextRetryBackend` | every load of `alive`, `active` and the counter is a step; the strategy is fixed by `Init`. Implements `Selection` |
| `Handler` | `ServeHTTP`, `retryTransport`, `releaseBody`, `Retire` | `pc[r]` is the place of request r; every access to a shared atomic or channel is a step. `Choose` and `NoBackend` have the promise of `Selection` as their guards, in place of the code of the strategies, which is `Balance`. `selfAnswered` is history |
| `HandlerProofs` | - | the inductive invariant of `Handler` and five theorems |
| `CacheContract` | what the cache promises | abstract: may forget, never serves expired or replaced content |
| `ResponseCache` | `Cache` | `items`, `lru`, `bytes` are the map, the list and the count; a `Set` is a sequence of steps under the mutex, so that its loop is visible. Implements `CacheContract` |
| `CachePolicy` | `RequestEligible`, `Evaluate` and their helpers | operators; a Cache-Control line is a sequence of commas, quotes, backslashes and words, with which a header gives the line of all its fields joined; `Split` folds the scanner over it; durations saturate and wrap as `time.Duration` does |
| `CacheCapture` | `cacheCaptureBody`, `reserveCacheCapture` | `Headers` applies `CachePolicy` to an exchange; then a step per load, swap, discard of the shared budget |
| `Validation` | what `Validate` demands of routes and policies | the operator `Accepted` over a table of routes |
| `Routing` | path, router, policy, client identity | operators; a path is the sequence of its segments, a host a name, the dot or white space around it, and whether a port follows |
| `RateLimiter` | `rateLimiter.Allow` | `Begin` reads the clock, `CountIn`, `StartAgain` and `Track` are the outcomes of the critical section |
| `Gate` | `ServeHTTP` up to the slots | composes `Routing`, `Validation` and `RateLimiter`: `table` is one that was accepted; a request passes by the limiter or is counted under its identity. `Sendable` is what net/http lets through to a handler |
| `Reload` | SIGHUP loop, `Runtime.Reload`, shutdown | `pc` is the place in the loop; snapshots are appended when built; probes of all snapshots go on meanwhile |
| `HealthCheckerProofs` | - | the inductive invariant of `HealthChecker` and four theorems |
| `BalanceProofs` | - | the inductive invariant of `Balance`, its refinement of `Selection`, the rotation and one more theorem |
| `ResponseCacheProofs` | - | the inductive invariant of `ResponseCache`, its refinement of `CacheContract` and four theorems |
| `CacheCaptureProofs` | - | the inductive invariant of `CacheCapture`, what `CachePolicy` computes, and five theorems |
| `GateProofs` | - | the inductive invariant of `RateLimiter` as `Gate` uses it, what `Routing` computes, and seven theorems |
| `ReloadProofs` | - | the inductive invariant of `Reload` and two theorems |
| `Server` | `Run`, `limitListener`, `limitConn` | `pc` and `i` are the place in the loops of `Run`, `serve[s]` that of the goroutine of server s, inside `Accept` or around it; `sem[s]` is the length of the channel |
| `ServerProofs` | - | the inductive invariant of `Server` and three theorems |

Modules named `MC...` only give values to constants.

External, modelled by its outcomes: `httputil.ReverseProxy` (calls the
transport once, copies and closes the body; answers an upgrade to an invalid
protocol itself, and a 101 whose connection it cannot take over, without closing
the body),
`http.Transport` (round trip succeeds, fails, is aborted; keeps idle
connections), `http.Server` (`Serve` tracks its listener, `Shutdown` closes it,
waits for `Serve` and polls for idle connections, `Close` closes all of them; it
answers 400 to a malformed host and takes some headers out of a request),
the clock, signals and the file system.

## 3. The runs

Each property is stated in words above its definition. The type invariant of a
module is checked as the first conjunct of one of the invariants
(`SlotsMatchAdmitted`, `NoFalseUnhealthy`, `RotatesEvenly`, `StoreAgrees`,
`BudgetAccounted`, `SwitchedTogether`, `AdmissionsBounded`).

| Run | Question | Bounds, and why they are enough |
|---|---|---|
| `HealthChecker` | Do thresholds, gauge and cancellation hold under any interleaving of probes and requests? Does evidence act at once, and not before? | 2 backends (a round waits for both), thresholds 2 (1 would hide a counter that is not reset), counters saturate at 3 = threshold + 1, which no comparison distinguishes from more |
| `Balance` | The promise of `Selection`, evenness, minimality | both strategies, 2 backends, 2 concurrent callers, load 0..1, 3 calls while calm, 2 changes of health or load: one before and one after a read. The counter wraps at 3, which the pool does not divide, as 2^64 is not divided by a pool of three: the rotation skips once at the wrap, where the counts may differ by two |
| `Handler` | Is everything taken given back, on every path but those of `ActiveIsCurrent`? Do requests leave and a retired snapshot drain? | 2 requests for 1 slot (overload happens), 2 backends, 2 attempts: one request is replayable, cacheable and upgrading, the other none of these. Safety is proved for all sizes; with 3 requests for 2 slots it was also checked once |
| `ResponseCache` | Does the store agree with itself and keep its contract? | 3 keys for 2 entries, sizes 1, 2 and 4 for 3 bytes: both bounds evict, one response never fits; 2 concurrent setters, lifetimes 0 and 2, clock to 2 |
| `CacheCapture` | Is the shared budget exact? Are only whole and shareable bodies cached, and for how long? | 2 bodies of up to 3 bytes, which together exceed the budget of 2, in chunks of 0 to 2; exchanges of a request and a response whose Cache-Control lists have one or two fields, bare, valued and quoted elements, repeated, negative, too large and missing values, with and without Expires and Age. The largest duration is 1: everything in reach of saturation and wrap-around |
| `Reload` | All or nothing, inheritance, signals | 5 files (accepted, with a moved backend, with one more, rejected by the loader, needing a restart), 2 TLS listeners, 3 certificates, 2 edits, 2 signals, 1 change of eligibility |
| `Gate` | Routing, attribution, and limits under concurrency | 2 callers, 3 identities, limit 2 per window of 2, a table of 1 key, clock to 3; 12 tables of routes, of which 3 are accepted; 4 overlapping routes in an unfavourable order, hosts with and without dot, white space and port, a route for each case of `Forsaken`, all chains of up to 3 addresses |
| `Server` | Are places exact? Does the group stop in time and completely? | 3 servers (two public, one after them in the loop as the admin server is), 2 connections each, limits 1 and 2: `Accept` waits for a place and for a client |

Four runs show where a comment or a page promises what the code does not do:

| Run | The promise | What happens |
|---|---|---|
| `Handler_ActiveIsCurrent` | `backend.go:58` "Active returns the number of currently assigned requests." | An upgrade that the reverse proxy refuses never reaches `RoundTrip`. The body of a 101, which an upstream may send to any request, hides its `Write` in `releaseBody`; the reverse proxy cannot take it over and does not close it. In both cases the assignment is never released, and `LeastConnections` avoids that backend from then on |
| `CacheCapture_FreshnessIsUpstreams` | `concepts/caching.md:52` "Gefahr uses upstream freshness when available." | `time.Until` saturates for an `Expires` centuries ago, such as the year 1, and `ttl -= age` (`policy.go:99`) then wraps: with a positive `Age` the expired response is cached for as long as a duration can be |
| `Reload_GaugeSurvivesReload` | `metrics.go:214` "Whether a backend is eligible for traffic." | A probe of the old snapshot publishes after the new snapshot's initial value. Nothing corrects it until the state changes in the new snapshot |
| `Server_AcceptanceStops` | `reference/cli.md:63` "Shutdown stops accepting new connections and drains in-flight requests up to `timeouts.shutdown`." | The servers are shut down one after another under one deadline. While the first waits, the others accept; after the deadline they are closed without having been drained |

More that the models show:

* A passive ejection is not published to the gauge at all; `NoFalseUnhealthy`
  is one-sided for that reason.
* `Allow` reads the clock before it locks, so callers that wait long can be
  admitted beyond twice the limit in a window: `AdmissionsBounded` is stated for
  executions in which no admitted caller was overtaken by the clock; without
  this condition TLC finds it violated.
* A lifetime is found when the headers arrive but counted from the commit, after
  the last byte has passed to the client. `FreshnessIsUpstreams` is violated by
  this as well once the clock may move; its run keeps the clock still, so that
  the wrap-around is the only cause. `WithinFreshness`, which holds, compares
  the lifetime with the headers and excepts only the wrap-around.
* `Forsaken` in `Gate` names what validation accepts but no request can use, in
  five cases. A prefix with a percent sign other than the rejected ones is
  compared with decoded paths, in which `safeRequestPath` allows no percent sign.
  A denied prefix may cover all of its route. `required_headers` may name Host or
  Transfer-Encoding, which net/http takes out of `r.Header` (over HTTP/2 a literal
  host header may remain; the case only exempts a route from the claim). A host
  may have characters, such as a slash or white space inside, for which net/http
  answers 400. And a host with a dot or white space before its port ("api.:80")
  differs from "api" for the validation, which drops these first, but not for the
  router, which drops the port first; the second of two such routes gets no
  request.
* `caching.md` lists "non-GET and non-HEAD requests" among those that bypass the
  cache; `RequestEligible` makes HEAD bypass it too.

In `Gate`, callers are interchangeable and TLC uses them as a symmetry set; the
run checks only safety. No other run uses symmetry.

### Fairness

* `HealthChecker`: weak for the goroutines (each probe is bounded by its
  timeout), the end of a round and the ticker. Strong for `Stop`: while the
  context is done every select has it ready, and Go chooses at random among
  ready cases, so it is chosen eventually.
* `Handler`: weak for each request that is inside: upstreams answer or time
  out, and a client that stops reading is cut off by the write timeout. Nothing
  obliges a request to arrive, or a reload to happen.
* `CacheCapture`: weak for a body that has begun: the above, for its stream.
* `Reload`: weak for the steps of the SIGHUP loop, which waits for nobody.
* `ResponseCache`: strong for each `Set`, because `sync.Mutex` hands the lock to
  a waiter it would starve.
* `Server`: weak for the steps of `Run`, for each `Serve` and for the deadline;
  `Accept` on a closed listener fails. No client is obliged to connect and no
  handler to return, so that `RunReturns` rests on the deadline and `Close` only.
* The abstract modules, `Balance` and `Gate` have no fairness: their properties
  are safety properties.

Only `Reload` may stop: after the shutdown its loop has returned, and files
need not change; its configurations do not check for deadlock.

## 4. The proofs

`HandlerProofs` proves, for every finite set of requests, every set of backends
and every limit (`HandlerAssumption`, `ThresholdAssumption` and `MaxCountAssumption` are all it
assumes: positive limits and thresholds, as validation requires, at most two
attempts, counters that saturate no lower than the thresholds, and that the mark
for "none chosen" is not a backend), that `Spec` implies always:

* `TypeCorrect`: `TypeOK`, with counters that never become negative;
* `SlotsCorrect`: `SlotsMatchAdmitted`, the channel holds one token for each
  request between the send and the deferred receive;
* `ActiveCorrect`: `ActiveMatchesAssigned`, which says of every request whether it
  holds its assignment: while it works, and past its work exactly if the reverse
  proxy answered it itself (`selfAnswered`);
* `TripsCorrect`: `TripsBounded`;
* `RetirementCorrect`: `RetiredKeepsNothing`.

None of these is inductive. `IInv` strengthens them with

* `Typed`, in which counters are integers only: that they are natural numbers
  follows from what they count;
* `TripsPlaced`: a request that may still start a trip has attempts left, which
  ties the loop of `RoundTrip` to `Attempts`;
* `HoldPlaced`: where a request that holds an assignment can be. A request past
  its work holds one exactly if it is in `selfAnswered`;
* `SlotsCounted`, `InFlightCounted`, `ActiveCounted`: each counter is the
  cardinality of a set of requests. The lemmas `MovesIn`, `MovesOut` and
  `StaysPut` say what one step of one request does to such a set;
* `IdleWatched`: if the snapshot is retired, retirement is over and idle
  connections exist, then some request is inside or about to look at `retired`
  or to close them. This is the argument for the race in `Retire`: whoever
  brings `inFlight` to zero last sees `retired`.

`InitIInv` and one lemma per conjunct (`TypedStep`, `TripsStep`, `HoldStep`,
`SlotStep`, `InFlightStep`, `ActiveStep`, `IdleStep`) give `Inductive`; these five
theorems follow from it.

Which backend a request is given is the promise of `Selection`, by which `Choose`
and `NoBackend` are guarded. That the code's two strategies and
`nextRetryBackend` keep it is the theorem of `BalanceProofs`.

`ServerProofs` proves, for any number of servers, any positive limits and any
finite set of connections (`ServerAssumption`), that `Spec` implies

* `PlacesCorrect`: `PlacesAccounted`, so a listener never admits a connection
  over its limit and never loses a place;
* `NothingLeftCorrect`: `NothingLeft`;
* `CutsLateCorrect`: `CutsOnlyLate`, an action property.

`PlacesAccounted` is inductive once the types are known: the lemmas `BecomeOpen`
and `CloseConnsOpen` say what a step does to the open connections of a server.
The other two need the order of `Run`. `IInv` adds

* `Opening`: the listeners bound so far, before any `Serve` has started, which
  is what a failure to bind has to close;
* `DoneClosed`: a `Serve` that has returned has closed its listener;
* `Stopping`: a server past its `Shutdown` is in shutdown, its `Serve` accepts
  no more, and it has no connection left unless the deadline has passed; past
  its `Close` it has none at all, and nothing brings one back.

`Steady` collects what the steps of others can do to a server while `Run` stands
still; by `RunningOrSteady` each conjunct needs one case for all of those and one
for each step of `Run`.

`HealthCheckerProofs` proves `GaugeNeverFalse`, `EjectionsJustified` and
`ReadmissionsJustified` for any backends and positive thresholds. `IInv` relates
the record to the history (`Founded`: no counter exceeds what was reported since
it was last reset) and the gauge to the goroutines (`Published`: outside
`OnChange` the gauge is not false of a live backend, and inside it the value read
is not). `Published` holds because a backend that a request ejects stays ejected
until the next probe of it, and `Run` begins no round before the last has ended.

`EvidenceActsAtOnce` (`EvidenceActs`) is the other half of `EjectionsJustified`: a
failure that completes a threshold ejects a live backend in the same step.
`Founded` bounds the record from above only; `Exact` says that the record of a
live backend counts every failure reported on it. `ReadmissionsJustified` counts
passes since the last failed probe or readmission. An ejection by requests does
not start that count again (`RecordPassiveFailure` keeps `probePasses`), so a
backend that passed probes before it was ejected may come back with the next one.

`BalanceProofs` proves, for any pool with distinct backends, any finite set of
callers and any wrap of the counter:

* `ChoicesKeepTheirPromise`: `Balance` refines `Selection`. For each caller,
  `Filtering`, `Offering` and `Scanning` say that whatever it has left out or
  passed over was seen down since it began, and its candidates seen up; the scan
  reads every place of its list (`Turns`), so giving up means that all were seen
  down;
* `LeastIsChosen`: `LeastLoaded`. `Comparing` says that while nothing changes the
  candidates have the least load of the places read so far;
* `RotationIsEven`: `RotatesEvenly`. `Rotating` is a second inductive invariant,
  relative to `IInv`: since the last disturbance the counter gave out a range of
  numbers, each backend was chosen, or is about to be by a caller that holds its
  slot, as often as the range holds numbers of its remainder (`Drawn`), and each
  choice counted that is not in it has yet to draw. `Window` says that a range
  of consecutive numbers gives two remainders the same share up to one; a range
  that wraps is two of these. It assumes that no more calls are counted than the
  counter has values (`MaxCalls <= CounterWrap`: 2^64 calls are never made).

`ResponseCacheProofs` proves `Consistent`, `Bounded`, `NewestStays`,
`LeastRecentGoes` and `KeepsContract` for any keys, sizes, bounds and setters.
In `IInv`, `Agree` says that the list has no key twice and that its order is that
of use, and `CallSound` what a `Set` has done at each of its steps: while it
evicts, its key is the first of the list, and since one response fits by
itself, the list has another entry whenever a bound is exceeded. The byte count
is the cardinality of the set of bytes stored (`Contents`), so that adding and
removing an entry are lemmas about finite sets. `KeepsContract` maps every step to
one of `CacheContract`: an eviction is a `Drop`, the insertion a `Put`.

`CacheCaptureProofs` proves `BudgetExact` and `WholeBodiesCommitted` for any finite
set of bodies. `Captured` says that of a body still being captured no byte is lost
or taken twice, `Placed` what each place of `Read` and `Close` knows, in particular
that the swap adds only what was compared. That the budget never becomes negative
follows from what it counts (`Held`). The lemma `LifetimeType` shows that whatever
the policy makes of an exchange is a duration and not negative.

Three more theorems are about the policy, for every request and response, with any
number of Cache-Control fields of any length:

* `CapturedByJudgement`: whatever is captured, and however long it may be kept, is
  what the policy made of the exchange it came from;
* `CachedIsShareable`: `OnlyShareable`;
* `LifetimeIsClaimed`: `WithinFreshness`.

`OnlyShareable` reads Cache-Control by the grammar of the field, the code by an
automaton that splits it at commas outside of quotes, escapes included. `SplitAgrees`
says that both find the same directives. Its loop invariant is `Follows`: after n
words the automaton is in the mode of the grammar there, the part it has open is the
one the grammar has open, and the parts it has closed hold the same directives
(`Agree`); `FollowsStep` has a case for each kind of word. `StorableShareable`,
`FreshAtLeast` and `JudgedWell` carry this to the verdict and the lifetime.

The automaton is a fold over a sequence, a recursive definition whose value at every
place is needed. `Upwards` is induction over the natural numbers with a set in
place of the predicate, so that it can be instantiated: what contains 0 and with n
also n + 1 contains every number. `FoldExists` shows by it that the function which
the library's fold defines exists, and `FoldRounds` that the fold is the last of a
sequence of rounds. Of the values all that is assumed is that each reads as one number
or as none (`Words`), and of the headers that they are among those the policy asks for.

`GateProofs` proves `AdmissionsStayBounded`, `WaitingPaysOff` and `RefusalsAreEarned`
for any finite, nonempty set of identities, any limit, window, second and table. A
bucket is backed by admissions since its start (`Backed`); as long as no admitted
caller was overtaken by the clock it counts all of them, and at most the limit
fell into the window before (`Exact`), also when there is no bucket any more
(`Clear`): any window is covered by the one of the bucket and the one before it.
`CallSound` carries what a refused caller was told to the moment it comes back.

Four more theorems are about what is decided before the limiter is asked, for every
table, request and chain of addresses:

* `AskedOfTable` (`AskedSound`): a caller counts under the identity of its request,
  on the route the table in force then gave it;
* `MostSpecificIsTaken`: `MostSpecificRoute`. The loop invariant is `BestOf`: the best
  so far fits, and no route before fits and is more specific (`BestOfStep`).
  `MatchUnfolds` gives the rounds of the loop, `MatchIsBest` its result;
* `AcceptedIsReachable`: `RoutesReachable`. Validation refuses a route that an earlier
  one hides, so each accepted route serves a request that a handler may get, but for
  the five cases of `Forsaken`;
* `CountedUnderOwnAddress`: `CountedAsAppended`. `ForeignIsLast` says that the walk over
  a chain that ends with an address no proxy has stops there, `ClaimsIgnored` that
  nothing the client wrote before it is read.

The loops are folds here, too, with their own `Upwards` and `FoldExists`.

`ReloadProofs` proves `ReloadsSwitchTogether` and `ReloadsInheritEligibility` for any
configurations and listeners. `IInv` says for each place of the loop what has been
switched: `Placed`, `Configured`, `GaugesFollow`, `Certified`, `Retired` (which
checkers are canceled). `Accounted` bounds the snapshots by the signals and
`Inheriting` says what of the old snapshot was copied so far.

Each module names its assumptions in an `ASSUME`: what validation guarantees of
the configuration, that the bounds of the model (`MaxTime`, `MaxEdits` and the
like) are natural numbers, and, where something is counted, that the callers,
bodies and identities are finitely many. TLC evaluates them in every run.

Only model-checked:

* liveness: it needs fairness, and `ENABLED` is beyond the prover;
* the four runs that show a violation.

## 5. What is not modelled

* The publication of the active gauge: two more steps at each end of every
  assignment. `ActiveMatchesAssigned` covers the counter it shows.
* Two snapshots that serve at once: each has its own slots, limiters and cache,
  so a reload admits up to twice the limits for a while. Nothing in the
  repository bounds the sum, and there is no property to state.
* `cache.Key`: an opaque key of method, host and target.
* Admin endpoints, logging, the observer fan-out, metrics text and the load
  tool: they read or format and change nothing the other parts depend on.
* Parsing the configuration, and the parts of its validation that are bounds on
  single values: they are the ASSUMEs of the other modules.
  `config.Store` is used by no program here.
* Letter case, the syntax of addresses, white space other than around hosts.
* Sizes of headers and of the request line: a prefix or a required header that
  net/http refuses for its length is not among the cases of `Forsaken`.
* The probes of the health checker use the transport of their pool and leave idle
  connections of their own there; `idle` in `Handler` is about those of requests.
  `IdleConnTimeout` closes either.
* `Ready`: a scan over eligibility that nothing in the process acts on.
* HTTP itself: headers, forwarding headers, body contents, HTTP/2.

## 6. Plan

Built so far, in this order, the most important first: the request life with its
proofs; health; selection and balancers; cache; capture; reload; routing and
the rate limiter in one gate; then the cache policy, the servers with their
proofs, and the validation of routes; then the proofs of the other components.

What is left to model is small or out of reach (section 5). Every safety property
of a run that passes is proved (section 4).

To prove:

* Slots and places: an abstract counting semaphore that `Handler` and `Server`
  both refine.
