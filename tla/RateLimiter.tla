----------------------------- MODULE RateLimiter -----------------------------
(***************************************************************************)
(* The rate limiter of one route (internal/proxy/ratelimit.go), called by  *)
(* concurrent requests.  Allow reads the clock before it takes the mutex,  *)
(* so a caller may decide with a time that is long past: the clock, other  *)
(* decisions, and the pruning done for other clients come in between.      *)
(***************************************************************************)
EXTENDS Naturals, FiniteSets

CONSTANTS
    Callers,         \* concurrent requests of the route
    Keys,            \* the client identities
    Limit,           \* rate_limit.requests
    Window,          \* rate_limit.window
    MaxKeys,         \* rate_limit.max_keys
    Second,          \* a second: what a client is told is rounded up to it
    MaxTime          \* bound on the clock

\* What config.Validate asks of a limit that is enabled; the identities are the
\* normal forms of addresses.
ASSUME RateLimiterAssumption ==
    /\ IsFiniteSet(Keys) /\ Keys # {}
    /\ Limit \in Nat \ {0} /\ Window \in Nat \ {0} /\ MaxKeys \in Nat \ {0}
    /\ Second \in Nat \ {0} /\ MaxTime \in Nat

VARIABLES
    clock,           \* time.Now
    buckets,         \* rateLimiter.buckets
    caller,          \* the call of each request: its key, the time it read,
                     \* and its outcome
    decided,         \* history: admissions of each key, by the time of decision
    overtaken        \* history: the clock moved while an admitted caller waited

vars == <<clock, buckets, caller, decided, overtaken>>

Time == 0..MaxTime
Bucket == [start : Time, count : 1..Limit]
Call == [key : Keys, now : Time, wait : Nat,
         outcome : {"idle", "locking", "allowed", "limited", "full"}]
\* A request that has not called the limiter.
NoCall == [key |-> CHOOSE k \in Keys : TRUE, now |-> 0, wait |-> 0, outcome |-> "idle"]

\* The types; in particular the bucket table never exceeds max_keys, and Allow
\* counts no bucket past its limit.
TypeOK ==
    /\ clock \in Time
    /\ DOMAIN buckets \subseteq Keys /\ Cardinality(DOMAIN buckets) <= MaxKeys
    /\ \A k \in DOMAIN buckets : buckets[k] \in Bucket
    /\ caller \in [Callers -> Call]
    /\ decided \in [Keys -> [Time -> Nat]]
    /\ overtaken \in BOOLEAN

Init ==
    /\ clock = 0
    /\ buckets = <<>>
    /\ caller = [c \in Callers |-> NoCall]
    /\ decided = [k \in Keys |-> [t \in Time |-> 0]]
    /\ overtaken = FALSE

-----------------------------------------------------------------------------
(* Plausible slips, for the mutation checks.                               *)
KeepEverything(now) == {}
KeepStart(c) == [start |-> buckets[caller[c].key].start, count |-> 1]
RoundDown(d) == d \div Second

-----------------------------------------------------------------------------

\* now.Sub(bucket.start) >= window; the difference is negative for a caller
\* that read the clock before the bucket was started.
Expired(k, now) == now >= buckets[k].start + Window

Exhausted(k) == buckets[k].count >= Limit

\* What pruneExpired deletes.
Prunable(now) == {k \in DOMAIN buckets : Expired(k, now)}

\* The buckets that are left when the call of c finds no bucket of its own:
\* the table is pruned only when it is full.
Kept(c) ==
    IF Cardinality(DOMAIN buckets) >= MaxKeys
    THEN DOMAIN buckets \ Prunable(caller[c].now)
    ELSE DOMAIN buckets

\* retryAfterSeconds, of what Allow returns with a refusal.
RetryAfter(d) == IF d = 0 THEN 1 ELSE (d + Second - 1) \div Second

Tick ==
    /\ clock < MaxTime
    /\ clock' = clock + 1
    /\ UNCHANGED <<buckets, caller, decided, overtaken>>

\* A request of client k reaches Allow and reads the clock.
Begin(c, k) ==
    /\ caller[c].outcome # "locking"
    /\ caller' = [caller EXCEPT ![c] =
                    [key |-> k, now |-> clock, wait |-> 0, outcome |-> "locking"]]
    /\ UNCHANGED <<clock, buckets, decided, overtaken>>

\* The rest of Allow holds the mutex: one step, of four outcomes.
Deciding(c) == caller[c].outcome = "locking"

\* The bucket that replaces one whose window has ended.
Renewed(c) == [start |-> caller[c].now, count |-> 1]

Admit(c, kept, bucket) ==
    LET k == caller[c].key IN
    /\ buckets' = [x \in kept \union {k} |-> IF x = k THEN bucket ELSE buckets[x]]
    /\ caller' = [caller EXCEPT ![c].outcome = "allowed"]
    /\ decided' = [decided EXCEPT ![k][clock] = @ + 1]
    /\ overtaken' = (overtaken \/ caller[c].now < clock)
    /\ UNCHANGED clock

Refuse(c, kept, outcome, wait) ==
    /\ buckets' = [x \in kept |-> buckets[x]]
    /\ caller' = [caller EXCEPT ![c].outcome = outcome, ![c].wait = RetryAfter(wait)]
    /\ UNCHANGED <<clock, decided, overtaken>>

\* The window of the key has not ended: one more, or 429.
CountIn(c) ==
    LET k == caller[c].key IN
    /\ Deciding(c)
    /\ k \in DOMAIN buckets /\ ~Expired(k, caller[c].now)
    /\ IF Exhausted(k)
       THEN Refuse(c, DOMAIN buckets, "limited", buckets[k].start + Window - caller[c].now)
       ELSE Admit(c, DOMAIN buckets, [buckets[k] EXCEPT !.count = @ + 1])

\* The window has ended: the bucket is replaced.
StartAgain(c) ==
    /\ Deciding(c)
    /\ caller[c].key \in DOMAIN buckets /\ Expired(caller[c].key, caller[c].now)
    /\ Admit(c, DOMAIN buckets, Renewed(c))

\* A key without a bucket, for which there is room or not.
Track(c) ==
    /\ Deciding(c)
    /\ caller[c].key \notin DOMAIN buckets
    /\ IF Cardinality(Kept(c)) >= MaxKeys
       THEN Refuse(c, Kept(c), "full", Second)
       ELSE Admit(c, Kept(c), [start |-> caller[c].now, count |-> 1])

Decide(c) == CountIn(c) \/ StartAgain(c) \/ Track(c)

Next ==
    \/ Tick
    \/ \E c \in Callers : (\E k \in Keys : Begin(c, k)) \/ Decide(c)

Spec == Init /\ [][Next]_vars

-----------------------------------------------------------------------------
(* Properties                                                              *)

\* How many of k were admitted at the instants of a set: the admissions of an
\* instant are told apart by their number.
Admissions(k, instants) ==
    UNION {{t} \X (1..decided[k][t]) : t \in instants \intersect Time}
Admitted(k, instants) == Cardinality(Admissions(k, instants))

\* The same since a window before the call of c.
Lately(c, k) == Admitted(k, {t \in Time : t + Window > caller[c].now})

\* No client is refused for what it or others did not do: one that is limited
\* has had its whole limit since a window before it called, and one that finds
\* the table full was kept out by MaxKeys clients admitted since then.
RefusalsEarned ==
    [][\A c \in Callers :
         /\ Deciding(c) /\ caller'[c].outcome = "limited" =>
               Lately(c, caller[c].key) >= Limit
         /\ Deciding(c) /\ caller'[c].outcome = "full" =>
               Cardinality({k \in Keys \ {caller[c].key} : Lately(c, k) > 0}) >= MaxKeys]_vars

\* A fixed window admits at most its limit twice in any period as long as the
\* window, whoever else makes the table overflow and be pruned, provided every
\* caller that was admitted took the mutex before the clock moved on.
AdmissionsBounded ==
    /\ TypeOK
    /\ ~overtaken =>
        \A k \in Keys, t \in Time :
            Admitted(k, t..(t + Window - 1)) <= 2 * Limit

\* A client that waits as long as its Retry-After says does not run into the
\* window that refused it again: if its key is still limited, then because
\* somebody of that key was admitted in the meantime.
PatienceRewarded ==
    \A c \in Callers :
        LET call == caller[c] IN
        /\ call.outcome = "limited"
        /\ clock >= call.now + call.wait * Second
        /\ call.key \in DOMAIN buckets /\ ~Expired(call.key, clock)
        => Admitted(call.key, (call.now + 1)..clock) > 0
=============================================================================
