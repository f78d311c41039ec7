------------------------------- MODULE Balance -------------------------------
(***************************************************************************)
(* The balancing strategies (internal/balance) and the choice of a retry   *)
(* backend (nextRetryBackend in internal/proxy/handler.go), step by step:  *)
(* every Alive() and Active() is a separate atomic read, the rotation      *)
(* counter is shared, and neither is protected by a lock, so other callers *)
(* and health changes interleave anywhere in a scan.                       *)
(***************************************************************************)
EXTENDS Naturals, Sequences, FiniteSets, SequencesExt

CONSTANTS
    Pool,            \* the backends of the pool in configuration order
    Callers, None, NoHealthy,
    CounterWrap,     \* the uint64 rotation counter wraps here instead of 2^64
    MaxActive,       \* bound on the load of a backend
    MaxCalls,        \* bound on the number of choices made while calm
    MaxChanges       \* bound on the number of health and load changes

Backends == ToSet(Pool)

\* Validation rejects an empty pool and repeated backend names.  There are never as
\* many calls as the counter has values.
ASSUME PoolAssumption ==
    /\ Pool \in Seq(Backends) /\ Pool # <<>>
    /\ Cardinality(Backends) = Len(Pool)
    /\ None \notin Backends /\ NoHealthy \notin Backends
    /\ IsFiniteSet(Callers)
    /\ CounterWrap \in Nat \ {0} /\ MaxCalls \in Nat /\ MaxCalls <= CounterWrap
    /\ MaxActive \in Nat /\ MaxChanges \in Nat

Strategies == {"round_robin", "least_connections"}

VARIABLES
    strategy,        \* of the routes that share the pool; never changes
    alive,           \* the backends eligible for traffic
    active,          \* the load of each backend
    counter,         \* RoundRobin.next or LeastConnections.tie
    call,            \* the local state of each caller's choice
    answer,          \* the last choice of each caller, None while choosing
    up, down,        \* history: see Selection
    calm,            \* history: no health or load change and no retry yet
    picks,           \* history: how often each backend was chosen while calm
    calls,           \* history: choices begun while calm
    changes          \* the number of changes made, for MaxChanges

history == <<up, down, calm, picks, calls, changes>>
vars == <<strategy, alive, active, counter, call, answer, history>>

Call == [pc : {"idle", "filter", "ticket", "scan", "load"},
         attempted : Backends \union {None},
         offered : Seq(Backends),
         pos : 0..Len(Pool),
         start : 0..Len(Pool) - 1,
         minimum : 0..MaxActive,
         candidates : Seq(Backends)]

Idle == [pc |-> "idle", attempted |-> None, offered |-> <<>>, pos |-> 0,
         start |-> 0, minimum |-> 0, candidates |-> <<>>]

\* The types; in particular the slot Next starts from is a place in the pool, and
\* no list it builds is longer than the pool.
TypeOK ==
    /\ strategy \in Strategies
    /\ alive \subseteq Backends
    /\ active \in [Backends -> 0..MaxActive]
    /\ counter \in 0..CounterWrap - 1
    /\ call \in [Callers -> Call]
    /\ \A c \in Callers : /\ Len(call[c].offered) <= Len(Pool)
                         /\ Len(call[c].candidates) <= Len(Pool)
    /\ answer \in [Callers -> Backends \union {None, NoHealthy}]
    /\ up \in [Callers -> SUBSET Backends]
    /\ down \in [Callers -> SUBSET Backends]
    /\ calm \in BOOLEAN
    /\ picks \in [Backends -> 0..MaxCalls]
    /\ calls \in 0..MaxCalls
    /\ changes \in 0..MaxChanges

NoPicks == [b \in Backends |-> 0]

Init ==
    /\ strategy \in Strategies
    /\ alive \in SUBSET Backends
    /\ active \in [Backends -> 0..MaxActive]
    /\ counter \in 0..CounterWrap - 1
    /\ call = [c \in Callers |-> Idle]
    /\ answer = [c \in Callers |-> None]
    /\ up = [c \in Callers |-> {}]
    /\ down = [c \in Callers |-> {}]
    /\ calm = TRUE
    /\ picks = NoPicks
    /\ calls = 0
    /\ changes = 0

Choosing(c) == call[c].pc # "idle"

-----------------------------------------------------------------------------
(* Plausible slips, for the mutation checks.                               *)
AlwaysFirst(n) == 0
AnyAlive(c, b) == b \in alive
RestartCandidates(c, b) ==
    IF active[b] < call[c].minimum THEN <<b>> ELSE Append(call[c].candidates, b)

-----------------------------------------------------------------------------
\* (counter.Add(1) - 1) % n, the slot this caller has drawn.
Slot(n) == counter % n
Draw == counter' = (counter + 1) % CounterWrap

\* Rotation is only judged while nothing has disturbed it.
Disturb == calm' = FALSE /\ picks' = NoPicks /\ calls' = 0

\* Next and nextRetryBackend begin: nothing has been read yet.
Begin(c, avoid) ==
    /\ ~Choosing(c)
    /\ calm => calls < MaxCalls
    /\ call' = [call EXCEPT ![c] =
                  IF avoid # None
                  THEN [Idle EXCEPT !.pc = "filter", !.attempted = avoid]
                  ELSE [Idle EXCEPT !.pc = "ticket", !.offered = Pool]]
    /\ up' = [up EXCEPT ![c] = alive]
    /\ down' = [down EXCEPT ![c] = Backends \ alive]
    /\ answer' = [answer EXCEPT ![c] = None]
    /\ IF calm /\ avoid = None
       THEN calls' = calls + 1 /\ UNCHANGED <<calm, picks>>
       ELSE Disturb
    /\ UNCHANGED <<strategy, alive, active, counter, changes>>

\* An alternative: another backend, and alive when read.
Alternative(c, b) == b # call[c].attempted /\ b \in alive

\* nextRetryBackend: one turn of the loop that collects the alternatives.
Filter(c) ==
    LET b == Pool[call[c].pos + 1] IN
    /\ call[c].pc = "filter"
    /\ call[c].pos < Len(Pool)
    /\ call' = [call EXCEPT
                  ![c].offered = IF Alternative(c, b) THEN Append(@, b) ELSE @,
                  ![c].pos = @ + 1]
    /\ UNCHANGED <<strategy, alive, active, counter, answer, history>>

\* With no alternative, a retry is offered every backend of the pool.
Filtered(c) ==
    /\ call[c].pc = "filter"
    /\ call[c].pos = Len(Pool)
    /\ call' = [call EXCEPT
                  ![c].offered = IF @ = <<>> THEN Pool ELSE @,
                  ![c].pos = 0, ![c].pc = "ticket"]
    /\ UNCHANGED <<strategy, alive, active, counter, answer, history>>

\* RoundRobin draws its slot before the scan, LeastConnections after it.
Enter(c) ==
    /\ call[c].pc = "ticket"
    /\ IF strategy = "round_robin"
       THEN /\ Draw
            /\ call' = [call EXCEPT ![c].pc = "scan",
                                    ![c].start = Slot(Len(call[c].offered))]
       ELSE /\ call' = [call EXCEPT ![c].pc = "scan"]
            /\ UNCHANGED counter
    /\ UNCHANGED <<strategy, alive, active, answer, history>>

Scanned(c) == call[c].pos = Len(call[c].offered)

\* The backend the scan is at: start is 0 for LeastConnections.
At(c) ==
    LET n == Len(call[c].offered)
    IN call[c].offered[((call[c].start + call[c].pos) % n) + 1]

Answer(c, result) ==
    /\ answer' = [answer EXCEPT ![c] = result]
    /\ call' = [call EXCEPT ![c] = Idle]
    /\ up' = [up EXCEPT ![c] = {}]
    /\ down' = [down EXCEPT ![c] = {}]
    /\ picks' = IF calm /\ result \in Backends
                THEN [picks EXCEPT ![result] = @ + 1] ELSE picks
    /\ UNCHANGED <<strategy, alive, active, calm, calls, changes>>

SkipDead(c) ==
    /\ call[c].pc = "scan" /\ ~Scanned(c)
    /\ At(c) \notin alive
    /\ call' = [call EXCEPT ![c].pos = @ + 1]
    /\ UNCHANGED <<strategy, alive, active, counter, answer, history>>

\* RoundRobin: the first backend seen alive is the choice.
TakeFirst(c) ==
    /\ strategy = "round_robin"
    /\ call[c].pc = "scan" /\ ~Scanned(c)
    /\ At(c) \in alive
    /\ Answer(c, At(c))
    /\ UNCHANGED counter

\* LeastConnections: the backend is alive; its load is read next.
SeeAlive(c) ==
    /\ strategy = "least_connections"
    /\ call[c].pc = "scan" /\ ~Scanned(c)
    /\ At(c) \in alive
    /\ call' = [call EXCEPT ![c].pc = "load"]
    /\ UNCHANGED <<strategy, alive, active, counter, answer, history>>

\* The candidates once the load of b has been read.
Compare(c, b) ==
    LET old == call[c].candidates IN
    IF old = <<>> \/ active[b] < call[c].minimum THEN <<b>>
    ELSE IF active[b] = call[c].minimum THEN Append(old, b)
    ELSE old

ReadLoad(c) ==
    LET b == At(c)
        now == Compare(c, b)
    IN /\ call[c].pc = "load"
       /\ call' = [call EXCEPT
                     ![c].candidates = now,
                     ![c].minimum = IF now = <<b>> THEN active[b] ELSE @,
                     ![c].pos = @ + 1, ![c].pc = "scan"]
       /\ UNCHANGED <<strategy, alive, active, counter, answer, history>>

\* LeastConnections: rotate among the candidates of equal load.
TakeLeast(c) ==
    LET tied == call[c].candidates IN
    /\ call[c].pc = "scan" /\ Scanned(c)
    /\ tied # <<>>
    /\ Draw
    /\ Answer(c, tied[Slot(Len(tied)) + 1])

GiveUp(c) ==
    /\ call[c].pc = "scan" /\ Scanned(c)
    /\ call[c].candidates = <<>>
    /\ Answer(c, NoHealthy)
    /\ UNCHANGED counter

\* Probes and passive failures.
HealthChange(b) ==
    LET now == IF b \in alive THEN alive \ {b} ELSE alive \union {b} IN
    /\ changes < MaxChanges
    /\ changes' = changes + 1
    /\ alive' = now
    /\ up' = [c \in Callers |-> IF Choosing(c) THEN up[c] \union now ELSE {}]
    /\ down' = [c \in Callers |->
                  IF Choosing(c) THEN down[c] \union (Backends \ now) ELSE {}]
    /\ Disturb
    /\ UNCHANGED <<strategy, active, counter, call, answer>>

\* Requests are assigned and released by Handler.
LoadChange(b) ==
    /\ changes < MaxChanges
    /\ changes' = changes + 1
    /\ \E n \in {active[b] - 1, active[b] + 1} \intersect 0..MaxActive :
         active' = [active EXCEPT ![b] = n]
    /\ Disturb
    /\ UNCHANGED <<strategy, alive, counter, call, answer, up, down>>

Choose(c) ==
    \/ Filter(c) \/ Filtered(c) \/ Enter(c)
    \/ SkipDead(c) \/ TakeFirst(c)
    \/ SeeAlive(c) \/ ReadLoad(c) \/ TakeLeast(c)
    \/ GiveUp(c)

Next ==
    \/ \E c \in Callers :
         \/ \E avoid \in Backends \union {None} : Begin(c, avoid)
         \/ Choose(c)
    \/ \E b \in Backends : HealthChange(b) \/ LoadChange(b)

Spec == Init /\ [][Next]_vars

-----------------------------------------------------------------------------
(* Properties                                                              *)

Selecting == INSTANCE Selection WITH
    choosing <- {c \in Callers : Choosing(c)},
    attempted <- [c \in Callers |-> call[c].attempted]

\* Both strategies, and the choice of a retry backend on top of them, keep the
\* promise of Selection however health changes between their reads.
ImplementsSelection == Selecting!Spec

\* LeastConnections: while no health and no load changes, a choice has the
\* least load of all the backends alive, also when others choose meanwhile.
LeastLoaded ==
    [][\A c \in Callers :
         calm /\ strategy = "least_connections" /\ Choosing(c) /\ ~Choosing(c)'
              /\ answer'[c] # NoHealthy
         => \A b \in alive : active[answer'[c]] <= active[b]]_vars

\* The shared counter was drawn past its wrap since the system started.
Wrapped == counter < calls

\* Among backends that stay alive and equally loaded, concurrent callers are
\* spread evenly: the counts differ by at most one, or by two once the counter
\* has wrapped, because 2^64 is not a multiple of every pool size.
RotatesEvenly ==
    /\ TypeOK
    /\ calm /\ alive = Backends
         /\ (\A c \in Callers : ~Choosing(c))
         /\ (\A a, b \in Backends : active[a] = active[b])
       => \A a, b \in Backends :
            picks[a] <= picks[b] + (IF Wrapped THEN 2 ELSE 1)
=============================================================================
