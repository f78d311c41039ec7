------------------------------ MODULE Selection ------------------------------
(***************************************************************************)
(* What choosing a backend promises, whatever the balancing strategy: the  *)
(* abstract specification of balance.Balancer.Next and of nextRetryBackend *)
(* (proxy/handler.go).  Health changes while a choice is being made, so    *)
(* the promise is about what was true at some instant of the choice, never *)
(* about one instant.                                                      *)
(***************************************************************************)
CONSTANTS
    Backends,
    Callers,         \* requests that choose concurrently
    None,            \* no backend: a first selection has nothing to avoid
    NoHealthy        \* balance.ErrNoHealthyBackend

VARIABLES
    alive,           \* the backends eligible for traffic
    choosing,        \* the callers in the middle of a choice
    attempted,       \* the backend a retry should avoid, or None
    up,              \* backends alive at some instant of the caller's choice
    down,            \* backends not alive at some instant of it
    answer           \* the last choice of each caller, None while it chooses

vars == <<alive, choosing, attempted, up, down, answer>>

Init ==
    /\ alive \in SUBSET Backends
    /\ choosing = {}
    /\ attempted = [c \in Callers |-> None]
    /\ up = [c \in Callers |-> {}]
    /\ down = [c \in Callers |-> {}]
    /\ answer = [c \in Callers |-> None]

\* What the callers in the middle of a choice have seen, and see now.
Watching(seen, now) ==
    [c \in Callers |-> IF c \in choosing THEN seen[c] \union now ELSE {}]

Begin(c, avoid) ==
    /\ c \notin choosing
    /\ choosing' = choosing \union {c}
    /\ attempted' = [attempted EXCEPT ![c] = avoid]
    /\ up' = [up EXCEPT ![c] = alive]
    /\ down' = [down EXCEPT ![c] = Backends \ alive]
    /\ answer' = [answer EXCEPT ![c] = None]
    /\ UNCHANGED alive

\* A retry falls back to the attempted backend only when every other one was
\* seen down.
MayPick(c, b) ==
    /\ b \in up[c]
    /\ b = attempted[c] => Backends \ {b} \subseteq down[c]

\* A choice fails only when every backend, the attempted one aside, was down.
MayFail(c) == Backends \ {attempted[c]} \subseteq down[c]

End(c, result) ==
    /\ c \in choosing
    /\ choosing' = choosing \ {c}
    /\ attempted' = [attempted EXCEPT ![c] = None]
    /\ up' = [up EXCEPT ![c] = {}]
    /\ down' = [down EXCEPT ![c] = {}]
    /\ answer' = [answer EXCEPT ![c] = result]
    /\ UNCHANGED alive

Pick(c, b) == MayPick(c, b) /\ End(c, b)
Fail(c) == MayFail(c) /\ End(c, NoHealthy)

\* Probes and passive failures change eligibility at any time.
HealthChange(now) ==
    /\ alive' = now
    /\ up' = Watching(up, now)
    /\ down' = Watching(down, Backends \ now)
    /\ UNCHANGED <<choosing, attempted, answer>>

Next ==
    \/ \E c \in Callers :
         \/ \E avoid \in Backends \union {None} : Begin(c, avoid)
         \/ \E b \in Backends : Pick(c, b)
         \/ Fail(c)
    \/ \E now \in SUBSET Backends : HealthChange(now)

Spec == Init /\ [][Next]_vars
=============================================================================
