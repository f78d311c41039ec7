---------------------------- MODULE CacheContract ----------------------------
(***************************************************************************)
(* What the response cache promises its callers: a store that may forget   *)
(* anything at any time, but never serves a response after it expired, nor *)
(* one that a completed Set replaced.                                      *)
(***************************************************************************)
EXTENDS Naturals

CONSTANTS Keys, Responses, TTLs, Miss, NoAnswer

VARIABLES
    now,         \* the clock
    content,     \* the response stored under each key, or Miss
    expiry,      \* until when it may be served
    served       \* the answer of the last Get

vars == <<now, content, expiry, served>>

Init ==
    /\ now = 0
    /\ content = [k \in Keys |-> Miss]
    /\ expiry = [k \in Keys |-> 0]
    /\ served = NoAnswer

Fresh(k) == now < expiry[k]

Forget(lost) ==
    /\ content' = [k \in Keys |-> IF k \in lost THEN Miss ELSE content[k]]
    /\ expiry' = [k \in Keys |-> IF k \in lost THEN 0 ELSE expiry[k]]

Tick == now' = now + 1 /\ UNCHANGED <<content, expiry, served>>

Put(k, r, ttl) ==
    /\ ttl > 0
    /\ content' = [content EXCEPT ![k] = r]
    /\ expiry' = [expiry EXCEPT ![k] = now + ttl]
    /\ UNCHANGED <<now, served>>

Serve(k) ==
    /\ content[k] # Miss
    /\ Fresh(k)
    /\ served' = content[k]
    /\ UNCHANGED <<now, content, expiry>>

\* Get may also drop what it finds expired.
Fail(k) ==
    /\ ~Fresh(k)
    /\ served' = Miss
    /\ \E lost \in SUBSET {k} : Forget(lost)
    /\ UNCHANGED now

Drop == (\E lost \in SUBSET Keys : Forget(lost)) /\ UNCHANGED <<now, served>>

Next ==
    \/ Tick
    \/ Drop
    \/ \E k \in Keys :
         \/ \E r \in Responses, ttl \in TTLs : Put(k, r, ttl)
         \/ Serve(k)
         \/ Fail(k)

Spec == Init /\ [][Next]_vars
=============================================================================
