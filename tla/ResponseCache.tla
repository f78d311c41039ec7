---------------------------- MODULE ResponseCache ----------------------------
(***************************************************************************)
(* The bounded least-recently-used response cache (internal/cache).  Get   *)
(* runs under the mutex.  Set stamps and measures the response before it   *)
(* takes the mutex, and holds it over the insertion and the eviction loop, *)
(* one iteration of which is a step here.                                  *)
(***************************************************************************)
EXTENDS Naturals, Sequences, FiniteSets, FiniteSetsExt, SequencesExt

CONSTANTS
    Keys,
    Responses,       \* what is cached; a response stands for its bytes
    SizeOf,          \* [Responses -> Nat]: responseSize
    Setters,         \* goroutines that store a response
    MaxEntries, MaxBytes,    \* cache.max_entries, cache.max_bytes
    TTLs,            \* lifetimes Evaluate may return
    MaxTime,         \* bound on the clock
    Miss, NoAnswer, Nobody

\* Validation requires both cache bounds to be positive.
ASSUME CacheAssumption ==
    /\ SizeOf \in [Responses -> Nat \ {0}]
    /\ MaxEntries \in Nat \ {0}
    /\ MaxBytes \in Nat \ {0}
    /\ TTLs \subseteq Nat
    /\ MaxTime \in Nat
    /\ Nobody \notin Setters
    /\ Miss \notin Responses

VARIABLES
    now,             \* Cache.now
    items,           \* Cache.items: a function on the keys present
    lru,             \* Cache.lru, most recently used first
    bytes,           \* Cache.bytes
    lock,            \* who holds Cache.mu, or Nobody
    setter,          \* each goroutine's call of Set
    served,          \* the answer of the last Get
    usedAfter        \* history: <<a, b>> when a was used after b last was

store == <<items, lru, bytes>>
vars == <<now, store, lock, setter, served, usedAfter>>

Entry == [response : Responses, expiresAt : Nat]
Call == [at : {"idle", "stamped", "evict"}, key : Keys \union {Nobody},
         response : Responses \union {Miss}, ttl : TTLs \union {0}]
NoCall == [at |-> "idle", key |-> Nobody, response |-> Miss, ttl |-> 0]

\* The types; in particular bytes never goes below zero, and the list is never
\* more than the element Set has just pushed over max_entries.
TypeOK ==
    /\ now \in 0..MaxTime
    /\ DOMAIN items \subseteq Keys
    /\ \A k \in DOMAIN items : items[k] \in Entry
    /\ lru \in BoundedSeq(Keys, MaxEntries + 1)
    /\ bytes \in Nat
    /\ lock \in Setters \union {Nobody}
    /\ setter \in [Setters -> Call]
    /\ served \in Responses \union {Miss, NoAnswer}
    /\ usedAfter \subseteq Keys \X Keys

Init ==
    /\ now = 0
    /\ items = <<>>
    /\ lru = <<>>
    /\ bytes = 0
    /\ lock = Nobody
    /\ setter = [s \in Setters |-> NoCall]
    /\ served = NoAnswer
    /\ usedAfter = {}

Size(k) == SizeOf[items[k].response]
Used(k) == {p \in usedAfter : p[2] # k} \union {<<k, x>> : x \in Keys \ {k}}

-----------------------------------------------------------------------------
(* Plausible slips, for the mutation checks.                               *)
KeepPlace(k) == lru
ForgetSize(k) == bytes
FitsAnything(r) == TRUE
ServeAtExpiry(k) == now <= items[k].expiresAt
EntriesOnly == Cardinality(DOMAIN items) > MaxEntries

-----------------------------------------------------------------------------
\* remove, of a key that is present.
BytesWithout(k) == bytes - Size(k)
ItemsWithout(k) == [x \in DOMAIN items \ {k} |-> items[x]]
Place(k) == CHOOSE i \in DOMAIN lru : lru[i] = k
ListWithout(k) == RemoveAt(lru, Place(k))

RemoveElement(k) ==
    /\ items' = ItemsWithout(k)
    /\ lru' = ListWithout(k)
    /\ bytes' = BytesWithout(k)

MoveToFront(k) == <<k>> \o ListWithout(k)

\* c.now().Before(entry.expiresAt)
Fresh(k) == now < items[k].expiresAt

GetAbsent(k) ==
    /\ lock = Nobody
    /\ k \notin DOMAIN items
    /\ served' = Miss
    /\ UNCHANGED <<now, store, lock, setter, usedAfter>>

GetExpired(k) ==
    /\ lock = Nobody
    /\ k \in DOMAIN items /\ ~Fresh(k)
    /\ RemoveElement(k)
    /\ served' = Miss
    /\ UNCHANGED <<now, lock, setter, usedAfter>>

GetFresh(k) ==
    /\ lock = Nobody
    /\ k \in DOMAIN items /\ Fresh(k)
    /\ lru' = MoveToFront(k)
    /\ served' = items[k].response
    /\ usedAfter' = Used(k)
    /\ UNCHANGED <<now, items, bytes, lock, setter>>

Fits(r) == SizeOf[r] <= MaxBytes

\* Set up to the mutex: a lifetime that is not positive or a response larger
\* than the cache ends it.
Stamp(s, k, r, ttl) ==
    /\ setter[s].at = "idle"
    /\ ttl > 0
    /\ Fits(r)
    /\ setter' = [setter EXCEPT ![s] =
                    [at |-> "stamped", key |-> k, response |-> r, ttl |-> ttl]]
    /\ UNCHANGED <<now, store, lock, served, usedAfter>>

\* Set with the mutex: replace an older entry of the key, insert at the front.
Insert(s) ==
    LET k == setter[s].key
        r == setter[s].response
        old == k \in DOMAIN items
        entry == [response |-> r, expiresAt |-> now + setter[s].ttl]
    IN /\ setter[s].at = "stamped"
       /\ lock = Nobody
       /\ lock' = s
       /\ items' = [x \in DOMAIN items \union {k} |-> IF x = k THEN entry ELSE items[x]]
       /\ lru' = IF old THEN MoveToFront(k) ELSE <<k>> \o lru
       /\ bytes' = (IF old THEN BytesWithout(k) ELSE bytes) + SizeOf[r]
       /\ setter' = [setter EXCEPT ![s].at = "evict"]
       /\ usedAfter' = Used(k)
       /\ UNCHANGED <<now, served>>

\* The condition of the eviction loop.
Over == Cardinality(DOMAIN items) > MaxEntries \/ bytes > MaxBytes
Victim == Last(lru)

\* One iteration; remove(nil) of an empty list would change nothing.
Evict(s) ==
    /\ setter[s].at = "evict"
    /\ Over
    /\ IF lru = <<>> THEN UNCHANGED store ELSE RemoveElement(Victim)
    /\ UNCHANGED <<now, lock, setter, served, usedAfter>>

Return(s) ==
    /\ setter[s].at = "evict"
    /\ ~Over
    /\ lock' = Nobody
    /\ setter' = [setter EXCEPT ![s] = NoCall]
    /\ UNCHANGED <<now, store, served, usedAfter>>

Tick ==
    /\ now < MaxTime
    /\ now' = now + 1
    /\ UNCHANGED <<store, lock, setter, served, usedAfter>>

Set(s) == Insert(s) \/ Evict(s) \/ Return(s)

Next ==
    \/ \E k \in Keys : GetAbsent(k) \/ GetExpired(k) \/ GetFresh(k)
    \/ \E s \in Setters :
         \/ \E k \in Keys, r \in Responses, ttl \in TTLs : Stamp(s, k, r, ttl)
         \/ Set(s)
    \/ Tick

\* sync.Mutex hands the lock to a waiter it starves, so a blocked Set gets it.
Spec == Init /\ [][Next]_vars /\ \A s \in Setters : SF_vars(Set(s))

-----------------------------------------------------------------------------
(* Properties                                                              *)

\* The bytes of the responses in a map of entries.
Contents(stored) ==
    UNION {{k} \X (1..SizeOf[stored[k].response]) : k \in DOMAIN stored}

\* The map, the recency list and the byte count describe the same entries,
\* also in the middle of an eviction: otherwise the loop in Set would never
\* end, with the mutex held, or the bound would drift.
StoreAgrees ==
    /\ TypeOK
    /\ ToSet(lru) = DOMAIN items
    /\ Len(lru) = Cardinality(DOMAIN items)
    /\ bytes = Cardinality(Contents(items))

\* Whoever gets the mutex finds the cache within both bounds.
WithinBounds ==
    lock = Nobody => Cardinality(DOMAIN items) <= MaxEntries /\ bytes <= MaxBytes

\* An eviction takes the entry that was stored or served longest ago.
EvictsLeastRecent ==
    [][\A k \in DOMAIN items :
         lock # Nobody /\ k \notin DOMAIN items'
         => \A x \in DOMAIN items' : <<x, k>> \in usedAfter]_vars

\* The eviction loop never removes the entry Set has just inserted.
SetKeepsNew ==
    \A s \in Setters : setter[s].at = "evict" => setter[s].key \in DOMAIN items

Contract == INSTANCE CacheContract WITH
    content <- [k \in Keys |-> IF k \in DOMAIN items THEN items[k].response ELSE Miss],
    expiry <- [k \in Keys |-> IF k \in DOMAIN items THEN items[k].expiresAt ELSE 0]

\* Nothing expired and nothing replaced is ever served.
ImplementsContract == Contract!Spec

\* A Set that began returns.
SetReturns == \A s \in Setters : setter[s].at # "idle" ~> setter[s].at = "idle"
=============================================================================
