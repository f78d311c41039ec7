------------------------------ MODULE GateProofs ------------------------------
(***************************************************************************)
(* Theorems about the gate: the rate limiter behind it, for any number of  *)
(* requests, clients, limits and windows, the choice of a route from any   *)
(* table, and the identity a request is counted under.                     *)
(***************************************************************************)
EXTENDS Gate, FiniteSetTheorems, WellFoundedInduction, TLAPS

-----------------------------------------------------------------------------
(* Counting admissions.                                                    *)

\* The admissions that a history of one client has at some instants.
Of(h, instants) == UNION {{t} \X (1..h[t]) : t \in instants \intersect Time}
How(h, instants) == Cardinality(Of(h, instants))

From(s) == {t \in Time : t >= s}
Before(s) == {t \in Time : t < s /\ t + Window > s}
Whole(h) == h \in [Time -> Nat] /\ IsFiniteSet(Of(h, Time))

LEMMA Division ==
    ASSUME NEW n \in Nat, NEW d \in Nat \ {0}
    PROVE  n \div d \in Nat /\ n % d \in 0..d - 1 /\ n = (n \div d) * d + (n % d)
<1>1. n \div d \in Nat  BY SMTT(30)
<1>2. n % d \in 0..d - 1  BY SMTT(30)
<1>3. n = d * (n \div d) + (n % d)  BY SMTT(30)
<1>4. d * (n \div d) = (n \div d) * d  BY <1>1
<1> QED  BY <1>1, <1>2, <1>3, <1>4

LEMMA NotLess == \A m, n \in Nat : m <= n /\ ~(m < n) => m = n
OBVIOUS

LEMMA ConstantsTyped ==
    /\ IsFiniteSet(Keys) /\ Keys # {}
    /\ Limit \in Nat /\ Limit > 0 /\ Window \in Nat /\ Window > 0
    /\ MaxKeys \in Nat /\ MaxKeys > 0 /\ Second \in Nat /\ Second > 0 /\ MaxTime \in Nat
    /\ \A t \in Time : t \in Nat
BY RateLimiterAssumption DEF Time

LEMMA HowTyped ==
    ASSUME NEW h, Whole(h), NEW I
    PROVE  IsFiniteSet(Of(h, I)) /\ How(h, I) \in Nat
<1>1. Of(h, I) \subseteq Of(h, Time)  BY DEF Of
<1>2. IsFiniteSet(Of(h, I))  BY <1>1, FS_Subset DEF Whole
<1> QED  BY <1>2, FS_CardinalityType DEF How

LEMMA HowSubset ==
    ASSUME NEW h, Whole(h), NEW I, NEW J, I \intersect Time \subseteq J
    PROVE  How(h, I) <= How(h, J)
<1>1. Of(h, I) \subseteq Of(h, J)  BY DEF Of
<1>2. IsFiniteSet(Of(h, J))  BY HowTyped
<1> QED  BY <1>1, <1>2, FS_Subset DEF How

LEMMA HowUnion ==
    ASSUME NEW h, Whole(h), NEW I, NEW J, NEW K, I \intersect Time \subseteq J \union K
    PROVE  How(h, I) <= How(h, J) + How(h, K)
<1>1. Of(h, I) \subseteq Of(h, J) \union Of(h, K)  BY DEF Of
<1>2. /\ IsFiniteSet(Of(h, J)) /\ IsFiniteSet(Of(h, K)) /\ How(h, I) \in Nat
      /\ How(h, J) \in Nat /\ How(h, K) \in Nat
  BY HowTyped
<1>3. /\ IsFiniteSet(Of(h, J) \union Of(h, K))
      /\ Cardinality(Of(h, J) \union Of(h, K)) =
           How(h, J) + How(h, K) - Cardinality(Of(h, J) \intersect Of(h, K))
  BY <1>2, FS_Union DEF How
<1>4. Cardinality(Of(h, J) \intersect Of(h, K)) \in Nat
  BY <1>2, FS_Intersection, FS_CardinalityType
<1>5. How(h, I) <= Cardinality(Of(h, J) \union Of(h, K))
  BY <1>1, <1>3, FS_Subset DEF How
<1> HIDE DEF How
<1> QED  BY <1>2, <1>3, <1>4, <1>5

LEMMA HowNothing ==
    ASSUME NEW h, Whole(h), NEW I, I \intersect Time = {}
    PROVE  How(h, I) = 0
<1>1. Of(h, I) = {}  BY DEF Of
<1> QED  BY <1>1, FS_EmptySet DEF How

\* One more admission at one instant.
LEMMA HowAdded ==
    ASSUME NEW h, Whole(h), NEW now \in Time
    PROVE  LET g == [h EXCEPT ![now] = @ + 1] IN
           /\ Whole(g)
           /\ \A I : How(g, I) = How(h, I) + (IF now \in I THEN 1 ELSE 0)
<1> DEFINE g == [h EXCEPT ![now] = @ + 1]
           one == <<now, h[now] + 1>>
<1>1. /\ g \in [Time -> Nat] /\ g[now] = h[now] + 1 /\ h[now] \in Nat
      /\ \A t \in Time : t # now => g[t] = h[t]
  BY DEF Whole
<1> HIDE DEF g
<1>2. ASSUME NEW I, now \in I PROVE Of(g, I) = Of(h, I) \union {one} /\ one \notin Of(h, I)
  <2>1. 1..g[now] = (1..h[now]) \union {h[now] + 1} /\ h[now] + 1 \notin 1..h[now]
    BY <1>1
  <2>2. one \notin Of(h, I)
    <3> SUFFICES ASSUME one \in Of(h, I) PROVE FALSE  OBVIOUS
    <3>1. PICK t \in I \intersect Time : one \in {t} \X (1..h[t])  BY DEF Of
    <3>2. t = now /\ h[now] + 1 \in 1..h[t]  BY <3>1
    <3> QED  BY <2>1, <3>2
  <2>3. ASSUME NEW y \in Of(g, I) PROVE y \in Of(h, I) \union {one}
    <3>1. PICK t \in I \intersect Time : y \in {t} \X (1..g[t])  BY DEF Of
    <3>2. CASE t = now
      <4>1. PICK n \in (1..h[now]) \union {h[now] + 1} : y = <<now, n>>
        BY <2>1, <3>1, <3>2
      <4>2. CASE n \in 1..h[now]  BY <3>1, <3>2, <4>1, <4>2 DEF Of
      <4> QED  BY <4>1, <4>2
    <3>3. CASE t # now  BY <1>1, <3>1, <3>3 DEF Of
    <3> QED  BY <3>2, <3>3
  <2>4. one \in Of(g, I)
    <3>1. one \in {now} \X (1..g[now])  BY <2>1
    <3> QED  BY <1>2, <3>1 DEF Of
  <2>5. ASSUME NEW y \in Of(h, I) PROVE y \in Of(g, I)
    <3>1. PICK t \in I \intersect Time : y \in {t} \X (1..h[t])  BY DEF Of
    <3>2. y \in {t} \X (1..g[t])  BY <1>1, <2>1, <3>1
    <3> QED  BY <3>2 DEF Of
  <2> QED  BY <2>2, <2>3, <2>4, <2>5
<1>3. ASSUME NEW I, now \notin I PROVE Of(g, I) = Of(h, I)
  <2>1. \A t \in I \intersect Time : g[t] = h[t]  BY <1>1, <1>3
  <2> QED  BY <2>1 DEF Of
<1> HIDE DEF one
<1>4. Whole(g)
  <2>1. Of(g, Time) = Of(h, Time) \union {one}  BY <1>2
  <2> QED  BY <1>1, <2>1, FS_AddElement DEF Whole
<1>5. ASSUME NEW I PROVE How(g, I) = How(h, I) + (IF now \in I THEN 1 ELSE 0)
  <2>1. IsFiniteSet(Of(h, I)) /\ How(h, I) \in Nat  BY HowTyped
  <2>2. CASE now \in I  BY <1>2, <2>1, <2>2, FS_AddElement DEF How
  <2>3. CASE now \notin I  BY <1>3, <2>1, <2>3 DEF How
  <2> QED  BY <2>2, <2>3
<1> QED  BY <1>4, <1>5 DEF g

-----------------------------------------------------------------------------
(* The history of one client and the bucket that counts for it.            *)

\* Nothing was admitted in the future.
Past(h, now) == Whole(h) /\ How(h, From(now + 1)) = 0

\* What a bucket counts was admitted since it was started.
Backed(h, now, b) == b.start <= now /\ b.count <= How(h, From(b.start))

\* As long as nobody was overtaken, a bucket counts all that was admitted since its
\* start, and no more than the limit was in the window before that.
Exact(h, b) ==
    /\ How(h, From(b.start)) <= b.count
    /\ How(h, From(b.start + Window)) = 0
    /\ How(h, Before(b.start)) <= Limit

\* So it is for a client without a bucket, as if one were started now.
Clear(h, now) == How(h, From(now)) = 0 /\ How(h, Before(now)) <= Limit

Spread(h) == \A t \in Time : How(h, t..(t + Window - 1)) <= 2 * Limit

LEMMA PastLater ==
    ASSUME NEW h, NEW now \in Nat, Past(h, now)
    PROVE  Past(h, now + 1)
<1>1. From((now + 1) + 1) \intersect Time \subseteq From(now + 1)
  BY ConstantsTyped DEF From
<1>2. How(h, From((now + 1) + 1)) <= How(h, From(now + 1))
  BY <1>1, HowSubset DEF Past
<1>3. How(h, From((now + 1) + 1)) \in Nat  BY HowTyped DEF Past
<1>4. How(h, From(now + 1)) = 0  BY DEF Past
<1>5. How(h, From((now + 1) + 1)) = 0  BY <1>2, <1>3, <1>4
<1> QED  BY <1>5 DEF Past

LEMMA ClearLater ==
    ASSUME NEW h, Whole(h), NEW now \in Nat, Clear(h, now)
    PROVE  Clear(h, now + 1)
<1>1. /\ From(now + 1) \intersect Time \subseteq From(now)
      /\ Before(now + 1) \intersect Time \subseteq Before(now) \union From(now)
  BY ConstantsTyped DEF From, Before
<1>2. /\ How(h, From(now + 1)) <= How(h, From(now))
      /\ How(h, Before(now + 1)) <= How(h, Before(now)) + How(h, From(now))
  BY <1>1, HowSubset, HowUnion
<1>3. How(h, From(now + 1)) \in Nat /\ How(h, Before(now + 1)) \in Nat
  BY HowTyped
<1>4. How(h, From(now)) = 0 /\ How(h, Before(now)) <= Limit /\ How(h, Before(now)) \in Nat
  BY HowTyped DEF Clear
<1>5. How(h, From(now + 1)) = 0 /\ How(h, Before(now + 1)) <= Limit
  BY <1>2, <1>3, <1>4, ConstantsTyped
<1> QED  BY <1>5 DEF Clear

\* Where a window has ended, another may start.
LEMMA ExpiredIsClear ==
    ASSUME NEW h, Whole(h), NEW b \in Bucket, Exact(h, b), NEW now \in Nat,
           b.start + Window <= now
    PROVE  Clear(h, now)
<1>1. b.start \in Nat /\ b.count \in Nat /\ b.count <= Limit
  BY ConstantsTyped DEF Bucket
<1>2. /\ From(now) \intersect Time \subseteq From(b.start + Window)
      /\ Before(now) \intersect Time \subseteq From(b.start)
  BY <1>1, ConstantsTyped DEF From, Before
<1>3. /\ How(h, From(now)) <= How(h, From(b.start + Window))
      /\ How(h, Before(now)) <= How(h, From(b.start))
  BY <1>2, HowSubset
<1>4. /\ How(h, From(now)) \in Nat /\ How(h, Before(now)) \in Nat
      /\ How(h, From(b.start)) \in Nat
  BY HowTyped
<1>5. How(h, From(now)) = 0 /\ How(h, Before(now)) <= Limit
  BY <1>1, <1>3, <1>4, ConstantsTyped DEF Exact
<1> QED  BY <1>5 DEF Clear

\* One more admission now, counted in a bucket whose window has not ended.
LEMMA CountedExact ==
    ASSUME NEW h, Whole(h), NEW now \in Time, NEW b \in Bucket,
           b.start <= now, now < b.start + Window,
           How(h, From(b.start)) + 1 <= b.count,
           How(h, From(b.start + Window)) = 0,
           How(h, Before(b.start)) <= Limit,
           Spread(h)
    PROVE  LET g == [h EXCEPT ![now] = @ + 1] IN Exact(g, b) /\ Spread(g)
<1> DEFINE g == [h EXCEPT ![now] = @ + 1]
<1>1. /\ Whole(g)
      /\ \A I : How(g, I) = How(h, I) + (IF now \in I THEN 1 ELSE 0)
  BY HowAdded
<1> HIDE DEF g
<1>2. b.start \in Nat /\ b.count \in Nat /\ b.count <= Limit /\ now \in Nat
  BY ConstantsTyped DEF Bucket
<1>3. /\ How(h, From(b.start)) \in Nat /\ How(h, From(b.start + Window)) \in Nat
      /\ How(h, Before(b.start)) \in Nat
  BY HowTyped
<1>4. /\ now \in From(b.start) /\ now \notin From(b.start + Window)
      /\ now \notin Before(b.start)
  BY <1>2, ConstantsTyped DEF From, Before
<1>5. /\ How(g, From(b.start)) = How(h, From(b.start)) + 1
      /\ How(g, From(b.start + Window)) = How(h, From(b.start + Window))
      /\ How(g, Before(b.start)) = How(h, Before(b.start))
  <2>1. How(g, From(b.start)) = How(h, From(b.start)) + 1  BY <1>1, <1>4
  <2>2. How(g, From(b.start + Window)) = How(h, From(b.start + Window)) + 0  BY <1>1, <1>4
  <2>3. How(g, Before(b.start)) = How(h, Before(b.start)) + 0  BY <1>1, <1>4
  <2> QED  BY <1>3, <2>1, <2>2, <2>3
<1>6. Exact(g, b)  BY <1>2, <1>3, <1>5 DEF Exact
<1>7. ASSUME NEW t \in Time PROVE How(g, t..(t + Window - 1)) <= 2 * Limit
  <2> DEFINE I == t..(t + Window - 1)
  <2>1. How(h, I) \in Nat /\ How(g, I) \in Nat  BY <1>1, HowTyped
  <2>2. t \in Nat  BY ConstantsTyped
  <2>3. CASE now \notin I
    <3>1. How(g, I) = How(h, I) + 0  BY <1>1, <2>3
    <3>2. How(h, I) <= 2 * Limit  BY DEF Spread
    <3> HIDE DEF I
    <3> QED  BY <2>1, <3>1, <3>2 DEF I
  <2>4. CASE now \in I /\ t > b.start
    <3>1. I \intersect Time \subseteq From(b.start)
      BY <1>2, <2>2, <2>4, ConstantsTyped DEF From
    <3>2. How(g, I) <= How(g, From(b.start))  BY <1>1, <3>1, HowSubset
    <3> HIDE DEF I
    <3>3. How(g, I) <= 2 * Limit
      BY <1>2, <1>3, <1>5, <2>1, <3>2, ConstantsTyped
    <3> QED  BY <3>3 DEF I
  <2>5. CASE now \in I /\ t <= b.start
    <3>1. t <= now /\ now <= t + Window - 1  BY <2>5
    <3>2. I \intersect Time \subseteq Before(b.start) \union From(b.start)
      BY <1>2, <2>2, <2>5, <3>1, ConstantsTyped DEF From, Before
    <3>3. How(g, I) <= How(g, Before(b.start)) + How(g, From(b.start))
      BY <1>1, <3>2, HowUnion
    <3> HIDE DEF I
    <3>4. How(g, I) <= 2 * Limit
      BY <1>2, <1>3, <1>5, <2>1, <3>3, ConstantsTyped
    <3> QED  BY <3>4 DEF I
  <2> QED  BY <1>2, <2>2, <2>3, <2>4, <2>5
<1> QED  BY <1>6, <1>7 DEF Spread, g

-----------------------------------------------------------------------------
(* The inductive invariant.                                                *)

KeySound(k) ==
    /\ Past(decided[k], clock)
    /\ k \in DOMAIN buckets => Backed(decided[k], clock, buckets[k])
    /\ ~overtaken =>
         /\ Spread(decided[k])
         /\ k \in DOMAIN buckets => Exact(decided[k], buckets[k])
         /\ k \notin DOMAIN buckets => Clear(decided[k], clock)

\* What a client that was limited was told holds for the bucket that refused it,
\* until that one is pruned, or another is started for the key.
Excluded(c) ==
    LET call == caller[c] IN
    \/ /\ call.key \in DOMAIN buckets
       /\ call.now < buckets[call.key].start + Window
       /\ buckets[call.key].start + Window <= call.now + call.wait * Second
    \/ call.key \notin DOMAIN buckets /\ call.now < clock
    \/ How(decided[call.key], (call.now + 1)..clock) > 0

CallSound(c) ==
    caller[c].now <= clock /\ (caller[c].outcome = "limited" => Excluded(c))

IInv ==
    /\ TypeOK
    /\ \A k \in Keys : KeySound(k)
    /\ \A c \in Callers : CallSound(c)

LEMMA TypedParts ==
    ASSUME IInv
    PROVE  /\ clock \in Time /\ clock \in Nat
           /\ \A k \in DOMAIN buckets :
                /\ k \in Keys /\ buckets[k] \in Bucket
                /\ buckets[k].start \in Time /\ buckets[k].start \in Nat
                /\ buckets[k].count \in Nat /\ buckets[k].count > 0
                /\ buckets[k].count <= Limit
           /\ caller \in [Callers -> Call]
           /\ \A c \in Callers :
                /\ caller[c].key \in Keys /\ caller[c].now \in Time
                /\ caller[c].now \in Nat /\ caller[c].now <= clock
           /\ decided \in [Keys -> [Time -> Nat]]
           /\ \A k \in Keys : Whole(decided[k]) /\ Past(decided[k], clock)
<1>1. TypeOK  BY DEF IInv
<1>2. clock \in Time /\ clock \in Nat  BY <1>1, ConstantsTyped DEF TypeOK
<1>3. ASSUME NEW k \in DOMAIN buckets
      PROVE  /\ k \in Keys /\ buckets[k] \in Bucket
             /\ buckets[k].start \in Time /\ buckets[k].start \in Nat
             /\ buckets[k].count \in Nat /\ buckets[k].count > 0
             /\ buckets[k].count <= Limit
  BY <1>1, ConstantsTyped DEF TypeOK, Bucket
<1>4. caller \in [Callers -> Call] /\ decided \in [Keys -> [Time -> Nat]]
  BY <1>1 DEF TypeOK
<1>5. ASSUME NEW c \in Callers
      PROVE  /\ caller[c].key \in Keys /\ caller[c].now \in Time
             /\ caller[c].now \in Nat /\ caller[c].now <= clock
  BY <1>4, ConstantsTyped DEF Call, IInv, CallSound
<1>6. \A k \in Keys : Whole(decided[k]) /\ Past(decided[k], clock)
  BY DEF IInv, KeySound, Past
<1> QED  BY <1>2, <1>3, <1>4, <1>5, <1>6

\* A key for which nothing happens, or whose bucket is pruned by a caller with a
\* time that may be long past.
LEMMA OtherKey ==
    ASSUME IInv, NEW k \in Keys, NEW n \in Nat, n <= clock,
           clock' = clock, decided'[k] = decided[k], ~overtaken' => ~overtaken,
           \/ k \in DOMAIN buckets /\ k \in DOMAIN buckets' /\ buckets'[k] = buckets[k]
           \/ k \notin DOMAIN buckets' /\ (k \in DOMAIN buckets => Expired(k, n))
    PROVE  /\ KeySound(k)'
           /\ \A c \in Callers :
                caller'[c] = caller[c] /\ caller[c].key = k /\ caller[c].outcome = "limited"
                => Excluded(c)'
<1> USE TypedParts
<1>1. KeySound(k)  BY DEF IInv
<1>2. CASE k \in DOMAIN buckets /\ k \in DOMAIN buckets' /\ buckets'[k] = buckets[k]
  <2>1. KeySound(k)'  BY <1>1, <1>2 DEF KeySound
  <2>2. ASSUME NEW c \in Callers, caller'[c] = caller[c], caller[c].key = k,
               caller[c].outcome = "limited"
        PROVE  Excluded(c)'
    BY <1>2, <2>2 DEF IInv, CallSound, Excluded
  <2> QED  BY <2>1, <2>2
<1>3. CASE k \notin DOMAIN buckets' /\ (k \in DOMAIN buckets => Expired(k, n))
  <2>1. k \in DOMAIN buckets => buckets[k].start + Window <= n
    BY <1>3, ConstantsTyped DEF Expired
  <2>2. ~overtaken => Clear(decided[k], clock)
    <3>1. CASE k \notin DOMAIN buckets  BY <1>1, <3>1 DEF KeySound
    <3>2. CASE k \in DOMAIN buckets
      <4>1. buckets[k].start + Window <= clock  BY <2>1, <3>2, ConstantsTyped
      <4>2. ~overtaken => Exact(decided[k], buckets[k])  BY <1>1, <3>2 DEF KeySound
      <4> QED  BY <3>2, <4>1, <4>2, ExpiredIsClear
    <3> QED  BY <3>1, <3>2
  <2>3. KeySound(k)'  BY <1>1, <1>3, <2>2 DEF KeySound
  <2>4. ASSUME NEW c \in Callers, caller'[c] = caller[c], caller[c].key = k,
               caller[c].outcome = "limited"
        PROVE  Excluded(c)'
    <3>1. Excluded(c)  BY <2>4 DEF IInv, CallSound
    <3>2. CASE k \in DOMAIN buckets /\ caller[c].now < buckets[k].start + Window
      <4>1. caller[c].now < clock  BY <2>1, <3>2, ConstantsTyped
      <4> QED  BY <1>3, <2>4, <4>1 DEF Excluded
    <3>3. CASE k \notin DOMAIN buckets /\ caller[c].now < clock
      BY <1>3, <2>4, <3>3 DEF Excluded
    <3>4. CASE How(decided[k], (caller[c].now + 1)..clock) > 0
      BY <2>4, <3>4 DEF Excluded
    <3> QED  BY <2>4, <3>1, <3>2, <3>3, <3>4 DEF Excluded
  <2> QED  BY <2>3, <2>4
<1> QED  BY <1>2, <1>3

\* The bucket b of a key once it has counted a caller with the time n: the one it
\* had, or one that starts then.
CountsFor(k, n, b) ==
    \/ /\ k \in DOMAIN buckets /\ ~Expired(k, n)
       /\ b = [buckets[k] EXCEPT !.count = @ + 1]
    \/ /\ k \in DOMAIN buckets => Expired(k, n)
       /\ b = [start |-> n, count |-> 1]

\* The key of a caller that is admitted.
LEMMA AdmittedKey ==
    ASSUME IInv, NEW c \in Callers, NEW k \in Keys, k = caller[c].key, NEW b \in Bucket,
           clock' = clock, decided' = [decided EXCEPT ![k][clock] = @ + 1],
           ~overtaken' => ~overtaken /\ caller[c].now = clock,
           k \in DOMAIN buckets', buckets'[k] = b,
           CountsFor(k, caller[c].now, b)
    PROVE  /\ KeySound(k)'
           /\ \A d \in Callers :
                caller'[d] = caller[d] /\ caller[d].key = k /\ caller[d].outcome = "limited"
                => Excluded(d)'
<1> USE TypedParts
<1> DEFINE h == decided[k]
           g == [h EXCEPT ![clock] = @ + 1]
           now == caller[c].now
<1>1. KeySound(k) /\ Whole(h)  BY DEF IInv
<1>2. decided'[k] = g
  OBVIOUS
<1>3. Whole(g) /\ \A I : How(g, I) = How(h, I) + (IF clock \in I THEN 1 ELSE 0)
  BY <1>1, HowAdded
<1>4. now \in Nat /\ now \in Time /\ now <= clock  OBVIOUS
<1>5. b.start \in Nat /\ b.count \in Nat /\ b.start \in Time  BY ConstantsTyped DEF Bucket
<1> HIDE DEF g, h, now
<1>6. Past(g, clock)
  <2>1. clock \notin From(clock + 1)  BY DEF From
  <2>2. How(g, From(clock + 1)) = How(h, From(clock + 1)) + 0  BY <1>3, <2>1
  <2>3. How(h, From(clock + 1)) = 0  BY <1>1 DEF KeySound, Past, h
  <2> QED  BY <1>3, <2>2, <2>3 DEF Past
<1>7. CASE /\ k \in DOMAIN buckets /\ ~Expired(k, now)
           /\ b = [buckets[k] EXCEPT !.count = @ + 1]
  <2>1. /\ b.start = buckets[k].start /\ b.count = buckets[k].count + 1
        /\ buckets[k].start <= clock /\ now < b.start + Window
        /\ buckets[k].count <= How(h, From(b.start))
    <3>1. b.start = buckets[k].start /\ b.count = buckets[k].count + 1
      BY <1>7 DEF Bucket
    <3>2. buckets[k].start <= clock /\ buckets[k].count <= How(h, From(buckets[k].start))
      BY <1>1, <1>7 DEF KeySound, Backed, h
    <3>3. now < buckets[k].start + Window  BY <1>4, <1>7, ConstantsTyped DEF Expired
    <3> QED  BY <3>1, <3>2, <3>3
  <2>2. Backed(g, clock, b)
    <3>1. clock \in From(b.start)  BY <2>1 DEF From
    <3>2. How(g, From(b.start)) = How(h, From(b.start)) + 1  BY <1>3, <3>1
    <3>3. How(h, From(b.start)) \in Nat  BY <1>1, HowTyped
    <3> QED  BY <1>7, <2>1, <3>2, <3>3 DEF Backed
  <2>3. ASSUME ~overtaken' PROVE Spread(g) /\ Exact(g, b)
    <3>1. ~overtaken /\ now = clock  BY <2>3 DEF now
    <3>2. Spread(h) /\ Exact(h, buckets[k])  BY <1>1, <1>7, <3>1 DEF KeySound, h
    <3>3. How(h, From(b.start)) \in Nat  BY <1>1, HowTyped
    <3>4. /\ How(h, From(b.start)) + 1 <= b.count
          /\ How(h, From(b.start + Window)) = 0
          /\ How(h, Before(b.start)) <= Limit
      BY <1>7, <2>1, <3>2, <3>3 DEF Exact
    <3>5. b.start <= clock /\ clock < b.start + Window  BY <2>1, <3>1
    <3> QED  BY <1>1, <3>2, <3>4, <3>5, CountedExact DEF g
  <2>4. KeySound(k)'  BY <1>2, <1>6, <2>2, <2>3 DEF KeySound
  <2>5. ASSUME NEW d \in Callers, caller'[d] = caller[d], caller[d].key = k,
               caller[d].outcome = "limited"
        PROVE  Excluded(d)'
    <3>1. Excluded(d)  BY <2>5 DEF IInv, CallSound
    <3>2. CASE /\ caller[d].now < buckets[k].start + Window
               /\ buckets[k].start + Window <= caller[d].now + caller[d].wait * Second
      BY <2>1, <2>5, <3>2 DEF Excluded
    <3>3. CASE How(h, (caller[d].now + 1)..clock) > 0
      <4> DEFINE I == (caller[d].now + 1)..clock
      <4>1. How(g, I) = How(h, I) + (IF clock \in I THEN 1 ELSE 0)  BY <1>3
      <4>2. How(h, I) \in Nat /\ How(h, I) > 0  BY <1>1, <3>3, HowTyped
      <4> HIDE DEF I
      <4>3. How(g, I) > 0  BY <4>1, <4>2
      <4> QED  BY <1>2, <2>5, <4>3 DEF Excluded, I
    <3> QED  BY <1>7, <2>5, <3>1, <3>2, <3>3 DEF Excluded, h
  <2> QED  BY <2>4, <2>5
<1>8. CASE /\ k \in DOMAIN buckets => Expired(k, now)
           /\ b = [start |-> now, count |-> 1]
  <2>1. b.start = now /\ b.count = 1  BY <1>8
  <2>2. k \in DOMAIN buckets => buckets[k].start + Window <= now
    BY <1>4, <1>8, ConstantsTyped DEF Expired
  <2>3. Backed(g, clock, b)
    <3>1. clock \in From(now)  BY <1>4 DEF From
    <3>2. How(g, From(now)) = How(h, From(now)) + 1  BY <1>3, <3>1
    <3>3. How(h, From(now)) \in Nat  BY <1>1, HowTyped
    <3> QED  BY <1>4, <2>1, <3>2, <3>3 DEF Backed
  <2>4. ASSUME ~overtaken' PROVE Spread(g) /\ Exact(g, b)
    <3>1. ~overtaken /\ now = clock  BY <2>4 DEF now
    <3>2. Spread(h) /\ Clear(h, clock)
      <4>1. CASE k \notin DOMAIN buckets  BY <1>1, <3>1, <4>1 DEF KeySound, h
      <4>2. CASE k \in DOMAIN buckets
        <5>1. Spread(h) /\ Exact(h, buckets[k])  BY <1>1, <3>1, <4>2 DEF KeySound, h
        <5> QED  BY <1>1, <2>2, <3>1, <4>2, <5>1, ExpiredIsClear
      <4> QED  BY <4>1, <4>2
    <3>3. How(h, From(clock + Window)) = 0
      <4>1. From(clock + Window) \intersect Time \subseteq From(clock)
        BY ConstantsTyped DEF From
      <4>2. How(h, From(clock + Window)) <= How(h, From(clock))  BY <1>1, <4>1, HowSubset
      <4>3. How(h, From(clock + Window)) \in Nat  BY <1>1, HowTyped
      <4> QED  BY <3>2, <4>2, <4>3 DEF Clear
    <3>4. /\ How(h, From(b.start)) + 1 <= b.count
          /\ How(h, From(b.start + Window)) = 0
          /\ How(h, Before(b.start)) <= Limit
      BY <2>1, <3>1, <3>2, <3>3 DEF Clear
    <3>5. b.start <= clock /\ clock < b.start + Window  BY <2>1, <3>1, ConstantsTyped
    <3> QED  BY <1>1, <3>2, <3>4, <3>5, CountedExact DEF g
  <2>5. KeySound(k)'  BY <1>2, <1>6, <2>3, <2>4 DEF KeySound
  <2>6. ASSUME NEW d \in Callers, caller'[d] = caller[d], caller[d].key = k,
               caller[d].outcome = "limited"
        PROVE  Excluded(d)'
    <3> DEFINE I == (caller[d].now + 1)..clock
    <3>1. Excluded(d)  BY <2>6 DEF IInv, CallSound
    <3>2. caller[d].now < clock \/ How(h, I) > 0
      <4>1. CASE k \in DOMAIN buckets /\ caller[d].now < buckets[k].start + Window
        <5>1. caller[d].now \in Nat /\ buckets[k].start \in Nat  BY <4>1
        <5>2. caller[d].now < clock  BY <1>4, <2>2, <4>1, <5>1, ConstantsTyped
        <5> QED  BY <5>2
      <4> QED  BY <2>6, <3>1, <4>1 DEF Excluded, h
    <3>3. How(g, I) = How(h, I) + (IF clock \in I THEN 1 ELSE 0)  BY <1>3
    <3>4. How(h, I) \in Nat  BY <1>1, HowTyped
    <3>5. caller[d].now < clock => clock \in I  OBVIOUS
    <3> HIDE DEF I
    <3>6. How(g, I) > 0  BY <3>2, <3>3, <3>4, <3>5
    <3> QED  BY <1>2, <2>6, <3>6 DEF Excluded, I
  <2> QED  BY <2>5, <2>6
<1> QED  BY <1>7, <1>8 DEF CountsFor, now

-----------------------------------------------------------------------------
(* The steps.                                                              *)

LEMMA InitIInv == Init => IInv
<1> SUFFICES ASSUME Init PROVE IInv  OBVIOUS
<1>1. /\ clock = 0 /\ clock \in Time /\ buckets = <<>>
      /\ caller = [c \in Callers |-> NoCall]
      /\ decided = [k \in Keys |-> [t \in Time |-> 0]]
      /\ overtaken = FALSE
  BY ConstantsTyped DEF Init, Time
<1>2. DOMAIN buckets = {}
  <2>1. buckets \in [1..0 -> {0}]  BY <1>1
  <2> QED  BY <2>1
<1>3. NoCall \in Call /\ NoCall.now = 0 /\ NoCall.outcome = "idle"
  <2>1. (CHOOSE k \in Keys : TRUE) \in Keys  BY ConstantsTyped
  <2>2. 0 \in Time  BY <1>1
  <2> QED  BY <2>1, <2>2 DEF NoCall, Call
<1>4. TypeOK
  <2>1. Cardinality(DOMAIN buckets) <= MaxKeys  BY <1>2, FS_EmptySet, ConstantsTyped
  <2> QED  BY <1>1, <1>2, <1>3, <2>1 DEF TypeOK
<1> DEFINE none == [t \in Time |-> 0]
<1>5. Whole(none)
  <2>1. Of(none, Time) = {}
    <3>1. \A t \in Time : 1..none[t] = {}  OBVIOUS
    <3> QED  BY <3>1 DEF Of
  <2> QED  BY <2>1, FS_EmptySet DEF Whole
<1>6. ASSUME NEW I PROVE How(none, I) = 0
  <2>1. Of(none, I) = {}
    <3>1. \A t \in Time : 1..none[t] = {}  OBVIOUS
    <3> QED  BY <3>1 DEF Of
  <2> QED  BY <2>1, FS_EmptySet DEF How
<1>7. ASSUME NEW k \in Keys PROVE decided[k] = none  BY <1>1
<1> HIDE DEF none
<1>8. Past(none, clock) /\ Spread(none) /\ Clear(none, clock)
  BY <1>5, <1>6, ConstantsTyped DEF Past, Spread, Clear
<1>9. ASSUME NEW k \in Keys PROVE KeySound(k)
  BY <1>2, <1>7, <1>8 DEF KeySound
<1>10. ASSUME NEW c \in Callers PROVE CallSound(c)
  BY <1>1, <1>3 DEF CallSound
<1> QED  BY <1>4, <1>9, <1>10 DEF IInv

LEMMA AdmitStep ==
    ASSUME IInv, NEW c \in Callers, NEW kept \in SUBSET DOMAIN buckets, NEW b \in Bucket,
           \A x \in DOMAIN buckets \ kept : Expired(x, caller[c].now),
           Admit(c, kept, b), Cardinality(kept \union {caller[c].key}) <= MaxKeys,
           CountsFor(caller[c].key, caller[c].now, b)
    PROVE  IInv'
<1> USE TypedParts
<1>k. PICK k \in Keys : k = caller[c].key  OBVIOUS
<1>1. /\ clock' = clock
      /\ buckets' = [x \in kept \union {k} |-> IF x = k THEN b ELSE buckets[x]]
      /\ caller' = [caller EXCEPT ![c].outcome = "allowed"]
      /\ decided' = [decided EXCEPT ![k][clock] = @ + 1]
  BY <1>k DEF Admit
<1>2. ~overtaken' => ~overtaken /\ caller[c].now = clock
  <2>1. ~overtaken' => ~overtaken /\ ~(caller[c].now < clock)  BY Zenon DEF Admit
  <2>2. caller[c].now \in Nat /\ clock \in Nat /\ caller[c].now <= clock  OBVIOUS
  <2>3. ~(caller[c].now < clock) => caller[c].now = clock  BY <2>2, NotLess, Zenon
  <2> QED  BY <2>1, <2>3, Zenon
<1>3. overtaken' \in BOOLEAN  BY Zenon DEF Admit
<1>4. k \in Keys /\ caller[c].now \in Nat /\ caller[c].now <= clock
  OBVIOUS
<1>5. /\ DOMAIN buckets' = kept \union {k} /\ buckets'[k] = b
      /\ \A x \in kept : x # k => buckets'[x] = buckets[x]
  BY <1>1
<1>6. caller' \in [Callers -> Call] /\ caller'[c].now = caller[c].now
      /\ caller'[c].outcome = "allowed"
      /\ \A d \in Callers : d # c => caller'[d] = caller[d]
  <2>1. caller[c] \in Call  OBVIOUS
  <2>2. caller'[c] = [caller[c] EXCEPT !.outcome = "allowed"]  BY <1>1
  <2>3. caller'[c] \in Call /\ caller'[c].now = caller[c].now
        /\ caller'[c].outcome = "allowed"
    BY <2>1, <2>2 DEF Call
  <2>4. caller' \in [Callers -> Call]  BY <1>1, <2>2, <2>3
  <2> QED  BY <1>1, <2>3, <2>4
<1>7. decided' \in [Keys -> [Time -> Nat]]  BY <1>1, <1>4
<1>8. TypeOK'
  <2>1. DOMAIN buckets' \subseteq Keys  BY <1>4, <1>5
  <2>2. ASSUME NEW x \in DOMAIN buckets' PROVE buckets'[x] \in Bucket  BY <1>5, <2>2
  <2>3. Cardinality(DOMAIN buckets') <= MaxKeys  BY <1>k, <1>5
  <2> QED  BY <1>1, <1>3, <1>6, <1>7, <2>1, <2>2, <2>3 DEF TypeOK
<1>9. /\ KeySound(k)'
      /\ \A d \in Callers :
           caller'[d] = caller[d] /\ caller[d].key = k /\ caller[d].outcome = "limited"
           => Excluded(d)'
  <2>1. k \in DOMAIN buckets'  BY <1>5
  <2>2. CountsFor(k, caller[c].now, b)  BY <1>k
  <2> QED  BY <1>k, <1>1, <1>2, <1>5, <2>1, <2>2, AdmittedKey, Zenon
<1>10. ASSUME NEW x \in Keys, x # k
       PROVE  /\ KeySound(x)'
              /\ \A d \in Callers :
                   caller'[d] = caller[d] /\ caller[d].key = x /\ caller[d].outcome = "limited"
                   => Excluded(d)'
  <2>1. decided'[x] = decided[x] /\ (~overtaken' => ~overtaken)  BY <1>1, <1>2, <1>10
  <2>2. \/ x \in DOMAIN buckets /\ x \in DOMAIN buckets' /\ buckets'[x] = buckets[x]
        \/ x \notin DOMAIN buckets' /\ (x \in DOMAIN buckets => Expired(x, caller[c].now))
    BY <1>5, <1>10
  <2> QED  BY <1>1, <1>4, <2>1, <2>2, OtherKey
<1>11. ASSUME NEW d \in Callers PROVE CallSound(d)'
  <2>1. CASE d = c  BY <1>1, <1>4, <1>6, <2>1 DEF CallSound
  <2>2. CASE d # c
    <3>1. caller'[d] = caller[d] /\ caller[d].key \in Keys /\ caller[d].now <= clock
      BY <1>6, <2>2
    <3> QED  BY <1>1, <1>9, <1>10, <3>1 DEF CallSound
  <2> QED  BY <2>1, <2>2
<1> QED  BY <1>8, <1>9, <1>10, <1>11 DEF IInv

\* A client that is limited is told to wait until the window that refused it ends.
LEMMA RefuseStep ==
    ASSUME IInv, NEW c \in Callers, NEW kept \in SUBSET DOMAIN buckets,
           \A x \in DOMAIN buckets \ kept : Expired(x, caller[c].now),
           NEW outcome \in {"limited", "full"}, NEW wait \in Nat, Refuse(c, kept, outcome, wait),
           outcome = "limited" =>
               LET k == caller[c].key IN
               /\ k \in kept /\ ~Expired(k, caller[c].now)
               /\ wait = buckets[k].start + Window - caller[c].now
    PROVE  IInv'
<1> USE TypedParts
<1> DEFINE k == caller[c].key
<1>1. /\ buckets' = [x \in kept |-> buckets[x]]
      /\ caller' = [caller EXCEPT ![c].outcome = outcome, ![c].wait = RetryAfter(wait)]
      /\ clock' = clock /\ decided' = decided
  BY DEF Refuse
<1>2. overtaken' = overtaken  BY DEF Refuse
<1>3. k \in Keys /\ caller[c].now \in Nat /\ caller[c].now <= clock
  OBVIOUS
<1>4. DOMAIN buckets' = kept /\ \A x \in kept : buckets'[x] = buckets[x]  BY <1>1
<1>5. RetryAfter(wait) \in Nat /\ wait <= RetryAfter(wait) * Second
  <2>1. CASE wait = 0  BY <2>1, ConstantsTyped DEF RetryAfter
  <2>2. CASE wait # 0
    <3>1. RetryAfter(wait) = (wait + Second - 1) \div Second  BY <2>2 DEF RetryAfter
    <3>2. Second \in Nat \ {0} /\ wait + Second - 1 \in Nat  BY ConstantsTyped
    <3> DEFINE sum == wait + Second - 1
               q == sum \div Second
               r == sum % Second
    <3>3. q \in Nat /\ r \in 0..Second - 1 /\ sum = q * Second + r
      BY <3>2, Division
    <3> HIDE DEF q, r
    <3>4. wait <= q * Second  BY <3>2, <3>3
    <3> QED  BY <3>1, <3>3, <3>4 DEF q
  <2> QED  BY <2>1, <2>2
<1>6. /\ caller' \in [Callers -> Call] /\ caller'[c].now = caller[c].now
      /\ caller'[c].key = k /\ caller'[c].outcome = outcome
      /\ caller'[c].wait = RetryAfter(wait)
      /\ \A d \in Callers : d # c => caller'[d] = caller[d]
  <2>1. caller[c] \in Call  OBVIOUS
  <2>2. caller'[c] = [caller[c] EXCEPT !.outcome = outcome, !.wait = RetryAfter(wait)]
    BY <1>1
  <2> HIDE DEF k
  <2>3. /\ caller'[c] \in Call /\ caller'[c].now = caller[c].now
        /\ caller'[c].key = k /\ caller'[c].outcome = outcome
        /\ caller'[c].wait = RetryAfter(wait)
    BY <1>5, <2>1, <2>2 DEF Call, k
  <2>4. caller' \in [Callers -> Call]  BY <1>1, <2>2, <2>3
  <2> QED  BY <1>1, <2>3, <2>4
<1> HIDE DEF k
<1>7. TypeOK'
  <2>1. TypeOK  BY DEF IInv
  <2>2. DOMAIN buckets' \subseteq Keys
        /\ \A x \in DOMAIN buckets' : buckets'[x] \in Bucket
    BY <1>4
  <2>3. Cardinality(DOMAIN buckets') <= MaxKeys
    <3>1. /\ IsFiniteSet(DOMAIN buckets) /\ Cardinality(DOMAIN buckets) <= MaxKeys
          /\ kept \subseteq DOMAIN buckets
      BY <2>1, ConstantsTyped, FS_Subset DEF TypeOK
    <3>2. /\ Cardinality(kept) <= Cardinality(DOMAIN buckets)
          /\ IsFiniteSet(kept)
      BY <3>1, FS_Subset
    <3>3. Cardinality(kept) \in Nat /\ Cardinality(DOMAIN buckets) \in Nat
      BY <3>1, <3>2, FS_CardinalityType
    <3> QED  BY <1>4, <3>1, <3>2, <3>3, ConstantsTyped
  <2> QED  BY <1>1, <1>2, <1>6, <2>1, <2>2, <2>3 DEF TypeOK
<1>8. ASSUME NEW x \in Keys
       PROVE  /\ KeySound(x)'
              /\ \A d \in Callers :
                   caller'[d] = caller[d] /\ caller[d].key = x /\ caller[d].outcome = "limited"
                   => Excluded(d)'
  <2>1. decided'[x] = decided[x] /\ (~overtaken' => ~overtaken)  BY <1>1, <1>2
  <2>2. \/ x \in DOMAIN buckets /\ x \in DOMAIN buckets' /\ buckets'[x] = buckets[x]
        \/ x \notin DOMAIN buckets' /\ (x \in DOMAIN buckets => Expired(x, caller[c].now))
    BY <1>4
  <2> QED  BY <1>1, <1>3, <2>1, <2>2, OtherKey
<1>9. ASSUME NEW d \in Callers PROVE CallSound(d)'
  <2>1. CASE d = c /\ outcome = "limited"
    <3>1. /\ k \in DOMAIN buckets /\ k \in DOMAIN buckets' /\ buckets'[k] = buckets[k]
          /\ ~Expired(k, caller[c].now)
          /\ wait = buckets[k].start + Window - caller[c].now
      BY <1>4, <2>1 DEF k
    <3>2. buckets[k].start \in Nat  BY <3>1
    <3>3. caller[c].now < buckets[k].start + Window
      BY <1>3, <3>1, <3>2, ConstantsTyped DEF Expired
    <3>4. buckets[k].start + Window <= caller[c].now + RetryAfter(wait) * Second
      <4> DEFINE told == RetryAfter(wait) * Second
      <4>1. told \in Nat  BY <1>5, ConstantsTyped
      <4>2. wait <= told  BY <1>5
      <4> HIDE DEF told
      <4>3. buckets[k].start + Window <= caller[c].now + told
        BY <1>3, <3>1, <3>2, <4>1, <4>2, ConstantsTyped
      <4> QED  BY <4>3 DEF told
    <3>5. Excluded(c)'  BY <1>6, <3>1, <3>3, <3>4 DEF Excluded
    <3> QED  BY <1>1, <1>3, <1>6, <2>1, <3>5 DEF CallSound
  <2>2. CASE d = c /\ outcome # "limited"
    BY <1>1, <1>3, <1>6, <2>2 DEF CallSound
  <2>3. CASE d # c
    <3>1. caller'[d] = caller[d] /\ caller[d].key \in Keys /\ caller[d].now <= clock
      BY <1>6, <2>3
    <3> QED  BY <1>1, <1>8, <3>1 DEF CallSound
  <2> QED  BY <2>1, <2>2, <2>3
<1> QED  BY <1>7, <1>8, <1>9 DEF IInv

\* What is left of the table once it was pruned, if it was.
LEMMA KeptParts ==
    ASSUME IInv, NEW c \in Callers
    PROVE  /\ Kept(c) \in SUBSET DOMAIN buckets
           /\ \A x \in DOMAIN buckets \ Kept(c) : Expired(x, caller[c].now)
           /\ IsFiniteSet(DOMAIN buckets) /\ Cardinality(DOMAIN buckets) \in Nat
           /\ IsFiniteSet(Kept(c)) /\ Cardinality(Kept(c)) \in Nat
           /\ Cardinality(DOMAIN buckets) <= MaxKeys
<1>1. /\ Kept(c) \in SUBSET DOMAIN buckets
      /\ \A x \in DOMAIN buckets \ Kept(c) : Expired(x, caller[c].now)
  BY DEF Kept, Prunable
<1>2. DOMAIN buckets \subseteq Keys /\ Cardinality(DOMAIN buckets) <= MaxKeys
  BY DEF IInv, TypeOK
<1>3. IsFiniteSet(DOMAIN buckets)  BY <1>2, ConstantsTyped, FS_Subset
<1>4. IsFiniteSet(Kept(c))  BY <1>1, <1>3, FS_Subset
<1> QED  BY <1>1, <1>2, <1>3, <1>4, FS_CardinalityType

LEMMA DecideStep ==
    ASSUME IInv, NEW c \in Callers, Decide(c)
    PROVE  IInv'
<1> USE TypedParts
<1>k. PICK k \in Keys : k = caller[c].key  OBVIOUS
<1>1. DOMAIN buckets \in SUBSET DOMAIN buckets
      /\ \A x \in DOMAIN buckets \ DOMAIN buckets : Expired(x, caller[c].now)
  OBVIOUS
<1>2. Cardinality(DOMAIN buckets) <= MaxKeys  BY KeptParts
<1> DEFINE fresh == [start |-> caller[c].now, count |-> 1]
<1>3. fresh \in Bucket
  <2>1. caller[c].now \in Time /\ 1 \in 1..Limit  BY ConstantsTyped
  <2> QED  BY <2>1 DEF Bucket
<1>4. CASE CountIn(c)
  <2>1. k \in DOMAIN buckets /\ ~Expired(k, caller[c].now)  BY <1>k, <1>4 DEF CountIn
  <2>2. CASE Exhausted(k)
    <3> DEFINE wait == buckets[k].start + Window - caller[c].now
    <3>1. Refuse(c, DOMAIN buckets, "limited", wait)  BY <1>k, <1>4, <2>2 DEF CountIn
    <3>2. wait \in Nat
      <4>1. buckets[k].start \in Nat /\ caller[c].now \in Nat  BY <2>1
      <4> QED  BY <2>1, <4>1, ConstantsTyped DEF Expired
    <3>3. PICK w \in Nat : w = wait  BY <3>2
    <3> HIDE DEF wait
    <3>4. Refuse(c, DOMAIN buckets, "limited", w)  BY <3>1, <3>3
    <3> QED  BY <1>k, <1>1, <2>1, <3>3, <3>4, RefuseStep DEF wait
  <2>3. CASE ~Exhausted(k)
    <3> DEFINE b == [buckets[k] EXCEPT !.count = @ + 1]
    <3>1. Admit(c, DOMAIN buckets, b)  BY <1>k, <1>4, <2>3 DEF CountIn
    <3>2. b \in Bucket
      <4>1. buckets[k] \in Bucket /\ buckets[k].count \in Nat /\ buckets[k].count < Limit
        BY <2>1, <2>3, ConstantsTyped DEF Exhausted
      <4>2. buckets[k].count + 1 \in 1..Limit  BY <4>1, ConstantsTyped
      <4> QED  BY <4>1, <4>2 DEF Bucket
    <3>3. CountsFor(caller[c].key, caller[c].now, b)  BY <1>k, <2>1 DEF CountsFor
    <3>4. DOMAIN buckets \union {caller[c].key} = DOMAIN buckets  BY <1>k, <2>1
    <3> HIDE DEF b
    <3> QED  BY <1>1, <1>2, <3>1, <3>2, <3>3, <3>4, AdmitStep
  <2> QED  BY <2>2, <2>3
<1>5. CASE StartAgain(c)
  <2>1. k \in DOMAIN buckets /\ Expired(k, caller[c].now) /\ Admit(c, DOMAIN buckets, fresh)
    BY <1>k, <1>5 DEF StartAgain, Renewed
  <2>2. CountsFor(caller[c].key, caller[c].now, fresh)  BY <1>k, <2>1 DEF CountsFor
  <2>3. DOMAIN buckets \union {caller[c].key} = DOMAIN buckets  BY <1>k, <2>1
  <2> HIDE DEF fresh
  <2> QED  BY <1>1, <1>2, <1>3, <2>1, <2>2, <2>3, AdmitStep
<1>6. CASE Track(c)
  <2>1. k \notin DOMAIN buckets  BY <1>k, <1>6 DEF Track
  <2>2. /\ Kept(c) \in SUBSET DOMAIN buckets
        /\ \A x \in DOMAIN buckets \ Kept(c) : Expired(x, caller[c].now)
        /\ IsFiniteSet(Kept(c)) /\ Cardinality(Kept(c)) \in Nat
    BY KeptParts
  <2>3. CASE Cardinality(Kept(c)) >= MaxKeys
    <3>1. Refuse(c, Kept(c), "full", Second)  BY <1>6, <2>3 DEF Track
    <3>2. Second \in Nat  BY ConstantsTyped
    <3> QED  BY <2>2, <3>1, <3>2, RefuseStep
  <2>4. CASE ~(Cardinality(Kept(c)) >= MaxKeys)
    <3>1. Admit(c, Kept(c), fresh)  BY <1>6, <2>4 DEF Track
    <3>2. Cardinality(Kept(c) \union {caller[c].key}) <= MaxKeys
      <4>1. caller[c].key \notin Kept(c)  BY <1>k, <2>1, <2>2
      <4>2. Cardinality(Kept(c) \union {caller[c].key}) = Cardinality(Kept(c)) + 1
        BY <2>2, <4>1, FS_AddElement
      <4> QED  BY <2>2, <2>4, <4>2, ConstantsTyped
    <3>3. CountsFor(caller[c].key, caller[c].now, fresh)  BY <1>k, <2>1 DEF CountsFor
    <3> HIDE DEF fresh
    <3> QED  BY <1>3, <2>2, <3>1, <3>2, <3>3, AdmitStep
  <2> QED  BY <2>3, <2>4
<1> QED  BY <1>4, <1>5, <1>6 DEF Decide

LEMMA TickStep ==
    ASSUME IInv, Tick
    PROVE  IInv'
<1> USE TypedParts
<1>1. /\ clock < MaxTime /\ clock' = clock + 1
      /\ buckets' = buckets /\ caller' = caller /\ decided' = decided
  BY DEF Tick
<1>2. overtaken' = overtaken  BY DEF Tick
<1>3. clock' \in Time /\ clock \in Nat  BY <1>1, ConstantsTyped DEF Time
<1>4. TypeOK'  BY <1>1, <1>2, <1>3 DEF IInv, TypeOK
<1>5. ASSUME NEW k \in Keys PROVE KeySound(k)'
  <2>1. KeySound(k) /\ Whole(decided[k])  BY DEF IInv
  <2>2. Past(decided[k], clock + 1)  BY <1>3, <2>1, PastLater DEF KeySound
  <2>3. k \in DOMAIN buckets => Backed(decided[k], clock + 1, buckets[k])
    <3>1. k \in DOMAIN buckets => buckets[k].start \in Nat  OBVIOUS
    <3> QED  BY <1>3, <2>1, <3>1 DEF KeySound, Backed
  <2>4. ~overtaken /\ k \notin DOMAIN buckets => Clear(decided[k], clock + 1)
    BY <1>3, <2>1, ClearLater DEF KeySound
  <2> QED  BY <1>1, <1>2, <2>1, <2>2, <2>3, <2>4 DEF KeySound
<1>6. ASSUME NEW c \in Callers PROVE CallSound(c)'
  <2>1. CallSound(c) /\ caller[c].key \in Keys /\ caller[c].now \in Nat
        /\ caller[c].now <= clock + 1
    <3>1. caller[c].now \in Nat /\ caller[c].now <= clock  OBVIOUS
    <3> QED  BY <1>3, <3>1 DEF IInv
  <2>2. ASSUME caller[c].outcome = "limited" PROVE Excluded(c)'
    <3> DEFINE h == decided[caller[c].key]
               I == (caller[c].now + 1)..clock
               J == (caller[c].now + 1)..clock + 1
    <3>1. Excluded(c)  BY <2>1, <2>2 DEF CallSound
    <3>2. caller[c].now < clock => caller[c].now < clock + 1  BY <1>3, <2>1
    <3>3. How(h, I) > 0 => How(h, J) > 0
      <4>1. I \intersect Time \subseteq J /\ Whole(h)  BY <1>3, <2>1
      <4>2. How(h, I) <= How(h, J) /\ How(h, I) \in Nat /\ How(h, J) \in Nat
        BY <4>1, HowSubset, HowTyped
      <4> HIDE DEF h, I, J
      <4> QED  BY <4>2
    <3> QED  BY <1>1, <3>1, <3>2, <3>3 DEF Excluded
  <2> QED  BY <1>1, <2>1, <2>2 DEF CallSound
<1> QED  BY <1>4, <1>5, <1>6 DEF IInv

\* A call begins, or its request has come to something else.
LEMMA CallStep ==
    ASSUME IInv, NEW c \in Callers, NEW call \in Call, call.now <= clock,
           call.outcome # "limited", caller' = [caller EXCEPT ![c] = call],
           UNCHANGED <<clock, buckets, decided, overtaken>>
    PROVE  IInv'
<1> USE TypedParts
<1>1. /\ caller' \in [Callers -> Call] /\ caller'[c] = call
      /\ \A d \in Callers : d # c => caller'[d] = caller[d]
  OBVIOUS
<1>2. TypeOK'  BY <1>1 DEF IInv, TypeOK
<1>3. ASSUME NEW k \in Keys PROVE KeySound(k)'
  BY DEF IInv, KeySound
<1>4. ASSUME NEW d \in Callers PROVE CallSound(d)'
  <2>1. CallSound(d)  BY DEF IInv
  <2>2. CASE d = c  BY <1>1, <2>2 DEF CallSound
  <2>3. CASE d # c
    <3>1. caller'[d] = caller[d]  BY <1>1, <2>3
    <3> QED  BY <2>1, <3>1 DEF CallSound, Excluded
  <2> QED  BY <2>2, <2>3
<1> QED  BY <1>2, <1>3, <1>4 DEF IInv

LEMMA BeginStep ==
    ASSUME IInv, NEW c \in Callers, NEW k \in Keys, Begin(c, k)
    PROVE  IInv'
<1> USE TypedParts
<1>1. PICK now \in Time : now = clock  OBVIOUS
<1> DEFINE call == [key |-> k, now |-> now, wait |-> 0, outcome |-> "locking"]
<1>2. call \in Call  BY DEF Call
<1>3. call.now <= clock /\ call.outcome # "limited"
  BY <1>1, ConstantsTyped
<1>4. /\ caller' = [caller EXCEPT ![c] = call]
      /\ UNCHANGED <<clock, buckets, decided, overtaken>>
  BY <1>1 DEF Begin
<1> HIDE DEF call
<1> QED  BY <1>2, <1>3, <1>4, CallStep

LEMMA PassByStep ==
    ASSUME IInv, NEW c \in Callers, NEW j, PassBy(c, j)
    PROVE  IInv'
<1> USE TypedParts
<1>1. NoCall \in Call /\ NoCall.now = 0 /\ NoCall.outcome = "idle"
  <2>1. (CHOOSE k \in Keys : TRUE) \in Keys  BY ConstantsTyped
  <2>2. 0 \in Time  BY ConstantsTyped DEF Time
  <2> QED  BY <2>1, <2>2 DEF NoCall, Call
<1>2. NoCall.now <= clock /\ NoCall.outcome # "limited"  BY <1>1
<1>3. /\ caller' = [caller EXCEPT ![c] = NoCall]
      /\ UNCHANGED <<clock, buckets, decided, overtaken>>
  BY DEF PassBy
<1> QED  BY <1>1, <1>2, <1>3, CallStep

\* A request that is to be counted has an identity.
LEMMA CountedAsClient ==
    ASSUME NEW j \in Judgements, j[2].counted
    PROVE  j[2].client \in Keys
<1>1. PICK t \in Loaded, req \in Requests : j = <<t, Judgement(t, req)>>
  BY DEF Judgements
<1>2. j[2] = Judgement(t, req)  BY <1>1
<1>3. Judgement(t, req).client =
        IF Judgement(t, req).counted THEN Identity(req) ELSE NoCall.key
  BY DEF Judgement
<1> QED  BY <1>2, <1>3, GateAssumption

LEMMA NextStep ==
    ASSUME IInv, [GateNext]_gate
    PROVE  IInv'
<1>1. ASSUME NEW c \in Callers, NEW j \in Judgements, PassBy(c, j[2])
      PROVE  IInv'
  BY <1>1, PassByStep
<1>2. ASSUME NEW c \in Callers, NEW j \in Judgements, Count(c, j[2])
      PROVE  IInv'
  <2>1. j[2].counted /\ Begin(c, j[2].client)  BY <1>2 DEF Count
  <2> QED  BY <2>1, CountedAsClient, BeginStep
<1>3. CASE UNCHANGED gate
  BY <1>3 DEF gate, vars, IInv, TypeOK, KeySound, CallSound, Excluded
<1> QED  BY <1>1, <1>2, <1>3, TickStep, DecideStep DEF GateNext

-----------------------------------------------------------------------------
(* Theorems.                                                               *)

\* What the steps keep is an invariant of the gate.
THEOREM Inductive == GateSpec => []IInv
<1>1. GateInit => IInv  BY InitIInv DEF GateInit
<1>2. IInv /\ [GateNext]_gate => IInv'  BY NextStep
<1> QED  BY <1>1, <1>2, PTL DEF GateSpec

LEMMA AdmittedIsHow == \A k, I : Admitted(k, I) = How(decided[k], I)
BY DEF Admitted, Admissions, How, Of

\* The table of buckets stays within max_keys, and no bucket counts more than the
\* limit; and unless somebody was overtaken, no period as long as the window sees
\* more than twice the limit.
THEOREM AdmissionsStayBounded == GateSpec => []AdmissionsBounded
<1>1. IInv => AdmissionsBounded
  <2> SUFFICES ASSUME IInv PROVE AdmissionsBounded  OBVIOUS
  <2>1. TypeOK  BY DEF IInv
  <2>2. ASSUME ~overtaken, NEW k \in Keys, NEW t \in Time
        PROVE  Admitted(k, t..(t + Window - 1)) <= 2 * Limit
    <3>1. Spread(decided[k])  BY <2>2 DEF IInv, KeySound
    <3> QED  BY <3>1, AdmittedIsHow DEF Spread
  <2> QED  BY <2>1, <2>2 DEF AdmissionsBounded
<1> QED  BY <1>1, Inductive, PTL

\* A client that waits as long as it was told finds the window that refused it
\* ended, unless somebody of its key was admitted in the meantime.
THEOREM WaitingPaysOff == GateSpec => []PatienceRewarded
<1>1. IInv => PatienceRewarded
  <2> SUFFICES ASSUME IInv, NEW c \in Callers,
                      caller[c].outcome = "limited",
                      clock >= caller[c].now + caller[c].wait * Second,
                      caller[c].key \in DOMAIN buckets, ~Expired(caller[c].key, clock)
               PROVE  Admitted(caller[c].key, (caller[c].now + 1)..clock) > 0
    BY DEF PatienceRewarded
  <2>1. Excluded(c)  BY DEF IInv, CallSound
  <2> DEFINE end == buckets[caller[c].key].start + Window
             told == caller[c].now + caller[c].wait * Second
  <2>2. ~(end <= told)
    <3>1. ~(clock >= end)  BY DEF Expired
    <3>2. end \in Nat /\ clock \in Nat  BY TypedParts, ConstantsTyped
    <3>3. told \in Nat
      <4>1. caller[c] \in Call /\ caller[c].now \in Nat  BY TypedParts
      <4>2. caller[c].wait \in Nat  BY <4>1 DEF Call
      <4> QED  BY <4>1, <4>2, ConstantsTyped
    <3> HIDE DEF end, told
    <3>4. clock >= told  BY DEF told
    <3> QED  BY <3>1, <3>2, <3>3, <3>4
  <2> QED  BY <2>1, <2>2, AdmittedIsHow DEF Excluded
<1> QED  BY <1>1, Inductive, PTL

\* A bucket that has not ended for a caller stands for admissions that the caller
\* may be refused for.
LEMMA CountedSince ==
    ASSUME IInv, NEW c \in Callers, NEW k \in DOMAIN buckets, ~Expired(k, caller[c].now)
    PROVE  /\ Lately(c, k) \in Nat /\ Lately(c, k) >= buckets[k].count
           /\ buckets[k].count \in Nat \ {0}
<1> USE TypedParts
<1> DEFINE I == {t \in Time : t + Window > caller[c].now}
           h == decided[k]
<1>1. k \in Keys /\ Whole(h) /\ Backed(h, clock, buckets[k])
  BY DEF IInv, KeySound
<1>2. From(buckets[k].start) \intersect Time \subseteq I
  <2>1. buckets[k].start \in Nat /\ caller[c].now \in Nat  OBVIOUS
  <2>2. caller[c].now < buckets[k].start + Window
    BY <2>1, ConstantsTyped DEF Expired
  <2> QED  BY <2>1, <2>2, ConstantsTyped DEF From
<1>3. /\ How(h, From(buckets[k].start)) <= How(h, I)
      /\ How(h, From(buckets[k].start)) \in Nat /\ How(h, I) \in Nat
  BY <1>1, <1>2, HowSubset, HowTyped
<1>4. buckets[k].count <= How(h, From(buckets[k].start)) /\ buckets[k].count \in Nat \ {0}
  BY <1>1 DEF Backed
<1>5. Lately(c, k) = How(h, I)  BY AdmittedIsHow DEF Lately
<1> HIDE DEF I, h
<1>6. Lately(c, k) \in Nat /\ Lately(c, k) >= buckets[k].count
  BY <1>3, <1>4, <1>5
<1> QED  BY <1>4, <1>6

\* What the decision on a caller says of the admissions before it.
LEMMA DecisionEarned ==
    ASSUME IInv, NEW c \in Callers, Decide(c)
    PROVE  /\ caller'[c].outcome = "limited" => Lately(c, caller[c].key) >= Limit
           /\ caller'[c].outcome = "full" =>
                Cardinality({k \in Keys \ {caller[c].key} : Lately(c, k) > 0}) >= MaxKeys
<1> USE TypedParts
<1>1. \A kept, b : Admit(c, kept, b) => caller'[c].outcome = "allowed"
  <2> SUFFICES ASSUME NEW kept, NEW b, Admit(c, kept, b)
               PROVE  caller'[c].outcome = "allowed"
    OBVIOUS
  <2>1. caller' = [caller EXCEPT ![c].outcome = "allowed"]  BY DEF Admit
  <2>2. caller[c] \in Call  OBVIOUS
  <2>3. caller'[c] = [caller[c] EXCEPT !.outcome = "allowed"]  BY <2>1
  <2> QED  BY <2>2, <2>3 DEF Call
<1>2. \A kept, o, w : Refuse(c, kept, o, w) => caller'[c].outcome = o
  <2> SUFFICES ASSUME NEW kept, NEW o, NEW w, Refuse(c, kept, o, w)
               PROVE  caller'[c].outcome = o
    OBVIOUS
  <2>1. caller' = [caller EXCEPT ![c].outcome = o, ![c].wait = RetryAfter(w)]
    BY DEF Refuse
  <2>2. caller[c] \in Call  OBVIOUS
  <2>3. caller'[c] = [caller[c] EXCEPT !.outcome = o, !.wait = RetryAfter(w)]  BY <2>1
  <2> QED  BY <2>2, <2>3 DEF Call
<1>3. ASSUME caller'[c].outcome = "limited" PROVE Lately(c, caller[c].key) >= Limit
  <2>1. CountIn(c) /\ Exhausted(caller[c].key)
    BY <1>1, <1>2, <1>3 DEF Decide, CountIn, StartAgain, Track
  <2>2. caller[c].key \in DOMAIN buckets /\ ~Expired(caller[c].key, caller[c].now)
    BY <2>1 DEF CountIn
  <2>3. buckets[caller[c].key].count >= Limit  BY <2>1 DEF Exhausted
  <2>4. PICK k \in DOMAIN buckets : k = caller[c].key  BY <2>2
  <2>5. Lately(c, k) \in Nat /\ Lately(c, k) >= buckets[k].count /\ buckets[k].count \in Nat
    BY <2>2, <2>4, CountedSince
  <2> QED  BY <2>3, <2>4, <2>5, ConstantsTyped
<1>4. ASSUME caller'[c].outcome = "full"
      PROVE  Cardinality({k \in Keys \ {caller[c].key} : Lately(c, k) > 0}) >= MaxKeys
  <2>1. /\ caller[c].key \notin DOMAIN buckets /\ Cardinality(Kept(c)) >= MaxKeys
    BY <1>1, <1>2, <1>4 DEF Decide, CountIn, StartAgain, Track
  <2>2. /\ Kept(c) \in SUBSET DOMAIN buckets
        /\ IsFiniteSet(DOMAIN buckets) /\ Cardinality(DOMAIN buckets) \in Nat
        /\ IsFiniteSet(Kept(c)) /\ Cardinality(Kept(c)) \in Nat
    BY KeptParts
  <2>3. Cardinality(DOMAIN buckets) >= MaxKeys
    BY <2>1, <2>2, FS_Subset, ConstantsTyped
  <2>4. ASSUME NEW k \in Kept(c) PROVE k \in Keys \ {caller[c].key} /\ Lately(c, k) > 0
    <3>1. k \in DOMAIN buckets /\ ~Expired(k, caller[c].now)
      BY <2>2, <2>3, <2>4 DEF Kept, Prunable
    <3>2. Lately(c, k) \in Nat /\ Lately(c, k) >= buckets[k].count /\ buckets[k].count \in Nat \ {0}
      BY <3>1, CountedSince
    <3> QED  BY <2>1, <3>1, <3>2
  <2> DEFINE others == {k \in Keys \ {caller[c].key} : Lately(c, k) > 0}
  <2>5. Kept(c) \subseteq others  BY <2>4
  <2>6. IsFiniteSet(others)  BY ConstantsTyped, FS_Subset
  <2>7. Cardinality(others) \in Nat  BY <2>6, FS_CardinalityType
  <2>8. Cardinality(Kept(c)) <= Cardinality(others)  BY <2>5, <2>6, FS_Subset
  <2> HIDE DEF others
  <2>9. Cardinality(others) >= MaxKeys  BY <2>1, <2>2, <2>7, <2>8, ConstantsTyped
  <2> QED  BY <2>9 DEF others
<1> QED  BY <1>3, <1>4

\* Nobody is refused for what it or others did not do.
THEOREM RefusalsAreEarned == GateSpec => RefusalsEarned
<1> DEFINE Earned ==
             \A c \in Callers :
               /\ Deciding(c) /\ caller'[c].outcome = "limited" =>
                     Lately(c, caller[c].key) >= Limit
               /\ Deciding(c) /\ caller'[c].outcome = "full" =>
                     Cardinality({k \in Keys \ {caller[c].key} : Lately(c, k) > 0}) >= MaxKeys
<1>1. IInv /\ [GateNext]_gate => [Earned]_vars
  <2> SUFFICES ASSUME IInv, [GateNext]_gate, NEW c \in Callers, Deciding(c),
                      caller'[c].outcome \in {"limited", "full"}
               PROVE  Decide(c)
    BY DecisionEarned
  <2>1. caller \in [Callers -> Call] /\ caller[c].outcome = "locking"
    BY TypedParts DEF Deciding
  <2>2. caller'[c] # caller[c]  BY <2>1
  <2>3. ~UNCHANGED gate /\ ~Tick  BY <2>2 DEF gate, vars, Tick
  <2>4. ASSUME NEW d \in Callers, NEW j \in Judgements, PassBy(d, j[2]) \/ Count(d, j[2])
        PROVE  FALSE
    <3>1. d # c /\ \E call : caller' = [caller EXCEPT ![d] = call]
      BY <2>1, <2>4 DEF PassBy, Count, Begin, Deciding
    <3> QED  BY <2>1, <2>2, <3>1
  <2>5. PICK d \in Callers : Decide(d)  BY <2>3, <2>4 DEF GateNext
  <2>6. caller'[c] = caller[c] \/ d = c
    <3>1. \A kept, b : Admit(d, kept, b) => caller'[c] = caller[c] \/ d = c
      BY <2>1 DEF Admit
    <3>2. \A kept, o, w : Refuse(d, kept, o, w) => caller'[c] = caller[c] \/ d = c
      BY <2>1 DEF Refuse
    <3> QED  BY <2>5, <3>1, <3>2 DEF Decide, CountIn, StartAgain, Track
  <2> QED  BY <2>2, <2>5, <2>6
<1> QED  BY <1>1, Inductive, PTL DEF GateSpec, RefusalsEarned

-----------------------------------------------------------------------------
(* What the loops over routes and addresses compute.                       *)

\* Induction along 0..N, over a set instead of a predicate: otherwise the numbers
\* that are not in P have a least one.
LEMMA Upwards ==
    ASSUME NEW N \in Nat, NEW P, 0 \in P,
           \A n \in 0..N : n < N /\ n \in P => n + 1 \in P
    PROVE  \A n \in 0..N : n \in P
<1> DEFINE Out == {n \in Nat : n \in 0..N /\ n \notin P}
<1> SUFFICES ASSUME Out # {} PROVE FALSE  OBVIOUS
<1>1. Out \subseteq Nat /\ Out # {}  OBVIOUS
<1>2. PICK m \in Out : \A n \in Out : <<n, m>> \notin OpToRel(<, Nat)
  BY <1>1, NatLessThanWellFounded, WFMin
<1>3. m \in Nat /\ m # 0 /\ m \in 0..N /\ m \notin P  BY <1>2
<1>4. m - 1 \in Nat /\ m - 1 \in 0..N /\ m - 1 < N /\ m - 1 + 1 = m /\ m - 1 < m  BY <1>3
<1>5. m - 1 \notin P  BY <1>3, <1>4
<1>6. m - 1 \in Out  BY <1>4, <1>5
<1>7. <<m - 1, m>> \in OpToRel(<, Nat)  BY <1>3, <1>4 DEF OpToRel
<1> QED  BY <1>2, <1>6, <1>7

LEMMA MaxUpTo ==
    ASSUME NEW n \in Nat, n # 0, NEW T, n \in T, T \subseteq 1..n
    PROVE  Max(T) = n
<1>1. \A x \in T : (\A y \in T : x >= y) => x = n  OBVIOUS
<1>2. \A y \in T : n >= y  OBVIOUS
<1> QED  BY <1>1, <1>2 DEF Max

LEMMA MaxAmong ==
    ASSUME NEW N \in Nat, NEW T \in SUBSET (1..N), T # {}
    PROVE  Max(T) \in T /\ \A y \in T : Max(T) >= y
<1> DEFINE P == {n \in 0..N : T \intersect (1..n) # {} =>
                    \E x \in T \intersect (1..n) : \A y \in T \intersect (1..n) : x >= y}
<1>1. 0 \in P  OBVIOUS
<1>2. ASSUME NEW n \in 0..N, n < N, n \in P PROVE n + 1 \in P
  <2>1. n + 1 \in 0..N /\ n \in Nat /\ 1..(n + 1) = (1..n) \union {n + 1}  BY <1>2
  <2>2. CASE n + 1 \in T
    <3>1. n + 1 \in T \intersect (1..(n + 1)) /\ \A y \in T \intersect (1..(n + 1)) : n + 1 >= y
      BY <2>1, <2>2
    <3> QED  BY <2>1, <3>1
  <2>3. CASE n + 1 \notin T
    <3>1. T \intersect (1..(n + 1)) = T \intersect (1..n)  BY <2>1, <2>3
    <3> QED  BY <1>2, <2>1, <3>1
  <2> QED  BY <2>2, <2>3
<1> HIDE DEF P
<1>3. \A n \in 0..N : n \in P  BY <1>1, <1>2, Upwards
<1>4. N \in P  BY <1>3
<1>5. T \intersect (1..N) = T  OBVIOUS
<1>6. \E x \in T : \A y \in T : x >= y  BY <1>4, <1>5 DEF P
<1> QED  BY <1>6 DEF Max

\* A fold over positions 1..N, in the form that the community modules give it.
FoldOver(g, N, A, base, step) ==
    /\ g \in [SUBSET (1..N) -> A]
    /\ \A s \in SUBSET (1..N) :
         /\ s = {} => g[s] = base
         /\ s # {} => g[s] = step[<<Max(s), g[s \ {Max(s)}]>>]

LEMMA FoldExists ==
    ASSUME NEW N \in Nat, NEW A, NEW base \in A, NEW step \in [(1..N) \X A -> A]
    PROVE  \E g : FoldOver(g, N, A, base, step)
<1> DEFINE Fold(g, n) ==
             /\ g \in [SUBSET (1..n) -> A]
             /\ \A s \in SUBSET (1..n) :
                  g[s] = IF s = {} THEN base ELSE step[<<Max(s), g[s \ {Max(s)}]>>]
           P == {n \in 0..N : \E g : Fold(g, n)}
<1>1. 0 \in P
  <2> DEFINE zero == [s \in SUBSET (1..0) |-> base]
  <2>1. \A s \in SUBSET (1..0) : s = {}  OBVIOUS
  <2>2. Fold(zero, 0)  BY <2>1
  <2> HIDE DEF zero, Fold
  <2>3. 0 \in 0..N  OBVIOUS
  <2> QED  BY <2>2, <2>3
<1>2. ASSUME NEW n \in 0..N, n < N, n \in P PROVE n + 1 \in P
  <2>1. PICK g : Fold(g, n)  BY <1>2
  <2>2. n \in Nat /\ n + 1 \in Nat /\ n + 1 \in 1..N /\ n + 1 # 0 /\ n + 1 \in 0..N  BY <1>2
  <2> DEFINE h == [s \in SUBSET (1..(n + 1)) |->
                     IF n + 1 \in s THEN step[<<n + 1, g[s \ {n + 1}]>>] ELSE g[s]]
  <2>3. \A s \in SUBSET (1..(n + 1)) : n + 1 \notin s => s \in SUBSET (1..n)  BY <2>2
  <2>4. \A s \in SUBSET (1..(n + 1)) : s \ {n + 1} \in SUBSET (1..n)  BY <2>2
  <2>5. h \in [SUBSET (1..(n + 1)) -> A]
    <3> SUFFICES ASSUME NEW s \in SUBSET (1..(n + 1)) PROVE h[s] \in A  OBVIOUS
    <3>1. CASE n + 1 \in s
      <4>1. g[s \ {n + 1}] \in A  BY <2>1, <2>4
      <4> QED  BY <2>2, <3>1, <4>1
    <3>2. CASE n + 1 \notin s  BY <2>1, <2>3, <3>2
    <3> QED  BY <3>1, <3>2
  <2>6. ASSUME NEW s \in SUBSET (1..(n + 1))
        PROVE  h[s] = IF s = {} THEN base ELSE step[<<Max(s), h[s \ {Max(s)}]>>]
    <3>1. CASE n + 1 \in s
      <4>1. Max(s) = n + 1  BY <2>2, <3>1, MaxUpTo
      <4>2. h[s \ {n + 1}] = g[s \ {n + 1}]  BY <2>4
      <4>3. h[s] = step[<<n + 1, g[s \ {n + 1}]>>]  BY <3>1
      <4> QED  BY <3>1, <4>1, <4>2, <4>3
    <3>2. CASE n + 1 \notin s
      <4>1. s \in SUBSET (1..n) /\ h[s] = g[s]  BY <2>3, <3>2
      <4>2. s \ {Max(s)} \in SUBSET (1..n) /\ n + 1 \notin s \ {Max(s)}
            /\ s \ {Max(s)} \in SUBSET (1..(n + 1))
        BY <4>1, <3>2
      <4>3. h[s \ {Max(s)}] = g[s \ {Max(s)}]  BY <4>2
      <4>4. g[s] = IF s = {} THEN base ELSE step[<<Max(s), g[s \ {Max(s)}]>>]
        BY <2>1, <4>1
      <4> HIDE DEF h
      <4> QED  BY <4>1, <4>3, <4>4
    <3> QED  BY <3>1, <3>2
  <2> HIDE DEF h
  <2>7. Fold(h, n + 1)  BY <2>5, <2>6
  <2> QED  BY <2>2, <2>7
<1> HIDE DEF Fold, P
<1>3. N \in P
  <2>1. \A n \in 0..N : n \in P  BY <1>1, <1>2, Upwards
  <2> QED  BY <2>1
<1>4. PICK g : Fold(g, N)  BY <1>3 DEF P
<1>5. /\ g \in [SUBSET (1..N) -> A]
      /\ \A s \in SUBSET (1..N) :
           /\ s = {} => g[s] = base
           /\ s # {} => g[s] = step[<<Max(s), g[s \ {Max(s)}]>>]
  BY <1>4 DEF Fold
<1> QED  BY <1>5 DEF FoldOver

\* The routes that are the best so far, one after another.
Successive(best, routes, req) ==
    /\ best[0] = NoRoute
    /\ \A n \in 1..Len(routes) :
         best[n] = IF Compatible(routes[n], req) /\ Better(routes[n], best[n - 1])
                   THEN routes[n] ELSE best[n - 1]
    /\ Match(routes, req) = best[Len(routes)]

LEMMA MatchUnfolds ==
    ASSUME NEW routes, NEW R, routes \in Seq(R), NEW req
    PROVE  \E best : Successive(best, routes, req)
<1> DEFINE N == Len(routes)
           A == R \union {NoRoute}
           Step(n, best) == IF Compatible(routes[n], req) /\ Better(routes[n], best)
                            THEN routes[n] ELSE best
           step == [p \in (1..N) \X A |-> Step(p[1], p[2])]
           Iter(g) == g = [s \in SUBSET (1..N) |->
                            IF s = {} THEN NoRoute
                            ELSE Step(Max(s), g[s \ {Max(s)}])]
           iter == CHOOSE g : Iter(g)
<1>1. N \in Nat /\ DOMAIN routes = 1..N /\ \A n \in 1..N : routes[n] \in R  OBVIOUS
<1>2. Match(routes, req) = iter[1..N]
  BY <1>1 DEF Match, FoldLeft, MapThenFoldSet
<1>3. Iter(iter)
  <2>1. step \in [(1..N) \X A -> A]
    <3> SUFFICES ASSUME NEW n \in 1..N, NEW best \in A PROVE Step(n, best) \in A
      OBVIOUS
    <3> QED  BY <1>1
  <2>2. PICK g : FoldOver(g, N, A, NoRoute, step)
    <3> HIDE DEF step, Step
    <3>1. NoRoute \in A  OBVIOUS
    <3>2. N \in Nat  BY <1>1
    <3> HIDE DEF A, N
    <3> QED  BY <2>1, <3>1, <3>2, FoldExists
  <2>3. ASSUME NEW s \in SUBSET (1..N), s # {}
        PROVE  step[<<Max(s), g[s \ {Max(s)}]>>] = Step(Max(s), g[s \ {Max(s)}])
    <3>1. Max(s) \in 1..N  BY <1>1, <2>3, MaxAmong
    <3>2. g[s \ {Max(s)}] \in A
      <4> HIDE DEF A
      <4> QED  BY <2>2 DEF FoldOver
    <3> HIDE DEF A, Step, N
    <3> QED  BY <3>1, <3>2 DEF step
  <2>4. Iter(g)
    <3> HIDE DEF step, Step, A, N
    <3>1. \A s \in SUBSET (1..N) :
            g[s] = IF s = {} THEN NoRoute ELSE Step(Max(s), g[s \ {Max(s)}])
      BY <2>2, <2>3 DEF FoldOver
    <3>2. g = [s \in SUBSET (1..N) |-> g[s]]  BY <2>2 DEF FoldOver
    <3> QED  BY <3>1, <3>2
  <2> HIDE DEF Iter
  <2> QED  BY <2>4
<1> DEFINE best == [n \in 0..N |-> iter[1..n]]
<1>4. best[0] = NoRoute /\ 0 \in 0..N /\ N \in 0..N
  <2>1. 1..0 = {} /\ 0 \in 0..N /\ N \in 0..N  BY <1>1
  <2>2. iter[{}] = NoRoute
    <3> HIDE DEF iter, Step
    <3> QED  BY <1>3
  <2> HIDE DEF iter
  <2> QED  BY <2>1, <2>2
<1>5. ASSUME NEW n \in 1..N
      PROVE  /\ best[n] = Step(n, best[n - 1])
             /\ n - 1 \in 0..N /\ n - 1 < N /\ n \in 0..N
  <2>1. 1..n \in SUBSET (1..N) /\ n \in 1..n /\ n \in Nat /\ n # 0 /\ n \in 0..N
        /\ n - 1 \in 0..N /\ n - 1 < N /\ (1..n) \ {n} = 1..(n - 1)
    BY <1>1
  <2>2. Max(1..n) = n  BY <2>1, MaxUpTo
  <2>3. iter[1..n] = Step(Max(1..n), iter[(1..n) \ {Max(1..n)}])
    <3> HIDE DEF iter, Step, N
    <3>1. 1..n # {}  BY <2>1
    <3> QED  BY <1>3, <2>1, <3>1
  <2> HIDE DEF iter, Step
  <2> QED  BY <2>1, <2>2, <2>3
<1>6. Match(routes, req) = best[N]  BY <1>2, <1>4
<1> HIDE DEF best, iter
<1>7. Successive(best, routes, req)  BY <1>4, <1>5, <1>6 DEF Successive
<1> QED  BY <1>7

-----------------------------------------------------------------------------
LEMMA LengthType ==
    ASSUME NEW prefix \in Seq(STRING)
    PROVE  Length(prefix) \in Int
<1>1. Len(prefix) \in Nat  OBVIOUS
<1> QED  BY <1>1 DEF Length

LEMMA TableTyped ==
    ASSUME NEW t \in Tables
    PROVE  /\ RoutesOf[t] \in Seq(Range(RoutesOf[t]) \ {NoRoute})
           /\ Len(RoutesOf[t]) \in Nat /\ DOMAIN RoutesOf[t] = 1..Len(RoutesOf[t])
           /\ \A n \in 1..Len(RoutesOf[t]) :
                RoutesOf[t][n] # NoRoute /\ RoutesOf[t][n] \in Range(RoutesOf[t])
           /\ \A r \in Range(RoutesOf[t]) :
                /\ r # NoRoute /\ r.prefix \in Seq(STRING) /\ Length(r.prefix) \in Int
                /\ \E n \in 1..Len(RoutesOf[t]) : r = RoutesOf[t][n]
<1>1. /\ RoutesOf[t] \in Seq(Range(RoutesOf[t]) \ {NoRoute})
      /\ \A r \in Range(RoutesOf[t]) : r.prefix \in Seq(STRING)
  BY GateAssumption
<1>2. /\ Len(RoutesOf[t]) \in Nat /\ DOMAIN RoutesOf[t] = 1..Len(RoutesOf[t])
      /\ \A n \in 1..Len(RoutesOf[t]) : RoutesOf[t][n] \in Range(RoutesOf[t]) \ {NoRoute}
  BY <1>1
<1>3. \A r \in Range(RoutesOf[t]) : \E n \in 1..Len(RoutesOf[t]) : r = RoutesOf[t][n]
  BY <1>2 DEF Range
<1>4. \A r \in Range(RoutesOf[t]) : r # NoRoute  BY <1>2, <1>3
<1> QED  BY <1>1, <1>2, <1>3, <1>4, LengthType

\* r is at least as long as other and yields to none of its length.
Over(r, other) ==
    /\ Length(r.prefix) >= Length(other.prefix)
    /\ Length(r.prefix) = Length(other.prefix) /\ r.host = AnyHost => other.host = AnyHost

\* What the loop of Match knows after the routes in done: best is the best of them.
BestOf(best, done, req) ==
    /\ best = NoRoute => \A r \in done : ~Compatible(r, req)
    /\ best # NoRoute => /\ best \in done /\ Compatible(best, req)
                         /\ \A r \in done : Compatible(r, req) => Over(best, r)

\* One more route: it replaces the best so far only if it is more specific, and
\* the best is then again one that is over all others.
LEMMA BestOfStep ==
    ASSUME NEW done, NEW best, NEW r, NEW req, BestOf(best, done, req), r # NoRoute,
           \A s \in done \union {r} : Length(s.prefix) \in Int,
           NEW next, next = IF Compatible(r, req) /\ Better(r, best) THEN r ELSE best
    PROVE  BestOf(next, done \union {r}, req)
<1> USE DEF BestOf
<1>1. Over(r, r)  BY DEF Over
<1>2. CASE ~Compatible(r, req)  BY <1>2
<1>3. CASE Compatible(r, req) /\ best = NoRoute
  <2>1. Better(r, best)  BY <1>3 DEF Better
  <2> QED  BY <1>1, <1>3, <2>1
<1>4. CASE Compatible(r, req) /\ best # NoRoute
  <2> DEFINE a == Length(r.prefix)
             b == Length(best.prefix)
  <2>1. a \in Int /\ b \in Int /\ best \in done /\ Compatible(best, req)
    BY <1>4
  <2>2. Better(r, best) <=> a > b \/ (a = b /\ best.host = AnyHost /\ r.host # AnyHost)
    BY <1>4 DEF Better, Preferred
  <2>3. CASE Better(r, best)
    <3>1. ASSUME NEW s \in done, Compatible(s, req) PROVE Over(r, s)
      <4>1. Over(best, s) /\ Length(s.prefix) \in Int  BY <1>4, <3>1
      <4> HIDE DEF BestOf
      <4> QED  BY <2>1, <2>2, <2>3, <4>1 DEF Over
    <3> QED  BY <1>1, <1>4, <2>3, <3>1
  <2>4. CASE ~Better(r, best)
    <3>1. Over(best, r)
      <4> HIDE DEF BestOf
      <4> QED  BY <2>1, <2>2, <2>4 DEF Over
    <3> QED  BY <1>4, <2>4, <3>1
  <2> QED  BY <2>3, <2>4
<1> QED  BY <1>2, <1>3, <1>4

\* Match finds the most specific route, or none where there is none.
LEMMA MatchIsBest ==
    ASSUME NEW t \in Tables, NEW req
    PROVE  /\ Match(RoutesOf[t], req) = NoRoute => Takeable(t, req) = {}
           /\ Match(RoutesOf[t], req) # NoRoute => Match(RoutesOf[t], req) \in Best(t, req)
<1> DEFINE routes == RoutesOf[t]
           N == Len(routes)
           Done(n) == {routes[m] : m \in 1..n}
<1>1. /\ routes \in Seq(Range(routes) \ {NoRoute}) /\ N \in Nat
      /\ \A n \in 1..N : routes[n] # NoRoute /\ routes[n] \in Range(routes)
      /\ \A r \in Range(routes) : /\ r # NoRoute /\ r.prefix \in Seq(STRING)
                                  /\ Length(r.prefix) \in Int
                                  /\ \E n \in 1..N : r = routes[n]
  BY TableTyped
<1> HIDE DEF routes
<1>2. PICK best : Successive(best, routes, req)  BY <1>1, MatchUnfolds
<1> DEFINE P == {n \in 0..N : BestOf(best[n], Done(n), req)}
<1>3. 0 \in P
  <2>1. Done(0) = {}  OBVIOUS
  <2>2. BestOf(best[0], Done(0), req)  BY <1>2, <2>1 DEF BestOf, Successive
  <2> QED  BY <1>1, <2>2
<1>4. ASSUME NEW n \in 0..N, n < N, n \in P PROVE n + 1 \in P
  <2>9. n + 1 \in 1..N
    <3>1. N \in Nat /\ n \in 0..N /\ n < N  BY <1>1, <1>4
    <3> HIDE DEF N, P
    <3> QED  BY <3>1
  <2>1. PICK m \in 1..N : m = n + 1  BY <2>9
  <2>7. m - 1 = n /\ m \in 0..N  BY <1>1, <2>1
  <2>8. 1..m = (1..n) \union {m}
    <3>1. n \in Nat  BY <1>1
    <3>2. 1..(n + 1) = (1..n) \union {n + 1}  BY <3>1
    <3> QED  BY <2>1, <3>2
  <2>2. Done(m) = Done(n) \union {routes[m]}  BY <2>8
  <2>3. best[m] = IF Compatible(routes[m], req) /\ Better(routes[m], best[n])
                  THEN routes[m] ELSE best[n]
    BY <1>2, <2>7 DEF Successive
  <2>4. \A s \in Done(n) \union {routes[m]} : Length(s.prefix) \in Int
    <3>1. \A k \in 1..m : k \in 1..N  BY <1>1
    <3> QED  BY <1>1, <2>8, <3>1
  <2>5. BestOf(best[n], Done(n), req) /\ routes[m] # NoRoute  BY <1>1, <1>4
  <2> HIDE DEF Done
  <2>6. BestOf(best[m], Done(m), req)
    <3> DEFINE r == routes[m]  b == best[n]  next == best[m]
    <3>1. next = IF Compatible(r, req) /\ Better(r, b) THEN r ELSE b  BY <2>3
    <3>2. r # NoRoute /\ BestOf(b, Done(n), req)  BY <2>5
    <3>3. \A s \in Done(n) \union {r} : Length(s.prefix) \in Int  BY <2>4
    <3> HIDE DEF r, b, next
    <3>4. BestOf(next, Done(n) \union {r}, req)  BY <3>1, <3>2, <3>3, BestOfStep
    <3> QED  BY <2>2, <3>4 DEF r, next
  <2> QED  BY <2>1, <2>7, <2>6
<1> HIDE DEF P
<1>5. \A n \in 0..N : n \in P  BY <1>1, <1>3, <1>4, Upwards
<1>6. N \in 0..N  BY <1>1
<1>7. BestOf(best[N], Done(N), req)  BY <1>5, <1>6 DEF P
<1>8. Done(N) = Range(routes)  BY <1>1
<1>9. Takeable(t, req) = {r \in Range(routes) : Compatible(r, req)}
  BY DEF Takeable, Compatible, Normalized, routes
<1> HIDE DEF Done, N
<1>10. CASE best[N] = NoRoute
  BY <1>2, <1>7, <1>8, <1>9, <1>10 DEF BestOf, Successive, routes, N
<1>11. CASE best[N] # NoRoute
  <2>1. best[N] \in Takeable(t, req)  BY <1>7, <1>8, <1>9, <1>11 DEF BestOf
  <2>2. ASSUME NEW other \in Takeable(t, req) PROVE AtLeast(best[N], other)
    <3>1. Over(best[N], other)  BY <1>7, <1>8, <1>9, <1>11 DEF BestOf
    <3> QED  BY <3>1 DEF Over, AtLeast
  <2> QED  BY <1>2, <1>11, <2>1, <2>2 DEF Best, Successive, routes, N
<1> QED  BY <1>10, <1>11

-----------------------------------------------------------------------------
\* A prefix that matches a path of no greater length is that path.
LEMMA LongestIsWhole ==
    ASSUME NEW prefix \in Seq(STRING), NEW path \in Seq(STRING), prefix # <<>>, path # <<>>,
           PathMatches(prefix, path), Length(prefix) >= Length(path)
    PROVE  prefix = path
<1> SUFFICES ASSUME prefix # path PROVE FALSE  OBVIOUS
<1> DEFINE T == Trimmed(prefix)
           m == Len(prefix)
           n == Len(path)
<1>1. m \in Nat /\ m > 0 /\ n \in Nat /\ n > 0  OBVIOUS
<1>2. IsPrefix(T, path) /\ T # path  BY DEF PathMatches, IsStrictPrefix
<1>3. ASSUME NEW k \in Nat, k <= m, k <= n, SubSeq(prefix, 1, k) = SubSeq(path, 1, k),
             NEW i \in 1..k
      PROVE  prefix[i] = path[i]
  <2>1. SubSeq(prefix, 1, k)[i] = prefix[i] /\ SubSeq(path, 1, k)[i] = path[i]
    BY <1>1, <1>3
  <2> QED  BY <1>3, <2>1
<1>4. ASSUME NEW p \in Seq(STRING)
      PROVE  /\ Last(p) = "" => Length(p) = 2 * Len(p) - 1
             /\ Last(p) # "" => Length(p) = 2 * Len(p)
  <2>1. Len(p) \in Nat  OBVIOUS
  <2>2. Last(p) = "" => Length(p) = 2 * Len(p) - 1  BY DEF Length
  <2>3. Last(p) # "" => Length(p) = 2 * Len(p) - 0  BY DEF Length
  <2>4. 2 * Len(p) - 0 = 2 * Len(p)  BY <2>1
  <2> QED  BY <2>2, <2>3, <2>4
<1>7. Length(prefix) >= Length(path)  OBVIOUS
<1>8. /\ Last(prefix) = "" => Length(prefix) = 2 * m - 1
      /\ Last(prefix) # "" => Length(prefix) = 2 * m
      /\ Last(path) = "" => Length(path) = 2 * n - 1
      /\ Last(path) # "" => Length(path) = 2 * n
  BY <1>4
<1>5. CASE Last(prefix) # ""
  <2>1. T = prefix  BY <1>5 DEF Trimmed
  <2>2. m <= n /\ SubSeq(prefix, 1, m) = SubSeq(path, 1, m)  BY <1>2, <2>1 DEF IsPrefix
  <2>3. m = n
    <3> HIDE DEF m, n
    <3>1. Length(prefix) = 2 * m  BY <1>5, <1>8
    <3>2. Length(path) = 2 * n \/ Length(path) = 2 * n - 1  BY <1>8
    <3>3. 2 * m >= 2 * n - 1  BY <1>1, <1>7, <3>1, <3>2
    <3> QED  BY <1>1, <2>2, <3>3
  <2>4. \A i \in 1..m : prefix[i] = path[i]  BY <1>1, <1>3, <2>2
  <2> QED  BY <1>1, <2>3, <2>4
<1>6. CASE Last(prefix) = ""
  <2>1. T = SubSeq(prefix, 1, m - 1)  BY <1>6 DEF Trimmed, Front
  <2>2. T \in Seq(STRING) /\ Len(T) = m - 1 /\ m - 1 \in Nat
        /\ \A i \in 1..(m - 1) : T[i] = prefix[i]
    <3>1. m - 1 \in Nat /\ \A i \in 1..(m - 1) : prefix[i] \in STRING  BY <1>1
    <3> DEFINE k == m - 1
    <3>2. k \in Nat /\ \A i \in 1..k : prefix[i] \in STRING  BY <3>1
    <3> HIDE DEF k
    <3>3. /\ SubSeq(prefix, 1, k) \in Seq(STRING) /\ Len(SubSeq(prefix, 1, k)) = k
          /\ \A i \in 1..k : SubSeq(prefix, 1, k)[i] = prefix[i]
      BY <3>2
    <3> QED  BY <2>1, <3>1, <3>3 DEF k
  <2> HIDE DEF T
  <2>3. m - 1 <= n /\ SubSeq(T, 1, m - 1) = SubSeq(path, 1, m - 1)
    BY <1>2, <2>2 DEF IsPrefix
  <2>4. \A i \in 1..(m - 1) : T[i] = path[i]
    <3> SUFFICES ASSUME NEW i \in 1..(m - 1) PROVE T[i] = path[i]  OBVIOUS
    <3>1. SubSeq(T, 1, m - 1)[i] = T[i] /\ SubSeq(path, 1, m - 1)[i] = path[i]
      BY <1>1, <2>2, <2>3
    <3> QED  BY <2>3, <3>1
  <2>5. m - 1 # n
    <3> SUFFICES ASSUME m - 1 = n PROVE FALSE  OBVIOUS
    <3>1. T = path  BY <2>2, <2>4
    <3> QED  BY <1>2, <3>1
  <2>6. m = n /\ Length(path) = 2 * n - 1
    <3> HIDE DEF m, n
    <3>1. Length(prefix) = 2 * m - 1  BY <1>6, <1>8
    <3>2. m <= n  BY <1>1, <2>3, <2>5
    <3>3. Length(path) # 2 * n  BY <1>1, <1>7, <3>1, <3>2
    <3>4. Length(path) = 2 * n - 1  BY <1>8, <3>3
    <3>5. 2 * m - 1 >= 2 * n - 1  BY <1>7, <3>1, <3>4
    <3> QED  BY <1>1, <3>2, <3>4, <3>5
  <2>7. Last(path) = ""
    <3>1. 2 * n - 1 # 2 * n  BY <1>1
    <3> QED  BY <1>8, <2>6, <3>1
  <2>8. ASSUME NEW i \in 1..m PROVE prefix[i] = path[i]
    <3>1. CASE i = m
      <4>1. prefix[m] = "" /\ path[n] = ""  BY <1>6, <2>7 DEF Last
      <4> QED  BY <2>6, <3>1, <4>1
    <3>2. CASE i # m
      <4>1. i \in 1..(m - 1)  BY <1>1, <3>2
      <4> QED  BY <2>2, <2>4, <4>1
    <3> QED  BY <3>1, <3>2
  <2> QED  BY <1>1, <2>6, <2>8
<1> QED  BY <1>5, <1>6

\* A request made for a route that is not forsaken gets through and passes, by that
\* route.
LEMMA FittingPasses ==
    ASSUME NEW t \in Loaded, NEW s \in Range(RoutesOf[t]), ~Forsaken(RoutesOf[t], s)
    PROVE  /\ Sendable(Fitting(s))
           /\ Verdict(t, Fitting(s)) = "passed" /\ Taken(t, Fitting(s)) = {s.name}
<1> DEFINE routes == RoutesOf[t]
           req == Fitting(s)
           best == Match(routes, req)
<1>1. t \in Tables /\ Accepted(routes)  BY DEF Loaded
<1>2. /\ DOMAIN routes = 1..Len(routes)
      /\ \A r \in Range(routes) : /\ r # NoRoute /\ r.prefix \in Seq(STRING)
                                  /\ \E n \in 1..Len(routes) : r = routes[n]
  BY <1>1, TableTyped
<1>3. \A r \in Range(routes) :
        SoundRoute(r) /\ (r.host = AnyHost \/ r.host.name # Nowhere.name)
  BY <1>1, <1>2, GateAssumption DEF Accepted
<1>4. \A r, other \in Range(routes) : r # other => Distinct(r, other)
  <2> SUFFICES ASSUME NEW r \in Range(routes), NEW other \in Range(routes), r # other
               PROVE  Distinct(r, other)
    OBVIOUS
  <2>1. PICK a \in 1..Len(routes), b \in 1..Len(routes) : r = routes[a] /\ other = routes[b]
    BY <1>2
  <2>2. a # b /\ a \in DOMAIN routes /\ b \in DOMAIN routes  BY <1>2, <2>1
  <2> HIDE DEF routes
  <2> QED  BY <1>1, <2>1, <2>2 DEF Accepted
<1>5. /\ ~req.large /\ req.path = s.prefix
      /\ s.host = AnyHost => req.host = Nowhere
      /\ s.host # AnyHost => req.host.name = s.host.name
      /\ DOMAIN req.headers = s.policy.required
  BY DEF Fitting
<1>6. SafePath(req.path)
  BY <1>3, <1>5 DEF SafePath, Forsaken, SoundRoute, SoundPrefix, AmbiguousPath
<1> HIDE DEF req
<1>7. Sendable(req)
  <2>1. req.host.name \notin Malformed
    BY <1>5, GateAssumption DEF Forsaken
  <2>2. s.policy.required \intersect Withheld = {}  BY DEF Forsaken
  <2> QED  BY <1>5, <2>1, <2>2 DEF Sendable
<1>8. s \in Takeable(t, req)
  BY <1>5 DEF Takeable, PathMatches
<1>9. best \in Best(t, req) /\ best \in Range(routes)
  <2>1. best # NoRoute  BY <1>1, <1>8, MatchIsBest
  <2> QED  BY <1>1, <2>1, MatchIsBest DEF Best, Takeable
<1> HIDE DEF best
<1>10. best.prefix = s.prefix
  <2>1. AtLeast(best, s) /\ PathMatches(best.prefix, s.prefix)
    BY <1>5, <1>8, <1>9 DEF Best, Takeable
  <2>2. best.prefix # <<>> /\ s.prefix # <<>>
    BY <1>3, <1>9 DEF SoundRoute, SoundPrefix
  <2>3. best.prefix \in Seq(STRING) /\ s.prefix \in Seq(STRING)
    BY <1>2, <1>9
  <2> QED  BY <2>1, <2>2, <2>3, LongestIsWhole DEF AtLeast
<1>11. best = s
  <2> SUFFICES ASSUME best # s PROVE FALSE  OBVIOUS
  <2>1. ConfiguredHost(best.host) # ConfiguredHost(s.host)
    BY <1>4, <1>9, <1>10 DEF Distinct
  <2>2. CASE s.host = AnyHost
    <3>1. best.host = AnyHost \/ best.host.name = Nowhere.name
      BY <1>5, <1>9, <2>2 DEF Best, Takeable
    <3>2. best.host = AnyHost  BY <1>3, <1>9, <3>1
    <3> QED  BY <2>1, <2>2, <3>2
  <2>3. CASE s.host # AnyHost
    <3>1. best.host # AnyHost
      <4>1. AtLeast(best, s)  BY <1>8, <1>9 DEF Best
      <4> QED  BY <1>10, <2>3, <4>1 DEF AtLeast
    <3>2. best.host.name = s.host.name
      BY <1>5, <1>9, <2>3, <3>1 DEF Best, Takeable
    <3>3. /\ best.host.port => best.host.trail = ""
          /\ s.host.port => s.host.trail = ""
      <4>1. \A h \in {best.host, s.host} : ~(h.trail # "" /\ h.port)
        BY <1>9, <1>10, <2>3, <3>2 DEF Forsaken
      <4> QED  BY <4>1
    <3>4. ConfiguredHost(best.host) = ConfiguredHost(s.host)
      BY <3>2, <3>3 DEF ConfiguredHost
    <3> QED  BY <2>1, <3>4
  <2> QED  BY <2>2, <2>3
<1>12. ~Denied(s.policy, req)
  <2> DEFINE policy == s.policy
  <2>1. SoundPolicy(policy)  BY <1>3 DEF SoundRoute
  <2>2. /\ req.query = 0 /\ req.headers = [h \in policy.required |-> "set"]
        /\ policy.methods # {} => req.method \in policy.methods
    BY DEF Fitting, req
  <2>3. ~(policy.maxQuery > 0 /\ req.query > policy.maxQuery)
    BY <2>1, <2>2 DEF SoundPolicy
  <2>4. ~\E prefix \in policy.deniedPrefixes : PathMatches(prefix, req.path)
    BY <1>5 DEF Forsaken
  <2>5. ~\E h \in policy.required : h \notin DOMAIN req.headers \/ req.headers[h] = "blank"
    BY <2>2
  <2>6. ~\E h \in policy.denied : h \in DOMAIN req.headers
    BY <2>1, <2>2 DEF SoundPolicy
  <2> HIDE DEF policy
  <2> QED  BY <2>2, <2>3, <2>4, <2>5, <2>6 DEF Denied, policy
<1>13. Verdict(t, req) = "passed"
  <2>1. best # NoRoute  BY <1>2, <1>9
  <2> QED  BY <1>5, <1>6, <1>11, <1>12, <2>1 DEF Verdict, best
<1>14. Taken(t, req) = {s.name}  BY <1>11, <1>13 DEF Taken, best
<1> QED  BY <1>13, <1>14, <1>7 DEF req

-----------------------------------------------------------------------------
\* The last element of a chain that is a foreigner, in terms of the chain alone.
LEMMA ForeignIsLast ==
    ASSUME NEW A, NEW chain \in Seq(A)
    PROVE  /\ (\E i \in 1..Len(chain) : Foreigner(chain[i])) =>
                /\ Foreign(chain) \in 1..Len(chain) /\ Foreigner(chain[Foreign(chain)])
                /\ \A i \in 1..Len(chain) : Foreigner(chain[i]) => i <= Foreign(chain)
           /\ (~\E i \in 1..Len(chain) : Foreigner(chain[i])) => Foreign(chain) = 0
<1> DEFINE I == {i \in 1..Len(chain) : Foreigner(chain[i])}
<1>1. Foreign(chain) = IF I # {} THEN Max(I) ELSE 0  BY DEF Foreign, SelectLastInSeq
<1>2. I # {} => Max(I) \in I /\ \A y \in I : Max(I) >= y
  <2>1. Len(chain) \in Nat /\ I \in SUBSET (1..Len(chain))  OBVIOUS
  <2> HIDE DEF I
  <2> QED  BY <2>1, MaxAmong
<1>3. \A y \in I : y \in Nat  OBVIOUS
<1> QED  BY <1>1, <1>2, <1>3

\* What a client puts in front of the addresses that were appended for it does not
\* become its address.
LEMMA ClaimIgnored ==
    ASSUME NEW A, NEW entries \in Seq(A), NEW claim \in A,
           \E i \in 1..Len(entries) : Foreigner(entries[i])
    PROVE  /\ FromForwarded(<<claim>> \o entries) = FromForwarded(entries)
           /\ FromForwarded(entries) # Invalid
<1> DEFINE longer == <<claim>> \o entries
           N == Len(entries)
           last == Foreign(entries)
<1>1. /\ longer \in Seq(A) /\ Len(longer) = N + 1 /\ N \in Nat
      /\ \A i \in 1..N : longer[i + 1] = entries[i]
  OBVIOUS
<1>2. /\ last \in 1..N /\ Foreigner(entries[last])
      /\ \A i \in 1..N : Foreigner(entries[i]) => i <= last
  BY ForeignIsLast
<1> HIDE DEF longer
<1>3. last + 1 \in 1..(N + 1) /\ Foreigner(longer[last + 1])
  BY <1>1, <1>2
<1>4. \E i \in 1..Len(longer) : Foreigner(longer[i])  BY <1>1, <1>3
<1>5. /\ Foreign(longer) \in 1..(N + 1) /\ Foreigner(longer[Foreign(longer)])
      /\ \A i \in 1..(N + 1) : Foreigner(longer[i]) => i <= Foreign(longer)
  BY <1>1, <1>4, ForeignIsLast
<1> HIDE DEF last
<1>6. Foreign(longer) = last + 1
  <2>1. last + 1 <= Foreign(longer)  BY <1>3, <1>5
  <2>2. PICK k \in Nat : k = Foreign(longer) - 1 /\ k \in 1..N /\ Foreign(longer) = k + 1
    BY <1>1, <1>2, <1>5, <2>1
  <2>3. Foreigner(entries[k])  BY <1>1, <1>5, <2>2
  <2>4. k <= last  BY <1>2, <2>2, <2>3
  <2> QED  BY <1>2, <2>1, <2>2, <2>4
<1>7. longer[last + 1] = entries[last] /\ last # 0 /\ last + 1 # 0  BY <1>1, <1>2
<1>8. FromForwarded(entries) = entries[last]  BY <1>7 DEF FromForwarded, last
<1>9. FromForwarded(longer) = longer[last + 1]  BY <1>6, <1>7 DEF FromForwarded
<1>10. entries[last] # Invalid  BY <1>2 DEF Foreigner
<1> QED  BY <1>7, <1>8, <1>9, <1>10 DEF longer

\* Whoever is named by the first header is the client.
LEMMA FirstHeaderCounts ==
    ASSUME NEW req, req.peer \in TrustedProxies, ClientHeaders # <<>>,
           Named(Head(ClientHeaders), req) # Invalid
    PROVE  Identity(req) = Named(Head(ClientHeaders), req)
<1> DEFINE N == Len(ClientHeaders)
           I == {i \in 1..N : Named(ClientHeaders[i], req) # Invalid}
           usable == SelectInSeq(ClientHeaders, LAMBDA h : Named(h, req) # Invalid)
<1>1. ClientHeaders \in Seq({"x-forwarded-for", "x-real-ip"}) /\ Invalid \notin TrustedProxies
  BY RoutingAssumption
<1>2. N \in Nat /\ 1 \in 1..N /\ Head(ClientHeaders) = ClientHeaders[1]  BY <1>1
<1>3. 1 \in I /\ \A i \in I : 1 <= i  BY <1>2
<1>4. usable = IF I # {} THEN Min(I) ELSE 0  BY DEF SelectInSeq
<1> HIDE DEF I
<1>5. Min(I) = 1
  <2>1. \A x \in I : (\A y \in I : x =< y) => x = 1  BY <1>3 DEF I
  <2> QED  BY <1>3, <2>1 DEF Min
<1>6. usable = 1  BY <1>3, <1>4, <1>5
<1>7. Identity(req) = IF req.peer = Invalid THEN "unknown"
                      ELSE IF req.peer \notin TrustedProxies \/ usable = 0 THEN req.peer
                      ELSE Named(ClientHeaders[usable], req)
  BY DEF Identity
<1> HIDE DEF usable
<1> QED  BY <1>1, <1>2, <1>6, <1>7

LEMMA ClaimsIgnored ==
    ASSUME NEW req \in Requests, NamesClient(req), NEW claim \in Address
    PROVE  Identity(Claiming(req, claim)) = Identity(req)
<1> DEFINE other == Claiming(req, claim)
           h == Head(ClientHeaders)
<1>1. req.forwarded \in Seq(Address)  BY GateAssumption
<1>2. /\ other.peer = req.peer /\ other.forwarded = <<claim>> \o req.forwarded
      /\ other.realIP = req.realIP
  <2>1. req \in [large : BOOLEAN, host : {req.host}, path : Seq(STRING),
                 query : Nat, method : STRING, headers : {req.headers},
                 peer : Address, forwarded : Seq(Address), realIP : Address]
    BY GateAssumption
  <2> QED  BY <2>1 DEF Claiming
<1>3. req.peer \in TrustedProxies /\ h = "x-forwarded-for"
  BY DEF NamesClient
<1>4. ClientHeaders # <<>>  BY <1>3, RoutingAssumption
<1>5. \E i \in 1..Len(req.forwarded) : Foreigner(req.forwarded[i])
  <2>1. DOMAIN req.forwarded = 1..Len(req.forwarded)  BY <1>1
  <2> QED  BY <2>1 DEF NamesClient, Range, Foreigner
<1>6. /\ FromForwarded(other.forwarded) = FromForwarded(req.forwarded)
      /\ FromForwarded(req.forwarded) # Invalid
  <2> DEFINE entries == req.forwarded
  <2>1. entries \in Seq(Address) /\ \E i \in 1..Len(entries) : Foreigner(entries[i])
    BY <1>1, <1>5
  <2> HIDE DEF entries
  <2>2. /\ FromForwarded(<<claim>> \o entries) = FromForwarded(entries)
        /\ FromForwarded(entries) # Invalid
    BY <2>1, ClaimIgnored
  <2> QED  BY <1>2, <2>2 DEF entries
<1>7. Named(h, other) = Named(h, req) /\ Named(h, req) # Invalid
  BY <1>3, <1>6 DEF Named
<1> HIDE DEF other
<1>8. Identity(req) = Named(h, req)  BY <1>3, <1>4, <1>7, FirstHeaderCounts
<1>9. Identity(other) = Named(h, other)  BY <1>2, <1>3, <1>4, <1>7, FirstHeaderCounts
<1> QED  BY <1>7, <1>8, <1>9 DEF other

-----------------------------------------------------------------------------
(* What requests come to.                                                  *)

\* What was asked is what the loaded table makes of a request, and whoever calls
\* the limiter was passed on to it under its identity.
AskedSound ==
    /\ table \in Loaded
    /\ asked \in [Callers -> {Unasked} \union {j[2] : j \in Judgements}]
    /\ \A c \in Callers :
         caller[c].outcome # "idle" => asked[c].counted /\ caller[c].key = asked[c].client

LEMMA DecideKeepsKeys ==
    ASSUME IInv, NEW c \in Callers, Decide(c), NEW d \in Callers
    PROVE  caller'[d].key = caller[d].key /\ (caller[d].outcome = "idle" => caller'[d].outcome = "idle")
<1> USE TypedParts
<1>1. caller \in [Callers -> Call] /\ caller[c].outcome = "locking"
  BY DEF Decide, Deciding, CountIn, StartAgain, Track
<1>2. ASSUME NEW o, caller' = [caller EXCEPT ![c].outcome = o]
      PROVE  caller'[d].key = caller[d].key /\ (caller[d].outcome = "idle" => caller'[d].outcome = "idle")
  <2>1. caller'[d] = IF d = c THEN [caller[c] EXCEPT !.outcome = o] ELSE caller[d]
    BY <1>1, <1>2
  <2> QED  BY <1>1, <2>1 DEF Call
<1>3. ASSUME NEW o, NEW w, caller' = [caller EXCEPT ![c].outcome = o, ![c].wait = w]
      PROVE  caller'[d].key = caller[d].key /\ (caller[d].outcome = "idle" => caller'[d].outcome = "idle")
  <2>1. caller'[d] = IF d = c THEN [caller[c] EXCEPT !.outcome = o, !.wait = w] ELSE caller[d]
    BY <1>1, <1>3
  <2> QED  BY <1>1, <2>1 DEF Call
<1>4. \/ \E o : caller' = [caller EXCEPT ![c].outcome = o]
      \/ \E o, w : caller' = [caller EXCEPT ![c].outcome = o, ![c].wait = w]
  BY DEF Decide, CountIn, StartAgain, Track, Admit, Refuse
<1> QED  BY <1>2, <1>3, <1>4

LEMMA AskedInit == GateInit => AskedSound
BY DEF GateInit, Init, AskedSound, NoCall

LEMMA AskedStep ==
    ASSUME IInv, AskedSound, [GateNext]_gate
    PROVE  AskedSound'
<1> USE TypedParts
<1>1. caller \in [Callers -> Call]  OBVIOUS
<1>2. CASE UNCHANGED gate  BY <1>2 DEF gate, vars, AskedSound
<1>3. ASSUME NEW c \in Callers, NEW j \in Judgements, PassBy(c, j[2]) PROVE AskedSound'
  <2>1. caller'[c].outcome = "idle" /\ \A d \in Callers \ {c} : caller'[d] = caller[d]
    BY <1>1, <1>3 DEF PassBy, NoCall
  <2> QED  BY <1>1, <1>3, <2>1 DEF PassBy, AskedSound
<1>4. ASSUME NEW c \in Callers, NEW j \in Judgements, Count(c, j[2]) PROVE AskedSound'
  <2>1. caller'[c].key = j[2].client /\ \A d \in Callers \ {c} : caller'[d] = caller[d]
    BY <1>1, <1>4 DEF Count, Begin
  <2> QED  BY <1>1, <1>4, <2>1 DEF Count, AskedSound
<1>5. ASSUME UNCHANGED <<table, asked>>, Tick PROVE AskedSound'
  BY <1>5 DEF Tick, AskedSound
<1>6. ASSUME UNCHANGED <<table, asked>>, NEW c \in Callers, Decide(c) PROVE AskedSound'
  BY <1>6, DecideKeepsKeys DEF AskedSound
<1> QED  BY <1>2, <1>3, <1>4, <1>5, <1>6 DEF GateNext

\* The table in use was accepted, what callers were told comes from it, and those
\* who are counted are counted under the identity that was found for them.
THEOREM AskedOfTable == GateSpec => []AskedSound
<1>1. GateInit => AskedSound  BY AskedInit
<1>2. IInv /\ AskedSound /\ [GateNext]_gate => AskedSound'  BY AskedStep
<1> QED  BY <1>1, <1>2, Inductive, PTL DEF GateSpec

\* For any table of routes, in any order: the route that a request takes is the
\* most specific of those it can take, and 404 means that there is none.
THEOREM MostSpecificIsTaken == GateSpec => []MostSpecificRoute
<1>1. AskedSound => MostSpecificRoute
  <2> SUFFICES ASSUME AskedSound, NEW c \in Callers
               PROVE  /\ asked[c].taken \subseteq asked[c].best
                      /\ asked[c].verdict = "route_not_found" => asked[c].best = {}
    BY DEF MostSpecificRoute
  <2>1. CASE asked[c] = Unasked  BY <2>1 DEF Unasked
  <2>2. CASE asked[c] # Unasked
    <3>1. PICK t \in Loaded, req \in Requests : asked[c] = Judgement(t, req)
      BY <2>2 DEF AskedSound, Judgements
    <3> DEFINE route == Match(RoutesOf[t], req)
    <3>2. /\ asked[c].taken = Taken(t, req) /\ asked[c].verdict = Verdict(t, req)
          /\ asked[c].best = {r.name : r \in Best(t, req)}
      BY <3>1 DEF Judgement
    <3>3. /\ route = NoRoute => Takeable(t, req) = {}
          /\ route # NoRoute => route \in Best(t, req)
      BY MatchIsBest DEF Loaded
    <3>4. Taken(t, req) = {} \/ (route # NoRoute /\ Taken(t, req) = {route.name})
      BY DEF Taken, Verdict
    <3>5. Verdict(t, req) = "route_not_found" => route = NoRoute  BY DEF Verdict
    <3>6. Takeable(t, req) = {} => Best(t, req) = {}  BY DEF Best
    <3> HIDE DEF route
    <3> QED  BY <3>2, <3>3, <3>4, <3>5, <3>6
  <2> QED  BY <2>1, <2>2
<1> QED  BY <1>1, AskedOfTable, PTL

\* For any table that validation accepts: a request made for one of its routes
\* takes that route and satisfies its policy, unless the route is forsaken.
THEOREM AcceptedIsReachable == GateSpec => []RoutesReachable
<1>1. \A n : n \notin Unreached  BY FittingPasses DEF Unreached
<1>2. RoutesReachable  BY <1>1 DEF RoutesReachable
<1> QED  BY <1>2, PTL

\* For any chain of proxies, whatever a client claims: it is counted for the address
\* that was appended for it.
THEOREM CountedUnderOwnAddress == GateSpec => []CountedAsAppended
<1>1. AskedSound => CountedAsAppended
  <2> SUFFICES ASSUME AskedSound, NEW c \in Callers, caller[c].outcome # "idle"
               PROVE  asked[c].claims = {caller[c].key}
    BY DEF CountedAsAppended
  <2>1. asked[c].counted /\ caller[c].key = asked[c].client  BY DEF AskedSound
  <2>2. PICK t \in Loaded, req \in Requests : asked[c] = Judgement(t, req)
    <3>1. asked[c] # Unasked  BY <2>1 DEF Unasked
    <3> QED  BY <3>1 DEF AskedSound, Judgements
  <2> DEFINE claims == IF NamesClient(req)
                       THEN {Identity(Claiming(req, claim)) : claim \in Address}
                       ELSE {}
  <2>3. asked[c].client = Identity(req) /\ asked[c].claims = {Identity(req)} \union claims
    <3> DEFINE counted == Verdict(t, req) = "passed" /\ LimitedRoute \in Taken(t, req)
    <3>1. /\ asked[c].counted = counted
          /\ asked[c].client = IF counted THEN Identity(req) ELSE NoCall.key
          /\ asked[c].claims = IF ~counted THEN {} ELSE {Identity(req)} \union claims
      BY <2>2 DEF Judgement
    <3> HIDE DEF counted, claims
    <3> QED  BY <2>1, <3>1
  <2>4. claims \subseteq {Identity(req)}  BY ClaimsIgnored
  <2> HIDE DEF claims
  <2> QED  BY <2>1, <2>3, <2>4
<1> QED  BY <1>1, AskedOfTable, PTL
===============================================================================
