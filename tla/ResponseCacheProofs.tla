------------------------- MODULE ResponseCacheProofs -------------------------
(***************************************************************************)
(* Theorems about ResponseCache, for any keys, responses, bounds and       *)
(* numbers of concurrent callers.                                          *)
(***************************************************************************)
EXTENDS ResponseCache, FiniteSetTheorems, SequenceTheorems, TLAPS

-----------------------------------------------------------------------------
(* Lists without repetition, in the order of use.                          *)

LEMMA RemoveAtProperties ==
    ASSUME NEW S, NEW s \in Seq(S), NEW i \in 1..Len(s)
    PROVE  /\ RemoveAt(s, i) \in Seq(S)
           /\ Len(RemoveAt(s, i)) = Len(s) - 1
           /\ \A j \in 1..Len(s) - 1 :
                RemoveAt(s, i)[j] = IF j < i THEN s[j] ELSE s[j + 1]
<1> DEFINE front == SubSeq(s, 1, i - 1)
           back == SubSeq(s, i + 1, Len(s))
<1>1. Len(s) \in Nat  OBVIOUS
<1>2. /\ front \in Seq(S) /\ Len(front) = i - 1
      /\ \A j \in 1..i - 1 : front[j] = s[j]
  <2>1. 1 \in 1..Len(s) + 1 /\ i - 1 \in 1 - 1..Len(s)  BY <1>1
  <2>2. /\ front \in Seq(S)
        /\ Len(front) = IF 1 <= i - 1 THEN (i - 1) - 1 + 1 ELSE 0
        /\ \A j \in 1..(i - 1) - 1 + 1 : front[j] = s[1 + j - 1]
    BY <2>1, SubSeqProperties
  <2> HIDE DEF front
  <2> QED  BY <1>1, <2>2
<1>3. /\ back \in Seq(S) /\ Len(back) = Len(s) - i
      /\ \A j \in 1..Len(s) - i : back[j] = s[i + j]
  <2>1. i + 1 \in 1..Len(s) + 1 /\ Len(s) \in (i + 1) - 1..Len(s)  BY <1>1
  <2>2. /\ back \in Seq(S)
        /\ Len(back) = IF i + 1 <= Len(s) THEN Len(s) - (i + 1) + 1 ELSE 0
        /\ \A j \in 1..Len(s) - (i + 1) + 1 : back[j] = s[(i + 1) + j - 1]
    BY <2>1, SubSeqProperties
  <2>3. ASSUME NEW j \in 1..Len(s) - i PROVE back[j] = s[i + j]
    <3>1. j \in 1..Len(s) - (i + 1) + 1 /\ (i + 1) + j - 1 = i + j  BY <1>1
    <3> QED  BY <2>2, <3>1
  <2> HIDE DEF back
  <2> QED  BY <1>1, <2>2, <2>3
<1> HIDE DEF front, back
<1>4. /\ front \o back \in Seq(S)
      /\ Len(front \o back) = Len(front) + Len(back)
      /\ \A j \in 1..Len(front) + Len(back) :
           (front \o back)[j] = IF j <= Len(front) THEN front[j] ELSE back[j - Len(front)]
  BY <1>2, <1>3, ConcatProperties
<1>5. RemoveAt(s, i) = front \o back  BY DEF RemoveAt, front, back
<1>6. ASSUME NEW j \in 1..Len(s) - 1
      PROVE  (front \o back)[j] = IF j < i THEN s[j] ELSE s[j + 1]
  <2>1. j \in 1..Len(front) + Len(back)  BY <1>1, <1>2, <1>3
  <2>2. CASE j < i
    <3>1. j <= Len(front) /\ j \in 1..i - 1  BY <1>2, <2>2
    <3> QED  BY <1>2, <1>4, <2>1, <2>2, <3>1
  <2>3. CASE ~(j < i)
    <3>1. ~(j <= Len(front)) /\ j - Len(front) \in 1..Len(s) - i
      BY <1>1, <1>2, <2>3
    <3>2. (front \o back)[j] = back[j - Len(front)]  BY <1>4, <2>1, <3>1
    <3>3. i + (j - Len(front)) = j + 1  BY <1>2
    <3> QED  BY <1>3, <2>3, <3>1, <3>2, <3>3
  <2> QED  BY <2>2, <2>3
<1>7. Len(front \o back) = Len(s) - 1  BY <1>1, <1>2, <1>3, <1>4
<1> QED  BY <1>4, <1>5, <1>6, <1>7

LEMMA PushProperties ==
    ASSUME NEW S, NEW s \in Seq(S), NEW k \in S
    PROVE  /\ <<k>> \o s \in Seq(S)
           /\ Len(<<k>> \o s) = Len(s) + 1
           /\ (<<k>> \o s)[1] = k
           /\ \A j \in 1..Len(s) : (<<k>> \o s)[j + 1] = s[j]
<1>1. <<k>> \in Seq(S) /\ Len(<<k>>) = 1 /\ <<k>>[1] = k /\ Len(s) \in Nat  OBVIOUS
<1>2. /\ <<k>> \o s \in Seq(S)
      /\ Len(<<k>> \o s) = 1 + Len(s)
      /\ \A j \in 1..1 + Len(s) :
           (<<k>> \o s)[j] = IF j <= 1 THEN <<k>>[j] ELSE s[j - 1]
  BY <1>1, ConcatProperties
<1>3. (<<k>> \o s)[1] = k
  <2>1. 1 \in 1..1 + Len(s)  BY <1>1
  <2> QED  BY <1>1, <1>2, <2>1
<1>4. ASSUME NEW j \in 1..Len(s) PROVE (<<k>> \o s)[j + 1] = s[j]
  <2>1. j + 1 \in 1..1 + Len(s) /\ ~(j + 1 <= 1) /\ (j + 1) - 1 = j  BY <1>1
  <2> QED  BY <1>2, <2>1
<1> QED  BY <1>1, <1>2, <1>3, <1>4

\* The list l holds each key of D once, and each after those used since.
InOrder(l, D, used) ==
    /\ l \in Seq(Keys)
    /\ ToSet(l) = D
    /\ \A i, j \in 1..Len(l) : i < j => l[i] # l[j] /\ <<l[i], l[j]>> \in used

UsedNow(used, k) == {p \in used : p[2] # k} \union {<<k, x>> : x \in Keys \ {k}}

LEMMA RemovedInOrder ==
    ASSUME NEW l, NEW D, NEW used, InOrder(l, D, used), NEW i \in 1..Len(l)
    PROVE  /\ InOrder(RemoveAt(l, i), D \ {l[i]}, used)
           /\ Len(RemoveAt(l, i)) = Len(l) - 1
           /\ i > 1 => RemoveAt(l, i)[1] = l[1]
<1> DEFINE r == RemoveAt(l, i)
           at(j) == IF j < i THEN j ELSE j + 1
<1>1. /\ l \in Seq(Keys) /\ Len(l) \in Nat /\ ToSet(l) = D
      /\ \A m, n \in 1..Len(l) : m < n => l[m] # l[n] /\ <<l[m], l[n]>> \in used
  BY DEF InOrder
<1>2. /\ r \in Seq(Keys) /\ Len(r) = Len(l) - 1
      /\ \A j \in 1..Len(l) - 1 : r[j] = IF j < i THEN l[j] ELSE l[j + 1]
  BY <1>1, RemoveAtProperties
<1> HIDE DEF r
<1>3. \A j \in 1..Len(r) : at(j) \in 1..Len(l) /\ at(j) # i /\ r[j] = l[at(j)]
  BY <1>1, <1>2
<1>4. \A m, n \in 1..Len(r) : m < n => at(m) < at(n)  BY <1>1, <1>2
<1>5. \A m \in 1..Len(l) : m # i => l[m] # l[i]
  <2> SUFFICES ASSUME NEW m \in 1..Len(l), m # i PROVE l[m] # l[i]  OBVIOUS
  <2>1. m < i \/ i < m  BY <1>1
  <2>2. CASE m < i  BY <1>1, <2>2
  <2>3. CASE i < m
    <3>1. l[i] # l[m]  BY <1>1, <2>3
    <3> QED  BY <3>1
  <2> QED  BY <2>1, <2>2, <2>3
<1>6. ASSUME NEW m \in 1..Len(r), NEW n \in 1..Len(r), m < n
      PROVE  r[m] # r[n] /\ <<r[m], r[n]>> \in used
  <2>1. at(m) < at(n)  BY <1>4, <1>6
  <2>2. at(m) \in 1..Len(l) /\ at(n) \in 1..Len(l) /\ r[m] = l[at(m)] /\ r[n] = l[at(n)]
    BY <1>3
  <2> HIDE DEF at
  <2> QED  BY <1>1, <2>1, <2>2
<1>7. ToSet(r) = D \ {l[i]}
  <2>1. DOMAIN r = 1..Len(r) /\ DOMAIN l = 1..Len(l)  BY <1>1, <1>2
  <2>2. ASSUME NEW x \in ToSet(r) PROVE x \in D \ {l[i]}
    <3>1. PICK j \in 1..Len(r) : x = r[j]  BY <2>1 DEF ToSet
    <3>2. at(j) \in 1..Len(l) /\ at(j) # i /\ x = l[at(j)]  BY <1>3, <3>1
    <3> HIDE DEF at
    <3> QED  BY <1>1, <1>5, <2>1, <3>2 DEF ToSet
  <2>3. ASSUME NEW x \in D \ {l[i]} PROVE x \in ToSet(r)
    <3>1. PICK m \in 1..Len(l) : x = l[m] /\ m # i  BY <1>1, <2>1 DEF ToSet
    <3> DEFINE j == IF m < i THEN m ELSE m - 1
    <3>2. j \in 1..Len(r) /\ at(j) = m  BY <1>1, <1>2, <3>1
    <3>3. r[j] = x  BY <1>3, <3>1, <3>2
    <3> HIDE DEF j
    <3> QED  BY <2>1, <3>2, <3>3 DEF ToSet
  <2> QED  BY <2>2, <2>3
<1>8. i > 1 => r[1] = l[1]
  <2>1. i > 1 => 1 \in 1..Len(l) - 1  BY <1>1
  <2> QED  BY <1>2, <2>1
<1>9. InOrder(r, D \ {l[i]}, used)  BY <1>2, <1>6, <1>7 DEF InOrder
<1> QED  BY <1>2, <1>8, <1>9 DEF r

LEMMA PushedInOrder ==
    ASSUME NEW l, NEW D, NEW used, InOrder(l, D, used), NEW k \in Keys, k \notin D
    PROVE  /\ InOrder(<<k>> \o l, D \union {k}, UsedNow(used, k))
           /\ Len(<<k>> \o l) = Len(l) + 1
           /\ (<<k>> \o l)[1] = k
<1> DEFINE p == <<k>> \o l
<1>1. /\ l \in Seq(Keys) /\ Len(l) \in Nat /\ ToSet(l) = D
      /\ \A m, n \in 1..Len(l) : m < n => l[m] # l[n] /\ <<l[m], l[n]>> \in used
  BY DEF InOrder
<1>2. /\ p \in Seq(Keys) /\ Len(p) = Len(l) + 1 /\ p[1] = k
      /\ \A j \in 1..Len(l) : p[j + 1] = l[j]
  BY <1>1, PushProperties
<1> HIDE DEF p
<1>3. \A j \in 1..Len(p) : j # 1 => j - 1 \in 1..Len(l) /\ p[j] = l[j - 1]
  <2> SUFFICES ASSUME NEW j \in 1..Len(p), j # 1
               PROVE  j - 1 \in 1..Len(l) /\ p[j] = l[j - 1]
    OBVIOUS
  <2>1. j - 1 \in 1..Len(l) /\ (j - 1) + 1 = j  BY <1>1, <1>2
  <2> QED  BY <1>2, <2>1
<1>4. DOMAIN l = 1..Len(l) /\ DOMAIN p = 1..Len(p)  BY <1>1, <1>2
<1>5. \A j \in 1..Len(l) : l[j] \in D /\ l[j] \in Keys /\ l[j] # k
  BY <1>1, <1>4 DEF ToSet
<1>6. ASSUME NEW m \in 1..Len(p), NEW n \in 1..Len(p), m < n
      PROVE  p[m] # p[n] /\ <<p[m], p[n]>> \in UsedNow(used, k)
  <2>1. n # 1 /\ n - 1 \in 1..Len(l) /\ p[n] = l[n - 1]
    <3>1. n # 1  BY <1>1, <1>2, <1>6
    <3> QED  BY <1>3, <3>1
  <2>2. p[n] \in Keys \ {k}  BY <1>5, <2>1
  <2>3. CASE m = 1
    BY <1>2, <2>2, <2>3 DEF UsedNow
  <2>4. CASE m # 1
    <3>1. m - 1 \in 1..Len(l) /\ p[m] = l[m - 1]  BY <1>3, <2>4
    <3>2. m - 1 < n - 1  BY <1>1, <1>2, <1>6
    <3>3. p[m] # p[n] /\ <<p[m], p[n]>> \in used  BY <1>1, <2>1, <3>1, <3>2
    <3> QED  BY <2>2, <3>3 DEF UsedNow
  <2> QED  BY <2>3, <2>4
<1>7. ToSet(p) = D \union {k}
  <2>1. ASSUME NEW x \in ToSet(p) PROVE x \in D \union {k}
    <3>1. PICK j \in 1..Len(p) : x = p[j]  BY <1>4 DEF ToSet
    <3> QED  BY <1>2, <1>3, <1>5, <3>1
  <2>2. k \in ToSet(p)
    <3>1. 1 \in 1..Len(p)  BY <1>1, <1>2
    <3> QED  BY <1>2, <1>4, <3>1 DEF ToSet
  <2>3. ASSUME NEW x \in D PROVE x \in ToSet(p)
    <3>1. PICK j \in 1..Len(l) : x = l[j]  BY <1>1, <1>4 DEF ToSet
    <3>2. j + 1 \in 1..Len(p) /\ p[j + 1] = x  BY <1>1, <1>2, <3>1
    <3> QED  BY <1>4, <3>2 DEF ToSet
  <2> QED  BY <2>1, <2>2, <2>3
<1>8. InOrder(p, D \union {k}, UsedNow(used, k))  BY <1>2, <1>6, <1>7 DEF InOrder
<1> QED  BY <1>2, <1>8 DEF p

-----------------------------------------------------------------------------
(* The bytes of the entries, and how they change with one of them.         *)

Without(stored, k) == [x \in DOMAIN stored \ {k} |-> stored[x]]
With(stored, k, entry) ==
    [x \in DOMAIN stored \union {k} |-> IF x = k THEN entry ELSE stored[x]]

LEMMA ContentsWith ==
    ASSUME NEW stored, NEW k, k \notin DOMAIN stored, NEW entry,
           SizeOf[entry.response] \in Nat, IsFiniteSet(Contents(stored))
    PROVE  /\ IsFiniteSet(Contents(With(stored, k, entry)))
           /\ Cardinality(Contents(With(stored, k, entry)))
                = Cardinality(Contents(stored)) + SizeOf[entry.response]
<1> DEFINE size == SizeOf[entry.response]
           Own == {k} \X (1..size)
           New == With(stored, k, entry)
           old == Contents(stored)
<1>1. IsFiniteSet(1..size) /\ Cardinality(1..size) = size
  <2>1. size \in Nat  OBVIOUS
  <2> HIDE DEF size
  <2>2. IsFiniteSet(1..size) /\ Cardinality(1..size) = IF 1 > size THEN 0 ELSE size - 1 + 1
    BY <2>1, FS_Interval
  <2> QED  BY <2>1, <2>2
<1>2. IsFiniteSet({k}) /\ Cardinality({k}) = 1  BY FS_Singleton
<1>3. IsFiniteSet(Own) /\ Cardinality(Own) = size
  <2>1. IsFiniteSet(Own) /\ Cardinality(Own) = Cardinality({k}) * Cardinality(1..size)
    BY <1>1, <1>2, FS_Product
  <2> QED  BY <1>1, <1>2, <2>1
<1>4. DOMAIN New = DOMAIN stored \union {k} /\ New[k] = entry
      /\ \A x \in DOMAIN stored : New[x] = stored[x]
  BY DEF With
<1> HIDE DEF New
<1>5. Contents(New) = old \union Own
  <2>1. ASSUME NEW y \in Contents(New) PROVE y \in old \union Own
    <3>1. PICK x \in DOMAIN New : y \in {x} \X (1..SizeOf[New[x].response])
      BY DEF Contents
    <3>2. CASE x = k  BY <1>4, <3>1, <3>2
    <3>3. CASE x # k  BY <1>4, <3>1, <3>3 DEF Contents
    <3> QED  BY <3>2, <3>3
  <2>2. ASSUME NEW y \in old PROVE y \in Contents(New)
    <3>1. PICK x \in DOMAIN stored : y \in {x} \X (1..SizeOf[stored[x].response])
      BY DEF Contents
    <3> QED  BY <1>4, <3>1 DEF Contents
  <2>3. Own \subseteq Contents(New)  BY <1>4 DEF Contents
  <2> QED  BY <2>1, <2>2, <2>3
<1>6. old \intersect Own = {}  BY DEF Contents
<1> HIDE DEF old, Own, size
<1>7. Cardinality(old \intersect Own) = 0  BY <1>6, FS_EmptySet
<1>8. /\ IsFiniteSet(old \union Own)
      /\ Cardinality(old \union Own) =
           Cardinality(old) + Cardinality(Own) - Cardinality(old \intersect Own)
  BY <1>3, FS_Union DEF old
<1>9. Cardinality(old) \in Nat /\ size \in Nat  BY FS_CardinalityType DEF old, size
<1>10. Cardinality(old \union Own) = Cardinality(old) + size
  BY <1>3, <1>7, <1>8, <1>9
<1> QED  BY <1>5, <1>8, <1>10 DEF New, old, size

LEMMA ContentsWithout ==
    ASSUME NEW stored, NEW k \in DOMAIN stored, stored = [x \in DOMAIN stored |-> stored[x]],
           SizeOf[stored[k].response] \in Nat, IsFiniteSet(Contents(stored))
    PROVE  /\ IsFiniteSet(Contents(Without(stored, k)))
           /\ Cardinality(Contents(Without(stored, k))) \in Nat
           /\ Cardinality(Contents(stored))
                = Cardinality(Contents(Without(stored, k))) + SizeOf[stored[k].response]
<1> DEFINE rest == Without(stored, k)
<1>1. DOMAIN rest = DOMAIN stored \ {k} /\ \A x \in DOMAIN rest : rest[x] = stored[x]
  BY DEF Without
<1> HIDE DEF rest
<1>2. Contents(rest) \subseteq Contents(stored)  BY <1>1 DEF Contents
<1>3. IsFiniteSet(Contents(rest)) /\ Cardinality(Contents(rest)) \in Nat
  BY <1>2, FS_Subset, FS_CardinalityType
<1>4. With(rest, k, stored[k]) = stored
  <2>1. DOMAIN rest \union {k} = DOMAIN stored  BY <1>1
  <2>2. With(rest, k, stored[k]) = [x \in DOMAIN stored |-> IF x = k THEN stored[k] ELSE rest[x]]
    BY <2>1 DEF With
  <2>3. \A x \in DOMAIN stored : (IF x = k THEN stored[k] ELSE rest[x]) = stored[x]
    BY <1>1
  <2> QED  BY <2>2, <2>3
<1>5. k \notin DOMAIN rest  BY <1>1
<1>6. Cardinality(Contents(With(rest, k, stored[k])))
        = Cardinality(Contents(rest)) + SizeOf[stored[k].response]
  BY <1>3, <1>5, ContentsWith
<1> QED  BY <1>3, <1>4, <1>6 DEF rest

-----------------------------------------------------------------------------
(* The inductive invariant.                                                *)

\* A call under way knows what it stores, and that it fits; one that evicts holds
\* the mutex and has its key at the front.
CallSound(s) ==
    /\ lock = s <=> setter[s].at = "evict"
    /\ setter[s].at # "idle" =>
         /\ setter[s].key \in Keys /\ setter[s].response \in Responses
         /\ setter[s].ttl \in TTLs /\ setter[s].ttl > 0
         /\ SizeOf[setter[s].response] <= MaxBytes
    /\ setter[s].at = "evict" => lru # <<>> /\ lru[1] = setter[s].key

\* A map, a list and a count of bytes that describe the same entries, the list in
\* the order of use.
Agree(map, list, count, used) ==
    /\ map = [k \in DOMAIN map |-> map[k]]
    /\ \A k \in DOMAIN map : map[k] \in Entry /\ SizeOf[map[k].response] <= MaxBytes
    /\ InOrder(list, DOMAIN map, used)
    /\ IsFiniteSet(DOMAIN map) /\ Len(list) = Cardinality(DOMAIN map)
    /\ IsFiniteSet(Contents(map)) /\ count = Cardinality(Contents(map))

IInv ==
    /\ TypeOK
    /\ Agree(items, lru, bytes, usedAfter)
    /\ \A s \in Setters : CallSound(s)
    /\ WithinBounds

\* The constants are what the assumption says.
LEMMA Sizes ==
    /\ \A r \in Responses : SizeOf[r] \in Nat
    /\ MaxEntries \in Nat /\ MaxEntries >= 1 /\ MaxBytes \in Nat /\ MaxTime \in Nat
    /\ \A t \in TTLs : t \in Nat
BY CacheAssumption

LEMMA ListTyped ==
    ASSUME NEW l \in Seq(Keys), NEW m \in Nat, Len(l) <= m
    PROVE  l \in BoundedSeq(Keys, m)
<1>1. Len(l) \in 0..m /\ l \in [1..Len(l) -> Keys]  BY LenProperties
<1> QED  BY <1>1 DEF BoundedSeq, SeqOf

\* The position that the list element of a present key has.
LEMMA PlaceOf ==
    ASSUME Agree(items, lru, bytes, usedAfter), NEW k \in DOMAIN items
    PROVE  /\ Place(k) \in 1..Len(lru) /\ lru[Place(k)] = k
           /\ \A i \in 1..Len(lru) : lru[i] = k => i = Place(k)
<1>1. /\ lru \in Seq(Keys) /\ ToSet(lru) = DOMAIN items /\ Len(lru) \in Nat
      /\ \A i, j \in 1..Len(lru) : i < j => lru[i] # lru[j]
  <2>1. InOrder(lru, DOMAIN items, usedAfter)  BY DEF Agree
  <2>2. /\ lru \in Seq(Keys) /\ ToSet(lru) = DOMAIN items
        /\ \A i, j \in 1..Len(lru) : i < j => lru[i] # lru[j] /\ <<lru[i], lru[j]>> \in usedAfter
    BY <2>1, Zenon DEF InOrder
  <2>3. Len(lru) \in Nat  BY <2>2
  <2> QED  BY <2>2, <2>3
<1>2. DOMAIN lru = 1..Len(lru)  BY <1>1
<1>3. \E i \in DOMAIN lru : lru[i] = k  BY <1>1 DEF ToSet
<1>4. Place(k) \in 1..Len(lru) /\ lru[Place(k)] = k  BY <1>2, <1>3 DEF Place
<1>5. ASSUME NEW i \in 1..Len(lru), lru[i] = k PROVE i = Place(k)
  <2>1. ~(i < Place(k))  BY <1>1, <1>4, <1>5
  <2>2. ~(Place(k) < i)
    <3>1. Place(k) < i => lru[Place(k)] # lru[i]  BY <1>1, <1>4
    <3> QED  BY <1>4, <1>5, <3>1
  <2> QED  BY <1>4, <2>1, <2>2
<1> QED  BY <1>4, <1>5

\* Taking out a present key keeps the three in step.
LEMMA AgreeWithout ==
    ASSUME NEW map, NEW list, NEW count, NEW used, Agree(map, list, count, used),
           NEW k \in DOMAIN map, NEW i \in 1..Len(list), list[i] = k
    PROVE  LET left == count - SizeOf[map[k].response] IN
           /\ Agree(Without(map, k), RemoveAt(list, i), left, used)
           /\ left \in Nat /\ left <= count
           /\ Len(RemoveAt(list, i)) = Len(list) - 1 /\ Len(list) \in Nat
           /\ i > 1 => RemoveAt(list, i)[1] = list[1]
<1> DEFINE rest == Without(map, k)
           short == RemoveAt(list, i)
           size == SizeOf[map[k].response]
<1>1. InOrder(list, DOMAIN map, used) /\ Len(list) \in Nat
  BY DEF Agree, InOrder
<1>2. /\ InOrder(short, DOMAIN map \ {k}, used)
      /\ Len(short) = Len(list) - 1
      /\ i > 1 => short[1] = list[1]
  BY <1>1, RemovedInOrder
<1>3. /\ DOMAIN rest = DOMAIN map \ {k} /\ \A x \in DOMAIN rest : rest[x] = map[x]
      /\ rest = [x \in DOMAIN rest |-> rest[x]]
  BY DEF Without
<1>4. IsFiniteSet(DOMAIN rest) /\ Len(short) = Cardinality(DOMAIN rest)
  <2>1. IsFiniteSet(DOMAIN map) /\ Len(list) = Cardinality(DOMAIN map)
    BY DEF Agree
  <2>2. /\ IsFiniteSet(DOMAIN map \ {k})
        /\ Cardinality(DOMAIN map \ {k}) = Cardinality(DOMAIN map) - 1
    BY <2>1, FS_RemoveElement
  <2> QED  BY <1>2, <1>3, <2>1, <2>2
<1>5. size \in Nat
  BY Sizes DEF Agree, Entry
<1>6. /\ IsFiniteSet(Contents(rest)) /\ count - size = Cardinality(Contents(rest))
      /\ count - size \in Nat /\ count - size <= count
  <2>1. /\ IsFiniteSet(Contents(map)) /\ count = Cardinality(Contents(map))
        /\ map = [x \in DOMAIN map |-> map[x]]
    BY DEF Agree
  <2>2. /\ IsFiniteSet(Contents(rest))
        /\ Cardinality(Contents(rest)) \in Nat
        /\ Cardinality(Contents(map)) = Cardinality(Contents(rest)) + size
    BY <1>5, <2>1, ContentsWithout
  <2> HIDE DEF rest, size
  <2> QED  BY <1>5, <2>1, <2>2
<1>7. \A x \in DOMAIN rest : rest[x] \in Entry /\ SizeOf[rest[x].response] <= MaxBytes
  BY <1>3 DEF Agree
<1> HIDE DEF rest, short, size
<1>8. Agree(rest, short, count - size, used)
  BY <1>2, <1>3, <1>4, <1>6, <1>7 DEF Agree
<1> QED  BY <1>1, <1>2, <1>6, <1>8 DEF rest, short, size

\* And so does putting an absent one to the front.
LEMMA AgreeWith ==
    ASSUME NEW map, NEW list, NEW count, NEW used, Agree(map, list, count, used),
           NEW k \in Keys, k \notin DOMAIN map,
           NEW entry \in Entry, SizeOf[entry.response] <= MaxBytes
    PROVE  /\ Agree(With(map, k, entry), <<k>> \o list, count + SizeOf[entry.response],
                    UsedNow(used, k))
           /\ count + SizeOf[entry.response] \in Nat
           /\ Len(<<k>> \o list) = Len(list) + 1 /\ Len(list) \in Nat
           /\ (<<k>> \o list)[1] = k
<1> DEFINE more == With(map, k, entry)
           long == <<k>> \o list
           size == SizeOf[entry.response]
<1>1. InOrder(list, DOMAIN map, used) /\ Len(list) \in Nat
  BY DEF Agree, InOrder
<1>2. /\ InOrder(long, DOMAIN map \union {k}, UsedNow(used, k))
      /\ Len(long) = Len(list) + 1
      /\ long[1] = k
  BY <1>1, PushedInOrder
<1>3. /\ DOMAIN more = DOMAIN map \union {k}
      /\ \A x \in DOMAIN more : more[x] = IF x = k THEN entry ELSE map[x]
      /\ more = [x \in DOMAIN more |-> more[x]]
  BY DEF With
<1>4. IsFiniteSet(DOMAIN more) /\ Len(long) = Cardinality(DOMAIN more)
  <2>1. IsFiniteSet(DOMAIN map) /\ Len(list) = Cardinality(DOMAIN map)
    BY DEF Agree
  <2>2. /\ IsFiniteSet(DOMAIN map \union {k})
        /\ Cardinality(DOMAIN map \union {k}) = Cardinality(DOMAIN map) + 1
    BY <2>1, FS_AddElement
  <2> QED  BY <1>2, <1>3, <2>1, <2>2
<1>5. size \in Nat
  BY Sizes DEF Entry
<1>6. /\ IsFiniteSet(Contents(more)) /\ count + size = Cardinality(Contents(more))
      /\ count + size \in Nat
  <2>1. /\ IsFiniteSet(Contents(map)) /\ count = Cardinality(Contents(map))
    BY DEF Agree
  <2>2. /\ IsFiniteSet(Contents(more))
        /\ Cardinality(Contents(more)) = Cardinality(Contents(map)) + size
    BY <1>5, <2>1, ContentsWith
  <2>3. Cardinality(Contents(map)) \in Nat  BY <2>1, FS_CardinalityType
  <2> HIDE DEF more, size
  <2> QED  BY <1>5, <2>1, <2>2, <2>3
<1>7. \A x \in DOMAIN more : more[x] \in Entry /\ SizeOf[more[x].response] <= MaxBytes
  BY <1>3 DEF Agree
<1> HIDE DEF more, long, size
<1>8. Agree(more, long, count + size, UsedNow(used, k))
  BY <1>2, <1>3, <1>4, <1>6, <1>7 DEF Agree
<1> QED  BY <1>1, <1>2, <1>6, <1>8 DEF more, long, size

\* What the types say of a map, a list and a count that agree.
LEMMA AgreeTyped ==
    ASSUME NEW map, NEW list, NEW count, NEW used, Agree(map, list, count, used),
           Len(list) <= MaxEntries + 1
    PROVE  /\ DOMAIN map \subseteq Keys
           /\ \A k \in DOMAIN map : map[k] \in Entry
           /\ list \in BoundedSeq(Keys, MaxEntries + 1)
           /\ count \in Nat
<1>1. InOrder(list, DOMAIN map, used)  BY DEF Agree
<1>2. list \in Seq(Keys) /\ ToSet(list) = DOMAIN map  BY <1>1, Zenon DEF InOrder
<1>3. DOMAIN map \subseteq Keys
  <2>1. DOMAIN list = 1..Len(list) /\ \A i \in 1..Len(list) : list[i] \in Keys
    BY <1>2, LenProperties, ElementOfSeq
  <2> QED  BY <1>2, <2>1 DEF ToSet
<1>4. list \in BoundedSeq(Keys, MaxEntries + 1)
  <2>1. MaxEntries + 1 \in Nat  BY Sizes
  <2> QED  BY <1>2, <2>1, ListTyped
<1>5. count \in Nat  BY FS_CardinalityType DEF Agree
<1> QED  BY <1>3, <1>4, <1>5 DEF Agree

\* The steps that only concern the calls, or nothing.
CallsTyped ==
    /\ now \in 0..MaxTime
    /\ lock \in Setters \union {Nobody}
    /\ setter \in [Setters -> Call]
    /\ served \in Responses \union {Miss, NoAnswer}
    /\ usedAfter \subseteq Keys \X Keys

LEMMA TypeFromParts ==
    ASSUME CallsTyped, Agree(items, lru, bytes, usedAfter), Len(lru) <= MaxEntries + 1
    PROVE  TypeOK
BY AgreeTyped DEF CallsTyped, TypeOK

LEMMA TypeParts ==
    ASSUME IInv
    PROVE  /\ CallsTyped /\ Agree(items, lru, bytes, usedAfter)
           /\ Len(lru) \in Nat /\ Len(lru) = Cardinality(DOMAIN items)
           /\ Len(lru) <= MaxEntries + 1 /\ bytes \in Nat
           /\ DOMAIN items \subseteq Keys
           /\ IsFiniteSet(DOMAIN items)
<1>1. CallsTyped /\ bytes \in Nat /\ DOMAIN items \subseteq Keys
  BY DEF IInv, TypeOK, CallsTyped
<1>2. Agree(items, lru, bytes, usedAfter)  BY DEF IInv
<1>3. Len(lru) = Cardinality(DOMAIN items) /\ IsFiniteSet(DOMAIN items)
  BY <1>2 DEF Agree
<1>4. Len(lru) \in Nat  BY <1>3, FS_CardinalityType
<1>5. Len(lru) <= MaxEntries + 1
  <2>1. MaxEntries + 1 \in Nat  BY Sizes
  <2>2. lru \in BoundedSeq(Keys, MaxEntries + 1)  BY DEF IInv, TypeOK
  <2>3. PICK m \in 0..MaxEntries + 1 : lru \in [1..m -> Keys]
    BY <2>2 DEF BoundedSeq, SeqOf
  <2>4. Len(lru) = m  BY <2>1, <2>3
  <2> QED  BY <2>1, <2>3, <2>4
<1> QED  BY <1>1, <1>2, <1>3, <1>4, <1>5

LEMMA UsedTyped ==
    ASSUME usedAfter \subseteq Keys \X Keys, NEW k \in Keys
    PROVE  Used(k) = UsedNow(usedAfter, k) /\ Used(k) \subseteq Keys \X Keys
BY DEF Used, UsedNow

-----------------------------------------------------------------------------
(* The steps.                                                              *)

LEMMA InitIInv == Init => IInv
<1> SUFFICES ASSUME Init PROVE IInv  OBVIOUS
<1>1. CallsTyped
  BY Sizes DEF Init, CallsTyped, NoCall, Call
<1>2. items = <<>> /\ lru = <<>> /\ bytes = 0 /\ usedAfter = {}  BY DEF Init
<1>3. DOMAIN items = {} /\ items = [k \in DOMAIN items |-> items[k]]
  <2>1. items \in [1..0 -> Keys]  BY <1>2
  <2> QED  BY <2>1
<1>4. InOrder(lru, DOMAIN items, usedAfter) /\ Len(lru) = 0
  <2>1. lru \in Seq(Keys) /\ Len(lru) = 0 /\ DOMAIN lru = {}  BY <1>2
  <2>2. ToSet(lru) = {}  BY <2>1 DEF ToSet
  <2> QED  BY <1>3, <2>1, <2>2 DEF InOrder
<1>5. Contents(items) = {}  BY <1>3 DEF Contents
<1>6. Agree(items, lru, bytes, usedAfter)
  <2>1. IsFiniteSet({}) /\ Cardinality({}) = 0  BY FS_EmptySet
  <2> QED  BY <1>2, <1>3, <1>4, <1>5, <2>1 DEF Agree
<1>7. Len(lru) <= MaxEntries + 1  BY <1>4, Sizes
<1>8. TypeOK  BY <1>1, <1>6, <1>7, TypeFromParts
<1>9. \A s \in Setters : CallSound(s)
  BY CacheAssumption DEF Init, NoCall, CallSound
<1>10. WithinBounds
  <2>1. Cardinality(DOMAIN items) = 0  BY <1>4, <1>6 DEF Agree
  <2> QED  BY <1>2, <2>1, Sizes DEF WithinBounds
<1> QED  BY <1>6, <1>8, <1>9, <1>10 DEF IInv

LEMMA GetExpiredStep ==
    ASSUME IInv, NEW k \in Keys, GetExpired(k)
    PROVE  IInv'
<1> USE TypeParts
<1>1. /\ lock = Nobody /\ k \in DOMAIN items
      /\ served' = Miss
      /\ UNCHANGED <<now, lock, setter, usedAfter>>
      /\ RemoveElement(k)
  BY DEF GetExpired
<1>2. /\ items' = Without(items, k) /\ lru' = RemoveAt(lru, Place(k))
      /\ bytes' = bytes - SizeOf[items[k].response]
  BY <1>1 DEF RemoveElement, ItemsWithout, Without, ListWithout, BytesWithout, Size
<1>3. Place(k) \in 1..Len(lru) /\ lru[Place(k)] = k  BY <1>1, PlaceOf
<1>4. /\ Agree(items', lru', bytes', usedAfter')
      /\ bytes' \in Nat /\ bytes' <= bytes /\ Len(lru') = Len(lru) - 1
  BY <1>1, <1>2, <1>3, AgreeWithout
<1>5. CallsTyped'  BY <1>1 DEF CallsTyped
<1>6. Len(lru') <= MaxEntries + 1  BY <1>4, Sizes
<1>7. TypeOK'  BY <1>4, <1>5, <1>6, AgreeTyped DEF CallsTyped, TypeOK
<1>8. ASSUME NEW s \in Setters PROVE CallSound(s)'
  <2>1. CallSound(s)  BY DEF IInv
  <2>2. lock # s  BY <1>1, CacheAssumption
  <2> QED  BY <1>1, <2>1, <2>2 DEF CallSound
<1>9. WithinBounds'
  <2>1. Cardinality(DOMAIN items) <= MaxEntries /\ bytes <= MaxBytes
    BY <1>1 DEF IInv, WithinBounds
  <2>2. Len(lru') = Cardinality(DOMAIN items')  BY <1>4 DEF Agree
  <2>3. Cardinality(DOMAIN items') <= MaxEntries /\ bytes' <= MaxBytes
    BY <1>4, <2>1, <2>2, Sizes
  <2> QED  BY <2>3 DEF WithinBounds
<1> QED  BY <1>4, <1>7, <1>8, <1>9 DEF IInv

LEMMA GetFreshStep ==
    ASSUME IInv, NEW k \in Keys, GetFresh(k)
    PROVE  IInv'
<1> USE TypeParts
<1>1. /\ lock = Nobody /\ k \in DOMAIN items
      /\ served' = items[k].response
      /\ lru' = <<k>> \o RemoveAt(lru, Place(k))
      /\ usedAfter' = Used(k)
      /\ UNCHANGED <<now, items, bytes, lock, setter>>
  BY DEF GetFresh, MoveToFront, ListWithout
<1> DEFINE rest == Without(items, k)
           left == bytes - SizeOf[items[k].response]
<1>2. Place(k) \in 1..Len(lru) /\ lru[Place(k)] = k  BY <1>1, PlaceOf
<1>3. /\ Agree(rest, RemoveAt(lru, Place(k)), left, usedAfter)
      /\ Len(RemoveAt(lru, Place(k))) = Len(lru) - 1 /\ left \in Nat
  BY <1>1, <1>2, AgreeWithout
<1>4. /\ items[k] \in Entry /\ SizeOf[items[k].response] <= MaxBytes
      /\ SizeOf[items[k].response] \in Nat /\ items[k].response \in Responses
  BY <1>1, Sizes DEF Agree, Entry
<1>5. usedAfter' = UsedNow(usedAfter, k) /\ usedAfter' \subseteq Keys \X Keys
  BY <1>1, UsedTyped DEF CallsTyped
<1>6. With(rest, k, items[k]) = items
  <2>1. DOMAIN items = DOMAIN rest \union {k} /\ \A x \in DOMAIN rest : rest[x] = items[x]
    BY <1>1 DEF Without
  <2>2. items = [x \in DOMAIN items |-> items[x]]  BY DEF Agree
  <2>3. With(rest, k, items[k]) = [x \in DOMAIN items |-> IF x = k THEN items[k] ELSE rest[x]]
    BY <2>1 DEF With
  <2> HIDE DEF rest
  <2>4. \A x \in DOMAIN items : (IF x = k THEN items[k] ELSE rest[x]) = items[x]
    BY <2>1
  <2> QED  BY <2>2, <2>3, <2>4
<1>7. k \notin DOMAIN rest  BY DEF Without
<1>8. left + SizeOf[items[k].response] = bytes  BY <1>4
<1> HIDE DEF rest, left
<1>9. /\ Agree(items', lru', bytes', usedAfter')
      /\ Len(lru') = Len(RemoveAt(lru, Place(k))) + 1
  BY <1>1, <1>3, <1>4, <1>5, <1>6, <1>7, <1>8, AgreeWith
<1>10. CallsTyped'  BY <1>1, <1>4, <1>5 DEF CallsTyped
<1>11. Len(lru') <= MaxEntries + 1  BY <1>3, <1>9, Sizes
<1>12. TypeOK'  BY <1>9, <1>10, <1>11, AgreeTyped DEF CallsTyped, TypeOK
<1>13. ASSUME NEW s \in Setters PROVE CallSound(s)'
  <2>1. CallSound(s)  BY DEF IInv
  <2>2. lock # s  BY <1>1, CacheAssumption
  <2> QED  BY <1>1, <2>1, <2>2 DEF CallSound
<1>14. WithinBounds'  BY <1>1 DEF IInv, WithinBounds
<1> QED  BY <1>9, <1>12, <1>13, <1>14 DEF IInv

\* Set replaces an older entry of its key by taking it out and putting the new one
\* in front, so an insertion adds at most one to a cache within its bounds.
LEMMA InsertStep ==
    ASSUME IInv, NEW s \in Setters, Insert(s)
    PROVE  IInv'
<1> USE TypeParts
<1> DEFINE k == setter[s].key
           r == setter[s].response
           entry == [response |-> r, expiresAt |-> now + setter[s].ttl]
<1>1. /\ setter[s].at = "stamped" /\ lock = Nobody /\ lock' = s
      /\ setter' = [setter EXCEPT ![s].at = "evict"]
      /\ usedAfter' = Used(k)
      /\ UNCHANGED <<now, served>>
  BY DEF Insert
<1>2. k \in Keys /\ r \in Responses /\ setter[s].ttl \in Nat /\ SizeOf[r] \in Nat
      /\ SizeOf[r] <= MaxBytes /\ setter[s] \in Call
  BY <1>1, Sizes DEF IInv, CallSound, CallsTyped
<1>3. entry \in Entry /\ entry.response = r
  <2>1. now + setter[s].ttl \in Nat  BY <1>2, Sizes DEF CallsTyped
  <2> QED  BY <1>2, <2>1 DEF Entry
<1>4. usedAfter' = UsedNow(usedAfter, k) /\ usedAfter' \subseteq Keys \X Keys
  BY <1>1, <1>2, UsedTyped DEF CallsTyped
<1>5. items' = With(items, k, entry)  BY DEF Insert, With
<1>6. Len(lru) <= MaxEntries  BY <1>1 DEF IInv, WithinBounds
<1>7. /\ Agree(items', lru', bytes', usedAfter')
      /\ Len(lru') <= MaxEntries + 1 /\ Len(lru') \in Nat \ {0} /\ lru'[1] = k
  <2>1. CASE k \notin DOMAIN items
    <3>1. lru' = <<k>> \o lru /\ bytes' = bytes + SizeOf[r]  BY <2>1 DEF Insert
    <3> HIDE DEF k, r, entry
    <3>2. /\ Agree(With(items, k, entry), <<k>> \o lru, bytes + SizeOf[entry.response],
                   UsedNow(usedAfter, k))
          /\ Len(<<k>> \o lru) = Len(lru) + 1 /\ (<<k>> \o lru)[1] = k
      BY <1>2, <1>3, <2>1, AgreeWith
    <3> QED  BY <1>3, <1>4, <1>5, <1>6, <3>1, <3>2, Sizes
  <2>2. CASE k \in DOMAIN items
    <3> DEFINE rest == Without(items, k)
               left == bytes - SizeOf[items[k].response]
               short == RemoveAt(lru, Place(k))
    <3>1. lru' = <<k>> \o short /\ bytes' = left + SizeOf[r]
      BY <2>2 DEF Insert, MoveToFront, ListWithout, BytesWithout, Size
    <3>2. Place(k) \in 1..Len(lru) /\ lru[Place(k)] = k  BY <2>2, PlaceOf
    <3> HIDE DEF k, r, entry
    <3>3. /\ Agree(rest, short, left, usedAfter)
          /\ Len(short) = Len(lru) - 1
      BY <2>2, <3>2, AgreeWithout
    <3>4. k \notin DOMAIN rest /\ With(rest, k, entry) = With(items, k, entry)
      <4>1. DOMAIN rest = DOMAIN items \ {k} /\ \A x \in DOMAIN rest : rest[x] = items[x]
        BY DEF Without
      <4>2. DOMAIN rest \union {k} = DOMAIN items \union {k}  BY <4>1
      <4> HIDE DEF rest
      <4>3. \A x \in DOMAIN items \union {k} :
              (IF x = k THEN entry ELSE rest[x]) = (IF x = k THEN entry ELSE items[x])
        BY <4>1
      <4> QED  BY <4>1, <4>2, <4>3 DEF With
    <3> HIDE DEF rest, left, short
    <3>5. /\ Agree(With(rest, k, entry), <<k>> \o short, left + SizeOf[entry.response],
                   UsedNow(usedAfter, k))
          /\ Len(<<k>> \o short) = Len(short) + 1 /\ (<<k>> \o short)[1] = k
      BY <1>2, <1>3, <3>3, <3>4, AgreeWith
    <3>6. Len(lru) \in Nat \ {0}  BY <3>2
    <3> QED  BY <1>3, <1>4, <1>5, <1>6, <3>1, <3>3, <3>4, <3>5, <3>6, Sizes
  <2> QED  BY <2>1, <2>2
<1> HIDE DEF entry
<1>8. CallsTyped'
  <2>1. [setter[s] EXCEPT !.at = "evict"] \in Call  BY <1>2 DEF Call
  <2>2. setter' \in [Setters -> Call]  BY <1>1, <2>1 DEF CallsTyped
  <2> QED  BY <1>1, <1>4, <2>2 DEF CallsTyped
<1>9. TypeOK'  BY <1>7, <1>8, AgreeTyped DEF CallsTyped, TypeOK
<1>10. ASSUME NEW x \in Setters PROVE CallSound(x)'
  <2>1. CallSound(x)  BY DEF IInv
  <2>2. CASE x = s
    <3>1. setter'[s] = [setter[s] EXCEPT !.at = "evict"]  BY <1>1 DEF CallsTyped
    <3>2. /\ setter'[s].at = "evict" /\ setter'[s].key = k /\ setter'[s].response = r
          /\ setter'[s].ttl = setter[s].ttl
      BY <1>2, <3>1 DEF Call
    <3>3. lru' # <<>>  BY <1>7
    <3> QED  BY <1>1, <1>7, <2>1, <2>2, <3>2, <3>3 DEF CallSound
  <2>3. CASE x # s
    <3>1. setter'[x] = setter[x]  BY <1>1, <2>3 DEF CallsTyped
    <3>2. lock # x  BY <1>1, CacheAssumption
    <3> QED  BY <1>1, <2>1, <2>3, <3>1, <3>2 DEF CallSound
  <2> QED  BY <2>2, <2>3
<1>11. WithinBounds'  BY <1>1, CacheAssumption DEF WithinBounds
<1> QED  BY <1>7, <1>9, <1>10, <1>11 DEF IInv

\* While the cache is over a bound it holds two entries or more, because what Set
\* inserted fits on its own: the last one is not the new one.
LEMMA VictimIsOld ==
    ASSUME IInv, NEW s \in Setters, Evict(s)
    PROVE  /\ lru # <<>> /\ Len(lru) > 1
           /\ Victim = lru[Len(lru)] /\ Victim \in DOMAIN items
           /\ Place(Victim) = Len(lru)
<1> USE TypeParts
<1>1. setter[s].at = "evict" /\ Over  BY DEF Evict
<1>2. lru # <<>> /\ lru[1] = setter[s].key  BY <1>1 DEF IInv, CallSound
<1>3. /\ lru \in Seq(Keys) /\ ToSet(lru) = DOMAIN items /\ DOMAIN lru = 1..Len(lru)
  <2>1. InOrder(lru, DOMAIN items, usedAfter)  BY DEF Agree
  <2>2. lru \in Seq(Keys) /\ ToSet(lru) = DOMAIN items  BY <2>1, Zenon DEF InOrder
  <2> QED  BY <2>2, LenProperties
<1>4. Len(lru) >= 1  BY <1>2, <1>3, EmptySeq
<1>5. Len(lru) # 1
  <2> SUFFICES ASSUME Len(lru) = 1 PROVE FALSE  OBVIOUS
  <2> DEFINE k == lru[1]
             size == SizeOf[items[k].response]
  <2>1. DOMAIN items = {k}
    <3>1. DOMAIN lru = {1}  BY <1>3
    <3> QED  BY <1>3, <3>1 DEF ToSet
  <2>2. items[k] \in Entry /\ size <= MaxBytes /\ size \in Nat
    BY <2>1, Sizes DEF Agree, Entry
  <2>3. Contents(items) = {k} \X (1..size)  BY <2>1 DEF Contents
  <2>4. bytes <= MaxBytes
    <3>1. IsFiniteSet({k}) /\ Cardinality({k}) = 1  BY FS_Singleton
    <3> HIDE DEF size, k
    <3>2. IsFiniteSet(1..size) /\ Cardinality(1..size) = IF 1 > size THEN 0 ELSE size - 1 + 1
      BY <2>2, FS_Interval
    <3>3. Cardinality({k} \X (1..size)) = Cardinality({k}) * Cardinality(1..size)
      BY <3>1, <3>2, FS_Product
    <3>4. bytes = Cardinality({k} \X (1..size))  BY <2>3 DEF Agree
    <3>5. Cardinality(1..size) = size  BY <2>2, <3>2
    <3> QED  BY <2>2, <3>1, <3>3, <3>4, <3>5
  <2>5. Cardinality(DOMAIN items) <= MaxEntries  BY Sizes
  <2> QED  BY <1>1, <2>4, <2>5, Sizes DEF Over
<1>6. Victim = lru[Len(lru)]  BY DEF Victim, Last
<1>7. Len(lru) \in DOMAIN lru  BY <1>3, <1>4
<1>8. Victim \in DOMAIN items  BY <1>3, <1>6, <1>7 DEF ToSet
<1>9. Place(Victim) = Len(lru)  BY <1>3, <1>6, <1>7, <1>8, PlaceOf
<1> QED  BY <1>2, <1>4, <1>5, <1>6, <1>8, <1>9

LEMMA EvictStep ==
    ASSUME IInv, NEW s \in Setters, Evict(s)
    PROVE  IInv'
<1> USE TypeParts
<1> DEFINE k == Victim
<1>1. lru # <<>> /\ Len(lru) > 1 /\ k \in DOMAIN items /\ Place(k) = Len(lru)
  BY VictimIsOld
<1>2. /\ setter[s].at = "evict"
      /\ UNCHANGED <<now, lock, setter, served, usedAfter>>
      /\ RemoveElement(k)
  BY <1>1 DEF Evict
<1> HIDE DEF k
<1>3. /\ items' = Without(items, k) /\ lru' = RemoveAt(lru, Place(k))
      /\ bytes' = bytes - SizeOf[items[k].response]
  BY <1>2 DEF RemoveElement, ItemsWithout, Without, ListWithout, BytesWithout, Size
<1>4. Place(k) \in 1..Len(lru) /\ lru[Place(k)] = k /\ Place(k) > 1  BY <1>1, PlaceOf
<1>5. /\ Agree(items', lru', bytes', usedAfter')
      /\ bytes' \in Nat /\ Len(lru') = Len(lru) - 1 /\ lru'[1] = lru[1]
  BY <1>1, <1>2, <1>3, <1>4, AgreeWithout
<1>6. CallsTyped'  BY <1>2 DEF CallsTyped
<1>7. Len(lru') <= MaxEntries + 1  BY <1>5, Sizes
<1>8. TypeOK'  BY <1>5, <1>6, <1>7, AgreeTyped DEF CallsTyped, TypeOK
<1>9. lru' # <<>>
  <2>1. Len(lru') # 0  BY <1>1, <1>5
  <2> QED  BY <2>1
<1>10. ASSUME NEW x \in Setters PROVE CallSound(x)'
  BY <1>2, <1>5, <1>9 DEF IInv, CallSound
<1>11. WithinBounds'
  <2>1. lock = s  BY <1>2 DEF IInv, CallSound
  <2> QED  BY <1>2, <2>1, CacheAssumption DEF WithinBounds
<1> QED  BY <1>5, <1>8, <1>10, <1>11 DEF IInv

\* The mutex is given back only once the loop has found the cache within bounds.
LEMMA ReturnStep ==
    ASSUME IInv, NEW s \in Setters, Return(s)
    PROVE  IInv'
<1> USE TypeParts
<1>1. /\ setter[s].at = "evict" /\ ~Over /\ lock' = Nobody
      /\ setter' = [setter EXCEPT ![s] = NoCall]
      /\ UNCHANGED <<now, items, lru, bytes, served, usedAfter>>
  BY DEF Return, store
<1>2. lock = s  BY <1>1 DEF IInv, CallSound
<1>3. CallsTyped'  BY <1>1 DEF CallsTyped, NoCall, Call
<1>4. TypeOK'  BY <1>1, <1>3 DEF IInv, TypeOK, CallsTyped
<1>5. ASSUME NEW x \in Setters PROVE CallSound(x)'
  <2>1. CallSound(x)  BY DEF IInv
  <2>2. Nobody # x  BY CacheAssumption
  <2>3. CASE x = s
    <3>1. setter'[x].at = "idle"  BY <1>1, <2>3 DEF CallsTyped, NoCall
    <3> QED  BY <1>1, <2>2, <3>1 DEF CallSound
  <2>4. CASE x # s
    <3>1. setter'[x] = setter[x]  BY <1>1, <2>4 DEF CallsTyped
    <3> QED  BY <1>1, <1>2, <2>1, <2>2, <2>4, <3>1 DEF CallSound
  <2> QED  BY <2>3, <2>4
<1>6. WithinBounds'  BY <1>1, Sizes DEF WithinBounds, Over
<1> QED  BY <1>1, <1>4, <1>5, <1>6 DEF IInv

LEMMA StampStep ==
    ASSUME IInv, NEW s \in Setters, NEW k \in Keys, NEW r \in Responses, NEW ttl \in TTLs,
           Stamp(s, k, r, ttl)
    PROVE  IInv'
<1> USE TypeParts
<1> DEFINE call == [at |-> "stamped", key |-> k, response |-> r, ttl |-> ttl]
<1>1. /\ setter[s].at = "idle" /\ ttl > 0 /\ SizeOf[r] <= MaxBytes
      /\ setter' = [setter EXCEPT ![s] = call]
      /\ UNCHANGED <<now, items, lru, bytes, lock, served, usedAfter>>
  BY DEF Stamp, Fits, store
<1>2. call \in Call  BY DEF Call
<1>3. /\ call.at = "stamped" /\ call.key = k /\ call.response = r /\ call.ttl = ttl
  OBVIOUS
<1> HIDE DEF call
<1>4. CallsTyped'  BY <1>1, <1>2 DEF CallsTyped
<1>5. TypeOK'  BY <1>1, <1>4 DEF IInv, TypeOK, CallsTyped
<1>6. ASSUME NEW x \in Setters PROVE CallSound(x)'
  <2>1. CallSound(x)  BY DEF IInv
  <2>2. CASE x = s
    <3>1. setter'[x] = call  BY <1>1, <2>2 DEF CallsTyped
    <3> QED  BY <1>1, <1>3, <2>1, <2>2, <3>1 DEF CallSound
  <2>3. CASE x # s
    <3>1. setter'[x] = setter[x]  BY <1>1, <2>3 DEF CallsTyped
    <3> QED  BY <1>1, <2>1, <3>1 DEF CallSound
  <2> QED  BY <2>2, <2>3
<1>7. WithinBounds'  BY <1>1 DEF IInv, WithinBounds
<1> QED  BY <1>1, <1>5, <1>6, <1>7 DEF IInv

LEMMA IdleStep ==
    ASSUME IInv, Tick \/ (\E k \in Keys : GetAbsent(k)) \/ UNCHANGED vars
    PROVE  IInv'
<1>1. UNCHANGED <<items, lru, bytes, lock, setter, usedAfter>>
  BY DEF Tick, GetAbsent, vars, store
<1>2. now' \in 0..MaxTime  BY Sizes DEF IInv, TypeOK, Tick, GetAbsent, vars
<1>3. served' \in Responses \union {Miss, NoAnswer}
  BY DEF IInv, TypeOK, Tick, GetAbsent, vars
<1>4. TypeOK'  BY <1>1, <1>2, <1>3 DEF IInv, TypeOK
<1>5. ASSUME NEW s \in Setters PROVE CallSound(s)'
  BY <1>1 DEF IInv, CallSound
<1> QED  BY <1>1, <1>4, <1>5 DEF IInv, WithinBounds

LEMMA NextStep ==
    ASSUME IInv, [Next]_vars
    PROVE  IInv'
<1>1. CASE \E k \in Keys : GetExpired(k) \/ GetFresh(k)
  BY <1>1, GetExpiredStep, GetFreshStep
<1>2. CASE \E s \in Setters : Set(s)
  BY <1>2, InsertStep, EvictStep, ReturnStep DEF Set
<1>3. CASE \E s \in Setters, k \in Keys, r \in Responses, ttl \in TTLs : Stamp(s, k, r, ttl)
  BY <1>3, StampStep
<1>4. CASE Tick \/ (\E k \in Keys : GetAbsent(k)) \/ UNCHANGED vars
  BY <1>4, IdleStep
<1> QED  BY <1>1, <1>2, <1>3, <1>4 DEF Next

-----------------------------------------------------------------------------
(* Theorems.                                                               *)

\* What the steps keep is an invariant of the cache.
THEOREM Inductive == Spec => []IInv
<1>1. Init => IInv  BY InitIInv
<1>2. IInv /\ [Next]_vars => IInv'  BY NextStep
<1> QED  BY <1>1, <1>2, PTL DEF Spec

\* The map, the list and the count of bytes describe the same entries after every
\* step of Get, Set and the eviction loop.
THEOREM Consistent == Spec => []StoreAgrees
<1>1. IInv => StoreAgrees
  <2> SUFFICES ASSUME IInv PROVE StoreAgrees  OBVIOUS
  <2>1. TypeOK /\ Agree(items, lru, bytes, usedAfter)  BY DEF IInv
  <2>2. InOrder(lru, DOMAIN items, usedAfter)  BY <2>1 DEF Agree
  <2>3. ToSet(lru) = DOMAIN items  BY <2>2, Zenon DEF InOrder
  <2> QED  BY <2>1, <2>3 DEF Agree, StoreAgrees
<1> QED  BY <1>1, Inductive, PTL

\* Whoever gets the mutex finds the cache within both bounds.
THEOREM Bounded == Spec => []WithinBounds
<1>1. IInv => WithinBounds  BY DEF IInv
<1> QED  BY <1>1, Inductive, PTL

\* The eviction loop never takes the entry that Set has just stored.
THEOREM NewestStays == Spec => []SetKeepsNew
<1>1. IInv => SetKeepsNew
  <2> SUFFICES ASSUME IInv, NEW s \in Setters, setter[s].at = "evict"
               PROVE  setter[s].key \in DOMAIN items
    BY DEF SetKeepsNew
  <2>1. lru # <<>> /\ lru[1] = setter[s].key  BY DEF IInv, CallSound
  <2>2. InOrder(lru, DOMAIN items, usedAfter)  BY DEF IInv, Agree
  <2>3. lru \in Seq(Keys) /\ ToSet(lru) = DOMAIN items  BY <2>2, Zenon DEF InOrder
  <2>4. 1 \in DOMAIN lru  BY <2>1, <2>3, EmptySeq, LenProperties
  <2> QED  BY <2>1, <2>3, <2>4 DEF ToSet
<1> QED  BY <1>1, Inductive, PTL

\* An eviction takes the last entry of the list, and every other one was used
\* after it.
LEMMA EvictsOldest ==
    ASSUME IInv, NEW s \in Setters, Evict(s)
    PROVE  /\ items' = Without(items, Victim)
           /\ Victim \in DOMAIN items
           /\ \A x \in DOMAIN items \ {Victim} : <<x, Victim>> \in usedAfter
<1>1. /\ lru # <<>> /\ Len(lru) > 1 /\ Victim = lru[Len(lru)] /\ Victim \in DOMAIN items
  BY VictimIsOld
<1>2. items' = Without(items, Victim)
  BY <1>1 DEF Evict, RemoveElement, ItemsWithout, Without
<1>3. InOrder(lru, DOMAIN items, usedAfter)  BY DEF IInv, Agree
<1>4. /\ lru \in Seq(Keys) /\ ToSet(lru) = DOMAIN items
      /\ \A i, j \in 1..Len(lru) : i < j => lru[i] # lru[j] /\ <<lru[i], lru[j]>> \in usedAfter
  BY <1>3, Zenon DEF InOrder
<1>5. DOMAIN lru = 1..Len(lru) /\ Len(lru) \in Nat  BY <1>4, LenProperties
<1>6. ASSUME NEW x \in DOMAIN items \ {Victim} PROVE <<x, Victim>> \in usedAfter
  <2>1. PICK i \in 1..Len(lru) : lru[i] = x  BY <1>4, <1>5 DEF ToSet
  <2>2. i # Len(lru)  BY <1>1, <2>1
  <2>3. i < Len(lru) /\ Len(lru) \in 1..Len(lru)
    <3>1. \A n \in Nat : \A m \in 1..n : m # n => m < n /\ n \in 1..n  OBVIOUS
    <3> QED  BY <1>5, <2>2, <3>1
  <2>4. <<lru[i], lru[Len(lru)]>> \in usedAfter  BY <1>4, <2>3
  <2> QED  BY <1>1, <2>1, <2>4
<1> QED  BY <1>1, <1>2, <1>6

\* An eviction takes the entry that was stored or served longest ago.
THEOREM LeastRecentGoes == Spec => EvictsLeastRecent
<1> DEFINE Fair == \A k \in DOMAIN items :
                     lock # Nobody /\ k \notin DOMAIN items'
                     => \A x \in DOMAIN items' : <<x, k>> \in usedAfter
<1>1. IInv /\ [Next]_vars => Fair
  <2> SUFFICES ASSUME IInv, [Next]_vars, NEW k \in DOMAIN items,
                      lock # Nobody, k \notin DOMAIN items'
               PROVE  \A x \in DOMAIN items' : <<x, k>> \in usedAfter
    OBVIOUS
  <2>1. PICK s \in Setters : Evict(s)
    <3>1. items' # items  OBVIOUS
    <3>2. ~Tick /\ ~UNCHANGED vars  BY <3>1 DEF Tick, vars, store
    <3>3. \A j \in Keys : ~GetAbsent(j) /\ ~GetExpired(j) /\ ~GetFresh(j)
      BY DEF GetAbsent, GetExpired, GetFresh
    <3>4. \A s \in Setters : ~Insert(s) /\ ~Return(s)
      BY <3>1 DEF Insert, Return, store
    <3>5. \A s \in Setters, j \in Keys, r \in Responses, ttl \in TTLs : ~Stamp(s, j, r, ttl)
      BY <3>1 DEF Stamp, store
    <3> QED  BY <3>2, <3>3, <3>4, <3>5 DEF Next, Set
  <2>2. /\ items' = Without(items, Victim)
        /\ \A x \in DOMAIN items \ {Victim} : <<x, Victim>> \in usedAfter
    BY <2>1, EvictsOldest
  <2>3. DOMAIN items' = DOMAIN items \ {Victim}  BY <2>2 DEF Without
  <2>4. k = Victim  BY <2>3
  <2> QED  BY <2>2, <2>3, <2>4
<1>2. Spec => [][Fair]_vars
  BY <1>1, Inductive, PTL DEF Spec
<1> QED  BY <1>2 DEF EvictsLeastRecent

-----------------------------------------------------------------------------
(* The cache keeps its contract.                                           *)

\* Removing a key is forgetting it.
LEMMA RemovalForgets ==
    ASSUME NEW k \in Keys, items' = Without(items, k)
    PROVE  Contract!Forget({k})
<1>1. DOMAIN items' = DOMAIN items \ {k} /\ \A x \in DOMAIN items' : items'[x] = items[x]
  BY DEF Without
<1> QED  BY <1>1 DEF Contract!Forget

\* Each step of the cache is one of the contract, or changes nothing it mentions.
LEMMA StepOfContract ==
    ASSUME IInv, [Next]_vars
    PROVE  [Contract!Next]_(Contract!vars)
<1> USE TypeParts
<1>1. ASSUME NEW k \in Keys, GetAbsent(k) PROVE Contract!Next
  <2>1. k \notin DOMAIN items /\ served' = Miss /\ UNCHANGED <<now, items>>
    BY <1>1 DEF GetAbsent, store
  <2>2. ~Contract!Fresh(k)
    <3>1. ~(now < 0)  BY Sizes DEF CallsTyped
    <3> QED  BY <2>1, <3>1 DEF Contract!Fresh
  <2>3. Contract!Forget({})  BY <2>1 DEF Contract!Forget
  <2>4. Contract!Fail(k)  BY <2>1, <2>2, <2>3 DEF Contract!Fail
  <2> QED  BY <2>4 DEF Contract!Next
<1>2. ASSUME NEW k \in Keys, GetExpired(k) PROVE Contract!Next
  <2>1. k \in DOMAIN items /\ ~Fresh(k) /\ served' = Miss /\ UNCHANGED now
        /\ items' = Without(items, k)
    BY <1>2 DEF GetExpired, RemoveElement, ItemsWithout, Without
  <2>2. ~Contract!Fresh(k)  BY <2>1 DEF Contract!Fresh, Fresh
  <2>3. Contract!Forget({k})  BY <2>1, RemovalForgets
  <2>4. Contract!Fail(k)  BY <2>1, <2>2, <2>3 DEF Contract!Fail
  <2> QED  BY <2>4 DEF Contract!Next
<1>3. ASSUME NEW k \in Keys, GetFresh(k) PROVE Contract!Next
  <2>1. k \in DOMAIN items /\ Fresh(k) /\ served' = items[k].response
        /\ UNCHANGED <<now, items>>
    BY <1>3 DEF GetFresh
  <2>2. Contract!Fresh(k)  BY <2>1 DEF Contract!Fresh, Fresh
  <2>3. items[k].response \in Responses  BY <2>1 DEF Agree, Entry
  <2>4. Contract!Serve(k)
    BY <2>1, <2>2, <2>3, CacheAssumption DEF Contract!Serve
  <2> QED  BY <2>4 DEF Contract!Next
<1>4. ASSUME NEW s \in Setters, Insert(s) PROVE Contract!Next
  <2>1. setter[s].at = "stamped" /\ UNCHANGED <<now, served>>  BY <1>4 DEF Insert
  <2>2. setter[s].key \in Keys /\ setter[s].response \in Responses
        /\ setter[s].ttl \in TTLs /\ setter[s].ttl > 0
    BY <2>1 DEF IInv, CallSound
  <2>3. PICK k \in Keys, r \in Responses, ttl \in TTLs :
          k = setter[s].key /\ r = setter[s].response /\ ttl = setter[s].ttl /\ ttl > 0
    BY <2>2
  <2> DEFINE entry == [response |-> r, expiresAt |-> now + ttl]
  <2>4. items' = With(items, k, entry)  BY <1>4, <2>3 DEF Insert, With
  <2>5. DOMAIN items' = DOMAIN items \union {k} /\ items'[k] = entry
        /\ \A x \in DOMAIN items \ {k} : items'[x] = items[x]
    BY <2>4 DEF With
  <2>6. entry.response = r /\ entry.expiresAt = now + ttl  OBVIOUS
  <2> HIDE DEF entry
  <2>7. Contract!Put(k, r, ttl)
    BY <2>1, <2>3, <2>5, <2>6 DEF Contract!Put
  <2> QED  BY <2>7 DEF Contract!Next
<1>5. ASSUME NEW s \in Setters, Evict(s) PROVE Contract!Next
  <2>1. items' = Without(items, Victim) /\ Victim \in Keys
    BY <1>5, EvictsOldest
  <2>2. PICK v \in Keys : items' = Without(items, v)  BY <2>1
  <2>3. Contract!Forget({v})  BY <2>2, RemovalForgets
  <2>4. UNCHANGED <<now, served>>  BY <1>5 DEF Evict
  <2>5. Contract!Drop  BY <2>3, <2>4 DEF Contract!Drop
  <2> QED  BY <2>5 DEF Contract!Next
<1>6. ASSUME Tick PROVE Contract!Next
  BY <1>6 DEF Tick, store, Contract!Tick, Contract!Next
<1>7. ASSUME \/ UNCHANGED vars
             \/ \E s \in Setters :
                  \/ Return(s)
                  \/ \E k \in Keys, r \in Responses, ttl \in TTLs : Stamp(s, k, r, ttl)
      PROVE  UNCHANGED Contract!vars
  BY <1>7 DEF vars, Return, Stamp, store, Contract!vars
<1> QED  BY <1>1, <1>2, <1>3, <1>4, <1>5, <1>6, <1>7 DEF Next, Set

\* Nothing expired is ever served, and nothing that a completed Set replaced,
\* whatever is evicted or dropped on the way.
THEOREM KeepsContract == Spec => ImplementsContract
<1>1. Init => Contract!Init
  <2> SUFFICES ASSUME Init PROVE Contract!Init  OBVIOUS
  <2>1. DOMAIN items = {}  BY DEF Init
  <2> QED  BY <2>1 DEF Init, Contract!Init
<1>2. IInv /\ [Next]_vars => [Contract!Next]_(Contract!vars)
  BY StepOfContract
<1> QED  BY <1>1, <1>2, Inductive, PTL DEF Spec, Contract!Spec, ImplementsContract
=============================================================================
