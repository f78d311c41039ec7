------------------------- MODULE CacheCaptureProofs -------------------------
(***************************************************************************)
(* Theorems about CacheCapture and CachePolicy, for any number of          *)
(* concurrent bodies of any length, any bounds, and Cache-Control lines of *)
(* any length, in any number of fields.                                    *)
(***************************************************************************)
EXTENDS CacheCapture, FiniteSetTheorems, WellFoundedInduction, TLAPS

-----------------------------------------------------------------------------
(* The lifetimes of the policy are durations, and not negative.            *)

\* What is assumed of the bounds, and of one exchange.
LEMMA Bounds ==
    /\ MaxDuration \in Nat /\ DefaultTTL \in 1..MaxDuration /\ DefaultTTL \in Int
    /\ IsFiniteSet(Bodies) /\ MaxCacheBody \in Nat /\ MaxChunk \in Nat
    /\ MaxLength \in Nat /\ MaxTime \in Nat
<1>1. MaxDuration \in Nat /\ DefaultTTL \in 1..MaxDuration  BY PolicyAssumption
<1>2. DefaultTTL \in Int  BY <1>1
<1>3. /\ IsFiniteSet(Bodies) /\ MaxCacheBody \in Nat \ {0} /\ MaxChunk \in Nat \ {0}
      /\ MaxLength \in Nat /\ MaxTime \in Nat
  BY CaptureAssumption, Zenon
<1> QED  BY <1>1, <1>2, <1>3

LEMMA ExchangeTyped ==
    ASSUME NEW e \in Exchanges
    PROVE  /\ e[1].cacheControl \in Seq(Seq(Words)) /\ e[2].cacheControl \in Seq(Seq(Words))
           /\ e[2].expires \in Seq(SUBSET Int) /\ e[2].age \in Seq(SUBSET Int)
           /\ \A i \in DOMAIN e[2].expires : \A m, n \in e[2].expires[i] : m = n
           /\ \A i \in DOMAIN e[2].age : \A m, n \in e[2].age[i] : m = n
<1>1. /\ e[1].cacheControl \in Seq(Seq(Words)) /\ e[2].cacheControl \in Seq(Seq(Words))
      /\ e[2].expires \in Seq(SUBSET Int) /\ e[2].age \in Seq(SUBSET Int)
      /\ \A v \in Numbers(e[2]) : \A m, n \in v : m = n
  BY CaptureAssumption, Zenon
<1>2. /\ \A i \in DOMAIN e[2].expires : e[2].expires[i] \in Numbers(e[2])
      /\ \A i \in DOMAIN e[2].age : e[2].age[i] \in Numbers(e[2])
  BY DEF Numbers
<1> QED  BY <1>1, <1>2

\* A finite set of integers has a maximum: an element above which the set has a
\* least part.
LEMMA MaxOf ==
    ASSUME NEW T, IsFiniteSet(T), T # {}, T \subseteq Int
    PROVE  Max(T) \in T /\ \A y \in T : Max(T) >= y
<1> DEFINE Above(x) == {y \in T : y > x}
           Parts == {Above(x) : x \in T}
<1>1. Parts \subseteq FiniteSubsetsOf(T) /\ Parts # {}
  <2>1. ASSUME NEW x \in T PROVE Above(x) \in FiniteSubsetsOf(T)
    <3>1. Above(x) \subseteq T  OBVIOUS
    <3>2. IsFiniteSet(Above(x))  BY <3>1, FS_Subset
    <3> QED  BY <3>1, <3>2 DEF FiniteSubsetsOf
  <2> HIDE DEF Above
  <2> QED  BY <2>1
<1>2. PICK P \in Parts : \A Q \in Parts : <<Q, P>> \notin StrictSubsetOrdering(T)
  BY <1>1, FS_StrictSubsetOrderingWellFounded, WFMin
<1>3. PICK x \in T : P = Above(x)  BY <1>2
<1>4. \A y \in T : x >= y
  <2> SUFFICES ASSUME NEW y \in T, y > x PROVE FALSE  OBVIOUS
  <2>1. Above(y) \subseteq Above(x) /\ y \in Above(x) /\ y \notin Above(y)
    <3>1. x \in Int /\ y \in Int  OBVIOUS
    <3>2. ASSUME NEW z \in T, z > y PROVE z > x
      <4>1. z \in Int  OBVIOUS
      <4> QED  BY <3>1, <3>2, <4>1
    <3>3. Above(y) \subseteq Above(x)  BY <3>2
    <3>4. ~(y > y)  BY <3>1
    <3> QED  BY <3>3, <3>4
  <2>2. <<Above(y), Above(x)>> \in StrictSubsetOrdering(T)
    BY <2>1 DEF StrictSubsetOrdering
  <2> QED  BY <1>2, <1>3, <2>2
<1> HIDE DEF Above, Parts
<1> QED  BY <1>4 DEF Max

\* The difference of two durations wraps into a duration.
LEMMA WrappedRange ==
    ASSUME NEW d \in Int
    PROVE  Wrapped(d) \in (-MaxDuration - 1)..MaxDuration
<1>1. MaxDuration \in Nat  BY PolicyAssumption
<1> DEFINE r == (d + MaxDuration + 1) % (2 * MaxDuration + 2)
<1>2. r \in 0..(2 * MaxDuration + 1)
  <2>1. 2 * MaxDuration + 2 \in Nat \ {0} /\ d + MaxDuration + 1 \in Int  BY <1>1
  <2> QED  BY <1>1, <2>1
<1> QED  BY <1>1, <1>2 DEF Wrapped

LEMMA UntilType ==
    ASSUME NEW t \in Int, NEW at \in Int
    PROVE  Until(t, at) \in Int
<1>1. MaxDuration \in Int  BY PolicyAssumption
<1> DEFINE Low == {MaxDuration, t - at}
           High == {-MaxDuration - 1, Min(Low)}
<1>2. Min(Low) \in Int
  <2>1. \E x \in Low : \A y \in Low : x =< y  BY <1>1
  <2>2. Min(Low) \in Low  BY <2>1 DEF Min
  <2> QED  BY <1>1, <2>2
<1>3. \E x \in High : \A y \in High : x >= y  BY <1>1, <1>2
<1>4. Max(High) \in High  BY <1>3 DEF Max
<1> QED  BY <1>1, <1>2, <1>4 DEF Until

\* The values of a directive that is accepted.
LEMMA SecondsType ==
    ASSUME NEW parts, NEW name
    PROVE  Seconds(parts, name) \subseteq Int
<1>1. MaxDuration \in Nat  BY PolicyAssumption
<1>2. \A d \in Seconds(parts, name) : d \in 0..MaxDuration  BY DEF Seconds, Valid
<1> QED  BY <1>1, <1>2

LEMMA LifetimeType ==
    ASSUME NEW q, NEW s, s.expires \in Seq(SUBSET Int), NEW at \in 0..MaxTime
    PROVE  /\ Lifetime(q, s, at) \in 0..MaxDuration
           /\ Lifetime(q, s, at) > 0 =>
                /\ Storable(q, s)
                /\ \E ttl \in Stated(s, at), age \in Age(s) :
                     Lifetime(q, s, at) = Wrapped(ttl - age)
<1>1. MaxDuration \in Nat /\ DefaultTTL \in Int /\ at \in Int
  BY Bounds
<1>2. Stated(s, at) \subseteq Int
  <2>1. s.expires # <<>> => Head(s.expires) \subseteq Int  OBVIOUS
  <2>2. s.expires # <<>> => {Until(t, at) : t \in Head(s.expires)} \subseteq Int
    BY <1>1, <2>1, UntilType
  <2> QED  BY <1>1, <2>2, SecondsType DEF Stated
<1>3. Age(s) \subseteq Int  BY <1>1 DEF Age, Valid
<1> DEFINE T == {0} \union {Wrapped(ttl - age) : ttl \in Stated(s, at), age \in Age(s)}
<1>4. T \subseteq (-MaxDuration - 1)..MaxDuration
  <2>1. ASSUME NEW ttl \in Stated(s, at), NEW age \in Age(s)
        PROVE  Wrapped(ttl - age) \in (-MaxDuration - 1)..MaxDuration
    <3>1. ttl - age \in Int  BY <1>2, <1>3
    <3> QED  BY <3>1, WrappedRange
  <2> QED  BY <1>1, <2>1
<1> 0 \in T  OBVIOUS
<1> HIDE DEF T
<1>5. IsFiniteSet(T) /\ T \subseteq Int /\ T # {} /\ 0 \in T
  <2>1. -MaxDuration - 1 \in Int /\ MaxDuration \in Int  BY <1>1
  <2>2. IsFiniteSet((-MaxDuration - 1)..MaxDuration)  BY <2>1, FS_Interval
  <2>3. IsFiniteSet(T)  BY <1>4, <2>2, FS_Subset
  <2> QED  BY <1>4, <2>1, <2>3
<1>6. Max(T) \in T /\ Max(T) >= 0  BY <1>5, MaxOf
<1>7. Max(T) \in 0..MaxDuration
  <2>1. Max(T) \in (-MaxDuration - 1)..MaxDuration  BY <1>4, <1>6
  <2> QED  BY <1>1, <1>6, <2>1
<1>8. Lifetime(q, s, at) = IF Storable(q, s) THEN Max(T) ELSE 0
  <2>1. Lifetime(q, s, at) = Max(T) * (IF Storable(q, s) THEN 1 ELSE 0)
    BY DEF Lifetime, T
  <2> QED  BY <1>1, <1>7, <2>1
<1>9. ASSUME Lifetime(q, s, at) > 0
      PROVE  /\ Storable(q, s)
             /\ \E ttl \in Stated(s, at), age \in Age(s) :
                  Lifetime(q, s, at) = Wrapped(ttl - age)
  <2>1. Storable(q, s) /\ Lifetime(q, s, at) = Max(T) /\ Max(T) # 0  BY <1>8, <1>9
  <2>2. Max(T) \in {Wrapped(ttl - age) : ttl \in Stated(s, at), age \in Age(s)}
    <3>1. Max(T) \in T /\ Max(T) # 0  BY <1>6, <2>1
    <3> DEFINE best == Max(T)
    <3> HIDE DEF best
    <3>2. best \in T /\ best # 0  BY <3>1 DEF best
    <3>3. best \in {Wrapped(ttl - age) : ttl \in Stated(s, at), age \in Age(s)}
      BY <3>2 DEF T
    <3> QED  BY <3>3 DEF best
  <2> QED  BY <2>1, <2>2
<1> QED  BY <1>1, <1>7, <1>8, <1>9

-----------------------------------------------------------------------------
(* What loops over the words of a line compute.                            *)

\* Induction along 0..N, over a set instead of a predicate: otherwise the numbers
\* that are not in P have a least one.
LEMMA Upwards ==
    ASSUME NEW N \in Nat, NEW P, 0 \in P,
           \A n \in 0..N : n < N /\ n \in P => n + 1 \in P
    PROVE  \A n \in 0..N : n \in P
<1> DEFINE Out == {n \in Nat : n \in 0..N /\ n \notin P}
<1> SUFFICES ASSUME Out # {} PROVE FALSE  OBVIOUS
<1>1. Out \subseteq Nat /\ Out # {}  OBVIOUS
<1>2. PICK m \in Out : \A n \in Out : <<n, m>> \notin OpToRel(<, Nat)
  BY <1>1, NatLessThanWellFounded, WFMin
<1>3. m \in Nat /\ m # 0 /\ m \in 0..N /\ m \notin P  BY <1>2
<1>4. m - 1 \in Nat /\ m - 1 \in 0..N /\ m - 1 < N /\ m - 1 + 1 = m /\ m - 1 < m  BY <1>3
<1>5. m - 1 \notin P  BY <1>3, <1>4
<1>6. m - 1 \in Out  BY <1>4, <1>5
<1>7. <<m - 1, m>> \in OpToRel(<, Nat)  BY <1>3, <1>4 DEF OpToRel
<1> QED  BY <1>2, <1>6, <1>7

LEMMA MaxUpTo ==
    ASSUME NEW n \in Nat, n # 0, NEW T, n \in T, T \subseteq 1..n
    PROVE  Max(T) = n
<1>1. \A x \in T : (\A y \in T : x >= y) => x = n  OBVIOUS
<1>2. \A y \in T : n >= y  OBVIOUS
<1> QED  BY <1>1, <1>2 DEF Max

LEMMA MaxAmong ==
    ASSUME NEW N \in Nat, NEW T \in SUBSET (1..N), T # {}
    PROVE  Max(T) \in T /\ \A y \in T : Max(T) >= y
<1> DEFINE P == {n \in 0..N : T \intersect (1..n) # {} =>
                    \E x \in T \intersect (1..n) : \A y \in T \intersect (1..n) : x >= y}
<1>1. 0 \in P  OBVIOUS
<1>2. ASSUME NEW n \in 0..N, n < N, n \in P PROVE n + 1 \in P
  <2>1. n + 1 \in 0..N /\ n \in Nat /\ 1..(n + 1) = (1..n) \union {n + 1}  BY <1>2
  <2>2. CASE n + 1 \in T
    <3>1. n + 1 \in T \intersect (1..(n + 1)) /\ \A y \in T \intersect (1..(n + 1)) : n + 1 >= y
      BY <2>1, <2>2
    <3> QED  BY <2>1, <3>1
  <2>3. CASE n + 1 \notin T
    <3>1. T \intersect (1..(n + 1)) = T \intersect (1..n)  BY <2>1, <2>3
    <3> QED  BY <1>2, <2>1, <3>1
  <2> QED  BY <2>2, <2>3
<1> HIDE DEF P
<1>3. \A n \in 0..N : n \in P  BY <1>1, <1>2, Upwards
<1>4. N \in P  BY <1>3
<1>5. T \intersect (1..N) = T  OBVIOUS
<1>6. \E x \in T : \A y \in T : x >= y  BY <1>4, <1>5 DEF P
<1> QED  BY <1>6 DEF Max

\* A fold over positions 1..N, in the form that the community modules give it.
FoldOver(g, N, A, base, step) ==
    /\ g \in [SUBSET (1..N) -> A]
    /\ \A s \in SUBSET (1..N) :
         /\ s = {} => g[s] = base
         /\ s # {} => g[s] = step[<<Max(s), g[s \ {Max(s)}]>>]

LEMMA FoldExists ==
    ASSUME NEW N \in Nat, NEW A, NEW base \in A, NEW step \in [(1..N) \X A -> A]
    PROVE  \E g : FoldOver(g, N, A, base, step)
<1> DEFINE Fold(g, n) ==
             /\ g \in [SUBSET (1..n) -> A]
             /\ \A s \in SUBSET (1..n) :
                  g[s] = IF s = {} THEN base ELSE step[<<Max(s), g[s \ {Max(s)}]>>]
           P == {n \in 0..N : \E g : Fold(g, n)}
<1>1. 0 \in P
  <2> DEFINE zero == [s \in SUBSET (1..0) |-> base]
  <2>1. \A s \in SUBSET (1..0) : s = {}  OBVIOUS
  <2>2. Fold(zero, 0)  BY <2>1
  <2> HIDE DEF zero, Fold
  <2>3. 0 \in 0..N  OBVIOUS
  <2> QED  BY <2>2, <2>3
<1>2. ASSUME NEW n \in 0..N, n < N, n \in P PROVE n + 1 \in P
  <2>1. PICK g : Fold(g, n)  BY <1>2
  <2>2. n \in Nat /\ n + 1 \in Nat /\ n + 1 \in 1..N /\ n + 1 # 0 /\ n + 1 \in 0..N  BY <1>2
  <2> DEFINE h == [s \in SUBSET (1..(n + 1)) |->
                     IF n + 1 \in s THEN step[<<n + 1, g[s \ {n + 1}]>>] ELSE g[s]]
  <2>3. \A s \in SUBSET (1..(n + 1)) : n + 1 \notin s => s \in SUBSET (1..n)  BY <2>2
  <2>4. \A s \in SUBSET (1..(n + 1)) : s \ {n + 1} \in SUBSET (1..n)  BY <2>2
  <2>5. h \in [SUBSET (1..(n + 1)) -> A]
    <3> SUFFICES ASSUME NEW s \in SUBSET (1..(n + 1)) PROVE h[s] \in A  OBVIOUS
    <3>1. CASE n + 1 \in s
      <4>1. g[s \ {n + 1}] \in A  BY <2>1, <2>4
      <4> QED  BY <2>2, <3>1, <4>1
    <3>2. CASE n + 1 \notin s  BY <2>1, <2>3, <3>2
    <3> QED  BY <3>1, <3>2
  <2>6. ASSUME NEW s \in SUBSET (1..(n + 1))
        PROVE  h[s] = IF s = {} THEN base ELSE step[<<Max(s), h[s \ {Max(s)}]>>]
    <3>1. CASE n + 1 \in s
      <4>1. Max(s) = n + 1  BY <2>2, <3>1, MaxUpTo
      <4>2. h[s \ {n + 1}] = g[s \ {n + 1}]  BY <2>4
      <4>3. h[s] = step[<<n + 1, g[s \ {n + 1}]>>]  BY <3>1
      <4> QED  BY <3>1, <4>1, <4>2, <4>3
    <3>2. CASE n + 1 \notin s
      <4>1. s \in SUBSET (1..n) /\ h[s] = g[s]  BY <2>3, <3>2
      <4>2. s \ {Max(s)} \in SUBSET (1..n) /\ n + 1 \notin s \ {Max(s)}
            /\ s \ {Max(s)} \in SUBSET (1..(n + 1))
        BY <4>1, <3>2
      <4>3. h[s \ {Max(s)}] = g[s \ {Max(s)}]  BY <4>2
      <4>4. g[s] = IF s = {} THEN base ELSE step[<<Max(s), g[s \ {Max(s)}]>>]
        BY <2>1, <4>1
      <4> HIDE DEF h
      <4> QED  BY <4>1, <4>3, <4>4
    <3> QED  BY <3>1, <3>2
  <2> HIDE DEF h
  <2>7. Fold(h, n + 1)  BY <2>5, <2>6
  <2> QED  BY <2>2, <2>7
<1> HIDE DEF Fold, P
<1>3. N \in P
  <2>1. \A n \in 0..N : n \in P  BY <1>1, <1>2, Upwards
  <2> QED  BY <2>1
<1>4. PICK g : Fold(g, N)  BY <1>3 DEF P
<1>5. /\ g \in [SUBSET (1..N) -> A]
      /\ \A s \in SUBSET (1..N) :
           /\ s = {} => g[s] = base
           /\ s # {} => g[s] = step[<<Max(s), g[s \ {Max(s)}]>>]
  BY <1>4 DEF Fold
<1> QED  BY <1>5 DEF FoldOver


\* What a loop over 1..N has computed after each of its rounds.
Rounds(at, N, A, base, step) ==
    /\ at \in [0..N -> A]
    /\ at[0] = base
    /\ \A n \in 1..N : at[n] = step[<<n, at[n - 1]>>]

\* The fold of the positions 1..n is the result of the first n rounds.
LEMMA FoldRounds ==
    ASSUME NEW N \in Nat, NEW A, NEW base, NEW step, NEW g, FoldOver(g, N, A, base, step)
    PROVE  Rounds([n \in 0..N |-> g[1..n]], N, A, base, step)
<1> DEFINE at == [n \in 0..N |-> g[1..n]]
<1>1. at \in [0..N -> A]
  <2>1. \A n \in 0..N : 1..n \in SUBSET (1..N)  OBVIOUS
  <2> QED  BY <2>1 DEF FoldOver
<1>2. at[0] = base
  <2>1. 1..0 = {} /\ 0 \in 0..N /\ {} \in SUBSET (1..N)  OBVIOUS
  <2> QED  BY <2>1 DEF FoldOver
<1>3. ASSUME NEW n \in 1..N PROVE at[n] = step[<<n, at[n - 1]>>]
  <2>1. /\ 1..n \in SUBSET (1..N) /\ 1..n # {} /\ n \in 1..n /\ n \in Nat /\ n # 0
        /\ n \in 0..N /\ n - 1 \in 0..N /\ (1..n) \ {n} = 1..(n - 1)
    OBVIOUS
  <2>2. Max(1..n) = n  BY <2>1, MaxUpTo
  <2>3. g[1..n] = step[<<Max(1..n), g[(1..n) \ {Max(1..n)}]>>]  BY <2>1 DEF FoldOver
  <2> QED  BY <2>1, <2>2, <2>3
<1> HIDE DEF at
<1>4. Rounds(at, N, A, base, step)  BY <1>1, <1>2, <1>3 DEF Rounds
<1> QED  BY <1>4 DEF at

\* So a loop has rounds.
LEMMA RoundsExist ==
    ASSUME NEW N \in Nat, NEW A, NEW base \in A, NEW step \in [(1..N) \X A -> A]
    PROVE  \E at : Rounds(at, N, A, base, step)
<1>1. PICK g : FoldOver(g, N, A, base, step)  BY FoldExists
<1> QED  BY <1>1, FoldRounds
-----------------------------------------------------------------------------
(* The words of a Cache-Control line and the states of its splitting.      *)

\* The words of the lines that fields are joined to, and what they are split into.
Tokens == Words \union {Comma}
Pieces == {Directive(part) : part \in Seq(Tokens)}
States == [parts : Seq(Pieces), part : Seq(Tokens), quoted : BOOLEAN, escaped : BOOLEAN]

LEMMA WordsTyped ==
    /\ Comma # Quote /\ Comma # Escape /\ Quote # Escape
    /\ \A w \in Tokens : w.value \subseteq Int /\ \A m, n \in w.value : m = n
<1>1. Comma.name = "," /\ Quote.name = "\"" /\ Escape.name = "\\" /\ Comma.value = {}
  BY DEF Comma, Quote, Escape, Word
<1>2. Comma.name # Quote.name /\ Comma.name # Escape.name /\ Quote.name # Escape.name
  BY <1>1
<1>3. \A w \in Words : w.value \subseteq Int /\ \A m, n \in w.value : m = n  BY DEF Words
<1> QED  BY <1>1, <1>2, <1>3 DEF Tokens

\* A part of a line becomes its first word, with the value or without it.
LEMMA DirectiveOf ==
    ASSUME NEW part
    PROVE  part # <<>> => /\ Directive(part).name = Head(part).name
                          /\ Directive(part).value \in {{}, Head(part).value}
BY DEF Directive, Word

LEMMA SplitWordType ==
    ASSUME NEW at \in States, NEW w \in Tokens
    PROVE  SplitWord(at, w) \in States /\ NoParts \in States
<1>1. /\ at.parts \in Seq(Pieces) /\ at.part \in Seq(Tokens)
      /\ at.quoted \in BOOLEAN /\ at.escaped \in BOOLEAN
  BY DEF States
<1>2. /\ Append(at.part, w) \in Seq(Tokens) /\ <<>> \in Seq(Tokens) /\ <<>> \in Seq(Pieces)
      /\ Append(at.parts, Directive(at.part)) \in Seq(Pieces)
  <2>1. Directive(at.part) \in Pieces  BY <1>1 DEF Pieces
  <2> QED  BY <1>1, <2>1
<1>3. NoParts \in States  BY <1>2 DEF NoParts, States
<1> DEFINE next == SplitWord(at, w)
<1>4. /\ DOMAIN next = {"parts", "part", "quoted", "escaped"}
      /\ next.parts \in {at.parts, Append(at.parts, Directive(at.part))}
      /\ next.part \in {<<>>, Append(at.part, w)}
      /\ next.quoted \in BOOLEAN /\ next.escaped \in BOOLEAN
      /\ next = [parts |-> next.parts, part |-> next.part,
                 quoted |-> next.quoted, escaped |-> next.escaped]
  <2>1. at = [parts |-> at.parts, part |-> at.part,
              quoted |-> at.quoted, escaped |-> at.escaped]
    BY DEF States
  <2>2. CASE at.escaped  BY <1>1, <2>1, <2>2 DEF SplitWord
  <2>3. CASE ~at.escaped /\ w = Comma /\ ~at.quoted  BY <1>1, <2>1, <2>3 DEF SplitWord
  <2>4. CASE ~at.escaped /\ ~(w = Comma /\ ~at.quoted)
    BY <1>1, <2>1, <2>4 DEF SplitWord
  <2> QED  BY <2>2, <2>3, <2>4
<1> HIDE DEF next
<1>5. next \in States  BY <1>1, <1>2, <1>4 DEF States
<1> QED  BY <1>3, <1>5 DEF next

\* The states of splitCacheControl, one word after another.
Stages(at, line) ==
    /\ \A n \in 0..Len(line) : at[n] \in States
    /\ at[0] = NoParts
    /\ \A n \in 1..Len(line) : at[n] = SplitWord(at[n - 1], line[n])
    /\ Split(line).parts = Append(at[Len(line)].parts, Directive(at[Len(line)].part))

LEMMA SplitUnfolds ==
    ASSUME NEW line \in Seq(Tokens)
    PROVE  \E at : Stages(at, line)
<1> DEFINE N == Len(line)
           step == [p \in (1..N) \X States |-> SplitWord(p[2], line[p[1]])]
           Iter(g) == g = [s \in SUBSET (1..N) |->
                            IF s = {} THEN NoParts
                            ELSE SplitWord(g[s \ {Max(s)}], line[Max(s)])]
           iter == CHOOSE g : Iter(g)
<1>1. N \in Nat /\ DOMAIN line = 1..N /\ \A n \in 1..N : line[n] \in Tokens  OBVIOUS
<1>2. Split(line).parts = Append(iter[1..N].parts, Directive(iter[1..N].part))
  BY <1>1 DEF Split, FoldLeft, MapThenFoldSet
<1>3. NoParts \in States
  BY DEF NoParts, States
<1>4. step \in [(1..N) \X States -> States]
  <2> SUFFICES ASSUME NEW n \in 1..N, NEW x \in States PROVE SplitWord(x, line[n]) \in States
    OBVIOUS
  <2> QED  BY <1>1, SplitWordType
<1>5. \A n \in 1..N, x \in States : step[<<n, x>>] = SplitWord(x, line[n])  OBVIOUS
<1> HIDE DEF step
<1>6. ASSUME NEW g, g \in [SUBSET (1..N) -> States], NEW s \in SUBSET (1..N), s # {}
      PROVE  step[<<Max(s), g[s \ {Max(s)}]>>] = SplitWord(g[s \ {Max(s)}], line[Max(s)])
  <2>1. Max(s) \in 1..N  BY <1>1, <1>6, MaxAmong
  <2>2. g[s \ {Max(s)}] \in States  BY <1>6
  <2> QED  BY <1>5, <2>1, <2>2
<1>7. PICK g : FoldOver(g, N, States, NoParts, step)
  <2>1. N \in Nat  BY <1>1
  <2> HIDE DEF N
  <2> QED  BY <1>3, <1>4, <2>1, FoldExists
<1>8. Iter(iter)
  <2>1. Iter(g)
    <3> HIDE DEF N
    <3>1. \A s \in SUBSET (1..N) :
            g[s] = IF s = {} THEN NoParts ELSE SplitWord(g[s \ {Max(s)}], line[Max(s)])
      BY <1>6, <1>7 DEF FoldOver
    <3>2. g = [s \in SUBSET (1..N) |-> g[s]]  BY <1>7 DEF FoldOver
    <3> QED  BY <3>1, <3>2
  <2> HIDE DEF Iter
  <2> QED  BY <2>1
<1> HIDE DEF iter
<1> DEFINE at == [n \in 0..N |-> iter[1..n]]
<1>9. at[0] = NoParts /\ 0 \in 0..N /\ N \in 0..N /\ at[N] = iter[1..N]
  <2>1. 1..0 = {} /\ 0 \in 0..N /\ N \in 0..N  BY <1>1
  <2>2. iter[{}] = NoParts  BY <1>8
  <2> QED  BY <2>1, <2>2
<1>10. ASSUME NEW n \in 1..N
       PROVE  at[n] = SplitWord(at[n - 1], line[n])
  <2>1. 1..n \in SUBSET (1..N) /\ n \in 1..n /\ n \in Nat /\ n # 0 /\ n \in 0..N
        /\ n - 1 \in 0..N /\ (1..n) \ {n} = 1..(n - 1)
    BY <1>1
  <2>2. Max(1..n) = n  BY <2>1, MaxUpTo
  <2>3. iter[1..n] = SplitWord(iter[(1..n) \ {Max(1..n)}], line[Max(1..n)])
    <3> HIDE DEF N
    <3>1. 1..n # {}  BY <2>1
    <3> QED  BY <1>8, <2>1, <3>1
  <2> QED  BY <2>1, <2>2, <2>3
<1> HIDE DEF at
<1> DEFINE P == {n \in 0..N : at[n] \in States}
<1>11. 0 \in P  BY <1>3, <1>9
<1>12. ASSUME NEW n \in 0..N, n < N, n \in P PROVE n + 1 \in P
  <2>1. PICK m \in 1..N : m = n + 1  BY <1>1, <1>12
  <2>2. m - 1 = n /\ m \in 0..N  BY <1>1, <2>1
  <2>3. at[m] = SplitWord(at[n], line[m])  BY <1>10, <2>2
  <2>4. line[m] \in Tokens /\ at[n] \in States  BY <1>1, <1>12
  <2>5. at[m] \in States  BY <2>3, <2>4, SplitWordType
  <2> QED  BY <2>1, <2>2, <2>5
<1>13. \A n \in 0..N : n \in P
  <2>1. N \in Nat  BY <1>1
  <2> HIDE DEF P, N
  <2> QED  BY <1>11, <1>12, <2>1, Upwards
<1>14. Stages(at, line)  BY <1>2, <1>9, <1>10, <1>13 DEF Stages
<1> QED  BY <1>14

\* The fields of a header are joined to a line of words and commas.
LEMMA LineType ==
    ASSUME NEW fields \in Seq(Seq(Words))
    PROVE  Line(fields) \in Seq(Tokens)
<1>1. \A f \in Seq(Words) : f \in Seq(Tokens)
  <2>1. Words \subseteq Tokens  BY DEF Tokens
  <2> QED  BY <2>1
<1>2. CASE fields = <<>>
  <2>1. <<>> \in Seq(Tokens)  OBVIOUS
  <2> QED  BY <1>2, <2>1 DEF Line
<1>3. CASE fields # <<>>
  <2> DEFINE rest == Tail(fields)
             N == Len(rest)
             A == Seq(Tokens)
             base == Head(fields)
             step == [p \in (1..N) \X A |-> p[2] \o <<Comma>> \o rest[p[1]]]
             Iter(g) == g = [s \in SUBSET (1..N) |->
                              IF s = {} THEN base
                              ELSE g[s \ {Max(s)}] \o <<Comma>> \o rest[Max(s)]]
             iter == CHOOSE g : Iter(g)
  <2>1. /\ base \in A /\ N \in Nat /\ DOMAIN rest = 1..N
        /\ \A n \in 1..N : rest[n] \in A
    <3>1. Head(fields) \in Seq(Words) /\ rest \in Seq(Seq(Words))  BY <1>3
    <3>2. N \in Nat /\ DOMAIN rest = 1..N /\ \A n \in 1..N : rest[n] \in Seq(Words)
      BY <3>1
    <3> QED  BY <1>1, <3>1, <3>2
  <2>2. Line(fields) = iter[1..N]
    BY <1>3, <2>1 DEF Line, FoldLeft, MapThenFoldSet
  <2> HIDE DEF rest, N, base
  <2>3. \A n \in 1..N, x \in A : x \o <<Comma>> \o rest[n] \in A
    <3>1. <<Comma>> \in A  BY DEF Tokens
    <3> QED  BY <2>1, <3>1
  <2> HIDE DEF A
  <2>4. /\ step \in [(1..N) \X A -> A]
        /\ \A n \in 1..N, x \in A : step[<<n, x>>] = x \o <<Comma>> \o rest[n]
    BY <2>3
  <2> HIDE DEF step
  <2>5. PICK g : FoldOver(g, N, A, base, step)  BY <2>1, <2>4, FoldExists
  <2>6. Iter(iter)
    <3>1. ASSUME NEW s \in SUBSET (1..N), s # {}
          PROVE  g[s] = g[s \ {Max(s)}] \o <<Comma>> \o rest[Max(s)]
      <4>1. Max(s) \in 1..N  BY <2>1, <3>1, MaxAmong
      <4>2. g[s \ {Max(s)}] \in A  BY <2>5 DEF FoldOver
      <4>3. g[s] = step[<<Max(s), g[s \ {Max(s)}]>>]  BY <2>5, <3>1 DEF FoldOver
      <4> QED  BY <2>4, <4>1, <4>2, <4>3
    <3>2. g = [s \in SUBSET (1..N) |-> g[s]]  BY <2>5 DEF FoldOver
    <3>3. \A s \in SUBSET (1..N) :
            g[s] = IF s = {} THEN base ELSE g[s \ {Max(s)}] \o <<Comma>> \o rest[Max(s)]
      BY <2>5, <3>1 DEF FoldOver
    <3>4. Iter(g)  BY <3>2, <3>3
    <3> HIDE DEF Iter
    <3> QED  BY <3>4
  <2> HIDE DEF iter
  <2> DEFINE P == {n \in 0..N : iter[1..n] \in A}
  <2>7. 0 \in P
    <3>1. 1..0 = {} /\ 0 \in 0..N /\ {} \in SUBSET (1..N)  BY <2>1
    <3>2. iter[{}] = base  BY <2>6, <3>1
    <3> QED  BY <2>1, <3>1, <3>2
  <2>8. ASSUME NEW n \in 0..N, n < N, n \in P PROVE n + 1 \in P
    <3>1. PICK m \in 1..N : m = n + 1  BY <2>1, <2>8
    <3>2. 1..m \in SUBSET (1..N) /\ 1..m # {} /\ m \in Nat /\ m # 0 /\ m \in 0..N
          /\ m \in 1..m /\ (1..m) \ {m} = 1..(m - 1)
      <4>1. N \in Nat /\ m \in 1..N  BY <2>1
      <4>2. 1..m \in SUBSET (1..N) /\ m \in 1..m /\ m \in Nat /\ m # 0 /\ m \in 0..N
            /\ (1..m) \ {m} = 1..(m - 1)
        BY <4>1
      <4> QED  BY <4>2
    <3>6. m - 1 = n  BY <2>1, <3>1
    <3>3. Max(1..m) = m  BY <3>2, MaxUpTo
    <3>4. iter[1..m] = iter[(1..m) \ {Max(1..m)}] \o <<Comma>> \o rest[Max(1..m)]
      BY <2>6, <3>2
    <3>5. iter[1..m] \in A  BY <2>3, <2>8, <3>2, <3>3, <3>4, <3>6
    <3> QED  BY <3>1, <3>2, <3>5
  <2> HIDE DEF P
  <2>9. \A n \in 0..N : n \in P  BY <2>1, <2>7, <2>8, Upwards
  <2>10. iter[1..N] \in A  BY <2>1, <2>9 DEF P
  <2> QED  BY <2>2, <2>10 DEF A
<1> QED  BY <1>2, <1>3

\* The modes in which the grammar reads a line.
Modes == {"token", "quoted", "pair"}
Modal(mode, line) ==
    /\ \A n \in 0..Len(line) : mode[n] \in Modes
    /\ mode[0] = "token"
    /\ \A n \in 1..Len(line) : mode[n] = Grammar[mode[n - 1]][Kind(line[n])]

LEMMA GrammarType ==
    ASSUME NEW m \in Modes, NEW w
    PROVE  /\ Grammar[m][Kind(w)] \in Modes
           /\ m = "pair" => Grammar[m][Kind(w)] = "quoted"
           /\ m = "token" => Grammar[m][Kind(w)] = IF w = Quote THEN "quoted" ELSE "token"
           /\ m = "quoted" => Grammar[m][Kind(w)] = IF w = Quote THEN "token"
                                                    ELSE IF w = Escape THEN "pair" ELSE "quoted"
<1>1. /\ Kind(w) \in {"quote", "escape", "other"}
      /\ Kind(w) = "quote" <=> w = Quote
      /\ w # Quote => (Kind(w) = "escape" <=> w = Escape)
  BY DEF Kind
<1>2. CASE m = "token"  BY <1>1, <1>2 DEF Grammar, Modes
<1>3. CASE m = "quoted"  BY <1>1, <1>3 DEF Grammar, Modes
<1>4. CASE m = "pair"  BY <1>1, <1>4 DEF Grammar, Modes
<1> QED  BY <1>2, <1>3, <1>4 DEF Modes

LEMMA ReadingUnfolds ==
    ASSUME NEW line \in Seq(Tokens)
    PROVE  Modal(Reading(line), line)
<1> DEFINE N == Len(line)
           step == [p \in (1..N) \X Modes |-> Grammar[p[2]][Kind(line[p[1]])]]
           Iter(g) == g = [n \in 0..N |-> IF n = 0 THEN "token"
                                          ELSE Grammar[g[n - 1]][Kind(line[n])]]
<1>1. N \in Nat  OBVIOUS
<1>2. Reading(line) = CHOOSE g : Iter(g)  BY DEF Reading
<1> HIDE DEF N
<1>3. "token" \in Modes  BY DEF Modes
<1>4. /\ step \in [(1..N) \X Modes -> Modes]
      /\ \A n \in 1..N, m \in Modes : step[<<n, m>>] = Grammar[m][Kind(line[n])]
  BY GrammarType
<1> HIDE DEF step
<1>5. PICK at : Rounds(at, N, Modes, "token", step)  BY <1>1, <1>3, <1>4, RoundsExist
<1>6. ASSUME NEW n \in 1..N PROVE at[n] = Grammar[at[n - 1]][Kind(line[n])]
  <2>1. n - 1 \in 0..N  BY <1>1
  <2> QED  BY <1>4, <1>5, <2>1 DEF Rounds
<1>7. Iter(at)
  <2>1. at = [n \in 0..N |-> at[n]]  BY <1>5 DEF Rounds
  <2>2. \A n \in 0..N : at[n] = IF n = 0 THEN "token" ELSE Grammar[at[n - 1]][Kind(line[n])]
    <3>1. \A n \in 0..N : n # 0 => n \in 1..N  BY <1>1
    <3> QED  BY <1>5, <1>6, <3>1 DEF Rounds
  <2> QED  BY <2>1, <2>2
<1>8. Iter(Reading(line))
  <2> HIDE DEF Iter
  <2> QED  BY <1>2, <1>7
<1> DEFINE mode == Reading(line)
<1> HIDE DEF mode
<1>9. /\ mode[0] = "token"
      /\ \A n \in 1..N : mode[n] = Grammar[mode[n - 1]][Kind(line[n])] /\ n - 1 \in 0..N
  <2>1. mode = [n \in 0..N |-> IF n = 0 THEN "token" ELSE Grammar[mode[n - 1]][Kind(line[n])]]
    BY <1>8 DEF mode
  <2>2. 0 \in 0..N /\ \A n \in 1..N : n \in 0..N /\ n # 0 /\ n - 1 \in 0..N  BY <1>1
  <2>3. mode[0] = "token"  BY <2>1, <2>2
  <2>4. ASSUME NEW n \in 1..N PROVE mode[n] = Grammar[mode[n - 1]][Kind(line[n])]
    BY <2>1, <2>2
  <2> QED  BY <2>2, <2>3, <2>4
<1> DEFINE P == {n \in 0..N : mode[n] \in Modes}
<1>10. 0 \in P  BY <1>1, <1>3, <1>9
<1>11. ASSUME NEW n \in 0..N, n < N, n \in P PROVE n + 1 \in P
  <2>1. PICK m \in 1..N : m = n + 1  BY <1>1, <1>11
  <2>2. m - 1 = n /\ m \in 0..N  BY <1>1, <2>1
  <2>3. mode[m] \in Modes  BY <1>9, <1>11, <2>2, GrammarType
  <2> QED  BY <2>1, <2>2, <2>3
<1> HIDE DEF P
<1>12. \A n \in 0..N : n \in P  BY <1>1, <1>10, <1>11, Upwards
<1> QED  BY <1>9, <1>12 DEF Modal, mode, N, P

-----------------------------------------------------------------------------
(* Where splitCacheControl starts its parts, the grammar starts elements.  *)

\* A name that is neither that of a comma nor that of a part without words.
Proper(name) == name # Comma.name /\ name # Directive(<<>>).name

\* The kth word of a line starts an element.
Starting(line, mode, k) == k = 1 \/ (line[k - 1] = Comma /\ mode[k - 1] = "token")

\* Of one name, the parts that are split off are what starts at the words in K: none
\* is invented, none is lost, and a part has no other value than its word.
Agree(parts, line, K, name) ==
    /\ Has(parts, name) => \E k \in K : line[k].name = name
    /\ \A k \in K : line[k].name = name =>
         \E i \in DOMAIN parts : parts[i].name = name /\ parts[i].value \in {{}, line[k].value}

\* The word that the part at hand starts with, or that will start it.
Open(at, n) == n + 1 - Len(at.part)

\* After n words the splitting is where the grammar is.
Follows(at, line, mode, n, name) ==
    /\ at.quoted <=> mode[n] # "token"
    /\ at.escaped <=> mode[n] = "pair"
    /\ Open(at, n) >= 1
    /\ at.part # <<>> => Head(at.part) = line[Open(at, n)]
    /\ Starting(line, mode, Open(at, n))
    /\ \A k \in (Open(at, n) + 1)..(n + 1) : ~Starting(line, mode, k)
    /\ Agree(at.parts, line,
             {k \in 1..Len(line) : Starting(line, mode, k) /\ k < Open(at, n)}, name)

\* One more part, from the word at k or from nothing.
LEMMA AgreeAppend ==
    ASSUME NEW S, NEW parts \in Seq(S), NEW line, NEW K, NEW name, NEW d \in S, NEW L,
           Agree(parts, line, K, name),
           \A k \in K : k \in L,
           d.name = name => \E k \in L : line[k].name = name,
           \A k \in L : k \in K \/ line[k].name # name
                        \/ (d.name = name /\ d.value \in {{}, line[k].value})
    PROVE  Agree(Append(parts, d), line, L, name)
<1> DEFINE more == Append(parts, d)
           n == Len(parts) + 1
<1>1. /\ DOMAIN parts = 1..Len(parts) /\ DOMAIN more = 1..n /\ n \in 1..n
      /\ more[n] = d /\ \A i \in 1..Len(parts) : more[i] = parts[i] /\ i \in 1..n
      /\ \A i \in 1..n : i = n \/ i \in 1..Len(parts)
  <2>1. Len(parts) \in Nat  OBVIOUS
  <2>2. DOMAIN parts = 1..Len(parts) /\ DOMAIN more = 1..n /\ more[n] = d
        /\ \A i \in 1..Len(parts) : more[i] = parts[i]
    OBVIOUS
  <2>3. n \in 1..n /\ (\A i \in 1..Len(parts) : i \in 1..n)
        /\ \A i \in 1..n : i = n \/ i \in 1..Len(parts)
    BY <2>1
  <2> QED  BY <2>2, <2>3
<1> HIDE DEF more, n
<1>2. Has(more, name) => \E k \in L : line[k].name = name
  <2> SUFFICES ASSUME NEW i \in 1..n, more[i].name = name
               PROVE  \E k \in L : line[k].name = name
    BY <1>1 DEF Has
  <2>1. CASE i = n  BY <1>1, <2>1
  <2>2. CASE i \in 1..Len(parts)
    <3>1. Has(parts, name)  BY <1>1, <2>2 DEF Has
    <3> QED  BY <3>1 DEF Agree
  <2> QED  BY <1>1, <2>1, <2>2
<1>3. ASSUME NEW k \in L, line[k].name = name
      PROVE  \E i \in DOMAIN more : more[i].name = name /\ more[i].value \in {{}, line[k].value}
  <2>1. CASE k \in K
    <3>1. PICK i \in DOMAIN parts :
            parts[i].name = name /\ parts[i].value \in {{}, line[k].value}
      BY <1>3, <2>1 DEF Agree
    <3>2. i \in DOMAIN more /\ more[i] = parts[i]  BY <1>1, <3>1
    <3> QED  BY <3>1, <3>2
  <2>2. CASE d.name = name /\ d.value \in {{}, line[k].value}
    <3>1. n \in DOMAIN more /\ more[n] = d  BY <1>1
    <3> QED  BY <2>2, <3>1
  <2> QED  BY <1>3, <2>1, <2>2
<1>4. Agree(more, line, L, name)  BY <1>2, <1>3 DEF Agree
<1> QED  BY <1>4 DEF more

\* One more word: an escaped one and one that goes on with the part leave the part
\* where it started, a comma outside of quotes ends it.
LEMMA FollowsStep ==
    ASSUME NEW line \in Seq(Tokens), NEW mode, Modal(mode, line),
           NEW name, Proper(name),
           NEW n \in 0..Len(line), NEW m \in 1..Len(line), m = n + 1,
           NEW at \in States, Follows(at, line, mode, n, name),
           NEW next, next = SplitWord(at, line[m])
    PROVE  Follows(next, line, mode, m, name)
<1> DEFINE w == line[m]
           open == Open(at, n)
           N == Len(line)
<1>1. /\ N \in Nat /\ n \in Nat /\ m \in Nat /\ m \in 1..N /\ n \in 0..N
      /\ m - 1 = n /\ m = n + 1
  OBVIOUS
<1>2. /\ at.parts \in Seq(Pieces) /\ at.part \in Seq(Tokens)
      /\ at.quoted \in BOOLEAN /\ at.escaped \in BOOLEAN
      /\ Len(at.part) \in Nat
  BY DEF States
<1>3. w \in Tokens /\ Append(at.part, w) \in Seq(Tokens)  BY <1>2
<1>4. mode[n] \in Modes /\ mode[m] = Grammar[mode[n]][Kind(w)]
  <2>1. mode[m] = Grammar[mode[m - 1]][Kind(line[m])]  BY <1>1 DEF Modal
  <2> QED  BY <1>1, <2>1 DEF Modal
<1>12. open = n + 1 - Len(at.part)  BY DEF Open
<1>13. open >= 1  BY DEF Follows
<1> HIDE DEF open
<1>5. open \in Nat /\ open >= 1 /\ open <= m
  <2>1. \A len \in Nat : n + 1 - len \in Int /\ n + 1 - len <= m  BY <1>1
  <2>2. open \in Int /\ open <= m  BY <1>2, <1>12, <2>1
  <2> QED  BY <1>13, <2>2
<1>6. /\ Len(Append(at.part, w)) = Len(at.part) + 1
      /\ Append(at.part, w) # <<>>
      /\ Head(Append(at.part, w)) = IF at.part = <<>> THEN w ELSE Head(at.part)
      /\ at.part = <<>> <=> Len(at.part) = 0
  <2> HIDE DEF w
  <2>1. at.part \in Seq(Tokens) /\ w \in Tokens  BY <1>2, <1>3
  <2> QED  BY <2>1
<1>7. at.part = <<>> => open = m  BY <1>1, <1>6, <1>12
<1>8. at.part # <<>> => Head(at.part) = line[open]  BY DEF Follows, open
<1>9. next.part \in {<<>>, Append(at.part, w)}  BY DEF SplitWord
<1> HIDE DEF w, N
<1>10. CASE ~at.escaped /\ w = Comma /\ ~at.quoted
  <2>1. /\ next.parts = Append(at.parts, Directive(at.part)) /\ next.part = <<>>
        /\ ~next.quoted /\ ~next.escaped
    BY <1>10 DEF SplitWord, States, w
  <2>2. mode[n] = "token" /\ mode[m] = "token"
    BY <1>4, <1>10, GrammarType, WordsTyped DEF Follows
  <2>3. Open(next, m) = m + 1  BY <1>1, <2>1 DEF Open
  <2>4. Starting(line, mode, m + 1)
    <3>1. (m + 1) - 1 = m  BY <1>1
    <3> QED  BY <1>10, <2>2, <3>1 DEF Starting, w
  <2>5. \A k \in ((m + 1) + 1)..(m + 1) : ~Starting(line, mode, k)  BY <1>1
  <2> DEFINE K == {k \in 1..N : Starting(line, mode, k) /\ k < open}
             L == {k \in 1..N : Starting(line, mode, k) /\ k < m + 1}
             d == Directive(at.part)
  <2>6. \A k \in L : k \in K \/ k = open
    <3> SUFFICES ASSUME NEW k \in L, k > open PROVE FALSE
      <4>1. \A k \in L : k \in Nat  BY <1>1
      <4> QED  BY <1>5, <4>1
    <3>1. k \in (open + 1)..(n + 1)  BY <1>1, <1>5
    <3> QED  BY <3>1 DEF Follows, open
  <2>7. open \in L /\ \A k \in K : k \in L
    <3>1. open \in 1..N /\ open < m + 1  BY <1>1, <1>5
    <3>2. \A k \in 1..N : k < open => k < m + 1  BY <1>1, <1>5
    <3> QED  BY <3>1, <3>2 DEF Follows, open
  <2>8. /\ d.name = name => line[open].name = name
        /\ line[open].name = name => d.name = name /\ d.value \in {{}, line[open].value}
    <3>1. CASE at.part = <<>>
      <4>1. d = Directive(<<>>) /\ line[open] = Comma  BY <1>7, <1>10, <3>1 DEF w
      <4> HIDE DEF d
      <4> QED  BY <4>1 DEF Proper
    <3>2. CASE at.part # <<>>
      <4>1. d.name = line[open].name /\ d.value \in {{}, line[open].value}
        BY <1>8, <3>2, DirectiveOf
      <4> HIDE DEF d
      <4> QED  BY <4>1
    <3> QED  BY <3>1, <3>2
  <2>9. Agree(at.parts, line, K, name)  BY DEF Follows, N, open
  <2>10. d \in Pieces  BY <1>2 DEF Pieces
  <2> HIDE DEF K, L, d
  <2>11. Agree(Append(at.parts, d), line, L, name)
    <3>1. d.name = name => \E k \in L : line[k].name = name  BY <2>7, <2>8
    <3>2. \A k \in L : k \in K \/ line[k].name # name
                       \/ (d.name = name /\ d.value \in {{}, line[k].value})
      BY <2>6, <2>8
    <3> QED  BY <1>2, <2>7, <2>9, <2>10, <3>1, <3>2, AgreeAppend
  <2>12. Agree(next.parts, line,
               {k \in 1..Len(line) : Starting(line, mode, k) /\ k < Open(next, m)}, name)
    BY <2>1, <2>3, <2>11 DEF L, d, N
  <2>13. m + 1 >= 1  BY <1>1
  <2> QED  BY <2>1, <2>2, <2>3, <2>4, <2>5, <2>12, <2>13 DEF Follows
<1>11. CASE at.escaped \/ ~(w = Comma /\ ~at.quoted)
  <2>1. /\ next.parts = at.parts /\ next.part = Append(at.part, w)
        /\ next.quoted = IF at.escaped THEN at.quoted
                         ELSE IF w = Quote THEN ~at.quoted ELSE at.quoted
        /\ next.escaped = (~at.escaped /\ at.quoted /\ w = Escape)
    BY <1>11 DEF SplitWord, States, w
  <2>2. /\ next.quoted <=> mode[m] # "token"
        /\ next.escaped <=> mode[m] = "pair"
        /\ w = Comma => mode[m] # "token"
    <3>1. (at.quoted <=> mode[n] # "token") /\ (at.escaped <=> mode[n] = "pair")
      BY DEF Follows
    <3>2. Comma # Quote /\ Comma # Escape /\ Quote # Escape  BY WordsTyped
    <3>3. /\ mode[n] = "pair" => mode[m] = "quoted"
          /\ mode[n] = "token" => mode[m] = IF w = Quote THEN "quoted" ELSE "token"
          /\ mode[n] = "quoted" => mode[m] = IF w = Quote THEN "token"
                                             ELSE IF w = Escape THEN "pair" ELSE "quoted"
      BY <1>4, GrammarType
    <3>4. CASE mode[n] = "pair"  BY <1>11, <2>1, <3>1, <3>2, <3>3, <3>4
    <3>5. CASE mode[n] = "token"  BY <1>11, <2>1, <3>1, <3>2, <3>3, <3>5
    <3>6. CASE mode[n] = "quoted"  BY <1>11, <2>1, <3>1, <3>2, <3>3, <3>6
    <3> QED  BY <1>4, <3>4, <3>5, <3>6 DEF Modes
  <2>3. Open(next, m) = open
    <3>1. Open(next, m) = m + 1 - (Len(at.part) + 1)  BY <1>6, <2>1 DEF Open
    <3>2. \A len \in Nat : m + 1 - (len + 1) = n + 1 - len  BY <1>1
    <3> QED  BY <1>2, <1>12, <3>1, <3>2
  <2>4. next.part # <<>> => Head(next.part) = line[open]
    BY <1>6, <1>7, <1>8, <2>1 DEF w
  <2>5. ASSUME NEW k \in (open + 1)..(m + 1) PROVE ~Starting(line, mode, k)
    <3>1. CASE k = m + 1
      <4>1. k - 1 = m /\ k # 1  BY <1>1, <3>1
      <4> QED  BY <2>2, <4>1 DEF Starting, w
    <3>2. CASE k # m + 1
      <4>1. k \in (open + 1)..(n + 1)  BY <1>1, <1>5, <3>2
      <4> QED  BY <4>1 DEF Follows, open
    <3> QED  BY <3>1, <3>2
  <2>6. /\ open >= 1 /\ Starting(line, mode, open)
        /\ Agree(next.parts, line,
                 {k \in 1..Len(line) : Starting(line, mode, k) /\ k < open}, name)
    BY <1>5, <2>1 DEF Follows, open
  <2> QED  BY <2>2, <2>3, <2>4, <2>5, <2>6 DEF Follows
<1> QED  BY <1>10, <1>11

\* The parts of a whole line and the elements that its grammar gives it.
LEMMA SplitAgrees ==
    ASSUME NEW line \in Seq(Tokens), NEW name, Proper(name)
    PROVE  Agree(Split(line).parts, line, Starts(line), name)
<1> DEFINE N == Len(line)
           mode == Reading(line)
<1>1. N \in Nat /\ DOMAIN line = 1..N  OBVIOUS
<1>2. Modal(mode, line)  BY ReadingUnfolds
<1>3. PICK at : Stages(at, line)  BY SplitUnfolds
<1>4. Starts(line) = {k \in 1..N : Starting(line, mode, k)}
  BY <1>1 DEF Starts, Starting
<1> HIDE DEF mode
<1> DEFINE P == {n \in 0..N : Follows(at[n], line, mode, n, name)}
<1>5. 0 \in P
  <2>1. /\ at[0].part = <<>> /\ at[0].parts = <<>> /\ ~at[0].quoted /\ ~at[0].escaped
        /\ mode[0] = "token"
    BY <1>2, <1>3 DEF Stages, Modal, NoParts
  <2>2. Open(at[0], 0) = 1  BY <2>1 DEF Open
  <2>3. Starting(line, mode, 1)  BY DEF Starting
  <2>4. {k \in 1..N : Starting(line, mode, k) /\ k < 1} = {}  BY <1>1
  <2>5. Agree(<<>>, line, {}, name)  BY DEF Agree, Has
  <2>6. \A k \in (1 + 1)..(0 + 1) : ~Starting(line, mode, k)  OBVIOUS
  <2>8. Agree(at[0].parts, line,
              {k \in 1..N : Starting(line, mode, k) /\ k < Open(at[0], 0)}, name)
    BY <2>1, <2>2, <2>4, <2>5
  <2>9. /\ Open(at[0], 0) >= 1 /\ Starting(line, mode, Open(at[0], 0))
        /\ \A k \in (Open(at[0], 0) + 1)..(0 + 1) : ~Starting(line, mode, k)
    BY <2>2, <2>3, <2>6
  <2>7. Follows(at[0], line, mode, 0, name)
    BY <2>1, <2>8, <2>9 DEF Follows
  <2> QED  BY <1>1, <2>7
<1>6. ASSUME NEW n \in 0..N, n < N, n \in P PROVE n + 1 \in P
  <2>1. PICK m \in 1..N : m = n + 1  BY <1>1, <1>6
  <2>2. m - 1 = n /\ m \in 0..N  BY <1>1, <2>1
  <2>3. at[n] \in States /\ at[m] = SplitWord(at[n], line[m])
    BY <1>3, <2>2 DEF Stages
  <2>4. Follows(at[n], line, mode, n, name)  BY <1>6
  <2>5. Follows(at[m], line, mode, m, name)  BY <1>2, <2>1, <2>3, <2>4, FollowsStep
  <2> QED  BY <2>1, <2>2, <2>5
<1> HIDE DEF P
<1>7. N \in 0..N /\ N \in P
  <2> HIDE DEF N
  <2>1. \A n \in 0..N : n \in P  BY <1>1, <1>5, <1>6, Upwards
  <2> QED  BY <1>1, <2>1
<1> DEFINE end == at[N]
           open == Open(end, N)
           d == Directive(end.part)
           K == {k \in 1..N : Starting(line, mode, k) /\ k < open}
<1>8. /\ end \in States /\ Follows(end, line, mode, N, name)
      /\ Split(line).parts = Append(end.parts, d)
  BY <1>3, <1>7 DEF P, Stages
<1> HIDE DEF end
<1>9. end.parts \in Seq(Pieces) /\ d \in Pieces /\ Len(end.part) \in Nat
      /\ (end.part = <<>> <=> Len(end.part) = 0)
  BY <1>8 DEF States, Pieces
<1>10. /\ open >= 1 /\ Starting(line, mode, open)
       /\ \A k \in (open + 1)..(N + 1) : ~Starting(line, mode, k)
       /\ Agree(end.parts, line, K, name)
       /\ end.part # <<>> => Head(end.part) = line[open]
  BY <1>8 DEF Follows
<1>11. /\ open \in Nat /\ open <= N + 1
       /\ end.part # <<>> => open \in 1..N
       /\ end.part = <<>> => open = N + 1
  <2>1. open = N + 1 - Len(end.part)  BY DEF Open
  <2> HIDE DEF open, N
  <2>2. \A len \in Nat : /\ N + 1 - len \in Int /\ N + 1 - len <= N + 1
                         /\ len # 0 => N + 1 - len <= N
                         /\ len = 0 => N + 1 - len = N + 1
    BY <1>1
  <2>3. open \in Int /\ open <= N + 1 /\ (end.part # <<>> => open <= N)
        /\ (end.part = <<>> => open = N + 1)
    BY <1>9, <2>1, <2>2
  <2> QED  BY <1>1, <1>10, <2>3
<1>12. \A k \in Starts(line) : k \in K \/ (k = open /\ end.part # <<>>)
  <2> SUFFICES ASSUME NEW k \in 1..N, Starting(line, mode, k), k \notin K
               PROVE  k = open /\ end.part # <<>>
    BY <1>4
  <2>1. ~(k < open)  OBVIOUS
  <2> HIDE DEF open, N, K
  <2>2. k \in Nat /\ k <= N /\ k >= open  BY <1>1, <1>11, <2>1
  <2>3. k \notin (open + 1)..(N + 1)  BY <1>10
  <2>4. k = open  BY <1>1, <1>11, <2>2, <2>3
  <2> QED  BY <1>1, <1>11, <2>2, <2>4
<1>13. end.part # <<>> => /\ open \in Starts(line)
                          /\ d.name = line[open].name
                          /\ d.value \in {{}, line[open].value}
  <2> HIDE DEF open, N
  <2> QED  BY <1>4, <1>10, <1>11, DirectiveOf
<1>14. end.part = <<>> => d.name # name  BY DEF Proper
<1>15. \A k \in K : k \in Starts(line)  BY <1>4
<1> HIDE DEF open, d, K, N
<1>16. Agree(Append(end.parts, d), line, Starts(line), name)
  <2>1. d.name = name => \E k \in Starts(line) : line[k].name = name  BY <1>13, <1>14
  <2>2. \A k \in Starts(line) : k \in K \/ line[k].name # name
                                \/ (d.name = name /\ d.value \in {{}, line[k].value})
    BY <1>12, <1>13
  <2> QED  BY <1>9, <1>10, <1>15, <2>1, <2>2, AgreeAppend
<1> QED  BY <1>8, <1>16

\* A directive that is absent from the parts is nowhere in the line; one that gives a
\* number of seconds gives the only one.
LEMMA GivenOf ==
    ASSUME NEW fields \in Seq(Seq(Words)), NEW name, Proper(name)
    PROVE  LET parts == Split(Line(fields)).parts IN
           /\ ~Has(parts, name) => Given(fields, name) = {}
           /\ \A d \in Seconds(parts, name) :
                d \in 0..MaxDuration /\ Seconds(parts, name) = {d}
                /\ Given(fields, name) = {{d}}
<1> DEFINE line == Line(fields)
           parts == Split(line).parts
           named == {k \in Starts(line) : line[k].name = name}
<1>1. line \in Seq(Tokens)  BY LineType
<1>2. Given(fields, name) = {line[k].value : k \in named}  BY DEF Given
<1>3. Agree(parts, line, Starts(line), name)  BY <1>1, SplitAgrees
<1>4. \A k \in Starts(line) : line[k] \in Tokens  BY <1>1 DEF Starts
<1> HIDE DEF line, parts
<1>5. ~Has(parts, name) => named = {}
  <2>1. \A k \in named : \E i \in DOMAIN parts : parts[i].name = name
    BY <1>3 DEF Agree
  <2> QED  BY <2>1 DEF Has
<1>6. ASSUME NEW d \in Seconds(parts, name)
      PROVE  /\ d \in 0..MaxDuration /\ Seconds(parts, name) = {d}
             /\ {line[k].value : k \in named} = {{d}}
  <2> DEFINE found == {i \in DOMAIN parts : parts[i].name = name}
  <2>1. PICK i \in found : found = {i} /\ Valid(parts[i].value) /\ d \in parts[i].value
    BY <1>6 DEF Seconds
  <2>2. Seconds(parts, name) = parts[i].value  BY <2>1 DEF Seconds
  <2>3. \A k \in named : line[k].value = parts[i].value
    <3> SUFFICES ASSUME NEW k \in named PROVE line[k].value = parts[i].value  OBVIOUS
    <3>1. PICK j \in DOMAIN parts :
            parts[j].name = name /\ parts[j].value \in {{}, line[k].value}
      BY <1>3 DEF Agree
    <3>2. j = i  BY <2>1, <3>1
    <3> QED  BY <2>1, <3>1, <3>2
  <2>4. PICK k \in Starts(line) : line[k].name = name
    <3>1. Has(parts, name)  BY <2>1 DEF Has
    <3> QED  BY <1>3, <3>1 DEF Agree
  <2>5. line[k].value = parts[i].value  BY <2>3, <2>4
  <2>6. parts[i].value = {d}
    <3>1. \A m, n \in line[k].value : m = n  BY <1>4, WordsTyped
    <3> QED  BY <2>1, <2>5, <3>1
  <2>7. {line[x].value : x \in named} = {{d}}  BY <2>3, <2>4, <2>6
  <2>8. d \in 0..MaxDuration  BY <2>1 DEF Valid
  <2> QED  BY <2>2, <2>6, <2>7, <2>8
<1> HIDE DEF named
<1>7. ~Has(parts, name) => Given(fields, name) = {}  BY <1>2, <1>5 DEF named
<1> QED  BY <1>2, <1>6, <1>7 DEF line, parts

LEMMA ProperNames ==
    \A name \in {"no-store", "private", "no-cache", "s-maxage", "max-age"} : Proper(name)
<1>1. Comma.name = ","  BY DEF Comma, Word
<1>2. Directive(<<>>).name = ""  BY DEF Directive, Word
<1>3. \A name \in {"no-store", "private", "no-cache", "s-maxage", "max-age"} :
        name # "," /\ name # ""
  OBVIOUS
<1> QED  BY <1>1, <1>2, <1>3 DEF Proper

-----------------------------------------------------------------------------
(* What the policy decides, next to what the headers say.                  *)

\* What is stored and captured may be shared.
LEMMA StorableShareable ==
    ASSUME NEW e \in Exchanges, Storable(e[1], e[2]), Capturable(e[2])
    PROVE  Shareable(e[1], e[2])
<1> DEFINE q == e[1]
           s == e[2]
<1>1. q.cacheControl \in Seq(Seq(Words)) /\ s.cacheControl \in Seq(Seq(Words))
  BY ExchangeTyped
<1>8. /\ q.headers \subseteq {"Authorization", "Cookie", "Range", "conditional",
                              "Pragma: no-cache"}
      /\ s.headers \subseteq {"Set-Cookie", "Vary", "Trailer", "Content-Range"}
  BY CaptureAssumption, Zenon
<1> HIDE DEF q, s
<1>2. Storable(q, s) /\ Capturable(s)  BY DEF q, s
<1>3. q.method = "GET" /\ s.status = 200  BY <1>2 DEF Storable, RequestEligible
<1>4. q.headers = {}
  <2>1. q.headers \intersect {"Authorization", "Cookie", "Range", "conditional",
                              "Pragma: no-cache"} = {}
    BY <1>2, Zenon DEF Storable, RequestEligible
  <2> QED  BY <1>8, <2>1, Zenon
<1>5. s.headers = {}
  <2>1. /\ s.headers \intersect {"Set-Cookie", "Vary"} = {}
        /\ s.headers \intersect {"Trailer", "Content-Range"} = {}
    BY <1>2, Zenon DEF Storable, Capturable
  <2> QED  BY <1>8, <2>1, Zenon
<1>6. Given(q.cacheControl, "no-store") = {}
  <2>1. ~Has(Split(Line(q.cacheControl)).parts, "no-store")
    BY <1>2 DEF Storable, RequestEligible
  <2> QED  BY <1>1, <2>1, ProperNames, GivenOf
<1>7. ASSUME NEW name \in {"no-store", "private", "no-cache"}
      PROVE  Given(s.cacheControl, name) = {}
  <2>1. ~Has(Split(Line(s.cacheControl)).parts, name)  BY <1>2 DEF Storable
  <2>2. Proper(name)  BY ProperNames
  <2> QED  BY <1>1, <2>1, <2>2, GivenOf
<1> QED  BY <1>3, <1>4, <1>5, <1>6, <1>7 DEF Shareable, q, s

\* The time until an instant is not longer than it is, unless it is over.
LEMMA UntilBound ==
    ASSUME NEW t \in Int, NEW at \in Int
    PROVE  Until(t, at) <= t - at \/ Until(t, at) < 0
<1>1. MaxDuration \in Nat /\ t - at \in Int  BY PolicyAssumption
<1> DEFINE Low == {MaxDuration, t - at}
           High == {-MaxDuration - 1, Min(Low)}
<1>2. Min(Low) \in Int /\ Min(Low) <= t - at
  <2>1. \E x \in Low : \A y \in Low : x =< y  BY <1>1
  <2>2. Min(Low) \in Low /\ \A y \in Low : Min(Low) =< y  BY <2>1 DEF Min
  <2> QED  BY <1>1, <2>2
<1>3. \E x \in High : \A y \in High : x >= y  BY <1>1, <1>2
<1>4. Max(High) \in High  BY <1>3 DEF Max
<1>5. Until(t, at) = Max(High)  BY DEF Until
<1> HIDE DEF Low
<1> QED  BY <1>1, <1>2, <1>4, <1>5

\* The Age that is subtracted is the one that is given.
LEMMA AgeGiven ==
    ASSUME NEW e \in Exchanges, NEW age \in Age(e[2])
    PROVE  age \in Nat /\ Max({0} \union UNION ToSet(e[2].age)) = age
<1> DEFINE given == e[2].age
<1>1. given \in Seq(SUBSET Int) /\ \A i \in DOMAIN given : \A m, n \in given[i] : m = n
  BY ExchangeTyped
<1>2. Max({0}) = 0  BY DEF Max
<1>3. CASE given = <<>>
  <2>1. age = 0 /\ ToSet(given) = {}  BY <1>3 DEF Age, ToSet
  <2> QED  BY <1>2, <2>1
<1>4. CASE given # <<>>
  <2>1. Len(given) = 1 /\ Valid(Head(given)) /\ age \in Head(given)
    BY <1>4 DEF Age
  <2>2. Head(given) = given[1] /\ DOMAIN given = {1}  BY <1>1, <2>1
  <2>3. given[1] = {age}  BY <1>1, <2>1, <2>2
  <2>4. ToSet(given) = {{age}}  BY <2>2, <2>3 DEF ToSet
  <2>5. age \in Nat  BY PolicyAssumption, <2>1 DEF Valid
  <2>6. {0} \union UNION {{age}} = {0, age}  OBVIOUS
  <2>7. Max({0, age}) = age  BY <2>5 DEF Max
  <2> QED  BY <2>4, <2>5, <2>6, <2>7
<1> QED  BY <1>3, <1>4

\* What a response says of its lifetime, and what the policy takes from it.
Claimed(s, t) ==
    LET shared == UNION Given(s.cacheControl, "s-maxage")
        all == UNION Given(s.cacheControl, "max-age")
    IN IF shared # {} THEN shared ELSE IF all # {} THEN all
       ELSE IF s.expires # <<>> THEN {e - t : e \in Head(s.expires)}
       ELSE {DefaultTTL}

LEMMA StatedClaimed ==
    ASSUME NEW e \in Exchanges, NEW t \in 0..MaxTime, NEW ttl \in Stated(e[2], t)
    PROVE  /\ ttl \in Int
           /\ \E x \in Int : Claimed(e[2], t) = {x} /\ (ttl <= x \/ ttl < 0)
<1> DEFINE s == e[2]
           parts == Split(Line(s.cacheControl)).parts
           shared == UNION Given(s.cacheControl, "s-maxage")
           all == UNION Given(s.cacheControl, "max-age")
<1>1. /\ s.cacheControl \in Seq(Seq(Words)) /\ s.expires \in Seq(SUBSET Int)
      /\ \A i \in DOMAIN s.expires : \A m, n \in s.expires[i] : m = n
      /\ MaxDuration \in Nat /\ DefaultTTL \in Int /\ t \in Int
  BY ExchangeTyped, Bounds
<1> HIDE DEF s
<1>10. ASSUME NEW name \in {"s-maxage", "max-age"}
       PROVE  /\ ~Has(parts, name) => UNION Given(s.cacheControl, name) = {}
              /\ \A d \in Seconds(parts, name) :
                   d \in 0..MaxDuration /\ UNION Given(s.cacheControl, name) = {d}
  <2> DEFINE given == Given(s.cacheControl, name)
  <2>1. Proper(name)  BY ProperNames
  <2>2. /\ ~Has(parts, name) => given = {}
        /\ \A d \in Seconds(parts, name) : d \in 0..MaxDuration /\ given = {{d}}
    BY <1>1, <2>1, GivenOf
  <2> HIDE DEF given, parts
  <2>3. ~Has(parts, name) => UNION given = {}  BY <2>2
  <2>4. \A d \in Seconds(parts, name) : d \in 0..MaxDuration /\ UNION given = {d}  BY <2>2
  <2> QED  BY <2>3, <2>4 DEF given
<1>2. /\ ~Has(parts, "s-maxage") => shared = {}
      /\ \A d \in Seconds(parts, "s-maxage") : d \in 0..MaxDuration /\ shared = {d}
  BY <1>10
<1>3. /\ ~Has(parts, "max-age") => all = {}
      /\ \A d \in Seconds(parts, "max-age") : d \in 0..MaxDuration /\ all = {d}
  BY <1>10
<1>4. Claimed(s, t) = IF shared # {} THEN shared ELSE IF all # {} THEN all
                      ELSE IF s.expires # <<>> THEN {x - t : x \in Head(s.expires)}
                      ELSE {DefaultTTL}
  BY DEF Claimed
<1>5. ttl \in IF Has(parts, "s-maxage") THEN Seconds(parts, "s-maxage")
              ELSE IF Has(parts, "max-age") THEN Seconds(parts, "max-age")
              ELSE IF s.expires # <<>> THEN {Until(x, t) : x \in Head(s.expires)}
              ELSE {DefaultTTL}
  BY DEF Stated, s
<1> HIDE DEF parts, shared, all
<1> SUFFICES ttl \in Int /\ \E x \in Int : Claimed(s, t) = {x} /\ (ttl <= x \/ ttl < 0)
  BY DEF s
<1>6. CASE Has(parts, "s-maxage")
  <2>1. ttl \in 0..MaxDuration /\ shared = {ttl}  BY <1>2, <1>5, <1>6
  <2>2. Claimed(s, t) = {ttl}  BY <1>4, <2>1
  <2> QED  BY <1>1, <2>1, <2>2
<1>7. CASE ~Has(parts, "s-maxage") /\ Has(parts, "max-age")
  <2>1. ttl \in 0..MaxDuration /\ all = {ttl} /\ shared = {}  BY <1>2, <1>3, <1>5, <1>7
  <2>2. Claimed(s, t) = {ttl}  BY <1>4, <2>1
  <2> QED  BY <1>1, <2>1, <2>2
<1>8. CASE ~Has(parts, "s-maxage") /\ ~Has(parts, "max-age") /\ s.expires # <<>>
  <2>1. PICK x \in Head(s.expires) : ttl = Until(x, t)  BY <1>5, <1>8
  <2>2. Head(s.expires) = s.expires[1] /\ 1 \in DOMAIN s.expires
        /\ Head(s.expires) \subseteq Int
    BY <1>1, <1>8
  <2>3. x \in Int /\ Head(s.expires) = {x}  BY <1>1, <2>1, <2>2
  <2>4. Claimed(s, t) = {x - t}  BY <1>2, <1>3, <1>4, <1>8, <2>3
  <2>5. ttl \in Int /\ (ttl <= x - t \/ ttl < 0)  BY <1>1, <2>1, <2>3, UntilType, UntilBound
  <2>6. x - t \in Int  BY <1>1, <2>3
  <2> QED  BY <2>4, <2>5, <2>6
<1>9. CASE ~Has(parts, "s-maxage") /\ ~Has(parts, "max-age") /\ s.expires = <<>>
  <2>1. ttl = DefaultTTL /\ Claimed(s, t) = {DefaultTTL}  BY <1>2, <1>3, <1>4, <1>5, <1>9
  <2> QED  BY <1>1, <2>1
<1> QED  BY <1>6, <1>7, <1>8, <1>9

\* As long as nothing wraps, the Age leaves no more of the lifetime than is claimed.
LEMMA FreshAtLeast ==
    ASSUME NEW e \in Exchanges, NEW t \in 0..MaxTime,
           NEW ttl \in Stated(e[2], t), NEW age \in Age(e[2])
    PROVE  /\ Fresh(e[2], t) \in Nat /\ ttl - age \in Int
           /\ ttl - age <= Fresh(e[2], t) \/ ttl - age < 0
<1>1. PICK x \in Int : Claimed(e[2], t) = {x} /\ (ttl <= x \/ ttl < 0)  BY StatedClaimed
<1>2. ttl \in Int  BY StatedClaimed
<1>3. age \in Nat /\ Max({0} \union UNION ToSet(e[2].age)) = age  BY AgeGiven
<1>4. Fresh(e[2], t) =
        IF Claimed(e[2], t) = {} THEN 0
        ELSE Max({0, Min(Claimed(e[2], t)) - Max({0} \union UNION ToSet(e[2].age))})
  BY DEF Fresh, Claimed
<1>5. Min({x}) = x  BY DEF Min
<1>6. Fresh(e[2], t) = Max({0, x - age})  BY <1>1, <1>3, <1>4, <1>5
<1>7. Max({0, x - age}) \in {0, x - age} /\ Max({0, x - age}) >= 0 /\ Max({0, x - age}) >= x - age
  <2>1. x - age \in Int  BY <1>3
  <2>2. \A y \in Int : Max({0, y}) \in {0, y} /\ Max({0, y}) >= 0 /\ Max({0, y}) >= y
    <3> SUFFICES ASSUME NEW y \in Int
                 PROVE  Max({0, y}) \in {0, y} /\ Max({0, y}) >= 0 /\ Max({0, y}) >= y
      OBVIOUS
    <3>1. \E z \in {0, y} : \A u \in {0, y} : z >= u  OBVIOUS
    <3>2. Max({0, y}) \in {0, y} /\ \A u \in {0, y} : Max({0, y}) >= u
      BY <3>1 DEF Max
    <3> QED  BY <3>2
  <2> QED  BY <2>1, <2>2
<1> HIDE DEF Max
<1> QED  BY <1>1, <1>2, <1>3, <1>6, <1>7

\* What Evaluate decides is no more than what it ought to.
LEMMA JudgedWell ==
    ASSUME NEW j \in Judgements
    PROVE  /\ j.ttl \in 0..MaxDuration /\ j.at \in 0..MaxTime
           /\ j.ttl > 0 => j.shareable
           /\ j.ttl > 0 /\ j.ttl > j.fresh => j.wraps
<1>1. PICK e \in Exchanges, t \in 0..MaxTime : j = Judgement(e[1], e[2], t)
  BY DEF Judgements
<1>2. e[2].expires \in Seq(SUBSET Int) /\ MaxDuration \in Nat  BY ExchangeTyped, Bounds
<1> DEFINE life == Lifetime(e[1], e[2], t)
<1>3. life \in 0..MaxDuration /\ (life > 0 => Storable(e[1], e[2]))  BY <1>2, LifetimeType
<1>4. life > 0 => \E ttl \in Stated(e[2], t), age \in Age(e[2]) : life = Wrapped(ttl - age)
  BY <1>2, LifetimeType
<1>5. /\ j.at = t /\ j.ttl = (IF Capturable(e[2]) THEN life ELSE 0)
      /\ j.fresh = Fresh(e[2], t) /\ j.shareable = Shareable(e[1], e[2])
      /\ j.wraps = \E ttl \in Stated(e[2], t), age \in Age(e[2]) :
                      Wrapped(ttl - age) # ttl - age
  BY <1>1 DEF Judgement
<1> HIDE DEF life
<1>6. ASSUME j.ttl > 0 PROVE j.shareable /\ life > 0 /\ j.ttl = life
  <2>1. Capturable(e[2]) /\ life > 0  BY <1>2, <1>3, <1>5, <1>6
  <2> QED  BY <1>3, <1>5, <2>1, StorableShareable
<1>7. ASSUME j.ttl > 0, j.ttl > j.fresh, ~j.wraps PROVE FALSE
  <2>1. life > 0 /\ j.ttl = life  BY <1>6, <1>7
  <2>2. PICK ttl \in Stated(e[2], t), age \in Age(e[2]) : life = Wrapped(ttl - age)
    BY <1>4, <2>1
  <2>3. life = ttl - age  BY <1>5, <1>7, <2>2
  <2>4. /\ Fresh(e[2], t) \in Nat /\ ttl - age \in Int
        /\ ttl - age <= Fresh(e[2], t) \/ ttl - age < 0
    BY FreshAtLeast
  <2> QED  BY <1>5, <1>7, <2>1, <2>3, <2>4
<1>8. j.ttl \in 0..MaxDuration /\ j.at \in 0..MaxTime  BY <1>2, <1>3, <1>5
<1> QED  BY <1>6, <1>7, <1>8

-----------------------------------------------------------------------------
(* What the buffers hold, and how it changes with one of them.             *)

LEMMA HeldOf ==
    ASSUME NEW f \in [Bodies -> 0..MaxCacheBody], NEW b \in Bodies
    PROVE  LET Others == {byte \in Held(f) : byte[1] # b} IN
           /\ IsFiniteSet(Others)
           /\ Cardinality(Held(f)) = Cardinality(Others) + f[b]
<1> DEFINE Others == {byte \in Held(f) : byte[1] # b}
           Own == {b} \X (1..f[b])
<1>1. MaxCacheBody \in Nat /\ IsFiniteSet(Bodies) /\ f[b] \in 0..MaxCacheBody
  BY CaptureAssumption
<1>2. IsFiniteSet(1..MaxCacheBody)  BY <1>1, FS_Interval
<1>3. IsFiniteSet(Bodies \X (1..MaxCacheBody))  BY <1>1, <1>2, FS_Product
<1>4. Others \subseteq Bodies \X (1..MaxCacheBody)  BY DEF Held
<1>5. IsFiniteSet(Others)  BY <1>3, <1>4, FS_Subset
<1>6. IsFiniteSet(1..f[b]) /\ Cardinality(1..f[b]) = f[b]
  BY <1>1, FS_Interval
<1>7. IsFiniteSet({b}) /\ Cardinality({b}) = 1  BY FS_Singleton
<1>8. IsFiniteSet(Own) /\ Cardinality(Own) = f[b]
  <2>1. IsFiniteSet(Own) /\ Cardinality(Own) = Cardinality({b}) * Cardinality(1..f[b])
    BY <1>6, <1>7, FS_Product
  <2> QED  BY <1>1, <1>6, <1>7, <2>1
<1>9. Held(f) = Others \union Own
  <2>1. ASSUME NEW byte \in Held(f), byte[1] = b PROVE byte \in Own
    BY <1>1, <2>1 DEF Held
  <2>2. Own \subseteq Held(f)  BY <1>1 DEF Held
  <2> QED  BY <2>1, <2>2
<1>10. Others \intersect Own = {}  OBVIOUS
<1>11. Cardinality(Others \intersect Own) = 0  BY <1>10, FS_EmptySet
<1>12. Cardinality(Others) \in Nat  BY <1>5, FS_CardinalityType
<1>13. Cardinality(Others \union Own) = Cardinality(Others) + f[b]
  <2>1. Cardinality(Others \union Own) =
          Cardinality(Others) + Cardinality(Own) - Cardinality(Others \intersect Own)
    BY <1>5, <1>8, FS_Union
  <2> QED  BY <1>1, <1>8, <1>11, <1>12, <2>1
<1> QED  BY <1>5, <1>9, <1>13

\* A buffer that holds m bytes, where it held f[b], makes that much difference.
LEMMA HeldChange ==
    ASSUME NEW f \in [Bodies -> 0..MaxCacheBody], NEW b \in Bodies,
           NEW m \in 0..MaxCacheBody
    PROVE  /\ Cardinality(Held(f)) \in Nat
           /\ f[b] <= Cardinality(Held(f))
           /\ Cardinality(Held([f EXCEPT ![b] = m])) = Cardinality(Held(f)) - f[b] + m
<1> DEFINE g == [f EXCEPT ![b] = m]
           Others(h) == {byte \in Held(h) : byte[1] # b}
<1>1. g \in [Bodies -> 0..MaxCacheBody] /\ g[b] = m  OBVIOUS
<1>2. Others(g) = Others(f)  BY DEF Held
<1>3. IsFiniteSet(Others(f)) /\ Cardinality(Held(f)) = Cardinality(Others(f)) + f[b]
  BY HeldOf
<1>4. Cardinality(Held(g)) = Cardinality(Others(g)) + m  BY <1>1, HeldOf
<1>5. Cardinality(Others(f)) \in Nat  BY <1>3, FS_CardinalityType
<1>6. f[b] \in Nat /\ m \in Nat  BY Bounds
<1> HIDE DEF g, Others
<1>7. Cardinality(Held(g)) = Cardinality(Held(f)) - f[b] + m
  BY <1>2, <1>3, <1>4, <1>5, <1>6
<1> QED  BY <1>3, <1>5, <1>6, <1>7 DEF g

LEMMA HeldNothing ==
    Cardinality(Held([b \in Bodies |-> 0])) = 0
<1>1. Held([b \in Bodies |-> 0]) = {}  BY DEF Held
<1> QED  BY <1>1, FS_EmptySet

-----------------------------------------------------------------------------
(* The inductive invariant.                                                *)

\* Where a body is, its chunk, its buffer and what the swap will do agree.
Placed(b) ==
    /\ pc[b] \in {"headers", "check", "load", "swap", "drop", "end"} => b \notin finished
    /\ pc[b] \in {"discard", "closing"} => b \in finished
    /\ pc[b] = "headers" => buffer[b] = 0
    /\ pc[b] \notin {"check", "load", "swap", "drop"} => chunk[b] = NoChunk
    /\ chunk[b].eof \/ pc[b] = "end" => left[b] = 0
    /\ pc[b] \in {"load", "swap"} => b \notin overflow
    /\ pc[b] \in {"load", "swap"} => buffer[b] + chunk[b].n <= MaxCacheBody
    /\ pc[b] = "drop" => b \in overflow
    /\ pc[b] = "swap" => seen[b] + chunk[b].n <= MaxCacheBody

\* No byte of a body that is being captured is lost or taken twice.
Captured(b) ==
    b \notin overflow \union finished => length[b] = left[b] + chunk[b].n + buffer[b]

Accounted == capture = Cardinality(Held(buffer)) /\ capture <= MaxCacheBody

Committed ==
    /\ \A c \in cached : c.body \in finished /\ c.size = length[c.body]
    /\ \A c, d \in cached : c.body = d.body => c = d

IInv ==
    /\ TypeOK
    /\ \A b \in Bodies : Placed(b) /\ Captured(b)
    /\ Accounted
    /\ Committed

\* A step of b leaves every other body where it is.
Alone(b) ==
    \A x \in Bodies \ {b} :
        /\ pc'[x] = pc[x] /\ chunk'[x] = chunk[x] /\ seen'[x] = seen[x]
        /\ length'[x] = length[x] /\ left'[x] = left[x] /\ buffer'[x] = buffer[x]
        /\ (x \in overflow' <=> x \in overflow)
        /\ (x \in finished' <=> x \in finished)

LEMMA OneBody ==
    ASSUME IInv, NEW b \in Bodies, Alone(b), TypeOK', Placed(b)', Captured(b)',
           Accounted', Committed'
    PROVE  IInv'
<1> SUFFICES ASSUME NEW x \in Bodies PROVE Placed(x)' /\ Captured(x)'
  BY DEF IInv
<1>1. CASE x = b  BY <1>1
<1>2. CASE x # b
  <2>1. /\ pc'[x] = pc[x] /\ chunk'[x] = chunk[x] /\ seen'[x] = seen[x]
        /\ length'[x] = length[x] /\ left'[x] = left[x] /\ buffer'[x] = buffer[x]
        /\ (x \in overflow' <=> x \in overflow)
        /\ (x \in finished' <=> x \in finished)
    BY <1>2 DEF Alone
  <2>2. Placed(x) /\ Captured(x)  BY DEF IInv
  <2>3. Placed(x)'  BY <2>1, <2>2 DEF Placed
  <2>4. Captured(x)'  BY <2>1, <2>2 DEF Captured
  <2> QED  BY <2>3, <2>4
<1> QED  BY <1>1, <1>2

\* Most steps leave the budget, or the committed bodies, alone.
LEMMA StillAccounted ==
    ASSUME IInv, UNCHANGED <<buffer, capture>>
    PROVE  Accounted'
BY DEF IInv, Accounted

LEMMA StillCommitted ==
    ASSUME IInv, UNCHANGED <<length, finished, cached>>
    PROVE  Committed'
BY DEF IInv, Committed

\* What the types say of one body.
Typed(b) ==
    /\ chunk[b] \in Chunk /\ chunk[b].n \in Nat /\ chunk[b].eof \in BOOLEAN
    /\ NoChunk \in Chunk /\ NoChunk.n = 0 /\ NoChunk.eof = FALSE
    /\ seen[b] \in Nat /\ capture \in Nat /\ now \in Nat
    /\ length[b] \in 0..MaxLength /\ left[b] \in 0..MaxLength
    /\ length[b] \in Nat /\ left[b] \in Nat
    /\ buffer[b] \in 0..MaxCacheBody /\ buffer[b] \in Nat
    /\ judged[b].ttl \in Nat
    /\ MaxCacheBody \in Nat /\ MaxLength \in Nat /\ MaxChunk \in Nat
    /\ MaxTime \in Nat /\ MaxDuration \in Nat

LEMMA BodyType ==
    ASSUME IInv, NEW b \in Bodies
    PROVE  Typed(b)
<1>1. /\ MaxCacheBody \in Nat /\ MaxLength \in Nat /\ MaxChunk \in Nat
      /\ MaxTime \in Nat /\ MaxDuration \in Nat
  BY Bounds
<1>2. chunk[b] \in Chunk  BY DEF IInv, TypeOK
<1>3. chunk[b].n \in Nat /\ chunk[b].eof \in BOOLEAN  BY <1>1, <1>2 DEF Chunk
<1>4. NoChunk \in Chunk /\ NoChunk.n = 0 /\ NoChunk.eof = FALSE
  BY <1>1 DEF NoChunk, Chunk
<1>5. /\ seen[b] \in Nat /\ capture \in Nat
      /\ length[b] \in 0..MaxLength /\ left[b] \in 0..MaxLength
      /\ buffer[b] \in 0..MaxCacheBody /\ judged[b].ttl \in 0..MaxDuration
      /\ now \in 0..MaxTime
  BY DEF IInv, TypeOK
<1> QED  BY <1>1, <1>2, <1>3, <1>4, <1>5 DEF Typed

-----------------------------------------------------------------------------
(* The steps.                                                              *)

LEMMA InitIInv == Init => IInv
<1> SUFFICES ASSUME Init PROVE IInv  OBVIOUS
<1>1. /\ MaxCacheBody \in Nat /\ MaxLength \in Nat /\ MaxChunk \in Nat
      /\ MaxTime \in Nat /\ MaxDuration \in Nat
  BY Bounds
<1>2. TypeOK  BY <1>1 DEF Init, TypeOK, Chunk, NoChunk, Unjudged
<1>3. \A b \in Bodies : Placed(b) /\ Captured(b)
  BY DEF Init, Placed, Captured, NoChunk
<1>4. Accounted  BY <1>1, HeldNothing DEF Init, Accounted
<1>5. Committed  BY DEF Init, Committed
<1> QED  BY <1>2, <1>3, <1>4, <1>5 DEF IInv

LEMMA HeadersStep ==
    ASSUME IInv, NEW b \in Bodies, NEW j \in Judgements, NEW n \in 0..MaxLength,
           Headers(b, j, n)
    PROVE  IInv'
<1> Typed(b)  BY BodyType
<1> USE DEF Typed
<1>1. j.at \in 0..MaxTime /\ j.ttl \in 0..MaxDuration  BY JudgedWell
<1>2. DOMAIN judged' = Bodies /\ \A x \in Bodies : judged'[x].at \in 0..MaxTime
                            /\ judged'[x].ttl \in 0..MaxDuration
  <2>1. judged' = [judged EXCEPT ![b] = IF j.ttl > 0 THEN j ELSE Unjudged]
    BY DEF Headers
  <2>2. Unjudged.at \in 0..MaxTime /\ Unjudged.ttl \in 0..MaxDuration  BY DEF Unjudged
  <2> QED  BY <1>1, <2>1, <2>2 DEF IInv, TypeOK
<1>3. PICK m \in 0..MaxLength :
        length' = [length EXCEPT ![b] = m] /\ left' = [left EXCEPT ![b] = m]
  <2> 0 \in 0..MaxLength  OBVIOUS
  <2>1. PICK m \in 0..MaxLength : length' = [length EXCEPT ![b] = m]
    BY Zenon DEF Headers
  <2>2. length'[b] = m  BY <2>1 DEF IInv, TypeOK
  <2> QED  BY <2>1, <2>2 DEF Headers
<1>4. PICK to \in {"idle", "closed"} : pc[b] = "headers" /\ pc' = [pc EXCEPT ![b] = to]
  BY DEF Headers, Goto
<1>5. UNCHANGED <<chunk, seen, buffer, overflow, finished, capture, now, cached>>
  BY DEF Headers
<1>6. TypeOK'
  <2>1. pc' \in [Bodies -> {"headers", "idle", "check", "load", "swap", "drop",
                            "end", "discard", "closing", "closed"}]
    BY <1>4 DEF IInv, TypeOK
  <2>2. length' \in [Bodies -> 0..MaxLength] /\ left' \in [Bodies -> 0..MaxLength]
    BY <1>3 DEF IInv, TypeOK
  <2> QED  BY <1>2, <1>5, <2>1, <2>2 DEF IInv, TypeOK
<1>7. b \notin finished /\ buffer[b] = 0 /\ chunk[b] = NoChunk
  BY <1>4 DEF IInv, Placed
<1>8. pc'[b] = to /\ length'[b] = m /\ left'[b] = m  BY <1>3, <1>4 DEF IInv, TypeOK
<1>9. Placed(b)'  BY <1>4, <1>5, <1>7, <1>8 DEF Placed
<1>10. Captured(b)'  BY <1>5, <1>7, <1>8 DEF Captured
<1>11. Alone(b)  BY <1>3, <1>4, <1>5 DEF IInv, TypeOK, Alone
<1>12. Committed'
  <2>1. \A c \in cached : c.body \in Bodies /\ c.body # b
    BY <1>7 DEF IInv, TypeOK, Committed
  <2> QED  BY <1>5, <1>11, <2>1 DEF IInv, Committed, Alone
<1> QED  BY <1>5, <1>6, <1>9, <1>10, <1>11, <1>12, OneBody, StillAccounted

LEMMA ReadStep ==
    ASSUME IInv, NEW b \in Bodies, ReadChunk(b)
    PROVE  IInv'
<1> Typed(b)  BY BodyType
<1> USE DEF Typed
<1>1. PICK n \in 0..MaxChunk, eof \in BOOLEAN :
        /\ n <= left[b]
        /\ eof => n = left[b]
        /\ b \notin finished
        /\ pc[b] = "idle" /\ pc' = [pc EXCEPT ![b] = "check"]
        /\ left' = [left EXCEPT ![b] = @ - n]
        /\ chunk' = [chunk EXCEPT ![b] = [n |-> n, eof |-> eof]]
        /\ UNCHANGED <<length, seen, buffer, overflow, finished, capture, now, judged, cached>>
  BY DEF ReadChunk, Goto
<1>2. [n |-> n, eof |-> eof] \in Chunk  BY DEF Chunk
<1>3. left[b] - n \in 0..MaxLength /\ (eof => left[b] - n = 0)  BY <1>1
<1>4. TypeOK'
  <2>1. left' \in [Bodies -> 0..MaxLength]  BY <1>1, <1>3 DEF IInv, TypeOK
  <2>2. chunk' \in [Bodies -> Chunk]  BY <1>1, <1>2 DEF IInv, TypeOK
  <2> QED  BY <1>1, <2>1, <2>2 DEF IInv, TypeOK
<1>5. /\ pc'[b] = "check" /\ left'[b] = left[b] - n
      /\ chunk'[b] = [n |-> n, eof |-> eof]
  BY <1>1 DEF IInv, TypeOK
<1>6. chunk'[b].n = n /\ chunk'[b].eof = eof  BY <1>5
<1>7. Placed(b)'  BY <1>1, <1>3, <1>5, <1>6 DEF Placed
<1>8. Captured(b)'
  <2>1. chunk[b].n = 0  BY <1>1 DEF IInv, Placed
  <2>2. b \notin overflow => length[b] = left[b] + chunk[b].n + buffer[b]
    BY <1>1 DEF IInv, Captured
  <2> QED  BY <1>1, <1>5, <1>6, <2>1, <2>2 DEF Captured
<1>9. Alone(b)  BY <1>1 DEF IInv, TypeOK, Alone
<1> QED  BY <1>1, <1>4, <1>7, <1>8, <1>9, OneBody, StillAccounted, StillCommitted

\* Where Read goes with the chunk dealt with: to its end only if nothing is left.
LEMMA RestPlaced ==
    ASSUME IInv, NEW b \in Bodies, pc[b] \in {"check", "swap", "drop"}
    PROVE  /\ Rest(b) \in {"idle", "end"}
           /\ Rest(b) = "end" => left[b] = 0
           /\ b \notin finished
<1>1. chunk[b].eof => left[b] = 0  BY DEF IInv, Placed
<1>2. b \notin finished  BY DEF IInv, Placed
<1> QED  BY <1>1, <1>2 DEF Rest

LEMMA PassOverStep ==
    ASSUME IInv, NEW b \in Bodies, PassOver(b)
    PROVE  IInv'
<1> Typed(b)  BY BodyType
<1> USE DEF Typed
<1>1. /\ b \in overflow \/ chunk[b].n = 0
      /\ pc[b] = "check" /\ pc' = [pc EXCEPT ![b] = Rest(b)]
      /\ chunk' = [chunk EXCEPT ![b] = NoChunk]
      /\ seen' = [seen EXCEPT ![b] = 0]
      /\ UNCHANGED <<length, left, buffer, overflow, finished, capture, now, judged, cached>>
  BY DEF PassOver, Goto, ForgetChunk
<1>2. Rest(b) \in {"idle", "end"} /\ (Rest(b) = "end" => left[b] = 0) /\ b \notin finished
  BY <1>1, RestPlaced
<1>3. TypeOK'
  <2>1. pc' \in [Bodies -> {"headers", "idle", "check", "load", "swap", "drop",
                            "end", "discard", "closing", "closed"}]
    BY <1>1, <1>2 DEF IInv, TypeOK
  <2>2. chunk' \in [Bodies -> Chunk] /\ seen' \in [Bodies -> Nat]
    BY <1>1 DEF IInv, TypeOK
  <2> QED  BY <1>1, <2>1, <2>2 DEF IInv, TypeOK
<1>4. pc'[b] = Rest(b) /\ chunk'[b] = NoChunk  BY <1>1 DEF IInv, TypeOK
<1>5. Placed(b)'  BY <1>1, <1>2, <1>4 DEF Placed
<1>6. Captured(b)'
  <2>1. b \notin overflow => length[b] = left[b] + chunk[b].n + buffer[b]
    BY <1>2 DEF IInv, Captured
  <2> QED  BY <1>1, <1>4, <2>1 DEF Captured
<1>7. Alone(b)  BY <1>1 DEF IInv, TypeOK, Alone
<1> QED  BY <1>1, <1>3, <1>5, <1>6, <1>7, OneBody, StillAccounted, StillCommitted

LEMMA MeasureStep ==
    ASSUME IInv, NEW b \in Bodies, Measure(b)
    PROVE  IInv'
<1> Typed(b)  BY BodyType
<1> USE DEF Typed
<1> DEFINE fits == buffer[b] + chunk[b].n <= MaxCacheBody
<1>1. /\ b \notin overflow
      /\ pc[b] = "check" /\ pc' = [pc EXCEPT ![b] = IF fits THEN "load" ELSE "drop"]
      /\ overflow' = IF fits THEN overflow ELSE overflow \union {b}
      /\ UNCHANGED <<length, left, chunk, seen, buffer, finished, capture, now, judged, cached>>
  BY DEF Measure, Goto
<1>2. b \notin finished  BY <1>1 DEF IInv, Placed
<1>3. TypeOK'
  <2>1. pc' \in [Bodies -> {"headers", "idle", "check", "load", "swap", "drop",
                            "end", "discard", "closing", "closed"}]
    BY <1>1 DEF IInv, TypeOK
  <2>2. overflow' \subseteq Bodies  BY <1>1 DEF IInv, TypeOK
  <2> QED  BY <1>1, <2>1, <2>2 DEF IInv, TypeOK
<1>4. pc'[b] = IF fits THEN "load" ELSE "drop"  BY <1>1 DEF IInv, TypeOK
<1>5. chunk[b].eof => left[b] = 0  BY DEF IInv, Placed
<1>6. Placed(b)'
  <2>1. CASE fits  BY <1>1, <1>2, <1>4, <1>5, <2>1 DEF Placed
  <2>2. CASE ~fits  BY <1>1, <1>2, <1>4, <1>5, <2>2 DEF Placed
  <2> QED  BY <2>1, <2>2
<1>7. Captured(b)'  BY <1>1 DEF IInv, Captured
<1>8. Alone(b)  BY <1>1 DEF IInv, TypeOK, Alone
<1> QED  BY <1>1, <1>3, <1>6, <1>7, <1>8, OneBody, StillAccounted, StillCommitted

LEMMA LoadStep ==
    ASSUME IInv, NEW b \in Bodies, Load(b)
    PROVE  IInv'
<1> Typed(b)  BY BodyType
<1> USE DEF Typed
<1> DEFINE fits == chunk[b].n <= MaxCacheBody - capture
<1>1. /\ pc[b] = "load" /\ pc' = [pc EXCEPT ![b] = IF fits THEN "swap" ELSE "drop"]
      /\ seen' = [seen EXCEPT ![b] = capture]
      /\ overflow' = IF fits THEN overflow ELSE overflow \union {b}
      /\ UNCHANGED <<length, left, chunk, buffer, finished, capture, now, judged, cached>>
  BY DEF Load, Goto
<1>2. b \notin finished /\ b \notin overflow /\ buffer[b] + chunk[b].n <= MaxCacheBody
  BY <1>1 DEF IInv, Placed
<1>3. TypeOK'
  <2>1. pc' \in [Bodies -> {"headers", "idle", "check", "load", "swap", "drop",
                            "end", "discard", "closing", "closed"}]
    BY <1>1 DEF IInv, TypeOK
  <2>2. overflow' \subseteq Bodies  BY <1>1 DEF IInv, TypeOK
  <2>3. seen' \in [Bodies -> Nat]  BY <1>1 DEF IInv, TypeOK
  <2> QED  BY <1>1, <2>1, <2>2, <2>3 DEF IInv, TypeOK
<1>4. pc'[b] = (IF fits THEN "swap" ELSE "drop") /\ seen'[b] = capture
  BY <1>1 DEF IInv, TypeOK
<1>5. chunk[b].eof => left[b] = 0  BY DEF IInv, Placed
<1>6. fits => capture + chunk[b].n <= MaxCacheBody  OBVIOUS
<1>7. Placed(b)'
  <2>1. CASE fits  BY <1>1, <1>2, <1>4, <1>5, <1>6, <2>1 DEF Placed
  <2>2. CASE ~fits  BY <1>1, <1>2, <1>4, <1>5, <2>2 DEF Placed
  <2> QED  BY <2>1, <2>2
<1>8. Captured(b)'  BY <1>1 DEF IInv, Captured
<1>9. Alone(b)  BY <1>1 DEF IInv, TypeOK, Alone
<1> QED  BY <1>1, <1>3, <1>7, <1>8, <1>9, OneBody, StillAccounted, StillCommitted

\* A swap that succeeds found the budget as it was loaded, so what fitted still
\* fits, and takes from the budget what it puts into the buffer.
LEMMA SwapStep ==
    ASSUME IInv, NEW b \in Bodies, Swap(b)
    PROVE  IInv'
<1> Typed(b)  BY BodyType
<1> USE DEF Typed
<1> DEFINE m == buffer[b] + chunk[b].n
<1>1. /\ capture = seen[b]
      /\ pc[b] = "swap" /\ pc' = [pc EXCEPT ![b] = Rest(b)]
      /\ capture' = seen[b] + chunk[b].n
      /\ buffer' = [buffer EXCEPT ![b] = m]
      /\ chunk' = [chunk EXCEPT ![b] = NoChunk]
      /\ seen' = [seen EXCEPT ![b] = 0]
      /\ UNCHANGED <<length, left, overflow, finished, now, judged, cached>>
  BY DEF Swap, Unchanged, Goto, ForgetChunk
<1>2. Rest(b) \in {"idle", "end"} /\ (Rest(b) = "end" => left[b] = 0) /\ b \notin finished
  BY <1>1, RestPlaced
<1>3. b \notin overflow /\ m <= MaxCacheBody /\ seen[b] + chunk[b].n <= MaxCacheBody
  BY <1>1 DEF IInv, Placed
<1>4. m \in 0..MaxCacheBody  BY <1>3
<1>5. TypeOK'
  <2>1. pc' \in [Bodies -> {"headers", "idle", "check", "load", "swap", "drop",
                            "end", "discard", "closing", "closed"}]
    BY <1>1, <1>2 DEF IInv, TypeOK
  <2>2. chunk' \in [Bodies -> Chunk] /\ seen' \in [Bodies -> Nat]
    BY <1>1 DEF IInv, TypeOK
  <2>3. buffer' \in [Bodies -> 0..MaxCacheBody]  BY <1>1, <1>4 DEF IInv, TypeOK
  <2>4. capture' \in Nat  BY <1>1
  <2> QED  BY <1>1, <2>1, <2>2, <2>3, <2>4 DEF IInv, TypeOK
<1>6. pc'[b] = Rest(b) /\ chunk'[b] = NoChunk /\ buffer'[b] = m
  BY <1>1 DEF IInv, TypeOK
<1>7. Placed(b)'  BY <1>1, <1>2, <1>6 DEF Placed
<1>8. Captured(b)'
  <2>1. b \notin overflow => length[b] = left[b] + chunk[b].n + buffer[b]
    BY <1>2 DEF IInv, Captured
  <2> QED  BY <1>1, <1>6, <2>1 DEF Captured
<1>9. Accounted'
  <2>1. Cardinality(Held([buffer EXCEPT ![b] = m])) = Cardinality(Held(buffer)) - buffer[b] + m
    BY <1>4, HeldChange DEF IInv, TypeOK
  <2>2. Cardinality(Held(buffer)) = seen[b]  BY <1>1 DEF IInv, Accounted
  <2>3. Cardinality(Held(buffer')) = capture'  BY <1>1, <2>1, <2>2
  <2> QED  BY <1>1, <1>3, <2>3 DEF Accounted
<1>10. Alone(b)  BY <1>1 DEF IInv, TypeOK, Alone
<1> QED  BY <1>1, <1>5, <1>7, <1>8, <1>9, <1>10, OneBody, StillCommitted

LEMMA RetryStep ==
    ASSUME IInv, NEW b \in Bodies, Retry(b)
    PROVE  IInv'
<1> Typed(b)  BY BodyType
<1> USE DEF Typed
<1>1. /\ pc[b] = "swap" /\ pc' = [pc EXCEPT ![b] = "load"]
      /\ UNCHANGED <<length, left, chunk, seen, buffer, overflow, finished, capture,
                     now, judged, cached>>
  BY DEF Retry, Again, Goto
<1>2. TypeOK'  BY <1>1 DEF IInv, TypeOK
<1>3. pc'[b] = "load"  BY <1>1 DEF IInv, TypeOK
<1>4. Placed(b)'
  <2>1. Placed(b)  BY DEF IInv
  <2> QED  BY <1>1, <1>3, <2>1 DEF Placed
<1>5. Captured(b)'  BY <1>1 DEF IInv, Captured
<1>6. Alone(b)  BY <1>1 DEF IInv, TypeOK, Alone
<1> QED  BY <1>1, <1>2, <1>4, <1>5, <1>6, OneBody, StillAccounted, StillCommitted

\* A buffer is given back whole, so the budget does not go below what the others
\* hold.
LEMMA DiscardAccounted ==
    ASSUME IInv, NEW b \in Bodies, Discard(b)
    PROVE  /\ Accounted' /\ capture' \in Nat
           /\ buffer' \in [Bodies -> 0..MaxCacheBody] /\ buffer'[b] = 0
<1> Typed(b)  BY BodyType
<1> USE DEF Typed
<1>1. capture' = capture - buffer[b] /\ buffer' = [buffer EXCEPT ![b] = 0]
  BY DEF Discard, Discarded
<1>2. /\ Cardinality(Held([buffer EXCEPT ![b] = 0])) = Cardinality(Held(buffer)) - buffer[b] + 0
      /\ buffer[b] <= Cardinality(Held(buffer))
  <2>1. 0 \in 0..MaxCacheBody  OBVIOUS
  <2> QED  BY <2>1, HeldChange DEF IInv, TypeOK
<1>3. capture = Cardinality(Held(buffer)) /\ capture <= MaxCacheBody
  BY DEF IInv, Accounted
<1>4. capture' = Cardinality(Held(buffer')) /\ capture' <= MaxCacheBody /\ capture' \in Nat
  BY <1>1, <1>2, <1>3
<1> QED  BY <1>1, <1>4 DEF IInv, TypeOK, Accounted

LEMMA DropStep ==
    ASSUME IInv, NEW b \in Bodies, Drop(b)
    PROVE  IInv'
<1> Typed(b)  BY BodyType
<1> USE DEF Typed
<1>1. /\ pc[b] = "drop" /\ pc' = [pc EXCEPT ![b] = Rest(b)]
      /\ Discard(b)
      /\ chunk' = [chunk EXCEPT ![b] = NoChunk]
      /\ seen' = [seen EXCEPT ![b] = 0]
      /\ UNCHANGED <<length, left, overflow, finished, now, judged, cached>>
  BY DEF Drop, Goto, ForgetChunk
<1>2. Rest(b) \in {"idle", "end"} /\ (Rest(b) = "end" => left[b] = 0) /\ b \notin finished
  BY <1>1, RestPlaced
<1>3. b \in overflow  BY <1>1 DEF IInv, Placed
<1>4. /\ Accounted' /\ capture' \in Nat
      /\ buffer' \in [Bodies -> 0..MaxCacheBody] /\ buffer'[b] = 0
  BY <1>1, DiscardAccounted
<1>5. TypeOK'
  <2>1. pc' \in [Bodies -> {"headers", "idle", "check", "load", "swap", "drop",
                            "end", "discard", "closing", "closed"}]
    BY <1>1, <1>2 DEF IInv, TypeOK
  <2>2. chunk' \in [Bodies -> Chunk] /\ seen' \in [Bodies -> Nat]
    BY <1>1 DEF IInv, TypeOK
  <2> QED  BY <1>1, <1>4, <2>1, <2>2 DEF IInv, TypeOK
<1>6. pc'[b] = Rest(b) /\ chunk'[b] = NoChunk  BY <1>1 DEF IInv, TypeOK
<1>7. Placed(b)'  BY <1>1, <1>2, <1>6 DEF Placed
<1>8. Captured(b)'  BY <1>1, <1>3 DEF Captured
<1>9. Alone(b)  BY <1>1 DEF IInv, TypeOK, Alone, Discard
<1> QED  BY <1>1, <1>4, <1>5, <1>7, <1>8, <1>9, OneBody, StillCommitted

\* The body is finished, committed or closed early: its buffer goes.
LEMMA FinishedDiscardStep ==
    ASSUME IInv, NEW b \in Bodies, FinishDiscard(b) \/ CloseDiscard(b)
    PROVE  IInv'
<1> Typed(b)  BY BodyType
<1> USE DEF Typed
<1>1. PICK to \in {"idle", "closed"} :
        /\ pc[b] \in {"discard", "closing"} /\ pc' = [pc EXCEPT ![b] = to]
        /\ Discard(b)
        /\ UNCHANGED <<length, left, chunk, seen, overflow, finished, now, judged, cached>>
  BY DEF FinishDiscard, CloseDiscard, Goto
<1>2. /\ Accounted' /\ capture' \in Nat
      /\ buffer' \in [Bodies -> 0..MaxCacheBody] /\ buffer'[b] = 0
  BY <1>1, DiscardAccounted
<1>3. TypeOK'  BY <1>1, <1>2 DEF IInv, TypeOK
<1>4. pc'[b] = to /\ chunk[b] = NoChunk /\ b \in finished
  BY <1>1 DEF IInv, TypeOK, Placed
<1>5. Placed(b)'  BY <1>1, <1>4 DEF Placed
<1>6. Captured(b)'  BY <1>1, <1>4 DEF Captured
<1>7. Alone(b)  BY <1>1 DEF IInv, TypeOK, Alone, Discard
<1> QED  BY <1>1, <1>2, <1>3, <1>5, <1>6, <1>7, OneBody, StillCommitted

\* At the end nothing is left and no chunk is under way: the buffer of a body that
\* never overflowed is the body.
LEMMA FinishStep ==
    ASSUME IInv, NEW b \in Bodies, Finish(b)
    PROVE  IInv'
<1> Typed(b)  BY BodyType
<1> USE DEF Typed
<1> DEFINE entry == [body |-> b, size |-> buffer[b], expiresAt |-> now + judged[b].ttl]
<1>1. /\ pc[b] = "end" /\ pc' = [pc EXCEPT ![b] = "discard"]
      /\ finished' = finished \union {b}
      /\ cached' = IF b \notin overflow THEN cached \union {entry} ELSE cached
      /\ UNCHANGED <<length, left, chunk, seen, buffer, overflow, capture, now, judged>>
  BY DEF Finish, MayCommit, Goto
<1>2. b \notin finished /\ chunk[b] = NoChunk /\ left[b] = 0  BY <1>1 DEF IInv, Placed
<1>3. b \notin overflow => length[b] = buffer[b]
  <2>1. b \notin overflow => length[b] = left[b] + chunk[b].n + buffer[b]
    BY <1>2 DEF IInv, Captured
  <2> QED  BY <1>2, <2>1
<1>4. entry.body = b /\ entry.size = buffer[b]  OBVIOUS
<1>5. entry \in [body : Bodies, size : Nat, expiresAt : Nat]  OBVIOUS
<1>6. TypeOK'
  <2>1. cached' \subseteq [body : Bodies, size : Nat, expiresAt : Nat]
    BY <1>1, <1>5 DEF IInv, TypeOK
  <2>2. finished' \subseteq Bodies  BY <1>1 DEF IInv, TypeOK
  <2> HIDE DEF entry
  <2>3. pc' \in [Bodies -> {"headers", "idle", "check", "load", "swap", "drop",
                            "end", "discard", "closing", "closed"}]
    BY <1>1 DEF IInv, TypeOK
  <2> QED  BY <1>1, <2>1, <2>2, <2>3 DEF IInv, TypeOK
<1> HIDE DEF entry
<1>7. pc'[b] = "discard" /\ b \in finished'  BY <1>1 DEF IInv, TypeOK
<1>8. Placed(b)'  BY <1>1, <1>2, <1>7 DEF Placed
<1>9. Captured(b)'  BY <1>7 DEF Captured
<1>10. Alone(b)  BY <1>1 DEF IInv, TypeOK, Alone
<1>11. Committed'
  <2>1. \A c \in cached : c.body \in finished /\ c.body # b /\ c.size = length[c.body]
    BY <1>2 DEF IInv, Committed
  <2>2. \A c, d \in cached : c.body = d.body => c = d  BY DEF IInv, Committed
  <2> QED  BY <1>1, <1>3, <1>4, <2>1, <2>2 DEF Committed
<1> QED  BY <1>1, <1>6, <1>8, <1>9, <1>10, <1>11, OneBody, StillAccounted

LEMMA CloseStep ==
    ASSUME IInv, NEW b \in Bodies, Close(b)
    PROVE  IInv'
<1> Typed(b)  BY BodyType
<1> USE DEF Typed
<1>1. PICK to \in {"closed", "closing"} :
        /\ pc[b] = "idle" /\ pc' = [pc EXCEPT ![b] = to]
        /\ finished' = finished \union {b}
        /\ UNCHANGED <<length, left, chunk, seen, buffer, overflow, capture, now, judged,
                       cached>>
  BY Zenon DEF Close, Goto
<1>2. chunk[b] = NoChunk  BY <1>1 DEF IInv, Placed
<1>3. TypeOK'  BY <1>1 DEF IInv, TypeOK
<1>4. pc'[b] = to /\ b \in finished'  BY <1>1 DEF IInv, TypeOK
<1>5. Placed(b)'  BY <1>1, <1>2, <1>4 DEF Placed
<1>6. Captured(b)'  BY <1>4 DEF Captured
<1>7. Alone(b)  BY <1>1 DEF IInv, TypeOK, Alone
<1>8. Committed'  BY <1>1 DEF IInv, Committed
<1> QED  BY <1>1, <1>3, <1>5, <1>6, <1>7, <1>8, OneBody, StillAccounted

LEMMA TimeStep ==
    ASSUME IInv, Tick \/ UNCHANGED vars
    PROVE  IInv'
<1>1. UNCHANGED <<pc, length, left, chunk, seen, buffer, overflow, finished, capture,
                  judged, cached>>
  BY DEF Tick, vars
<1>2. now' \in 0..MaxTime  BY Bounds DEF IInv, TypeOK, Tick, vars
<1>3. TypeOK'  BY <1>1, <1>2 DEF IInv, TypeOK
<1>4. \A b \in Bodies : Placed(b)' /\ Captured(b)'
  BY <1>1 DEF IInv, Placed, Captured
<1> QED  BY <1>1, <1>3, <1>4, StillAccounted, StillCommitted DEF IInv

LEMMA NextStep ==
    ASSUME IInv, [Next]_vars
    PROVE  IInv'
<1>1. CASE \E b \in Bodies : Stream(b)
  BY <1>1, ReadStep, PassOverStep, MeasureStep, LoadStep, SwapStep, RetryStep, DropStep,
     FinishStep, FinishedDiscardStep, CloseStep DEF Stream
<1>2. CASE \E b \in Bodies, j \in Judgements, n \in 0..MaxLength : Headers(b, j, n)
  BY <1>2, HeadersStep
<1>3. CASE Tick \/ AllClosed \/ UNCHANGED vars
  BY <1>3, TimeStep DEF AllClosed
<1> QED  BY <1>1, <1>2, <1>3 DEF Next

-----------------------------------------------------------------------------
(* The judgements that bodies stream on.                                   *)

\* Only a body that Evaluate gave a lifetime is captured, by that judgement.
Judged(b) ==
    \/ judged[b] = Unjudged /\ pc[b] \in {"headers", "closed"} /\ b \notin finished
    \/ judged[b] \in Judgements /\ judged[b].ttl > 0

AllJudged == \A b \in Bodies : Judged(b)

LEMMA JudgedInit == Init => AllJudged
BY DEF Init, AllJudged, Judged

LEMMA JudgedStep ==
    ASSUME IInv, AllJudged, [Next]_vars
    PROVE  AllJudged'
<1>1. DOMAIN pc = Bodies /\ DOMAIN judged = Bodies  BY DEF IInv, TypeOK
<1>2. ASSUME NEW b \in Bodies, Stream(b) PROVE AllJudged'
  <2>1. /\ judged' = judged /\ pc[b] \notin {"headers", "closed"}
        /\ finished' \in {finished, finished \union {b}}
        /\ \E to : pc' = [pc EXCEPT ![b] = to]
    BY <1>2, Zenon DEF Stream, ReadChunk, PassOver, Measure, Load, Swap, Retry, Drop,
       Finish, FinishDiscard, Close, CloseDiscard, Goto
  <2>2. judged[b] \in Judgements /\ judged[b].ttl > 0  BY <2>1 DEF AllJudged, Judged
  <2> SUFFICES ASSUME NEW x \in Bodies PROVE Judged(x)'  BY DEF AllJudged
  <2>3. CASE x = b  BY <2>1, <2>2, <2>3 DEF Judged, Judgements
  <2>4. CASE x # b
    <3>1. pc'[x] = pc[x] /\ (x \in finished' <=> x \in finished)  BY <1>1, <2>1, <2>4
    <3>2. Judged(x)  BY DEF AllJudged
    <3> QED  BY <2>1, <3>1, <3>2 DEF Judged, Judgements
  <2> QED  BY <2>3, <2>4
<1>3. ASSUME NEW b \in Bodies, NEW j \in Judgements, NEW n \in 0..MaxLength, Headers(b, j, n)
      PROVE  AllJudged'
  <2>1. /\ pc[b] = "headers"
        /\ pc' = [pc EXCEPT ![b] = IF j.ttl > 0 THEN "idle" ELSE "closed"]
        /\ judged' = [judged EXCEPT ![b] = IF j.ttl > 0 THEN j ELSE Unjudged]
        /\ finished' = finished
    BY <1>3 DEF Headers, Goto
  <2>2. b \notin finished  BY <2>1 DEF IInv, Placed
  <2> SUFFICES ASSUME NEW x \in Bodies PROVE Judged(x)'  BY DEF AllJudged
  <2>3. CASE x = b
    <3>1. CASE j.ttl > 0
      <4>1. judged'[b] = j  BY <1>1, <2>1, <3>1
      <4> QED  BY <2>3, <3>1, <4>1 DEF Judged, Judgements
    <3>2. CASE ~(j.ttl > 0)
      <4>1. judged'[b] = Unjudged /\ pc'[b] = "closed" /\ b \notin finished'
        BY <1>1, <2>1, <2>2, <3>2
      <4> QED  BY <2>3, <4>1 DEF Judged
    <3> QED  BY <3>1, <3>2
  <2>4. CASE x # b
    <3>1. pc'[x] = pc[x] /\ judged'[x] = judged[x]  BY <1>1, <2>1, <2>4
    <3>2. Judged(x)  BY DEF AllJudged
    <3> QED  BY <2>1, <3>1, <3>2 DEF Judged, Judgements
  <2> QED  BY <2>3, <2>4
<1>4. CASE Tick \/ AllClosed \/ UNCHANGED vars
  <2>1. UNCHANGED <<pc, finished, judged>>  BY <1>4 DEF Tick, AllClosed, vars
  <2>2. ASSUME NEW x \in Bodies PROVE Judged(x)'
    <3>1. Judged(x)  BY DEF AllJudged
    <3> QED  BY <2>1, <3>1 DEF Judged, Judgements
  <2> QED  BY <2>2 DEF AllJudged
<1> QED  BY <1>2, <1>3, <1>4 DEF Next

-----------------------------------------------------------------------------
(* The theorems.                                                           *)

\* The swap takes exactly what was measured, and what was measured is exactly
\* what the upstream has sent: the inductive invariant of the capture
\* (handler.go Read, reserveCacheCapture, discard, finish).
THEOREM Inductive == Spec => []IInv
<1>1. IInv /\ [Next]_vars => IInv'  BY NextStep
<1> QED  BY InitIInv, <1>1, PTL DEF Spec

\* The byte budget that all bodies share is what they have buffered, and within
\* its bound, in every interleaving of the compare-and-swap loops
\* (handler.go reserveCacheCapture and discard).
THEOREM BudgetExact == Spec => []BudgetAccounted
<1>1. IInv => BudgetAccounted  BY DEF IInv, Accounted, BudgetAccounted
<1> QED  BY Inductive, <1>1, PTL

\* What reaches the cache is a whole body, once (handler.go finish).
THEOREM WholeBodiesCommitted == Spec => []CommitsWholeBodies
<1>1. IInv => CommitsWholeBodies  BY DEF IInv, Committed, CommitsWholeBodies
<1> QED  BY Inductive, <1>1, PTL

\* A body streams into the cache only by a judgement that allows it.
THEOREM CapturedByJudgement == Spec => []AllJudged
<1>1. IInv /\ AllJudged /\ [Next]_vars => AllJudged'  BY JudgedStep
<1> QED  BY Inductive, JudgedInit, <1>1, PTL DEF Spec

\* Whatever Cache-Control says, in however many fields, elements and quotations: what
\* is in the cache may be shared (policy.go Evaluate, splitCacheControl, hasDirective).
THEOREM CachedIsShareable == Spec => []OnlyShareable
<1>1. IInv /\ AllJudged => OnlyShareable
  <2> SUFFICES ASSUME IInv, AllJudged, NEW c \in cached PROVE judged[c.body].shareable
    BY DEF OnlyShareable
  <2>1. c.body \in Bodies /\ c.body \in finished  BY DEF IInv, TypeOK, Committed
  <2>2. judged[c.body] \in Judgements /\ judged[c.body].ttl > 0
    BY <2>1 DEF AllJudged, Judged
  <2> QED  BY <2>2, JudgedWell
<1> QED  BY Inductive, CapturedByJudgement, <1>1, PTL

\* The lifetime of a cached response is within what the upstream left of it, save where
\* the subtraction of the Age wraps (policy.go Evaluate, directiveSeconds).
THEOREM LifetimeIsClaimed == Spec => []WithinFreshness
<1>1. AllJudged => WithinFreshness
  <2> SUFFICES ASSUME AllJudged, NEW b \in Bodies, judged[b].ttl > judged[b].fresh
               PROVE  judged[b].wraps
    BY DEF WithinFreshness
  <2>1. CASE judged[b] = Unjudged
    <3>1. judged[b].ttl = 0 /\ judged[b].fresh = 0  BY <2>1 DEF Unjudged
    <3> QED  BY <3>1
  <2>2. CASE judged[b] \in Judgements /\ judged[b].ttl > 0  BY <2>2, JudgedWell
  <2> QED  BY <2>1, <2>2 DEF AllJudged, Judged
<1> QED  BY CapturedByJudgement, <1>1, PTL
=============================================================================
