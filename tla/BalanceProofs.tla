----------------------------- MODULE BalanceProofs -----------------------------
(***************************************************************************)
(* Theorems about Balance, for any pool, any finite set of callers, and a  *)
(* counter that wraps anywhere, also where the pool does not divide it.    *)
(***************************************************************************)
EXTENDS Balance, FiniteSetTheorems, SequenceTheorems, TLAPS

-----------------------------------------------------------------------------
(* The inductive invariant, caller by caller.                              *)

Size == Len(Pool)
Listed(c) == ToSet(call[c].offered)

\* The backend that a scan reads at its j-th turn.
Seat(c, j) ==
    call[c].offered[((call[c].start + j) % Len(call[c].offered)) + 1]

\* What a caller has seen includes the present while it chooses.
Watched(c) ==
    /\ ~Choosing(c) => call[c] = Idle /\ up[c] = {} /\ down[c] = {}
    /\ Choosing(c) => alive \subseteq up[c] /\ Backends \ alive \subseteq down[c]

\* A backend passed over as an alternative was seen down.
Filtering(c) ==
    call[c].pc = "filter" =>
        /\ call[c].attempted # None
        /\ call[c].start = 0 /\ call[c].candidates = <<>>
        /\ Len(call[c].offered) <= call[c].pos
        /\ call[c].attempted \notin Listed(c)
        /\ \A j \in 1..call[c].pos :
             Pool[j] \in {call[c].attempted} \union Listed(c) \union down[c]

\* What is offered leaves out, the attempted backend aside, only backends seen down.
Offering(c) ==
    call[c].pc \in {"ticket", "scan", "load"} =>
        /\ call[c].offered # <<>>
        /\ Backends \ ({call[c].attempted} \union Listed(c)) \subseteq down[c]
        /\ call[c].attempted \in Listed(c) =>
             Backends \ {call[c].attempted} \subseteq down[c]
        /\ call[c].start < Len(call[c].offered)
        /\ call[c].pos <= Len(call[c].offered)
        /\ Len(call[c].candidates) <= call[c].pos
        /\ call[c].pc = "ticket" => call[c].pos = 0 /\ call[c].start = 0
        /\ call[c].pc = "load" =>
             call[c].pos < Len(call[c].offered) /\ strategy = "least_connections"
        /\ strategy = "least_connections" => call[c].start = 0
        /\ strategy = "round_robin" => call[c].candidates = <<>>

\* Without a candidate every backend read was down; a candidate was up.
Scanning(c) ==
    call[c].pc \in {"scan", "load"} =>
        /\ call[c].candidates = <<>> =>
             \A j \in 0..call[c].pos - 1 : Seat(c, j) \in down[c]
        /\ ToSet(call[c].candidates) \subseteq up[c] \intersect Listed(c)
        /\ call[c].pc = "load" => At(c) \in up[c]

\* While nothing changes, the candidates have the least load read so far.
Comparing(c) ==
    calm /\ Choosing(c) =>
        /\ call[c].pc # "filter" /\ call[c].attempted = None /\ call[c].offered = Pool
        /\ call[c].pc \in {"scan", "load"} /\ strategy = "least_connections" =>
             /\ \A b \in ToSet(call[c].candidates) :
                  b \in alive /\ active[b] = call[c].minimum
             /\ \A j \in 0..call[c].pos - 1 :
                  Seat(c, j) \in alive =>
                    /\ call[c].candidates # <<>>
                    /\ call[c].minimum <= active[Seat(c, j)]
             /\ call[c].pc = "load" => At(c) \in alive

Sound(c) ==
    Watched(c) /\ Filtering(c) /\ Offering(c) /\ Scanning(c) /\ Comparing(c)

Choosers == {c \in Callers : Choosing(c)}

\* Every choice counted is over or under way; nothing is counted once disturbed.
Counted ==
    /\ ~calm => picks = NoPicks /\ calls = 0
    /\ calm => \A b \in Backends : picks[b] + Cardinality(Choosers) <= calls

IInv ==
    /\ TypeOK
    /\ \A c \in Callers : Sound(c)
    /\ Counted

-----------------------------------------------------------------------------
(* The rotation, while every backend is alive and equally loaded.          *)

Even == calm /\ alive = Backends /\ \A a, b \in Backends : active[a] = active[b]

\* How many of the numbers below x leave the remainder s.
Below(x, s) == (x + (Size - 1 - s)) \div Size

\* How many of the draws, from a counter that stood at first, gave the slot s.
Drawn(first, draws, s) ==
    IF first + draws <= CounterWrap
    THEN Below(first + draws, s) - Below(first, s)
    ELSE (Below(CounterWrap, s) - Below(first, s)) + Below((first + draws) - CounterWrap, s)

\* The callers that have yet to draw, and those that hold the slot s.
Undrawn == {c \in Callers : \/ call[c].pc = "ticket"
                            \/ strategy = "least_connections" /\ Choosing(c)}
Holding(s) == {c \in Callers : /\ strategy = "round_robin"
                               /\ call[c].pc = "scan" /\ call[c].start = s}

Turning(c) ==
    /\ strategy = "round_robin" => call[c].pos = 0
    /\ strategy = "least_connections" /\ call[c].pc \in {"scan", "load"} =>
         /\ Len(call[c].candidates) = call[c].pos
         /\ \A j \in 1..call[c].pos : call[c].candidates[j] = Pool[j]

Tally(first, draws) ==
    /\ draws + Cardinality(Undrawn) = calls
    /\ counter = (first + draws) % CounterWrap
    /\ \A s \in 0..Size - 1 :
         picks[Pool[s + 1]] + Cardinality(Holding(s)) = Drawn(first, draws, s)

Rotating ==
    Even => /\ \A c \in Callers : Turning(c)
            /\ \E first \in 0..CounterWrap - 1, draws \in 0..calls : Tally(first, draws)

-----------------------------------------------------------------------------
(* The pool, lists and remainders.                                         *)

LEMMA Places ==
    ASSUME NEW S, NEW list \in Seq(S)
    PROVE  Len(list) \in Nat /\ DOMAIN list = 1..Len(list)
BY SMTT(30)

LEMMA PoolFacts ==
    /\ Size \in Nat /\ Size > 0 /\ Pool \in Seq(Backends) /\ DOMAIN Pool = 1..Size
    /\ Backends = {Pool[j] : j \in 1..Size}
    /\ Pool # <<>> /\ ToSet(Pool) = Backends
    /\ \A j \in 1..Size : Pool[j] \in Backends
    /\ None \notin Backends /\ NoHealthy \notin Backends
    /\ CounterWrap \in Nat /\ CounterWrap > 0
<1>1. Pool \in Seq(Backends) /\ Pool # <<>>  BY PoolAssumption
<1>2. Size \in Nat /\ DOMAIN Pool = 1..Size  BY <1>1, Places DEF Size
<1>3. Size > 0  BY <1>1, EmptySeq, <1>2 DEF Size
<1>4. Backends = {Pool[j] : j \in 1..Size}  BY <1>2 DEF Backends, ToSet
<1>5. \A j \in 1..Size : Pool[j] \in Backends  BY <1>4
<1>6. ToSet(Pool) = Backends  BY DEF Backends
<1>7. CounterWrap \in Nat /\ CounterWrap > 0
  <2>1. CounterWrap \in Nat \ {0}  BY PoolAssumption
  <2> QED  BY <2>1
<1>8. None \notin Backends /\ NoHealthy \notin Backends  BY PoolAssumption
<1> QED  BY <1>1, <1>2, <1>3, <1>4, <1>5, <1>6, <1>7, <1>8

LEMMA Remainder ==
    ASSUME NEW n \in Nat, n > 0, NEW x \in Nat
    PROVE  x % n \in Nat /\ x % n < n /\ x % n \in 0..n - 1 /\ (x % n) + 1 \in 1..n
OBVIOUS

LEMMA Fewer ==
    ASSUME NEW n \in Nat, NEW a \in Int, NEW b \in Int, a < b
    PROVE  a * n + n <= b * n
<1>1. PICK d \in Nat : b = a + 1 + d
  <2>1. b - a - 1 \in Nat /\ b = a + 1 + (b - a - 1)  OBVIOUS
  <2> QED  BY <2>1
<1>2. (a + 1 + d) * n = a * n + n + d * n  OBVIOUS
<1>3. d * n \in Nat  OBVIOUS
<1>4. PICK p \in Int, e \in Nat : p = a * n /\ e = d * n  BY <1>3
<1>5. b * n = p + n + e  BY <1>1, <1>2, <1>4
<1> QED  BY <1>4, <1>5

\* A quotient and a remainder are determined by the number they divide.
LEMMA Unique ==
    ASSUME NEW n \in Nat, NEW a \in Int, NEW b \in Int, NEW r \in 0..n - 1, NEW t \in 0..n - 1,
           a * n + r = b * n + t
    PROVE  a = b /\ r = t
<1>1. PICK p \in Int, q \in Int : p = a * n /\ q = b * n /\ p + r = q + t  OBVIOUS
<1>2. ~(a < b)
  <2>1. a < b => p + n <= q  BY <1>1, Fewer
  <2> QED  BY <1>1, <2>1
<1>3. ~(b < a)
  <2>1. b < a => q + n <= p  BY <1>1, Fewer
  <2> QED  BY <1>1, <2>1
<1>4. a = b  BY <1>2, <1>3
<1> QED  BY <1>1, <1>4

LEMMA Divided ==
    ASSUME NEW n \in Nat, n > 0, NEW x \in Nat
    PROVE  x \div n \in Nat /\ x % n \in 0..n - 1 /\ x = (x \div n) * n + (x % n)
<1>1. x \div n \in Nat  OBVIOUS
<1>2. x % n \in 0..n - 1  OBVIOUS
<1>3. x = n * (x \div n) + (x % n)  OBVIOUS
<1>4. n * (x \div n) = (x \div n) * n  BY <1>1
<1> QED  BY <1>1, <1>2, <1>3, <1>4

\* The division of q * n + r.
LEMMA Division ==
    ASSUME NEW n \in Nat, n > 0, NEW q \in Nat, NEW r \in 0..n - 1, NEW x \in Nat,
           x = q * n + r
    PROVE  x \div n = q /\ x % n = r
BY Divided, Unique

LEMMA SmallRemainder ==
    ASSUME NEW n \in Nat, n > 0, NEW x \in 0..n - 1
    PROVE  x % n = x /\ (n + x) % n = x
<1>1. x \in Nat /\ n + x \in Nat /\ x = 0 * n + x /\ n + x = 1 * n + x  OBVIOUS
<1> QED  BY <1>1, Division

LEMMA ListFacts ==
    ASSUME NEW s \in Seq(Backends)
    PROVE  /\ Len(s) \in Nat /\ DOMAIN s = 1..Len(s) /\ ToSet(s) \subseteq Backends
           /\ \A j \in 1..Len(s) : s[j] \in Backends /\ s[j] \in ToSet(s)
           /\ (s # <<>> => Len(s) > 0)
<1>1. Len(s) \in Nat /\ DOMAIN s = 1..Len(s)  OBVIOUS
<1>2. \A j \in 1..Len(s) : s[j] \in Backends  BY ElementOfSeq
<1>3. ToSet(s) = {s[j] : j \in 1..Len(s)}  BY <1>1 DEF ToSet
<1>4. s # <<>> => Len(s) > 0  BY <1>1, EmptySeq
<1> QED  BY <1>1, <1>2, <1>3, <1>4

LEMMA AppendFacts ==
    ASSUME NEW s \in Seq(Backends), NEW b \in Backends
    PROVE  /\ Append(s, b) \in Seq(Backends) /\ Len(Append(s, b)) = Len(s) + 1
           /\ ToSet(Append(s, b)) = ToSet(s) \union {b}
           /\ Append(s, b) # <<>>
           /\ \A j \in 1..Len(s) : Append(s, b)[j] = s[j]
           /\ Append(s, b)[Len(s) + 1] = b
<1> DEFINE t == Append(s, b)
<1>1. /\ t \in Seq(Backends) /\ Len(t) = Len(s) + 1 /\ Len(s) \in Nat
      /\ \A j \in 1..Len(s) : t[j] = s[j]
      /\ t[Len(s) + 1] = b
  BY AppendProperties
<1>2. DOMAIN t = 1..Len(s) + 1 /\ DOMAIN s = 1..Len(s)  BY <1>1
<1> HIDE DEF t
<1>3. ToSet(t) = ToSet(s) \union {b}
  <2>1. 1..Len(s) + 1 = (1..Len(s)) \union {Len(s) + 1}  BY <1>1
  <2>2. ToSet(t) = {t[j] : j \in 1..Len(s) + 1} /\ ToSet(s) = {s[j] : j \in 1..Len(s)}
    BY <1>2 DEF ToSet
  <2> QED  BY <1>1, <2>1, <2>2
<1>4. t # <<>>  BY <1>1, EmptySeq
<1> QED  BY <1>1, <1>3, <1>4 DEF t

LEMMA SingleFacts ==
    ASSUME NEW b \in Backends
    PROVE  /\ <<b>> \in Seq(Backends) /\ Len(<<b>>) = 1 /\ ToSet(<<b>>) = {b} /\ <<b>> # <<>>
           /\ <<b>>[1] = b
<1>1. <<b>> \in Seq(Backends) /\ Len(<<b>>) = 1 /\ DOMAIN <<b>> = {1} /\ <<b>>[1] = b
  OBVIOUS
<1>2. ToSet(<<b>>) = {b}  BY <1>1 DEF ToSet
<1> QED  BY <1>1, <1>2

LEMMA EmptyFacts ==
    <<>> \in Seq(Backends) /\ Len(<<>>) = 0 /\ ToSet(<<>>) = {}
BY DEF ToSet

LEMMA IdleFacts ==
    /\ Idle.pc = "idle" /\ Idle.attempted = None /\ Idle.offered = <<>> /\ Idle.pos = 0
    /\ Idle.start = 0 /\ Idle.minimum = 0 /\ Idle.candidates = <<>> /\ Idle \in Call
<1>1. 0 \in 0..Len(Pool) /\ 0 \in 0..Len(Pool) - 1 /\ 0 \in 0..MaxActive
  BY PoolFacts, PoolAssumption DEF Size
<1> QED  BY <1>1, EmptyFacts DEF Idle, Call

\* The fields of a caller's local state.
LEMMA CallFacts ==
    ASSUME NEW k \in Call
    PROVE  /\ k.pc \in {"idle", "filter", "ticket", "scan", "load"}
           /\ k.attempted \in Backends \union {None}
           /\ k.offered \in Seq(Backends) /\ k.candidates \in Seq(Backends)
           /\ k.pos \in Nat /\ k.pos <= Size /\ k.start \in Nat /\ k.start < Size
           /\ k.minimum \in Nat
BY PoolFacts, PoolAssumption DEF Call, Size

LEMMA TypedParts ==
    ASSUME IInv
    PROVE  /\ call \in [Callers -> Call] /\ up \in [Callers -> SUBSET Backends]
           /\ down \in [Callers -> SUBSET Backends]
           /\ answer \in [Callers -> Backends \union {None, NoHealthy}]
           /\ alive \subseteq Backends /\ active \in [Backends -> Nat]
           /\ strategy \in {"round_robin", "least_connections"}
           /\ counter \in 0..CounterWrap - 1 /\ counter \in Nat
           /\ \A b \in Backends : active[b] \in 0..MaxActive
<1>1. 0..MaxActive \subseteq Nat /\ 0..CounterWrap - 1 \subseteq Nat  BY PoolAssumption
<1> QED  BY <1>1 DEF IInv, TypeOK, Strategies

-----------------------------------------------------------------------------
(* Steps within a choice.                                                  *)

\* A caller is as sound as before when neither its state nor what it reads changes.
LEMMA Unmoved ==
    ASSUME NEW d \in Callers, Sound(d),
           call'[d] = call[d], up'[d] = up[d], down'[d] = down[d],
           UNCHANGED <<strategy, alive>>, calm' => calm /\ active' = active
    PROVE  Sound(d)'
<1>1. Choosing(d)' <=> Choosing(d)  BY DEF Choosing
<1>2. Watched(d)'  BY <1>1 DEF Sound, Watched
<1>3. Filtering(d)'  BY DEF Sound, Filtering, Listed
<1>4. Offering(d)'  BY DEF Sound, Offering, Listed
<1>5. Scanning(d)'  BY DEF Sound, Scanning, Listed, Seat, At
<1>6. Comparing(d)'  BY <1>1 DEF Sound, Comparing, Seat, At
<1> QED  BY <1>2, <1>3, <1>4, <1>5, <1>6 DEF Sound

\* A step of a choice that neither begins nor ends it is no step of Selection.
LEMMA MoveStep ==
    ASSUME IInv, NEW c \in Callers, NEW new \in Call, Choosing(c),
           call' = [call EXCEPT ![c] = new],
           new.pc # "idle", new.attempted = call[c].attempted,
           Len(new.offered) <= Size, Len(new.candidates) <= Size,
           counter' \in 0..CounterWrap - 1,
           UNCHANGED <<strategy, alive, active, answer, history>>,
           Filtering(c)', Offering(c)', Scanning(c)', Comparing(c)'
    PROVE  IInv' /\ UNCHANGED Selecting!vars
<1> USE TypedParts
<1>1. /\ call' \in [Callers -> Call] /\ call'[c] = new
      /\ \A d \in Callers : d # c => call'[d] = call[d]
      /\ UNCHANGED <<up, down, calm, picks, calls, changes>>
  BY DEF history
<1>2. \A d \in Callers : Choosing(d)' <=> Choosing(d)  BY <1>1 DEF Choosing
<1>3. TypeOK'
  <2>1. \A d \in Callers : /\ Len(call'[d].offered) <= Len(Pool)
                           /\ Len(call'[d].candidates) <= Len(Pool)
    BY <1>1 DEF IInv, TypeOK, Size
  <2> QED  BY <1>1, <2>1 DEF IInv, TypeOK
<1>4. ASSUME NEW d \in Callers PROVE Sound(d)'
  <2>1. CASE d = c
    <3>1. Watched(c)'  BY <1>1, <1>2 DEF IInv, Sound, Watched
    <3> QED  BY <2>1, <3>1 DEF Sound
  <2>2. CASE d # c  BY <1>1, <2>2, Unmoved DEF IInv
  <2> QED  BY <2>1, <2>2
<1>5. Choosers' = Choosers /\ {d \in Callers : Choosing(d)}' = {d \in Callers : Choosing(d)}
  BY <1>2 DEF Choosers
<1>6. Counted'  BY <1>1, <1>5 DEF IInv, Counted
<1>7. [d \in Callers |-> call[d].attempted]' = [d \in Callers |-> call[d].attempted]
  BY <1>1
<1> QED  BY <1>1, <1>3, <1>4, <1>5, <1>6, <1>7 DEF IInv, Selecting!vars

LEMMA FilterStep ==
    ASSUME IInv, NEW c \in Callers, Filter(c)
    PROVE  IInv' /\ UNCHANGED Selecting!vars
<1> USE TypedParts
<1>1. PICK k \in Call : k = call[c]  OBVIOUS
<1>2. PICK b : b = Pool[k.pos + 1]  OBVIOUS
<1> DEFINE offered == IF Alternative(c, b) THEN Append(k.offered, b) ELSE k.offered
           new == [k EXCEPT !.offered = offered, !.pos = k.pos + 1]
<1>3. /\ k.pc = "filter" /\ k.pos < Len(Pool)
      /\ UNCHANGED <<strategy, alive, active, counter, answer, history>>
  BY <1>1 DEF Filter
<1>4. call' = [call EXCEPT ![c] = new]
  BY <1>1, <1>2 DEF Filter
<1>5. /\ k.offered \in Seq(Backends) /\ k.pos \in Nat /\ k.pos < Size /\ Size \in Nat
      /\ Len(k.offered) \in Nat
      /\ k.attempted # None /\ k.start = 0 /\ k.candidates = <<>>
      /\ Len(k.offered) <= k.pos
      /\ k.attempted \notin ToSet(k.offered)
      /\ \A j \in 1..k.pos : Pool[j] \in {k.attempted} \union ToSet(k.offered) \union down[c]
  BY <1>1, <1>3, CallFacts, ListFacts, PoolFacts DEF IInv, Sound, Filtering, Listed, Size
<1>6. b \in Backends
  <2>1. PICK n \in Nat : n = k.pos  BY <1>5
  <2>2. n + 1 \in 1..Size  BY <1>5, <2>1
  <2> QED  BY <1>2, <2>1, <2>2, PoolFacts
<1>7. /\ offered \in Seq(Backends) /\ Len(offered) <= k.pos + 1
      /\ k.attempted \notin ToSet(offered)
      /\ ToSet(k.offered) \subseteq ToSet(offered)
      /\ b \in {k.attempted} \union ToSet(offered) \union down[c]
  <2>1. CASE Alternative(c, b)
    <3>1. b # k.attempted  BY <1>1, <2>1 DEF Alternative
    <3>2. offered = Append(k.offered, b)  BY <2>1
    <3> HIDE DEF offered
    <3> QED  BY <1>5, <1>6, <3>1, <3>2, AppendFacts
  <2>2. CASE ~Alternative(c, b)
    <3>1. b = k.attempted \/ b \in down[c]
      BY <1>1, <1>3, <1>6, <2>2 DEF Alternative, IInv, Sound, Watched, Choosing
    <3>2. offered = k.offered  BY <2>2
    <3> HIDE DEF offered
    <3> QED  BY <1>5, <3>1, <3>2
  <2> QED  BY <2>1, <2>2
<1> HIDE DEF offered
<1>8. /\ new \in Call /\ new.pc = "filter" /\ new.attempted = k.attempted /\ new.offered = offered
      /\ new.pos = k.pos + 1 /\ new.start = 0 /\ new.candidates = <<>>
  <2>1. k.pos + 1 \in 0..Len(Pool)  BY <1>5 DEF Size
  <2> QED  BY <1>3, <1>5, <1>7, <2>1 DEF Call
<1> HIDE DEF new
<1>9. call'[c] = new /\ down' = down  BY <1>3, <1>4 DEF history
<1>10. Filtering(c)'
  <2> SUFFICES ASSUME NEW j \in 1..k.pos + 1
               PROVE  Pool[j] \in {k.attempted} \union ToSet(offered) \union down[c]
    BY <1>5, <1>7, <1>8, <1>9 DEF Filtering, Listed
  <2>1. j \in 1..k.pos \/ j = k.pos + 1
    <3>1. PICK n \in Nat : n = k.pos  BY <1>5
    <3>2. j \in 1..n + 1  BY <3>1
    <3> QED  BY <3>1, <3>2
  <2> QED  BY <1>2, <1>5, <1>7, <2>1
<1>11. Offering(c)' /\ Scanning(c)'  BY <1>8, <1>9 DEF Offering, Scanning
<1>12. Comparing(c)'  BY <1>1, <1>3 DEF IInv, Sound, Comparing, Choosing, history
<1>13. Len(new.offered) <= Size /\ Len(new.candidates) <= Size
  <2>1. Len(offered) \in Nat  BY <1>7
  <2> QED  BY <1>5, <1>7, <1>8, <2>1, EmptyFacts
<1> QED  BY <1>1, <1>3, <1>4, <1>8, <1>10, <1>11, <1>12, <1>13, MoveStep DEF Choosing

LEMMA FilteredStep ==
    ASSUME IInv, NEW c \in Callers, Filtered(c)
    PROVE  IInv' /\ UNCHANGED Selecting!vars
<1> USE TypedParts
<1>1. PICK k \in Call : k = call[c]  OBVIOUS
<1> DEFINE offered == IF k.offered = <<>> THEN Pool ELSE k.offered
           new == [k EXCEPT !.offered = offered, !.pos = 0, !.pc = "ticket"]
<1>2. /\ k.pc = "filter" /\ k.pos = Size
      /\ UNCHANGED <<strategy, alive, active, counter, answer, history>>
  BY <1>1 DEF Filtered, Size
<1>3. call' = [call EXCEPT ![c] = new]  BY <1>1 DEF Filtered
<1>4. /\ k.offered \in Seq(Backends) /\ Len(k.offered) <= Size
      /\ k.attempted # None /\ k.start = 0 /\ k.candidates = <<>>
      /\ k.attempted \notin ToSet(k.offered)
      /\ \A j \in 1..Size : Pool[j] \in {k.attempted} \union ToSet(k.offered) \union down[c]
  BY <1>1, <1>2, CallFacts DEF IInv, TypeOK, Sound, Filtering, Listed, Size
<1>5. /\ offered \in Seq(Backends) /\ Len(offered) <= Size /\ offered # <<>>
      /\ Len(offered) > 0
      /\ Backends \ ({k.attempted} \union ToSet(offered)) \subseteq down[c]
      /\ k.attempted \in ToSet(offered) => Backends \ {k.attempted} \subseteq down[c]
  <2>1. CASE k.offered = <<>>
    <3>1. offered = Pool /\ ToSet(k.offered) = {}  BY <2>1, EmptyFacts
    <3> HIDE DEF offered
    <3>2. ASSUME NEW b \in Backends, b # k.attempted PROVE b \in down[c]
      <4>1. PICK j \in 1..Size : b = Pool[j]  BY PoolFacts
      <4> QED  BY <1>4, <3>1, <3>2, <4>1
    <3>3. Len(offered) <= Size /\ Len(offered) > 0  BY <3>1, PoolFacts DEF Size
    <3> QED  BY <3>1, <3>2, <3>3, PoolFacts
  <2>2. CASE k.offered # <<>>
    <3>1. offered = k.offered  BY <2>2
    <3> HIDE DEF offered
    <3>2. ASSUME NEW b \in Backends, b # k.attempted, b \notin ToSet(k.offered)
          PROVE  b \in down[c]
      <4>1. PICK j \in 1..Size : b = Pool[j]  BY PoolFacts
      <4> QED  BY <1>4, <3>2, <4>1
    <3> QED  BY <1>4, <2>2, <3>1, <3>2, ListFacts
  <2> QED  BY <2>1, <2>2
<1> HIDE DEF offered
<1>6. /\ new \in Call /\ new.pc = "ticket" /\ new.attempted = k.attempted /\ new.offered = offered
      /\ new.pos = 0 /\ new.start = 0 /\ new.candidates = <<>>
  <2>1. 0 \in 0..Len(Pool)  BY PoolFacts DEF Size
  <2> QED  BY <1>4, <1>5, <2>1 DEF Call
<1> HIDE DEF new
<1>7. call'[c] = new /\ down' = down  BY <1>2, <1>3 DEF history
<1>8. Filtering(c)' /\ Scanning(c)'  BY <1>6, <1>7 DEF Filtering, Scanning
<1>9. Offering(c)'
  <2>1. 0 <= Len(offered)  BY <1>5, ListFacts
  <2> QED  BY <1>5, <1>6, <1>7, <2>1, EmptyFacts DEF Offering, Listed
<1>10. Comparing(c)'  BY <1>1, <1>2 DEF IInv, Sound, Comparing, Choosing, history
<1>11. Len(new.offered) <= Size /\ Len(new.candidates) <= Size
  BY <1>5, <1>6, EmptyFacts, PoolFacts
<1> QED  BY <1>1, <1>2, <1>3, <1>6, <1>8, <1>9, <1>10, <1>11, MoveStep DEF Choosing

LEMMA EnterStep ==
    ASSUME IInv, NEW c \in Callers, Enter(c)
    PROVE  IInv' /\ UNCHANGED Selecting!vars
<1> USE TypedParts
<1>1. PICK k \in Call : k = call[c]  OBVIOUS
<1>2. /\ k.pc = "ticket" /\ UNCHANGED <<strategy, alive, active, answer, history>>
  BY <1>1 DEF Enter
<1>3. /\ k.offered \in Seq(Backends) /\ k.offered # <<>> /\ Len(k.offered) <= Size
      /\ Len(k.candidates) <= Size
      /\ Backends \ ({k.attempted} \union ToSet(k.offered)) \subseteq down[c]
      /\ k.attempted \in ToSet(k.offered) => Backends \ {k.attempted} \subseteq down[c]
      /\ k.pos = 0 /\ k.start = 0 /\ Len(k.candidates) <= 0 /\ k.candidates \in Seq(Backends)
  BY <1>1, <1>2, CallFacts DEF IInv, TypeOK, Sound, Offering, Listed, Size
<1>4. k.candidates = <<>>  BY <1>3, EmptySeq, ListFacts
<1>5. Len(k.offered) \in Nat /\ Len(k.offered) > 0  BY <1>3, ListFacts
<1>6. PICK start \in Nat :
        /\ call' = [call EXCEPT ![c] = [k EXCEPT !.pc = "scan", !.start = start]]
        /\ start < Len(k.offered)
        /\ strategy = "least_connections" => start = 0
  <2>1. CASE strategy = "round_robin"
    <3>1. PICK n \in Nat : n = Len(k.offered) /\ n > 0  BY <1>5
    <3>2. Slot(n) \in Nat /\ Slot(n) < n  BY <3>1, Remainder DEF Slot
    <3>3. call' = [call EXCEPT ![c] = [k EXCEPT !.pc = "scan", !.start = Slot(n)]]
      BY <1>1, <2>1, <3>1 DEF Enter
    <3> QED  BY <2>1, <3>1, <3>2, <3>3
  <2>2. CASE strategy # "round_robin"
    <3>1. call' = [call EXCEPT ![c] = [k EXCEPT !.pc = "scan"]]  BY <1>1, <2>2 DEF Enter
    <3>2. [k EXCEPT !.pc = "scan"] = [k EXCEPT !.pc = "scan", !.start = 0]
      BY <1>3 DEF Call
    <3> QED  BY <1>5, <3>1, <3>2
  <2> QED  BY <2>1, <2>2
<1> DEFINE new == [k EXCEPT !.pc = "scan", !.start = start]
<1>7. /\ new \in Call /\ new.pc = "scan" /\ new.attempted = k.attempted
      /\ new.offered = k.offered /\ new.pos = 0 /\ new.start = start /\ new.candidates = <<>>
  <2>1. start \in 0..Len(Pool) - 1
    <3>1. start < Size  BY <1>3, <1>5, <1>6, PoolFacts
    <3> QED  BY <3>1, PoolFacts DEF Size
  <2> QED  BY <1>3, <1>4, <2>1 DEF Call
<1>8. call' = [call EXCEPT ![c] = new]  BY <1>6
<1> HIDE DEF new
<1>9. call'[c] = new /\ down' = down /\ up' = up /\ calm' = calm /\ strategy' = strategy
  BY <1>2, <1>8 DEF history
<1>10. Filtering(c)'  BY <1>7, <1>9 DEF Filtering
<1>11. Offering(c)'
  <2>1. 0 <= Len(k.offered)  BY <1>5
  <2> QED  BY <1>3, <1>6, <1>7, <1>9, <2>1, EmptyFacts DEF Offering, Listed
<1>12. \A j \in 0..0 - 1 : FALSE  OBVIOUS
<1>13. Scanning(c)'  BY <1>7, <1>9, <1>12, EmptyFacts DEF Scanning
<1>14. Comparing(c)'
  <2>1. calm => k.attempted = None /\ k.offered = Pool
    BY <1>1, <1>2 DEF IInv, Sound, Comparing, Choosing
  <2> QED  BY <1>7, <1>9, <1>12, <2>1, EmptyFacts DEF Comparing
<1>15. counter' \in 0..CounterWrap - 1
  <2>1. PICK n \in Nat : n = counter + 1  OBVIOUS
  <2>2. n % CounterWrap \in 0..CounterWrap - 1  BY PoolFacts, Remainder
  <2> QED  BY <2>1, <2>2 DEF Enter, Draw
<1>16. Len(new.offered) <= Size /\ Len(new.candidates) <= Size
  BY <1>3, <1>7, EmptyFacts, PoolFacts
<1>17. Choosing(c) /\ new.pc # "idle" /\ new.attempted = call[c].attempted
  BY <1>1, <1>2, <1>7 DEF Choosing
<1> QED  BY <1>2, <1>7, <1>8, <1>10, <1>11, <1>13, <1>14, <1>15, <1>16, <1>17, MoveStep

\* Where a scan stands: the facts of the invariant, on the caller's local state.
LEMMA ScanFacts ==
    ASSUME IInv, NEW c \in Callers, NEW k \in Call, k = call[c], k.pc \in {"scan", "load"}
    PROVE  /\ k.offered \in Seq(Backends) /\ k.candidates \in Seq(Backends)
           /\ Len(k.offered) \in Nat /\ Len(k.offered) > 0 /\ Len(k.offered) <= Size
           /\ Len(k.candidates) <= Size
           /\ k.pos \in Nat /\ k.pos <= Len(k.offered) /\ k.start \in Nat
           /\ \A j \in Nat : Seat(c, j) \in Backends /\ Seat(c, j) \in ToSet(k.offered)
           /\ At(c) = Seat(c, k.pos)
           /\ k.candidates = <<>> => \A j \in 0..k.pos - 1 : Seat(c, j) \in down[c]
           /\ ToSet(k.candidates) \subseteq up[c] \intersect ToSet(k.offered)
           /\ alive \subseteq up[c] /\ Backends \ alive \subseteq down[c]
           /\ Choosing(c)
<1>1. /\ k.offered \in Seq(Backends) /\ k.candidates \in Seq(Backends) /\ k.offered # <<>>
      /\ k.pos \in Nat /\ k.pos <= Len(k.offered) /\ k.start \in Nat
      /\ Len(k.offered) <= Size /\ Len(k.candidates) <= Size
      /\ k.candidates = <<>> => \A j \in 0..k.pos - 1 : Seat(c, j) \in down[c]
      /\ ToSet(k.candidates) \subseteq up[c] \intersect ToSet(k.offered)
  BY CallFacts DEF IInv, TypeOK, Sound, Offering, Scanning, Listed, Size
<1>2. Choosing(c) /\ alive \subseteq up[c] /\ Backends \ alive \subseteq down[c]
  BY DEF IInv, Sound, Watched, Choosing
<1>3. PICK n \in Nat : n = Len(k.offered) /\ n > 0  BY <1>1, ListFacts
<1>4. ASSUME NEW j \in Nat
      PROVE  Seat(c, j) \in Backends /\ Seat(c, j) \in ToSet(k.offered)
  <2>1. PICK m \in Nat : m = k.start + j  BY <1>1
  <2>2. (m % n) + 1 \in 1..n  BY <1>3, Remainder
  <2>3. Seat(c, j) = k.offered[(m % n) + 1]  BY <1>3, <2>1 DEF Seat
  <2> QED  BY <1>1, <1>3, <2>2, <2>3, ListFacts
<1>5. At(c) = Seat(c, k.pos)  BY DEF At, Seat
<1> QED  BY <1>1, <1>2, <1>3, <1>4, <1>5

LEMMA SkipDeadStep ==
    ASSUME IInv, NEW c \in Callers, SkipDead(c)
    PROVE  IInv' /\ UNCHANGED Selecting!vars
<1> USE TypedParts
<1>1. PICK k \in Call : k = call[c]  OBVIOUS
<1> DEFINE new == [k EXCEPT !.pos = k.pos + 1]
<1>2. /\ k.pc = "scan" /\ k.pos # Len(k.offered) /\ At(c) \notin alive
      /\ UNCHANGED <<strategy, alive, active, counter, answer, history>>
      /\ call' = [call EXCEPT ![c] = new]
  BY <1>1 DEF SkipDead, Scanned
<1>3. PICK pos \in Nat : pos = k.pos /\ pos < Len(k.offered)  BY <1>1, <1>2, ScanFacts
<1>4. /\ new \in Call /\ new.pc = "scan" /\ new.attempted = k.attempted
      /\ new.offered = k.offered /\ new.pos = pos + 1 /\ new.start = k.start
      /\ new.candidates = k.candidates /\ new.minimum = k.minimum
  <2>1. pos + 1 \in 0..Len(Pool)
    <3>1. PICK n \in Nat : n = Len(k.offered) /\ n <= Size  BY <1>1, <1>2, ScanFacts
    <3>2. pos < n  BY <1>3, <3>1
    <3>3. Size \in Nat  BY PoolFacts
    <3>4. pos + 1 <= Size  BY <3>1, <3>2, <3>3
    <3> QED  BY <3>3, <3>4 DEF Size
  <2> QED  BY <1>2, <1>3, <2>1 DEF Call
<1> HIDE DEF new
<1>5. call'[c] = new /\ UNCHANGED <<strategy, alive, active, up, down, calm>>
  BY <1>2 DEF history
<1>6. \A j \in Nat : Seat(c, j)' = Seat(c, j)  BY <1>1, <1>4, <1>5 DEF Seat
<1>7. \A j \in 0..(pos + 1) - 1 : j \in Nat /\ (j \in 0..pos - 1 \/ j = pos)  OBVIOUS
<1>8. Seat(c, pos) = At(c) /\ At(c) \in down[c]  BY <1>1, <1>2, <1>3, ScanFacts
<1>9. Filtering(c)'  BY <1>4, <1>5 DEF Filtering
<1>10. Offering(c)'
  <2>1. /\ k.offered # <<>> /\ k.start < Len(k.offered) /\ Len(k.candidates) <= pos
        /\ Backends \ ({k.attempted} \union ToSet(k.offered)) \subseteq down[c]
        /\ k.attempted \in ToSet(k.offered) => Backends \ {k.attempted} \subseteq down[c]
        /\ strategy = "least_connections" => k.start = 0
        /\ strategy = "round_robin" => k.candidates = <<>>
    BY <1>1, <1>2, <1>3 DEF IInv, Sound, Offering, Listed
  <2>2. Len(k.candidates) \in Nat /\ Len(k.offered) \in Nat  BY <1>1, <1>2, ScanFacts
  <2>3. Len(k.candidates) <= pos + 1 /\ pos + 1 <= Len(k.offered)  BY <1>3, <2>1, <2>2
  <2> QED  BY <1>4, <1>5, <2>1, <2>3 DEF Offering, Listed
<1>11. Scanning(c)'
  <2>1. k.candidates = <<>> => \A j \in 0..pos - 1 : Seat(c, j) \in down[c]
    BY <1>1, <1>2, <1>3, ScanFacts
  <2>2. k.candidates = <<>> => \A j \in 0..(pos + 1) - 1 : Seat(c, j)' \in down[c]
    BY <1>6, <1>7, <1>8, <2>1
  <2>3. ToSet(k.candidates) \subseteq up[c] \intersect ToSet(k.offered)
    BY <1>1, <1>2, ScanFacts
  <2> QED  BY <1>4, <1>5, <2>2, <2>3 DEF Scanning, Listed
<1>12. Comparing(c)'
  <2> SUFFICES ASSUME calm
               PROVE  /\ k.attempted = None /\ k.offered = Pool
                      /\ strategy = "least_connections" =>
                           /\ \A b \in ToSet(k.candidates) :
                                b \in alive /\ active[b] = k.minimum
                           /\ \A j \in 0..(pos + 1) - 1 :
                                Seat(c, j) \in alive =>
                                  k.candidates # <<>> /\ k.minimum <= active[Seat(c, j)]
    BY <1>4, <1>5, <1>6, <1>7 DEF Comparing
  <2>1. /\ k.attempted = None /\ k.offered = Pool
        /\ strategy = "least_connections" =>
             /\ \A b \in ToSet(k.candidates) : b \in alive /\ active[b] = k.minimum
             /\ \A j \in 0..pos - 1 :
                  Seat(c, j) \in alive =>
                    k.candidates # <<>> /\ k.minimum <= active[Seat(c, j)]
    BY <1>1, <1>2, <1>3 DEF IInv, Sound, Comparing, Choosing
  <2> QED  BY <1>2, <1>7, <1>8, <2>1
<1>13. /\ Len(new.offered) <= Size /\ Len(new.candidates) <= Size /\ Choosing(c)
       /\ new.pc # "idle" /\ new.attempted = call[c].attempted
  BY <1>1, <1>2, <1>4, ScanFacts
<1> QED  BY <1>2, <1>4, <1>9, <1>10, <1>11, <1>12, <1>13, MoveStep

LEMMA SeeAliveStep ==
    ASSUME IInv, NEW c \in Callers, SeeAlive(c)
    PROVE  IInv' /\ UNCHANGED Selecting!vars
<1> USE TypedParts
<1>1. PICK k \in Call : k = call[c]  OBVIOUS
<1> DEFINE new == [k EXCEPT !.pc = "load"]
<1>2. /\ k.pc = "scan" /\ k.pos # Len(k.offered) /\ At(c) \in alive
      /\ strategy = "least_connections"
      /\ UNCHANGED <<strategy, alive, active, counter, answer, history>>
      /\ call' = [call EXCEPT ![c] = new]
  BY <1>1 DEF SeeAlive, Scanned
<1>3. /\ new \in Call /\ new.pc = "load" /\ new.attempted = k.attempted
      /\ new.offered = k.offered /\ new.pos = k.pos /\ new.start = k.start
      /\ new.candidates = k.candidates /\ new.minimum = k.minimum
  BY <1>2 DEF Call
<1> HIDE DEF new
<1>4. call'[c] = new /\ UNCHANGED <<strategy, alive, active, up, down, calm>>
  BY <1>2 DEF history
<1>5. (\A j \in Nat : Seat(c, j)' = Seat(c, j)) /\ At(c)' = At(c)
  BY <1>1, <1>3, <1>4 DEF Seat, At
<1>6. \A j \in 0..k.pos - 1 : j \in Nat  BY <1>1, <1>2, ScanFacts
<1>7. At(c) \in up[c]  BY <1>1, <1>2, ScanFacts
<1>8. Filtering(c)'  BY <1>3, <1>4 DEF Filtering
<1>9. Offering(c)'
  <2>1. k.pos < Len(k.offered)  BY <1>1, <1>2, ScanFacts
  <2> QED  BY <1>1, <1>2, <1>3, <1>4, <2>1 DEF IInv, Sound, Offering, Listed
<1>10. Scanning(c)'
  <2>1. k.candidates = <<>> => \A j \in 0..k.pos - 1 : Seat(c, j)' \in down[c]
    BY <1>1, <1>2, <1>5, <1>6, ScanFacts
  <2>2. ToSet(k.candidates) \subseteq up[c] \intersect ToSet(k.offered)
    BY <1>1, <1>2, ScanFacts
  <2> QED  BY <1>3, <1>4, <1>5, <1>7, <2>1, <2>2 DEF Scanning, Listed
<1>11. Comparing(c)'
  BY <1>1, <1>2, <1>3, <1>4, <1>5, <1>6 DEF IInv, Sound, Comparing, Choosing
<1>12. /\ Len(new.offered) <= Size /\ Len(new.candidates) <= Size /\ Choosing(c)
       /\ new.pc # "idle" /\ new.attempted = call[c].attempted
  BY <1>1, <1>2, <1>3, ScanFacts
<1> QED  BY <1>2, <1>3, <1>8, <1>9, <1>10, <1>11, <1>12, MoveStep

\* What comparing the load of b does to the candidates.
LEMMA Compared ==
    ASSUME NEW c \in Callers, NEW k \in Call, k = call[c], NEW b \in Backends,
           active[b] \in 0..MaxActive, NEW now, now = Compare(c, b),
           NEW least, least = IF now = <<b>> THEN active[b] ELSE k.minimum
    PROVE  /\ now \in Seq(Backends) /\ now # <<>> /\ least \in 0..MaxActive
           /\ Len(now) <= Len(k.candidates) + 1
           /\ \/ /\ k.candidates = <<>> \/ active[b] < k.minimum
                 /\ now = <<b>> /\ ToSet(now) = {b} /\ least = active[b]
              \/ /\ k.candidates # <<>> /\ active[b] = k.minimum
                 /\ now = Append(k.candidates, b)
                 /\ ToSet(now) = ToSet(k.candidates) \union {b} /\ least = k.minimum
              \/ /\ k.candidates # <<>> /\ ~(active[b] < k.minimum) /\ active[b] # k.minimum
                 /\ now = k.candidates /\ (b \notin ToSet(now) => least = k.minimum)
<1>1. /\ k.candidates \in Seq(Backends) /\ k.minimum \in 0..MaxActive
      /\ Len(k.candidates) \in Nat
  BY CallFacts, ListFacts DEF Call
<1>2. least \in 0..MaxActive  BY <1>1
<1>3. now = IF k.candidates = <<>> \/ active[b] < k.minimum THEN <<b>>
            ELSE IF active[b] = k.minimum THEN Append(k.candidates, b)
            ELSE k.candidates
  BY DEF Compare
<1>4. CASE k.candidates = <<>> \/ active[b] < k.minimum
  <2>1. now = <<b>>  BY <1>3, <1>4
  <2>2. now \in Seq(Backends) /\ now # <<>> /\ ToSet(now) = {b} /\ Len(now) = 1
    BY <2>1, SingleFacts
  <2>3. Len(now) <= Len(k.candidates) + 1 /\ least = active[b]  BY <1>1, <2>1, <2>2
  <2> QED  BY <1>2, <1>4, <2>1, <2>2, <2>3
<1>5. CASE k.candidates # <<>> /\ ~(active[b] < k.minimum) /\ active[b] = k.minimum
  <2>1. now = Append(k.candidates, b)  BY <1>3, <1>5
  <2>2. /\ now \in Seq(Backends) /\ now # <<>> /\ Len(now) = Len(k.candidates) + 1
        /\ ToSet(now) = ToSet(k.candidates) \union {b}
    BY <1>1, <2>1, AppendFacts
  <2>3. least = k.minimum  BY <1>5
  <2>4. Len(now) <= Len(k.candidates) + 1  BY <1>1, <2>2
  <2> QED  BY <1>2, <1>5, <2>1, <2>2, <2>3, <2>4
<1>6. CASE k.candidates # <<>> /\ ~(active[b] < k.minimum) /\ active[b] # k.minimum
  <2>1. now = k.candidates  BY <1>3, <1>6
  <2>2. b \notin ToSet(now) => least = k.minimum  BY SingleFacts
  <2>3. Len(now) <= Len(k.candidates) + 1  BY <1>1, <2>1
  <2> QED  BY <1>1, <1>2, <1>6, <2>1, <2>2, <2>3
<1> QED  BY <1>4, <1>5, <1>6

LEMMA ReadLoadStep ==
    ASSUME IInv, NEW c \in Callers, ReadLoad(c)
    PROVE  IInv' /\ UNCHANGED Selecting!vars
<1> USE TypedParts
<1>1. PICK k \in Call : k = call[c]  OBVIOUS
<1>2. k.pc = "load"  BY <1>1 DEF ReadLoad
<1>3. PICK b \in Backends : b = At(c) /\ b = Seat(c, k.pos) /\ b \in ToSet(k.offered)
  BY <1>1, <1>2, ScanFacts
<1>4. PICK now : now = Compare(c, b)  OBVIOUS
<1>5. PICK least : least = IF now = <<b>> THEN active[b] ELSE k.minimum  OBVIOUS
<1> DEFINE new == [k EXCEPT !.candidates = now, !.minimum = least, !.pos = k.pos + 1,
                            !.pc = "scan"]
<1>6. /\ call' = [call EXCEPT ![c] = new]
      /\ UNCHANGED <<strategy, alive, active, counter, answer, history>>
  BY <1>1, <1>3, <1>4, <1>5 DEF ReadLoad
<1>7. /\ now \in Seq(Backends) /\ now # <<>> /\ least \in 0..MaxActive
      /\ Len(now) <= Len(k.candidates) + 1
      /\ \/ /\ k.candidates = <<>> \/ active[b] < k.minimum
            /\ now = <<b>> /\ ToSet(now) = {b} /\ least = active[b]
         \/ /\ k.candidates # <<>> /\ active[b] = k.minimum
            /\ now = Append(k.candidates, b)
            /\ ToSet(now) = ToSet(k.candidates) \union {b} /\ least = k.minimum
         \/ /\ k.candidates # <<>> /\ ~(active[b] < k.minimum) /\ active[b] # k.minimum
            /\ now = k.candidates /\ (b \notin ToSet(now) => least = k.minimum)
  BY <1>1, <1>3, <1>4, <1>5, Compared
<1>8. PICK pos \in Nat : pos = k.pos /\ pos < Len(k.offered)
  BY <1>1, <1>2, CallFacts DEF IInv, Sound, Offering
<1>9. PICK n \in Nat : n = Len(k.offered) /\ n <= Size /\ pos < n
  BY <1>1, <1>2, <1>8, ScanFacts
<1>10. Len(k.candidates) <= pos /\ Len(k.candidates) \in Nat /\ Len(now) \in Nat
  BY <1>1, <1>2, <1>7, <1>8, ScanFacts, ListFacts DEF IInv, Sound, Offering
<1>11. Len(now) <= pos + 1 /\ pos + 1 <= n /\ pos + 1 <= Size /\ Len(now) <= Size
  <2>1. Size \in Nat  BY PoolFacts
  <2> QED  BY <1>7, <1>9, <1>10, <2>1
<1>12. /\ new \in Call /\ new.pc = "scan" /\ new.attempted = k.attempted
       /\ new.offered = k.offered /\ new.pos = pos + 1 /\ new.start = k.start
       /\ new.candidates = now /\ new.minimum = least
  <2>1. pos + 1 \in 0..Len(Pool)  BY <1>11, PoolFacts DEF Size
  <2> QED  BY <1>7, <1>8, <2>1 DEF Call
<1> HIDE DEF new
<1>13. call'[c] = new /\ UNCHANGED <<strategy, alive, active, up, down, calm>>
  BY <1>6 DEF history
<1>14. \A j \in Nat : Seat(c, j)' = Seat(c, j)  BY <1>1, <1>12, <1>13 DEF Seat
<1>15. \A j \in 0..(pos + 1) - 1 : j \in Nat /\ (j \in 0..pos - 1 \/ j = pos)  OBVIOUS
<1>16. Filtering(c)'  BY <1>12, <1>13 DEF Filtering
<1>17. strategy = "least_connections"  BY <1>1, <1>2 DEF IInv, Sound, Offering
<1>18. Offering(c)'
  <2>1. /\ k.offered # <<>> /\ k.start < Len(k.offered)
        /\ Backends \ ({k.attempted} \union ToSet(k.offered)) \subseteq down[c]
        /\ k.attempted \in ToSet(k.offered) => Backends \ {k.attempted} \subseteq down[c]
        /\ strategy = "least_connections" => k.start = 0
    BY <1>1, <1>2 DEF IInv, Sound, Offering, Listed
  <2>2. pos + 1 <= Len(k.offered)  BY <1>9, <1>11
  <2>3. call'[c] = new /\ strategy' = strategy /\ down' = down  BY <1>13
  <2>4. /\ new.offered # <<>> /\ new.start < Len(new.offered)
        /\ Backends \ ({new.attempted} \union ToSet(new.offered)) \subseteq down[c]
        /\ new.attempted \in ToSet(new.offered) => Backends \ {new.attempted} \subseteq down[c]
        /\ strategy = "least_connections" => new.start = 0
    BY <1>12, <2>1
  <2>5. /\ new.pos <= Len(new.offered) /\ Len(new.candidates) <= new.pos
        /\ new.pc # "ticket" /\ new.pc # "load" /\ strategy # "round_robin"
    BY <1>11, <1>12, <1>17, <2>2
  <2> QED  BY <2>3, <2>4, <2>5 DEF Offering, Listed
<1>19. Scanning(c)'
  <2>1. ToSet(k.candidates) \subseteq up[c] \intersect ToSet(k.offered)
    BY <1>1, <1>2, ScanFacts
  <2>2. b \in up[c] \intersect ToSet(k.offered)
    BY <1>1, <1>2, <1>3 DEF IInv, Sound, Scanning
  <2>3. ToSet(now) \subseteq up[c] \intersect ToSet(k.offered)  BY <1>7, <2>1, <2>2
  <2> QED  BY <1>7, <1>12, <1>13, <2>3 DEF Scanning, Listed
<1>20. Comparing(c)'
  <2> SUFFICES ASSUME calm
               PROVE  /\ k.attempted = None /\ k.offered = Pool
                      /\ \A x \in ToSet(now) : x \in alive /\ active[x] = least
                      /\ \A j \in 0..(pos + 1) - 1 :
                           Seat(c, j) \in alive => least <= active[Seat(c, j)]
    BY <1>7, <1>12, <1>13, <1>14, <1>15 DEF Comparing
  <2>1. /\ k.attempted = None /\ k.offered = Pool /\ b \in alive
        /\ \A x \in ToSet(k.candidates) : x \in alive /\ active[x] = k.minimum
        /\ \A j \in 0..pos - 1 :
             Seat(c, j) \in alive =>
               k.candidates # <<>> /\ k.minimum <= active[Seat(c, j)]
    BY <1>1, <1>2, <1>3, <1>8, <1>17 DEF IInv, Sound, Comparing, Choosing
  <2>2. \A x \in ToSet(now) : x \in alive /\ active[x] = least
    BY <1>7, <2>1
  <2>3. active[b] \in Nat /\ k.minimum \in Nat /\ least <= active[b]
        /\ (k.candidates # <<>> => least <= k.minimum)
    <3>1. active[b] \in Nat /\ k.minimum \in Nat  BY CallFacts
    <3> QED  BY <1>7, <2>1, <3>1
  <2>4. ASSUME NEW j \in 0..(pos + 1) - 1, Seat(c, j) \in alive
        PROVE  least <= active[Seat(c, j)]
    <3>1. CASE j = pos  BY <1>3, <1>8, <2>3, <3>1
    <3>2. CASE j # pos
      <4>1. k.candidates # <<>> /\ k.minimum <= active[Seat(c, j)]
        BY <1>15, <2>1, <2>4, <3>2
      <4>2. PICK m \in Nat : m = active[Seat(c, j)]  BY <2>4
      <4>3. least \in Nat  BY <1>7, PoolAssumption
      <4> QED  BY <2>3, <4>1, <4>2, <4>3
    <3> QED  BY <3>1, <3>2
  <2> QED  BY <2>1, <2>2, <2>4
<1>21. /\ Len(new.offered) <= Size /\ Len(new.candidates) <= Size /\ Choosing(c)
       /\ new.pc # "idle" /\ new.attempted = call[c].attempted
  BY <1>1, <1>2, <1>11, <1>12, ScanFacts
<1> QED  BY <1>6, <1>12, <1>16, <1>18, <1>19, <1>20, <1>21, MoveStep

-----------------------------------------------------------------------------
(* The ends of a choice.                                                   *)

LEMMA CallersFacts ==
    ASSUME NEW S \in SUBSET Callers
    PROVE  /\ IsFiniteSet(S) /\ Cardinality(S) \in Nat
           /\ \A c \in S : /\ Cardinality(S \ {c}) + 1 = Cardinality(S)
                         /\ Cardinality(S \ {c}) \in Nat
           /\ \A c \in Callers \ S : Cardinality(S \union {c}) = Cardinality(S) + 1
<1>1. IsFiniteSet(S)  BY PoolAssumption, FS_Subset
<1>2. Cardinality(S) \in Nat  BY <1>1, FS_CardinalityType
<1>3. ASSUME NEW c \in S
      PROVE  Cardinality(S \ {c}) + 1 = Cardinality(S) /\ Cardinality(S \ {c}) \in Nat
  <2>1. IsFiniteSet(S \ {c}) /\ Cardinality(S \ {c}) = Cardinality(S) - 1
    BY <1>1, FS_RemoveElement
  <2> QED  BY <1>2, <2>1, FS_CardinalityType
<1>4. ASSUME NEW c \in Callers \ S PROVE Cardinality(S \union {c}) = Cardinality(S) + 1
  BY <1>1, FS_AddElement
<1> QED  BY <1>1, <1>2, <1>3, <1>4

LEMMA ChoosersFacts ==
    /\ IsFiniteSet(Choosers) /\ Cardinality(Choosers) \in Nat
    /\ \A c \in Choosers : /\ Cardinality(Choosers \ {c}) + 1 = Cardinality(Choosers)
                          /\ Cardinality(Choosers \ {c}) \in Nat
    /\ \A c \in Callers \ Choosers :
         Cardinality(Choosers \union {c}) = Cardinality(Choosers) + 1
<1>1. Choosers \in SUBSET Callers  BY DEF Choosers
<1> QED  BY <1>1, CallersFacts

LEMMA AnswerStep ==
    ASSUME IInv, NEW c \in Callers, NEW result \in Backends \union {NoHealthy}, Choosing(c),
           Answer(c, result), counter' \in 0..CounterWrap - 1
    PROVE  IInv' /\ Selecting!End(c, result)
<1> USE TypedParts
<1>1. /\ answer' = [answer EXCEPT ![c] = result]
      /\ call' = [call EXCEPT ![c] = Idle]
      /\ up' = [up EXCEPT ![c] = {}]
      /\ down' = [down EXCEPT ![c] = {}]
      /\ picks' = (IF calm /\ result \in Backends THEN [picks EXCEPT ![result] = @ + 1] ELSE picks)
      /\ UNCHANGED <<strategy, alive, active, calm, calls, changes>>
  BY DEF Answer
<1>2. /\ call'[c] = Idle /\ up'[c] = {} /\ down'[c] = {}
      /\ call' \in [Callers -> Call]
      /\ \A d \in Callers : d # c =>
           call'[d] = call[d] /\ up'[d] = up[d] /\ down'[d] = down[d]
  BY <1>1, IdleFacts
<1>3. \A d \in Callers : Choosing(d)' <=> (Choosing(d) /\ d # c)
  BY <1>2, IdleFacts DEF Choosing
<1>4. Choosers' = Choosers \ {c} /\ c \in Choosers  BY <1>3 DEF Choosers
<1>5. PICK m \in Nat : m = Cardinality(Choosers') /\ Cardinality(Choosers) = m + 1
  BY <1>4, ChoosersFacts
<1>6. picks \in [Backends -> 0..MaxCalls] /\ calls \in 0..MaxCalls  BY DEF IInv, TypeOK
<1>7. picks' \in [Backends -> 0..MaxCalls] /\ Counted'
  <2>1. CASE calm /\ result \in Backends
    <3>1. picks' = [picks EXCEPT ![result] = picks[result] + 1] /\ calls' = calls /\ calm'
      BY <1>1, <2>1
    <3>2. \A b \in Backends : picks[b] + (m + 1) <= calls  BY <1>5, <2>1 DEF IInv, Counted
    <3>3. picks[result] + 1 \in 0..MaxCalls
      <4>1. PICK p \in Nat : p = picks[result] /\ p + (m + 1) <= calls  BY <1>6, <2>1, <3>2
      <4>2. calls \in Nat /\ calls <= MaxCalls /\ MaxCalls \in Nat
        BY <1>6, PoolAssumption
      <4>3. p + 1 \in 0..MaxCalls  BY <4>1, <4>2
      <4> QED  BY <4>1, <4>3
    <3>4. picks' \in [Backends -> 0..MaxCalls]  BY <1>6, <3>1, <3>3
    <3>5. ASSUME NEW b \in Backends PROVE picks'[b] + m <= calls
      <4>1. picks[b] \in Nat /\ picks[b] + (m + 1) <= calls  BY <1>6, <3>2
      <4>2. picks'[b] = picks[b] \/ picks'[b] = picks[b] + 1  BY <1>6, <3>1
      <4> QED  BY <1>6, <4>1, <4>2
    <3> QED  BY <1>5, <3>1, <3>4, <3>5 DEF Counted
  <2>2. CASE ~(calm /\ result \in Backends)
    <3>1. picks' = picks /\ calls' = calls /\ calm' = calm  BY <1>1, <2>2
    <3>2. ASSUME calm, NEW b \in Backends PROVE picks[b] + m <= calls
      <4>1. picks[b] \in Nat /\ picks[b] + (m + 1) <= calls
        BY <1>5, <1>6, <3>2 DEF IInv, Counted
      <4> QED  BY <1>6, <4>1
    <3>3. Counted'  BY <1>5, <3>1, <3>2 DEF IInv, Counted, NoPicks
    <3> QED  BY <1>6, <3>1, <3>3
  <2> QED  BY <2>1, <2>2
<1>8. TypeOK'
  <2>1. \A d \in Callers : /\ Len(call'[d].offered) <= Len(Pool)
                           /\ Len(call'[d].candidates) <= Len(Pool)
    <3>1. Len(Idle.offered) <= Len(Pool) /\ Len(Idle.candidates) <= Len(Pool)
      BY IdleFacts, EmptyFacts, PoolFacts DEF Size
    <3> QED  BY <1>2, <3>1 DEF IInv, TypeOK
  <2>2. /\ answer' \in [Callers -> Backends \union {None, NoHealthy}]
        /\ up' \in [Callers -> SUBSET Backends] /\ down' \in [Callers -> SUBSET Backends]
    BY <1>1
  <2> QED  BY <1>1, <1>2, <1>7, <2>1, <2>2 DEF IInv, TypeOK
<1>9. ASSUME NEW d \in Callers PROVE Sound(d)'
  <2>1. CASE d = c
    BY <1>2, <1>3, <2>1, IdleFacts
    DEF Sound, Watched, Filtering, Offering, Scanning, Comparing, Choosing
  <2>2. CASE d # c  BY <1>1, <1>2, <2>2, Unmoved DEF IInv
  <2> QED  BY <2>1, <2>2
<1>10. Selecting!End(c, result)
  <2>1. {d \in Callers : Choosing(d)}' = {d \in Callers : Choosing(d)} \ {c}  BY <1>3
  <2>2. [d \in Callers |-> call[d].attempted]' =
          [[d \in Callers |-> call[d].attempted] EXCEPT ![c] = None]
    BY <1>2, IdleFacts
  <2> QED  BY <1>1, <2>1, <2>2 DEF Selecting!End
<1> QED  BY <1>7, <1>8, <1>9, <1>10 DEF IInv

LEMMA TakeFirstStep ==
    ASSUME IInv, NEW c \in Callers, TakeFirst(c)
    PROVE  IInv' /\ \E b \in Backends : Selecting!Pick(c, b)
<1> USE TypedParts
<1>1. PICK k \in Call : k = call[c]  OBVIOUS
<1>2. k.pc = "scan" /\ At(c) \in alive /\ Answer(c, At(c)) /\ counter' = counter
  BY <1>1 DEF TakeFirst
<1>3. PICK b \in Backends : b = At(c) /\ b \in ToSet(k.offered)
  <2>1. k.pos \in Nat  BY CallFacts
  <2>2. At(c) \in Backends /\ At(c) \in ToSet(k.offered)  BY <1>1, <1>2, <2>1, ScanFacts
  <2> QED  BY <2>2
<1>4. Choosing(c) /\ b \in up[c]  BY <1>1, <1>2, <1>3, ScanFacts
<1>5. b = k.attempted => Backends \ {b} \subseteq down[c]
  BY <1>1, <1>2, <1>3 DEF IInv, Sound, Offering, Listed
<1>6. Selecting!MayPick(c, b)  BY <1>1, <1>4, <1>5 DEF Selecting!MayPick
<1>7. IInv' /\ Selecting!End(c, b)  BY <1>2, <1>3, <1>4, AnswerStep
<1> QED  BY <1>6, <1>7 DEF Selecting!Pick

LEMMA TakeLeastStep ==
    ASSUME IInv, NEW c \in Callers, TakeLeast(c)
    PROVE  /\ IInv'
           /\ \E b \in ToSet(call[c].candidates) : Answer(c, b) /\ Selecting!Pick(c, b)
<1> USE TypedParts
<1>1. PICK k \in Call : k = call[c]  OBVIOUS
<1>2. /\ k.pc = "scan" /\ k.candidates # <<>> /\ Draw
      /\ Answer(c, k.candidates[Slot(Len(k.candidates)) + 1])
  BY <1>1 DEF TakeLeast
<1>3. k.candidates \in Seq(Backends)  BY CallFacts
<1>4. PICK n \in Nat : n = Len(k.candidates) /\ n > 0  BY <1>2, <1>3, ListFacts
<1>5. Slot(n) + 1 \in 1..n  BY <1>4, Remainder DEF Slot
<1>6. PICK b \in Backends : /\ b = k.candidates[Slot(n) + 1] /\ b \in ToSet(k.candidates)
  BY <1>3, <1>4, <1>5, ListFacts
<1>7. Choosing(c) /\ b \in up[c] /\ b \in ToSet(k.offered)  BY <1>1, <1>2, <1>6, ScanFacts
<1>8. b = k.attempted => Backends \ {b} \subseteq down[c]
  BY <1>1, <1>2, <1>7 DEF IInv, Sound, Offering, Listed
<1>9. Selecting!MayPick(c, b)  BY <1>1, <1>7, <1>8 DEF Selecting!MayPick
<1>10. counter' \in 0..CounterWrap - 1
  <2>1. PICK m \in Nat : m = counter + 1  OBVIOUS
  <2>2. m % CounterWrap \in 0..CounterWrap - 1  BY PoolFacts, Remainder
  <2> QED  BY <1>2, <2>1, <2>2 DEF Draw
<1>11. Answer(c, b)  BY <1>2, <1>4, <1>6
<1>12. IInv' /\ Selecting!End(c, b)  BY <1>7, <1>10, <1>11, AnswerStep
<1> QED  BY <1>1, <1>6, <1>9, <1>11, <1>12 DEF Selecting!Pick

\* A scan reads every place of the list it is given.
LEMMA Turns ==
    ASSUME NEW n \in Nat, n > 0, NEW s \in 0..n - 1, NEW x \in 0..n - 1
    PROVE  \E j \in 0..n - 1 : (s + j) % n = x
<1>1. CASE s <= x
  <2>1. x - s \in 0..n - 1 /\ s + (x - s) = x  BY <1>1
  <2>2. (s + (x - s)) % n = x  BY <2>1, SmallRemainder
  <2> QED  BY <2>1, <2>2
<1>2. CASE x < s
  <2>1. n + x - s \in 0..n - 1 /\ s + (n + x - s) = n + x  BY <1>2
  <2>2. (s + (n + x - s)) % n = x  BY <2>1, SmallRemainder
  <2> QED  BY <2>1, <2>2
<1> QED  BY <1>1, <1>2

LEMMA GiveUpStep ==
    ASSUME IInv, NEW c \in Callers, GiveUp(c)
    PROVE  IInv' /\ Selecting!Fail(c)
<1> USE TypedParts
<1>1. PICK k \in Call : k = call[c]  OBVIOUS
<1>2. /\ k.pc = "scan" /\ k.pos = Len(k.offered) /\ k.candidates = <<>>
      /\ Answer(c, NoHealthy) /\ counter' = counter
  BY <1>1 DEF GiveUp, Scanned
<1>3. PICK n \in Nat : n = Len(k.offered) /\ n > 0  BY <1>1, <1>2, ScanFacts
<1>4. k.offered \in Seq(Backends) /\ \A j \in 0..n - 1 : Seat(c, j) \in down[c]
  BY <1>1, <1>2, <1>3, ScanFacts
<1>5. k.start \in 0..n - 1
  <2>1. k.start \in Nat /\ k.start < n
    BY <1>1, <1>2, <1>3, CallFacts DEF IInv, Sound, Offering
  <2> QED  BY <1>3, <2>1
<1>6. ASSUME NEW b \in ToSet(k.offered) PROVE b \in down[c]
  <2>1. PICK i \in 1..n : b = k.offered[i]  BY <1>3, <1>4, ListFacts DEF ToSet
  <2>2. PICK x \in 0..n - 1 : i = x + 1
    <3>1. i - 1 \in 0..n - 1 /\ i = (i - 1) + 1  OBVIOUS
    <3> QED  BY <3>1
  <2>3. PICK j \in 0..n - 1 : (k.start + j) % n = x  BY <1>3, <1>5, Turns
  <2>4. Seat(c, j) = b  BY <1>1, <1>3, <2>1, <2>2, <2>3 DEF Seat
  <2> QED  BY <1>4, <2>4
<1>7. Backends \ {k.attempted} \subseteq down[c]
  <2>1. Backends \ ({k.attempted} \union ToSet(k.offered)) \subseteq down[c]
    BY <1>1, <1>2 DEF IInv, Sound, Offering, Listed
  <2> QED  BY <1>6, <2>1
<1>8. Selecting!MayFail(c)  BY <1>1, <1>7 DEF Selecting!MayFail
<1>9. Choosing(c)  BY <1>1, <1>2 DEF Choosing
<1>10. IInv' /\ Selecting!End(c, NoHealthy)  BY <1>2, <1>9, AnswerStep
<1> QED  BY <1>8, <1>10 DEF Selecting!Fail

-----------------------------------------------------------------------------
(* The start, the begin of a choice, and the changes around it.            *)

LEMMA InitIInv == Init => IInv /\ Selecting!Init
<1> SUFFICES ASSUME Init PROVE IInv /\ Selecting!Init  OBVIOUS
<1>1. /\ strategy \in Strategies /\ alive \in SUBSET Backends
      /\ active \in [Backends -> 0..MaxActive] /\ counter \in 0..CounterWrap - 1
      /\ call = [c \in Callers |-> Idle] /\ answer = [c \in Callers |-> None]
      /\ up = [c \in Callers |-> {}] /\ down = [c \in Callers |-> {}]
      /\ calm = TRUE /\ picks = NoPicks /\ calls = 0 /\ changes = 0
  BY DEF Init
<1>2. \A c \in Callers : call[c] = Idle /\ ~Choosing(c)  BY <1>1, IdleFacts DEF Choosing
<1>3. TypeOK
  <2>1. call \in [Callers -> Call]  BY <1>1, IdleFacts
  <2>2. \A c \in Callers : /\ Len(call[c].offered) <= Len(Pool)
                           /\ Len(call[c].candidates) <= Len(Pool)
    <3>1. Len(Idle.offered) <= Len(Pool) /\ Len(Idle.candidates) <= Len(Pool)
      BY IdleFacts, EmptyFacts, PoolFacts DEF Size
    <3> QED  BY <1>2, <3>1
  <2>3. picks \in [Backends -> 0..MaxCalls] /\ calls \in 0..MaxCalls /\ changes \in 0..MaxChanges
    BY <1>1, PoolAssumption DEF NoPicks
  <2> QED  BY <1>1, <2>1, <2>2, <2>3 DEF TypeOK
<1>4. \A c \in Callers : Sound(c)
  BY <1>1, <1>2, IdleFacts
  DEF Sound, Watched, Filtering, Offering, Scanning, Comparing, Choosing
<1>5. Counted
  <2>1. Choosers = {}  BY <1>2 DEF Choosers
  <2>2. Cardinality(Choosers) = 0  BY <2>1, FS_EmptySet
  <2> QED  BY <1>1, <2>2 DEF Counted, NoPicks
<1>6. Selecting!Init
  <2>1. {c \in Callers : Choosing(c)} = {}  BY <1>2
  <2>2. [c \in Callers |-> call[c].attempted] = [c \in Callers |-> None]  BY <1>2, IdleFacts
  <2> QED  BY <1>1, <2>1, <2>2 DEF Selecting!Init
<1> QED  BY <1>3, <1>4, <1>5, <1>6 DEF IInv

LEMMA BeginStep ==
    ASSUME IInv, NEW c \in Callers, NEW avoid \in Backends \union {None}, Begin(c, avoid)
    PROVE  IInv' /\ Selecting!Begin(c, avoid)
<1> USE TypedParts
<1> DEFINE new == IF avoid # None THEN [Idle EXCEPT !.pc = "filter", !.attempted = avoid]
                  ELSE [Idle EXCEPT !.pc = "ticket", !.offered = Pool]
<1>1. /\ ~Choosing(c) /\ (calm => calls < MaxCalls)
      /\ call' = [call EXCEPT ![c] = new]
      /\ up' = [up EXCEPT ![c] = alive]
      /\ down' = [down EXCEPT ![c] = Backends \ alive]
      /\ answer' = [answer EXCEPT ![c] = None]
      /\ UNCHANGED <<strategy, alive, active, counter, changes>>
  BY DEF Begin
<1>2. /\ new \in Call /\ new.pc # "idle" /\ new.attempted = avoid
      /\ new.pc = (IF avoid # None THEN "filter" ELSE "ticket")
      /\ new.offered = (IF avoid # None THEN <<>> ELSE Pool)
      /\ new.pos = 0 /\ new.start = 0 /\ new.candidates = <<>>
  <2>1. CASE avoid # None
    <3>1. new = [Idle EXCEPT !.pc = "filter", !.attempted = avoid]  BY <2>1
    <3> QED  BY <2>1, <3>1, IdleFacts DEF Call
  <2>2. CASE avoid = None
    <3>1. new = [Idle EXCEPT !.pc = "ticket", !.offered = Pool]  BY <2>2
    <3> QED  BY <2>2, <3>1, IdleFacts, PoolFacts DEF Call
  <2> QED  BY <2>1, <2>2
<1> HIDE DEF new
<1>3. /\ call'[c] = new /\ up'[c] = alive /\ down'[c] = Backends \ alive
      /\ call' \in [Callers -> Call]
      /\ \A d \in Callers : d # c =>
           call'[d] = call[d] /\ up'[d] = up[d] /\ down'[d] = down[d]
  BY <1>1, <1>2
<1>4. \A d \in Callers : Choosing(d)' <=> (Choosing(d) \/ d = c)  BY <1>2, <1>3 DEF Choosing
<1>5. Choosers' = Choosers \union {c} /\ c \in Callers \ Choosers  BY <1>1, <1>4 DEF Choosers
<1>6. PICK m \in Nat : m = Cardinality(Choosers) /\ Cardinality(Choosers') = m + 1
  BY <1>5, ChoosersFacts
<1>7. picks \in [Backends -> 0..MaxCalls] /\ calls \in 0..MaxCalls  BY DEF IInv, TypeOK
<1>8. /\ picks' \in [Backends -> 0..MaxCalls] /\ calls' \in 0..MaxCalls /\ calm' \in BOOLEAN
      /\ Counted' /\ (calm' => calm /\ avoid = None)
  <2>1. CASE calm /\ avoid = None
    <3>1. calls' = calls + 1 /\ calm' = calm /\ picks' = picks  BY <2>1 DEF Begin
    <3>2. calls + 1 \in 0..MaxCalls  BY <1>1, <1>7, <2>1, PoolAssumption
    <3>3. ASSUME NEW b \in Backends PROVE picks[b] + (m + 1) <= calls + 1
      <4>1. PICK p \in Nat : p = picks[b] /\ p + m <= calls
        BY <1>6, <1>7, <2>1 DEF IInv, Counted
      <4> QED  BY <1>7, <4>1
    <3> QED  BY <1>6, <1>7, <2>1, <3>1, <3>2, <3>3 DEF Counted
  <2>2. CASE ~(calm /\ avoid = None)
    <3>1. calm' = FALSE /\ picks' = NoPicks /\ calls' = 0  BY <2>2 DEF Begin, Disturb
    <3>2. NoPicks \in [Backends -> 0..MaxCalls] /\ 0 \in 0..MaxCalls
      BY PoolAssumption DEF NoPicks
    <3> QED  BY <3>1, <3>2 DEF Counted, NoPicks
  <2> QED  BY <2>1, <2>2
<1>9. TypeOK'
  <2>1. \A d \in Callers : /\ Len(call'[d].offered) <= Len(Pool)
                           /\ Len(call'[d].candidates) <= Len(Pool)
    <3>1. Len(new.offered) <= Len(Pool) /\ Len(new.candidates) <= Len(Pool)
      BY <1>2, EmptyFacts, PoolFacts DEF Size
    <3> QED  BY <1>3, <3>1 DEF IInv, TypeOK
  <2>2. /\ answer' \in [Callers -> Backends \union {None, NoHealthy}]
        /\ up' \in [Callers -> SUBSET Backends] /\ down' \in [Callers -> SUBSET Backends]
    BY <1>1
  <2> QED  BY <1>1, <1>3, <1>8, <2>1, <2>2 DEF IInv, TypeOK
<1>10. ASSUME NEW d \in Callers PROVE Sound(d)'
  <2>1. CASE d = c
    <3>1. Watched(c)'  BY <1>1, <1>3, <1>4 DEF Watched
    <3>2. Filtering(c)'
      <4>1. \A j \in 1..0 : FALSE  OBVIOUS
      <4> QED  BY <1>2, <1>3, <4>1, EmptyFacts DEF Filtering, Listed
    <3>3. Offering(c)'
      <4>1. CASE avoid # None  BY <1>2, <1>3, <4>1 DEF Offering
      <4>2. CASE avoid = None
        <5>1. new.pc = "ticket" /\ new.offered = Pool /\ new.attempted = None  BY <1>2, <4>2
        <5>2. ToSet(Pool) = Backends /\ Pool # <<>> /\ None \notin Backends
              /\ 0 < Len(Pool) /\ 0 <= Len(Pool) /\ Len(<<>>) <= 0
          BY PoolFacts, EmptyFacts DEF Size
        <5> QED  BY <1>2, <1>3, <5>1, <5>2 DEF Offering, Listed
      <4> QED  BY <4>1, <4>2
    <3>4. Scanning(c)'  BY <1>2, <1>3 DEF Scanning
    <3>5. Comparing(c)'  BY <1>2, <1>3, <1>8 DEF Comparing
    <3> QED  BY <2>1, <3>1, <3>2, <3>3, <3>4, <3>5 DEF Sound
  <2>2. CASE d # c  BY <1>1, <1>3, <1>8, <2>2, Unmoved DEF IInv
  <2> QED  BY <2>1, <2>2
<1>11. Selecting!Begin(c, avoid)
  <2>1. {d \in Callers : Choosing(d)}' = {d \in Callers : Choosing(d)} \union {c}
        /\ c \notin {d \in Callers : Choosing(d)}
    BY <1>1, <1>4
  <2>2. [d \in Callers |-> call[d].attempted]' =
          [[d \in Callers |-> call[d].attempted] EXCEPT ![c] = avoid]
    BY <1>2, <1>3
  <2> QED  BY <1>1, <2>1, <2>2 DEF Selecting!Begin
<1> QED  BY <1>8, <1>9, <1>10, <1>11 DEF IInv

LEMMA NoPicksFacts == NoPicks \in [Backends -> 0..MaxCalls] /\ 0 \in 0..MaxCalls
<1>1. 0 \in 0..MaxCalls  BY PoolAssumption
<1> QED  BY <1>1 DEF NoPicks

\* What a change of health or of load leaves of the invariant.
LEMMA DisturbStep ==
    ASSUME IInv, TypeOK', Disturb, UNCHANGED <<strategy, counter, call, answer>>,
           \A c \in Callers : Watched(c)',
           \A c \in Callers : Choosing(c) => up[c] \subseteq up'[c] /\ down[c] \subseteq down'[c]
    PROVE  IInv'
<1>1. Counted'  BY DEF Disturb, Counted, NoPicks
<1>2. ASSUME NEW c \in Callers PROVE Sound(c)'
  <2>1. CASE Choosing(c)
    <3>1. up[c] \subseteq up'[c] /\ down[c] \subseteq down'[c] /\ Sound(c)  BY <2>1 DEF IInv
    <3>2. Filtering(c)'  BY <3>1 DEF Sound, Filtering, Listed
    <3>3. Offering(c)'  BY <3>1 DEF Sound, Offering, Listed
    <3>4. Scanning(c)'  BY <3>1 DEF Sound, Scanning, Listed, Seat, At
    <3>5. Comparing(c)'  BY DEF Comparing, Disturb
    <3> QED  BY <3>2, <3>3, <3>4, <3>5 DEF Sound
  <2>2. CASE ~Choosing(c)
    BY <2>2 DEF Sound, Filtering, Offering, Scanning, Comparing, Choosing
  <2> QED  BY <2>1, <2>2
<1> QED  BY <1>1, <1>2 DEF IInv

LEMMA HealthChangeStep ==
    ASSUME IInv, NEW b \in Backends, HealthChange(b)
    PROVE  IInv' /\ \E now \in SUBSET Backends : Selecting!HealthChange(now)
<1> USE TypedParts
<1>1. PICK now \in SUBSET Backends :
        /\ changes < MaxChanges /\ changes' = changes + 1 /\ alive' = now
        /\ up' = [c \in Callers |-> IF Choosing(c) THEN up[c] \union now ELSE {}]
        /\ down' = [c \in Callers |->
                      IF Choosing(c) THEN down[c] \union (Backends \ now) ELSE {}]
        /\ Disturb
        /\ UNCHANGED <<strategy, active, counter, call, answer>>
  <2>1. (IF b \in alive THEN alive \ {b} ELSE alive \union {b}) \in SUBSET Backends  OBVIOUS
  <2> QED  BY <2>1 DEF HealthChange
<1>2. \A c \in Callers : Choosing(c)' <=> Choosing(c)  BY <1>1 DEF Choosing
<1>3. TypeOK'
  <2>1. changes' \in 0..MaxChanges  BY <1>1, PoolAssumption DEF IInv, TypeOK
  <2>2. up' \in [Callers -> SUBSET Backends] /\ down' \in [Callers -> SUBSET Backends]
    BY <1>1
  <2>3. picks' \in [Backends -> 0..MaxCalls] /\ calls' \in 0..MaxCalls /\ calm' \in BOOLEAN
    BY <1>1, NoPicksFacts DEF Disturb
  <2> QED  BY <1>1, <2>1, <2>2, <2>3 DEF IInv, TypeOK
<1>4. \A c \in Callers : Watched(c)'
  <2> SUFFICES ASSUME NEW c \in Callers PROVE Watched(c)'  OBVIOUS
  <2>1. CASE Choosing(c)  BY <1>1, <1>2, <2>1 DEF Watched
  <2>2. CASE ~Choosing(c)  BY <1>1, <1>2, <2>2 DEF Watched, IInv, Sound
  <2> QED  BY <2>1, <2>2
<1>5. \A c \in Callers : Choosing(c) => up[c] \subseteq up'[c] /\ down[c] \subseteq down'[c]
  BY <1>1
<1>6. IInv'  BY <1>1, <1>3, <1>4, <1>5, DisturbStep
<1>7. Selecting!HealthChange(now)
  <2>1. {c \in Callers : Choosing(c)}' = {c \in Callers : Choosing(c)}  BY <1>2
  <2>2. [c \in Callers |-> call[c].attempted]' = [c \in Callers |-> call[c].attempted]
    BY <1>1
  <2>3. \A c \in Callers : c \in {d \in Callers : Choosing(d)} <=> Choosing(c)  OBVIOUS
  <2> QED  BY <1>1, <2>1, <2>2, <2>3 DEF Selecting!HealthChange, Selecting!Watching
<1> QED  BY <1>6, <1>7

LEMMA LoadChangeStep ==
    ASSUME IInv, NEW b \in Backends, LoadChange(b)
    PROVE  IInv' /\ UNCHANGED Selecting!vars
<1> USE TypedParts
<1>1. /\ changes < MaxChanges /\ changes' = changes + 1 /\ Disturb
      /\ UNCHANGED <<strategy, alive, counter, call, answer, up, down>>
  BY DEF LoadChange
<1>2. PICK n \in 0..MaxActive : active' = [active EXCEPT ![b] = n]
  BY DEF LoadChange
<1>3. TypeOK'
  <2>1. changes' \in 0..MaxChanges  BY <1>1, PoolAssumption DEF IInv, TypeOK
  <2>2. active' \in [Backends -> 0..MaxActive]  BY <1>2 DEF IInv, TypeOK
  <2>3. picks' \in [Backends -> 0..MaxCalls] /\ calls' \in 0..MaxCalls /\ calm' \in BOOLEAN
    BY <1>1, NoPicksFacts DEF Disturb
  <2> QED  BY <1>1, <2>1, <2>2, <2>3 DEF IInv, TypeOK
<1>4. \A c \in Callers : Watched(c)'  BY <1>1 DEF IInv, Sound, Watched, Choosing
<1>5. \A c \in Callers : Choosing(c) => up[c] \subseteq up'[c] /\ down[c] \subseteq down'[c]
  BY <1>1
<1>6. IInv'  BY <1>1, <1>3, <1>4, <1>5, DisturbStep
<1>7. UNCHANGED Selecting!vars
  <2>1. {c \in Callers : Choosing(c)}' = {c \in Callers : Choosing(c)}  BY <1>1 DEF Choosing
  <2>2. [c \in Callers |-> call[c].attempted]' = [c \in Callers |-> call[c].attempted]
    BY <1>1
  <2> QED  BY <1>1, <2>1, <2>2 DEF Selecting!vars
<1> QED  BY <1>6, <1>7

-----------------------------------------------------------------------------
(* The theorems about single choices.                                      *)

\* A step ends a choice, or it is one that Selection takes without ending any.
LEMMA NextStep ==
    ASSUME IInv, [Next]_vars
    PROVE  /\ IInv'
           /\ [Selecting!Next]_(Selecting!vars)
           /\ \/ Choosers \subseteq Choosers'
              \/ \E c \in Callers : /\ TakeFirst(c) \/ TakeLeast(c) \/ GiveUp(c)
                                   /\ Choosers' = Choosers \ {c}
<1>1. ASSUME UNCHANGED Selecting!vars PROVE Choosers' = Choosers
  BY <1>1 DEF Selecting!vars, Choosers
<1>2. ASSUME NEW c \in Callers, NEW result, Selecting!End(c, result)
      PROVE  Choosers' = Choosers \ {c}
  BY <1>2 DEF Selecting!End, Choosers
<1>3. CASE \E c \in Callers, avoid \in Backends \union {None} : Begin(c, avoid)
  <2>1. PICK c \in Callers, avoid \in Backends \union {None} : Begin(c, avoid)  BY <1>3
  <2>2. IInv' /\ Selecting!Begin(c, avoid)  BY <2>1, BeginStep
  <2>3. Choosers \subseteq Choosers'  BY <2>2 DEF Selecting!Begin, Choosers
  <2> QED  BY <2>2, <2>3 DEF Selecting!Next
<1>4. ASSUME NEW c \in Callers, Choose(c)
      PROVE  /\ IInv'
             /\ [Selecting!Next]_(Selecting!vars)
             /\ \/ Choosers \subseteq Choosers'
                \/ /\ TakeFirst(c) \/ TakeLeast(c) \/ GiveUp(c)
                   /\ Choosers' = Choosers \ {c}
  <2>1. CASE Filter(c) \/ Filtered(c) \/ Enter(c) \/ SkipDead(c) \/ SeeAlive(c) \/ ReadLoad(c)
    <3>1. IInv' /\ UNCHANGED Selecting!vars
      BY <2>1, FilterStep, FilteredStep, EnterStep, SkipDeadStep, SeeAliveStep, ReadLoadStep
    <3> QED  BY <1>1, <3>1
  <2>2. CASE TakeFirst(c)
    <3>1. IInv' /\ \E b \in Backends : Selecting!Pick(c, b)  BY <2>2, TakeFirstStep
    <3>2. Selecting!Next  BY <3>1 DEF Selecting!Next
    <3>3. Choosers' = Choosers \ {c}  BY <1>2, <3>1 DEF Selecting!Pick
    <3> QED  BY <2>2, <3>1, <3>2, <3>3
  <2>3. CASE TakeLeast(c)
    <3>1. IInv' /\ \E b \in ToSet(call[c].candidates) : Answer(c, b) /\ Selecting!Pick(c, b)
      BY <2>3, TakeLeastStep
    <3>2. ToSet(call[c].candidates) \subseteq Backends
      BY TypedParts, CallFacts, ListFacts
    <3>3. Selecting!Next  BY <3>1, <3>2 DEF Selecting!Next
    <3>4. Choosers' = Choosers \ {c}  BY <1>2, <3>1 DEF Selecting!Pick
    <3> QED  BY <2>3, <3>1, <3>3, <3>4
  <2>4. CASE GiveUp(c)
    <3>1. IInv' /\ Selecting!Fail(c)  BY <2>4, GiveUpStep
    <3>2. Selecting!Next  BY <3>1 DEF Selecting!Next
    <3>3. Choosers' = Choosers \ {c}  BY <1>2, <3>1 DEF Selecting!Fail
    <3> QED  BY <2>4, <3>1, <3>2, <3>3
  <2> QED  BY <1>4, <2>1, <2>2, <2>3, <2>4 DEF Choose
<1>5. CASE \E b \in Backends : HealthChange(b)
  <2>1. IInv' /\ \E now \in SUBSET Backends : Selecting!HealthChange(now)
    BY <1>5, HealthChangeStep
  <2>2. Choosers' = Choosers  BY <2>1 DEF Selecting!HealthChange, Choosers
  <2> QED  BY <2>1, <2>2 DEF Selecting!Next
<1>6. CASE \E b \in Backends : LoadChange(b)
  <2>1. IInv' /\ UNCHANGED Selecting!vars  BY <1>6, LoadChangeStep
  <2> QED  BY <1>1, <2>1
<1>7. CASE UNCHANGED vars
  <2>1. UNCHANGED <<strategy, alive, active, counter, call, answer, up, down, calm, picks,
                    calls, changes>>
    BY <1>7 DEF vars, history
  <2>2. TypeOK'  BY <2>1 DEF IInv, TypeOK
  <2>3. \A c \in Callers : Sound(c)'  BY <2>1, Unmoved DEF IInv
  <2>4. Choosers' = Choosers  BY <2>1 DEF Choosers, Choosing
  <2>5. Counted'  BY <2>1, <2>4 DEF IInv, Counted
  <2>6. UNCHANGED Selecting!vars  BY <2>1 DEF Selecting!vars, Choosing
  <2> QED  BY <2>2, <2>3, <2>4, <2>5, <2>6 DEF IInv
<1> QED  BY <1>3, <1>4, <1>5, <1>6, <1>7 DEF Next

\* The inductive invariant holds in every reachable state.
THEOREM Inductive == Spec => []IInv
<1>1. Init => IInv  BY InitIInv
<1>2. IInv /\ [Next]_vars => IInv'  BY NextStep
<1> QED  BY <1>1, <1>2, PTL DEF Spec

\* Both strategies of internal/balance, and nextRetryBackend on top of them, keep the
\* promise of Selection whatever the pool, however many callers choose at once and
\* however health changes between two of their reads: a choice was alive at some
\* instant of it, a retry goes back to the attempted backend only when every other
\* one was seen down, and a failure means every backend it looked at was down.
THEOREM ChoicesKeepTheirPromise == Spec => ImplementsSelection
<1>1. Init => Selecting!Init  BY InitIInv
<1>2. IInv /\ [Next]_vars => [Selecting!Next]_(Selecting!vars)  BY NextStep
<1> QED  BY <1>1, <1>2, Inductive, PTL DEF Spec, ImplementsSelection, Selecting!Spec

\* LeastConnections.Next, whoever else chooses meanwhile: with no change of health or
\* load, the backend it returns has the least load of all those alive.
THEOREM LeastIsChosen == Spec => LeastLoaded
<1> DEFINE Least ==
      \A c \in Callers :
         calm /\ strategy = "least_connections" /\ Choosing(c) /\ ~Choosing(c)'
              /\ answer'[c] # NoHealthy
         => \A b \in alive : active[answer'[c]] <= active[b]
<1>1. IInv /\ [Next]_vars => [Least]_vars
  <2> SUFFICES ASSUME IInv, [Next]_vars, NEW c \in Callers,
                      calm, strategy = "least_connections", Choosing(c), ~Choosing(c)',
                      answer'[c] # NoHealthy
               PROVE  \A b \in alive : active[answer'[c]] <= active[b]
    OBVIOUS
  <2> USE TypedParts
  <2>1. c \in Choosers /\ c \notin Choosers'  BY DEF Choosers
  <2>2. TakeFirst(c) \/ TakeLeast(c) \/ GiveUp(c)  BY <2>1, NextStep
  <2>3. ~TakeFirst(c)  BY DEF TakeFirst
  <2>4. ~GiveUp(c)  BY DEF GiveUp, Answer
  <2>5. PICK b \in ToSet(call[c].candidates) : Answer(c, b)
    BY <2>2, <2>3, <2>4, TakeLeastStep
  <2>6. answer'[c] = b  BY <2>5 DEF Answer
  <2>7. PICK k \in Call : k = call[c]  OBVIOUS
  <2>8. /\ k.pc = "scan" /\ k.pos = Len(k.offered) /\ k.offered = Pool /\ k.start = 0
        /\ active[b] = k.minimum
        /\ \A j \in 0..k.pos - 1 : Seat(c, j) \in alive => k.minimum <= active[Seat(c, j)]
    <3>1. k.pc = "scan" /\ k.pos = Len(k.offered)
      BY <2>2, <2>3, <2>4, <2>7 DEF TakeLeast, Scanned
    <3> QED  BY <2>5, <2>7, <3>1 DEF IInv, Sound, Comparing, Offering
  <2>9. ASSUME NEW x \in alive PROVE active[b] <= active[x]
    <3>1. PICK i \in 1..Size : x = Pool[i]  BY PoolFacts
    <3>2. PICK j \in 0..Size - 1 : i = j + 1
      <4>1. Size \in Nat  BY PoolFacts
      <4>2. i - 1 \in 0..Size - 1 /\ i = (i - 1) + 1  BY <4>1
      <4> QED  BY <4>2
    <3>3. (0 + j) % Size = j
      <4>1. 0 + j = j  OBVIOUS
      <4>2. j % Size = j  BY PoolFacts, SmallRemainder
      <4> QED  BY <4>1, <4>2
    <3>4. Seat(c, j) = x  BY <2>7, <2>8, <3>1, <3>2, <3>3 DEF Seat, Size
    <3> QED  BY <2>8, <3>4 DEF Size
  <2> QED  BY <2>6, <2>9
<1> QED  BY <1>1, Inductive, PTL DEF Spec, LeastLoaded

-----------------------------------------------------------------------------
(* Counting the draws of a slot.                                           *)

LEMMA Distinct ==
    \A i, j \in 1..Size : Pool[i] = Pool[j] => i = j
<1>1. Size \in Nat /\ DOMAIN Pool = 1..Size /\ Backends = {Pool[j] : j \in 1..Size}
  BY PoolFacts
<1>2. Pool \in [1..Size -> Backends]
  <2>1. Pool \in Seq(Backends) /\ Size = Len(Pool)  BY PoolFacts DEF Size
  <2> QED  BY <2>1, LenProperties, <1>1
<1>3. Pool \in Surjection(1..Size, Backends)  BY <1>1, <1>2 DEF Surjection
<1>4. IsFiniteSet(1..Size) /\ Cardinality(1..Size) = Size
  <2>1. IsFiniteSet(1..Size) /\ Cardinality(1..Size) = IF 1 > Size THEN 0 ELSE Size - 1 + 1
    BY <1>1, FS_Interval
  <2>2. ~(1 > Size) /\ Size - 1 + 1 = Size  BY PoolFacts
  <2> QED  BY <2>1, <2>2
<1>5. Cardinality(1..Size) = Cardinality(Backends)  BY <1>4, PoolAssumption DEF Size
<1>6. Pool \in Injection(1..Size, Backends)
  BY <1>3, <1>4, <1>5, FS_SurjSameCardinalityImpliesInj
<1> QED  BY <1>1, <1>6 DEF Injection, IsInjective

\* x is q rounds of the pool and r more.
Rounds(x, q, r) == q \in Nat /\ r \in 0..Size - 1 /\ x = q * Size + r

LEMMA BelowValue ==
    ASSUME NEW x \in Nat, NEW q, NEW r, Rounds(x, q, r), NEW s \in 0..Size - 1
    PROVE  (r > s => Below(x, s) = q + 1) /\ (r <= s => Below(x, s) = q)
<1>1. PICK n \in Nat : n = Size /\ n > 0  BY PoolFacts
<1>2. q \in Nat /\ r \in 0..n - 1 /\ s \in 0..n - 1  BY <1>1 DEF Rounds
<1>3. PICK p \in Nat : p = q * n
  <2>1. q * n \in Nat  BY <1>1, <1>2
  <2> QED  BY <2>1
<1>4. x = p + r  BY <1>1, <1>3 DEF Rounds
<1>5. PICK y \in Nat : y = x + (n - 1 - s)
  <2>1. x + (n - 1 - s) \in Nat  BY <1>1, <1>2
  <2> QED  BY <2>1
<1>6. Below(x, s) = y \div n  BY <1>1, <1>5 DEF Below
<1>7. ASSUME r > s PROVE Below(x, s) = q + 1
  <2>1. PICK t \in 0..n - 1 : t = r - 1 - s
    <3>1. r - 1 - s \in 0..n - 1  BY <1>1, <1>2, <1>7
    <3> QED  BY <3>1
  <2>2. (q + 1) * n = p + n  BY <1>1, <1>2, <1>3
  <2>3. y = (q + 1) * n + t  BY <1>2, <1>4, <1>5, <2>1, <2>2
  <2>4. PICK m \in Nat : m = q + 1  BY <1>2
  <2>5. y = m * n + t  BY <2>3, <2>4
  <2>6. y \div n = m  BY <1>1, <2>5, Division
  <2> QED  BY <1>6, <2>4, <2>6
<1>8. ASSUME r <= s PROVE Below(x, s) = q
  <2>1. PICK t \in 0..n - 1 : t = r + (n - 1 - s)
    <3>1. r + (n - 1 - s) \in 0..n - 1  BY <1>1, <1>2, <1>8
    <3> QED  BY <3>1
  <2>2. y = q * n + t  BY <1>2, <1>3, <1>4, <1>5, <2>1
  <2>3. y \div n = q  BY <1>1, <1>2, <2>2, Division
  <2> QED  BY <1>6, <2>3
<1> QED  BY <1>7, <1>8

LEMMA RoundsExist ==
    ASSUME NEW x \in Nat
    PROVE  \E q, r : Rounds(x, q, r) /\ r = x % Size
<1>1. x \div Size \in Nat /\ x % Size \in 0..Size - 1
      /\ x = (x \div Size) * Size + (x % Size)
  BY PoolFacts, Divided
<1> QED  BY <1>1 DEF Rounds

\* Sums of rounds.
LEMMA RoundsAdd ==
    ASSUME NEW x \in Nat, NEW q, NEW r, Rounds(x, q, r),
           NEW y \in Nat, NEW p, NEW t, Rounds(y, p, t)
    PROVE  /\ r + t < Size => Rounds(x + y, q + p, r + t)
           /\ r + t >= Size => Rounds(x + y, q + p + 1, (r + t) - Size)
<1>1. PICK n \in Nat : n = Size /\ n > 0  BY PoolFacts
<1>2. q \in Nat /\ p \in Nat /\ r \in 0..n - 1 /\ t \in 0..n - 1  BY <1>1 DEF Rounds
<1>3. PICK a \in Nat, b \in Nat : a = q * n /\ b = p * n
  <2>1. q * n \in Nat /\ p * n \in Nat  BY <1>1, <1>2
  <2> QED  BY <2>1
<1>4. x = a + r /\ y = b + t  BY <1>1, <1>3 DEF Rounds
<1>5. (q + p) * n = a + b /\ (q + p + 1) * n = a + b + n  BY <1>1, <1>2, <1>3
<1>6. ASSUME r + t < n PROVE Rounds(x + y, q + p, r + t)
  <2>1. q + p \in Nat /\ r + t \in 0..n - 1  BY <1>1, <1>2, <1>6
  <2>2. x + y = (q + p) * n + (r + t)  BY <1>2, <1>3, <1>4, <1>5
  <2> QED  BY <1>1, <2>1, <2>2 DEF Rounds
<1>7. ASSUME r + t >= n PROVE Rounds(x + y, q + p + 1, (r + t) - n)
  <2>1. q + p + 1 \in Nat /\ (r + t) - n \in 0..n - 1  BY <1>1, <1>2, <1>7
  <2>2. x + y = (q + p + 1) * n + ((r + t) - n)  BY <1>2, <1>3, <1>4, <1>5
  <2> QED  BY <1>1, <2>1, <2>2 DEF Rounds
<1> QED  BY <1>1, <1>6, <1>7

\* Of any consecutive numbers, two slots get the same share up to one.
LEMMA Window ==
    ASSUME NEW y \in Nat, NEW size \in Nat
    PROVE  \E share \in Nat : \A s \in 0..Size - 1 :
             \/ Below(y + size, s) = Below(y, s) + share
             \/ Below(y + size, s) = Below(y, s) + share + 1
<1>1. PICK q, r : Rounds(y, q, r)  BY RoundsExist
<1>2. PICK share, rest : Rounds(size, share, rest)  BY RoundsExist
<1>3. /\ q \in Nat /\ share \in Nat /\ r \in Nat /\ rest \in Nat
      /\ r < Size /\ rest < Size /\ Size \in Nat /\ y + size \in Nat
  BY <1>1, <1>2, PoolFacts DEF Rounds
<1>4. ASSUME NEW s \in 0..Size - 1
      PROVE  \/ Below(y + size, s) = Below(y, s) + share
             \/ Below(y + size, s) = Below(y, s) + share + 1
  <2>1. s \in Nat /\ (r > s => Below(y, s) = q + 1) /\ (r <= s => Below(y, s) = q)
    BY <1>1, <1>3, BelowValue
  <2>2. CASE r + rest < Size
    <3>1. Rounds(y + size, q + share, r + rest)  BY <1>1, <1>2, <2>2, RoundsAdd
    <3>2. /\ r + rest > s => Below(y + size, s) = (q + share) + 1
          /\ r + rest <= s => Below(y + size, s) = q + share
      BY <1>3, <3>1, BelowValue
    <3> QED  BY <1>3, <2>1, <3>2
  <2>3. CASE r + rest >= Size
    <3>1. Rounds(y + size, q + share + 1, (r + rest) - Size)
      BY <1>1, <1>2, <2>3, RoundsAdd
    <3>2. /\ (r + rest) - Size > s => Below(y + size, s) = (q + share + 1) + 1
          /\ (r + rest) - Size <= s => Below(y + size, s) = q + share + 1
      BY <1>3, <3>1, BelowValue
    <3> QED  BY <1>3, <2>1, <2>3, <3>2
  <2> QED  BY <1>3, <2>2, <2>3
<1> QED  BY <1>3, <1>4

\* One more number is below, for the slot that is its remainder.
LEMMA BelowGrows ==
    ASSUME NEW x \in Nat, NEW s \in 0..Size - 1
    PROVE  /\ Below(x, s) \in Nat /\ Below(0, s) = 0
           /\ s = x % Size => Below(x + 1, s) = Below(x, s) + 1
           /\ s # x % Size => Below(x + 1, s) = Below(x, s)
<1>1. PICK q, r : Rounds(x, q, r) /\ r = x % Size  BY RoundsExist
<1>2. q \in Nat /\ r \in Nat /\ r < Size /\ Size \in Nat /\ Size > 0 /\ s \in Nat /\ s < Size
  BY <1>1, PoolFacts DEF Rounds
<1>3. (r > s => Below(x, s) = q + 1) /\ (r <= s => Below(x, s) = q)  BY <1>1, BelowValue
<1>4. Below(x, s) \in Nat  BY <1>2, <1>3
<1>5. Below(0, s) = 0
  <2>1. Rounds(0, 0, 0)
    <3>1. 0 * Size = 0 /\ 0 \in 0..Size - 1  BY <1>2
    <3> QED  BY <3>1 DEF Rounds
  <2>2. 0 <= s => Below(0, s) = 0  BY <2>1, BelowValue
  <2> QED  BY <1>2, <2>2
<1>6. CASE Size = 1
  <2>1. Rounds(1, 1, 0)
    <3>1. 1 * 1 = 1 /\ 0 \in 0..1 - 1  OBVIOUS
    <3> QED  BY <1>6, <3>1 DEF Rounds
  <2>2. Rounds(x + 1, q + 1, r + 0)  BY <1>1, <1>2, <1>6, <2>1, RoundsAdd
  <2>3. r = 0 /\ s = 0 /\ x + 1 \in Nat /\ r + 0 = r  BY <1>2, <1>6
  <2>4. r + 0 <= s => Below(x + 1, s) = q + 1  BY <2>2, <2>3, BelowValue
  <2> QED  BY <1>1, <1>2, <1>3, <1>4, <1>5, <2>3, <2>4
<1>7. CASE Size > 1
  <2>1. Rounds(1, 0, 1)
    <3>1. 0 * Size = 0 /\ 1 \in 0..Size - 1  BY <1>2, <1>7
    <3> QED  BY <3>1 DEF Rounds
  <2>2. x + 1 \in Nat  OBVIOUS
  <2>3. CASE r + 1 < Size
    <3>1. Rounds(x + 1, q + 0, r + 1)  BY <1>1, <2>1, <2>3, RoundsAdd
    <3>2. (r + 1 > s => Below(x + 1, s) = (q + 0) + 1) /\ (r + 1 <= s => Below(x + 1, s) = q + 0)
      BY <2>2, <3>1, BelowValue
    <3> QED  BY <1>1, <1>2, <1>3, <1>4, <1>5, <3>2
  <2>4. CASE r + 1 >= Size
    <3>1. Rounds(x + 1, q + 0 + 1, (r + 1) - Size)  BY <1>1, <2>1, <2>4, RoundsAdd
    <3>2. (r + 1) - Size <= s => Below(x + 1, s) = q + 0 + 1  BY <2>2, <3>1, BelowValue
    <3> QED  BY <1>1, <1>2, <1>3, <1>4, <1>5, <2>4, <3>2
  <2> QED  BY <1>2, <2>3, <2>4
<1> QED  BY <1>2, <1>6, <1>7

LEMMA OneMoreDraw ==
    ASSUME NEW first \in 0..CounterWrap - 1, NEW draws \in Nat, draws < CounterWrap,
           NEW x \in Nat, x = (first + draws) % CounterWrap, NEW s \in 0..Size - 1
    PROVE  /\ (x + 1) % CounterWrap = (first + (draws + 1)) % CounterWrap
           /\ s = x % Size => Drawn(first, draws + 1, s) = Drawn(first, draws, s) + 1
           /\ s # x % Size => Drawn(first, draws + 1, s) = Drawn(first, draws, s)
<1>1. PICK w \in Nat : w = CounterWrap /\ w > 0  BY PoolFacts
<1>2. first \in Nat /\ first < w /\ draws < w  BY <1>1
<1>3. PICK f \in Nat : f = Below(first, s)  BY <1>2, BelowGrows
<1>4. PICK g \in Nat : g = Below(w, s)  BY <1>1, BelowGrows
<1>5. PICK u \in Nat : u = Below(x, s)  BY BelowGrows
<1>6. PICK v \in Nat : /\ v = Below(x + 1, s) /\ (s = x % Size => v = u + 1)
                       /\ (s # x % Size => v = u)
  <2>1. /\ x + 1 \in Nat /\ Below(x + 1, s) \in Nat
    BY BelowGrows
  <2> QED  BY <1>5, <2>1, BelowGrows
<1>7. CASE first + draws < w
  <2>1. x = first + draws
    <3>1. first + draws \in 0..w - 1  BY <1>2, <1>7
    <3> QED  BY <1>1, <3>1, SmallRemainder
  <2>2. first + (draws + 1) = x + 1 /\ x + 1 <= w /\ x <= w  BY <1>2, <1>7, <2>1
  <2>3. Drawn(first, draws, s) = u - f  BY <1>1, <1>3, <1>5, <2>1, <2>2 DEF Drawn
  <2>4. Drawn(first, draws + 1, s) = v - f  BY <1>1, <1>3, <1>6, <2>2 DEF Drawn
  <2> QED  BY <1>6, <2>2, <2>3, <2>4
<1>8. CASE first + draws >= w
  <2>1. PICK z \in 0..w - 1 : first + draws = w + z /\ z + 1 \in 0..w - 1
    <3>1. /\ (first + draws) - w \in 0..w - 1 /\ first + draws = w + ((first + draws) - w)
          /\ ((first + draws) - w) + 1 \in 0..w - 1
      BY <1>2, <1>8
    <3> QED  BY <3>1
  <2>2. x = z  BY <1>1, <2>1, SmallRemainder
  <2>3. first + (draws + 1) = w + (z + 1)  BY <1>2, <2>1
  <2>4. (w + (z + 1)) % w = z + 1 /\ (z + 1) % w = z + 1
    <3>1. PICK m \in 0..w - 1 : m = z + 1  BY <2>1
    <3> QED  BY <1>1, <3>1, SmallRemainder
  <2>5. Drawn(first, draws, s) = (g - f) + u
    <3>1. CASE z = 0
      <4>1. u = 0  BY <1>5, <2>2, <3>1, BelowGrows
      <4>2. first + draws = w  BY <2>1, <3>1
      <4> QED  BY <1>1, <1>3, <1>4, <4>1, <4>2 DEF Drawn
    <3>2. CASE z # 0
      <4>1. ~(first + draws <= w) /\ (first + draws) - w = x  BY <1>2, <2>1, <2>2, <3>2
      <4> QED  BY <1>1, <1>3, <1>4, <1>5, <4>1 DEF Drawn
    <3> QED  BY <3>1, <3>2
  <2>6. Drawn(first, draws + 1, s) = (g - f) + v
    <3>1. ~(first + (draws + 1) <= w) /\ (first + (draws + 1)) - w = x + 1
      BY <1>2, <2>1, <2>2, <2>3
    <3> QED  BY <1>1, <1>3, <1>4, <1>6, <3>1 DEF Drawn
  <2> QED  BY <1>1, <1>6, <2>2, <2>3, <2>4, <2>5, <2>6
<1> QED  BY <1>1, <1>2, <1>7, <1>8

-----------------------------------------------------------------------------
(* The steps, while the rotation is not disturbed.                         *)

\* A caller's choice while nothing has changed and everything is even.
LEMMA EvenCaller ==
    ASSUME IInv, Rotating, Even, NEW c \in Callers, NEW k \in Call, k = call[c], k.pc # "idle"
    PROVE  /\ k.pc \in {"ticket", "scan", "load"} /\ k.offered = Pool
           /\ k.start \in 0..Size - 1 /\ k.pos \in 0..Size /\ k.candidates \in Seq(Backends)
           /\ At(c) = Pool[((k.start + k.pos) % Size) + 1]
           /\ strategy = "round_robin" => k.pos = 0
           /\ strategy = "least_connections" => k.start = 0
           /\ k.pc = "ticket" => k.pos = 0 /\ Len(k.candidates) = 0
           /\ k.pc = "load" => strategy = "least_connections" /\ k.pos < Size
           /\ strategy = "least_connections" /\ k.pc \in {"scan", "load"} =>
                /\ Len(k.candidates) = k.pos
                /\ \A j \in 1..k.pos : k.candidates[j] = Pool[j]
<1>1. Sound(c) /\ Turning(c) /\ Choosing(c) /\ calm
  BY DEF IInv, Rotating, Even, Choosing
<1>2. k.pc # "filter" /\ k.offered = Pool  BY <1>1 DEF Sound, Comparing
<1>3. k.pc \in {"ticket", "scan", "load"}  BY <1>2, CallFacts
<1>4. /\ Len(k.candidates) <= k.pos /\ (k.pc = "ticket" => k.pos = 0)
      /\ (k.pc = "load" => k.pos < Size /\ strategy = "least_connections")
      /\ (strategy = "least_connections" => k.start = 0)
  BY <1>1, <1>2, <1>3 DEF Sound, Offering, Size
<1>5. /\ k.candidates \in Seq(Backends) /\ k.pos \in Nat /\ k.pos <= Size
      /\ k.start \in Nat /\ k.start < Size /\ Size \in Nat
  BY CallFacts, PoolFacts
<1>6. k.start \in 0..Size - 1 /\ k.pos \in 0..Size  BY <1>5
<1>7. k.pc = "ticket" => Len(k.candidates) = 0  BY <1>4, <1>5, ListFacts
<1>8. At(c) = Pool[((k.start + k.pos) % Size) + 1]  BY <1>2 DEF At, Size
<1> QED  BY <1>1, <1>2, <1>3, <1>4, <1>5, <1>6, <1>7, <1>8 DEF Turning

LEMMA EvenSteps ==
    ASSUME UNCHANGED <<alive, active, calm>>
    PROVE  Even' <=> Even
BY DEF Even

LEMMA RotatingMove ==
    ASSUME Rotating, Even, NEW c \in Callers, UNCHANGED <<strategy, alive, active>>,
           \A d \in Callers : d # c => call'[d] = call[d],
           Turning(c)',
           NEW first \in 0..CounterWrap - 1, NEW draws \in Nat, draws <= calls', calls' \in Nat,
           Tally(first, draws)'
    PROVE  Rotating'
<1>1. ASSUME NEW d \in Callers PROVE Turning(d)'
  <2>1. CASE d = c  BY <2>1
  <2>2. CASE d # c
    <3>1. Turning(d)  BY DEF Rotating
    <3> QED  BY <2>2, <3>1 DEF Turning
  <2> QED  BY <2>1, <2>2
<1>2. draws \in 0..calls'  OBVIOUS
<1> QED  BY <1>1, <1>2 DEF Rotating

\* Undrawn and Holding are sets of callers.
LEMMA SetFacts ==
    /\ Undrawn \in SUBSET Callers
    /\ \A s : Holding(s) \in SUBSET Callers
BY DEF Undrawn, Holding

\* The tally of an even rotation, as numbers.
LEMMA TallyFacts ==
    ASSUME IInv, Rotating, Even
    PROVE  \E first \in 0..CounterWrap - 1, draws \in Nat :
             /\ draws <= calls /\ calls \in Nat /\ calls <= CounterWrap
             /\ Tally(first, draws) /\ Cardinality(Undrawn) \in Nat
<1>1. PICK first \in 0..CounterWrap - 1, draws \in 0..calls : Tally(first, draws)
  BY DEF Rotating
<1>2. calls \in Nat /\ calls <= CounterWrap
  <2>1. calls \in 0..MaxCalls  BY DEF IInv, TypeOK
  <2> QED  BY <2>1, PoolAssumption
<1>3. Cardinality(Undrawn) \in Nat  BY SetFacts, CallersFacts
<1> QED  BY <1>1, <1>2, <1>3

LEMMA RotatingBegin ==
    ASSUME IInv, Rotating, IInv', NEW c \in Callers, NEW avoid, Begin(c, avoid)
    PROVE  Rotating'
<1> USE TypedParts
<1>1. CASE ~Even'  BY <1>1 DEF Rotating
<1>2. CASE Even'
  <2>1. calm'  BY <1>2 DEF Even
  <2>2. avoid = None /\ calm /\ calls' = calls + 1 /\ UNCHANGED <<calm, picks>>
    BY <2>1 DEF Begin, Disturb
  <2>3. /\ ~Choosing(c) /\ UNCHANGED <<strategy, alive, active, counter>>
        /\ call' = [call EXCEPT ![c] = [Idle EXCEPT !.pc = "ticket", !.offered = Pool]]
    BY <2>2 DEF Begin
  <2> DEFINE new == [Idle EXCEPT !.pc = "ticket", !.offered = Pool]
  <2>4. new.pc = "ticket" /\ new.pos = 0  BY DEF Idle
  <2>5. call'[c] = new /\ \A d \in Callers : d # c => call'[d] = call[d]  BY <2>3
  <2> HIDE DEF new
  <2>6. Even  BY <1>2, <2>2, <2>3, EvenSteps
  <2>7. PICK first \in 0..CounterWrap - 1, draws \in Nat :
          /\ draws <= calls /\ calls \in Nat
          /\ Tally(first, draws) /\ Cardinality(Undrawn) \in Nat
    BY <2>6, TallyFacts
  <2>8. Undrawn' = Undrawn \union {c} /\ c \in Callers \ Undrawn
    BY <2>3, <2>4, <2>5 DEF Undrawn, Choosing
  <2>9. Cardinality(Undrawn') = Cardinality(Undrawn) + 1  BY <2>8, SetFacts, CallersFacts
  <2>10. ASSUME NEW s \in 0..Size - 1 PROVE Holding(s)' = Holding(s)
    BY <2>3, <2>4, <2>5 DEF Holding, Choosing
  <2>11. Tally(first, draws)'
    <3>1. draws + Cardinality(Undrawn)' = calls'  BY <2>2, <2>7, <2>9 DEF Tally
    <3>2. counter' = (first + draws) % CounterWrap  BY <2>3, <2>7 DEF Tally
    <3>3. ASSUME NEW s \in 0..Size - 1
          PROVE  picks'[Pool[s + 1]] + Cardinality(Holding(s)') = Drawn(first, draws, s)
      BY <2>2, <2>7, <2>10 DEF Tally
    <3> QED  BY <3>1, <3>2, <3>3 DEF Tally, Drawn, Below
  <2>12. Turning(c)'  BY <2>4, <2>5 DEF Turning
  <2>13. draws <= calls' /\ calls' \in Nat  BY <2>2, <2>7
  <2> QED  BY <2>3, <2>5, <2>6, <2>7, <2>11, <2>12, <2>13, RotatingMove
<1> QED  BY <1>1, <1>2

\* A step that changes neither who holds a slot nor what is counted.
LEMMA RotatingHold ==
    ASSUME IInv, Rotating, NEW c \in Callers, Even,
           UNCHANGED <<strategy, alive, active, counter, picks, calls>>,
           \A d \in Callers : d # c => call'[d] = call[d],
           strategy = "least_connections", Choosing(c), Choosing(c)',
           Turning(c)'
    PROVE  Rotating'
<1>1. PICK first \in 0..CounterWrap - 1, draws \in Nat :
        /\ draws <= calls /\ calls \in Nat /\ Tally(first, draws)
  BY TallyFacts
<1>2. Undrawn' = Undrawn
  <2>1. \A d \in Callers : d # c => (Choosing(d)' <=> Choosing(d))  BY DEF Choosing
  <2>2. Undrawn = {d \in Callers : Choosing(d)}  BY DEF Undrawn, Choosing
  <2>3. Undrawn' = {d \in Callers : Choosing(d)'}  BY DEF Undrawn, Choosing
  <2> QED  BY <2>1, <2>2, <2>3
<1>3. \A s : Holding(s)' = {} /\ Holding(s) = {}  BY DEF Holding
<1>4. Tally(first, draws)'
  <2>1. draws + Cardinality(Undrawn)' = calls'  BY <1>1, <1>2 DEF Tally
  <2>2. counter' = (first + draws) % CounterWrap  BY <1>1 DEF Tally
  <2>3. ASSUME NEW s \in 0..Size - 1
        PROVE  picks'[Pool[s + 1]] + Cardinality(Holding(s)') = Drawn(first, draws, s)
    BY <1>1, <1>3 DEF Tally
  <2> QED  BY <2>1, <2>2, <2>3 DEF Tally, Drawn, Below
<1> QED  BY <1>1, <1>4, RotatingMove

LEMMA RotatingEnter ==
    ASSUME IInv, Rotating, IInv', NEW c \in Callers, Enter(c)
    PROVE  Rotating'
<1> USE TypedParts
<1>1. CASE ~Even'  BY <1>1 DEF Rotating
<1>2. CASE Even'
  <2>1. PICK k \in Call : k = call[c]  OBVIOUS
  <2>2. k.pc = "ticket" /\ UNCHANGED <<strategy, alive, active, calm, picks, calls>>
    BY <2>1 DEF Enter, history
  <2>3. Even  BY <1>2, <2>2, EvenSteps
  <2>4. /\ k.offered = Pool /\ k.pos = 0 /\ Len(k.candidates) = 0
    BY <2>1, <2>2, <2>3, EvenCaller
  <2>5. CASE strategy = "round_robin"
    <3>1. PICK slot : slot = Slot(Size)  OBVIOUS
    <3>2. slot = counter % Size /\ slot \in 0..Size - 1
      BY <3>1, PoolFacts, Remainder DEF Slot
    <3>3. Draw /\ call' = [call EXCEPT ![c] = [k EXCEPT !.pc = "scan", !.start = slot]]
      BY <2>1, <2>4, <2>5, <3>1 DEF Enter, Size
    <3> DEFINE new == [k EXCEPT !.pc = "scan", !.start = slot]
    <3>4. new.pc = "scan" /\ new.start = slot /\ new.pos = 0  BY <2>4 DEF Call
    <3>5. call'[c] = new /\ \A d \in Callers : d # c => call'[d] = call[d]  BY <3>3
    <3> HIDE DEF new
    <3>6. PICK first \in 0..CounterWrap - 1, draws \in Nat :
            /\ draws <= calls /\ calls \in Nat /\ calls <= CounterWrap
            /\ Tally(first, draws) /\ Cardinality(Undrawn) \in Nat
      BY <2>3, TallyFacts
    <3>7. Undrawn' = Undrawn \ {c} /\ c \in Undrawn
      BY <2>1, <2>2, <2>5, <3>4, <3>5 DEF Undrawn, Choosing
    <3>8. PICK m \in Nat : m = Cardinality(Undrawn') /\ m + 1 = Cardinality(Undrawn)
      BY <3>7, SetFacts, CallersFacts
    <3>9. draws + (m + 1) = calls /\ counter = (first + draws) % CounterWrap
      BY <3>6, <3>8 DEF Tally
    <3>10. draws < CounterWrap /\ draws + 1 <= calls /\ (draws + 1) + m = calls
      BY <3>6, <3>9, PoolFacts
    <3>11. counter' = (first + (draws + 1)) % CounterWrap
      <4>1. 0 \in 0..Size - 1  BY PoolFacts
      <4> QED  BY <3>3, <3>9, <3>10, <4>1, OneMoreDraw DEF Draw
    <3>12. ASSUME NEW s \in 0..Size - 1
           PROVE  picks'[Pool[s + 1]] + Cardinality(Holding(s)') = Drawn(first, draws + 1, s)
      <4>1. PICK p : p = picks[Pool[s + 1]]  OBVIOUS
      <4>2. p \in Nat
        <5>1. Pool[s + 1] \in Backends  BY PoolFacts
        <5>2. picks \in [Backends -> 0..MaxCalls]  BY DEF IInv, TypeOK
        <5> QED  BY <4>1, <5>1, <5>2, PoolAssumption
      <4>3. Cardinality(Holding(s)) \in Nat  BY SetFacts, CallersFacts
      <4>4. p + Cardinality(Holding(s)) = Drawn(first, draws, s)  BY <3>6, <4>1 DEF Tally
      <4>5. CASE s = slot
        <5>1. Holding(s)' = Holding(s) \union {c} /\ c \in Callers \ Holding(s)
          BY <2>1, <2>2, <2>5, <3>4, <3>5, <4>5 DEF Holding
        <5>2. Cardinality(Holding(s)') = Cardinality(Holding(s)) + 1
          BY <5>1, SetFacts, CallersFacts
        <5>3. Drawn(first, draws + 1, s) = Drawn(first, draws, s) + 1
          BY <3>2, <3>9, <3>10, <4>5, OneMoreDraw
        <5> QED  BY <2>2, <4>1, <4>2, <4>3, <4>4, <5>2, <5>3
      <4>6. CASE s # slot
        <5>1. Holding(s)' = Holding(s)
          BY <2>1, <2>2, <2>5, <3>4, <3>5, <4>6 DEF Holding
        <5>2. Drawn(first, draws + 1, s) = Drawn(first, draws, s)
          BY <3>2, <3>9, <3>10, <4>6, OneMoreDraw
        <5> QED  BY <2>2, <4>1, <4>4, <5>1, <5>2
      <4> QED  BY <4>5, <4>6
    <3>13. Tally(first, draws + 1)'
      BY <2>2, <3>8, <3>10, <3>11, <3>12 DEF Tally, Drawn, Below
    <3>14. Turning(c)'  BY <2>2, <2>5, <3>4, <3>5 DEF Turning
    <3>15. PICK total \in Nat : total = draws + 1 /\ total <= calls'  BY <2>2, <3>10
    <3>16. Tally(first, total)' /\ calls' \in Nat  BY <2>2, <3>6, <3>13, <3>15
    <3> QED  BY <2>2, <2>3, <3>5, <3>14, <3>15, <3>16, RotatingMove
  <2>6. CASE strategy # "round_robin"
    <3>1. strategy = "least_connections"  BY <2>6
    <3> DEFINE new == [k EXCEPT !.pc = "scan"]
    <3>2. call' = [call EXCEPT ![c] = new] /\ counter' = counter  BY <2>1, <2>6 DEF Enter
    <3>3. new.pc = "scan" /\ new.pos = 0 /\ Len(new.candidates) = 0  BY <2>4 DEF Call
    <3>4. call'[c] = new /\ \A d \in Callers : d # c => call'[d] = call[d]  BY <3>2
    <3> HIDE DEF new
    <3>5. Turning(c)'
      <4>1. \A j \in 1..0 : FALSE  OBVIOUS
      <4> QED  BY <2>2, <2>6, <3>3, <3>4, <4>1 DEF Turning
    <3>6. Choosing(c) /\ Choosing(c)'  BY <2>1, <2>2, <3>3, <3>4 DEF Choosing
    <3> QED  BY <2>2, <2>3, <3>1, <3>2, <3>3, <3>4, <3>5, <3>6, RotatingHold
  <2> QED  BY <2>5, <2>6
<1> QED  BY <1>1, <1>2

LEMMA RotatingSeeAlive ==
    ASSUME IInv, Rotating, IInv', NEW c \in Callers, SeeAlive(c)
    PROVE  Rotating'
<1> USE TypedParts
<1>1. CASE ~Even'  BY <1>1 DEF Rotating
<1>2. CASE Even'
  <2>1. PICK k \in Call : k = call[c]  OBVIOUS
  <2> DEFINE new == [k EXCEPT !.pc = "load"]
  <2>2. /\ k.pc = "scan" /\ strategy = "least_connections"
        /\ call' = [call EXCEPT ![c] = new]
        /\ UNCHANGED <<strategy, alive, active, counter, calm, picks, calls>>
    BY <2>1 DEF SeeAlive, history
  <2>3. new.pc = "load" /\ new.pos = k.pos /\ new.candidates = k.candidates  BY DEF Call
  <2>4. call'[c] = new /\ \A d \in Callers : d # c => call'[d] = call[d]  BY <2>2
  <2> HIDE DEF new
  <2>5. Even  BY <1>2, <2>2, EvenSteps
  <2>6. Turning(c)'
    <3>1. Len(k.candidates) = k.pos /\ \A j \in 1..k.pos : k.candidates[j] = Pool[j]
      BY <2>1, <2>2, <2>5, EvenCaller
    <3> QED  BY <2>2, <2>3, <2>4, <3>1 DEF Turning
  <2>7. Choosing(c) /\ Choosing(c)'  BY <2>1, <2>2, <2>3, <2>4 DEF Choosing
  <2> QED  BY <2>2, <2>4, <2>5, <2>6, <2>7, RotatingHold
<1> QED  BY <1>1, <1>2

\* With equal loads every backend read joins the candidates, in the pool's order.
LEMMA RotatingReadLoad ==
    ASSUME IInv, Rotating, IInv', NEW c \in Callers, ReadLoad(c)
    PROVE  Rotating'
<1> USE TypedParts
<1>1. CASE ~Even'  BY <1>1 DEF Rotating
<1>2. CASE Even'
  <2>1. PICK k \in Call : k = call[c]  OBVIOUS
  <2>2. k.pc = "load" /\ UNCHANGED <<strategy, alive, active, counter, calm, picks, calls>>
    BY <2>1 DEF ReadLoad, history
  <2>3. Even  BY <1>2, <2>2, EvenSteps
  <2>4. /\ strategy = "least_connections" /\ k.start = 0 /\ k.candidates \in Seq(Backends)
        /\ Len(k.candidates) = k.pos
        /\ \A j \in 1..k.pos : k.candidates[j] = Pool[j]
        /\ At(c) = Pool[((k.start + k.pos) % Size) + 1]
    BY <2>1, <2>2, <2>3, EvenCaller
  <2>5. PICK pos \in 0..Size - 1 : pos = k.pos
    <3>1. k.pos \in 0..Size /\ k.pos < Size  BY <2>1, <2>2, <2>3, EvenCaller
    <3>2. PICK n \in Nat : n = Size  BY PoolFacts
    <3>3. PICK pos \in 0..n : pos = k.pos /\ pos < n  BY <3>1, <3>2
    <3>4. pos \in 0..n - 1  BY <3>3
    <3> QED  BY <3>2, <3>3, <3>4
  <2>6. PICK b \in Backends : b = At(c) /\ b = Pool[pos + 1]
    <3>1. 0 + pos = pos /\ pos + 1 \in 1..Size  BY PoolFacts
    <3>2. pos % Size = pos  BY PoolFacts, SmallRemainder
    <3>3. Pool[pos + 1] \in Backends
      <4>1. \A j \in 1..Size : Pool[j] \in Backends  BY PoolFacts
      <4> QED  BY <3>1, <4>1
    <3>4. At(c) = Pool[((0 + pos) % Size) + 1]  BY <2>4, <2>5
    <3>5. At(c) = Pool[pos + 1]  BY <3>1, <3>2, <3>4
    <3> QED  BY <3>3, <3>5
  <2>7. PICK now : now = Compare(c, b)  OBVIOUS
  <2>8. PICK least : least = IF now = <<b>> THEN active[b] ELSE k.minimum  OBVIOUS
  <2> DEFINE new == [k EXCEPT !.candidates = now, !.minimum = least, !.pos = pos + 1,
                              !.pc = "scan"]
  <2>9. call' = [call EXCEPT ![c] = new]
    BY <2>1, <2>5, <2>6, <2>7, <2>8 DEF ReadLoad
  <2>10. new.pc = "scan" /\ new.pos = pos + 1 /\ new.candidates = now  BY DEF Call
  <2>11. call'[c] = new /\ \A d \in Callers : d # c => call'[d] = call[d]  BY <2>9
  <2> HIDE DEF new
  <2>12. Len(now) = pos + 1 /\ \A j \in 1..pos + 1 : now[j] = Pool[j]
    <3>1. CASE pos = 0
      <4>1. k.candidates = <<>>  BY <2>4, <2>5, <3>1, EmptySeq
      <4>2. now = <<b>>  BY <2>1, <2>7, <4>1 DEF Compare
      <4>3. Len(now) = 1 /\ now[1] = b  BY <4>2, SingleFacts
      <4>4. \A j \in 1..0 + 1 : j = 1  OBVIOUS
      <4> QED  BY <2>6, <3>1, <4>3, <4>4
    <3>2. CASE pos # 0
      <4>1. k.candidates # <<>>  BY <2>4, <2>5, <3>2, EmptyFacts
      <4>2. 1 \in 1..pos  BY <3>2
      <4>3. PICK x \in Backends : x = k.candidates[1] /\ x \in ToSet(k.candidates)
        BY <2>4, <2>5, <4>2, ListFacts
      <4>4. active[x] = k.minimum
        <5>1. Sound(c) /\ Choosing(c) /\ calm
          BY <2>1, <2>2, <2>3 DEF IInv, Even, Choosing
        <5> QED  BY <2>1, <2>2, <2>4, <4>3, <5>1 DEF Sound, Comparing
      <4>5. active[b] = k.minimum  BY <2>3, <4>4 DEF Even
      <4>6. active[b] \in Nat /\ ~(active[b] < k.minimum)
        <5>1. active[b] \in Nat  OBVIOUS
        <5> QED  BY <4>5, <5>1
      <4>7. now = Append(k.candidates, b)  BY <2>1, <2>7, <4>1, <4>5, <4>6 DEF Compare
      <4>8. /\ Len(now) = pos + 1 /\ now[pos + 1] = b
            /\ \A j \in 1..pos : now[j] = k.candidates[j]
        BY <2>4, <2>5, <4>7, AppendFacts
      <4>9. \A j \in 1..pos + 1 : j \in 1..pos \/ j = pos + 1  OBVIOUS
      <4> QED  BY <2>4, <2>5, <2>6, <4>8, <4>9
    <3> QED  BY <3>1, <3>2
  <2>13. Turning(c)'
    <3>1. strategy' # "round_robin"  BY <2>2, <2>4
    <3> QED  BY <2>10, <2>11, <2>12, <3>1 DEF Turning
  <2>14. Choosing(c) /\ Choosing(c)'  BY <2>1, <2>2, <2>10, <2>11 DEF Choosing
  <2> QED  BY <2>2, <2>3, <2>4, <2>11, <2>13, <2>14, RotatingHold
<1> QED  BY <1>1, <1>2

LEMMA RotatingTakeFirst ==
    ASSUME IInv, Rotating, IInv', NEW c \in Callers, TakeFirst(c)
    PROVE  Rotating'
<1> USE TypedParts
<1>1. CASE ~Even'  BY <1>1 DEF Rotating
<1>2. CASE Even'
  <2>1. PICK k \in Call : k = call[c]  OBVIOUS
  <2>2. /\ k.pc = "scan" /\ strategy = "round_robin" /\ counter' = counter
        /\ Answer(c, At(c)) /\ UNCHANGED <<strategy, alive, active, calm, calls>>
    BY <2>1 DEF TakeFirst, Answer
  <2>3. Even  BY <1>2, <2>2, EvenSteps
  <2>4. PICK slot \in 0..Size - 1 : slot = k.start /\ At(c) = Pool[slot + 1]
    <3>1. /\ k.start \in 0..Size - 1 /\ k.pos = 0
          /\ At(c) = Pool[((k.start + k.pos) % Size) + 1]
      BY <2>1, <2>2, <2>3, EvenCaller
    <3>2. PICK slot \in 0..Size - 1 : slot = k.start  BY <3>1
    <3>3. slot + 0 = slot /\ slot % Size = slot
      <4>1. slot + 0 = slot  BY <3>2
      <4>2. slot % Size = slot  BY PoolFacts, SmallRemainder
      <4> QED  BY <4>1, <4>2
    <3> QED  BY <3>1, <3>2, <3>3
  <2>5. Pool[slot + 1] \in Backends /\ slot + 1 \in 1..Size
    <3>1. slot + 1 \in 1..Size  BY PoolFacts
    <3> QED  BY <3>1, PoolFacts
  <2>6. /\ call' = [call EXCEPT ![c] = Idle]
        /\ picks' = [picks EXCEPT ![Pool[slot + 1]] = @ + 1]
    BY <2>2, <2>3, <2>4, <2>5 DEF Answer, Even
  <2>7. call'[c] = Idle /\ \A d \in Callers : d # c => call'[d] = call[d]  BY <2>6
  <2>8. PICK first \in 0..CounterWrap - 1, draws \in Nat :
          /\ draws <= calls /\ calls \in Nat
          /\ Tally(first, draws) /\ Cardinality(Undrawn) \in Nat
    BY <2>3, TallyFacts
  <2>9. Undrawn' = Undrawn
    BY <2>1, <2>2, <2>7, IdleFacts DEF Undrawn, Choosing
  <2>10. ASSUME NEW s \in 0..Size - 1
         PROVE  picks'[Pool[s + 1]] + Cardinality(Holding(s)') = Drawn(first, draws, s)
    <3>1. s + 1 \in 1..Size /\ Pool[s + 1] \in Backends
      <4>1. s + 1 \in 1..Size  BY PoolFacts
      <4> QED  BY <4>1, PoolFacts
    <3>2. PICK p \in Nat : p = picks[Pool[s + 1]]
      <4>1. picks \in [Backends -> 0..MaxCalls]  BY DEF IInv, TypeOK
      <4> QED  BY <3>1, <4>1, PoolAssumption
    <3>3. p + Cardinality(Holding(s)) = Drawn(first, draws, s)  BY <2>8, <3>2 DEF Tally
    <3>4. picks \in [Backends -> 0..MaxCalls]  BY DEF IInv, TypeOK
    <3>5. CASE s = slot
      <4>1. picks'[Pool[s + 1]] = p + 1  BY <2>6, <3>1, <3>2, <3>4, <3>5
      <4>2. Holding(s)' = Holding(s) \ {c} /\ c \in Holding(s)
        BY <2>1, <2>2, <2>4, <2>7, <3>5, IdleFacts DEF Holding
      <4>3. PICK h \in Nat : h = Cardinality(Holding(s)') /\ h + 1 = Cardinality(Holding(s))
        BY <4>2, SetFacts, CallersFacts
      <4> QED  BY <3>3, <4>1, <4>3
    <3>6. CASE s # slot
      <4>1. Pool[s + 1] # Pool[slot + 1]
        <5>1. s + 1 # slot + 1  BY <3>6
        <5> QED  BY <2>5, <3>1, <5>1, Distinct
      <4>2. picks'[Pool[s + 1]] = p  BY <2>6, <3>1, <3>2, <3>4, <4>1
      <4>3. Holding(s)' = Holding(s)
        BY <2>1, <2>2, <2>4, <2>7, <3>6, IdleFacts DEF Holding
      <4> QED  BY <3>3, <4>2, <4>3
    <3> QED  BY <3>5, <3>6
  <2>11. Tally(first, draws)'
    <3>1. draws + Cardinality(Undrawn)' = calls'  BY <2>2, <2>8, <2>9 DEF Tally
    <3>2. counter' = (first + draws) % CounterWrap  BY <2>2, <2>8 DEF Tally
    <3> QED  BY <3>1, <3>2, <2>10 DEF Tally, Drawn, Below
  <2>12. Turning(c)'  BY <2>7, IdleFacts DEF Turning
  <2>13. draws <= calls' /\ calls' \in Nat  BY <2>2, <2>8
  <2> QED  BY <2>2, <2>3, <2>7, <2>8, <2>11, <2>12, <2>13, RotatingMove
<1> QED  BY <1>1, <1>2

\* Every backend is a candidate, so the tie counter walks the whole pool.
LEMMA RotatingTakeLeast ==
    ASSUME IInv, Rotating, IInv', NEW c \in Callers, TakeLeast(c)
    PROVE  Rotating'
<1> USE TypedParts
<1>1. CASE ~Even'  BY <1>1 DEF Rotating
<1>2. CASE Even'
  <2>1. PICK k \in Call : k = call[c]  OBVIOUS
  <2>2. /\ k.pc = "scan" /\ k.pos = Len(k.offered) /\ k.candidates # <<>> /\ Draw
        /\ Answer(c, k.candidates[Slot(Len(k.candidates)) + 1])
        /\ UNCHANGED <<strategy, alive, active, calm, calls>>
    BY <2>1 DEF TakeLeast, Scanned, Answer
  <2>3. Even  BY <1>2, <2>2, EvenSteps
  <2>4. strategy = "least_connections"
    <3>1. strategy = "round_robin" => k.candidates = <<>>
      <4>1. Sound(c)  BY DEF IInv
      <4> QED  BY <2>1, <2>2, <4>1 DEF Sound, Offering
    <3> QED  BY <2>2, <3>1
  <2>5. k.pos = Size /\ Len(k.candidates) = Size /\ \A j \in 1..Size : k.candidates[j] = Pool[j]
    BY <2>1, <2>2, <2>3, <2>4, EvenCaller DEF Size
  <2>6. PICK slot \in 0..Size - 1 : slot = Slot(Size) /\ slot = counter % Size
    BY PoolFacts, Remainder DEF Slot
  <2>7. Pool[slot + 1] \in Backends /\ slot + 1 \in 1..Size
    <3>1. slot + 1 \in 1..Size  BY PoolFacts
    <3> QED  BY <3>1, PoolFacts
  <2>8. Answer(c, Pool[slot + 1])  BY <2>2, <2>5, <2>6, <2>7
  <2>9. /\ call' = [call EXCEPT ![c] = Idle]
        /\ picks' = [picks EXCEPT ![Pool[slot + 1]] = @ + 1]
    BY <2>3, <2>7, <2>8 DEF Answer, Even
  <2>10. call'[c] = Idle /\ \A d \in Callers : d # c => call'[d] = call[d]  BY <2>9
  <2>11. PICK first \in 0..CounterWrap - 1, draws \in Nat :
           /\ draws <= calls /\ calls \in Nat /\ calls <= CounterWrap
           /\ Tally(first, draws) /\ Cardinality(Undrawn) \in Nat
    BY <2>3, TallyFacts
  <2>12. Undrawn' = Undrawn \ {c} /\ c \in Undrawn
    BY <2>1, <2>2, <2>4, <2>10, IdleFacts DEF Undrawn, Choosing
  <2>13. PICK m \in Nat : m = Cardinality(Undrawn') /\ m + 1 = Cardinality(Undrawn)
    BY <2>12, SetFacts, CallersFacts
  <2>14. draws + (m + 1) = calls /\ counter = (first + draws) % CounterWrap
    BY <2>11, <2>13 DEF Tally
  <2>15. draws < CounterWrap /\ draws + 1 <= calls /\ (draws + 1) + m = calls
    BY <2>11, <2>14, PoolFacts
  <2>16. counter' = (first + (draws + 1)) % CounterWrap
    <3>1. 0 \in 0..Size - 1  BY PoolFacts
    <3> QED  BY <2>2, <2>14, <2>15, <3>1, OneMoreDraw DEF Draw
  <2>17. \A s : Holding(s)' = {} /\ Holding(s) = {}  BY <2>2, <2>4 DEF Holding
  <2>18. ASSUME NEW s \in 0..Size - 1
         PROVE  picks'[Pool[s + 1]] + Cardinality(Holding(s)') = Drawn(first, draws + 1, s)
    <3>1. s + 1 \in 1..Size /\ Pool[s + 1] \in Backends
      <4>1. s + 1 \in 1..Size  BY PoolFacts
      <4> QED  BY <4>1, PoolFacts
    <3>2. picks \in [Backends -> 0..MaxCalls]  BY DEF IInv, TypeOK
    <3>3. PICK p \in Nat : p = picks[Pool[s + 1]]  BY <3>1, <3>2, PoolAssumption
    <3>4. Cardinality(Holding(s)) = 0 /\ Cardinality(Holding(s)') = 0
      BY <2>17, FS_EmptySet
    <3>5. p = Drawn(first, draws, s)
      <4>1. p + 0 = Drawn(first, draws, s)  BY <2>11, <3>3, <3>4 DEF Tally
      <4> QED  BY <4>1
    <3>6. CASE s = slot
      <4>1. picks'[Pool[s + 1]] = p + 1  BY <2>9, <3>1, <3>2, <3>3, <3>6
      <4>2. Drawn(first, draws + 1, s) = Drawn(first, draws, s) + 1
        BY <2>6, <2>14, <2>15, <3>6, OneMoreDraw
      <4> QED  BY <3>4, <3>5, <4>1, <4>2
    <3>7. CASE s # slot
      <4>1. Pool[s + 1] # Pool[slot + 1]
        <5>1. s + 1 # slot + 1  BY <3>7
        <5> QED  BY <2>7, <3>1, <5>1, Distinct
      <4>2. picks'[Pool[s + 1]] = p  BY <2>9, <3>1, <3>2, <3>3, <4>1
      <4>3. Drawn(first, draws + 1, s) = Drawn(first, draws, s)
        BY <2>6, <2>14, <2>15, <3>7, OneMoreDraw
      <4> QED  BY <3>4, <3>5, <4>2, <4>3
    <3> QED  BY <3>6, <3>7
  <2>19. Tally(first, draws + 1)'
    BY <2>2, <2>13, <2>15, <2>16, <2>18 DEF Tally, Drawn, Below
  <2>20. Turning(c)'  BY <2>10, IdleFacts DEF Turning
  <2>21. PICK total \in Nat : total = draws + 1 /\ total <= calls'  BY <2>2, <2>15
  <2>22. Tally(first, total)' /\ calls' \in Nat  BY <2>2, <2>11, <2>19, <2>21
  <2> QED  BY <2>2, <2>3, <2>10, <2>20, <2>21, <2>22, RotatingMove
<1> QED  BY <1>1, <1>2

\* A health or load change, or a retry, is never undisturbed, and no scan of an
\* undisturbed pool meets a backend that is down or runs out of backends.
LEMMA RotatingOther ==
    ASSUME IInv, Rotating, IInv',
           \/ \E c \in Callers : Filter(c) \/ Filtered(c) \/ SkipDead(c) \/ GiveUp(c)
           \/ \E b \in Backends : HealthChange(b) \/ LoadChange(b)
    PROVE  Rotating'
<1> USE TypedParts
<1>1. CASE \E b \in Backends : HealthChange(b) \/ LoadChange(b)
  BY <1>1 DEF HealthChange, LoadChange, Disturb, Rotating, Even
<1>2. ASSUME NEW c \in Callers, Filter(c) \/ Filtered(c) \/ SkipDead(c) \/ GiveUp(c)
      PROVE  ~Even'
  <2>1. SUFFICES ASSUME Even' PROVE FALSE  OBVIOUS
  <2>2. UNCHANGED <<alive, active, calm>>
    BY <1>2 DEF Filter, Filtered, SkipDead, GiveUp, Answer, history
  <2>3. Even  BY <2>1, <2>2, EvenSteps
  <2>4. PICK k \in Call : k = call[c]  OBVIOUS
  <2>5. k.pc # "idle"  BY <1>2, <2>4 DEF Filter, Filtered, SkipDead, GiveUp
  <2>6. CASE Filter(c) \/ Filtered(c)
    <3>1. k.pc = "filter"  BY <2>4, <2>6 DEF Filter, Filtered
    <3> QED  BY <2>3, <2>4, <2>5, <3>1, EvenCaller
  <2>7. CASE SkipDead(c)
    <3>1. k.pc = "scan" /\ At(c) \notin alive  BY <2>4, <2>7 DEF SkipDead
    <3>2. At(c) \in Backends
      <4>1. k.pos \in Nat  BY CallFacts
      <4> QED  BY <2>4, <3>1, <4>1, ScanFacts
    <3> QED  BY <2>3, <3>1, <3>2 DEF Even
  <2>8. CASE GiveUp(c)
    <3>1. k.pc = "scan" /\ k.pos = Len(k.offered) /\ k.candidates = <<>>
      BY <2>4, <2>8 DEF GiveUp, Scanned
    <3>2. k.pos = Size  BY <2>3, <2>4, <3>1, EvenCaller DEF Size
    <3>3. Len(k.candidates) = 0  BY <3>1, EmptyFacts
    <3>4. k.pos = 0  BY <2>3, <2>4, <2>5, <3>1, <3>3, EvenCaller
    <3> QED  BY <3>2, <3>4, PoolFacts
  <2> QED  BY <1>2, <2>6, <2>7, <2>8
<1> QED  BY <1>1, <1>2 DEF Rotating

LEMMA RotatingStep ==
    ASSUME IInv, IInv', Rotating, [Next]_vars
    PROVE  Rotating'
<1>1. ASSUME NEW c \in Callers, NEW avoid \in Backends \union {None}, Begin(c, avoid)
      PROVE  Rotating'
  BY <1>1, RotatingBegin
<1>2. ASSUME NEW c \in Callers, Choose(c) PROVE Rotating'
  <2>1. CASE Enter(c)  BY <2>1, RotatingEnter
  <2>2. CASE TakeFirst(c)  BY <2>2, RotatingTakeFirst
  <2>3. CASE SeeAlive(c)  BY <2>3, RotatingSeeAlive
  <2>4. CASE ReadLoad(c)  BY <2>4, RotatingReadLoad
  <2>5. CASE TakeLeast(c)  BY <2>5, RotatingTakeLeast
  <2>6. CASE Filter(c) \/ Filtered(c) \/ SkipDead(c) \/ GiveUp(c)  BY <2>6, RotatingOther
  <2> QED  BY <1>2, <2>1, <2>2, <2>3, <2>4, <2>5, <2>6 DEF Choose
<1>3. CASE \E b \in Backends : HealthChange(b) \/ LoadChange(b)  BY <1>3, RotatingOther
<1>4. CASE UNCHANGED vars
  <2>1. /\ UNCHANGED <<strategy, alive, active, counter, calm, picks, calls>>
        /\ call' = call
    BY <1>4 DEF vars, history
  <2>2. Even' <=> Even  BY <2>1, EvenSteps
  <2>3. \A c \in Callers : Turning(c)' <=> Turning(c)  BY <2>1 DEF Turning
  <2>4. Undrawn' = Undrawn /\ \A s : Holding(s)' = Holding(s)
    BY <2>1 DEF Undrawn, Holding, Choosing
  <2>5. \A first, draws : Tally(first, draws)' <=> Tally(first, draws)
    BY <2>1, <2>4 DEF Tally, Drawn, Below
  <2> QED  BY <2>1, <2>2, <2>3, <2>5 DEF Rotating
<1> QED  BY <1>1, <1>2, <1>3, <1>4 DEF Next

LEMMA InitRotating ==
    ASSUME Init
    PROVE  Rotating
<1>1. /\ counter \in 0..CounterWrap - 1 /\ calls = 0 /\ picks = NoPicks
      /\ \A c \in Callers : call[c] = Idle
  BY DEF Init
<1>2. PICK first \in 0..CounterWrap - 1 : first = counter  BY <1>1
<1>3. first + 0 = first /\ first % CounterWrap = first /\ first \in Nat /\ first <= CounterWrap
  <2>1. first \in Nat /\ first + 0 = first /\ first <= CounterWrap  BY PoolFacts
  <2>2. first % CounterWrap = first  BY PoolFacts, SmallRemainder
  <2> QED  BY <2>1, <2>2
<1>4. Undrawn = {} /\ \A s : Holding(s) = {}
  BY <1>1, IdleFacts DEF Undrawn, Holding, Choosing
<1>5. ASSUME NEW s \in 0..Size - 1
      PROVE  picks[Pool[s + 1]] + Cardinality(Holding(s)) = Drawn(first, 0, s)
  <2>1. s + 1 \in 1..Size  BY PoolFacts
  <2>2. picks[Pool[s + 1]] = 0  BY <1>1, <2>1, PoolFacts DEF NoPicks
  <2>3. PICK f \in Nat : f = Below(first, s)  BY <1>3, BelowGrows
  <2>4. Drawn(first, 0, s) = f - f  BY <1>3, <2>3 DEF Drawn
  <2>5. Cardinality(Holding(s)) = 0  BY <1>4, FS_EmptySet
  <2> QED  BY <2>2, <2>3, <2>4, <2>5
<1>6. Tally(first, 0)
  <2>1. Cardinality(Undrawn) = 0  BY <1>4, FS_EmptySet
  <2> QED  BY <1>1, <1>2, <1>3, <1>5, <2>1 DEF Tally
<1>7. \A c \in Callers : Turning(c)  BY <1>1, IdleFacts DEF Turning
<1>8. 0 \in 0..calls  BY <1>1
<1> QED  BY <1>6, <1>7, <1>8 DEF Rotating

\* Once every choice counted is over, the slots drawn are the backends chosen.
LEMMA EvenSpread ==
    ASSUME IInv, Rotating
    PROVE  RotatesEvenly
<1>1. SUFFICES ASSUME Even, \A c \in Callers : ~Choosing(c), NEW a \in Backends, NEW b \in Backends
               PROVE  picks[a] <= picks[b] + (IF Wrapped THEN 2 ELSE 1)
  BY DEF RotatesEvenly, Even, IInv
<1>2. PICK first \in 0..CounterWrap - 1, draws \in Nat :
        /\ draws <= calls /\ calls \in Nat /\ calls <= CounterWrap /\ Tally(first, draws)
  BY <1>1, TallyFacts
<1>3. Undrawn = {} /\ \A s : Holding(s) = {}  BY <1>1 DEF Undrawn, Holding, Choosing
<1>4. draws = calls
  <2>1. Cardinality(Undrawn) = 0  BY <1>3, FS_EmptySet
  <2> QED  BY <1>2, <2>1 DEF Tally
<1>5. \A x \in Backends : \E s \in 0..Size - 1 :
        picks[x] = Drawn(first, draws, s)
  <2>1. SUFFICES ASSUME NEW x \in Backends
                 PROVE  \E s \in 0..Size - 1 : picks[x] = Drawn(first, draws, s)
    OBVIOUS
  <2>2. PICK i \in 1..Size : x = Pool[i]  BY PoolFacts
  <2>3. PICK s \in 0..Size - 1 : i = s + 1
    <3>1. i - 1 \in 0..Size - 1 /\ i = (i - 1) + 1  BY PoolFacts
    <3> QED  BY <3>1
  <2>4. Cardinality(Holding(s)) = 0  BY <1>3, FS_EmptySet
  <2>5. picks[x] \in Nat
    <3>1. picks \in [Backends -> 0..MaxCalls]  BY DEF IInv, TypeOK
    <3> QED  BY <3>1, PoolAssumption
  <2>6. picks[x] + 0 = Drawn(first, draws, s)  BY <1>2, <2>2, <2>3, <2>4 DEF Tally
  <2> QED  BY <2>5, <2>6
<1>6. PICK s \in 0..Size - 1 : picks[a] = Drawn(first, draws, s)  BY <1>5
<1>7. PICK t \in 0..Size - 1 : picks[b] = Drawn(first, draws, t)  BY <1>5
<1>8. PICK w \in Nat : w = CounterWrap /\ w > 0  BY PoolFacts
<1>9. first \in Nat /\ first < w /\ counter = (first + draws) % w  BY <1>2, <1>8 DEF Tally
<1>10. CASE first + draws <= w
  <2>1. PICK share \in Nat : \A x \in 0..Size - 1 :
          \/ Below(first + draws, x) = Below(first, x) + share
          \/ Below(first + draws, x) = Below(first, x) + share + 1
    BY <1>9, Window
  <2>2. PICK f \in Nat, g \in Nat : f = Below(first, s) /\ g = Below(first, t)
    BY <1>9, BelowGrows
  <2>3. /\ picks[a] = Below(first + draws, s) - f
        /\ picks[b] = Below(first + draws, t) - g
    BY <1>6, <1>7, <1>8, <1>10, <2>2 DEF Drawn
  <2>4. picks[a] \in {share, share + 1} /\ picks[b] \in {share, share + 1}
    BY <2>1, <2>2, <2>3
  <2> QED  BY <2>4
<1>11. CASE first + draws > w
  <2>1. PICK z \in Nat : first + draws = w + z /\ z < w /\ z < calls
    <3>1. /\ (first + draws) - w \in Nat /\ first + draws = w + ((first + draws) - w)
          /\ (first + draws) - w < w /\ (first + draws) - w < calls
      BY <1>2, <1>4, <1>8, <1>9, <1>11
    <3> QED  BY <3>1
  <2>2. Wrapped
    <3>1. z \in 0..w - 1  BY <2>1
    <3>2. counter = z  BY <1>8, <1>9, <2>1, <3>1, SmallRemainder
    <3> QED  BY <2>1, <3>2 DEF Wrapped
  <2>3. PICK rest \in Nat : w = first + rest
    <3>1. w - first \in Nat /\ w = first + (w - first)  BY <1>9
    <3> QED  BY <3>1
  <2>4. PICK share \in Nat : \A x \in 0..Size - 1 :
          \/ Below(w, x) = Below(first, x) + share
          \/ Below(w, x) = Below(first, x) + share + 1
    <3>1. \E share \in Nat : \A x \in 0..Size - 1 :
            \/ Below(first + rest, x) = Below(first, x) + share
            \/ Below(first + rest, x) = Below(first, x) + share + 1
      BY <1>9, Window
    <3> QED  BY <2>3, <3>1
  <2>5. PICK more \in Nat : \A x \in 0..Size - 1 :
          \/ Below(0 + z, x) = Below(0, x) + more
          \/ Below(0 + z, x) = Below(0, x) + more + 1
    BY Window
  <2>6. ASSUME NEW x \in 0..Size - 1
        PROVE  Drawn(first, draws, x) \in {share + more, share + more + 1, share + more + 2}
    <3>1. PICK f \in Nat : f = Below(first, x)  BY <1>9, BelowGrows
    <3>2. Below(0, x) = 0 /\ 0 + z = z
      <4>1. 0 + z = z  OBVIOUS
      <4>2. Below(0, x) = 0  BY BelowGrows
      <4> QED  BY <4>1, <4>2
    <3>3. Below(z, x) = more \/ Below(z, x) = more + 1
      <4>1. 0 + more = more  OBVIOUS
      <4> QED  BY <2>5, <3>2, <4>1
    <3>4. (Below(w, x) - f) = share \/ (Below(w, x) - f) = share + 1  BY <2>4, <3>1
    <3>5. ~(first + draws <= w) /\ (first + draws) - w = z  BY <1>9, <1>11, <2>1
    <3>6. Drawn(first, draws, x) = (Below(w, x) - f) + Below(z, x)
      BY <1>8, <3>1, <3>5 DEF Drawn
    <3> QED  BY <3>3, <3>4, <3>6
  <2>7. /\ picks[a] \in {share + more, share + more + 1, share + more + 2}
        /\ picks[b] \in {share + more, share + more + 1, share + more + 2}
    BY <1>6, <1>7, <2>6
  <2> QED  BY <2>2, <2>7
<1> QED  BY <1>9, <1>10, <1>11

\* The atomic counter spreads concurrent callers evenly: with every backend alive and
\* equally loaded, the counts of two backends differ by at most one, by two past the wrap.
THEOREM RotationIsEven == Spec => []RotatesEvenly
<1>1. Init => IInv /\ Rotating  BY InitIInv, InitRotating
<1>2. (IInv /\ Rotating) /\ [Next]_vars => (IInv /\ Rotating)'  BY NextStep, RotatingStep
<1>3. IInv /\ Rotating => RotatesEvenly  BY EvenSpread
<1> QED  BY <1>1, <1>2, <1>3, PTL DEF Spec
===============================================================================
