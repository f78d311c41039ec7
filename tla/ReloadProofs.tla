----------------------------- MODULE ReloadProofs -----------------------------
(***************************************************************************)
(* Theorems about Reload, for any configurations, upstreams, listeners and *)
(* numbers of edits, signals and changes of eligibility.                   *)
(***************************************************************************)
EXTENDS Reload, SequenceTheorems, TLAPS

-----------------------------------------------------------------------------
(* The inductive invariant.                                                *)

\* NewHandler has built a snapshot that is not published yet.
Building == pc \in {"stage", "publish", "inherit", "swap"}
\* It is published, and Reload goes on.
Switched == pc \in {"store", "cancel", "announce", "level"}

\* Every snapshot built, but for the first one, is due to a signal of its own.
Accounted ==
    /\ New <= signals + 1
    /\ pc \in {"load", "check"} \/ hup => New + 1 <= signals + 1
    /\ pc \in {"load", "check"} /\ hup => New + 2 <= signals + 1

Placed ==
    /\ IF Building THEN dynamic + 1 = New ELSE dynamic = New
    /\ Building \/ Switched => snapshots[New].config = next
    /\ Switched => New > 1

Configured ==
    /\ pc # "store" => snapshots[dynamic].config = current
    /\ pc \in {"cancel", "announce", "level"} => current = next
    /\ pc \notin {"cancel", "announce", "level"} => level = current
    /\ allowed = IF pc \in {"swap", "store"} THEN Labels(next) ELSE Labels(current)

\* The gauges that are missing are those still to be announced.
GaugesFollow ==
    /\ pc \notin {"swap", "store", "cancel", "announce"} => allowed \subseteq DOMAIN gauge
    /\ pc = "announce" =>
         /\ todo \subseteq PoolOf[next]
         /\ allowed \subseteq DOMAIN gauge \union {Label[u] : u \in todo}

\* Only certificates that were accepted are staged; the published ones are the old
\* ones, the new ones, or in between while they are being published.
Certified ==
    /\ staged \in [Listener -> GoodCerts]
    /\ ~Switched /\ pc \notin {"publish", "inherit", "swap"} => cert = agreed
    /\ pc = "publish" => \A l \in Listener : l < i => cert[l] = staged[l]
    /\ pc \in {"inherit", "swap"} \/ Switched => cert = staged
    /\ pc = "level" => agreed = staged

\* A checker starts only after the one before it was canceled.
Retired ==
    \A g \in DOMAIN snapshots :
        /\ snapshots[g].checker = "none" =>
             g = New /\ (Building \/ pc \in {"store", "cancel", "announce"})
        /\ Building /\ g = New => snapshots[g].checker = "none"
        /\ g < dynamic /\ ~(pc \in {"store", "cancel"} /\ g + 1 = dynamic) =>
             snapshots[g].checker \in {"canceled", "stopped"}

\* The new snapshot starts out alive; what it inherits was seen since.
Inheriting ==
    /\ pc \in {"stage", "publish"} => snapshots[New].alive = PoolOf[next]
    /\ pc = "inherit" =>
         /\ todo \subseteq Kept
         /\ snapshots[dynamic].alive \subseteq up
         /\ Upstreams \ snapshots[dynamic].alive \subseteq down
    /\ pc \in {"inherit", "swap"} =>
         \A u \in PoolOf[next] :
            IF u \in Kept /\ (pc = "swap" \/ u \notin todo)
            THEN u \in (IF u \in snapshots[New].alive THEN up ELSE down)
            ELSE u \in snapshots[New].alive

IInv ==
    /\ TypeOK
    /\ Accounted
    /\ Placed
    /\ Configured
    /\ GaugesFollow
    /\ Certified
    /\ Retired
    /\ Inheriting

-----------------------------------------------------------------------------
(* Lists of snapshots.                                                     *)

LEMMA Updated ==
    ASSUME NEW s \in Seq(Snapshot), NEW g \in DOMAIN s, NEW new \in Snapshot
    PROVE  LET t == [s EXCEPT ![g] = new] IN
           /\ t \in Seq(Snapshot) /\ Len(t) = Len(s) /\ DOMAIN t = DOMAIN s
           /\ t[g] = new /\ \A h \in DOMAIN s : h # g => t[h] = s[h]
OBVIOUS

LEMMA Appended ==
    ASSUME NEW s \in Seq(Snapshot), NEW new \in Snapshot
    PROVE  LET t == Append(s, new) IN
           /\ t \in Seq(Snapshot) /\ Len(t) = Len(s) + 1 /\ DOMAIN t = 1..Len(s) + 1
           /\ t[Len(s) + 1] = new /\ \A h \in DOMAIN s : t[h] = s[h]
OBVIOUS

LEMMA Dropped ==
    ASSUME NEW s \in Seq(Snapshot), Len(s) > 0
    PROVE  LET t == SubSeq(s, 1, Len(s) - 1) IN
           /\ t \in Seq(Snapshot) /\ Len(t) = Len(s) - 1 /\ DOMAIN t = 1..Len(s) - 1
           /\ \A h \in DOMAIN t : t[h] = s[h]
<1> DEFINE t == SubSeq(s, 1, Len(s) - 1)
<1>1. Len(s) \in Nat /\ Len(s) > 0  OBVIOUS
<1>2. 1 \in 1..Len(s) + 1 /\ Len(s) - 1 \in 1 - 1..Len(s)  BY <1>1
<1>3. /\ t \in Seq(Snapshot)
      /\ Len(t) = IF 1 <= Len(s) - 1 THEN (Len(s) - 1) - 1 + 1 ELSE 0
      /\ \A j \in 1..(Len(s) - 1) - 1 + 1 : t[j] = s[1 + j - 1]
  BY <1>2, SubSeqProperties
<1> HIDE DEF t
<1>4. Len(t) = Len(s) - 1 /\ DOMAIN t = 1..Len(s) - 1
  <2>1. PICK n \in Nat : n = Len(s)  BY <1>1
  <2>2. n = 1 \/ 1 <= n - 1  BY <1>1, <2>1
  <2>3. CASE n = 1
    <3>1. Len(t) = 0  BY <1>3, <2>1, <2>3
    <3> QED  BY <1>3, <2>1, <2>3, <3>1, LenProperties
  <2>4. CASE 1 <= n - 1
    <3>1. Len(t) = (n - 1) - 1 + 1  BY <1>3, <2>1, <2>4
    <3>2. Len(t) = n - 1  BY <2>1, <3>1
    <3> QED  BY <1>3, <2>1, <3>2, LenProperties
  <2> QED  BY <2>2, <2>3, <2>4
<1>5. \A h \in 1..Len(s) - 1 : t[h] = s[h]
  <2> SUFFICES ASSUME NEW h \in 1..Len(s) - 1 PROVE t[h] = s[h]  OBVIOUS
  <2>1. h \in 1..(Len(s) - 1) - 1 + 1 /\ 1 + h - 1 = h  BY <1>1
  <2> QED  BY <1>3, <2>1
<1> QED  BY <1>3, <1>4, <1>5 DEF t

LEMMA GaugedRange ==
    ASSUME \A l \in DOMAIN gauge : gauge[l] \in BOOLEAN, NEW label, NEW healthy \in BOOLEAN
    PROVE  LET h == Gauged(label, healthy) IN
           /\ DOMAIN h = DOMAIN gauge \union {label}
           /\ \A l \in DOMAIN h : h[l] \in BOOLEAN
<1> DEFINE h == Gauged(label, healthy)
<1>1. DOMAIN h = DOMAIN gauge \union {label}  BY DEF Gauged
<1>2. ASSUME NEW l \in DOMAIN h PROVE h[l] \in BOOLEAN
  <2>1. CASE l = label
    <3>1. h[l] = healthy  BY <2>1 DEF Gauged
    <3> QED  BY <3>1
  <2>2. CASE l # label
    <3>1. l \in DOMAIN gauge /\ h[l] = gauge[l]  BY <1>1, <2>2 DEF Gauged
    <3> QED  BY <3>1
  <2> QED  BY <2>1, <2>2
<1> QED  BY <1>1, <1>2

LEMMA TypedParts ==
    ASSUME IInv
    PROVE  /\ snapshots \in Seq(Snapshot)
           /\ New \in Nat /\ New > 0 /\ DOMAIN snapshots = 1..New /\ New \in DOMAIN snapshots
           /\ dynamic \in DOMAIN snapshots /\ dynamic \in Nat
           /\ \A g \in DOMAIN snapshots :
                /\ snapshots[g] \in Snapshot /\ snapshots[g].config \in Configs
                /\ snapshots[g].alive \subseteq Upstreams
           /\ \A c \in Configs : PoolOf[c] \subseteq Upstreams
           /\ next \in Configs /\ current \in Configs
           /\ Listeners \in Nat /\ Listeners > 0 /\ i \in Listener /\ i \in Nat
           /\ signals \in Nat /\ hup \in BOOLEAN
<1>1. /\ snapshots \in Seq(Snapshot) /\ dynamic \in DOMAIN snapshots
      /\ next \in Configs /\ current \in Configs
      /\ i \in Listener /\ signals \in 0..MaxSignals /\ hup \in BOOLEAN
  BY DEF IInv, TypeOK
<1>2. New \in Nat /\ DOMAIN snapshots = 1..New  BY <1>1 DEF New
<1>3. dynamic \in Nat /\ New > 0 /\ New \in DOMAIN snapshots  BY <1>1, <1>2
<1>4. ASSUME NEW g \in DOMAIN snapshots
      PROVE  /\ snapshots[g] \in Snapshot /\ snapshots[g].config \in Configs
             /\ snapshots[g].alive \subseteq Upstreams
  <2>1. snapshots[g] \in Snapshot  BY <1>1, <1>2
  <2> QED  BY <2>1 DEF Snapshot
<1>5. \A c \in Configs : PoolOf[c] \subseteq Upstreams  BY DEF Upstreams
<1>6. Listeners \in Nat /\ Listeners > 0 /\ i \in Nat
  BY <1>1, ReloadAssumption DEF Listener
<1> QED  BY <1>1, <1>2, <1>3, <1>4, <1>5, <1>6

-----------------------------------------------------------------------------
(* The files, the signals and the shutdown.                                *)

LEMMA InitIInv == Init => IInv
<1> SUFFICES ASSUME Init PROVE IInv  OBVIOUS
<1> DEFINE first == [config |-> First, alive |-> PoolOf[First], checker |-> "running"]
<1>1. /\ file = First /\ edits = 0 /\ signals = 0
      /\ pem = [l \in Listener |-> CHOOSE c \in GoodCerts : TRUE]
      /\ hup = FALSE /\ owed = FALSE /\ shutdown = FALSE
      /\ pc = "wait" /\ next = First /\ i = 1 /\ todo = {}
      /\ staged = pem /\ cert = pem /\ agreed = pem
      /\ snapshots = <<first>> /\ dynamic = 1
      /\ current = First /\ level = First
      /\ allowed = Labels(First) /\ gauge = [l \in Labels(First) |-> TRUE]
      /\ notices = {} /\ changes = 0 /\ up = {} /\ down = {}
  BY DEF Init
<1>2. First \in Configs /\ PoolOf[First] \subseteq Upstreams
      /\ Labels(First) \subseteq {Label[u] : u \in Upstreams}
  BY ReloadAssumption DEF Upstreams, Labels
<1>3. first \in Snapshot /\ first.config = First /\ first.checker = "running"
  BY <1>2 DEF Snapshot
<1>4. /\ snapshots \in Seq(Snapshot) /\ Len(snapshots) = 1 /\ DOMAIN snapshots = {1}
      /\ snapshots[1] = first
  BY <1>1, <1>3
<1> HIDE DEF first
<1>5. pem \in [Listener -> GoodCerts] /\ pem \in [Listener -> Certs]
  <2>1. (CHOOSE c \in GoodCerts : TRUE) \in GoodCerts  BY ReloadAssumption
  <2> QED  BY <1>1, <2>1, ReloadAssumption
<1>6. i \in Listener  BY <1>1, ReloadAssumption DEF Listener
<1>7. TypeOK
  <2>1. edits \in 0..MaxEdits /\ signals \in 0..MaxSignals /\ changes \in 0..MaxChanges
        /\ Len(snapshots) <= MaxSignals + 1
    BY <1>1, <1>4, ReloadAssumption
  <2>2. DOMAIN gauge \subseteq allowed /\ \A l \in DOMAIN gauge : gauge[l] \in BOOLEAN
    BY <1>1
  <2> QED  BY <1>1, <1>2, <1>4, <1>5, <1>6, <2>1, <2>2 DEF TypeOK
<1>8. Accounted  BY <1>1, <1>4 DEF Accounted, New
<1>9. Placed  BY <1>1, <1>4 DEF Placed, Building, Switched, New
<1>10. Configured  BY <1>1, <1>3, <1>4 DEF Configured
<1>11. GaugesFollow  BY <1>1 DEF GaugesFollow
<1>12. Certified  BY <1>1, <1>5 DEF Certified, Switched
<1>13. Retired  BY <1>1, <1>3, <1>4 DEF Retired, Building
<1>14. Inheriting  BY <1>1 DEF Inheriting
<1> QED  BY <1>7, <1>8, <1>9, <1>10, <1>11, <1>12, <1>13, <1>14 DEF IInv

\* The steps that touch neither the loop nor what it publishes.
LEMMA OutsideStep ==
    ASSUME IInv, TypeOK', UNCHANGED <<pc, next, i, todo, staged, published, health, gauge>>,
           Accounted'
    PROVE  IInv'
<1>1. UNCHANGED <<dynamic, current, cert, allowed, level, agreed, snapshots, up, down>>
  BY DEF published, health
<1> QED  BY <1>1 DEF IInv, Placed, Configured, GaugesFollow, Certified, Retired, Inheriting,
           Building, Switched, New, Kept

LEMMA EditStep ==
    ASSUME IInv, Edit
    PROVE  IInv'
<1> USE TypedParts
<1>1. /\ edits < MaxEdits /\ edits' = edits + 1
      /\ UNCHANGED <<signals, hup, owed, pc, next, i, todo, staged, published, health, gauge,
                     shutdown>>
  BY DEF Edit, signalled, loop
<1>2. file' \in Configs /\ pem' \in [Listener -> Certs]  BY DEF Edit, IInv, TypeOK
<1>3. edits' \in 0..MaxEdits  BY <1>1, ReloadAssumption DEF IInv, TypeOK
<1>4. TypeOK'  BY <1>1, <1>2, <1>3 DEF IInv, TypeOK, published, health
<1>5. Accounted'  BY <1>1 DEF IInv, Accounted, health, New
<1> QED  BY <1>1, <1>4, <1>5, OutsideStep

LEMMA SignalStep ==
    ASSUME IInv, Signal
    PROVE  IInv'
<1> USE TypedParts
<1>1. /\ signals < MaxSignals /\ signals' = signals + 1 /\ hup' = TRUE /\ owed' = TRUE
      /\ UNCHANGED <<file, pem, edits, pc, next, i, todo, staged, published, health, gauge,
                     shutdown>>
  BY DEF Signal, Delivered, loop
<1>2. signals' \in 0..MaxSignals  BY <1>1, ReloadAssumption
<1>3. TypeOK'  BY <1>1, <1>2 DEF IInv, TypeOK, published, health
<1>4. Accounted'
  <2>1. snapshots' = snapshots  BY <1>1 DEF health
  <2>2. Accounted  BY DEF IInv
  <2>3. New \in Nat /\ New' = New /\ signals \in Nat /\ signals' = signals + 1 /\ pc' = pc
    BY <1>1, <2>1 DEF New
  <2>4. New' <= signals' + 1 /\ New' + 1 <= signals' + 1
    BY <2>2, <2>3 DEF Accounted
  <2>5. pc' \in {"load", "check"} => New' + 2 <= signals' + 1
    BY <2>2, <2>3 DEF Accounted
  <2> QED  BY <2>4, <2>5 DEF Accounted
<1> QED  BY <1>1, <1>3, <1>4, OutsideStep
-----------------------------------------------------------------------------
(* The steps of the loop that build no snapshot.                           *)

LEMMA ReceiveStep ==
    ASSUME IInv, Receive
    PROVE  IInv'
<1> USE TypedParts
<1>1. /\ pc = "wait" /\ pc' = "load" /\ hup = TRUE /\ hup' = FALSE
      /\ UNCHANGED <<file, pem, edits, signals, owed, next, i, todo, staged, dynamic,
                     current, cert, allowed, level, agreed, snapshots, changes, notices,
                     up, down, gauge, shutdown>>
  BY DEF Receive, At, files, published, health
<1>2. TypeOK'  BY <1>1 DEF IInv, TypeOK
<1>3. Accounted'  BY <1>1 DEF IInv, Accounted, Building, Switched, New, Kept
<1>4. Placed'  BY <1>1 DEF IInv, Placed, Building, Switched, New, Kept
<1>5. Configured'  BY <1>1 DEF IInv, Configured, Building, Switched, New, Kept
<1>6. GaugesFollow'  BY <1>1 DEF IInv, GaugesFollow, Building, Switched, New, Kept
<1>7. Certified'  BY <1>1 DEF IInv, Certified, Building, Switched, New, Kept
<1>8. Retired'  BY <1>1 DEF IInv, Retired, Building, Switched, New, Kept
<1>9. Inheriting'  BY <1>1 DEF IInv, Inheriting, Building, Switched, New, Kept
<1> QED  BY <1>2, <1>3, <1>4, <1>5, <1>6, <1>7, <1>8, <1>9 DEF IInv

LEMMA ExitStep ==
    ASSUME IInv, Exit
    PROVE  IInv'
<1> USE TypedParts
<1>1. /\ pc = "wait" /\ pc' = "exited"
      /\ UNCHANGED <<file, pem, edits, signals, hup, owed, next, i, todo, staged, dynamic,
                     current, cert, allowed, level, agreed, snapshots, changes, notices,
                     up, down, gauge, shutdown>>
  BY DEF Exit, At, files, signalled, published, health
<1>2. TypeOK'  BY <1>1 DEF IInv, TypeOK
<1>3. Accounted'  BY <1>1 DEF IInv, Accounted, Building, Switched, New, Kept
<1>4. Placed'  BY <1>1 DEF IInv, Placed, Building, Switched, New, Kept
<1>5. Configured'  BY <1>1 DEF IInv, Configured, Building, Switched, New, Kept
<1>6. GaugesFollow'  BY <1>1 DEF IInv, GaugesFollow, Building, Switched, New, Kept
<1>7. Certified'  BY <1>1 DEF IInv, Certified, Building, Switched, New, Kept
<1>8. Retired'  BY <1>1 DEF IInv, Retired, Building, Switched, New, Kept
<1>9. Inheriting'  BY <1>1 DEF IInv, Inheriting, Building, Switched, New, Kept
<1> QED  BY <1>2, <1>3, <1>4, <1>5, <1>6, <1>7, <1>8, <1>9 DEF IInv

LEMMA LoadStep ==
    ASSUME IInv, Load
    PROVE  IInv'
<1> USE TypedParts
<1>1. /\ pc = "load" /\ pc' \in {"check", "wait"} /\ owed' = FALSE
      /\ next' \in Configs
      /\ UNCHANGED <<file, pem, edits, signals, hup, i, todo, staged, dynamic,
                     current, cert, allowed, level, agreed, snapshots, changes, notices,
                     up, down, gauge, shutdown>>
  BY DEF Load, At, files, published, health, IInv, TypeOK
<1>2. TypeOK'  BY <1>1 DEF IInv, TypeOK
<1>3. Accounted'  BY <1>1 DEF IInv, Accounted, Building, Switched, New, Kept
<1>4. Placed'  BY <1>1 DEF IInv, Placed, Building, Switched, New, Kept
<1>5. Configured'  BY <1>1 DEF IInv, Configured, Building, Switched, New, Kept
<1>6. GaugesFollow'  BY <1>1 DEF IInv, GaugesFollow, Building, Switched, New, Kept
<1>7. Certified'  BY <1>1 DEF IInv, Certified, Building, Switched, New, Kept
<1>8. Retired'  BY <1>1 DEF IInv, Retired, Building, Switched, New, Kept
<1>9. Inheriting'  BY <1>1 DEF IInv, Inheriting, Building, Switched, New, Kept
<1> QED  BY <1>2, <1>3, <1>4, <1>5, <1>6, <1>7, <1>8, <1>9 DEF IInv

LEMMA SwapStep ==
    ASSUME IInv, Swap
    PROVE  IInv'
<1> USE TypedParts
<1>1. /\ pc = "swap" /\ pc' = "store" /\ dynamic' = New /\ up' = {} /\ down' = {}
      /\ UNCHANGED <<file, pem, edits, signals, hup, owed, next, i, todo, staged,
                     current, cert, allowed, level, agreed, snapshots, changes, notices,
                     gauge, shutdown>>
  BY DEF Swap, At, files, signalled
<1>2. TypeOK'  BY <1>1 DEF IInv, TypeOK
<1>3. Accounted'  BY <1>1 DEF IInv, Accounted, Building, Switched, New, Kept
<1>4. Placed'  BY <1>1 DEF IInv, Placed, Building, Switched, New, Kept
<1>5. Configured'  BY <1>1 DEF IInv, Configured, Placed, Building, Switched
<1>6. GaugesFollow'  BY <1>1 DEF IInv, GaugesFollow, Building, Switched, New, Kept
<1>7. Certified'  BY <1>1 DEF IInv, Certified, Building, Switched, New, Kept
<1>8. Retired'  BY <1>1 DEF IInv, Retired, Placed, Building, New
<1>9. Inheriting'  BY <1>1 DEF IInv, Inheriting, Building, Switched, New, Kept
<1> QED  BY <1>2, <1>3, <1>4, <1>5, <1>6, <1>7, <1>8, <1>9 DEF IInv

LEMMA StoreStep ==
    ASSUME IInv, Store
    PROVE  IInv'
<1> USE TypedParts
<1>1. /\ pc = "store" /\ pc' = "cancel" /\ current' = next
      /\ UNCHANGED <<file, pem, edits, signals, hup, owed, next, i, todo, staged, dynamic,
                     cert, allowed, level, agreed, snapshots, changes, notices,
                     up, down, gauge, shutdown>>
  BY DEF Store, At, files, signalled, health
<1>2. TypeOK'  BY <1>1 DEF IInv, TypeOK
<1>3. Accounted'  BY <1>1 DEF IInv, Accounted, Building, Switched, New, Kept
<1>4. Placed'  BY <1>1 DEF IInv, Placed, Building, Switched, New, Kept
<1>5. Configured'  BY <1>1 DEF IInv, Configured, Placed, Building, Switched, Labels
<1>6. GaugesFollow'  BY <1>1 DEF IInv, GaugesFollow, Building, Switched, New, Kept
<1>7. Certified'  BY <1>1 DEF IInv, Certified, Building, Switched, New, Kept
<1>8. Retired'  BY <1>1 DEF IInv, Retired, Building, Switched, New, Kept
<1>9. Inheriting'  BY <1>1 DEF IInv, Inheriting, Building, Switched, New, Kept
<1> QED  BY <1>2, <1>3, <1>4, <1>5, <1>6, <1>7, <1>8, <1>9 DEF IInv

LEMMA SetLevelStep ==
    ASSUME IInv, SetLevel
    PROVE  IInv'
<1> USE TypedParts
<1>1. /\ pc = "level" /\ pc' = "wait" /\ level' = current
      /\ UNCHANGED <<file, pem, edits, signals, hup, owed, next, i, todo, staged, dynamic,
                     current, cert, allowed, agreed, snapshots, changes, notices,
                     up, down, gauge, shutdown>>
  BY DEF SetLevel, At, files, signalled, health
<1>2. TypeOK'  BY <1>1 DEF IInv, TypeOK
<1>3. Accounted'  BY <1>1 DEF IInv, Accounted, Building, Switched, New, Kept
<1>4. Placed'  BY <1>1 DEF IInv, Placed, Building, Switched, New, Kept
<1>5. Configured'  BY <1>1 DEF IInv, Configured, Building, Switched, New, Kept
<1>6. GaugesFollow'  BY <1>1 DEF IInv, GaugesFollow, Building, Switched, New, Kept
<1>7. Certified'  BY <1>1 DEF IInv, Certified, Building, Switched, New, Kept
<1>8. Retired'  BY <1>1 DEF IInv, Retired, Building, Switched, New, Kept
<1>9. Inheriting'  BY <1>1 DEF IInv, Inheriting, Building, Switched, New, Kept
<1> QED  BY <1>2, <1>3, <1>4, <1>5, <1>6, <1>7, <1>8, <1>9 DEF IInv

LEMMA ReconcileStep ==
    ASSUME IInv, Reconcile
    PROVE  IInv'
<1> USE TypedParts
<1>1. /\ pc = "inherit" /\ pc' = "swap" /\ todo = {} /\ allowed' = Labels(next)
      /\ gauge' = <<>>
      /\ UNCHANGED <<file, pem, edits, signals, hup, owed, next, i, todo, staged, dynamic,
                     current, cert, level, agreed, snapshots, changes, notices,
                     up, down, shutdown>>
  BY DEF Reconcile, At, files, signalled, health
<1>2. TypeOK'
  <2>1. allowed' \subseteq {Label[u] : u \in Upstreams}  BY <1>1 DEF Labels
  <2>2. DOMAIN gauge' = {}  BY <1>1
  <2> QED  BY <1>1, <2>1, <2>2 DEF IInv, TypeOK
<1>3. Accounted'  BY <1>1 DEF IInv, Accounted, New
<1>4. Placed'  BY <1>1 DEF IInv, Placed, Building, Switched, New
<1>5. Configured'  BY <1>1 DEF IInv, Configured, Labels
<1>6. GaugesFollow'  BY <1>1 DEF GaugesFollow
<1>7. Certified'  BY <1>1 DEF IInv, Certified, Switched
<1>8. Retired'  BY <1>1 DEF IInv, Retired, Building, New
<1>9. Inheriting'  BY <1>1 DEF IInv, Inheriting, New, Kept
<1> QED  BY <1>2, <1>3, <1>4, <1>5, <1>6, <1>7, <1>8, <1>9 DEF IInv

LEMMA AnnounceStep ==
    ASSUME IInv, NEW u \in Upstreams, Announce(u)
    PROVE  IInv'
<1> USE TypedParts
<1>1. /\ pc = "announce" /\ pc' = "announce" /\ u \in todo /\ todo' = todo \ {u}
      /\ gauge' = Gauged(Label[u], u \in snapshots[New].alive)
      /\ UNCHANGED <<file, pem, edits, signals, hup, owed, next, i, staged, dynamic,
                     current, cert, allowed, level, agreed, snapshots, changes, notices,
                     up, down, shutdown>>
  BY DEF Announce, At, files, signalled, published, health
<1>2. DOMAIN gauge' = DOMAIN gauge \union {Label[u]}  BY <1>1 DEF Gauged
<1>3. TypeOK'
  <2>1. Label[u] \in allowed
    BY <1>1 DEF IInv, GaugesFollow, Configured, Labels
  <2>2. \A l \in DOMAIN gauge' : gauge'[l] \in BOOLEAN
    <3> DEFINE healthy == u \in snapshots[New].alive
    <3>1. healthy \in BOOLEAN  OBVIOUS
    <3> HIDE DEF healthy
    <3>2. gauge' = Gauged(Label[u], healthy)  BY <1>1 DEF healthy
    <3>3. \A l \in DOMAIN gauge : gauge[l] \in BOOLEAN  BY DEF IInv, TypeOK
    <3> QED  BY <3>1, <3>2, <3>3, GaugedRange
  <2> QED  BY <1>1, <1>2, <2>1, <2>2 DEF IInv, TypeOK
<1>4. Accounted'  BY <1>1 DEF IInv, Accounted, New
<1>5. Placed'  BY <1>1 DEF IInv, Placed, Building, Switched, New
<1>6. Configured'  BY <1>1 DEF IInv, Configured, Labels
<1>7. GaugesFollow'  BY <1>1, <1>2 DEF IInv, GaugesFollow
<1>8. Certified'  BY <1>1 DEF IInv, Certified, Switched
<1>9. Retired'  BY <1>1 DEF IInv, Retired, Building, New
<1>10. Inheriting'  BY <1>1 DEF Inheriting
<1> QED  BY <1>3, <1>4, <1>5, <1>6, <1>7, <1>8, <1>9, <1>10 DEF IInv

LEMMA PublishStep ==
    ASSUME IInv, Publish
    PROVE  IInv'
<1> USE TypedParts
<1> DEFINE more == i < Listeners
<1>1. /\ pc = "publish" /\ pc' = (IF more THEN "publish" ELSE "inherit")
      /\ i' = (IF more THEN i + 1 ELSE 1)
      /\ cert' = [cert EXCEPT ![i] = staged[i]]
      /\ todo' = (IF more THEN {} ELSE Kept)
      /\ up' = (IF more THEN {} ELSE snapshots[dynamic].alive)
      /\ down' = (IF more THEN {} ELSE Upstreams \ snapshots[dynamic].alive)
      /\ UNCHANGED <<file, pem, edits, signals, hup, owed, next, staged, dynamic,
                     current, allowed, level, agreed, snapshots, changes, notices,
                     gauge, shutdown>>
  BY DEF Publish, At, files, signalled
<1>2. /\ cert \in [Listener -> GoodCerts] /\ staged \in [Listener -> GoodCerts]
      /\ \A l \in Listener : l < i => cert[l] = staged[l]
  BY <1>1 DEF IInv, TypeOK, Certified
<1>3. Kept \subseteq Upstreams  BY DEF Kept
<1>4. cert' \in [Listener -> GoodCerts] /\ cert'[i] = staged[i]
      /\ \A l \in Listener : l < i => cert'[l] = staged[l]
  BY <1>1, <1>2
<1>5. TypeOK'
  <2>1. i' \in Listener  BY <1>1 DEF Listener
  <2>2. todo' \subseteq Upstreams /\ up' \subseteq Upstreams /\ down' \subseteq Upstreams
    BY <1>1, <1>3
  <2>3. pc' \in {"publish", "inherit"}  BY <1>1
  <2> QED  BY <1>1, <1>4, <2>1, <2>2, <2>3 DEF IInv, TypeOK
<1>6. Accounted'  BY <1>1 DEF IInv, Accounted, New
<1>7. Placed'  BY <1>1 DEF IInv, Placed, Building, Switched, New
<1>8. Configured'  BY <1>1 DEF IInv, Configured, Labels
<1>9. GaugesFollow'  BY <1>1 DEF IInv, GaugesFollow
<1>10. Certified'
  <2>1. CASE more
    <3>1. \A l \in Listener : l < i' => l < i \/ l = i  BY <1>1, <2>1 DEF Listener
    <3> QED  BY <1>1, <1>2, <1>4, <2>1, <3>1 DEF Certified, Switched
  <2>2. CASE ~more
    <3>1. \A l \in Listener : l < i \/ l = i  BY <2>2 DEF Listener
    <3>2. cert' = staged  BY <1>2, <1>4, <3>1
    <3> QED  BY <1>1, <1>2, <2>2, <3>2 DEF Certified, Switched
  <2> QED  BY <2>1, <2>2
<1>11. Retired'  BY <1>1 DEF IInv, Retired, Building, New
<1>12. Inheriting'
  <2>1. New' = New /\ Kept' = Kept  BY <1>1 DEF New, Kept
  <2>2. snapshots[New].alive = PoolOf[next]  BY <1>1 DEF IInv, Inheriting
  <2> QED  BY <1>1, <2>1, <2>2 DEF Inheriting
<1> QED  BY <1>5, <1>6, <1>7, <1>8, <1>9, <1>10, <1>11, <1>12 DEF IInv

-----------------------------------------------------------------------------
(* The steps of the loop that change the snapshots.                        *)

\* The checker of one snapshot changes, and nothing else about the snapshots.
LEMMA CheckerSet ==
    ASSUME IInv, NEW g \in DOMAIN snapshots,
           NEW c \in {"none", "running", "canceled", "stopped"},
           snapshots' = [snapshots EXCEPT ![g].checker = c]
    PROVE  /\ snapshots' \in Seq(Snapshot) /\ New' = New /\ DOMAIN snapshots' = DOMAIN snapshots
           /\ \A h \in DOMAIN snapshots : /\ snapshots'[h].config = snapshots[h].config
                                         /\ snapshots'[h].alive = snapshots[h].alive
           /\ snapshots'[g].checker = c
           /\ \A h \in DOMAIN snapshots : h # g => snapshots'[h].checker = snapshots[h].checker
<1> USE TypedParts
<1> DEFINE new == [snapshots[g] EXCEPT !.checker = c]
<1>1. snapshots[g] \in Snapshot  OBVIOUS
<1>2. /\ new \in Snapshot /\ new.checker = c
      /\ new.config = snapshots[g].config /\ new.alive = snapshots[g].alive
  BY <1>1 DEF Snapshot
<1>3. snapshots' = [snapshots EXCEPT ![g] = new]  OBVIOUS
<1> HIDE DEF new
<1>4. /\ snapshots' \in Seq(Snapshot) /\ Len(snapshots') = Len(snapshots)
      /\ DOMAIN snapshots' = DOMAIN snapshots
      /\ snapshots'[g] = new /\ \A h \in DOMAIN snapshots : h # g => snapshots'[h] = snapshots[h]
  BY <1>2, <1>3, Updated
<1> QED  BY <1>2, <1>4 DEF New

\* The eligibility of the backends of one snapshot changes, and nothing else.
LEMMA AliveSet ==
    ASSUME IInv, NEW g \in DOMAIN snapshots, NEW alive \in SUBSET Upstreams,
           snapshots' = [snapshots EXCEPT ![g].alive = alive]
    PROVE  /\ snapshots' \in Seq(Snapshot) /\ New' = New /\ DOMAIN snapshots' = DOMAIN snapshots
           /\ \A h \in DOMAIN snapshots : /\ snapshots'[h].config = snapshots[h].config
                                         /\ snapshots'[h].checker = snapshots[h].checker
           /\ snapshots'[g].alive = alive
           /\ \A h \in DOMAIN snapshots : h # g => snapshots'[h].alive = snapshots[h].alive
<1> USE TypedParts
<1> DEFINE new == [snapshots[g] EXCEPT !.alive = alive]
<1>1. snapshots[g] \in Snapshot  OBVIOUS
<1>2. /\ new \in Snapshot /\ new.alive = alive
      /\ new.config = snapshots[g].config /\ new.checker = snapshots[g].checker
  BY <1>1 DEF Snapshot
<1>3. snapshots' = [snapshots EXCEPT ![g] = new]  OBVIOUS
<1> HIDE DEF new
<1>4. /\ snapshots' \in Seq(Snapshot) /\ Len(snapshots') = Len(snapshots)
      /\ DOMAIN snapshots' = DOMAIN snapshots
      /\ snapshots'[g] = new /\ \A h \in DOMAIN snapshots : h # g => snapshots'[h] = snapshots[h]
  BY <1>2, <1>3, Updated
<1> QED  BY <1>2, <1>4 DEF New

LEMMA CheckStep ==
    ASSUME IInv, Check
    PROVE  IInv'
<1> USE TypedParts
<1> DEFINE built == [config |-> next, alive |-> PoolOf[next], checker |-> "none"]
<1>1. /\ pc = "check"
      /\ UNCHANGED <<file, pem, edits, signals, hup, owed, next, i, todo, staged, dynamic,
                     current, cert, allowed, level, agreed, changes, notices,
                     up, down, gauge, shutdown>>
  BY DEF Check, At, files, signalled, published
<1>2. CASE ~Compatible
  <2>1. pc' = "wait" /\ snapshots' = snapshots  BY <1>2 DEF Check, At
  <2>2. TypeOK'  BY <1>1, <2>1 DEF IInv, TypeOK
  <2>3. Accounted'  BY <1>1, <2>1 DEF IInv, Accounted, New
  <2>4. Placed'  BY <1>1, <2>1 DEF IInv, Placed, Building, Switched, New
  <2>5. Configured'  BY <1>1, <2>1 DEF IInv, Configured
  <2>6. GaugesFollow'  BY <1>1, <2>1 DEF IInv, GaugesFollow
  <2>7. Certified'  BY <1>1, <2>1 DEF IInv, Certified, Switched
  <2>8. Retired'  BY <1>1, <2>1 DEF IInv, Retired, Building, New
  <2>9. Inheriting'  BY <1>1, <2>1 DEF Inheriting
  <2> QED  BY <2>2, <2>3, <2>4, <2>5, <2>6, <2>7, <2>8, <2>9 DEF IInv
<1>3. CASE Compatible
  <2>1. pc' = "stage" /\ snapshots' = Append(snapshots, built)  BY <1>3 DEF Check, At
  <2>2. built \in Snapshot /\ built.config = next /\ built.alive = PoolOf[next]
        /\ built.checker = "none"
    BY DEF Snapshot
  <2> HIDE DEF built
  <2>3. /\ snapshots' \in Seq(Snapshot) /\ New' = New + 1 /\ DOMAIN snapshots' = 1..New + 1
        /\ snapshots'[New + 1] = built
        /\ \A h \in DOMAIN snapshots : snapshots'[h] = snapshots[h]
    BY <2>1, <2>2, Appended DEF New
  <2>4. dynamic = New /\ snapshots[dynamic].config = current /\ level = current
    BY <1>1 DEF IInv, Placed, Configured, Building
  <2>5. snapshots'[dynamic] = snapshots[dynamic]  BY <2>3
  <2>6. New + 1 <= signals + 1 /\ (hup => New + 2 <= signals + 1)
    BY <1>1 DEF IInv, Accounted
  <2>7. TypeOK'
    <3>1. signals <= MaxSignals  BY DEF IInv, TypeOK
    <3>2. New' <= MaxSignals + 1  BY <2>3, <2>6, <3>1, ReloadAssumption
    <3>3. dynamic' \in DOMAIN snapshots'  BY <1>1, <2>3
    <3> QED  BY <1>1, <2>1, <2>3, <3>2, <3>3 DEF IInv, TypeOK, New
  <2>8. Accounted'  BY <1>1, <2>1, <2>3, <2>6 DEF Accounted
  <2>9. Placed'  BY <1>1, <2>1, <2>2, <2>3, <2>4 DEF Placed, Building, Switched
  <2>10. Configured'  BY <1>1, <2>1, <2>4, <2>5 DEF IInv, Configured
  <2>11. GaugesFollow'  BY <1>1, <2>1 DEF IInv, GaugesFollow
  <2>12. Certified'  BY <1>1, <2>1 DEF IInv, Certified, Switched
  <2>13. Retired'
    <3> SUFFICES ASSUME NEW g \in DOMAIN snapshots'
                 PROVE  /\ snapshots'[g].checker = "none" => g = New'
                        /\ g = New' => snapshots'[g].checker = "none"
                        /\ g < dynamic => snapshots'[g].checker \in {"canceled", "stopped"}
      BY <1>1, <2>1 DEF Retired, Building
    <3>1. CASE g = New + 1  BY <2>2, <2>3, <2>4, <3>1
    <3>2. CASE g \in DOMAIN snapshots
      <4>1. snapshots'[g] = snapshots[g]  BY <2>3, <3>2
      <4>2. snapshots[g].checker # "none"
            /\ (g < dynamic => snapshots[g].checker \in {"canceled", "stopped"})
        BY <1>1, <3>2 DEF IInv, Retired, Building
      <4>3. g # New'  BY <2>3, <3>2
      <4> QED  BY <4>1, <4>2, <4>3
    <3>3. g = New + 1 \/ g \in DOMAIN snapshots  BY <2>3
    <3> QED  BY <3>1, <3>2, <3>3
  <2>14. Inheriting'  BY <1>1, <2>1, <2>2, <2>3 DEF Inheriting
  <2> QED  BY <2>7, <2>8, <2>9, <2>10, <2>11, <2>12, <2>13, <2>14 DEF IInv
<1> QED  BY <1>2, <1>3

LEMMA StageStep ==
    ASSUME IInv, Stage
    PROVE  IInv'
<1> USE TypedParts
<1> DEFINE good == pem[i] \in GoodCerts
<1> DEFINE more == i < Listeners
<1>1. /\ pc = "stage" /\ pc' = (IF ~good THEN "wait" ELSE IF more THEN "stage" ELSE "publish")
      /\ i' = (IF good /\ more THEN i + 1 ELSE 1)
      /\ staged' = (IF good THEN [staged EXCEPT ![i] = pem[i]] ELSE staged)
      /\ cert' = cert
      /\ snapshots' = (IF good THEN snapshots ELSE Drop)
      /\ UNCHANGED <<file, pem, edits, signals, hup, owed, next, todo, dynamic,
                     current, allowed, level, agreed, changes, notices, up, down, gauge,
                     shutdown>>
  BY DEF Stage, At, Usable, Staging, files, signalled
<1>2. staged \in [Listener -> GoodCerts] /\ staged' \in [Listener -> GoodCerts]
  BY <1>1 DEF IInv, Certified
<1>3. i' \in Listener /\ staged' \in [Listener -> Certs]
  BY <1>1, <1>2, ReloadAssumption DEF Listener
<1>4. dynamic + 1 = New /\ snapshots[New].alive = PoolOf[next]
  BY <1>1 DEF IInv, Placed, Inheriting, Building
<1>5. GaugesFollow'  BY <1>1 DEF IInv, GaugesFollow
<1>6. CASE good
  <2>1. pc' \in {"stage", "publish"} /\ snapshots' = snapshots /\ New' = New
        /\ (pc' = "publish" => i' = 1)
    BY <1>1, <1>6 DEF New
  <2>2. TypeOK'  BY <1>1, <1>3, <2>1 DEF IInv, TypeOK
  <2>3. Accounted'  BY <1>1, <2>1 DEF IInv, Accounted
  <2>4. Placed'  BY <1>1, <2>1 DEF IInv, Placed, Building, Switched
  <2>5. Configured'  BY <1>1, <2>1 DEF IInv, Configured
  <2>6. Certified'
    <3>1. \A l \in Listener : ~(l < 1)  BY DEF Listener
    <3> QED  BY <1>1, <1>2, <2>1, <3>1 DEF IInv, Certified, Switched
  <2>7. Retired'  BY <1>1, <2>1 DEF IInv, Retired, Building
  <2>8. Inheriting'  BY <1>1, <1>4, <2>1 DEF Inheriting
  <2> QED  BY <1>5, <2>2, <2>3, <2>4, <2>5, <2>6, <2>7, <2>8 DEF IInv
<1>7. CASE ~good
  <2>1. pc' = "wait" /\ snapshots' = Drop /\ i' = 1  BY <1>1, <1>7
  <2>2. /\ snapshots' \in Seq(Snapshot) /\ New' = New - 1 /\ DOMAIN snapshots' = 1..New - 1
        /\ \A h \in DOMAIN snapshots' : snapshots'[h] = snapshots[h]
    BY <2>1, Dropped DEF New, Drop
  <2>3. dynamic' = New' /\ dynamic' \in DOMAIN snapshots'  BY <1>1, <1>4, <2>2
  <2>4. TypeOK'
    <3>1. New <= MaxSignals + 1 /\ MaxSignals \in Nat  BY ReloadAssumption DEF IInv, TypeOK, New
    <3>2. New' <= MaxSignals + 1  BY <2>2, <3>1
    <3> QED  BY <1>1, <1>3, <2>1, <2>2, <2>3, <3>2 DEF IInv, TypeOK, New
  <2>5. Accounted'
    <3>1. New <= signals + 1 /\ (hup => New + 1 <= signals + 1)
      BY <1>1 DEF IInv, Accounted
    <3>2. New' <= signals + 1 /\ New' + 1 <= signals + 1  BY <2>2, <3>1
    <3> QED  BY <1>1, <2>1, <3>2 DEF Accounted
  <2>6. Placed'  BY <2>1, <2>3 DEF Placed, Building, Switched
  <2>7. Configured'
    <3>1. snapshots'[dynamic] = snapshots[dynamic]  BY <1>1, <2>2, <2>3
    <3> QED  BY <1>1, <2>1, <3>1 DEF IInv, Configured
  <2>8. Certified'  BY <1>1, <1>2, <2>1 DEF IInv, Certified, Switched
  <2>9. Retired'
    <3> SUFFICES ASSUME NEW g \in DOMAIN snapshots'
                 PROVE  /\ snapshots'[g].checker # "none"
                        /\ g < dynamic => snapshots'[g].checker \in {"canceled", "stopped"}
      BY <1>1, <2>1 DEF Retired, Building
    <3>1. g \in DOMAIN snapshots /\ g # New /\ snapshots'[g] = snapshots[g]  BY <2>2
    <3> QED  BY <1>1, <3>1 DEF IInv, Retired, Building
  <2>10. Inheriting'  BY <2>1 DEF Inheriting
  <2> QED  BY <1>5, <2>4, <2>5, <2>6, <2>7, <2>8, <2>9, <2>10 DEF IInv
<1> QED  BY <1>6, <1>7

LEMMA InheritStep ==
    ASSUME IInv, NEW u \in Upstreams, Inherit(u)
    PROVE  IInv'
<1> USE TypedParts
<1> DEFINE alive == IF Inherited(u) THEN snapshots[New].alive \union {u}
                                   ELSE snapshots[New].alive \ {u}
<1>1. /\ pc = "inherit" /\ pc' = "inherit" /\ u \in todo /\ todo' = todo \ {u}
      /\ snapshots' = [snapshots EXCEPT ![New].alive = alive]
      /\ UNCHANGED <<file, pem, edits, signals, hup, owed, next, i, staged, dynamic,
                     current, cert, allowed, level, agreed, changes, notices,
                     up, down, gauge, shutdown>>
  BY DEF Inherit, At, files, signalled, published
<1>2. alive \in SUBSET Upstreams  OBVIOUS
<1>3. alive = IF u \in snapshots[dynamic].alive THEN snapshots[New].alive \union {u}
                                               ELSE snapshots[New].alive \ {u}
  BY DEF Inherited
<1> HIDE DEF alive
<1>4. /\ snapshots' \in Seq(Snapshot) /\ New' = New /\ DOMAIN snapshots' = DOMAIN snapshots
      /\ \A h \in DOMAIN snapshots : /\ snapshots'[h].config = snapshots[h].config
                                    /\ snapshots'[h].checker = snapshots[h].checker
      /\ snapshots'[New].alive = alive
      /\ \A h \in DOMAIN snapshots : h # New => snapshots'[h].alive = snapshots[h].alive
  BY <1>1, <1>2, AliveSet
<1>5. dynamic + 1 = New  BY <1>1 DEF IInv, Placed, Building
<1>6. Kept' = Kept  BY <1>1, <1>4 DEF Kept
<1>7. TypeOK'  BY <1>1, <1>4 DEF IInv, TypeOK, New
<1>8. Accounted'  BY <1>1, <1>4 DEF IInv, Accounted
<1>9. Placed'  BY <1>1, <1>4 DEF IInv, Placed, Building, Switched
<1>10. Configured'  BY <1>1, <1>4 DEF IInv, Configured
<1>11. GaugesFollow'  BY <1>1 DEF IInv, GaugesFollow
<1>12. Certified'  BY <1>1 DEF IInv, Certified, Switched
<1>13. Retired'  BY <1>1, <1>4 DEF IInv, Retired, Building
<1>14. Inheriting'
  <2>1. /\ todo \subseteq Kept
        /\ snapshots[dynamic].alive \subseteq up
        /\ Upstreams \ snapshots[dynamic].alive \subseteq down
        /\ \A v \in PoolOf[next] :
             IF v \in Kept /\ v \notin todo
             THEN v \in (IF v \in snapshots[New].alive THEN up ELSE down)
             ELSE v \in snapshots[New].alive
    BY <1>1 DEF IInv, Inheriting
  <2>2. snapshots'[dynamic].alive = snapshots[dynamic].alive  BY <1>4, <1>5
  <2>3. ASSUME NEW v \in PoolOf[next]
        PROVE  IF v \in Kept /\ v \notin todo'
               THEN v \in (IF v \in snapshots'[New].alive THEN up ELSE down)
               ELSE v \in snapshots'[New].alive
    <3>1. CASE v = u  BY <1>1, <1>3, <1>4, <2>1, <3>1
    <3>2. CASE v # u
      <4>1. /\ v \in snapshots'[New].alive <=> v \in snapshots[New].alive
            /\ v \in todo' <=> v \in todo
        BY <1>1, <1>3, <1>4, <3>2
      <4> QED  BY <2>1, <4>1
    <3> QED  BY <3>1, <3>2
  <2> QED  BY <1>1, <1>4, <1>6, <2>1, <2>2, <2>3 DEF Inheriting
<1> QED  BY <1>7, <1>8, <1>9, <1>10, <1>11, <1>12, <1>13, <1>14 DEF IInv

LEMMA CancelOldStep ==
    ASSUME IInv, CancelOld
    PROVE  IInv'
<1> USE TypedParts
<1>1. /\ pc = "cancel" /\ pc' = "announce" /\ todo' = PoolOf[next]
      /\ UNCHANGED <<file, pem, edits, signals, hup, owed, next, i, staged, dynamic,
                     current, cert, allowed, level, agreed, changes, notices,
                     up, down, gauge, shutdown>>
  BY DEF CancelOld, At, files, signalled, published
<1>2. New > 1 /\ dynamic = New /\ New - 1 \in DOMAIN snapshots
  <2>1. New > 1 /\ dynamic = New  BY <1>1 DEF IInv, Placed, Building, Switched
  <2> QED  BY <2>1
<1>3. PICK old \in DOMAIN snapshots : old = New - 1  BY <1>2
<1>4. PICK c \in {"canceled", "stopped"} : c = Canceled(snapshots[old].checker)
  <2>1. snapshots[old].checker \in {"none", "running", "canceled", "stopped"}
    BY DEF Snapshot
  <2>2. snapshots[old].checker # "none"  BY <1>2, <1>3 DEF IInv, Retired
  <2> QED  BY <2>1, <2>2 DEF Canceled
<1>5. snapshots' = [snapshots EXCEPT ![old].checker = c]  BY <1>3, <1>4 DEF CancelOld
<1>6. /\ snapshots' \in Seq(Snapshot) /\ New' = New /\ DOMAIN snapshots' = DOMAIN snapshots
      /\ \A h \in DOMAIN snapshots : /\ snapshots'[h].config = snapshots[h].config
                                    /\ snapshots'[h].alive = snapshots[h].alive
      /\ snapshots'[old].checker = c
      /\ \A h \in DOMAIN snapshots : h # old => snapshots'[h].checker = snapshots[h].checker
  BY <1>5, CheckerSet
<1>7. TypeOK'  BY <1>1, <1>6 DEF IInv, TypeOK, New
<1>8. Accounted'  BY <1>1, <1>6 DEF IInv, Accounted
<1>9. Placed'  BY <1>1, <1>6 DEF IInv, Placed, Building, Switched
<1>10. Configured'  BY <1>1, <1>6 DEF IInv, Configured
<1>11. GaugesFollow'
  <2>1. allowed = {Label[u] : u \in PoolOf[next]}  BY <1>1 DEF IInv, Configured, Labels
  <2> QED  BY <1>1, <2>1 DEF GaugesFollow
<1>12. Certified'  BY <1>1 DEF IInv, Certified, Switched
<1>13. Retired'
  <2> SUFFICES ASSUME NEW g \in DOMAIN snapshots
               PROVE  /\ snapshots'[g].checker = "none" => g = New
                      /\ g < dynamic => snapshots'[g].checker \in {"canceled", "stopped"}
    BY <1>1, <1>6 DEF Retired, Building
  <2>1. CASE g = old  BY <1>4, <1>6, <2>1
  <2>2. CASE g # old
    <3>1. g + 1 # dynamic /\ snapshots'[g].checker = snapshots[g].checker
      BY <1>2, <1>3, <1>6, <2>2
    <3> QED  BY <1>1, <3>1 DEF IInv, Retired
  <2> QED  BY <2>1, <2>2
<1>14. Inheriting'  BY <1>1 DEF Inheriting
<1> QED  BY <1>7, <1>8, <1>9, <1>10, <1>11, <1>12, <1>13, <1>14 DEF IInv

LEMMA StartStep ==
    ASSUME IInv, Start
    PROVE  IInv'
<1> USE TypedParts
<1>1. /\ pc = "announce" /\ pc' = "level" /\ todo = {} /\ agreed' = staged
      /\ UNCHANGED <<file, pem, edits, signals, hup, owed, next, i, todo, staged, dynamic,
                     current, cert, allowed, level, changes, notices, up, down, gauge,
                     shutdown>>
  BY DEF Start, At, files, signalled
<1>2. PICK c \in {"running", "canceled"} :
          snapshots' = [snapshots EXCEPT ![New].checker = c]
  BY DEF Start
<1>3. /\ snapshots' \in Seq(Snapshot) /\ New' = New /\ DOMAIN snapshots' = DOMAIN snapshots
      /\ \A h \in DOMAIN snapshots : /\ snapshots'[h].config = snapshots[h].config
                                    /\ snapshots'[h].alive = snapshots[h].alive
      /\ snapshots'[New].checker = c
      /\ \A h \in DOMAIN snapshots : h # New => snapshots'[h].checker = snapshots[h].checker
  BY <1>2, CheckerSet
<1>4. dynamic = New  BY <1>1 DEF IInv, Placed, Building
<1>5. TypeOK'
  <2>1. agreed' \in [Listener -> GoodCerts]  BY <1>1 DEF IInv, Certified
  <2> QED  BY <1>1, <1>3, <2>1 DEF IInv, TypeOK, New
<1>6. Accounted'  BY <1>1, <1>3 DEF IInv, Accounted
<1>7. Placed'  BY <1>1, <1>3 DEF IInv, Placed, Building, Switched
<1>8. Configured'  BY <1>1, <1>3 DEF IInv, Configured
<1>9. GaugesFollow'  BY <1>1 DEF IInv, GaugesFollow
<1>10. Certified'  BY <1>1 DEF IInv, Certified, Switched
<1>11. Retired'  BY <1>1, <1>3, <1>4 DEF IInv, Retired, Building
<1>12. Inheriting'  BY <1>1 DEF Inheriting
<1> QED  BY <1>5, <1>6, <1>7, <1>8, <1>9, <1>10, <1>11, <1>12 DEF IInv

-----------------------------------------------------------------------------
(* The health workers, the requests and the shutdown.                      *)

\* What every such step has in common: a checker that was never started stays so,
\* the others go on or end, and a snapshot under construction is left alone.
LEMMA HealthStep ==
    ASSUME IInv, TypeOK',
           UNCHANGED <<signals, hup, pc, next, i, todo, staged, dynamic, current, cert, allowed,
                       level, agreed>>,
           DOMAIN gauge \subseteq DOMAIN gauge',
           New' = New, DOMAIN snapshots' = DOMAIN snapshots,
           \A h \in DOMAIN snapshots :
             /\ snapshots'[h].config = snapshots[h].config
             /\ \/ snapshots'[h].checker = snapshots[h].checker
                \/ /\ snapshots[h].checker # "none"
                   /\ snapshots'[h].checker \in {"canceled", "stopped"},
           Building => snapshots'[New].alive = snapshots[New].alive,
           up \subseteq up', down \subseteq down',
           pc = "inherit" => /\ snapshots'[dynamic].alive \subseteq up'
                             /\ Upstreams \ snapshots'[dynamic].alive \subseteq down'
    PROVE  IInv'
<1> USE TypedParts
<1>1. Accounted'  BY DEF IInv, Accounted
<1>2. Placed'  BY DEF IInv, Placed, Building, Switched
<1>3. Configured'  BY DEF IInv, Configured
<1>4. GaugesFollow'  BY DEF IInv, GaugesFollow
<1>5. Certified'  BY DEF IInv, Certified, Switched
<1>6. Retired'  BY DEF IInv, Retired, Building
<1>7. Inheriting'
  <2>1. Kept' = Kept  BY DEF Kept
  <2> QED  BY <2>1 DEF IInv, Inheriting, Building
<1> QED  BY <1>1, <1>2, <1>3, <1>4, <1>5, <1>6, <1>7 DEF IInv

LEMMA ShutdownStep ==
    ASSUME IInv, Shutdown
    PROVE  IInv'
<1> USE TypedParts
<1>1. /\ shutdown' = TRUE
      /\ UNCHANGED <<file, pem, edits, signals, hup, owed, pc, next, i, todo, staged, dynamic,
                     current, cert, allowed, level, agreed, changes, notices, up, down,
                     gauge>>
  BY DEF Shutdown, files, signalled, loop, published
<1> DEFINE new(g) == [snapshots[g] EXCEPT !.checker = Canceled(@)]
<1>2. snapshots' = [g \in DOMAIN snapshots |-> new(g)]  BY DEF Shutdown
<1>3. ASSUME NEW g \in DOMAIN snapshots
      PROVE  /\ new(g) \in Snapshot
             /\ new(g).config = snapshots[g].config /\ new(g).alive = snapshots[g].alive
             /\ \/ new(g).checker = snapshots[g].checker
                \/ snapshots[g].checker # "none" /\ new(g).checker = "canceled"
  <2>1. snapshots[g] \in Snapshot  BY <1>3
  <2>2. Canceled(snapshots[g].checker) \in {"none", "running", "canceled", "stopped"}
    BY <2>1 DEF Snapshot, Canceled
  <2> QED  BY <2>1, <2>2 DEF Snapshot, Canceled
<1> HIDE DEF new
<1>4. /\ snapshots' \in Seq(Snapshot) /\ New' = New /\ DOMAIN snapshots' = DOMAIN snapshots
      /\ \A h \in DOMAIN snapshots : snapshots'[h] = new(h)
  BY <1>2, <1>3 DEF New
<1>5. TypeOK'  BY <1>1, <1>4 DEF IInv, TypeOK, New
<1>6. pc = "inherit" => /\ snapshots[dynamic].alive \subseteq up
                        /\ Upstreams \ snapshots[dynamic].alive \subseteq down
  BY DEF IInv, Inheriting
<1> QED  BY <1>1, <1>3, <1>4, <1>5, <1>6, HealthStep

LEMMA CheckerStopsStep ==
    ASSUME IInv, NEW g \in DOMAIN snapshots, CheckerStops(g)
    PROVE  IInv'
<1> USE TypedParts
<1>1. /\ snapshots[g].checker = "canceled"
      /\ snapshots' = [snapshots EXCEPT ![g].checker = "stopped"]
      /\ UNCHANGED <<file, pem, edits, signals, hup, owed, pc, next, i, todo, staged, dynamic,
                     current, cert, allowed, level, agreed, changes, notices, up, down,
                     gauge, shutdown>>
  BY DEF CheckerStops, files, signalled, loop, published
<1>2. /\ snapshots' \in Seq(Snapshot) /\ New' = New /\ DOMAIN snapshots' = DOMAIN snapshots
      /\ \A h \in DOMAIN snapshots : /\ snapshots'[h].config = snapshots[h].config
                                    /\ snapshots'[h].alive = snapshots[h].alive
      /\ snapshots'[g].checker = "stopped"
      /\ \A h \in DOMAIN snapshots : h # g => snapshots'[h].checker = snapshots[h].checker
  BY <1>1, CheckerSet
<1>3. TypeOK'  BY <1>1, <1>2 DEF IInv, TypeOK, New
<1>4. pc = "inherit" => /\ snapshots[dynamic].alive \subseteq up
                        /\ Upstreams \ snapshots[dynamic].alive \subseteq down
  BY DEF IInv, Inheriting
<1> QED  BY <1>1, <1>2, <1>3, <1>4, HealthStep

\* A change of eligibility of a snapshot that is not under construction.
LEMMA BecomeStep ==
    ASSUME IInv, NEW g \in DOMAIN snapshots, NEW alive \in SUBSET Upstreams, Become(g, alive),
           Building => g # New,
           notices' \subseteq Notice,
           UNCHANGED <<files, signalled, loop, published, gauge, shutdown>>
    PROVE  IInv'
<1> USE TypedParts
<1> DEFINE watched == pc = "inherit" /\ g = dynamic
<1>1. /\ changes < MaxChanges /\ changes' = changes + 1
      /\ snapshots' = [snapshots EXCEPT ![g].alive = alive]
      /\ up' = (IF watched THEN up \union alive ELSE up)
      /\ down' = (IF watched THEN down \union (Upstreams \ alive) ELSE down)
      /\ UNCHANGED <<file, pem, edits, signals, hup, owed, pc, next, i, todo, staged, dynamic,
                     current, cert, allowed, level, agreed, gauge, shutdown>>
  BY DEF Become, files, signalled, loop, published
<1>2. /\ snapshots' \in Seq(Snapshot) /\ New' = New /\ DOMAIN snapshots' = DOMAIN snapshots
      /\ \A h \in DOMAIN snapshots : /\ snapshots'[h].config = snapshots[h].config
                                    /\ snapshots'[h].checker = snapshots[h].checker
      /\ snapshots'[g].alive = alive
      /\ \A h \in DOMAIN snapshots : h # g => snapshots'[h].alive = snapshots[h].alive
  BY <1>1, AliveSet
<1>3. TypeOK'
  <2>1. changes' \in 0..MaxChanges  BY <1>1, ReloadAssumption DEF IInv, TypeOK
  <2>2. up' \subseteq Upstreams /\ down' \subseteq Upstreams  BY <1>1 DEF IInv, TypeOK
  <2> QED  BY <1>1, <1>2, <2>1, <2>2 DEF IInv, TypeOK, New
<1>4. pc = "inherit" => /\ snapshots'[dynamic].alive \subseteq up'
                        /\ Upstreams \ snapshots'[dynamic].alive \subseteq down'
  BY <1>1, <1>2 DEF IInv, Inheriting
<1>5. up \subseteq up' /\ down \subseteq down'  BY <1>1
<1>6. Building => snapshots'[New].alive = snapshots[New].alive  BY <1>2
<1> QED  BY <1>1, <1>2, <1>3, <1>4, <1>5, <1>6, HealthStep

LEMMA ProbeChangesStep ==
    ASSUME IInv, NEW g \in DOMAIN snapshots, NEW u \in Upstreams, ProbeChanges(g, u)
    PROVE  IInv'
<1> USE TypedParts
<1> DEFINE was == snapshots[g].alive
<1>1. PICK alive \in SUBSET Upstreams : Become(g, alive)
  <2>1. (IF u \in was THEN was \ {u} ELSE was \union {u}) \in SUBSET Upstreams  OBVIOUS
  <2>2. Become(g, IF u \in was THEN was \ {u} ELSE was \union {u})  BY DEF ProbeChanges
  <2> QED  BY <2>1, <2>2
<1>2. snapshots[g].checker \in {"running", "canceled"}
      /\ UNCHANGED <<files, signalled, loop, published, gauge, shutdown>>
  BY DEF ProbeChanges
<1>3. Building => g # New  BY <1>2 DEF IInv, Retired
<1>4. notices' \subseteq Notice
  <2>1. [of |-> g, upstream |-> u, read |-> FALSE, value |-> FALSE] \in Notice
    BY DEF Notice
  <2> QED  BY <2>1 DEF ProbeChanges, IInv, TypeOK
<1> QED  BY <1>1, <1>2, <1>3, <1>4, BecomeStep

LEMMA RequestsEjectStep ==
    ASSUME IInv, NEW g \in DOMAIN snapshots, NEW u \in Upstreams, RequestsEject(g, u)
    PROVE  IInv'
<1> USE TypedParts
<1>1. PICK alive \in SUBSET Upstreams : Become(g, alive)
  <2>1. snapshots[g].alive \ {u} \in SUBSET Upstreams  OBVIOUS
  <2>2. Become(g, snapshots[g].alive \ {u})  BY DEF RequestsEject
  <2> QED  BY <2>1, <2>2
<1>2. g <= dynamic /\ UNCHANGED <<files, signalled, loop, published, notices, gauge, shutdown>>
  BY DEF RequestsEject
<1>3. Building => g # New  BY <1>2 DEF IInv, Placed
<1>4. notices' \subseteq Notice  BY <1>2 DEF IInv, TypeOK
<1> QED  BY <1>1, <1>2, <1>3, <1>4, BecomeStep

LEMMA ReadAliveStep ==
    ASSUME IInv, NEW n \in notices, ReadAlive(n)
    PROVE  IInv'
<1> USE TypedParts
<1> DEFINE healthy == n.upstream \in snapshots[n.of].alive
<1>1. /\ notices' = (notices \ {n}) \union {[n EXCEPT !.read = TRUE, !.value = healthy]}
      /\ UNCHANGED <<file, pem, edits, signals, hup, owed, pc, next, i, todo, staged, dynamic,
                     current, cert, allowed, level, agreed, snapshots, changes, up, down, gauge,
                     shutdown>>
  BY DEF ReadAlive, files, signalled, loop, published
<1>2. healthy \in BOOLEAN  OBVIOUS
<1> HIDE DEF healthy
<1>3. [n EXCEPT !.read = TRUE, !.value = healthy] \in Notice
  <2>1. n \in Notice  BY DEF IInv, TypeOK
  <2> QED  BY <1>2, <2>1 DEF Notice
<1>4. TypeOK'  BY <1>1, <1>3 DEF IInv, TypeOK
<1>5. pc = "inherit" => /\ snapshots[dynamic].alive \subseteq up
                        /\ Upstreams \ snapshots[dynamic].alive \subseteq down
  BY DEF IInv, Inheriting
<1> QED  BY <1>1, <1>4, <1>5, HealthStep DEF New

LEMMA SetBackendHealthStep ==
    ASSUME IInv, NEW n \in notices, SetBackendHealth(n)
    PROVE  IInv'
<1> USE TypedParts
<1>1. /\ notices' = notices \ {n}
      /\ gauge' = (IF Label[n.upstream] \in allowed THEN Gauged(Label[n.upstream], n.value)
                                                    ELSE gauge)
      /\ UNCHANGED <<file, pem, edits, signals, hup, owed, pc, next, i, todo, staged, dynamic,
                     current, cert, allowed, level, agreed, snapshots, changes, up, down,
                     shutdown>>
  BY DEF SetBackendHealth, files, signalled, loop, published
<1>2. /\ DOMAIN gauge \subseteq DOMAIN gauge' /\ DOMAIN gauge' \subseteq allowed
      /\ \A l \in DOMAIN gauge' : gauge'[l] \in BOOLEAN
  <2>1. DOMAIN gauge \subseteq allowed /\ \A l \in DOMAIN gauge : gauge[l] \in BOOLEAN
    BY DEF IInv, TypeOK
  <2>2. n.value \in BOOLEAN  BY DEF IInv, TypeOK, Notice
  <2>3. CASE Label[n.upstream] \in allowed
    <3>1. gauge' = Gauged(Label[n.upstream], n.value)  BY <1>1, <2>3
    <3>2. /\ DOMAIN gauge' = DOMAIN gauge \union {Label[n.upstream]}
          /\ \A l \in DOMAIN gauge' : gauge'[l] \in BOOLEAN
      BY <2>1, <2>2, <3>1, GaugedRange
    <3> QED  BY <2>1, <2>3, <3>2
  <2>4. CASE Label[n.upstream] \notin allowed  BY <1>1, <2>1, <2>4
  <2> QED  BY <2>3, <2>4
<1>3. TypeOK'  BY <1>1, <1>2 DEF IInv, TypeOK
<1>4. pc = "inherit" => /\ snapshots[dynamic].alive \subseteq up
                        /\ Upstreams \ snapshots[dynamic].alive \subseteq down
  BY DEF IInv, Inheriting
<1> QED  BY <1>1, <1>2, <1>3, <1>4, HealthStep DEF New

-----------------------------------------------------------------------------
(* The theorems.                                                           *)

LEMMA NextStep ==
    ASSUME IInv, [Next]_vars
    PROVE  IInv'
<1>1. CASE Edit  BY <1>1, EditStep
<1>2. CASE Signal  BY <1>2, SignalStep
<1>3. CASE Shutdown  BY <1>3, ShutdownStep
<1>4. CASE Reloading
  <2>1. CASE Receive  BY <2>1, ReceiveStep
  <2>2. CASE Exit  BY <2>2, ExitStep
  <2>3. CASE Load  BY <2>3, LoadStep
  <2>4. CASE Check  BY <2>4, CheckStep
  <2>5. CASE Stage  BY <2>5, StageStep
  <2>6. CASE Publish  BY <2>6, PublishStep
  <2>7. CASE \E u \in Upstreams : Inherit(u)  BY <2>7, InheritStep
  <2>8. CASE \E u \in Upstreams : Announce(u)  BY <2>8, AnnounceStep
  <2>9. CASE Reconcile  BY <2>9, ReconcileStep
  <2>10. CASE Swap  BY <2>10, SwapStep
  <2>11. CASE Store  BY <2>11, StoreStep
  <2>12. CASE CancelOld  BY <2>12, CancelOldStep
  <2>13. CASE Start  BY <2>13, StartStep
  <2>14. CASE SetLevel  BY <2>14, SetLevelStep
  <2> QED  BY <1>4, <2>1, <2>2, <2>3, <2>4, <2>5, <2>6, <2>7, <2>8, <2>9, <2>10, <2>11,
               <2>12, <2>13, <2>14 DEF Reloading
<1>5. CASE \E g \in DOMAIN snapshots : CheckerStops(g)  BY <1>5, CheckerStopsStep
<1>6. CASE \E g \in DOMAIN snapshots, u \in Upstreams : ProbeChanges(g, u)
  BY <1>6, ProbeChangesStep
<1>7. CASE \E g \in DOMAIN snapshots, u \in Upstreams : RequestsEject(g, u)
  BY <1>7, RequestsEjectStep
<1>8. CASE \E n \in notices : ReadAlive(n)  BY <1>8, ReadAliveStep
<1>9. CASE \E n \in notices : SetBackendHealth(n)  BY <1>9, SetBackendHealthStep
<1>10. CASE UNCHANGED vars
  <2>1. UNCHANGED <<file, pem, edits, signals, hup, owed, pc, next, i, todo, staged, published,
                    health, gauge, shutdown>>
    BY <1>10 DEF vars, files, signalled, loop
  <2>2. TypeOK'  BY <2>1 DEF IInv, TypeOK, published, health
  <2>3. Accounted'  BY <2>1 DEF IInv, Accounted, New, health
  <2> QED  BY <2>1, <2>2, <2>3, OutsideStep
<1> QED  BY <1>1, <1>2, <1>3, <1>4, <1>5, <1>6, <1>7, <1>8, <1>9, <1>10 DEF Next

\* The inductive invariant holds in every reachable state.
THEOREM Inductive == Spec => []IInv
<1>1. Init => IInv  BY InitIInv
<1>2. IInv /\ [Next]_vars => IInv'  BY NextStep
<1> QED  BY <1>1, <1>2, PTL DEF Spec

\* Whatever the configurations and whenever the files change, signals arrive, a step
\* of Runtime.Reload rejects or the process is told to stop: between two reloads the
\* snapshot, the configuration, the labels, the gauges, the log level and the
\* certificates are those of one accepted reload, and only the published snapshot
\* is still probed.
THEOREM ReloadsSwitchTogether == Spec => []SwitchedTogether
<1>1. IInv => SwitchedTogether
  <2> SUFFICES ASSUME IInv PROVE SwitchedTogether  OBVIOUS
  <2> USE TypedParts
  <2>1. TypeOK  BY DEF IInv
  <2>2. ASSUME pc \in {"wait", "exited"}
        PROVE  /\ dynamic = New
               /\ snapshots[dynamic].config = current
               /\ level = current
               /\ allowed = Labels(current) /\ DOMAIN gauge = allowed
               /\ cert = agreed
               /\ \A g \in 1..dynamic - 1 : snapshots[g].checker \in {"canceled", "stopped"}
    <3>1. dynamic = New  BY <2>2 DEF IInv, Placed, Building
    <3>2. /\ snapshots[dynamic].config = current /\ level = current
          /\ allowed = Labels(current)
      BY <2>2 DEF IInv, Configured
    <3>3. DOMAIN gauge = allowed  BY <2>2 DEF IInv, GaugesFollow, TypeOK
    <3>4. cert = agreed  BY <2>2 DEF IInv, Certified, Switched
    <3>5. ASSUME NEW g \in 1..dynamic - 1
          PROVE  snapshots[g].checker \in {"canceled", "stopped"}
      <4>1. g \in DOMAIN snapshots /\ g < dynamic  OBVIOUS
      <4> QED  BY <2>2, <4>1 DEF IInv, Retired
    <3> QED  BY <3>1, <3>2, <3>3, <3>4, <3>5
  <2> QED  BY <2>1, <2>2 DEF SwitchedTogether
<1> QED  BY <1>1, Inductive, PTL

\* Proxy.InheritBackendHealth, however probes and requests change the eligibilities
\* while it runs: when Dynamic.Swap publishes the new snapshot, a backend it shares
\* with the old one has an eligibility seen in the meantime, and a new one is alive.
THEOREM ReloadsInheritEligibility == Spec => InheritsEligibility
<1> DEFINE Inherits ==
      dynamic' # dynamic =>
         \A u \in PoolOf[next] :
            IF u \in PoolOf[snapshots[dynamic].config]
            THEN u \in (IF u \in snapshots[New].alive THEN up ELSE down)
            ELSE u \in snapshots[New].alive
<1>1. IInv /\ [Next]_vars => [Inherits]_vars
  <2> SUFFICES ASSUME IInv, Next, dynamic' # dynamic
               PROVE  \A u \in PoolOf[next] :
                        IF u \in PoolOf[snapshots[dynamic].config]
                        THEN u \in (IF u \in snapshots[New].alive THEN up ELSE down)
                        ELSE u \in snapshots[New].alive
    OBVIOUS
  <2>1. ~Edit /\ ~Signal /\ ~Shutdown  BY DEF Edit, Signal, Shutdown, published
  <2>2. ~(\E g \in DOMAIN snapshots : CheckerStops(g))  BY DEF CheckerStops, published
  <2>3. ~(\E g \in DOMAIN snapshots, u \in Upstreams : ProbeChanges(g, u))
    BY DEF ProbeChanges, published
  <2>4. ~(\E g \in DOMAIN snapshots, u \in Upstreams : RequestsEject(g, u))
    BY DEF RequestsEject, published
  <2>5. ~(\E n \in notices : ReadAlive(n)) /\ ~(\E n \in notices : SetBackendHealth(n))
    BY DEF ReadAlive, SetBackendHealth, published
  <2>6. Reloading  BY <2>1, <2>2, <2>3, <2>4, <2>5 DEF Next
  <2>7. ~Receive /\ ~Exit /\ ~Load /\ ~Check /\ ~Stage /\ ~Publish
    BY DEF Receive, Exit, Load, Check, Stage, Publish, published
  <2>8. ~(\E u \in Upstreams : Inherit(u) \/ Announce(u))
    BY DEF Inherit, Announce, published
  <2>9. ~Reconcile /\ ~Store /\ ~CancelOld /\ ~Start /\ ~SetLevel
    BY DEF Reconcile, Store, CancelOld, Start, SetLevel, published
  <2>10. pc = "swap"  BY <2>6, <2>7, <2>8, <2>9 DEF Reloading, Swap, At
  <2>11. \A u \in PoolOf[next] : u \in Kept <=> u \in PoolOf[snapshots[dynamic].config]
    BY DEF Kept
  <2> QED  BY <2>10, <2>11 DEF IInv, Inheriting
<1> QED  BY <1>1, Inductive, PTL DEF Spec, InheritsEligibility
===============================================================================
