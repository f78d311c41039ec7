-------------------------------- MODULE Reload --------------------------------
(***************************************************************************)
(* Configuration reload: the SIGHUP loop of cmd/goproxy, app.Runtime.Reload *)
(* and what it switches, namely the published snapshot (proxy.Dynamic), the *)
(* current configuration, the TLS certificates, the labels of the metrics,  *)
(* the health workers and the log level.  Probes of the old and of the new *)
(* snapshot, requests, edits of the files, signals and the shutdown         *)
(* interleave with the steps of a reload.                                  *)
(*                                                                         *)
(* Which probes change the eligibility of a backend is the matter of       *)
(* HealthChecker; how the retired snapshot drains is that of Handler.      *)
(***************************************************************************)
EXTENDS Naturals, Sequences

CONSTANTS
    Configs,         \* what the configuration file may hold
    First,           \* the configuration of the start
    Loadable,        \* those config.LoadFile accepts
    Frozen,          \* [Configs -> settings that require a restart]
    PoolOf,          \* [Configs -> sets of upstreams]
    Label,           \* [upstreams -> pool and backend names]: an upstream is
                     \* such a pair of names together with a URL
    Listeners,       \* the number of TLS listeners
    Certs, GoodCerts,
    MaxEdits,        \* bound on the number of edits of the files
    MaxSignals,      \* bound on the number of SIGHUPs
    MaxChanges       \* bound on the number of changes of eligibility

Upstreams == UNION {PoolOf[c] : c \in Configs}
Listener == 1..Listeners
Labels(c) == {Label[u] : u \in PoolOf[c]}

\* A configuration names each backend of a pool once.
ASSUME ReloadAssumption ==
    /\ First \in Loadable /\ Loadable \subseteq Configs
    /\ GoodCerts \subseteq Certs /\ GoodCerts # {}
    /\ Listeners \in Nat \ {0}
    /\ MaxEdits \in Nat /\ MaxSignals \in Nat /\ MaxChanges \in Nat
    /\ \A c \in Configs : \A u, v \in PoolOf[c] : Label[u] = Label[v] => u = v

VARIABLES
    file, pem,       \* the files: configuration, and certificate of a listener
    edits, signals,  \* how many edits and signals there were
    hup,             \* the hup channel, of capacity one, holds a signal
    owed,            \* history: a signal has not been answered by a load yet
    pc,              \* where the SIGHUP loop is
    next,            \* Reload's next
    i, todo,         \* the loops over listeners and over backends
    staged,          \* Reload's staged
    snapshots,       \* the handlers built, oldest first
    dynamic,         \* the snapshot published by proxy.Dynamic
    current,         \* Runtime.current
    cert,            \* the published certificate of each listener
    allowed, gauge,  \* Metrics.allowedBackends and Metrics.health
    level,           \* the configuration whose log level is in force
    changes,         \* how many changes of eligibility there were
    notices,         \* probe goroutines between RecordProbe and their publication
    shutdown,        \* the process context is canceled
    agreed,          \* history: the certificates of the last complete reload
    up, down         \* history: eligibility seen while a reload inherits

files == <<file, pem, edits, signals>>
signalled == <<hup, owed>>
loop == <<pc, next, i, todo, staged>>
published == <<dynamic, current, cert, allowed, level, agreed>>
health == <<snapshots, changes, notices, up, down>>
vars == <<files, signalled, loop, published, health, gauge, shutdown>>

Snapshot == [config : Configs, alive : SUBSET Upstreams,
             checker : {"none", "running", "canceled", "stopped"}]
\* value is the argument b.Alive() of OnChange, once it has been read.
Notice == [of : Nat, upstream : Upstreams, read : BOOLEAN, value : BOOLEAN]

\* The types; in particular only a certificate LoadCertificate accepted is
\* published, and every gauge has a configured label.
TypeOK ==
    /\ file \in Configs /\ pem \in [Listener -> Certs]
    /\ edits \in 0..MaxEdits /\ signals \in 0..MaxSignals
    /\ hup \in BOOLEAN /\ owed \in BOOLEAN /\ shutdown \in BOOLEAN
    /\ pc \in {"wait", "load", "check", "stage", "publish", "inherit",
               "swap", "store", "cancel", "announce", "start", "level", "exited"}
    /\ next \in Configs
    /\ i \in Listener
    /\ todo \subseteq Upstreams
    /\ staged \in [Listener -> Certs] /\ cert \in [Listener -> GoodCerts]
    /\ agreed \in [Listener -> GoodCerts]
    /\ snapshots \in Seq(Snapshot) /\ Len(snapshots) <= MaxSignals + 1
    /\ dynamic \in DOMAIN snapshots
    /\ current \in Configs /\ level \in Configs
    /\ allowed \subseteq {Label[u] : u \in Upstreams}
    /\ DOMAIN gauge \subseteq allowed /\ \A l \in DOMAIN gauge : gauge[l] \in BOOLEAN
    /\ notices \subseteq Notice /\ changes \in 0..MaxChanges
    /\ up \subseteq Upstreams /\ down \subseteq Upstreams

Init ==
    /\ file = First /\ edits = 0 /\ signals = 0
    /\ pem = [l \in Listener |-> CHOOSE c \in GoodCerts : TRUE]
    /\ hup = FALSE /\ owed = FALSE /\ shutdown = FALSE
    /\ pc = "wait" /\ next = First /\ i = 1 /\ todo = {}
    /\ staged = pem /\ cert = pem /\ agreed = pem
    /\ snapshots = <<[config |-> First, alive |-> PoolOf[First], checker |-> "running"]>>
    /\ dynamic = 1
    /\ current = First /\ level = First
    /\ allowed = Labels(First) /\ gauge = [l \in Labels(First) |-> TRUE]
    /\ notices = {} /\ changes = 0
    /\ up = {} /\ down = {}

-----------------------------------------------------------------------------
(* Plausible slips, for the mutation checks.                               *)
PublishAtOnce(c) == [cert EXCEPT ![i] = c]
OnlyWhenWaiting == pc = "wait"
KeptByName == {u \in PoolOf[next] : Label[u] \in Labels(snapshots[dynamic].config)}

-----------------------------------------------------------------------------
(* The files, the signals and the shutdown                                 *)

Edit ==
    /\ edits < MaxEdits
    /\ edits' = edits + 1
    /\ \/ /\ \E c \in Configs : file' = c
          /\ UNCHANGED pem
       \/ /\ \E l \in Listener, c \in Certs : pem' = [pem EXCEPT ![l] = c]
          /\ UNCHANGED file
    /\ UNCHANGED <<signals, signalled, loop, published, health, gauge, shutdown>>

\* os/signal sends without blocking: the channel takes a signal unless it
\* holds one already.
Delivered == TRUE

Signal ==
    /\ signals < MaxSignals
    /\ signals' = signals + 1
    /\ hup' = (hup \/ Delivered)
    /\ owed' = TRUE
    /\ UNCHANGED <<file, pem, edits, loop, published, health, gauge, shutdown>>

Canceled(s) == IF s = "running" THEN "canceled" ELSE s

\* SIGTERM or SIGINT cancels the context all the health workers descend from.
Shutdown ==
    /\ ~shutdown
    /\ shutdown' = TRUE
    /\ snapshots' = [g \in DOMAIN snapshots |->
                       [snapshots[g] EXCEPT !.checker = Canceled(@)]]
    /\ UNCHANGED <<files, signalled, loop, published, changes, notices, up, down, gauge>>

-----------------------------------------------------------------------------
(* The SIGHUP loop and Runtime.Reload                                      *)

At(here, there) == pc = here /\ pc' = there

\* The hup case of the select, which may win against ctx.Done().
Receive ==
    /\ At("wait", "load")
    /\ hup
    /\ hup' = FALSE
    /\ UNCHANGED <<files, owed, next, i, todo, staged, published, health, gauge, shutdown>>

Exit ==
    /\ At("wait", "exited")
    /\ shutdown
    /\ UNCHANGED <<files, signalled, next, i, todo, staged, published, health,
                   gauge, shutdown>>

\* config.LoadFile, before the mutex.
Load ==
    /\ At("load", IF file \in Loadable THEN "check" ELSE "wait")
    /\ next' = IF file \in Loadable THEN file ELSE next
    /\ owed' = FALSE
    /\ UNCHANGED <<files, hup, i, todo, staged, published, health, gauge, shutdown>>

New == Len(snapshots)
Drop == SubSeq(snapshots, 1, New - 1)

\* immutableCompatible
Compatible == Frozen[next] = Frozen[current]

\* Without a difference that needs a restart, NewHandler: every backend of the
\* new snapshot starts alive.
Check ==
    /\ At("check", IF Compatible THEN "stage" ELSE "wait")
    /\ snapshots' = IF Compatible
                    THEN Append(snapshots, [config |-> next, alive |-> PoolOf[next],
                                            checker |-> "none"])
                    ELSE snapshots
    /\ UNCHANGED <<files, signalled, next, i, todo, staged, published, changes,
                   notices, up, down, gauge, shutdown>>

\* What loading a certificate does to the published ones.
Staging(c) == cert

\* The certificates LoadCertificate accepts.
Usable == GoodCerts

\* LoadCertificate for one listener; an unusable one rejects the reload.
Stage ==
    LET good == pem[i] \in Usable
        more == i < Listeners
    IN
    /\ At("stage", IF ~good THEN "wait" ELSE IF more THEN "stage" ELSE "publish")
    /\ i' = IF good /\ more THEN i + 1 ELSE 1
    /\ staged' = IF good THEN [staged EXCEPT ![i] = pem[i]] ELSE staged
    /\ cert' = IF good THEN Staging(pem[i]) ELSE cert
    /\ snapshots' = IF good THEN snapshots ELSE Drop
    /\ UNCHANGED <<files, signalled, next, todo, dynamic, current, allowed, level,
                   agreed, changes, notices, up, down, gauge, shutdown>>

\* The backends whose pool, name and URL are those of a backend of the
\* published snapshot.
Kept == PoolOf[next] \intersect PoolOf[snapshots[dynamic].config]

\* Publish for one listener, and after the last one InheritBackendHealth begins.
Publish ==
    LET more == i < Listeners IN
    /\ At("publish", IF more THEN "publish" ELSE "inherit")
    /\ i' = IF more THEN i + 1 ELSE 1
    /\ cert' = [cert EXCEPT ![i] = staged[i]]
    /\ todo' = IF more THEN {} ELSE Kept
    /\ up' = IF more THEN {} ELSE snapshots[dynamic].alive
    /\ down' = IF more THEN {} ELSE Upstreams \ snapshots[dynamic].alive
    /\ UNCHANGED <<files, signalled, next, staged, dynamic, current, allowed, level,
                   agreed, snapshots, changes, notices, gauge, shutdown>>

\* old.Alive(), for a backend that is kept.
Inherited(u) == u \in snapshots[dynamic].alive

Inherit(u) ==
    /\ At("inherit", "inherit")
    /\ u \in todo
    /\ todo' = todo \ {u}
    /\ snapshots' = [snapshots EXCEPT ![New].alive =
                       IF Inherited(u) THEN @ \union {u} ELSE @ \ {u}]
    /\ UNCHANGED <<files, signalled, next, i, staged, published, changes, notices,
                   up, down, gauge, shutdown>>

\* Metrics.ReconcileConfig: the labels of the new configuration, no gauge yet.
Reconcile ==
    /\ At("inherit", "swap")
    /\ todo = {}
    /\ allowed' = Labels(next)
    /\ gauge' = <<>>
    /\ UNCHANGED <<files, signalled, next, i, todo, staged, dynamic, current, cert,
                   level, agreed, health, shutdown>>

\* Dynamic.Swap: new requests are served by the new snapshot from here on.
Swap ==
    /\ At("swap", "store")
    /\ dynamic' = New
    /\ up' = {} /\ down' = {}
    /\ UNCHANGED <<files, signalled, next, i, todo, staged, current, cert, allowed,
                   level, agreed, snapshots, changes, notices, gauge, shutdown>>

\* r.current.Store
Store ==
    /\ At("store", "cancel")
    /\ current' = next
    /\ UNCHANGED <<files, signalled, next, i, todo, staged, dynamic, cert, allowed,
                   level, agreed, health, gauge, shutdown>>

\* healthCancel(): the workers of the previous snapshot.
CancelOld ==
    /\ At("cancel", "announce")
    /\ todo' = PoolOf[next]
    /\ snapshots' = [snapshots EXCEPT ![New - 1].checker = Canceled(@)]
    /\ UNCHANGED <<files, signalled, next, i, staged, published, changes, notices,
                   up, down, gauge, shutdown>>

\* The gauges once that of a label is set.
Gauged(label, healthy) ==
    [l \in DOMAIN gauge \union {label} |-> IF l = label THEN healthy ELSE gauge[l]]

\* StartHealthChecks publishes the eligibility each backend starts with.  Its
\* reading and its publication are one step: without a probe it can only fall.
Announce(u) ==
    /\ At("announce", "announce")
    /\ u \in todo
    /\ todo' = todo \ {u}
    /\ gauge' = Gauged(Label[u], u \in snapshots[New].alive)
    /\ UNCHANGED <<files, signalled, next, i, staged, published, health, shutdown>>

\* go checker.Run(ctx), and previous.Retire(), which Handler models.
Start ==
    /\ At("announce", "level")
    /\ todo = {}
    /\ snapshots' = [snapshots EXCEPT ![New].checker =
                       IF shutdown THEN "canceled" ELSE "running"]
    /\ agreed' = staged
    /\ UNCHANGED <<files, signalled, next, i, todo, staged, dynamic, current, cert,
                   allowed, level, changes, notices, up, down, gauge, shutdown>>

\* setLogLevel, with the configuration that is current by then.
SetLevel ==
    /\ At("level", "wait")
    /\ level' = current
    /\ UNCHANGED <<files, signalled, next, i, todo, staged, dynamic, current, cert,
                   allowed, agreed, health, gauge, shutdown>>

Reloading ==
    \/ Receive \/ Exit \/ Load \/ Check \/ Stage \/ Publish
    \/ (\E u \in Upstreams : Inherit(u) \/ Announce(u))
    \/ Reconcile \/ Swap \/ Store \/ CancelOld \/ Start \/ SetLevel

-----------------------------------------------------------------------------
(* Probes and requests, of whichever snapshot                              *)

Become(g, alive) ==
    LET watched == pc = "inherit" /\ g = dynamic IN
    /\ changes < MaxChanges
    /\ changes' = changes + 1
    /\ snapshots' = [snapshots EXCEPT ![g].alive = alive]
    /\ up' = IF watched THEN up \union alive ELSE up
    /\ down' = IF watched THEN down \union (Upstreams \ alive) ELSE down

Noticing(g, u) == \E n \in notices : n.of = g /\ n.upstream = u

\* A probe changes the eligibility of u.  On a canceled context it fails, unless
\* it was answered before.  The goroutine of u goes on to OnChange.
ProbeChanges(g, u) ==
    LET s == snapshots[g] IN
    /\ u \in PoolOf[s.config]
    /\ s.checker \in {"running", "canceled"}
    /\ ~Noticing(g, u)
    /\ Become(g, IF u \in s.alive THEN s.alive \ {u} ELSE s.alive \union {u})
    /\ notices' = notices \union
                  {[of |-> g, upstream |-> u, read |-> FALSE, value |-> FALSE]}
    /\ UNCHANGED <<files, signalled, loop, published, gauge, shutdown>>

\* Passive failures eject u: nothing is published.
RequestsEject(g, u) ==
    /\ g <= dynamic
    /\ u \in snapshots[g].alive
    /\ Become(g, snapshots[g].alive \ {u})
    /\ UNCHANGED <<files, signalled, loop, published, notices, gauge, shutdown>>

\* OnChange(b, b.Alive()): the argument ...
ReadAlive(n) ==
    /\ ~n.read
    /\ notices' = (notices \ {n}) \union
         {[n EXCEPT !.read = TRUE, !.value = n.upstream \in snapshots[n.of].alive]}
    /\ UNCHANGED <<files, signalled, loop, published, snapshots, changes, up, down,
                   gauge, shutdown>>

\* ... and SetBackendHealth, which ignores a label that is not configured.
SetBackendHealth(n) ==
    /\ n.read
    /\ notices' = notices \ {n}
    /\ gauge' = IF Label[n.upstream] \in allowed
                THEN Gauged(Label[n.upstream], n.value)
                ELSE gauge
    /\ UNCHANGED <<files, signalled, loop, published, snapshots, changes, up, down, shutdown>>

\* A canceled checker returns once its round is over.
CheckerStops(g) ==
    /\ snapshots[g].checker = "canceled"
    /\ \A n \in notices : n.of # g
    /\ snapshots' = [snapshots EXCEPT ![g].checker = "stopped"]
    /\ UNCHANGED <<files, signalled, loop, published, changes, notices, up, down, gauge,
                   shutdown>>

Next ==
    \/ Edit \/ Signal \/ Shutdown
    \/ Reloading
    \/ \E g \in DOMAIN snapshots :
         \/ CheckerStops(g)
         \/ \E u \in Upstreams : ProbeChanges(g, u) \/ RequestsEject(g, u)
    \/ \E n \in notices : ReadAlive(n) \/ SetBackendHealth(n)

\* The goroutine of the SIGHUP loop is scheduled, and Reload never waits.
Spec == Init /\ [][Next]_vars /\ WF_vars(Reloading)

-----------------------------------------------------------------------------
(* Properties                                                              *)

\* Whenever no reload is under way, everything Reload switches belongs to one
\* accepted configuration and one set of certificates, and only the published
\* snapshot is probed: whatever step rejected a reload, it left no trace.
SwitchedTogether ==
    /\ TypeOK
    /\ pc \in {"wait", "exited"} =>
        /\ dynamic = New
        /\ snapshots[dynamic].config = current
        /\ level = current
        /\ allowed = Labels(current) /\ DOMAIN gauge = allowed
        /\ cert = agreed
        /\ \A g \in 1..dynamic - 1 : snapshots[g].checker \in {"canceled", "stopped"}

\* A backend that a reload keeps goes into the new snapshot with an eligibility
\* it had while the reload looked, and one whose URL or name is new starts
\* alive: the reload itself neither ejects nor readmits.
InheritsEligibility ==
    [][dynamic' # dynamic =>
         \A u \in PoolOf[next] :
            IF u \in PoolOf[snapshots[dynamic].config]
            THEN u \in (IF u \in snapshots[New].alive THEN up ELSE down)
            ELSE u \in snapshots[New].alive]_vars

\* No SIGHUP is lost, however it falls into a running reload: the file is read
\* again after it, unless the process shuts down.
SignalsAnswered == owed ~> (~owed \/ shutdown)

-----------------------------------------------------------------------------
(* What the help text says and the code does not do.                       *)

\* goproxy_backend_healthy: "Whether a backend is eligible for traffic".  A
\* probe of the retired snapshot publishes under the label of the new one, and
\* the new checker, which sees no change, never corrects it.  Read while
\* nothing is left to publish; that passive ejections are not published is
\* another matter, so only a live backend said to be unhealthy counts.
GaugeSurvivesReload ==
    pc = "wait" /\ notices = {} =>
        \A u \in snapshots[dynamic].alive : gauge[Label[u]]
=============================================================================
