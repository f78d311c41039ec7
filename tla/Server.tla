-------------------------------- MODULE Server --------------------------------
(***************************************************************************)
(* The group of servers (internal/server/server.go): Run opens every       *)
(* listener, serves, and shuts the group down when the process is canceled *)
(* or one server fails; limitListener bounds the open connections of each. *)
(* http.Server is external: Serve, Shutdown and Close are modelled by what *)
(* they do to listeners and connections, in the order they do it.          *)
(***************************************************************************)
EXTENDS Naturals, FiniteSets

CONSTANTS
    N,               \* the servers: public listeners in order, then admin
    Conns,           \* the connections a server may have at a time
    Limit            \* [server -> MaxConnections]

Servers == 1..N

\* Limits are positive, as validation requires.
ASSUME ServerAssumption ==
    /\ N \in Nat \ {0}
    /\ IsFiniteSet(Conns)
    /\ Limit \in [Servers -> Nat \ {0}]

VARIABLES
    pc,              \* where Run is
    i,               \* the server its loop is at
    canceled,        \* ctx is done
    failed,          \* errCh holds an error
    expired,         \* shutdownCtx is done
    listening,       \* servers with an open listener
    closed,          \* servers whose limitListener.closed is closed
    sem,             \* len(limitListener.sem)
    serve,           \* where the goroutine of each Serve is
    down,            \* servers with inShutdown set
    conn             \* the state of each connection; "ending" once the server has
                     \* closed it, but not yet its own goroutine

run == <<pc, i>>
events == <<canceled, failed, expired>>
listeners == <<listening, closed>>
vars == <<run, events, listeners, sem, serve, down, conn>>

Open == {"new", "active", "idle"}
OpenAt(s) == {c \in Conns : conn[s][c] \in Open}

Init ==
    /\ pc = "listen" /\ i = 1
    /\ canceled = FALSE /\ failed = FALSE /\ expired = FALSE
    /\ listening = {} /\ closed = {}
    /\ sem = [s \in Servers |-> 0]
    /\ serve = [s \in Servers |-> "none"]
    /\ down = {}
    /\ conn = [s \in Servers |-> [c \in Conns |-> "none"]]

At(here, there) == pc = here /\ pc' = there
Step(s, from, to) == serve[s] = from /\ serve' = [serve EXCEPT ![s] = to]

-----------------------------------------------------------------------------
(* Plausible slips, for the mutation checks.                               *)
ReleaseTwice(s) == sem[s] - 1
NotWoken(s) == FALSE
OnlyFirst == {1}
IgnoreActive(s) == "new"

-----------------------------------------------------------------------------
(* limitListener, and http.Server.Serve around it                          *)

\* Close of the listener of s, which may be closed already.
CloseListener(s) == listening' = listening \ {s} /\ closed' = closed \union {s}

\* Serve tracks its listener, or finds that Shutdown or Close came first.
ServeStart(s) ==
    /\ Step(s, "start", IF s \in down THEN "ended" ELSE "take")
    /\ UNCHANGED <<run, events, listeners, sem, down, conn>>

\* Accept: a place among the connections ...
TakePlace(s) ==
    /\ Step(s, "take", "accept")
    /\ sem[s] < Limit[s]
    /\ sem' = [sem EXCEPT ![s] = @ + 1]
    /\ UNCHANGED <<run, events, listeners, down, conn>>

\* ... or the listener is closed while all are taken.
Woken(s) == s \in closed

GiveUpPlace(s) ==
    /\ Step(s, "take", "ended")
    /\ Woken(s)
    /\ UNCHANGED <<run, events, listeners, sem, down, conn>>

\* A client connects.
Accept(s, c) ==
    /\ Step(s, "accept", "take")
    /\ s \in listening
    /\ conn[s][c] = "none"
    /\ conn' = [conn EXCEPT ![s][c] = "new"]
    /\ UNCHANGED <<run, events, listeners, sem, down>>

\* Accept fails and gives its place back: because the listener is closed, or
\* for a while (Serve tries again), or for good ("broken").
AcceptFails(s) ==
    /\ \E next \in IF s \in listening THEN {"take", "broken"} ELSE {"ended"} :
         Step(s, "accept", next)
    /\ sem' = [sem EXCEPT ![s] = @ - 1]
    /\ UNCHANGED <<run, events, listeners, down, conn>>

\* Serve returns and closes its listener; an error that is not ErrServerClosed
\* goes to errCh.
ServeEnds(s) ==
    /\ serve[s] \in {"ended", "broken"}
    /\ serve' = [serve EXCEPT ![s] = "done"]
    /\ failed' = (failed \/ (serve[s] = "broken" /\ s \notin down))
    /\ CloseListener(s)
    /\ UNCHANGED <<run, canceled, expired, sem, down, conn>>

-----------------------------------------------------------------------------
(* Connections                                                             *)

Become(s, c, state) == conn' = [conn EXCEPT ![s][c] = state]

\* The first byte of a request.
Request(s, c) ==
    /\ conn[s][c] \in {"new", "idle"}
    /\ Become(s, c, "active")
    /\ UNCHANGED <<run, events, listeners, sem, serve, down>>

\* The handler returns: the connection is kept, unless the server shuts down.
Respond(s, c) ==
    /\ conn[s][c] = "active" /\ s \notin down
    /\ Become(s, c, "idle")
    /\ UNCHANGED <<run, events, listeners, sem, serve, down>>

\* Its goroutine closes the connection, after a request or because the client
\* is gone: limitConn gives the place back.
CloseConn(s, c) ==
    /\ conn[s][c] \in Open
    /\ Become(s, c, "none")
    /\ sem' = [sem EXCEPT ![s] = @ - 1]
    /\ UNCHANGED <<run, events, listeners, serve, down>>

\* limitConn.Close once more, after the server has closed it: releaseOnce.
SecondClose(s) == sem[s]

CloseAgain(s, c) ==
    /\ conn[s][c] = "ending"
    /\ Become(s, c, "none")
    /\ sem' = [sem EXCEPT ![s] = SecondClose(s)]
    /\ UNCHANGED <<run, events, listeners, serve, down>>

\* The server closes the connections cs of s.
CloseConns(s, cs) ==
    /\ conn' = [conn EXCEPT ![s] = [c \in Conns |-> IF c \in cs THEN "ending" ELSE @[c]]]
    /\ sem' = [sem EXCEPT ![s] = @ - Cardinality(cs)]

-----------------------------------------------------------------------------
(* Run                                                                     *)

Cancel ==
    /\ ~canceled
    /\ canceled' = TRUE
    /\ UNCHANGED <<run, failed, expired, listeners, sem, serve, down, conn>>

\* timeouts.shutdown has passed.
Expire ==
    /\ pc \in {"shutdown", "drain", "poll"} /\ ~expired
    /\ expired' = TRUE
    /\ UNCHANGED <<run, canceled, failed, listeners, sem, serve, down, conn>>

Advance(loop, next) ==
    /\ pc' = IF i < N THEN loop ELSE next
    /\ i' = IF i < N THEN i + 1 ELSE 1

Bind ==
    /\ pc = "listen"
    /\ Advance("listen", "serving")
    /\ listening' = listening \union {i}
    /\ serve' = IF i < N THEN serve ELSE [s \in Servers |-> "start"]
    /\ UNCHANGED <<events, closed, sem, down, conn>>

\* The listeners opened so far, which a failure to bind closes.
Opened == 1..i - 1

BindFails ==
    /\ At("listen", "returned")
    /\ listening' = listening \ Opened
    /\ closed' = closed \union Opened
    /\ UNCHANGED <<i, events, sem, serve, down, conn>>

\* The select on ctx and errCh.
Notice ==
    /\ At("serving", "shutdown")
    /\ canceled \/ failed
    /\ UNCHANGED <<i, events, listeners, sem, serve, down, conn>>

\* Shutdown and Close set inShutdown, close the listener if Serve tracks it, and
\* wait until Serve does not.
Tracked(s) == serve[s] \in {"take", "accept", "ended", "broken"}

Turn(here, there) ==
    /\ At(here, there)
    /\ down' = down \union {i}
    /\ IF Tracked(i) THEN CloseListener(i) ELSE UNCHANGED listeners
    /\ UNCHANGED <<i, events, sem, serve, conn>>

Shutdown == Turn("shutdown", "drain")

Drained ==
    /\ At("drain", "poll")
    /\ ~Tracked(i)
    /\ UNCHANGED <<i, events, listeners, sem, serve, down, conn>>

\* What keeps Shutdown waiting, besides new connections.
Busy(s) == "active"

\* closeIdleConns: idle connections are closed, and new ones that sent nothing
\* for a while.  Shutdown returns when none is left, or with the deadline.
Poll ==
    \E cs \in SUBSET {c \in Conns : conn[i][c] \in {"new", "idle"}} :
        /\ pc = "poll"
        /\ {c \in Conns : conn[i][c] = "idle"} \subseteq cs
        /\ CloseConns(i, cs)
        /\ IF expired \/ \A c \in Conns \ cs : conn[i][c] \notin {"new", Busy(i)}
           THEN Advance("shutdown", "close")
           ELSE cs # {} /\ UNCHANGED run
        /\ UNCHANGED <<events, listeners, serve, down>>

Close == Turn("close", "cut")

Cut ==
    /\ pc = "cut"
    /\ ~Tracked(i)
    /\ CloseConns(i, OpenAt(i))
    /\ Advance("close", "wait")
    /\ UNCHANGED <<events, listeners, serve, down>>

\* wg.Wait
Return ==
    /\ At("wait", "returned")
    /\ \A s \in Servers : serve[s] = "done"
    /\ UNCHANGED <<i, events, listeners, sem, serve, down, conn>>

\* The process exits.
Exited == pc = "returned" /\ UNCHANGED vars

Running ==
    \/ Bind \/ BindFails \/ Notice
    \/ Shutdown \/ Drained \/ Poll \/ Close \/ Cut \/ Return

Serving(s) == ServeStart(s) \/ TakePlace(s) \/ GiveUpPlace(s) \/ ServeEnds(s)

Connected(s, c) ==
    Accept(s, c) \/ Request(s, c) \/ Respond(s, c) \/ CloseConn(s, c) \/ CloseAgain(s, c)

Next ==
    \/ Cancel \/ Expire \/ Running \/ Exited
    \/ \E s \in Servers :
         \/ Serving(s) \/ AcceptFails(s)
         \/ \E c \in Conns : Connected(s, c)

\* Goroutines are scheduled, the timer fires, and Accept on a closed listener
\* fails.  Nothing makes a client connect, or a handler return.
Spec ==
    /\ Init /\ [][Next]_vars
    /\ WF_vars(Running) /\ WF_vars(Expire)
    /\ \A s \in Servers :
         WF_vars(Serving(s)) /\ WF_vars(s \notin listening /\ AcceptFails(s))

-----------------------------------------------------------------------------
(* Properties                                                              *)

\* The places taken in a limitListener are those of the open connections and of
\* the Accept in progress, never more than the limit: none is lost and none is
\* given back twice, whoever closes a connection first (server.go, limitConn).
PlacesAccounted ==
    \A s \in Servers :
        /\ sem[s] = Cardinality(OpenAt(s)) + (IF serve[s] = "accept" THEN 1 ELSE 0)
        /\ sem[s] <= Limit[s]

\* When Run returns nothing is left behind: no listener accepts, no Serve runs
\* and no connection is open, also when a listener could not be bound.
NothingLeft ==
    pc = "returned" =>
        \A s \in Servers :
            /\ s \notin listening
            /\ serve[s] \in {"none", "done"}
            /\ OpenAt(s) = {}

\* The shutdown cuts a request only after timeouts.shutdown has passed.
CutsOnlyLate ==
    [][\A s \in Servers, c \in Conns :
         conn[s][c] = "active" /\ conn'[s][c] = "ending" => expired]_vars

\* Canceled or after a server failed, Run returns, although requests may never
\* end and every place of a listener may be taken ("strictly bounded").
RunReturns == pc = "serving" /\ (canceled \/ failed) ~> pc = "returned"

-----------------------------------------------------------------------------
(* What the documentation says and the code does not do.                   *)

\* gefahr-docs, cli: "Shutdown stops accepting new connections and drains in-flight
\* requests up to timeouts.shutdown".  The servers are shut down one after another:
\* while the first one waits for its requests, the others go on accepting, and by
\* their turn the deadline may have passed.
AcceptanceStops ==
    [][pc = "poll" /\ (\E c \in Conns : conn[i][c] = "active") =>
         \A s \in Servers, c \in Conns :
            conn[s][c] = "none" => conn'[s][c] = "none"]_vars
=============================================================================
