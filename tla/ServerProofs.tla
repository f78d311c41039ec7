---------------------------- MODULE ServerProofs ----------------------------
(***************************************************************************)
(* Theorems about Server, for any number of servers, any limits and any    *)
(* finite set of connections.                                              *)
(***************************************************************************)
EXTENDS Server, Integers, FiniteSetTheorems, TLAPS

-----------------------------------------------------------------------------
(* The inductive invariant.                                                *)

PC == {"listen", "serving", "shutdown", "drain", "poll", "close", "cut", "wait", "returned"}
ServePC == {"none", "start", "take", "accept", "ended", "broken", "done"}
ConnState == {"none", "new", "active", "idle", "ending"}

\* The types, with places that are only known to be integers.
Typed ==
    /\ pc \in PC
    /\ i \in Servers
    /\ listening \subseteq Servers
    /\ sem \in [Servers -> Int]
    /\ serve \in [Servers -> ServePC]
    /\ conn \in [Servers -> [Conns -> ConnState]]

\* The place of an Accept in progress.
Accepting(s) == IF serve[s] = "accept" THEN 1 ELSE 0

\* What Run has opened so far, and that its other loops begin at the first server.
Opening ==
    /\ pc \in {"serving", "wait"} => i = 1
    /\ pc = "listen" =>
         /\ listening \subseteq 1..i - 1
         /\ \A s \in Servers : serve[s] = "none" /\ OpenAt(s) = {}
    /\ pc \notin {"listen", "returned"} => \A s \in Servers : serve[s] # "none"

\* A Serve that has returned has closed its listener.
DoneClosed == \A s \in Servers : serve[s] = "done" => s \notin listening

\* Servers whose Shutdown, or Close, has returned.
Past(s) == pc \in {"close", "cut", "wait"} \/ (pc \in {"shutdown", "drain", "poll"} /\ s < i)
Gone(s) == pc = "wait" \/ (pc \in {"close", "cut"} /\ s < i)

\* What each step of a Shutdown has achieved, for good.
Stopping ==
    \A s \in Servers :
        /\ Past(s) \/ (pc \in {"drain", "poll"} /\ s = i) => s \in down
        /\ Past(s) \/ (pc = "poll" /\ s = i) => serve[s] \notin {"take", "accept", "broken"}
        /\ Past(s) => expired \/ OpenAt(s) = {}
        /\ Gone(s) => OpenAt(s) = {}

IInv ==
    /\ Typed
    /\ PlacesAccounted
    /\ Opening
    /\ DoneClosed
    /\ Stopping
    /\ NothingLeft

-----------------------------------------------------------------------------
(* The open connections of a server.                                       *)

\* A server has finitely many open connections.
LEMMA OpenFinite ==
    ASSUME NEW s
    PROVE  IsFiniteSet(OpenAt(s)) /\ Cardinality(OpenAt(s)) \in Nat
<1>1. OpenAt(s) \subseteq Conns  BY DEF OpenAt
<1>2. IsFiniteSet(OpenAt(s))  BY <1>1, FS_Subset, ServerAssumption
<1> QED  BY <1>2, FS_CardinalityType

\* A connection that changes its state enters or leaves the open ones of its
\* server, and no others.
LEMMA BecomeOpen ==
    ASSUME Typed, NEW s \in Servers, NEW c \in Conns, NEW x, Become(s, c, x)
    PROVE  /\ \A t \in Servers \ {s} : OpenAt(t)' = OpenAt(t)
           /\ x \in Open => OpenAt(s)' = OpenAt(s) \union {c}
           /\ x \notin Open => OpenAt(s)' = OpenAt(s) \ {c}
<1>1. /\ \A t \in Servers \ {s} : conn'[t] = conn[t]
      /\ conn'[s][c] = x
      /\ \A d \in Conns \ {c} : conn'[s][d] = conn[s][d]
  BY DEF Become, Typed
<1> QED  BY <1>1 DEF OpenAt

\* Connections that the server closes leave them, and each gives a place back.
LEMMA CloseConnsOpen ==
    ASSUME Typed, NEW s \in Servers, NEW cs \in SUBSET OpenAt(s), CloseConns(s, cs)
    PROVE  /\ \A t \in Servers \ {s} : OpenAt(t)' = OpenAt(t) /\ sem'[t] = sem[t]
           /\ OpenAt(s)' = OpenAt(s) \ cs
           /\ Cardinality(cs) \in Nat
           /\ sem'[s] = sem[s] - Cardinality(cs)
           /\ Cardinality(OpenAt(s)') = Cardinality(OpenAt(s)) - Cardinality(cs)
<1>1. /\ \A t \in Servers \ {s} : conn'[t] = conn[t] /\ sem'[t] = sem[t]
      /\ \A d \in Conns : conn'[s][d] = IF d \in cs THEN "ending" ELSE conn[s][d]
      /\ sem'[s] = sem[s] - Cardinality(cs)
  BY DEF CloseConns, Typed
<1>2. OpenAt(s)' = OpenAt(s) \ cs  BY <1>1 DEF OpenAt, Open
<1>3. \A t \in Servers \ {s} : OpenAt(t)' = OpenAt(t)  BY <1>1 DEF OpenAt
<1>4. IsFiniteSet(cs) /\ Cardinality(cs) \in Nat
  BY OpenFinite, FS_Subset, FS_CardinalityType
<1>5. Cardinality(OpenAt(s) \ cs) = Cardinality(OpenAt(s)) - Cardinality(cs)
  <2>1. OpenAt(s) \intersect cs = cs  OBVIOUS
  <2> QED  BY <2>1, OpenFinite, FS_Difference
<1> QED  BY <1>1, <1>2, <1>3, <1>4, <1>5

\* Connections that do not change are open where they were.
LEMMA SameOpen ==
    ASSUME conn' = conn
    PROVE  \A s : OpenAt(s)' = OpenAt(s)
BY DEF OpenAt
-----------------------------------------------------------------------------
(* The initial states.                                                     *)

LEMMA InitIInv == Init => IInv
<1> SUFFICES ASSUME Init PROVE IInv  OBVIOUS
<1>1. Typed  BY ServerAssumption DEF Init, Typed, PC, ServePC, ConnState, Servers
<1>2. \A s \in Servers : OpenAt(s) = {}  BY DEF Init, OpenAt, Open
<1>3. PlacesAccounted
  <2> SUFFICES ASSUME NEW s \in Servers
               PROVE  /\ sem[s] = Cardinality(OpenAt(s)) + (IF serve[s] = "accept" THEN 1 ELSE 0)
                      /\ sem[s] <= Limit[s]
    BY DEF PlacesAccounted
  <2>1. Cardinality(OpenAt(s)) = 0  BY <1>2, FS_EmptySet
  <2>2. sem[s] = 0 /\ serve[s] = "none"  BY DEF Init
  <2>3. Limit[s] \in Nat  BY ServerAssumption
  <2> QED  BY <2>1, <2>2, <2>3
<1>4. Opening /\ DoneClosed  BY <1>2 DEF Init, Opening, DoneClosed
<1>5. Stopping /\ NothingLeft  BY DEF Init, Stopping, NothingLeft, Past, Gone
<1> QED  BY <1>1, <1>3, <1>4, <1>5 DEF IInv

-----------------------------------------------------------------------------
(* Every step keeps the types.                                             *)

LEMMA RunTyped ==
    ASSUME Typed, Running
    PROVE  Typed'
<1> USE DEF Typed, PC, ServePC, At, listeners, run
<1>1. CASE Bind  BY <1>1, ServerAssumption DEF Bind, Advance, Servers
<1>2. CASE BindFails  BY <1>2 DEF BindFails
<1>3. CASE Notice  BY <1>3 DEF Notice
<1>4. CASE Shutdown  BY <1>4 DEF Shutdown, Turn, CloseListener
<1>5. CASE Drained  BY <1>5 DEF Drained
<1>6. ASSUME NEW cs \in SUBSET OpenAt(i), CloseConns(i, cs)
      PROVE  sem' \in [Servers -> Int] /\ conn' \in [Servers -> [Conns -> ConnState]]
  <2>1. Cardinality(cs) \in Nat  BY <1>6, CloseConnsOpen
  <2> QED  BY <1>6, <2>1 DEF CloseConns, ConnState
<1>7. CASE Poll
  <2>1. PICK cs \in SUBSET {c \in Conns : conn[i][c] \in {"new", "idle"}} : Poll!(cs)
    BY <1>7 DEF Poll
  <2>2. cs \in SUBSET OpenAt(i)  BY DEF OpenAt, Open
  <2>3. pc' \in PC /\ i' \in Servers
    BY <2>1, ServerAssumption DEF Advance, Servers
  <2> QED  BY <1>6, <2>1, <2>2, <2>3
<1>8. CASE Close  BY <1>8 DEF Close, Turn, CloseListener
<1>9. CASE Cut
  <2>1. pc' \in PC /\ i' \in Servers
    BY <1>9, ServerAssumption DEF Cut, Advance, Servers
  <2> QED  BY <1>6, <1>9, <2>1 DEF Cut
<1>10. CASE Return  BY <1>10 DEF Return
<1> QED
  BY <1>1, <1>2, <1>3, <1>4, <1>5, <1>7, <1>8, <1>9, <1>10 DEF Running

LEMMA TypedStep ==
    ASSUME Typed, Next
    PROVE  Typed'
<1> USE DEF Typed
<1>1. CASE Cancel \/ Expire \/ Exited
  BY <1>1 DEF Cancel, Expire, Exited, vars, run, listeners
<1>2. CASE Running  BY <1>2, RunTyped
<1>3. ASSUME NEW s \in Servers, Serving(s) \/ AcceptFails(s)
      PROVE  Typed'
  BY <1>3 DEF Serving, ServeStart, TakePlace, GiveUpPlace, ServeEnds, AcceptFails, Step,
              CloseListener, ServePC, run, listeners
<1>4. ASSUME NEW s \in Servers, NEW c \in Conns, Connected(s, c)
      PROVE  Typed'
  <2>1. PICK x \in ConnState : Become(s, c, x)
    BY <1>4 DEF Connected, Accept, Request, Respond, CloseConn, CloseAgain, Become, ConnState
  <2>2. conn' \in [Servers -> [Conns -> ConnState]]  BY <2>1 DEF Become
  <2>3. UNCHANGED <<pc, i, listening>>
    BY <1>4 DEF Connected, Accept, Request, Respond, CloseConn, CloseAgain, run, listeners
  <2>4. serve' = serve \/ serve' = [serve EXCEPT ![s] = "take"]
    BY <1>4 DEF Connected, Accept, Request, Respond, CloseConn, CloseAgain, Step
  <2>5. sem' = sem \/ sem' = [sem EXCEPT ![s] = @ - 1] \/ sem' = [sem EXCEPT ![s] = @]
    BY <1>4 DEF Connected, Accept, Request, Respond, CloseConn, CloseAgain, SecondClose
  <2>6. sem' \in [Servers -> Int] /\ serve' \in [Servers -> ServePC]
    BY <2>4, <2>5 DEF ServePC
  <2> QED  BY <2>2, <2>3, <2>6
<1> QED  BY <1>1, <1>2, <1>3, <1>4 DEF Next
-----------------------------------------------------------------------------
(* Every step accounts for the places.                                     *)

\* A step that changes the places, the connections and the Serve of one server
\* at most has to account for those.
LEMMA PlacesOfOne ==
    ASSUME PlacesAccounted, NEW s \in Servers,
           \A t \in Servers \ {s} :
              OpenAt(t)' = OpenAt(t) /\ sem'[t] = sem[t] /\ Accepting(t)' = Accepting(t),
           sem'[s] = Cardinality(OpenAt(s)') + Accepting(s)',
           sem'[s] <= Limit[s]
    PROVE  PlacesAccounted'
<1> SUFFICES ASSUME NEW t \in Servers
             PROVE  /\ sem'[t] = Cardinality(OpenAt(t)') + Accepting(t)'
                    /\ sem'[t] <= Limit[t]
  BY DEF PlacesAccounted, Accepting
<1>1. CASE t = s  BY <1>1
<1>2. CASE t # s  BY <1>2 DEF PlacesAccounted, Accepting
<1> QED  BY <1>1, <1>2

\* What PlacesAccounted says of one server.
LEMMA PlacesAt ==
    ASSUME Typed, PlacesAccounted, NEW s \in Servers
    PROVE  /\ sem[s] \in Int /\ Limit[s] \in Nat
           /\ sem[s] = Cardinality(OpenAt(s)) + Accepting(s)
           /\ sem[s] <= Limit[s]
BY ServerAssumption DEF Typed, PlacesAccounted, Accepting

\* The steps of a Serve.
LEMMA ServingPlaces ==
    ASSUME Typed, PlacesAccounted, NEW s \in Servers, Serving(s) \/ AcceptFails(s)
    PROVE  PlacesAccounted'
<1>1. conn' = conn  BY DEF Serving, ServeStart, TakePlace, GiveUpPlace, ServeEnds, AcceptFails
<1>2. \A t \in Servers : OpenAt(t)' = OpenAt(t)  BY <1>1, SameOpen
<1>3. Cardinality(OpenAt(s)) \in Nat  BY OpenFinite
<1>4. \A t \in Servers \ {s} : sem'[t] = sem[t] /\ serve'[t] = serve[t]
  BY DEF Serving, ServeStart, TakePlace, GiveUpPlace, ServeEnds, AcceptFails, Step, Typed
<1>5. sem'[s] = Cardinality(OpenAt(s)) + Accepting(s)' /\ sem'[s] <= Limit[s]
  <2> USE PlacesAt, <1>3 DEF Typed, Step, Accepting
  <2>1. CASE ServeStart(s)  BY <2>1 DEF ServeStart
  <2>2. CASE TakePlace(s)  BY <2>2 DEF TakePlace
  <2>3. CASE GiveUpPlace(s)  BY <2>3 DEF GiveUpPlace
  <2>4. CASE ServeEnds(s)  BY <2>4 DEF ServeEnds
  <2>5. CASE AcceptFails(s)
    <3>1. serve[s] = "accept" /\ serve'[s] # "accept" /\ sem'[s] = sem[s] - 1
      BY <2>5 DEF AcceptFails
    <3> QED  BY <3>1
  <2> QED  BY <2>1, <2>2, <2>3, <2>4, <2>5 DEF Serving
<1> QED  BY <1>2, <1>4, <1>5, PlacesOfOne DEF Accepting

\* The steps of a connection.
LEMMA ConnectedPlaces ==
    ASSUME Typed, PlacesAccounted, NEW s \in Servers, NEW c \in Conns, Connected(s, c)
    PROVE  PlacesAccounted'
<1> USE DEF Open
<1>1. PICK x \in ConnState : Become(s, c, x)
  BY DEF Connected, Accept, Request, Respond, CloseConn, CloseAgain, Become, ConnState
<1>2. \A t \in Servers \ {s} : OpenAt(t)' = OpenAt(t)  BY <1>1, BecomeOpen
<1>3. \A t \in Servers \ {s} : sem'[t] = sem[t] /\ serve'[t] = serve[t]
  BY DEF Connected, Accept, Request, Respond, CloseConn, CloseAgain, Step, Typed
<1>4. IsFiniteSet(OpenAt(s)) /\ Cardinality(OpenAt(s)) \in Nat  BY OpenFinite
<1>5. sem'[s] = Cardinality(OpenAt(s)') + Accepting(s)' /\ sem'[s] <= Limit[s]
  <2>1. CASE Accept(s, c)
    <3>1. c \notin OpenAt(s) /\ OpenAt(s)' = OpenAt(s) \union {c}
      BY <2>1, BecomeOpen DEF Accept, Become, OpenAt
    <3>2. Accepting(s) = 1 /\ Accepting(s)' = 0 /\ sem' = sem
      BY <2>1 DEF Accept, Step, Accepting, Typed
    <3>3. Cardinality(OpenAt(s)') = Cardinality(OpenAt(s)) + 1
      BY <1>4, <3>1, FS_AddElement
    <3> QED  BY <1>4, <3>2, <3>3, PlacesAt
  <2>2. CASE Request(s, c) \/ Respond(s, c)
    <3>1. c \in OpenAt(s)  BY <2>2 DEF Request, Respond, OpenAt
    <3>2. OpenAt(s)' = OpenAt(s) \union {c}
      BY <2>2, BecomeOpen DEF Request, Respond
    <3>3. sem' = sem /\ serve' = serve  BY <2>2 DEF Request, Respond
    <3>4. OpenAt(s)' = OpenAt(s)  BY <3>1, <3>2
    <3> QED  BY <3>3, <3>4, PlacesAt DEF Accepting
  <2>3. CASE CloseConn(s, c)
    <3>1. c \in OpenAt(s)  BY <2>3 DEF CloseConn, OpenAt
    <3>2. OpenAt(s)' = OpenAt(s) \ {c}  BY <2>3, BecomeOpen DEF CloseConn
    <3>3. Cardinality(OpenAt(s)') = Cardinality(OpenAt(s)) - 1
      BY <1>4, <3>1, <3>2, FS_RemoveElement
    <3>4. sem'[s] = sem[s] - 1 /\ Accepting(s)' = Accepting(s)
      BY <2>3 DEF CloseConn, Typed, Accepting
    <3>5. Accepting(s) \in Nat  BY DEF Accepting
    <3> QED  BY <1>4, <3>3, <3>4, <3>5, PlacesAt
  <2>4. CASE CloseAgain(s, c)
    <3>1. c \notin OpenAt(s)  BY <2>4 DEF CloseAgain, OpenAt
    <3>2. OpenAt(s)' = OpenAt(s) \ {c}  BY <2>4, BecomeOpen DEF CloseAgain
    <3>3. sem'[s] = sem[s] /\ Accepting(s)' = Accepting(s)
      BY <2>4 DEF CloseAgain, SecondClose, Typed, Accepting
    <3>4. OpenAt(s)' = OpenAt(s)  BY <3>1, <3>2
    <3> QED  BY <3>3, <3>4, PlacesAt
  <2> QED  BY <2>1, <2>2, <2>3, <2>4 DEF Connected
<1> QED  BY <1>2, <1>3, <1>5, PlacesOfOne DEF Accepting
\* The steps of Run.
LEMMA RunPlaces ==
    ASSUME Typed, PlacesAccounted, Opening, Running
    PROVE  PlacesAccounted'
<1>1. ASSUME sem' = sem, conn' = conn,
             \A s \in Servers : Accepting(s)' = Accepting(s)
      PROVE  PlacesAccounted'
  BY <1>1, SameOpen DEF PlacesAccounted, Accepting
<1>2. ASSUME NEW s \in Servers, NEW cs \in SUBSET OpenAt(s), CloseConns(s, cs),
             serve' = serve
      PROVE  PlacesAccounted'
  <2>1. \A t \in Servers : Accepting(t) \in Nat /\ Accepting(t)' = Accepting(t)
    BY <1>2 DEF Accepting
  <2>2. /\ Cardinality(cs) \in Nat
        /\ sem'[s] = sem[s] - Cardinality(cs)
        /\ Cardinality(OpenAt(s)') = Cardinality(OpenAt(s)) - Cardinality(cs)
        /\ \A t \in Servers \ {s} : OpenAt(t)' = OpenAt(t) /\ sem'[t] = sem[t]
    BY <1>2, CloseConnsOpen
  <2>3. Cardinality(OpenAt(s)) \in Nat  BY OpenFinite
  <2>4. sem'[s] = Cardinality(OpenAt(s)') + Accepting(s)' /\ sem'[s] <= Limit[s]
    BY <2>1, <2>2, <2>3, PlacesAt
  <2> QED  BY <2>1, <2>2, <2>4, PlacesOfOne
<1>3. CASE Bind
  <2>1. \A s \in Servers : Accepting(s)' = Accepting(s)
    BY <1>3 DEF Bind, Opening, Accepting
  <2> QED  BY <1>1, <1>3, <2>1 DEF Bind
<1>4. CASE BindFails \/ Notice \/ Shutdown \/ Drained \/ Close \/ Return
  BY <1>1, <1>4 DEF BindFails, Notice, Shutdown, Drained, Close, Return, Turn, Accepting
<1>5. PICK s \in Servers : s = i  BY DEF Typed
<1>6. CASE Poll
  <2>1. PICK cs \in SUBSET {c \in Conns : conn[i][c] \in {"new", "idle"}} : Poll!(cs)
    BY <1>6 DEF Poll
  <2>2. cs \in SUBSET OpenAt(s)  BY <1>5 DEF OpenAt, Open
  <2> QED  BY <1>2, <1>5, <2>1, <2>2
<1>7. CASE Cut
  <2>1. CloseConns(s, OpenAt(s)) /\ serve' = serve  BY <1>5, <1>7 DEF Cut
  <2> QED  BY <1>2, <2>1
<1> QED  BY <1>3, <1>4, <1>6, <1>7 DEF Running

LEMMA PlacesStep ==
    ASSUME IInv, Next
    PROVE  PlacesAccounted'
<1> USE DEF IInv
<1>1. CASE Cancel \/ Expire \/ Exited
  <2>1. sem' = sem /\ conn' = conn /\ serve' = serve
    BY <1>1 DEF Cancel, Expire, Exited, vars
  <2> QED  BY <2>1, SameOpen DEF PlacesAccounted
<1>2. CASE Running  BY <1>2, RunPlaces
<1>3. ASSUME NEW s \in Servers, Serving(s) \/ AcceptFails(s)
      PROVE  PlacesAccounted'
  BY <1>3, ServingPlaces
<1>4. ASSUME NEW s \in Servers, NEW c \in Conns, Connected(s, c)
      PROVE  PlacesAccounted'
  BY <1>4, ConnectedPlaces
<1> QED  BY <1>1, <1>2, <1>3, <1>4 DEF Next
-----------------------------------------------------------------------------
(* What the steps of others can do to a server, while Run stands still.    *)

Serves == {"take", "accept", "broken"}

Steady(s) ==
    /\ UNCHANGED <<pc, i, down>>
    /\ expired => expired'
    /\ listening' \subseteq listening
    /\ serve[s] \in {"none", "done"} => serve'[s] = serve[s]
    /\ serve'[s] = "none" => serve[s] = "none"
    /\ serve'[s] = "done" => serve[s] = "done" \/ s \notin listening'
    /\ serve'[s] \in Serves => serve[s] \in Serves \/ (serve[s] = "start" /\ s \notin down)
    /\ OpenAt(s) = {} /\ serve[s] # "accept" => OpenAt(s)' = {}

LEMMA ServingSteady ==
    ASSUME Typed, NEW s \in Servers, NEW t \in Servers, Serving(s) \/ AcceptFails(s)
    PROVE  Steady(t)
<1> USE DEF Typed, Step, Serves, run, events, listeners
<1>1. conn' = conn /\ UNCHANGED <<pc, i, down, expired>> /\ listening' \subseteq listening
  BY DEF Serving, ServeStart, TakePlace, GiveUpPlace, ServeEnds, AcceptFails, CloseListener
<1>2. OpenAt(t)' = OpenAt(t)  BY <1>1, SameOpen
<1>3. CASE ServeStart(s)  BY <1>1, <1>2, <1>3 DEF ServeStart, Steady
<1>4. CASE TakePlace(s) \/ GiveUpPlace(s)  BY <1>1, <1>2, <1>4 DEF TakePlace, GiveUpPlace, Steady
<1>5. CASE ServeEnds(s)  BY <1>1, <1>2, <1>5 DEF ServeEnds, CloseListener, Steady
<1>6. CASE AcceptFails(s)  BY <1>1, <1>2, <1>6 DEF AcceptFails, Steady
<1> QED  BY <1>3, <1>4, <1>5, <1>6 DEF Serving

LEMMA ConnectedSteady ==
    ASSUME Typed, NEW s \in Servers, NEW c \in Conns, NEW t \in Servers, Connected(s, c)
    PROVE  Steady(t)
<1>1. /\ UNCHANGED <<run, events, listeners, down>>
      /\ serve' = serve \/ Step(s, "accept", "take")
  BY DEF Connected, Accept, Request, Respond, CloseConn, CloseAgain
<1>2. OpenAt(t) = {} /\ serve[t] # "accept" => OpenAt(t)' = {}
  <2> SUFFICES ASSUME OpenAt(t) = {}, serve[t] # "accept"
               PROVE  OpenAt(t)' = {}
    OBVIOUS
  <2>1. PICK x : Become(s, c, x) /\ (x \in Open => conn[s][c] \in Open \/ serve[s] = "accept")
    BY DEF Connected, Accept, Request, Respond, CloseConn, CloseAgain, Become, Step, Open
  <2>2. CASE s = t
    <3>1. x \notin Open  BY <2>1, <2>2 DEF OpenAt
    <3> QED  BY <2>1, <2>2, <3>1, BecomeOpen
  <2>3. CASE s # t  BY <2>1, <2>3, BecomeOpen
  <2> QED  BY <2>2, <2>3
<1> QED  BY <1>1, <1>2 DEF Steady, Step, Typed, Serves, run, events, listeners

\* Every step is one of Run's, or leaves every server steady.
LEMMA RunningOrSteady ==
    ASSUME Typed, Next
    PROVE  Running \/ \A t \in Servers : Steady(t)
<1>1. ASSUME NEW t \in Servers, Cancel \/ Expire \/ Exited
      PROVE  Steady(t)
  <2>1. conn' = conn /\ serve' = serve
    BY <1>1 DEF Cancel, Expire, Exited, vars
  <2> QED
    BY <1>1, <2>1, SameOpen DEF Cancel, Expire, Exited, vars, run, events, listeners, Steady
<1> QED  BY <1>1, ServingSteady, ConnectedSteady DEF Next
-----------------------------------------------------------------------------
(* Every step keeps the order of Run.                                      *)

\* Where Poll and Cut go, and what they leave of the connections.
LEMMA PollSteps ==
    ASSUME Typed, Poll
    PROVE  /\ pc = "poll" /\ UNCHANGED <<events, listeners, serve, down>>
           /\ \/ UNCHANGED run
              \/ /\ Advance("shutdown", "close")
                 /\ \A s \in Servers : s = i => expired \/ OpenAt(s)' = {}
           /\ \A s \in Servers : OpenAt(s) = {} => OpenAt(s)' = {}
<1>1. PICK cs \in SUBSET {c \in Conns : conn[i][c] \in {"new", "idle"}} : Poll!(cs)
  BY DEF Poll
<1>2. PICK s \in Servers : s = i  BY DEF Typed
<1>3. cs \in SUBSET OpenAt(s)  BY <1>2 DEF OpenAt, Open
<1>4. OpenAt(s)' = OpenAt(s) \ cs /\ \A t \in Servers \ {s} : OpenAt(t)' = OpenAt(t)
  BY <1>1, <1>2, <1>3, CloseConnsOpen
<1>5. ASSUME \A c \in Conns \ cs : conn[i][c] \notin {"new", Busy(i)}
      PROVE  OpenAt(s)' = {}
  BY <1>1, <1>2, <1>4, <1>5 DEF OpenAt, Open, Busy
<1> QED  BY <1>1, <1>2, <1>4, <1>5 DEF run

LEMMA CutSteps ==
    ASSUME Typed, Cut
    PROVE  /\ pc = "cut" /\ UNCHANGED <<events, listeners, serve, down>>
           /\ Advance("close", "wait")
           /\ \A s \in Servers : s = i \/ OpenAt(s) = {} => OpenAt(s)' = {}
<1>1. PICK s \in Servers : s = i  BY DEF Typed
<1>2. CloseConns(s, OpenAt(s))  BY <1>1 DEF Cut
<1>3. OpenAt(s)' = {} /\ \A t \in Servers \ {s} : OpenAt(t)' = OpenAt(t)
  BY <1>2, CloseConnsOpen
<1> QED  BY <1>1, <1>3 DEF Cut

LEMMA OpeningStep ==
    ASSUME IInv, Next
    PROVE  Opening'
<1> USE DEF IInv, Typed, Opening
<1>1. CASE \A t \in Servers : Steady(t)
  <2>1. UNCHANGED <<pc, i>> /\ listening' \subseteq listening
    BY <1>1, ServerAssumption DEF Steady, Servers
  <2>2. \A t \in Servers : serve'[t] = "none" => serve[t] = "none"  BY <1>1 DEF Steady
  <2>3. ASSUME pc = "listen", NEW t \in Servers
        PROVE  serve'[t] = "none" /\ OpenAt(t)' = {}
    BY <1>1, <2>3 DEF Steady
  <2> QED  BY <2>1, <2>2, <2>3
<1>2. CASE Bind
  <2>1. \A t \in Servers : OpenAt(t)' = OpenAt(t)  BY <1>2, SameOpen DEF Bind
  <2>2. CASE i < N
    BY <1>2, <2>1, <2>2, ServerAssumption DEF Bind, Advance, Servers
  <2>3. CASE ~(i < N)
    BY <1>2, <2>3 DEF Bind, Advance
  <2> QED  BY <2>2, <2>3
<1>3. CASE BindFails \/ Notice \/ Shutdown \/ Drained \/ Close \/ Return
  BY <1>3 DEF BindFails, Notice, Shutdown, Drained, Close, Return, Turn, At
<1>4. CASE Poll
  BY <1>4, PollSteps DEF Advance, run
<1>5. CASE Cut
  BY <1>5, CutSteps DEF Advance
<1> QED  BY <1>1, <1>2, <1>3, <1>4, <1>5, RunningOrSteady DEF Running

LEMMA DoneClosedStep ==
    ASSUME IInv, Next
    PROVE  DoneClosed'
<1> USE DEF IInv, Typed, DoneClosed
<1>1. CASE \A t \in Servers : Steady(t)  BY <1>1 DEF Steady
<1>2. CASE Bind  BY <1>2 DEF Bind, Opening
<1>3. CASE BindFails \/ Notice \/ Shutdown \/ Drained \/ Close \/ Return
  BY <1>3 DEF BindFails, Notice, Shutdown, Drained, Close, Return, Turn, CloseListener,
              listeners
<1>4. CASE Poll  BY <1>4, PollSteps DEF listeners
<1>5. CASE Cut  BY <1>5, CutSteps DEF listeners
<1> QED  BY <1>1, <1>2, <1>3, <1>4, <1>5, RunningOrSteady DEF Running
\* The stages of the shutdown keep what they have achieved.
LEMMA StoppingStep ==
    ASSUME IInv, Next
    PROVE  Stopping'
<1> USE DEF IInv, Typed, Past, Gone
<1>1. CASE \A t \in Servers : Steady(t)
  <2> SUFFICES ASSUME NEW s \in Servers
               PROVE  /\ Past(s) \/ (pc \in {"drain", "poll"} /\ s = i) => s \in down'
                      /\ Past(s) \/ (pc = "poll" /\ s = i) => serve'[s] \notin Serves
                      /\ Past(s) => expired' \/ OpenAt(s)' = {}
                      /\ Gone(s) => OpenAt(s)' = {}
    BY <1>1, ServerAssumption DEF Stopping, Steady, Servers, Serves
  <2> QED  BY <1>1 DEF Stopping, Steady, Serves
<1>2. CASE Bind \/ BindFails \/ Return
  <2>1. pc' \in {"listen", "serving", "returned"}
    BY <1>2 DEF Bind, BindFails, Return, Advance, At
  <2> QED  BY <2>1 DEF Stopping
<1>3. CASE Notice
  <2>1. pc' = "shutdown" /\ i' = 1  BY <1>3 DEF Notice, At, Opening
  <2> QED  BY <2>1 DEF Stopping, Servers
<1>4. CASE Shutdown \/ Close
  <2>1. /\ (pc = "shutdown" /\ pc' = "drain") \/ (pc = "close" /\ pc' = "cut")
        /\ UNCHANGED <<i, expired, serve, conn>> /\ down' = down \union {i}
    BY <1>4 DEF Shutdown, Close, Turn, At, events
  <2>2. \A s \in Servers : OpenAt(s)' = OpenAt(s)  BY <2>1, SameOpen
  <2> QED  BY <2>1, <2>2 DEF Stopping
<1>5. CASE Drained
  <2>1. /\ pc = "drain" /\ pc' = "poll" /\ serve[i] \notin Serves
        /\ UNCHANGED <<i, expired, serve, down, conn>>
    BY <1>5 DEF Drained, At, events, Tracked, Serves
  <2>2. \A s \in Servers : OpenAt(s)' = OpenAt(s)  BY <2>1, SameOpen
  <2> QED  BY <2>1, <2>2 DEF Stopping, Serves
<1>6. CASE Poll
  <2>1. /\ pc = "poll" /\ UNCHANGED <<expired, serve, down>>
        /\ \A s \in Servers : OpenAt(s) = {} => OpenAt(s)' = {}
    BY <1>6, PollSteps DEF events
  <2>2. CASE UNCHANGED run  BY <2>1, <2>2 DEF Stopping, run
  <2>3. CASE ~UNCHANGED run
    <3>1. /\ Advance("shutdown", "close")
          /\ \A s \in Servers : s = i => expired \/ OpenAt(s)' = {}
      BY <1>6, <2>3, PollSteps
    <3>2. \A s \in Servers : Past(s)' => s = i \/ Past(s)
      BY <2>1, <3>1, ServerAssumption DEF Advance, Servers
    <3>3. \A s \in Servers : ~Gone(s)' /\ pc' \notin {"drain", "poll"}
      BY <3>1, ServerAssumption DEF Advance, Servers
    <3> QED  BY <2>1, <3>1, <3>2, <3>3 DEF Stopping
  <2> QED  BY <2>2, <2>3
<1>7. CASE Cut
  <2>1. /\ pc = "cut" /\ UNCHANGED <<expired, serve, down>>
        /\ Advance("close", "wait")
        /\ \A s \in Servers : s = i \/ OpenAt(s) = {} => OpenAt(s)' = {}
    BY <1>7, CutSteps DEF events
  <2>2. \A s \in Servers : Past(s) /\ (Gone(s)' => s = i \/ Gone(s))
    BY <2>1, ServerAssumption DEF Advance, Servers
  <2>3. pc' \in {"close", "wait"}  BY <2>1 DEF Advance
  <2> QED  BY <2>1, <2>2, <2>3 DEF Stopping
<1> QED
  BY <1>1, <1>2, <1>3, <1>4, <1>5, <1>6, <1>7, RunningOrSteady DEF Running

\* Run returns only when nothing is left.
LEMMA LeftStep ==
    ASSUME IInv, Next
    PROVE  NothingLeft'
<1> USE DEF IInv, Typed
<1>1. CASE \A t \in Servers : Steady(t)
  <2> SUFFICES ASSUME pc' = "returned", NEW s \in Servers
               PROVE  /\ s \notin listening' /\ serve'[s] \in {"none", "done"}
                      /\ OpenAt(s)' = {}
    BY DEF NothingLeft
  <2> QED  BY <1>1 DEF NothingLeft, Steady
<1>2. CASE BindFails
  <2>1. \A s \in Servers : OpenAt(s)' = OpenAt(s)  BY <1>2, SameOpen DEF BindFails
  <2>2. listening' = {}  BY <1>2 DEF BindFails, At, Opening, Opened
  <2> QED  BY <1>2, <2>1, <2>2 DEF BindFails, At, Opening, NothingLeft
<1>3. CASE Return
  <2>1. \A s \in Servers : OpenAt(s)' = OpenAt(s)  BY <1>3, SameOpen DEF Return
  <2> QED  BY <1>3, <2>1 DEF Return, At, listeners, DoneClosed, Stopping, Gone, NothingLeft
<1>4. CASE Bind \/ Notice \/ Shutdown \/ Drained \/ Poll \/ Close \/ Cut
  <2>1. pc' # "returned"
    BY <1>4, PollSteps, CutSteps
       DEF Bind, Notice, Shutdown, Drained, Close, Turn, At, Advance, run
  <2> QED  BY <2>1 DEF NothingLeft
<1> QED  BY <1>1, <1>2, <1>3, <1>4, RunningOrSteady DEF Running

-----------------------------------------------------------------------------
(* The theorems.                                                           *)

\* A stuttering step changes nothing.
LEMMA StutterStep ==
    ASSUME IInv, UNCHANGED vars
    PROVE  IInv'
<1>1. UNCHANGED <<pc, i, expired, listening, sem, serve, down, conn>>
  BY DEF vars, run, events, listeners
<1>2. \A s : OpenAt(s)' = OpenAt(s)  BY <1>1, SameOpen
<1>3. Typed' /\ PlacesAccounted' /\ NothingLeft'
  BY <1>1, <1>2 DEF IInv, Typed, PlacesAccounted, NothingLeft
<1>4. Opening' /\ DoneClosed'  BY <1>1, <1>2 DEF IInv, Opening, DoneClosed
<1>5. Stopping'  BY <1>1, <1>2 DEF IInv, Stopping, Past, Gone
<1> QED  BY <1>3, <1>4, <1>5 DEF IInv

\* The invariant is inductive, and so always holds.
THEOREM Inductive == Spec => []IInv
<1>1. IInv /\ [Next]_vars => IInv'
  <2>1. IInv /\ Next => Typed'  BY TypedStep DEF IInv
  <2>2. IInv /\ Next => IInv'
    BY <2>1, PlacesStep, OpeningStep, DoneClosedStep, StoppingStep, LeftStep DEF IInv
  <2> QED  BY <2>2, StutterStep
<1> QED  BY InitIInv, <1>1, PTL DEF Spec

\* limitListener gives back every place once, and never admits a connection over
\* its limit, whatever the limit and whoever closes a connection first.
THEOREM PlacesCorrect == Spec => []PlacesAccounted
<1>1. IInv => PlacesAccounted  BY DEF IInv
<1> QED  BY Inductive, <1>1, PTL

\* Run leaves no listener, no Serve and no connection behind, for any number of
\* servers, whichever listener cannot be bound or fails, and whenever.
THEOREM NothingLeftCorrect == Spec => []NothingLeft
<1>1. IInv => NothingLeft  BY DEF IInv
<1> QED  BY Inductive, <1>1, PTL

\* Close, which cuts requests, comes after the Shutdown of every server: a server
\* that still has one then has used up timeouts.shutdown.
THEOREM CutsLateCorrect == Spec => CutsOnlyLate
<1> DEFINE Late == \A s \in Servers, c \in Conns :
                      conn[s][c] = "active" /\ conn'[s][c] = "ending" => expired
<1>1. IInv /\ [Next]_vars => [Late]_vars
  <2> SUFFICES ASSUME IInv, Next, NEW s \in Servers, NEW c \in Conns,
                      conn[s][c] = "active", conn'[s][c] = "ending"
               PROVE  expired
    OBVIOUS
  <2>0. Typed /\ Stopping /\ c \in OpenAt(s)  BY DEF IInv, OpenAt, Open
  <2>1. CASE Poll
    <3>1. PICK cs \in SUBSET {d \in Conns : conn[i][d] \in {"new", "idle"}} : Poll!(cs)
      BY <2>1 DEF Poll
    <3>2. conn'[s][c] = conn[s][c]  BY <2>0, <3>1 DEF CloseConns, Typed
    <3> QED  BY <3>2
  <2>2. CASE Cut
    <3>1. Past(s)  BY <2>2 DEF Cut, Past
    <3> QED  BY <2>0, <3>1 DEF Stopping
  <2>3. ASSUME NEW t \in Servers, NEW d \in Conns, Connected(t, d)
        PROVE  FALSE
    <3>1. PICK x : Become(t, d, x) /\ x # "ending"
      BY <2>3 DEF Connected, Accept, Request, Respond, CloseConn, CloseAgain, Become
    <3> QED  BY <2>0, <3>1 DEF Become, Typed
  <2>4. CASE conn' = conn  BY <2>4
  <2> QED
    BY <2>1, <2>2, <2>3, <2>4
       DEF Next, Running, Serving, Cancel, Expire, Exited, vars, Bind, BindFails, Notice,
           Shutdown, Drained, Close, Turn, Return, ServeStart, TakePlace, GiveUpPlace,
           ServeEnds, AcceptFails
<1> QED  BY Inductive, <1>1, PTL DEF Spec, CutsOnlyLate
=============================================================================
