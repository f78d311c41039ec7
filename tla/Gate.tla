--------------------------------- MODULE Gate ---------------------------------
(***************************************************************************)
(* ServeHTTP up to the request slots: a request is turned away because of  *)
(* its size, its path, for want of a route, or by the policy of its route; *)
(* or it is counted by the limiter of its route, if that has one, for the  *)
(* client it is attributed to.  Routing says what is decided from the request alone, *)
(* RateLimiter how concurrent requests are counted, Validation which       *)
(* tables of routes there can be.                                          *)
(***************************************************************************)
EXTENDS RateLimiter, Validation

CONSTANTS
    Tables,          \* tables of routes a configuration may hold
    RoutesOf,        \* [Tables -> routes in configuration order]
    Nowhere,         \* a host no route names
    Withheld,        \* names of headers that no handler sees
    Malformed,       \* names of hosts that no request gets through with
    Requests,        \* records with large, whether the announced length is over the
                     \* limit, and host, path, query, method, headers, peer,
                     \* forwarded and realIP, as Routing describes them
    LimitedRoute     \* the name of the route with the rate limiter

Address == Keys \union {Invalid}

\* What net/http hands to a handler: it answers 400 to a host with white space or
\* any other character that no host has, and takes Host and Transfer-Encoding out
\* of the headers.
Sendable(req) ==
    /\ req.host.name \notin Malformed
    /\ DOMAIN req.headers \intersect Withheld = {}

\* The identities are those the requests have; no route is NoRoute or for Nowhere.
ASSUME GateAssumption ==
    /\ Nowhere.name \notin Malformed
    /\ \A req \in Requests :
         /\ Sendable(req)
         /\ req \in [large : BOOLEAN, host : {req.host}, path : Seq(STRING),
                    query : Nat, method : STRING, headers : {req.headers},
                    peer : Address, forwarded : Seq(Address), realIP : Address]
         /\ Identity(req) \in Keys
    /\ \A t \in Tables :
         /\ RoutesOf[t] \in Seq(Range(RoutesOf[t]) \ {NoRoute})
         /\ \A r \in Range(RoutesOf[t]) :
              /\ r.prefix \in Seq(STRING)
              /\ r.host = AnyHost \/ r.host.name # Nowhere.name

VARIABLES
    table,           \* the routes of the handler
    asked            \* what the request of each caller came to

gate == <<vars, table, asked>>

Unasked == [verdict |-> "none", counted |-> FALSE, client |-> NoCall.key,
            taken |-> {}, best |-> {}, claims |-> {}]

\* A handler is built from routes that were accepted.
Loaded == {t \in Tables : Accepted(RoutesOf[t])}

GateInit == Init /\ table \in Loaded /\ asked = [c \in Callers |-> Unasked]

-----------------------------------------------------------------------------
(* What the properties compare the decisions with.                         *)

\* The routes a request could take.
Takeable(t, req) ==
    {r \in Range(RoutesOf[t]) :
       /\ r.host = AnyHost \/ r.host.name = req.host.name
       /\ PathMatches(r.prefix, req.path)}

\* r is at least as specific as other: by its prefix, then by its host.
AtLeast(r, other) ==
    /\ Length(r.prefix) >= Length(other.prefix)
    /\ r.prefix = other.prefix /\ r.host = AnyHost => other.host = AnyHost

Best(t, req) == {r \in Takeable(t, req) : \A other \in Takeable(t, req) : AtLeast(r, other)}

\* The first header is the list a chain of proxies appends to, and the list of
\* req names an address that is no trusted proxy.
NamesClient(req) ==
    /\ req.peer \in TrustedProxies
    /\ Head(ClientHeaders) = "x-forwarded-for"
    /\ Range(req.forwarded) \ (TrustedProxies \union {Invalid}) # {}

\* The request, if its client had put an address in front of that list itself.
Claiming(req, claim) == [req EXCEPT !.forwarded = <<claim>> \o @]

\* A request made for a route: just its host and prefix, and what its policy asks for.
Fitting(r) ==
    [large |-> FALSE,
     host |-> IF r.host = AnyHost THEN Nowhere ELSE [name |-> r.host.name, trail |-> "", port |-> r.host.port],
     path |-> r.prefix,
     query |-> 0,
     method |-> IF r.policy.methods = {} THEN "GET" ELSE CHOOSE m \in r.policy.methods : TRUE,
     headers |-> [h \in r.policy.required |-> "set"]]

\* Validation lets pass a prefix that no safe path has, a policy that denies all of
\* its route, one that demands a header no handler sees, a host no request gets
\* through with, and a repeated host with a dot or white space before its port.
Forsaken(routes, r) ==
    \/ \E n \in DOMAIN r.prefix : r.prefix[n] \in Percent
    \/ \E prefix \in r.policy.deniedPrefixes : PathMatches(prefix, r.prefix)
    \/ r.policy.required \intersect Withheld # {}
    \/ r.host.name \in Malformed
    \/ \E s \in Range(routes) :
         /\ s # r /\ s.host.name = r.host.name /\ s.prefix = r.prefix
         /\ \E h \in {s.host, r.host} : h.trail # "" /\ h.port

-----------------------------------------------------------------------------
\* What a request comes to before any limiter.
Verdict(t, req) ==
    LET route == Match(RoutesOf[t], req) IN
    IF req.large THEN "request_too_large"
    ELSE IF ~SafePath(req.path) THEN "ambiguous_request_path"
    ELSE IF route = NoRoute THEN "route_not_found"
    ELSE IF Denied(route.policy, req) THEN "denied"
    ELSE "passed"

\* The names of the routes it takes: one or none.
Taken(t, req) ==
    IF Verdict(t, req) \in {"denied", "passed"} THEN {Match(RoutesOf[t], req).name} ELSE {}

\* The verdict on a request, the route it takes and, if the limiter sees it, the
\* client it counts for; with, for the properties, the names of the best routes
\* for it and the clients it could have been made to count for.
Judgement(t, req) ==
    LET counted == Verdict(t, req) = "passed" /\ LimitedRoute \in Taken(t, req) IN
    [verdict |-> Verdict(t, req),
     counted |-> counted,
     taken |-> Taken(t, req),
     client |-> IF counted THEN Identity(req) ELSE NoCall.key,
     best |-> {r.name : r \in Best(t, req)},
     claims |-> IF ~counted THEN {}
                ELSE {Identity(req)} \union
                     (IF NamesClient(req)
                      THEN {Identity(Claiming(req, claim)) : claim \in Address}
                      ELSE {})]

Judgements == {<<t, Judgement(t, req)>> : t \in Loaded, req \in Requests}

\* Accepted routes that do not get a request made for them.
Unreached ==
    UNION {{<<t, r.name>> : r \in {s \in Range(RoutesOf[t]) :
              /\ \/ ~Sendable(Fitting(s))
                 \/ Verdict(t, Fitting(s)) # "passed"
                 \/ Taken(t, Fitting(s)) # {s.name}
              /\ ~Forsaken(RoutesOf[t], s)}} : t \in Loaded}

\* A request never comes to a limiter.
PassBy(c, j) ==
    /\ ~Deciding(c)
    /\ ~j.counted
    /\ asked' = [asked EXCEPT ![c] = j]
    /\ caller' = [caller EXCEPT ![c] = NoCall]
    /\ UNCHANGED <<clock, buckets, decided, overtaken, table>>

\* A request is to be counted.
Count(c, j) ==
    /\ j.counted
    /\ asked' = [asked EXCEPT ![c] = j]
    /\ Begin(c, j.client)
    /\ UNCHANGED table

GateNext ==
    \/ \E c \in Callers, j \in Judgements :
         j[1] = table /\ (PassBy(c, j[2]) \/ Count(c, j[2]))
    \/ UNCHANGED <<table, asked>> /\ (Tick \/ \E c \in Callers : Decide(c))

GateSpec == GateInit /\ [][GateNext]_gate

-----------------------------------------------------------------------------
(* Properties                                                              *)

\* The route a request takes, and whose policy may deny it, is the most specific
\* of those it can take, in whatever order the configuration lists them
\* (router.go, Match); one that gets 404 could take none.
MostSpecificRoute ==
    \A c \in Callers :
        /\ asked[c].taken \subseteq asked[c].best
        /\ asked[c].verdict = "route_not_found" => asked[c].best = {}

\* What validation accepts can be used: a request made for a route gets to the
\* handler, takes that route and satisfies its policy (validate.go, Validate;
\* router.go, Match; policy.go, evaluateRoutePolicy), but for the cases of Forsaken.
RoutesReachable == \A n \in Unreached : n[1] # table

\* A request is counted for the address a trusted proxy appended for it
\* (clientip.go, fromXForwardedFor): what its client puts in front of that
\* makes it count neither for nor against anybody else.
CountedAsAppended ==
    \A c \in Callers : caller[c].outcome # "idle" => asked[c].claims = {caller[c].key}
=============================================================================
