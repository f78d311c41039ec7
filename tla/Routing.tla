------------------------------- MODULE Routing -------------------------------
(***************************************************************************)
(* What ServeHTTP decides from the request alone: whether its path is safe *)
(* to route (safeRequestPath), its route (internal/routing), whether the   *)
(* policy of the route denies it (internal/proxy/policy.go), and which     *)
(* client it counts for (internal/proxy/clientip.go).                      *)
(*                                                                         *)
(* A path or a prefix is the sequence of what stands between its slashes:  *)
(* "/" is <<"">>, "/a" is <<"a">> and "/a/" is <<"a", "">>.  A host is a   *)
(* name, the dot or white space around it, and whether a port follows;     *)
(* names are in lower case and addresses in their normal form.             *)
(***************************************************************************)
EXTENDS Naturals, Sequences, SequencesExt

CONSTANTS
    NoRoute,
    Ambiguous,       \* segments with a backslash, or an encoded slash, backslash or percent
    Percent,         \* segments with another percent sign
    TrustedProxies,  \* the addresses client_ip.trusted_proxies contains
    ClientHeaders,   \* client_ip.headers, in their order
    Invalid          \* what is not an IP address

\* What newClientIPPolicy demands: trusted proxies come with headers, of two names.
ASSUME RoutingAssumption ==
    /\ Invalid \notin TrustedProxies
    /\ ClientHeaders \in Seq({"x-forwarded-for", "x-real-ip"})
    /\ TrustedProxies # {} => ClientHeaders # <<>>

\* An address that nobody but a client has.
Foreigner(a) == a \notin TrustedProxies \union {Invalid}

\* No host in a route: it serves any.
AnyHost == [name |-> "", trail |-> "", port |-> FALSE]

\* Plausible slips, for the mutation checks.
FirstOfEqualLength(r, best, longer, equal) == longer
LeftmostForeign(chain) == SelectInSeq(chain, Foreigner)

-----------------------------------------------------------------------------
\* safeRequestPath, of a decoded path: what holds a percent sign there was sent
\* with an encoded one.
SafePath(path) ==
    \A n \in DOMAIN path : path[n] \notin {".", ".."} \union Ambiguous \union Percent

\* normalizeHost: first the port goes, then white space and the dot.
Normalized(host) == host.name

Trimmed(prefix) == IF Last(prefix) = "" THEN Front(prefix) ELSE prefix

\* pathMatches and policyPathMatches.
PathMatches(prefix, path) == path = prefix \/ IsStrictPrefix(Trimmed(prefix), path)

\* Orders prefixes of one path as the lengths of their text do.
Length(prefix) == 2 * Len(prefix) - (IF Last(prefix) = "" THEN 1 ELSE 0)

\* Candidates, of which Match considers those whose prefix matches.
Compatible(r, req) ==
    /\ r.host = AnyHost \/ Normalized(r.host) = Normalized(req.host)
    /\ PathMatches(r.prefix, req.path)

\* The choice between two compatible routes.
Preferred(r, best, longer, equal) ==
    longer \/ (equal /\ best.host = AnyHost /\ r.host # AnyHost)

Better(r, best) ==
    best = NoRoute
    \/ Preferred(r, best, Length(r.prefix) > Length(best.prefix),
                          Length(r.prefix) = Length(best.prefix))

\* The routes are in configuration order: records with name, host, prefix,
\* policy, and what else Validation looks at.
Match(routes, req) ==
    FoldLeft(LAMBDA best, r : IF Compatible(r, req) /\ Better(r, best) THEN r ELSE best,
             NoRoute, routes)

\* evaluateRoutePolicy.  headers maps the names that are present to whether the
\* first value is blank.
Denied(policy, req) ==
    \/ policy.maxQuery > 0 /\ req.query > policy.maxQuery
    \/ policy.methods # {} /\ req.method \notin policy.methods
    \/ \E prefix \in policy.deniedPrefixes : PathMatches(prefix, req.path)
    \/ \E h \in policy.required : h \notin DOMAIN req.headers \/ req.headers[h] = "blank"
    \/ \E h \in policy.denied : h \in DOMAIN req.headers

\* The place in a chain of addresses of the client, 0 if all are trusted.
Foreign(chain) == SelectLastInSeq(chain, Foreigner)

\* fromXForwardedFor; entries that are no address count for nothing.
FromForwarded(entries) ==
    LET first == SelectInSeq(entries, LAMBDA a : a # Invalid) IN
    IF Foreign(entries) # 0 THEN entries[Foreign(entries)]
    ELSE IF first # 0 THEN entries[first] ELSE Invalid

Named(header, req) ==
    IF header = "x-forwarded-for" THEN FromForwarded(req.forwarded) ELSE req.realIP

\* Identity
Identity(req) ==
    LET usable == SelectInSeq(ClientHeaders, LAMBDA h : Named(h, req) # Invalid) IN
    IF req.peer = Invalid THEN "unknown"
    ELSE IF req.peer \notin TrustedProxies \/ usable = 0 THEN req.peer
    ELSE Named(ClientHeaders[usable], req)
=============================================================================
