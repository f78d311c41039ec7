------------------------------ MODULE Validation ------------------------------
(***************************************************************************)
(* What config.Validate demands of the routes of a configuration before    *)
(* any handler is built from them (internal/config/validate.go).  Routing  *)
(* says how a handler uses what was accepted.                              *)
(*                                                                         *)
(* The bounds on the number of routes, methods, prefixes and headers, the  *)
(* alphabet of names, and white space around texts other than hosts are    *)
(* left out.                                                               *)
(***************************************************************************)
EXTENDS Routing

CONSTANTS
    Pools,           \* the names of the configured pools
    Tokens,          \* well-formed method and header names
    MaxQueryBytes,   \* the largest policy.max_query_bytes
    MaxMaxKeys       \* the largest rate_limit.max_keys

\* Plausible slips, for the mutation checks.
Verbatim(host) == host

-----------------------------------------------------------------------------
\* normalizedHost of the validation: first white space and the dot go, then the
\* port, so what stands before a port stays.
ConfiguredHost(host) == <<host.name, IF host.port THEN host.trail ELSE "">>

\* ambiguousPath, of a text that will not be decoded.
AmbiguousPath(prefix) ==
    \E n \in DOMAIN prefix : prefix[n] \in {".", "..", "%2e", "%2e%2e"} \union Ambiguous

\* A prefix starts with a slash.
SoundPrefix(prefix) == prefix # <<>> /\ ~AmbiguousPath(prefix)

\* validateRoutePolicy; validation ignores the case of header names as the
\* policy does.
SoundPolicy(policy) ==
    /\ policy.methods \union policy.required \union policy.denied \subseteq Tokens
    /\ \A prefix \in policy.deniedPrefixes : SoundPrefix(prefix)
    /\ policy.required \intersect policy.denied = {}
    /\ policy.maxQuery \in 0..MaxQueryBytes

\* The limit of a route is a record with enabled, requests, window and maxKeys.
SoundLimit(limit) ==
    limit.enabled =>
        limit.requests > 0 /\ limit.window > 0 /\ limit.maxKeys \in 0..MaxMaxKeys

SoundRoute(r) ==
    /\ r.host.port \/ r.host.trail \in {"", "."}
    /\ SoundPrefix(r.prefix)
    /\ r.pool \in Pools
    /\ r.strategy \in {"round_robin", "least_connections"}
    /\ SoundPolicy(r.policy)
    /\ SoundLimit(r.limit)

\* Two routes are told apart by their names and by what they match.
Distinct(r, other) ==
    /\ r.name # other.name
    /\ ConfiguredHost(r.host) # ConfiguredHost(other.host) \/ r.prefix # other.prefix

Accepted(routes) ==
    /\ routes # <<>>
    /\ \A n \in DOMAIN routes : SoundRoute(routes[n])
    /\ \A m, n \in DOMAIN routes : m # n => Distinct(routes[m], routes[n])
=============================================================================
