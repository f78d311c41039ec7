-------------------------------- MODULE MCGate --------------------------------
(* Gate with overlapping routes in an unfavourable order, and requests that  *)
(* reach each of them, are turned away at each point, or come through a chain *)
(* of trusted proxies.                                                       *)
EXTENDS Gate, TLC

CONSTANTS k1, k2, proxy

Open == [maxQuery |-> 0, methods |-> {}, deniedPrefixes |-> {}, required |-> {}, denied |-> {}]
Strict == [maxQuery |-> 1, methods |-> {"GET"}, deniedPrefixes |-> {<<"a", "secret">>},
           required |-> {"key"}, denied |-> {"debug"}]
Unlimited == [enabled |-> FALSE, requests |-> 0, window |-> 0, maxKeys |-> 0]
Limited == [enabled |-> TRUE, requests |-> Limit, window |-> Window, maxKeys |-> MaxKeys]
Host(name) == [name |-> name, trail |-> "", port |-> FALSE]
Api == Host("api")
Port(host) == [host EXCEPT !.port = TRUE]
Dot(host) == [host EXCEPT !.trail = "."]
Spaced(host) == [host EXCEPT !.trail = " "]
Elsewhere == Host("other")
Route(name, host, prefix, policy) ==
    [name |-> name, host |-> host, prefix |-> prefix, policy |-> policy,
     pool |-> "pool", strategy |-> "round_robin", limit |-> Unlimited]
Barred == [Open EXCEPT !.deniedPrefixes = {<<"a">>}]
Unseen == [Open EXCEPT !.required = {"host"}]
Contrary == [Open EXCEPT !.required = {"key"}, !.denied = {"key"}]

\* Accepted: overlapping routes; hosts with dots and ports; routes no request can
\* reach.  Rejected: repeated matches and names, and unsound routes.
Samples ==
    [mixed   |-> << Route("any", AnyHost, <<"a">>, Open),
                    [Route("limited", Api, <<"a">>, Strict) EXCEPT !.limit = Limited],
                    Route("slash", AnyHost, <<"a", "">>, Open),
                    Route("root", Host("site"), <<"">>, Open) >>,
     hosts   |-> << Route("api", Api, <<"a">>, Strict),
                    Route("port", Port(Api), <<"a", "">>, Open),
                    Route("dot", Dot(Host("site")), <<"a">>, Open),
                    Route("rest", AnyHost, <<"">>, Open) >>,
     lost    |-> << Route("api", Api, <<"a">>, Open),
                    Route("both", Port(Dot(Api)), <<"a">>, Open),
                    Route("percent", Api, <<"a%20b">>, Open),
                    Route("barred", Host("site"), <<"a">>, Barred),
                    Route("spaced", Port(Spaced(Api)), <<"a">>, Open),
                    Route("unseen", Host("site"), <<"">>, Unseen),
                    Route("slashed", Host("a/b"), <<"">>, Open) >>,
     space   |-> << Route("space", Spaced(Api), <<"a">>, Open) >>,
     ports   |-> << Route("api", Api, <<"a">>, Open), Route("port", Port(Api), <<"a">>, Open) >>,
     dots    |-> << Route("dot", Dot(Api), <<"a">>, Open), Route("api", Api, <<"a">>, Open) >>,
     names   |-> << Route("api", Api, <<"a">>, Open), Route("api", Api, <<"">>, Open) >>,
     unsafe  |-> << Route("unsafe", Api, <<"a", "..">>, Open) >>,
     encoded |-> << Route("encoded", Api, <<"a%2Fb">>, Open) >>,
     contrary |-> << Route("contrary", Api, <<"a">>, Contrary) >>,
     poolless |-> << [Route("poolless", Api, <<"a">>, Open) EXCEPT !.pool = "missing"] >>,
     none    |-> <<>>]
SampleNames == DOMAIN Samples

Plain == [large |-> FALSE, host |-> Api, path |-> <<"a">>, query |-> 0, method |-> "GET",
          headers |-> [key |-> "set"], peer |-> k1, forwarded |-> <<>>, realIP |-> Invalid]
Through(entries) == [Plain EXCEPT !.peer = proxy, !.forwarded = entries]

Chains == UNION {[1..n -> {k1, k2, proxy, Invalid}] : n \in 0..3}
Counted == {Plain} \union {Through(entries) : entries \in Chains}
Mixed == {[Plain EXCEPT !.host = h, !.path = p] :
            h \in {Api, Port(Dot(Api)), Host("site"), Elsewhere},
            p \in {<<"">>, <<"a">>, <<"a", "">>, <<"a", "x">>, <<"ab">>, <<"a", "..">>,
                   <<"a%2Fb">>, <<"a%20b">>, <<"a", "secret", "x">>}}
Refused == {[Plain EXCEPT !.large = TRUE], [Plain EXCEPT !.query = 2], [Plain EXCEPT !.method = "PUT"],
            [Plain EXCEPT !.headers = [key |-> "blank"]],
            [Plain EXCEPT !.headers = [key |-> "set", debug |-> "blank"]]}
Arrivals == Counted \union Mixed \union Refused

Headers == <<"x-forwarded-for", "x-real-ip">>

Interchangeable == Permutations(Callers)
=============================================================================
