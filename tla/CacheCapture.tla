---------------------------- MODULE CacheCapture ----------------------------
(***************************************************************************)
(* Copying response bodies for the cache while they stream to the client   *)
(* (cacheCaptureBody and reserveCacheCapture in internal/proxy/handler.go).*)
(* The bodies of concurrent requests share one atomic byte budget, taken   *)
(* with a compare-and-swap loop and given back when a body is committed,   *)
(* overflows or is closed early.  CachePolicy decides what is captured.    *)
(***************************************************************************)
EXTENDS CachePolicy, FiniteSets

CONSTANTS
    Bodies,          \* responses being proxied on a miss
    MaxLength,       \* bound on the length of a body
    MaxCacheBody,    \* cache.max_bytes: bound on one body and on them all
    MaxChunk,        \* bound on the bytes one Read returns
    Exchanges,       \* pairs of a request and the response to it:
                     \* method, headers, cacheControl; status, headers,
                     \* cacheControl, expires, age
    MaxTime          \* bound on the clock

\* What the headers of a response give as numbers: none, or one.
Numbers(s) ==
    {s.expires[i] : i \in DOMAIN s.expires} \union {s.age[i] : i \in DOMAIN s.age}

\* A header is a list of fields, a field one of words; of the other headers the
\* ones the policy looks at are told apart.
ASSUME CaptureAssumption ==
    /\ IsFiniteSet(Bodies)
    /\ MaxCacheBody \in Nat \ {0}
    /\ MaxChunk \in Nat \ {0}
    /\ MaxLength \in Nat /\ MaxTime \in Nat
    /\ \A e \in Exchanges :
         /\ e[1].cacheControl \in Seq(Seq(Words)) /\ e[2].cacheControl \in Seq(Seq(Words))
         /\ e[1].headers \subseteq {"Authorization", "Cookie", "Range", "conditional",
                                   "Pragma: no-cache"}
         /\ e[2].headers \subseteq {"Set-Cookie", "Vary", "Trailer", "Content-Range"}
         /\ e[2].expires \in Seq(SUBSET Int) /\ e[2].age \in Seq(SUBSET Int)
         /\ \A v \in Numbers(e[2]) : \A m, n \in v : m = n

VARIABLES
    pc,          \* where each body's Read or Close is
    length,      \* the bytes of each whole body
    left,        \* those the upstream has still to send
    chunk,       \* the bytes and the end of the Read in progress
    seen,        \* what the compare-and-swap loop loaded
    buffer,      \* len(buffer), which is also the reserved count
    overflow,    \* bodies that gave up capturing
    finished,    \* bodies that committed or discarded their buffer
    capture,     \* Handler.cacheCapture
    now,
    judged,      \* when the headers of each response arrived, what Evaluate made
                 \* of them, and what it ought to have made of them
    cached       \* what reached Cache.Set

vars == <<pc, length, left, chunk, seen, buffer, overflow, finished, capture, now,
          judged, cached>>

Chunk == [n : 0..MaxChunk, eof : BOOLEAN]
NoChunk == [n |-> 0, eof |-> FALSE]
Unjudged == [at |-> 0, ttl |-> 0, fresh |-> 0, shareable |-> FALSE, wraps |-> FALSE]

\* The types; in particular capture, an int64 in the code, never goes below
\* zero, so no reservation is given back twice, and no lifetime is negative.
TypeOK ==
    /\ pc \in [Bodies -> {"headers", "idle", "check", "load", "swap", "drop",
                          "end", "discard", "closing", "closed"}]
    /\ length \in [Bodies -> 0..MaxLength]
    /\ left \in [Bodies -> 0..MaxLength]
    /\ chunk \in [Bodies -> Chunk]
    /\ seen \in [Bodies -> Nat]
    /\ buffer \in [Bodies -> 0..MaxCacheBody]
    /\ overflow \subseteq Bodies
    /\ finished \subseteq Bodies
    /\ capture \in Nat
    /\ now \in 0..MaxTime
    /\ DOMAIN judged = Bodies
    /\ \A b \in Bodies : judged[b].at \in 0..MaxTime /\ judged[b].ttl \in 0..MaxDuration
    /\ cached \subseteq [body : Bodies, size : Nat, expiresAt : Nat]

Init ==
    /\ pc = [b \in Bodies |-> "headers"]
    /\ length = [b \in Bodies |-> 0]
    /\ left = [b \in Bodies |-> 0]
    /\ chunk = [b \in Bodies |-> NoChunk]
    /\ seen = [b \in Bodies |-> 0]
    /\ buffer = [b \in Bodies |-> 0]
    /\ overflow = {}
    /\ finished = {}
    /\ capture = 0
    /\ now = 0
    /\ judged = [b \in Bodies |-> Unjudged]
    /\ cached = {}

Goto(b, from, to) == pc[b] = from /\ pc' = [pc EXCEPT ![b] = to]

-----------------------------------------------------------------------------
(* Plausible slips, for the mutation checks.                               *)
AddBlindly(b) == TRUE
CommitOverflowed(b) == b \notin finished
RetryStale == "swap"

-----------------------------------------------------------------------------
(* What the properties compare the policy with.                            *)

\* What the grammar of HTTP makes of the words of a list, one after another: an
\* element is a "token", or "quoted", where a backslash makes a "pair" with the next.
Grammar ==
    [token  |-> [quote |-> "quoted", escape |-> "token",  other |-> "token"],
     quoted |-> [quote |-> "token",  escape |-> "pair",   other |-> "quoted"],
     pair   |-> [quote |-> "quoted", escape |-> "quoted", other |-> "quoted"]]
Kind(w) == IF w = Quote THEN "quote" ELSE IF w = Escape THEN "escape" ELSE "other"
Reading(line) ==
    LET at[n \in 0..Len(line)] ==
          IF n = 0 THEN "token" ELSE Grammar[at[n - 1]][Kind(line[n])]
    IN at

\* The words that start an element of the list, and the values the elements of
\* one name give.
Starts(line) ==
    {k \in DOMAIN line : k = 1 \/ (line[k - 1] = Comma /\ Reading(line)[k - 1] = "token")}
Given(fields, name) ==
    LET line == Line(fields)
    IN {line[k].value : k \in {s \in Starts(line) : line[s].name = name}}

\* Neither side says that the response is for one client only, or is no plain
\* and complete answer.
Shareable(q, s) ==
    /\ q.method = "GET" /\ s.status = 200
    /\ q.headers = {} /\ s.headers = {}
    /\ Given(q.cacheControl, "no-store") = {}
    /\ \A name \in {"no-store", "private", "no-cache"} : Given(s.cacheControl, name) = {}

\* How much longer the upstream calls the response fresh, by the most specific
\* of its statements and the least value it gives there.
Fresh(s, t) ==
    LET shared == UNION Given(s.cacheControl, "s-maxage")
        all == UNION Given(s.cacheControl, "max-age")
        stated == IF shared # {} THEN shared ELSE IF all # {} THEN all
                  ELSE IF s.expires # <<>> THEN {e - t : e \in Head(s.expires)}
                  ELSE {DefaultTTL}
        age == Max({0} \union UNION ToSet(s.age))
    IN IF stated = {} THEN 0 ELSE Max({0, Min(stated) - age})

-----------------------------------------------------------------------------
\* ModifyResponse: neither a partial response nor one with trailers.
Capturable(s) == s.headers \intersect {"Trailer", "Content-Range"} = {}

\* The decision on an exchange at time t, with what the properties need.
Judgement(q, s, t) ==
    [at |-> t,
     ttl |-> IF Capturable(s) THEN Lifetime(q, s, t) ELSE 0,
     fresh |-> Fresh(s, t),
     shareable |-> Shareable(q, s),
     wraps |-> \E ttl \in Stated(s, t), age \in Age(s) : Wrapped(ttl - age) # ttl - age]

Judgements == {Judgement(e[1], e[2], t) : e \in Exchanges, t \in 0..MaxTime}

\* ModifyResponse wraps the body of a response that may be cached; any other
\* streams by.
Headers(b, j, n) ==
    /\ Goto(b, "headers", IF j.ttl > 0 THEN "idle" ELSE "closed")
    /\ j.at = now
    /\ judged' = [judged EXCEPT ![b] = IF j.ttl > 0 THEN j ELSE Unjudged]
    /\ length' = [length EXCEPT ![b] = IF j.ttl > 0 THEN n ELSE 0]
    /\ left' = [left EXCEPT ![b] = length'[b]]
    /\ UNCHANGED <<chunk, seen, buffer, overflow, finished, capture,
                   now, cached>>

\* The upstream's Read returns n bytes, with io.EOF when nothing is left.
ReadChunk(b) ==
    \E n \in 0..MaxChunk, eof \in BOOLEAN :
        /\ n <= left[b]
        /\ n > 0 \/ eof
        /\ eof => n = left[b]
        /\ b \notin finished
        /\ Goto(b, "idle", "check")
        /\ left' = [left EXCEPT ![b] = @ - n]
        /\ chunk' = [chunk EXCEPT ![b] = [n |-> n, eof |-> eof]]
        /\ UNCHANGED <<length, seen, buffer, overflow, finished, capture, now, judged, cached>>

\* Read returns once the chunk is captured, dropped or passed over, or goes on
\* to finish; its local variables are gone.
Rest(b) == IF chunk[b].eof THEN "end" ELSE "idle"
ForgetChunk(b) ==
    /\ chunk' = [chunk EXCEPT ![b] = NoChunk]
    /\ seen' = [seen EXCEPT ![b] = 0]

PassOver(b) ==
    /\ b \in overflow \/ chunk[b].n = 0
    /\ Goto(b, "check", Rest(b))
    /\ ForgetChunk(b)
    /\ UNCHANGED <<length, left, buffer, overflow, finished, capture,
                   now, judged, cached>>

\* The bound on one body; overflow is set before the buffer is discarded.
Measure(b) ==
    LET fits == buffer[b] + chunk[b].n <= MaxCacheBody IN
    /\ b \notin overflow /\ chunk[b].n > 0
    /\ Goto(b, "check", IF fits THEN "load" ELSE "drop")
    /\ overflow' = IF fits THEN overflow ELSE overflow \union {b}
    /\ UNCHANGED <<length, left, chunk, seen, buffer, finished, capture, now, judged, cached>>

\* reserveCacheCapture: load the budget in use and compare.
Load(b) ==
    LET fits == chunk[b].n <= MaxCacheBody - capture IN
    /\ Goto(b, "load", IF fits THEN "swap" ELSE "drop")
    /\ seen' = [seen EXCEPT ![b] = capture]
    /\ overflow' = IF fits THEN overflow ELSE overflow \union {b}
    /\ UNCHANGED <<length, left, chunk, buffer, finished, capture, now, judged, cached>>

\* The comparison of the compare-and-swap, and where a failed one goes.
Unchanged(b) == capture = seen[b]
Again == "load"

Swap(b) ==
    /\ Unchanged(b)
    /\ Goto(b, "swap", Rest(b))
    /\ capture' = seen[b] + chunk[b].n
    /\ buffer' = [buffer EXCEPT ![b] = @ + chunk[b].n]
    /\ ForgetChunk(b)
    /\ UNCHANGED <<length, left, overflow, finished, now, judged, cached>>

Retry(b) ==
    /\ ~Unchanged(b)
    /\ Goto(b, "swap", Again)
    /\ UNCHANGED <<length, left, chunk, seen, buffer, overflow, finished, capture,
                   now, judged, cached>>

\* discard: the reservation goes back and the buffer is dropped.
Discarded(b) == capture - buffer[b]
Discard(b) == capture' = Discarded(b) /\ buffer' = [buffer EXCEPT ![b] = 0]

Drop(b) ==
    /\ Goto(b, "drop", Rest(b))
    /\ Discard(b)
    /\ ForgetChunk(b)
    /\ UNCHANGED <<length, left, overflow, finished, now, judged, cached>>

\* finish(!overflow) at io.EOF: the body is complete.
MayCommit(b) == b \notin overflow

Finish(b) ==
    /\ Goto(b, "end", "discard")
    /\ finished' = finished \union {b}
    /\ cached' = IF MayCommit(b)
                 THEN cached \union
                      {[body |-> b, size |-> buffer[b], expiresAt |-> now + judged[b].ttl]}
                 ELSE cached
    /\ UNCHANGED <<length, left, chunk, seen, buffer, overflow, capture, now, judged>>

FinishDiscard(b) ==
    /\ Goto(b, "discard", "idle")
    /\ Discard(b)
    /\ UNCHANGED <<length, left, chunk, seen, overflow, finished, now, judged, cached>>

\* Close, after the end of the body, a broken upstream or a client that went:
\* finish(false) unless the body is finished.
Close(b) ==
    /\ Goto(b, "idle", IF b \in finished THEN "closed" ELSE "closing")
    /\ finished' = finished \union {b}
    /\ UNCHANGED <<length, left, chunk, seen, buffer, overflow, capture, now, judged, cached>>

CloseDiscard(b) ==
    /\ Goto(b, "closing", "closed")
    /\ Discard(b)
    /\ UNCHANGED <<length, left, chunk, seen, overflow, finished, now, judged, cached>>

Tick ==
    /\ now < MaxTime
    /\ now' = now + 1
    /\ UNCHANGED <<length, pc, left, chunk, seen, buffer, overflow, finished, capture,
                   judged, cached>>

\* Every response has been delivered.
AllClosed == (\A b \in Bodies : pc[b] = "closed") /\ UNCHANGED vars

Stream(b) ==
    \/ ReadChunk(b) \/ PassOver(b) \/ Measure(b)
    \/ Load(b) \/ Swap(b) \/ Retry(b) \/ Drop(b)
    \/ Finish(b) \/ FinishDiscard(b)
    \/ Close(b) \/ CloseDiscard(b)

Next ==
    \/ \E b \in Bodies : Stream(b) \/ \E j \in Judgements , n \in 0..MaxLength : Headers(b, j, n)
    \/ Tick
    \/ AllClosed

\* A body that streams goes on or is closed: see Handler!RequestsLeave.
Spec == Init /\ [][Next]_vars /\ \A b \in Bodies : WF_vars(Stream(b))

-----------------------------------------------------------------------------
(* Properties                                                              *)

\* The bytes of the bodies that their buffers hold.
Held(buf) == {byte \in Bodies \X (1..MaxCacheBody) : byte[2] <= buf[byte[1]]}

\* The shared budget is exactly what the open bodies have buffered, so it
\* returns to zero, and it never exceeds the configured bound, whatever the
\* order of the loads, swaps and discards of concurrent bodies.
BudgetAccounted ==
    /\ TypeOK
    /\ capture = Cardinality(Held(buffer))
    /\ capture <= MaxCacheBody

\* Only a body that arrived completely and was captured completely reaches
\* the cache, and only once.
CommitsWholeBodies ==
    /\ \A c \in cached : c.size = length[c.body]
    /\ \A c, d \in cached : c.body = d.body => c = d

\* The compare-and-swap loop ends for every body: a failed swap means that
\* another body made progress, and bodies are finite.
ReservationsEnd ==
    \A b \in Bodies : pc[b] = "load" ~> pc[b] \notin {"load", "swap"}

\* Whatever is in the cache may be shared (policy.go, Evaluate): no request with
\* credentials or conditions led to it, and no field and no element of its
\* Cache-Control forbids it, also next to quoted or valued elements.
OnlyShareable == \A c \in cached : judged[c.body].shareable

\* A response is not given a longer lifetime than the most cautious reading of
\* its s-maxage, max-age, Expires and Age leaves it (policy.go, Evaluate),
\* unless the subtraction of the Age wraps.
WithinFreshness ==
    \A b \in Bodies : judged[b].ttl > judged[b].fresh => judged[b].wraps

-----------------------------------------------------------------------------
(* What the documentation says and the code does not do.                   *)

\* gefahr-docs, caching: "Gefahr uses upstream freshness when available".  An
\* Expires further in the past than a duration reaches, less an Age, wraps into
\* a lifetime; and with time any lifetime is overrun, because it is found when
\* the headers arrive but counted from the commit.
FreshnessIsUpstreams ==
    \A c \in cached : c.expiresAt <= judged[c.body].at + judged[c.body].fresh
=============================================================================
