----------------------------- MODULE CachePolicy -----------------------------
(***************************************************************************)
(* Which responses a shared cache may keep, and for how long               *)
(* (internal/cache/policy.go).  A Cache-Control line is the sequence of its *)
(* separators and words: a comma, a double quote, a backslash, or          *)
(* name=value, where value is the set of the integers it parses to, bare or *)
(* in quotes: one, or none.  Durations are whole seconds of a signed type  *)
(* that wraps.                                                             *)
(***************************************************************************)
EXTENDS Integers, Sequences, SequencesExt, FiniteSetsExt

CONSTANTS
    MaxDuration,     \* math.MaxInt64 nanoseconds; the least is one further off
    DefaultTTL       \* cache.default_ttl

ASSUME PolicyAssumption == MaxDuration \in Nat /\ DefaultTTL \in 1..MaxDuration

Words == {w \in [name : STRING, value : SUBSET Int] : \A m, n \in w.value : m = n}
Word(name, value) == [name |-> name, value |-> value]
Comma == Word(",", {})
Quote == Word("\"", {})
Escape == Word("\\", {})

-----------------------------------------------------------------------------
(* Plausible slips, for the mutation checks.                               *)
OnlyBare(part) == IF Len(part) = 1 THEN Head(part) ELSE Word("", {})
AgeIgnored(s) == {0}

-----------------------------------------------------------------------------
\* cacheControlValue: the fields of one name are one list.
Line(fields) ==
    IF fields = <<>> THEN <<>>
    ELSE FoldLeft(LAMBDA all, f : all \o <<Comma>> \o f, Head(fields), Tail(fields))

\* The directive of a part: its name and, if it is nothing but that, its value.
Directive(part) ==
    IF part = <<>> THEN Word("", {})
    ELSE Word(Head(part).name, IF Len(part) = 1 THEN Head(part).value ELSE {})

\* The loop of splitCacheControl: a comma ends a part unless it is quoted, a
\* backslash escapes while quoted.
NoParts == [parts |-> <<>>, part |-> <<>>, quoted |-> FALSE, escaped |-> FALSE]
SplitWord(at, w) ==
    IF at.escaped THEN [at EXCEPT !.escaped = FALSE, !.part = Append(@, w)]
    ELSE IF w = Comma /\ ~at.quoted
    THEN [at EXCEPT !.parts = Append(@, Directive(at.part)), !.part = <<>>]
    ELSE [at EXCEPT !.escaped = at.quoted /\ w = Escape,
                    !.quoted = IF w = Quote THEN ~@ ELSE @,
                    !.part = Append(@, w)]

\* splitCacheControl: an open quotation makes the line invalid.
Split(line) ==
    LET end == FoldLeft(SplitWord, NoParts, line)
    IN [valid |-> ~end.quoted /\ ~end.escaped,
        parts |-> Append(end.parts, Directive(end.part))]

\* hasDirective
Has(parts, name) == \E i \in DOMAIN parts : parts[i].name = name

\* A number of seconds that is one, and fits a duration.
Valid(value) == value # {} /\ value \subseteq 0..MaxDuration

\* directiveSeconds and the checks of its results: {} rejects the response.
Seconds(parts, name) ==
    LET found == {i \in DOMAIN parts : parts[i].name = name}
    IN UNION {parts[i].value : i \in {k \in found : found = {k} /\ Valid(parts[k].value)}}

RequestEligible(q) ==
    LET line == Split(Line(q.cacheControl)) IN
    /\ q.method = "GET"
    /\ q.headers \intersect {"Authorization", "Cookie", "Range", "conditional",
                             "Pragma: no-cache"} = {}
    /\ line.valid
    /\ \A name \in {"no-cache", "no-store", "max-age", "min-fresh"} : ~Has(line.parts, name)

\* Evaluate up to the lifetime.
Storable(q, s) ==
    LET line == Split(Line(s.cacheControl)) IN
    /\ RequestEligible(q)
    /\ s.status = 200
    /\ s.headers \intersect {"Set-Cookie", "Vary"} = {}
    /\ line.valid
    /\ \A name \in {"no-store", "private", "no-cache"} : ~Has(line.parts, name)

\* Subtracting durations wraps; time.Until does not, it saturates.
Wrapped(d) == ((d + MaxDuration + 1) % (2 * MaxDuration + 2)) - MaxDuration - 1
Until(t, now) == Max({-MaxDuration - 1, Min({MaxDuration, t - now})})

\* The lifetime the headers give before the Age, {} when they are rejected.
Stated(s, now) ==
    LET parts == Split(Line(s.cacheControl)).parts IN
    IF Has(parts, "s-maxage") THEN Seconds(parts, "s-maxage")
    ELSE IF Has(parts, "max-age") THEN Seconds(parts, "max-age")
    ELSE IF s.expires # <<>> THEN {Until(t, now) : t \in Head(s.expires)}
    ELSE {DefaultTTL}

Age(s) ==
    IF s.age = <<>> THEN {0}
    ELSE IF Len(s.age) = 1 /\ Valid(Head(s.age)) THEN Head(s.age) ELSE {}

\* Evaluate: Decision.TTL, or 0 if the response is not to be cached.
Lifetime(q, s, now) ==
    Max({0} \union {Wrapped(ttl - age) : ttl \in Stated(s, now), age \in Age(s)}) *
    (IF Storable(q, s) THEN 1 ELSE 0)
=============================================================================
