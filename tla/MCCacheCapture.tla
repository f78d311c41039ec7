---------------------------- MODULE MCCacheCapture ----------------------------
(* CacheCapture with exchanges that are cacheable, forbidden, contradictory or  *)
(* out of range.                                                               *)
EXTENDS CacheCapture

Public == Word("public", {})
Custom == Word("custom", {})
MaxAge(n) == Word("max-age", {n})
Text(w) == <<Quote, w, Quote>>

\* The fields of Cache-Control.
Controls ==
    {<<>>, <<<<Public>>>>, <<<<Word("no-store", {})>>>>,
     <<<<Public>>, <<Word("private", {})>>>>,
     <<<<Word("private", {})>> \o Text(Custom)>>,
     <<<<Word("no-cache", {})>> \o Text(Custom) \o <<Comma, MaxAge(1)>>>>,
     <<<<Custom, Quote, Public, Comma, MaxAge(2), Quote, Comma, MaxAge(1)>>>>,
     <<<<Custom, Quote, Escape, Quote, Comma, MaxAge(2), Quote, Comma, MaxAge(1)>>>>,
     <<<<Custom, Quote, Public, Comma, MaxAge(1)>>>>,
     <<<<Word("max-age", {})>>>>, <<<<MaxAge(-1)>>>>, <<<<MaxAge(3)>>>>,
     <<<<MaxAge(2)>>, <<MaxAge(1)>>>>}
    \union {<<<<MaxAge(n), Comma, Word("s-maxage", {k})>>>> : n \in 0..2, k \in 0..2}

Get == [method |-> "GET", headers |-> {}, cacheControl |-> <<>>]
Askings ==
    {[Get EXCEPT !.method = "HEAD"]} \union
    {[Get EXCEPT !.headers = {h}] :
        h \in {"Authorization", "Cookie", "Range", "conditional", "Pragma: no-cache"}} \union
    {[Get EXCEPT !.cacheControl = c] : c \in Controls}

Ok == [status |-> 200, headers |-> {}, cacheControl |-> <<>>, expires |-> <<>>, age |-> <<>>]
Answers ==
    {[Ok EXCEPT !.status = 404]} \union
    {[Ok EXCEPT !.headers = {h}] : h \in {"Set-Cookie", "Vary", "Trailer", "Content-Range"}}
    \union
    {[Ok EXCEPT !.cacheControl = c, !.expires = e, !.age = a] :
        c \in Controls,
        e \in {<<>>, <<{}>>, <<{-9}>>, <<{0}>>, <<{1}>>, <<{9}>>},
        a \in {<<>>, <<{}>>, <<{1}>>, <<{2}>>, <<{3}>>, <<{0}, {1}>>}}

Samples == {<<q, Ok>> : q \in Askings} \union {<<Get, s>> : s \in Answers}
=============================================================================
