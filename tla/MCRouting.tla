------------------------------ MODULE MCRouting ------------------------------
\* Two paths, one of which two patterns match; right handshakes, such as have one thing wrong
\* with them, and requests with none.
EXTENDS Routing

Match == INSTANCE HandlerMatcher WITH Characters <- STRING, Lookups <- {}, uri <- <<>>, template <- <<>>

Path(name) == <<<<>>, <<name>>>>
SomePaths == {Path("a"), Path("b")}
SomePatterns == {Path("a"), Path("*")}
MatchTable == [path \in SomePaths, pattern \in SomePatterns |-> Match!CheckUriPattern(path, pattern)]
PathMatches(path, pattern) == MatchTable[path, pattern]
SomePredicates == {SomePaths, {Path("a")}}
SomePositions == {0, 1, 9}

Nonce(size, bytes, list, canonical) ==
    <<[size |-> size, bytes |-> bytes, list |-> list, canonical |-> canonical]>>
GoodRequest ==
    [path |-> Path("a"), method |-> "GET", connection |-> <<"upgrade">>, upgrade |-> <<"websocket">>,
     version |-> "13", protocol |-> FALSE, key |-> Nonce(24, 16, FALSE, TRUE), credentials |-> "absent"]
PlainRequest ==
    [GoodRequest EXCEPT !.connection = <<"blank", "other">>, !.upgrade = <<"other">>,
                        !.version = "absent", !.key = <<>>]
\* One thing wrong with each
WrongRequests ==
    {[GoodRequest EXCEPT !.method = "POST"], [GoodRequest EXCEPT !.version = "8"],
     [GoodRequest EXCEPT !.connection = <<"other">>]} \cup
    {[GoodRequest EXCEPT !.upgrade = u] : u \in {<<>>, <<"other">>, <<"other", "websocket">>}} \cup
    {[GoodRequest EXCEPT !.key = k] :
        k \in {<<>>, Nonce(20, 15, FALSE, TRUE), Nonce(24, 17, FALSE, TRUE), Nonce(24, 16, FALSE, FALSE)}}
\* Right ones, with credentials, for another path with blanks among the tokens; a candidate by
\* Sec-WebSocket-Protocol alone and one that is none, both without a key
SomeRequests ==
    {GoodRequest, PlainRequest, [PlainRequest EXCEPT !.protocol = TRUE],
     [GoodRequest EXCEPT !.credentials = "right"],
     [GoodRequest EXCEPT !.path = Path("b"), !.connection = <<"blank", "upgrade">>,
                         !.upgrade = <<"blank", "websocket">>]}
    \cup WrongRequests
=============================================================================
