------------------------------- MODULE Routing -------------------------------
(***************************************************************************)
(* HandlerProviderRegistry and the ProviderRegistryBuilder in front of it   *)
(* (routing/), with the handshake check that a websocket route makes        *)
(* (websocket/WebSocketUpgradeHandler.cpp).                                 *)
(*                                                                          *)
(* The application registers routes, filters and interceptors in any order, *)
(* then requests come.  A predicate is the set of paths it lets pass; an    *)
(* interceptor asks for credentials or tries the next step twice; a         *)
(* response is its status and the filters it went through.  Of the headers  *)
(* of a request: Connection and Upgrade are sequences of tokens, an absent   *)
(* one the empty sequence; a key is the size of its text, the number of      *)
(* bytes it decodes to, whether it is a list and whether these bytes encode  *)
(* to it again, or <<>> if there is none.                                    *)
(***************************************************************************)
EXTENDS Integers, FiniteSets, SequencesExt

CONSTANTS
    Paths,              \* paths of requests
    Patterns,           \* what routes are registered for
    Matches(_, _),      \* defaultCheckUriPattern: a path and a pattern
    Predicates,         \* what a predicate of the application may let pass: sets of paths
    Positions,          \* positions that addAt() may be given
    Requests,           \* requests that may come (environment)
    MaxRegistrations,   \* registrations before the server starts (environment bound)
    MaxRequests         \* requests that are served (environment bound)

ASSUME PositionsAssumption == Positions \subseteq Nat
ASSUME RequestsAssumption  ==
    \A r \in Requests :
        /\ r.path \in Paths /\ r.protocol \in BOOLEAN
        /\ r.connection \in Seq(STRING) /\ r.upgrade \in Seq(STRING)
        /\ r.key # <<>> =>
            /\ r.key[1] \in [size : Nat, bytes : Nat, list : BOOLEAN, canonical : BOOLEAN]
            /\ r.key = <<r.key[1]>>

VARIABLES
    routes,             \* factories_
    websockets,         \* websocketHandlerCount_ of the builder
    spent,              \* websocket routes whose factory has given its callbacks away
    filters,            \* globalRequestFilter_: the predicates, the first one first
    interceptors,       \* globalRequestInterceptor_: the first one is the innermost
    decorations,        \* globalResponseFilter_: the filters, the first one first
    custom,             \* defaultFactory_ is set
    registrations,      \* registrations so far
    served, requests    \* history: the last request and its answer; how many there were

setup == <<routes, websockets, filters, interceptors, decorations, custom, registrations>>
routingVars == <<setup, spent, served, requests>>

-----------------------------------------------------------------------------
(* The handshake *)

Result(status) == [status |-> status, marks |-> <<>>]

\* splitHeaderTokens: what is not blank, by its place
Tokens(header) == {n \in DOMAIN header : header[n] # "blank"}

HasToken(header, token) == \E n \in Tokens(header) : header[n] = token

\* isWebSocketUpgradeCandidate
IsCandidate(r) ==
    \/ r.key # <<>> \/ r.version # "absent" \/ r.protocol
    \/ HasToken(r.upgrade, "websocket")
    \/ HasToken(r.connection, "upgrade")

\* Mutant of Conflicting: Upgrade may name other protocols beside websocket.
BugAnyUpgrade(header) == ~HasToken(header, "websocket")

\* hasConflictingUpgradeHeaderValue
Conflicting(header) == Cardinality(Tokens(header)) # 1 \/ ~HasToken(header, "websocket")

\* Mutant of UpgradeFailure: whatever decodes to 16 bytes is a key.
BugAnyKey(r) ==
    IF r.method # "GET" THEN "InvalidMethod"
    ELSE IF ~HasToken(r.connection, "upgrade") \/ r.upgrade = <<>> THEN "MissingUpgradeIntent"
    ELSE IF Conflicting(r.upgrade) THEN "ConflictingHeaders"
    ELSE IF r.version # "13" THEN "UnsupportedVersion"
    ELSE IF r.key = <<>> \/ r.key[1].list \/ r.key[1].size # 24 THEN "InvalidKeyLength"
    ELSE IF r.key[1].bytes # 16 THEN "MalformedKeyText"
    ELSE "None"

\* validateUpgradeRequest: the first thing that is wrong
UpgradeFailure(r) ==
    IF r.method # "GET" THEN "InvalidMethod"
    ELSE IF ~HasToken(r.connection, "upgrade") \/ r.upgrade = <<>> THEN "MissingUpgradeIntent"
    ELSE IF Conflicting(r.upgrade) THEN "ConflictingHeaders"
    ELSE IF r.version # "13" THEN "UnsupportedVersion"
    ELSE IF r.key = <<>> \/ r.key[1].list \/ r.key[1].size # 24 THEN "InvalidKeyLength"
    ELSE IF r.key[1].bytes # 16 \/ ~r.key[1].canonical THEN "MalformedKeyText"
    ELSE "None"

\* rejectUpgrade
Rejection(failure) ==
    IF failure = "InvalidMethod" THEN "405"
    ELSE IF failure = "MissingUpgradeIntent" THEN "426" ELSE "400"

\* WebSocketUpgradeHandler::handle
Handshake(r) == Result(IF UpgradeFailure(r) = "None" THEN "Upgrade" ELSE Rejection(UpgradeFailure(r)))

-----------------------------------------------------------------------------
(* Choosing a handler *)

Interceptors == {"auth", "retry"}

CanHandle(route, r) ==
    /\ route.kind = "websocket" => IsCandidate(r)
    /\ r.path \in route.admits
    /\ Matches(r.path, route.pattern)

Claims(r) == {i \in DOMAIN routes : CanHandle(routes[i], r)}

Admitted(r) == \A i \in DOMAIN filters : r.path \in filters[i]

(* Answers.  A pair is what the next step answers to a first and to a second call. *)

NoResult == Result("None")

IsResponse(result) == result.status \notin {"None", "Upgrade"}

\* A response filter changes responses only.
Marked(result, marks) ==
    IF IsResponse(result) THEN [result EXCEPT !.marks = @ \o marks] ELSE result

\* CheckBasicAuthCredentials: the scheme is Basic and the validator takes what is decoded.
Authorized(r) == r.credentials = "right"

\* What an interceptor makes of the next step: BasicAuth, or one that tries twice
Intercept(interceptor, r, next) ==
    CASE interceptor = "auth" -> IF Authorized(r) THEN next[1] ELSE Result("401")
      [] interceptor = "retry" -> next[2]

\* curryInterceptor: every call has a next step of its own, but the parameters of the route
\* are moved into the first.
CurryAround(route, r, next) ==
    IF route.interceptor = "none" THEN next
    ELSE <<Intercept(route.interceptor, r, next), Intercept(route.interceptor, r, <<next[2], next[2]>>)>>

\* Mutant of RouteAnswers: the filter is inside the interceptor.
BugFilterInside(route, r) ==
    CASE route.kind = "websocket" -> <<Handshake(r), Handshake(r)>>
      [] route.kind = "placed" -> <<Result("200"), Result("200")>>
      [] route.kind = "ordinary" ->
           CurryAround(route, r, <<Marked(Result("200"), <<route.id>>), Marked(Result("Bare"), <<route.id>>)>>)

\* HandlerBuilder::getFactory: the response filter is around the interceptors.
RouteAnswers(route, r) ==
    CASE route.kind = "websocket" -> <<Handshake(r), Handshake(r)>>
      [] route.kind = "placed" -> <<Result("200"), Result("200")>>
      [] route.kind = "ordinary" ->
           LET answers == CurryAround(route, r, <<Result("200"), Result("Bare")>>)
           IN  [n \in 1..2 |-> Marked(answers[n], <<route.id>>)]

\* The default handler of the registry moves its response out.
DefaultAnswers == <<Result("404"), IF custom THEN Result("404") ELSE NoResult>>

\* with(): the interceptor registered before is the next step of a later one, which takes
\* over the step behind it at its first call.
Around(r, next, interceptor) ==
    <<Intercept(interceptor, r, next), Intercept(interceptor, r, <<NoResult, NoResult>>)>>

\* ResponseFilterApplicator::handleStep
Reply(r, answers) ==
    Marked(FoldLeft(LAMBDA next, i : Around(r, next, i), answers, interceptors)[1], decorations)

-----------------------------------------------------------------------------
(* Registration *)

NoOne == [id |-> 0, kind |-> "ordinary", pattern |-> 0, admits |-> Paths, interceptor |-> "none",
          first |-> FALSE]
Nothing == [request |-> 0, route |-> NoOne, answer |-> NoResult, heard |-> TRUE]

RoutingInit ==
    /\ routes = <<>> /\ websockets = 0 /\ spent = {}
    /\ filters = <<>> /\ interceptors = <<>> /\ decorations = <<>> /\ custom = FALSE
    /\ registrations = 0 /\ served = Nothing /\ requests = 0

Registers ==
    /\ requests = 0 /\ registrations < MaxRegistrations
    /\ registrations' = registrations + 1
    /\ UNCHANGED <<spent, served, requests>>

\* "first" is a route that is added at the beginning.
Route(kind, pattern, admits, interceptor, first) ==
    [id |-> registrations + 1, kind |-> kind, pattern |-> pattern,
     admits |-> admits, interceptor |-> interceptor, first |-> first]

\* Mutant of PlaceAt: a route in the way keeps its place.
BugPlaceBehind(position, route) ==
    routes' = InsertAt(routes, IF position < Len(routes) THEN position + 2 ELSE Len(routes) + 1, route)

\* add() with a position: a position past the end is the end.
PlaceAt(position, route) ==
    routes' = InsertAt(routes, 1 + (IF position < Len(routes) THEN position ELSE Len(routes)), route)

\* Mutant of RegisterWebSocket: the route is added like any other.
BugWebSocketLast(pattern) ==
    /\ Registers
    /\ routes' = Append(routes, Route("websocket", pattern, Paths, "none", FALSE))
    /\ websockets' = websockets + 1
    /\ UNCHANGED <<filters, interceptors, decorations, custom>>

RegisterWebSocket(pattern) ==
    /\ Registers
    /\ PlaceAt(websockets, Route("websocket", pattern, Paths, "none", FALSE))
    /\ websockets' = websockets + 1
    /\ UNCHANGED <<filters, interceptors, decorations, custom>>

\* on(), and what the HandlerBuilder it returns is told before it ends: a predicate of the
\* route, an interceptor
RegisterRoute(pattern, admits, interceptor) ==
    /\ Registers
    /\ routes' = Append(routes, Route("ordinary", pattern, admits, interceptor, FALSE))
    /\ UNCHANGED <<websockets, filters, interceptors, decorations, custom>>

\* addAt(); static files are added at the beginning.
RegisterAt(position, pattern) ==
    /\ Registers
    /\ PlaceAt(position, Route("placed", pattern, Paths, "none", position = 0))
    /\ UNCHANGED <<websockets, filters, interceptors, decorations, custom>>

FilterRequest(predicate) ==
    /\ Registers
    /\ filters' = Append(filters, predicate)
    /\ UNCHANGED <<routes, websockets, interceptors, decorations, custom>>

With(interceptor) ==
    /\ Registers
    /\ interceptors' = Append(interceptors, interceptor)
    /\ UNCHANGED <<routes, websockets, filters, decorations, custom>>

Apply ==
    /\ Registers
    /\ decorations' = Append(decorations, registrations + 1)
    /\ UNCHANGED <<routes, websockets, filters, interceptors, custom>>

OnNotFound ==
    /\ Registers
    /\ custom' = TRUE
    /\ UNCHANGED <<routes, websockets, filters, interceptors, decorations>>

-----------------------------------------------------------------------------
(* createContextHandler, and the step of the handler that answers the request *)

Serve(r, route, answers) ==
    /\ requests < MaxRequests /\ requests' = requests + 1
    /\ served' = [request |-> r, route |-> route, answer |-> Reply(r, answers),
                  heard |-> route.id \notin spent]
    /\ UNCHANGED setup

\* The factory of a websocket route moves the callbacks into the handler it makes.
ServeByRoute(r) ==
    /\ Admitted(r)
    /\ \E i \in Claims(r) :
        /\ \A j \in Claims(r) : i <= j
        /\ Serve(r, routes[i], RouteAnswers(routes[i], r))
        /\ spent' = IF routes[i].kind = "websocket" THEN spent \cup {routes[i].id} ELSE spent

ServeByDefault(r) ==
    /\ Admitted(r) => Claims(r) = {}
    /\ Serve(r, NoOne, DefaultAnswers)
    /\ UNCHANGED spent

RoutingNext ==
    \/ \E pattern \in Patterns : RegisterWebSocket(pattern)
    \/ \E pattern \in Patterns, admits \in Predicates, interceptor \in Interceptors \cup {"none"} :
          RegisterRoute(pattern, admits, interceptor)
    \/ \E position \in Positions, pattern \in Patterns : RegisterAt(position, pattern)
    \/ \E predicate \in Predicates : FilterRequest(predicate)
    \/ \E interceptor \in Interceptors : With(interceptor)
    \/ Apply \/ OnNotFound
    \/ \E r \in Requests : ServeByRoute(r) \/ ServeByDefault(r)

RoutingSpec == RoutingInit /\ [][RoutingNext]_routingVars

-----------------------------------------------------------------------------
(* Properties *)

Answered == requests > 0

\* A request that an ordinary route answers has no websocket route to go to, and no
\* ordinary route that was registered earlier; and whatever route answers, none that was
\* added at the beginning after it could have: neither the count of websocket routes nor
\* the positions other providers take may upset the order of factories_.
RoutePriority ==
    Answered /\ served.route.id # 0 =>
        \A i \in Claims(served.request) :
            /\ routes[i].first => routes[i].id <= served.route.id
            /\ served.route.kind = "ordinary" =>
                /\ routes[i].kind # "websocket"
                /\ routes[i].kind = "ordinary" => routes[i].id >= served.route.id

\* A part of GuardsHold: what RFC 6455 (4.2.1) asks of method, Connection, version and key,
\* and an Upgrade header that names websocket and nothing else
RightHandshake(r) ==
    /\ r.method = "GET" /\ r.version = "13"
    /\ \E n \in DOMAIN r.connection : r.connection[n] = "upgrade"
    /\ \E n \in DOMAIN r.upgrade :
        /\ r.upgrade[n] = "websocket"
        /\ \A other \in DOMAIN r.upgrade \ {n} : r.upgrade[other] = "blank"
    /\ r.key = <<[size |-> 24, bytes |-> 16, list |-> FALSE, canonical |-> TRUE]>>

\* A part of GuardsHold
HandshakeIsUpgraded ==
    Answered =>
        /\ /\ RightHandshake(served.request) /\ Admitted(served.request)
           /\ interceptors = <<>>
           /\ \E i \in DOMAIN routes :
                /\ routes[i].kind = "websocket" /\ Matches(served.request.path, routes[i].pattern)
                /\ \A j \in 1..i : routes[j].kind # "placed"
           => served.answer.status = "Upgrade"
        /\ served.answer.status = "Upgrade" =>
            /\ served.route.kind = "websocket" /\ Matches(served.request.path, served.route.pattern)
            /\ RightHandshake(served.request)

\* No handler answers a request past a predicate that rejects its path or past an
\* interceptor that asks for credentials it has not got, wherever among the others they
\* were registered; and a response, whoever gave it, has gone through the filter of its route
\* first and then through those of the server, in their order.  Whether a request is for a
\* websocket route is decided by other headers than whether it may be upgraded: a right
\* handshake that is for such a route, and that nobody takes before, is upgraded, and no
\* other request is.
GuardsHold ==
    LET status == served.answer.status
        marks  == served.answer.marks
        asked  == ToSet(interceptors) \cup {served.route.interceptor}
    IN  Answered =>
            /\ status \in {"200", "Bare", "Upgrade"} =>
                /\ Admitted(served.request) /\ served.request.path \in served.route.admits
                /\ "auth" \in asked => Authorized(served.request)
            /\ IsResponse(served.answer) => IsSuffix(decorations, marks)
            /\ status # "404" /\ served.route.kind = "ordinary" /\ IsResponse(served.answer)
               /\ interceptors = <<>> => marks = <<served.route.id>> \o decorations
            /\ HandshakeIsUpgraded

\* "Register websocket endpoints with ProviderRegistryBuilder::websocket(path,
\* WebSocketCallbacks)": every upgraded session has the callbacks of its route.
EveryUpgradeIsHeard == Answered /\ served.answer.status = "Upgrade" => served.heard
=============================================================================
