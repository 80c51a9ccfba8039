---------------------------- MODULE RequestProofs ----------------------------
(***************************************************************************)
(* What becomes of a request: the handler it is routed to, and what that     *)
(* handler gets of it.                                                       *)
(*                                                                           *)
(* Routing, for every order of registrations, every position and every       *)
(* matcher: the route that answers a request is the one the order of         *)
(* registration gives, and what it answers has passed everything registered  *)
(* in front of it.  The first is an order on factories_ that each            *)
(* registration preserves: websocket routes come before ordinary ones, and   *)
(* ordinary ones in the order of their registration, whatever was put in     *)
(* between.  The second is an induction along the interceptors, for every    *)
(* list of them.                                                             *)
(*                                                                           *)
(* RequestHandling, for any capacity of the buffer, any body and any way it  *)
(* is cut: what every request gets of its handler.                           *)
(*                                                                           *)
(* StaticFiles, for every disk and every setup: what a locator finds is a    *)
(* form of what it seeks, and what is sought has one of a few names.         *)
(*                                                                           *)
(* HandlerMatcher, for any characters, paths and patterns: a match is found  *)
(* if and only if the path can be cut up along the pattern.  The loop over a *)
(* segment and the search over the path are recursions that go down, so both *)
(* are defined (RecursionDown of DataLemmas).  What the loop keeps is that   *)
(* the text behind the last "*" fits somewhere further on or nowhere         *)
(* (Consistent, LoopFinds); what the search finds at a segment of the        *)
(* pattern it finds by what is found behind it (Told, SearchTells).          *)
(***************************************************************************)
EXTENDS RequestHandling, Routing, StaticFiles, HandlerMatcher, DataLemmas, FiniteSetTheorems

-----------------------------------------------------------------------------
(* ROUTING *)

Kinds == {"websocket", "placed", "ordinary"}
RouteSet == [id : Nat, kind : Kinds, pattern : Patterns, admits : Predicates \cup {Paths},
             interceptor : Interceptors \cup {"none"}, first : BOOLEAN]

RoutesTyped ==
    /\ routes \in Seq(RouteSet)
    /\ websockets \in Nat /\ registrations \in Nat /\ requests \in Nat

\* Websocket routes are among the first that many: their count is a position that lies
\* before every ordinary route.
CountIsAPlace ==
    /\ websockets <= Len(routes)
    /\ \A i \in 1..Len(routes) : routes[i].kind = "ordinary" => i > websockets

\* Of the routes that were there when one was added at the beginning, none stands before it.
InOrder ==
    /\ \A i \in 1..Len(routes) : routes[i].id <= registrations
    /\ \A i, j \in 1..Len(routes) : i < j /\ routes[j].first => routes[i].id > routes[j].id
    /\ \A i, j \in 1..Len(routes) :
        i < j /\ routes[i].kind = "ordinary" =>
            /\ routes[j].kind # "websocket"
            /\ routes[j].kind = "ordinary" => routes[i].id < routes[j].id

ServedByFirst ==
    requests > 0 /\ served.route.id # 0 =>
        \E i \in 1..Len(routes) :
            /\ routes[i] = served.route
            /\ \A j \in 1..Len(routes) : CanHandle(routes[j], served.request) => i <= j

RoutingInv == RoutesTyped /\ CountIsAPlace /\ InOrder /\ ServedByFirst

-----------------------------------------------------------------------------
(* Putting a route in its place *)

\* The route stands in its place, the others before and behind it as they did.
PlacedAt(p, route) ==
    /\ routes' \in Seq(RouteSet) /\ Len(routes') = Len(routes) + 1
    /\ \A i \in 1..(Len(routes) + 1) :
        routes'[i] = IF i < p THEN routes[i] ELSE IF i = p THEN route ELSE routes[i - 1]

LEMMA InsertPlaces ==
    ASSUME routes \in Seq(RouteSet), NEW route \in RouteSet, NEW p \in 1..(Len(routes) + 1),
           routes' = InsertAt(routes, p, route)
    PROVE  PlacedAt(p, route)
<1> DEFINE placed == InsertAt(routes, p, route)
<1>1. placed \in Seq(RouteSet) /\ Len(placed) = Len(routes) + 1
  BY InsertAtProperties
<1>2. ASSUME NEW i \in 1..(Len(routes) + 1)
      PROVE  placed[i] = IF i < p THEN routes[i] ELSE IF i = p THEN route ELSE routes[i - 1]
  BY ONLY routes \in Seq(RouteSet), route \in RouteSet, p \in 1..(Len(routes) + 1),
          i \in 1..(Len(routes) + 1), InsertAtProperties
<1>3. routes' = placed
  OBVIOUS
<1> HIDE DEF placed
<1> QED
  BY <1>1, <1>2, <1>3 DEF PlacedAt

LEMMA AppendPlaces ==
    ASSUME routes \in Seq(RouteSet), NEW route \in RouteSet, routes' = Append(routes, route)
    PROVE  PlacedAt(Len(routes) + 1, route)
<1>1. Len(routes) \in Nat
  BY LenProperties
<1>2. /\ routes' \in Seq(RouteSet) /\ Len(routes') = Len(routes) + 1
      /\ \A i \in 1..Len(routes) : routes'[i] = routes[i]
      /\ routes'[Len(routes) + 1] = route
  BY AppendProperties
<1> QED
  BY <1>1, <1>2 DEF PlacedAt

\* Registering a route of any kind at a place that suits its kind keeps the order.
LEMMA PlacingKeepsOrder ==
    ASSUME RoutesTyped, CountIsAPlace, InOrder,
           NEW route \in RouteSet, route.id = registrations + 1,
           NEW p \in 1..(Len(routes) + 1), PlacedAt(p, route),
           registrations' = registrations + 1,
           websockets' = websockets + (IF route.kind = "websocket" THEN 1 ELSE 0),
           route.kind = "websocket" => p = websockets + 1,
           route.kind = "ordinary" => p = Len(routes) + 1,
           route.first => p = 1
    PROVE  /\ routes' \in Seq(RouteSet) /\ websockets' \in Nat /\ registrations' \in Nat
           /\ CountIsAPlace' /\ InOrder'
<1>0. routes \in Seq(RouteSet)
  BY DEF RoutesTyped
<1>1. /\ routes' \in Seq(RouteSet) /\ Len(routes') = Len(routes) + 1
      /\ \A i \in 1..(Len(routes) + 1) :
            routes'[i] = IF i < p THEN routes[i] ELSE IF i = p THEN route ELSE routes[i - 1]
  BY DEF PlacedAt
<1>2. Len(routes) \in Nat /\ websockets \in Nat /\ registrations \in Nat
  BY LenProperties DEF RoutesTyped
<1>8. \A n \in 1..Len(routes) : routes[n].id <= registrations
  BY DEF InOrder
<1>3. websockets' \in Nat /\ registrations' \in Nat
  BY <1>2
<1>4. CountIsAPlace'
  <2>1. websockets' <= Len(routes')
    BY <1>1, <1>2 DEF CountIsAPlace
  <2>2. ASSUME NEW i \in 1..Len(routes'), routes'[i].kind = "ordinary"
        PROVE  i > websockets'
    <3>1. CASE i < p
      BY <3>1, <2>2, <1>1, <1>2 DEF CountIsAPlace
    <3>2. CASE i = p
      BY <3>2, <2>2, <1>1, <1>2 DEF CountIsAPlace
    <3>3. CASE i > p
      <4>1. i - 1 \in 1..Len(routes) /\ routes'[i] = routes[i - 1]
        BY <3>3, <1>1, <1>2
      <4>2. i - 1 > websockets
        BY <4>1, <2>2 DEF CountIsAPlace
      <4> QED
        BY <4>2, <1>2
    <3> QED
      BY <3>1, <3>2, <3>3, <1>1, <1>2
  <2> QED
    BY <2>1, <2>2 DEF CountIsAPlace
<1>5. ASSUME NEW i \in 1..Len(routes')
      PROVE  routes'[i].id <= registrations'
  <2>1. CASE i = p
    BY <2>1, <1>1, <1>2
  <2>2. CASE i # p
    <3>1. \E k \in 1..Len(routes) : routes'[i] = routes[k]
      BY <2>2, <1>1, <1>2
    <3>2. PICK k \in 1..Len(routes) : routes'[i] = routes[k]
      BY <3>1
    <3>3. routes[k].id <= registrations /\ routes[k].id \in Nat
      <4>1. routes[k] \in RouteSet
        BY <1>0, ElementOfSeq
      <4> QED
        BY <1>8, <4>1 DEF RouteSet
    <3> QED
      BY <3>2, <3>3, <1>2
  <2> QED
    BY <2>1, <2>2
<1>7. ASSUME NEW i \in 1..Len(routes'), NEW j \in 1..Len(routes'), i < j, routes'[j].first
      PROVE  routes'[i].id > routes'[j].id
  <2> DEFINE Old(n) == IF n < p THEN n ELSE n - 1
  <2>1. CASE j = p
    \* It is the first one.
    BY <2>1, <1>7, <1>1, <1>2
  <2>2. CASE i = p
    <3>1. Old(j) \in 1..Len(routes) /\ routes'[j] = routes[Old(j)] /\ routes'[i] = route
      BY <2>2, <1>7, <1>1, <1>2
    <3> HIDE DEF Old
    <3>2. routes[Old(j)] \in RouteSet
      BY <1>0, <3>1, ElementOfSeq
    <3> QED
      BY <1>2, <1>8, <3>1, <3>2 DEF RouteSet
  <2>3. CASE i # p /\ j # p
    <3>1. /\ Old(i) \in 1..Len(routes) /\ routes'[i] = routes[Old(i)]
          /\ Old(j) \in 1..Len(routes) /\ routes'[j] = routes[Old(j)]
          /\ Old(i) < Old(j)
      BY <2>3, <1>7, <1>1, <1>2
    <3> HIDE DEF Old
    <3> QED
      BY <3>1, <1>7 DEF InOrder
  <2> QED
    BY <2>1, <2>2, <2>3
<1>6. ASSUME NEW i \in 1..Len(routes'), NEW j \in 1..Len(routes'),
             i < j, routes'[i].kind = "ordinary"
      PROVE  /\ routes'[j].kind # "websocket"
             /\ routes'[j].kind = "ordinary" => routes'[i].id < routes'[j].id
  <2> DEFINE Old(n) == IF n < p THEN n ELSE n - 1
  <2>1. CASE i = p
    \* An ordinary route is the last one.
    BY <2>1, <1>6, <1>1, <1>2
  <2>2. CASE i # p /\ j = p
    <3>1. Old(i) \in 1..Len(routes) /\ routes'[i] = routes[Old(i)]
      BY <2>2, <1>6, <1>1, <1>2
    <3>2. routes'[j] = route
      BY <2>2, <1>1
    <3>3. Old(i) > websockets
      BY <3>1, <1>6 DEF CountIsAPlace
    <3>4. route.kind # "websocket"
      BY <3>3, <2>2, <1>6, <1>1, <1>2
    <3>5. routes[Old(i)].id <= registrations /\ routes[Old(i)].id \in Nat
      <4> HIDE DEF Old
      <4>1. routes[Old(i)] \in RouteSet
        BY <1>0, <3>1, ElementOfSeq
      <4> QED
        BY <1>8, <3>1, <4>1 DEF RouteSet
    <3> QED
      BY <3>1, <3>2, <3>4, <3>5, <1>2
  <2>3. CASE i # p /\ j # p
    <3>1. /\ Old(i) \in 1..Len(routes) /\ routes'[i] = routes[Old(i)]
          /\ Old(j) \in 1..Len(routes) /\ routes'[j] = routes[Old(j)]
          /\ Old(i) < Old(j)
      BY <2>3, <1>6, <1>1, <1>2
    <3> HIDE DEF Old
    <3> QED
      BY <3>1, <1>6 DEF InOrder
  <2> QED
    BY <2>1, <2>2, <2>3
<1> QED
  BY <1>1, <1>3, <1>4, <1>5, <1>6, <1>7 DEF InOrder

-----------------------------------------------------------------------------
(* The invariant *)

\* Nothing has been served while routes are registered.
LEMMA Registering ==
    ASSUME RoutingInv, Registers, NEW route \in RouteSet, route.id = registrations + 1,
           NEW p \in 1..(Len(routes) + 1), PlacedAt(p, route),
           websockets' = websockets + (IF route.kind = "websocket" THEN 1 ELSE 0),
           route.kind = "websocket" => p = websockets + 1,
           route.kind = "ordinary" => p = Len(routes) + 1,
           route.first => p = 1
    PROVE  RoutingInv'
<1>1. registrations' = registrations + 1 /\ requests' = requests /\ requests = 0
  BY DEF Registers
<1>2. /\ routes' \in Seq(RouteSet) /\ websockets' \in Nat /\ registrations' \in Nat
      /\ CountIsAPlace' /\ InOrder'
  BY <1>1, PlacingKeepsOrder DEF RoutingInv
<1>3. RoutesTyped'
  BY <1>1, <1>2 DEF RoutingInv, RoutesTyped
<1>4. ServedByFirst'
  BY <1>1 DEF ServedByFirst
<1> QED
  BY <1>2, <1>3, <1>4 DEF RoutingInv

\* What concerns no route
LEMMA RegisteringOther ==
    ASSUME RoutingInv, Registers, UNCHANGED <<routes, websockets>>
    PROVE  RoutingInv'
<1>1. registrations' = registrations + 1 /\ requests' = requests /\ requests = 0
  BY DEF Registers
<1>2. RoutesTyped' /\ CountIsAPlace'
  BY <1>1 DEF RoutingInv, RoutesTyped, CountIsAPlace
<1>3. InOrder'
  <2>1. ASSUME NEW i \in 1..Len(routes)
        PROVE  routes[i].id <= registrations + 1
    <3>1. routes[i] \in RouteSet
      BY ElementOfSeq DEF RoutingInv, RoutesTyped
    <3> QED
      BY <3>1 DEF RoutingInv, RoutesTyped, InOrder, RouteSet
  <2> QED
    BY <1>1, <2>1 DEF RoutingInv, InOrder
<1>4. ServedByFirst'
  BY <1>1 DEF ServedByFirst
<1> QED
  BY <1>2, <1>3, <1>4 DEF RoutingInv

LEMMA RouteIsTyped ==
    ASSUME RoutesTyped, NEW pattern \in Patterns, NEW kind \in Kinds,
           NEW admits \in Predicates \cup {Paths}, NEW interceptor \in Interceptors \cup {"none"},
           NEW first \in BOOLEAN
    PROVE  LET route == Route(kind, pattern, admits, interceptor, first)
           IN  /\ route \in RouteSet /\ route.id = registrations + 1 /\ route.kind = kind
               /\ route.first = first
BY DEF RoutesTyped, Route, RouteSet

LEMMA RoutingInitially == RoutingInit => RoutingInv
<1> SUFFICES ASSUME RoutingInit PROVE RoutingInv
  OBVIOUS
<1>1. routes \in Seq(RouteSet) /\ Len(routes) = 0
  BY EmptySeq DEF RoutingInit
<1> QED
  BY <1>1 DEF RoutingInit, RoutingInv, RoutesTyped, CountIsAPlace, InOrder, ServedByFirst

LEMMA RoutingInductive == RoutingInv /\ [RoutingNext]_routingVars => RoutingInv'
<1> SUFFICES ASSUME RoutingInv, [RoutingNext]_routingVars PROVE RoutingInv'
  OBVIOUS
<1>0. routes \in Seq(RouteSet) /\ Len(routes) \in Nat /\ websockets \in Nat
  BY LenProperties DEF RoutingInv, RoutesTyped
<1>1. ASSUME NEW pattern \in Patterns, RegisterWebSocket(pattern)
      PROVE  RoutingInv'
  <2> DEFINE route == Route("websocket", pattern, Paths, "none", FALSE)
  <2>1. /\ route \in RouteSet /\ route.id = registrations + 1 /\ route.kind = "websocket"
        /\ ~route.first
    BY RouteIsTyped DEF RoutingInv, Kinds
  <2>2. websockets <= Len(routes)
    BY DEF RoutingInv, CountIsAPlace
  <2>3. /\ Registers /\ websockets' = websockets + 1
        /\ routes' = InsertAt(routes, 1 + (IF websockets < Len(routes) THEN websockets ELSE Len(routes)), route)
    BY <1>1 DEF RegisterWebSocket, PlaceAt
  <2> HIDE DEF route
  <2>4. routes' = InsertAt(routes, websockets + 1, route) /\ websockets + 1 \in 1..(Len(routes) + 1)
    <3>1. 1 + (IF websockets < Len(routes) THEN websockets ELSE Len(routes)) = websockets + 1
      BY <1>0, <2>2
    <3> QED
      BY <1>0, <2>2, <2>3, <3>1
  <2>5. PlacedAt(websockets + 1, route)
    BY <1>0, <2>1, <2>4, InsertPlaces
  <2> QED
    BY <2>1, <2>3, <2>4, <2>5, Registering
<1>2. ASSUME NEW pattern \in Patterns, NEW admits \in Predicates,
             NEW interceptor \in Interceptors \cup {"none"},
             RegisterRoute(pattern, admits, interceptor)
      PROVE  RoutingInv'
  <2> DEFINE route == Route("ordinary", pattern, admits, interceptor, FALSE)
  <2>1. /\ route \in RouteSet /\ route.id = registrations + 1 /\ route.kind = "ordinary"
        /\ ~route.first
    BY RouteIsTyped DEF RoutingInv, Kinds
  <2>2. /\ Registers /\ websockets' = websockets /\ routes' = Append(routes, route)
    BY <1>2 DEF RegisterRoute
  <2> HIDE DEF route
  <2>3. PlacedAt(Len(routes) + 1, route)
    BY <1>0, <2>1, <2>2, AppendPlaces
  <2>4. websockets' = websockets + (IF route.kind = "websocket" THEN 1 ELSE 0)
    BY <1>0, <2>1, <2>2
  <2> QED
    BY <1>0, <2>1, <2>2, <2>3, <2>4, Registering
<1>3. ASSUME NEW position \in Positions, NEW pattern \in Patterns, RegisterAt(position, pattern)
      PROVE  RoutingInv'
  <2> DEFINE route == Route("placed", pattern, Paths, "none", position = 0)
             p == 1 + (IF position < Len(routes) THEN position ELSE Len(routes))
  <2>1. /\ route \in RouteSet /\ route.id = registrations + 1 /\ route.kind = "placed"
        /\ route.first <=> position = 0
    <3>1. "placed" \in Kinds /\ Paths \in Predicates \cup {Paths}
          /\ "none" \in Interceptors \cup {"none"} /\ (position = 0) \in BOOLEAN /\ RoutesTyped
      BY DEF RoutingInv, Kinds
    <3>2. \A first \in BOOLEAN :
            /\ Route("placed", pattern, Paths, "none", first) \in RouteSet
            /\ Route("placed", pattern, Paths, "none", first).id = registrations + 1
            /\ Route("placed", pattern, Paths, "none", first).kind = "placed"
            /\ Route("placed", pattern, Paths, "none", first).first = first
      BY <3>1, RouteIsTyped
    <3> QED
      BY <3>1, <3>2
  <2>2. Registers /\ websockets' = websockets /\ routes' = InsertAt(routes, p, route)
    BY <1>3 DEF RegisterAt, PlaceAt
  <2>3. p \in 1..(Len(routes) + 1) /\ (position = 0 => p = 1)
    BY <1>0, PositionsAssumption
  <2> HIDE DEF route, p
  <2>4. PlacedAt(p, route)
    BY <1>0, <2>1, <2>2, <2>3, InsertPlaces
  <2>5. websockets' = websockets + (IF route.kind = "websocket" THEN 1 ELSE 0)
    BY <1>0, <2>1, <2>2
  <2> QED
    BY <2>1, <2>2, <2>3, <2>4, <2>5, Registering
<1>4. CASE \/ \E predicate \in Predicates : FilterRequest(predicate)
           \/ \E interceptor \in Interceptors : With(interceptor)
           \/ Apply \/ OnNotFound
  <2>1. Registers /\ UNCHANGED <<routes, websockets>>
    BY <1>4 DEF FilterRequest, With, Apply, OnNotFound
  <2> QED
    BY <2>1, RegisteringOther
<1>5. ASSUME NEW r \in Requests, ServeByRoute(r)
      PROVE  RoutingInv'
  <2>1. PICK i \in Claims(r) :
            /\ \A j \in Claims(r) : i <= j
            /\ Serve(r, routes[i], RouteAnswers(routes[i], r))
    BY <1>5 DEF ServeByRoute
  <2>2. /\ UNCHANGED <<routes, websockets, registrations>> /\ requests' = requests + 1
        /\ served'.route = routes[i] /\ served'.request = r
    BY <2>1 DEF Serve, setup
  <2>3. i \in 1..Len(routes) /\ \A j \in 1..Len(routes) : CanHandle(routes[j], r) => i <= j
    BY <1>0, <2>1, LenProperties DEF Claims
  <2>4. RoutesTyped' /\ CountIsAPlace' /\ InOrder'
    BY <2>2 DEF RoutingInv, RoutesTyped, CountIsAPlace, InOrder
  <2>5. ServedByFirst'
    BY <2>2, <2>3 DEF ServedByFirst, CanHandle
  <2> QED
    BY <2>4, <2>5 DEF RoutingInv
<1>6. ASSUME NEW r \in Requests, ServeByDefault(r)
      PROVE  RoutingInv'
  <2>1. /\ UNCHANGED <<routes, websockets, registrations>> /\ requests' = requests + 1
        /\ served'.route = NoOne
    BY <1>6 DEF ServeByDefault, Serve, setup
  <2>2. RoutesTyped' /\ CountIsAPlace' /\ InOrder'
    BY <2>1 DEF RoutingInv, RoutesTyped, CountIsAPlace, InOrder
  <2>3. ServedByFirst'
    BY <2>1 DEF ServedByFirst, NoOne
  <2> QED
    BY <2>2, <2>3 DEF RoutingInv
<1>7. CASE UNCHANGED routingVars
  BY <1>7 DEF routingVars, setup, RoutingInv, RoutesTyped, CountIsAPlace, InOrder, ServedByFirst, CanHandle
<1> QED
  BY <1>1, <1>2, <1>3, <1>4, <1>5, <1>6, <1>7 DEF RoutingNext

LEMMA OrderDecides == RoutingInv => RoutePriority
<1> SUFFICES ASSUME RoutingInv, requests > 0, served.route.id # 0, NEW k \in Claims(served.request)
             PROVE  /\ routes[k].first => routes[k].id <= served.route.id
                    /\ served.route.kind = "ordinary" =>
                        /\ routes[k].kind # "websocket"
                        /\ routes[k].kind = "ordinary" => routes[k].id >= served.route.id
  BY DEF RoutePriority, Answered
<1>0. routes \in Seq(RouteSet) /\ Len(routes) \in Nat /\ DOMAIN routes = 1..Len(routes)
  BY LenProperties DEF RoutingInv, RoutesTyped
<1>1. PICK i \in 1..Len(routes) :
        /\ routes[i] = served.route
        /\ \A j \in 1..Len(routes) : CanHandle(routes[j], served.request) => i <= j
  BY DEF RoutingInv, ServedByFirst
<1>2. k \in 1..Len(routes) /\ i <= k
  BY <1>0, <1>1 DEF Claims
<1>3. CASE i = k
  <2>1. routes[i] \in RouteSet
    BY <1>0, <1>1, ElementOfSeq
  <2> QED
    BY <1>1, <1>3, <2>1 DEF RouteSet
<1>4. CASE i < k
  <2>1. routes[i] \in RouteSet /\ routes[k] \in RouteSet
    BY <1>0, <1>1, <1>2, ElementOfSeq
  <2> QED
    BY <1>1, <1>2, <1>4, <2>1 DEF RoutingInv, InOrder, RouteSet
<1> QED
  BY <1>1, <1>2, <1>3, <1>4

\* Whatever is registered in whatever order, at whatever positions: a request that an
\* ordinary route answers is for no websocket route, and for no ordinary route that was
\* registered before; and one that any route answers is for no route that was added at the
\* beginning after it.
THEOREM RoutesHavePriority == RoutingSpec => []RoutePriority
<1>1. RoutingInit => RoutingInv
  BY RoutingInitially
<1>2. RoutingInv /\ [RoutingNext]_routingVars => RoutingInv'
  BY RoutingInductive
<1>3. RoutingInv => RoutePriority
  BY OrderDecides
<1> QED
  BY <1>1, <1>2, <1>3, PTL DEF RoutingSpec

-----------------------------------------------------------------------------
(* The interceptors of the server.  with() puts one around the other: what they make of an  *)
(* answer is a fold over them, here the function that the fold chooses, and an induction on *)
(* the number of interceptors that have been gone through.                                  *)

Folding(f, r, answers, seq, n) ==
    f = [s \in SUBSET (1..n) |->
            IF s = {} THEN answers ELSE Around(r, f[s \ {Max(s)}], seq[Max(s)])]

LEMMA FoldExists ==
    ASSUME NEW r, NEW answers, NEW seq
    PROVE  \A n \in Nat : \E f : Folding(f, r, answers, seq, n)
<1> DEFINE S == {n \in Nat : \E f : Folding(f, r, answers, seq, n)}
<1>1. 0 \in S
    <2> DEFINE f == [s \in SUBSET (1..0) |-> answers]
    <2>1. SUBSET (1..0) = {{}}
        OBVIOUS
    <2>2. Folding(f, r, answers, seq, 0)
        BY <2>1 DEF Folding
    <2> QED BY <2>2
<1>2. ASSUME NEW n \in Nat, n \in S PROVE n + 1 \in S
    <2>1. PICK f : Folding(f, r, answers, seq, n)
        BY <1>2
    <2> DEFINE g == [s \in SUBSET (1..n + 1) |->
                        IF n + 1 \in s THEN Around(r, f[s \ {n + 1}], seq[n + 1]) ELSE f[s]]
               h == [s \in SUBSET (1..n + 1) |->
                        IF s = {} THEN answers ELSE Around(r, g[s \ {Max(s)}], seq[Max(s)])]
    <2>2. \A s \in SUBSET (1..n) :
            f[s] = IF s = {} THEN answers ELSE Around(r, f[s \ {Max(s)}], seq[Max(s)])
        BY <2>1 DEF Folding
    <2>3. \A s \in SUBSET (1..n) : s \in SUBSET (1..n + 1) /\ n + 1 \notin s /\ g[s] = f[s]
        OBVIOUS
    <2>4. ASSUME NEW s \in SUBSET (1..n + 1) PROVE g[s] = h[s]
        <3>1. CASE n + 1 \in s
            <4>1. s \ {n + 1} \in SUBSET (1..n)
                OBVIOUS
            <4>2. g[s \ {n + 1}] = f[s \ {n + 1}]
                BY <2>3, <4>1
            <4>3. Max(s) = n + 1 /\ s # {}
                <5>1. n + 1 \in Nat
                    OBVIOUS
                <5> QED BY <3>1, <5>1, GreatestIs
            <4> HIDE DEF g
            <4>4. h[s] = Around(r, g[s \ {n + 1}], seq[n + 1])
                BY <4>3
            <4>5. g[s] = Around(r, f[s \ {n + 1}], seq[n + 1])
                BY <3>1 DEF g
            <4> QED BY <4>2, <4>4, <4>5
        <3>2. CASE n + 1 \notin s
            <4>1. s \in SUBSET (1..n)
                BY <3>2
            <4>2. s \ {Max(s)} \in SUBSET (1..n)
                BY <4>1
            <4>3. g[s] = f[s] /\ g[s \ {Max(s)}] = f[s \ {Max(s)}]
                BY <2>3, <4>1, <4>2
            <4> HIDE DEF g
            <4> QED BY <2>2, <4>1, <4>3
        <3> QED BY <3>1, <3>2
    <2>5. g = h
        <3> HIDE DEF S
        <3> QED BY <2>4
    <2> HIDE DEF g
    <2>6. Folding(g, r, answers, seq, n + 1)
        BY <2>5 DEF Folding
    <2> QED BY <2>6
<1> HIDE DEF S
<1>3. \A n \in Nat : n \in S
    BY <1>1, <1>2, Counting
<1> QED BY <1>3 DEF S

\* The interceptors around an answer, from the innermost to the m-th
Through(r, answers, seq, m) == (CHOOSE f : Folding(f, r, answers, seq, Len(seq)))[1..m]

LEMMA FoldIsThrough ==
    ASSUME NEW r, NEW answers, NEW S, NEW seq \in Seq(S)
    PROVE  FoldLeft(LAMBDA next, i : Around(r, next, i), answers, seq)
                = Through(r, answers, seq, Len(seq))
<1>1. Len(seq) \in Nat /\ DOMAIN seq = 1..Len(seq)
    BY LenProperties
<1> QED
    BY <1>1 DEF Through, FoldLeft, MapThenFoldSet, Folding

LEMMA ThroughStep ==
    ASSUME NEW r, NEW answers, NEW S, NEW seq \in Seq(S)
    PROVE  \A m \in 0..Len(seq) :
                Through(r, answers, seq, m) =
                    IF m = 0 THEN answers
                    ELSE Around(r, Through(r, answers, seq, m - 1), seq[m])
<1> DEFINE n == Len(seq)
           f == CHOOSE g : Folding(g, r, answers, seq, n)
<1>1. n \in Nat /\ DOMAIN seq = 1..n
    BY LenProperties
<1>2. Folding(f, r, answers, seq, n)
    BY <1>1, FoldExists
<1>3. \A s \in SUBSET (1..n) :
        f[s] = IF s = {} THEN answers ELSE Around(r, f[s \ {Max(s)}], seq[Max(s)])
    <2> HIDE DEF f
    <2> QED BY <1>2 DEF Folding
<1>4. \A m : Through(r, answers, seq, m) = f[1..m]
    BY DEF Through
<1> HIDE DEF f
<1>6. f[1..0] = answers
    <2>1. 1..0 = {} /\ {} \in SUBSET (1..n)
        OBVIOUS
    <2> QED BY <1>3, <2>1
<1>7. ASSUME NEW m \in 1..n
      PROVE  f[1..m] = Around(r, f[1..m - 1], seq[m])
    <2>1. 1..m \in SUBSET (1..n) /\ 1..m # {} /\ (1..m) \ {m} = 1..m - 1
        <3> HIDE DEF n
        <3>1. \A j \in 1..m : j \in 1..n
            BY <1>1
        <3>2. \A j : j \in (1..m) \ {m} <=> j \in 1..m - 1
            BY <1>1
        <3>3. m \in 1..m
            BY <1>1
        <3> QED BY <3>1, <3>2, <3>3
    <2>2. Max(1..m) = m
        <3>1. m \in Nat /\ m \in 1..m
            BY <1>1
        <3> QED BY <3>1, GreatestIs
    <2> QED BY <1>3, <2>1, <2>2
<1>8. ASSUME NEW m \in 0..Len(seq)
      PROVE  f[1..m] = IF m = 0 THEN answers ELSE Around(r, f[1..m - 1], seq[m])
    BY <1>1, <1>6, <1>7
<1> QED
    BY <1>4, <1>8

\* What an interceptor answers is what it was given, nothing, or that credentials are missing.
Pair(T) == T \X T

LEMMA AroundStays ==
    ASSUME NEW r, NEW T, Result("401") \in T, NoResult \in T,
           NEW next \in Pair(T), NEW i \in Interceptors
    PROVE  Around(r, next, i) \in Pair(T)
<1>1. next[1] \in T /\ next[2] \in T
    BY DEF Pair
<1>2. \A given \in Pair(T) : Intercept(i, r, given) \in T
    BY DEF Intercept, Interceptors, Pair
<1>3. <<NoResult, NoResult>> \in Pair(T)
    BY DEF Pair
<1> HIDE DEF NoResult
<1> QED
    BY <1>2, <1>3 DEF Around, Pair

LEMMA AuthStays ==
    ASSUME NEW r, NEW next, ~Authorized(r)
    PROVE  Around(r, next, "auth") \in Pair({Result("401"), NoResult})
BY DEF Around, Pair, Intercept

LEMMA ThroughStays ==
    ASSUME NEW r, NEW T, Result("401") \in T, NoResult \in T,
           NEW answers \in Pair(T), NEW seq \in Seq(Interceptors)
    PROVE  /\ Through(r, answers, seq, Len(seq)) \in Pair(T)
           /\ ~Authorized(r) /\ "auth" \in ToSet(seq) =>
                Through(r, answers, seq, Len(seq)) \in Pair({Result("401"), NoResult})
           /\ seq = <<>> => Through(r, answers, seq, Len(seq)) = answers
<1>0. ASSUME NEW m \in 0..Len(seq)
      PROVE  Through(r, answers, seq, m) =
                IF m = 0 THEN answers ELSE Around(r, Through(r, answers, seq, m - 1), seq[m])
    BY ThroughStep
<1> DEFINE U == {Result("401"), NoResult}
           after(m) == Through(r, answers, seq, m)
           S == {m \in Nat : m <= Len(seq) =>
                    /\ after(m) \in Pair(T)
                    /\ ~Authorized(r) /\ (\E j \in 1..m : seq[j] = "auth") => after(m) \in Pair(U)}
<1>1. Len(seq) \in Nat /\ \A i \in 1..Len(seq) : seq[i] \in Interceptors
    BY LenProperties, ElementOfSeq
<1>2. after(0) = answers
    BY <1>0, <1>1
<1>3. ASSUME NEW m \in Nat, m + 1 <= Len(seq) PROVE after(m + 1) = Around(r, after(m), seq[m + 1])
    <2>1. m + 1 \in 0..Len(seq) /\ m + 1 # 0 /\ (m + 1) - 1 = m
        BY <1>1, <1>3
    <2> QED BY <1>0, <2>1
<1> HIDE DEF after
<1>4. 0 \in S
    BY <1>2
<1>5. ASSUME NEW m \in Nat, m \in S PROVE m + 1 \in S
    <2> SUFFICES ASSUME m + 1 <= Len(seq)
                 PROVE  /\ after(m + 1) \in Pair(T)
                        /\ ~Authorized(r) /\ (\E j \in 1..m + 1 : seq[j] = "auth") =>
                              after(m + 1) \in Pair(U)
        OBVIOUS
    <2>1. /\ after(m) \in Pair(T)
          /\ ~Authorized(r) /\ (\E j \in 1..m : seq[j] = "auth") => after(m) \in Pair(U)
        BY <1>1, <1>5
    <2>2. seq[m + 1] \in Interceptors /\ after(m + 1) = Around(r, after(m), seq[m + 1])
        BY <1>1, <1>3
    <2>3. after(m + 1) \in Pair(T)
        BY <2>1, <2>2, AroundStays
    <2>4. ASSUME ~Authorized(r), NEW j \in 1..m + 1, seq[j] = "auth"
          PROVE  after(m + 1) \in Pair(U)
        <3>1. CASE j = m + 1
            BY <2>2, <2>4, <3>1, AuthStays
        <3>2. CASE j \in 1..m
            <4>1. after(m) \in Pair(U)
                BY <2>1, <2>4, <3>2
            <4>2. Result("401") \in U /\ NoResult \in U
                OBVIOUS
            <4> HIDE DEF U
            <4> QED BY <2>2, <4>1, <4>2, AroundStays
        <3> QED BY <3>1, <3>2
    <2> QED BY <2>3, <2>4
<1>6. \A m \in Nat : m \in S
    <2> HIDE DEF S
    <2> QED BY <1>4, <1>5, Counting
<1>7. "auth" \in ToSet(seq) => \E j \in 1..Len(seq) : seq[j] = "auth"
    <2>1. DOMAIN seq = 1..Len(seq)
        BY LenProperties
    <2> QED BY <2>1 DEF ToSet
<1>8. seq = <<>> => after(Len(seq)) = answers
    BY <1>2
<1>9. Len(seq) \in S
    BY <1>1, <1>6
<1> QED
    BY <1>1, <1>7, <1>8, <1>9 DEF after

-----------------------------------------------------------------------------
(* What an answer may be *)

Statuses == {"None", "Upgrade", "200", "Bare", "401", "404", "405", "426", "400"}
Replies  == [status : Statuses, marks : Seq(Nat)]
Handled(status) == status \in {"200", "Bare", "Upgrade"}

\* An answer of the application, or an upgrade, only for a request that passes the predicates
\* and the interceptor of the route
Within(route, r) ==
    {x \in Replies :
        /\ x.status = "Upgrade" => route.kind = "websocket" /\ UpgradeFailure(r) = "None"
        /\ Handled(x.status) =>
            /\ Admitted(r) /\ r.path \in route.admits
            /\ route.interceptor = "auth" => Authorized(r)}

SetupTyped ==
    /\ interceptors \in Seq(Interceptors) /\ decorations \in Seq(Nat)
    /\ \A i \in 1..Len(routes) :
        routes[i].kind # "ordinary" => routes[i].admits = Paths /\ routes[i].interceptor = "none"

\* GuardsHold, of an answer
Guarded(r, route, answer) ==
    /\ Handled(answer.status) =>
        /\ Admitted(r) /\ r.path \in route.admits
        /\ "auth" \in ToSet(interceptors) \cup {route.interceptor} => Authorized(r)
    /\ IsResponse(answer) => IsSuffix(decorations, answer.marks)
    /\ answer.status # "404" /\ route.kind = "ordinary" /\ IsResponse(answer) /\ interceptors = <<>> =>
        answer.marks = <<route.id>> \o decorations
    /\ /\ RightHandshake(r) /\ Admitted(r) /\ interceptors = <<>>
       /\ \E i \in DOMAIN routes :
            /\ routes[i].kind = "websocket" /\ Matches(r.path, routes[i].pattern)
            /\ \A j \in 1..i : routes[j].kind # "placed"
       => answer.status = "Upgrade"
    /\ answer.status = "Upgrade" =>
        /\ route.kind = "websocket" /\ Matches(r.path, route.pattern)
        /\ RightHandshake(r)

\* One of the tokens of a header is that one, and the others are blank.
NamesOnly(header, token) ==
    \E n \in DOMAIN header :
        /\ header[n] = token
        /\ \A other \in DOMAIN header \ {n} : header[other] = "blank"

LEMMA ConflictIs ==
    ASSUME NEW header \in Seq(STRING)
    PROVE  ~Conflicting(header) <=> NamesOnly(header, "websocket")
<1> DEFINE tokens == Tokens(header)
<1>1. tokens = {n \in DOMAIN header : header[n] # "blank"}
    BY DEF Tokens
<1>2. IsFiniteSet(tokens)
    <2>1. DOMAIN header = 1..Len(header) /\ Len(header) \in Nat
        BY LenProperties
    <2>2. IsFiniteSet(1..Len(header))
        BY <2>1, FS_Interval
    <2>3. tokens \subseteq 1..Len(header)
        BY <1>1, <2>1
    <2> HIDE DEF tokens
    <2> QED BY <2>2, <2>3, FS_Subset
<1>3. ~Conflicting(header) <=> Cardinality(tokens) = 1 /\ HasToken(header, "websocket")
    BY DEF Conflicting
<1>4. HasToken(header, "websocket") <=> \E n \in tokens : header[n] = "websocket"
    BY DEF HasToken
<1> HIDE DEF tokens
<1>5. Cardinality(tokens) = 1 <=> \E n : tokens = {n}
    BY <1>2, FS_Singleton
<1>6. ASSUME NEW n, tokens = {n}, header[n] = "websocket"
      PROVE  NamesOnly(header, "websocket")
    BY <1>1, <1>6 DEF NamesOnly
<1>7. ASSUME NEW n \in DOMAIN header, header[n] = "websocket",
             \A other \in DOMAIN header \ {n} : header[other] = "blank"
      PROVE  tokens = {n}
    BY <1>1, <1>7
<1>8. NamesOnly(header, "websocket") => \E n : tokens = {n} /\ header[n] = "websocket"
    BY <1>7 DEF NamesOnly
<1> QED
    BY <1>3, <1>4, <1>5, <1>6, <1>8

\* The code looks for what may be wrong; nothing is when the handshake is right.
LEMMA RightIsWithoutFailure ==
    ASSUME NEW r \in Requests
    PROVE  RightHandshake(r) <=> UpgradeFailure(r) = "None"
<1>1. /\ r.connection \in Seq(STRING) /\ r.upgrade \in Seq(STRING)
      /\ r.key # <<>> =>
            /\ r.key[1] \in [size : Nat, bytes : Nat, list : BOOLEAN, canonical : BOOLEAN]
            /\ r.key = <<r.key[1]>>
    BY RequestsAssumption
<1>2. HasToken(r.connection, "upgrade") <=> \E n \in DOMAIN r.connection : r.connection[n] = "upgrade"
    BY DEF HasToken, Tokens
<1>3. ~Conflicting(r.upgrade) <=> NamesOnly(r.upgrade, "websocket")
    BY <1>1, ConflictIs
<1>4. r.key = <<[size |-> 24, bytes |-> 16, list |-> FALSE, canonical |-> TRUE]>> <=>
        /\ r.key # <<>> /\ ~r.key[1].list /\ r.key[1].size = 24
        /\ r.key[1].bytes = 16 /\ r.key[1].canonical
    <2> DEFINE right == [size |-> 24, bytes |-> 16, list |-> FALSE, canonical |-> TRUE]
               K == [size : Nat, bytes : Nat, list : BOOLEAN, canonical : BOOLEAN]
    <2>1. r.key # <<>> => r.key = <<r.key[1]>> /\ r.key[1] \in K
        BY <1>1
    <2>2. ASSUME NEW k \in K, ~k.list, k.size = 24, k.bytes = 16, k.canonical
          PROVE  k = right
        <3>1. k.list = FALSE /\ k.canonical = TRUE
            BY <2>2
        <3>2. k = [size |-> k.size, bytes |-> k.bytes, list |-> k.list, canonical |-> k.canonical]
            OBVIOUS
        <3> QED BY <2>2, <3>1, <3>2
    <2>3. /\ <<right>> # <<>> /\ <<right>>[1] = right
          /\ ~right.list /\ right.size = 24 /\ right.bytes = 16 /\ right.canonical
        <3>1. Len(<<right>>) = 1 /\ Len(<<>>) = 0
            OBVIOUS
        <3> QED BY <3>1
    <2> HIDE DEF right, K
    <2>4. ASSUME r.key # <<>>, ~r.key[1].list, r.key[1].size = 24, r.key[1].bytes = 16,
                 r.key[1].canonical
          PROVE  r.key = <<right>>
        BY <2>1, <2>2, <2>4
    <2>5. r.key = <<right>> =>
            /\ r.key # <<>> /\ ~r.key[1].list /\ r.key[1].size = 24
            /\ r.key[1].bytes = 16 /\ r.key[1].canonical
        BY <2>3
    <2>6. r.key = <<right>> <=>
            /\ r.key # <<>> /\ ~r.key[1].list /\ r.key[1].size = 24
            /\ r.key[1].bytes = 16 /\ r.key[1].canonical
        BY <2>4, <2>5
    <2> QED BY <2>6 DEF right
<1>5. NamesOnly(r.upgrade, "websocket") => r.upgrade # <<>>
    <2>1. DOMAIN <<>> = {}
        OBVIOUS
    <2> QED BY <2>1 DEF NamesOnly
<1>6. RightHandshake(r) <=>
        /\ r.method = "GET" /\ r.version = "13" /\ HasToken(r.connection, "upgrade")
        /\ ~Conflicting(r.upgrade)
        /\ r.key # <<>> /\ ~r.key[1].list /\ r.key[1].size = 24
        /\ r.key[1].bytes = 16 /\ r.key[1].canonical
    BY <1>2, <1>3, <1>4 DEF RightHandshake, NamesOnly
<1> QED
    BY <1>3, <1>5, <1>6 DEF UpgradeFailure

LEMMA ResultIs ==
    ASSUME NEW status \in Statuses
    PROVE  Result(status) \in Replies
BY DEF Result, Replies

LEMMA MarkedIs ==
    ASSUME NEW x \in Replies, NEW marks \in Seq(Nat)
    PROVE  /\ Marked(x, marks) \in Replies /\ Marked(x, marks).status = x.status
           /\ IsResponse(Marked(x, marks)) <=> IsResponse(x)
           /\ IsResponse(x) => Marked(x, marks).marks = x.marks \o marks
<1>1. x.marks \o marks \in Seq(Nat)
    BY ConcatProperties DEF Replies
<1> QED
    BY <1>1 DEF Marked, Replies, IsResponse

LEMMA MarkedStays ==
    ASSUME NEW route, NEW r, NEW x \in Within(route, r), NEW marks \in Seq(Nat)
    PROVE  Marked(x, marks) \in Within(route, r)
<1>1. x \in Replies
    BY DEF Within
<1>2. Marked(x, marks) \in Replies /\ Marked(x, marks).status = x.status
    BY <1>1, MarkedIs
<1> QED
    BY <1>2 DEF Within

\* What may be answered whatever the request
LEMMA HarmlessIs ==
    ASSUME NEW route, NEW r, NEW status \in Statuses, ~Handled(status)
    PROVE  Result(status) \in Within(route, r)
<1>1. Result(status) \in Replies /\ Result(status).status = status
    BY ResultIs DEF Result
<1> QED
    BY <1>1 DEF Within, Handled

\* The answer that leaves the server, from what its route answers to both calls
LEMMA ReplyIs ==
    ASSUME SetupTyped, NEW r, NEW T, Result("401") \in T, NoResult \in T, NEW answers \in Pair(T)
    PROVE  \E x \in T :
            /\ Reply(r, answers) = Marked(x, decorations)
            /\ ~Authorized(r) /\ "auth" \in ToSet(interceptors) => ~Handled(x.status)
            /\ interceptors = <<>> => x = answers[1]
<1> DEFINE pair == Through(r, answers, interceptors, Len(interceptors))
<1>1. interceptors \in Seq(Interceptors)
    BY DEF SetupTyped
<1>2. Reply(r, answers) = Marked(pair[1], decorations)
    BY <1>1, FoldIsThrough DEF Reply
<1>3. /\ pair \in Pair(T)
      /\ ~Authorized(r) /\ "auth" \in ToSet(interceptors) => pair \in Pair({Result("401"), NoResult})
      /\ interceptors = <<>> => pair = answers
    BY <1>1, ThroughStays
<1> HIDE DEF pair
<1>4. pair[1] \in T
    BY <1>3 DEF Pair
<1>5. ~Authorized(r) /\ "auth" \in ToSet(interceptors) => ~Handled(pair[1].status)
    <2>1. \A x \in {Result("401"), NoResult} : ~Handled(x.status)
        BY DEF Result, NoResult, Handled
    <2>2. pair \in Pair({Result("401"), NoResult}) => pair[1] \in {Result("401"), NoResult}
        BY DEF Pair
    <2> QED BY <1>3, <2>1, <2>2
<1> QED
    BY <1>2, <1>3, <1>4, <1>5

\* The route is the right one and the request may have it: so is what the route answers.
LEMMA CurryStays ==
    ASSUME NEW route, NEW r, Admitted(r), r.path \in route.admits,
           route.interceptor \in Interceptors \cup {"none"}
    PROVE  \A n \in {1, 2} :
            /\ CurryAround(route, r, <<Result("200"), Result("Bare")>>)[n] \in Within(route, r)
            /\ CurryAround(route, r, <<Result("200"), Result("Bare")>>)[n]
                    \in {Result("200"), Result("Bare"), Result("401")}
<1>1. Result("401") \in Within(route, r)
    BY HarmlessIs DEF Statuses, Handled
<1>2. (route.interceptor = "auth" => Authorized(r)) =>
        Result("200") \in Within(route, r) /\ Result("Bare") \in Within(route, r)
    <2>1. \A s \in {"200", "Bare"} :
            Result(s) \in Replies /\ Result(s).status = s /\ s # "Upgrade"
        BY ResultIs DEF Result, Statuses
    <2> QED BY <2>1 DEF Within
<1>3. CASE route.interceptor = "none"
    BY <1>2, <1>3 DEF CurryAround
<1>4. CASE route.interceptor = "auth"
    <2>1. \A n \in {1, 2} :
            CurryAround(route, r, <<Result("200"), Result("Bare")>>)[n] =
                IF Authorized(r) THEN (IF n = 1 THEN Result("200") ELSE Result("Bare")) ELSE Result("401")
        BY <1>4 DEF CurryAround, Intercept
    <2> QED BY <1>1, <1>2, <2>1
<1>5. CASE route.interceptor = "retry"
    <2>1. \A n \in {1, 2} :
            CurryAround(route, r, <<Result("200"), Result("Bare")>>)[n] = Result("Bare")
        BY <1>5 DEF CurryAround, Intercept
    <2> QED BY <1>2, <1>5, <2>1
<1> QED
    BY <1>3, <1>4, <1>5 DEF Interceptors

LEMMA RouteAnswersStay ==
    ASSUME NEW route \in RouteSet, NEW r, Admitted(r), r.path \in route.admits,
           route.kind # "ordinary" => route.interceptor = "none"
    PROVE  /\ RouteAnswers(route, r) \in Pair(Within(route, r))
           /\ route.kind = "ordinary" =>
                /\ IsResponse(RouteAnswers(route, r)[1])
                /\ RouteAnswers(route, r)[1].marks = <<route.id>>
           /\ route.kind = "websocket" /\ UpgradeFailure(r) = "None" => RouteAnswers(route, r)[1].status = "Upgrade"
<1>0. /\ route.id \in Nat /\ route.kind \in Kinds /\ route.interceptor \in Interceptors \cup {"none"}
      /\ <<route.id>> \in Seq(Nat)
    BY DEF RouteSet
<1>1. CASE route.kind = "websocket"
    <2> DEFINE status == IF UpgradeFailure(r) = "None" THEN "Upgrade" ELSE Rejection(UpgradeFailure(r))
    <2>1. status \in Statuses /\ (status = "Upgrade" => UpgradeFailure(r) = "None") /\ status \notin {"200", "Bare"}
        <3> HIDE DEF Failure
        <3> QED BY DEF Rejection, Statuses
    <2>2. UpgradeFailure(r) = "None" => status = "Upgrade"
        OBVIOUS
    <2>3. RouteAnswers(route, r) = <<Result(status), Result(status)>>
        BY <1>1 DEF RouteAnswers, Handshake
    <2> HIDE DEF status
    <2>4. Result(status) \in Replies /\ Result(status).status = status
        BY <2>1, ResultIs DEF Result
    <2>5. Result(status) \in Within(route, r)
        BY <1>1, <2>1, <2>4 DEF Within, Handled
    <2> QED BY <1>1, <2>2, <2>3, <2>4, <2>5 DEF Pair
<1>2. CASE route.kind = "placed"
    <2>1. Result("200") \in Replies /\ Result("200").status = "200"
        BY ResultIs DEF Result, Statuses
    <2>2. Result("200") \in Within(route, r)
        BY <1>2, <2>1 DEF Within, Handled
    <2>3. RouteAnswers(route, r) = <<Result("200"), Result("200")>>
        BY <1>2 DEF RouteAnswers
    <2> QED BY <1>2, <2>2, <2>3 DEF Pair
<1>3. CASE route.kind = "ordinary"
    <2> DEFINE answers == CurryAround(route, r, <<Result("200"), Result("Bare")>>)
    <2>1. \A n \in {1, 2} : /\ answers[n] \in Within(route, r)
                            /\ answers[n] \in {Result("200"), Result("Bare"), Result("401")}
        BY <1>0, CurryStays
    <2>2. RouteAnswers(route, r) = [n \in 1..2 |-> Marked(answers[n], <<route.id>>)]
        BY <1>3 DEF RouteAnswers
    <2> HIDE DEF answers
    <2>3. \A n \in {1, 2} : Marked(answers[n], <<route.id>>) \in Within(route, r)
        BY <1>0, <2>1, MarkedStays
    <2>4. IsResponse(answers[1]) /\ answers[1].marks = <<>> /\ answers[1] \in Replies
        BY <2>1 DEF IsResponse, Result, Within
    <2>5. /\ IsResponse(Marked(answers[1], <<route.id>>))
          /\ Marked(answers[1], <<route.id>>).marks = <<>> \o <<route.id>>
        BY <1>0, <2>4, MarkedIs
    <2>6. <<>> \o <<route.id>> = <<route.id>>
        BY <1>0
    <2> QED BY <1>3, <2>2, <2>3, <2>5, <2>6 DEF Pair
<1> QED
    BY <1>0, <1>1, <1>2, <1>3 DEF Kinds

\* A right handshake that nothing takes before its websocket route
HandshakeIsFor(r) ==
    /\ RightHandshake(r) /\ Admitted(r) /\ interceptors = <<>>
    /\ \E i \in DOMAIN routes :
        /\ routes[i].kind = "websocket" /\ Matches(r.path, routes[i].pattern)
        /\ \A j \in 1..i : routes[j].kind # "placed"

LEMMA HandshakeClaims ==
    ASSUME RoutingInv, SetupTyped, NEW r \in Requests, HandshakeIsFor(r),
           NEW i \in Claims(r), \A j \in Claims(r) : i <= j
    PROVE  routes[i].kind = "websocket"
<1>0. DOMAIN routes = 1..Len(routes) /\ Len(routes) \in Nat /\ i \in 1..Len(routes)
    BY LenProperties DEF RoutingInv, RoutesTyped, Claims
<1>1. PICK k \in 1..Len(routes) :
        /\ routes[k].kind = "websocket" /\ Matches(r.path, routes[k].pattern)
        /\ \A j \in 1..k : routes[j].kind # "placed"
    BY <1>0 DEF HandshakeIsFor
<1>2. k \in Claims(r)
    <2>1. IsCandidate(r)
        BY DEF HandshakeIsFor, RightHandshake, IsCandidate
    <2>2. r.path \in routes[k].admits
        BY <1>1, RequestsAssumption DEF SetupTyped
    <2> QED BY <1>0, <1>1, <2>1, <2>2 DEF Claims, CanHandle
<1>3. i <= k /\ i \in 1..k
    BY <1>0, <1>2
<1>4. routes[i].kind # "placed"
    BY <1>1, <1>3
<1>5. routes[i].kind # "ordinary"
    BY <1>0, <1>1, <1>3 DEF RoutingInv, InOrder
<1>6. routes[i].kind \in Kinds
    <2>1. routes[i] \in RouteSet
        BY <1>0, ElementOfSeq DEF RoutingInv, RoutesTyped
    <2> QED BY <2>1 DEF RouteSet
<1> QED
    BY <1>4, <1>5, <1>6 DEF Kinds

LEMMA HandshakeIsClaimed ==
    ASSUME RoutingInv, SetupTyped, NEW r \in Requests, HandshakeIsFor(r)
    PROVE  Claims(r) # {}
<1>1. PICK k \in DOMAIN routes :
        routes[k].kind = "websocket" /\ Matches(r.path, routes[k].pattern)
    BY DEF HandshakeIsFor
<1>2. DOMAIN routes = 1..Len(routes)
    BY LenProperties DEF RoutingInv, RoutesTyped
<1>3. IsCandidate(r)
    BY DEF HandshakeIsFor, RightHandshake, IsCandidate
<1>4. r.path \in routes[k].admits
    BY <1>1, <1>2, RequestsAssumption DEF SetupTyped
<1> QED
    BY <1>1, <1>3, <1>4 DEF Claims, CanHandle

LEMMA RouteIsGuarded ==
    ASSUME RoutingInv, SetupTyped, NEW r \in Requests, Admitted(r),
           NEW i \in Claims(r), \A j \in Claims(r) : i <= j
    PROVE  Guarded(r, routes[i], Reply(r, RouteAnswers(routes[i], r)))
<1> DEFINE route == routes[i]
           answers == RouteAnswers(route, r)
           answer == Reply(r, answers)
<1>1. /\ route \in RouteSet /\ r.path \in route.admits /\ Matches(r.path, route.pattern)
      /\ route.kind # "ordinary" => route.interceptor = "none"
    <2>1. i \in 1..Len(routes)
        BY LenProperties DEF RoutingInv, RoutesTyped, Claims
    <2>2. route \in RouteSet
        BY <2>1, ElementOfSeq DEF RoutingInv, RoutesTyped
    <2> QED BY <2>1, <2>2 DEF Claims, CanHandle, SetupTyped
<1>2. /\ answers \in Pair(Within(route, r))
      /\ route.kind = "ordinary" => IsResponse(answers[1]) /\ answers[1].marks = <<route.id>>
      /\ route.kind = "websocket" /\ UpgradeFailure(r) = "None" => answers[1].status = "Upgrade"
    <2> HIDE DEF route
    <2> QED BY <1>1, RouteAnswersStay
<1>3. HandshakeIsFor(r) => route.kind = "websocket" /\ UpgradeFailure(r) = "None"
    BY HandshakeClaims, RightIsWithoutFailure DEF HandshakeIsFor
<1> HIDE DEF route, answers
<1>4. PICK x \in Within(route, r) :
        /\ answer = Marked(x, decorations)
        /\ ~Authorized(r) /\ "auth" \in ToSet(interceptors) => ~Handled(x.status)
        /\ interceptors = <<>> => x = answers[1]
    <2>1. Result("401") \in Within(route, r) /\ NoResult \in Within(route, r)
        BY HarmlessIs DEF NoResult, Statuses, Handled
    <2> QED BY <1>2, <2>1, ReplyIs
<1> HIDE DEF answer
<1>5. decorations \in Seq(Nat) /\ x \in Replies /\ x.marks \in Seq(Nat)
    BY DEF SetupTyped, Within, Replies
<1>6. /\ answer.status = x.status
      /\ IsResponse(answer) <=> IsResponse(x)
      /\ IsResponse(x) => answer.marks = x.marks \o decorations
    BY <1>4, <1>5, MarkedIs
<1>7. Handled(answer.status) =>
        /\ Admitted(r) /\ r.path \in route.admits
        /\ "auth" \in ToSet(interceptors) \cup {route.interceptor} => Authorized(r)
    BY <1>4, <1>6 DEF Within
<1>8. IsResponse(answer) => IsSuffix(decorations, answer.marks)
    BY <1>5, <1>6, SuffixOfConcat
<1>9. route.kind = "ordinary" /\ IsResponse(answer) /\ interceptors = <<>> =>
        answer.marks = <<route.id>> \o decorations
    BY <1>2, <1>4, <1>6
<1>10. HandshakeIsFor(r) => answer.status = "Upgrade"
    <2>1. HandshakeIsFor(r) => interceptors = <<>>
        BY DEF HandshakeIsFor
    <2> QED BY <1>2, <1>3, <1>4, <1>6, <2>1
<1>11. answer.status = "Upgrade" =>
        route.kind = "websocket" /\ Matches(r.path, route.pattern) /\ RightHandshake(r)
    <2>1. answer.status = "Upgrade" => route.kind = "websocket" /\ UpgradeFailure(r) = "None"
        BY <1>6 DEF Within
    <2> QED BY <1>1, <2>1, RightIsWithoutFailure
<1>12. Guarded(r, route, answer)
    BY <1>7, <1>8, <1>9, <1>10, <1>11 DEF Guarded, HandshakeIsFor
<1> QED
    BY <1>12 DEF answer, answers, route

LEMMA DefaultIsGuarded ==
    ASSUME RoutingInv, SetupTyped, NEW r \in Requests, Admitted(r) => Claims(r) = {}
    PROVE  Guarded(r, NoOne, Reply(r, DefaultAnswers))
<1> DEFINE answer == Reply(r, DefaultAnswers)
           T == {Result("404"), Result("401"), NoResult}
<1>1. DefaultAnswers \in Pair(T) /\ DefaultAnswers[1] = Result("404")
    BY DEF DefaultAnswers, Pair
<1>2. PICK x \in T :
        /\ answer = Marked(x, decorations)
        /\ ~Authorized(r) /\ "auth" \in ToSet(interceptors) => ~Handled(x.status)
        /\ interceptors = <<>> => x = Result("404")
    <2>1. Result("401") \in T /\ NoResult \in T
        OBVIOUS
    <2> HIDE DEF T
    <2> QED BY <1>1, <2>1, ReplyIs
<1> HIDE DEF answer
<1>3. x \in Replies /\ x.status \in {"404", "401", "None"} /\ x.marks \in Seq(Nat)
    BY ResultIs DEF Result, NoResult, Statuses, Replies
<1>4. decorations \in Seq(Nat)
    BY DEF SetupTyped
<1>5. /\ answer.status = x.status
      /\ IsResponse(answer) <=> IsResponse(x)
      /\ IsResponse(x) => answer.marks = x.marks \o decorations
    BY <1>2, <1>3, <1>4, MarkedIs
<1>6. answer.status \notin {"200", "Bare", "Upgrade"}
    BY <1>3, <1>5
<1>7. IsResponse(answer) => IsSuffix(decorations, answer.marks)
    BY <1>3, <1>4, <1>5, SuffixOfConcat
<1>8. interceptors = <<>> => answer.status = "404"
    BY <1>2, <1>5 DEF Result
<1>9. ~HandshakeIsFor(r)
    BY HandshakeIsClaimed DEF HandshakeIsFor
<1>10. Guarded(r, NoOne, answer)
    BY <1>6, <1>7, <1>8, <1>9 DEF Guarded, Handled, HandshakeIsFor
<1> QED
    BY <1>10 DEF answer

-----------------------------------------------------------------------------
(* Every step *)

GuardsInv == RoutingInv /\ SetupTyped /\ GuardsHold

LEMMA SetupInitially == RoutingInit => SetupTyped
<1> SUFFICES ASSUME RoutingInit PROVE SetupTyped
    OBVIOUS
<1> QED
    BY EmptySeq DEF RoutingInit, SetupTyped

\* Where a route is put, the others keep what they are.
LEMMA PlacedIsTyped ==
    ASSUME RoutingInv, SetupTyped, NEW route \in RouteSet, NEW p \in 1..(Len(routes) + 1),
           PlacedAt(p, route),
           route.kind # "ordinary" => route.admits = Paths /\ route.interceptor = "none",
           UNCHANGED <<interceptors, decorations>>
    PROVE  SetupTyped'
<1>1. Len(routes) \in Nat
    BY LenProperties DEF RoutingInv, RoutesTyped
<1>2. ASSUME NEW i \in 1..Len(routes'), routes'[i].kind # "ordinary"
      PROVE  routes'[i].admits = Paths /\ routes'[i].interceptor = "none"
    <2>1. CASE i = p
        BY <1>1, <1>2, <2>1 DEF PlacedAt
    <2>2. CASE i # p
        <3>1. \E k \in 1..Len(routes) : routes'[i] = routes[k]
            <4>1. i < p \/ i > p
                BY <1>1, <2>2 DEF PlacedAt
            <4>2. CASE i < p
                <5>1. i \in 1..Len(routes)
                    BY <1>1, <4>2
                <5>2. routes'[i] = routes[i]
                    BY <1>1, <4>2, <5>1 DEF PlacedAt
                <5> QED BY <5>1, <5>2
            <4>3. CASE i > p
                <5>1. i - 1 \in 1..Len(routes) /\ i \in 1..Len(routes) + 1
                    BY <1>1, <4>3 DEF PlacedAt
                <5>2. routes'[i] = routes[i - 1]
                    BY <1>1, <2>2, <4>3, <5>1 DEF PlacedAt
                <5> QED BY <5>1, <5>2
            <4> QED BY <4>1, <4>2, <4>3
        <3> QED BY <1>2, <3>1 DEF SetupTyped
    <2> QED BY <2>1, <2>2
<1> QED
    BY <1>2 DEF SetupTyped

LEMMA SetupStep == RoutingInv /\ SetupTyped /\ [RoutingNext]_routingVars => SetupTyped'
<1> SUFFICES ASSUME RoutingInv, SetupTyped, [RoutingNext]_routingVars PROVE SetupTyped'
    OBVIOUS
<1>0. /\ routes \in Seq(RouteSet) /\ Len(routes) \in Nat /\ websockets \in Nat
      /\ registrations + 1 \in Nat
    BY LenProperties DEF RoutingInv, RoutesTyped
<1>1. ASSUME NEW pattern \in Patterns, NEW kind \in {"websocket", "placed"}, NEW position \in Nat,
             NEW first \in BOOLEAN, PlaceAt(position, Route(kind, pattern, Paths, "none", first)),
             UNCHANGED <<interceptors, decorations>>
      PROVE  SetupTyped'
    <2> DEFINE route == Route(kind, pattern, Paths, "none", first)
               p == 1 + (IF position < Len(routes) THEN position ELSE Len(routes))
    <2>1. route \in RouteSet /\ route.admits = Paths /\ route.interceptor = "none"
        BY RouteIsTyped DEF RoutingInv, Kinds, Route
    <2>2. routes' = InsertAt(routes, p, route)
        BY <1>1 DEF PlaceAt
    <2>3. p \in 1..(Len(routes) + 1)
        BY <1>0
    <2> HIDE DEF route, p
    <2>4. PlacedAt(p, route)
        BY <1>0, <2>1, <2>2, <2>3, InsertPlaces
    <2> QED BY <1>1, <2>1, <2>3, <2>4, PlacedIsTyped
<1>2. ASSUME NEW pattern \in Patterns, RegisterWebSocket(pattern) PROVE SetupTyped'
    BY <1>0, <1>1, <1>2 DEF RegisterWebSocket
<1>3. ASSUME NEW position \in Positions, NEW pattern \in Patterns, RegisterAt(position, pattern)
      PROVE  SetupTyped'
    BY <1>1, <1>3, PositionsAssumption DEF RegisterAt
<1>4. ASSUME NEW pattern \in Patterns, NEW admits \in Predicates,
             NEW interceptor \in Interceptors \cup {"none"},
             RegisterRoute(pattern, admits, interceptor)
      PROVE  SetupTyped'
    <2> DEFINE route == Route("ordinary", pattern, admits, interceptor, FALSE)
    <2>1. route \in RouteSet /\ route.kind = "ordinary"
        BY RouteIsTyped DEF RoutingInv, Kinds
    <2>2. routes' = Append(routes, route) /\ UNCHANGED <<interceptors, decorations>>
        BY <1>4 DEF RegisterRoute
    <2> HIDE DEF route
    <2>3. PlacedAt(Len(routes) + 1, route) /\ Len(routes) + 1 \in 1..(Len(routes) + 1)
        BY <1>0, <2>1, <2>2, AppendPlaces
    <2> QED BY <2>1, <2>2, <2>3, PlacedIsTyped
<1>5. ASSUME NEW interceptor \in Interceptors, With(interceptor) PROVE SetupTyped'
    <2>1. interceptors' \in Seq(Interceptors)
        BY <1>5, AppendProperties DEF With, SetupTyped
    <2> QED BY <1>5, <2>1 DEF With, SetupTyped
<1>6. CASE Apply
    <2>1. decorations' \in Seq(Nat)
        BY <1>0, <1>6, AppendProperties DEF Apply, SetupTyped
    <2> QED BY <1>6, <2>1 DEF Apply, SetupTyped
<1>7. CASE \/ \E predicate \in Predicates : FilterRequest(predicate)
           \/ OnNotFound
           \/ \E r \in Requests : ServeByRoute(r) \/ ServeByDefault(r)
           \/ UNCHANGED routingVars
    <2>1. UNCHANGED <<routes, interceptors, decorations>>
        BY <1>7 DEF FilterRequest, OnNotFound, ServeByRoute, ServeByDefault, Serve, setup, routingVars
    <2> QED BY <2>1 DEF SetupTyped
<1> QED
    BY <1>2, <1>3, <1>4, <1>5, <1>6, <1>7 DEF RoutingNext

\* An answer that was guarded when it was given still is: the setup does not change any more.
LEMMA GuardedStays ==
    ASSUME NEW r, NEW route, NEW answer, Guarded(r, route, answer), UNCHANGED setup
    PROVE  served' = [request |-> r, route |-> route, answer |-> answer, heard |-> served'.heard]
                => GuardsHold'
<1> SUFFICES ASSUME served' = [request |-> r, route |-> route, answer |-> answer, heard |-> served'.heard]
             PROVE  GuardsHold'
    OBVIOUS
<1>1. served'.request = r /\ served'.route = route /\ served'.answer = answer
    OBVIOUS
<1>2. UNCHANGED <<routes, filters, interceptors, decorations>>
    BY DEF setup
<1> QED
    BY <1>1, <1>2 DEF Guarded, Handled, GuardsHold, HandshakeIsUpgraded, Answered, Admitted

LEMMA GuardsStep == GuardsInv /\ [RoutingNext]_routingVars => GuardsHold'
<1> SUFFICES ASSUME GuardsInv, [RoutingNext]_routingVars PROVE GuardsHold'
    OBVIOUS
<1>1. CASE Registers
    BY <1>1 DEF Registers, GuardsHold, Answered
<1>2. ASSUME NEW r \in Requests, ServeByRoute(r) PROVE GuardsHold'
    <2>1. PICK i \in Claims(r) :
            /\ \A j \in Claims(r) : i <= j
            /\ Serve(r, routes[i], RouteAnswers(routes[i], r))
        BY <1>2 DEF ServeByRoute
    <2>2. Admitted(r)
        BY <1>2 DEF ServeByRoute
    <2>3. Guarded(r, routes[i], Reply(r, RouteAnswers(routes[i], r)))
        BY <2>1, <2>2, RouteIsGuarded DEF GuardsInv
    <2>4. /\ UNCHANGED setup
          /\ served' = [request |-> r, route |-> routes[i], answer |-> Reply(r, RouteAnswers(routes[i], r)),
                        heard |-> served'.heard]
        BY <2>1 DEF Serve
    <2> QED BY <2>3, <2>4, GuardedStays
<1>3. ASSUME NEW r \in Requests, ServeByDefault(r) PROVE GuardsHold'
    <2>1. Guarded(r, NoOne, Reply(r, DefaultAnswers))
        BY <1>3, DefaultIsGuarded DEF GuardsInv, ServeByDefault
    <2>2. /\ UNCHANGED setup
          /\ served' = [request |-> r, route |-> NoOne, answer |-> Reply(r, DefaultAnswers),
                        heard |-> served'.heard]
        BY <1>3 DEF ServeByDefault, Serve
    <2> QED BY <2>1, <2>2, GuardedStays
<1>4. CASE UNCHANGED routingVars
    BY <1>4 DEF routingVars, setup, GuardsInv, GuardsHold, HandshakeIsUpgraded, Answered, Admitted
<1> QED
    BY <1>1, <1>2, <1>3, <1>4
    DEF RoutingNext, RegisterWebSocket, RegisterRoute, RegisterAt, FilterRequest, With, Apply, OnNotFound

\* Whatever is registered in whatever order: nothing is answered past a predicate or an
\* interceptor that asks for credentials, every response has been through the filters of the
\* server, and what is upgraded is a right handshake for a websocket route, as every right
\* handshake is that nothing takes before its route.
THEOREM GuardsAreKept == RoutingSpec => []GuardsHold
<1>1. RoutingInit => GuardsInv
    BY RoutingInitially, SetupInitially DEF RoutingInit, GuardsInv, GuardsHold, Answered
<1>2. GuardsInv /\ [RoutingNext]_routingVars => GuardsInv'
    BY RoutingInductive, SetupStep, GuardsStep DEF GuardsInv
<1>3. GuardsInv => GuardsHold
    BY DEF GuardsInv
<1> QED
    BY <1>1, <1>2, <1>3, PTL DEF RoutingSpec

-----------------------------------------------------------------------------
(* HANDLING *)

USE DEF vars, request, body, inner

-----------------------------------------------------------------------------
(* The agenda: what a callback of the adapter leaves to be done *)

Agendas == {<<>>, <<"step">>, <<"chunk", "step">>, <<"step", "chunk", "step">>}
PieceIsAhead == agenda \in {<<"chunk", "step">>, <<"step", "chunk", "step">>}

\* A step takes its job off the agenda; a piece that was ahead still is.
LEMMA StepIsDone ==
    ASSUME agenda \in Agendas, Job("step")
    PROVE  /\ agenda' \in Agendas
           /\ PieceIsAhead' <=> PieceIsAhead
           /\ agenda' = <<>> => agenda = <<"step">>
           /\ stage # "crashed" /\ agenda # <<>>
<1>1. CASE agenda = <<"step">>
  BY <1>1 DEF Job, Agendas, PieceIsAhead
<1>2. CASE agenda = <<"step", "chunk", "step">>
  BY <1>2 DEF Job, Agendas, PieceIsAhead
<1>3. CASE agenda = <<"chunk", "step">>
  BY <1>3 DEF Job
<1> QED
  BY <1>1, <1>2, <1>3 DEF Job, Agendas

\* The piece is handed over, and a step follows.
LEMMA ChunkIsDone ==
    ASSUME agenda \in Agendas, Job("chunk")
    PROVE  /\ PieceIsAhead /\ ~PieceIsAhead' /\ agenda' = <<"step">> /\ agenda' \in Agendas
           /\ agenda' # <<>> /\ stage # "crashed"
<1>1. CASE agenda = <<"chunk", "step">>
  BY <1>1 DEF Job, Agendas, PieceIsAhead
<1>2. CASE agenda \in {<<"step">>, <<"step", "chunk", "step">>}
  BY <1>2 DEF Job
<1> QED
  BY <1>1, <1>2 DEF Job, Agendas

-----------------------------------------------------------------------------
(* The course of a request *)

Stages == {"reading", "writing", "sending", "sent", "upgraded", "ended", "crashed"}

\* Where the parser is decides what is on the agenda, and a step of the handler outside the
\* reading of the request comes alone.
Course ==
    /\ stage \in Stages /\ progress \in {"start", "line", "headers", "complete"}
    /\ agenda \in Agendas
    /\ PieceIsAhead => progress = "headers" /\ stage \in {"reading", "crashed"}
    /\ stage \in {"upgraded", "ended"} => agenda = <<>>
    /\ progress = "complete" <=> "Message" \in phases

\* A request without a result has not been answered, or its message has been read.
Unanswered ==
    pending = "None" =>
        /\ stage \in {"writing", "sending", "sent", "upgraded"} => progress = "complete"
        /\ ReadingIsDone => progress = "complete"

Results ==
    /\ pending \in {"None", "Response", "Upgrade", "NoResponse"}
    /\ held \in AppResults \cup {"Moved"}

\* The inductive invariant: without Unanswered a cut request could be stepped as a whole one,
\* and without Course nothing says what a step finds.
Inv == Course /\ Unanswered /\ Results /\ EveryMessageIsAnswered

\* Nothing has been read, called or queued.
LEMMA Initially == Init => Inv
BY DEF Init, Inv, Course, Unanswered, Results, Stages, Agendas, PieceIsAhead, ReadingIsDone,
       EveryMessageIsAnswered, AppResults

\* Every action of the parser, the runner and the pipeline keeps it.
LEMMA Inductive == Inv /\ [Next]_vars => Inv'
<1> SUFFICES ASSUME Inv, [Next]_vars PROVE Inv'
  OBVIOUS
<1> USE DEF Inv, Course, Unanswered, Results, Stages, ReadingIsDone, EveryMessageIsAnswered,
            AppResults
<1>1. CASE StartLine
  BY <1>1 DEF StartLine, Parsing, Agendas, PieceIsAhead
<1>2. CASE HeadersComplete
  BY <1>2 DEF HeadersComplete, Parsing, Agendas, PieceIsAhead
<1>3. CASE Body
  BY <1>3 DEF Body, Parsing, Agendas, PieceIsAhead
<1>4. CASE MessageComplete
  BY <1>4 DEF MessageComplete, Parsing, Agendas, PieceIsAhead
<1>5. CASE StepAnswered
  BY <1>5, StepIsDone DEF StepAnswered
<1>6. CASE StepNobody
  BY <1>6, StepIsDone DEF StepNobody, Step, NoAnswer
<1>7. CASE StepGet
  BY <1>7, StepIsDone DEF StepGet, Step, AppIsCalled, Answer, NoAnswer, Queue
<1>8. CASE StepGetOff
  BY <1>8, StepIsDone DEF StepGetOff, Step, NoAnswer
<1>9. CASE StepFiltered
  BY <1>9, StepIsDone DEF StepFiltered, Step, AppIsCalled, Answer, NoAnswer, Queue
<1>10. CASE StepDefault
  BY <1>10, StepIsDone DEF StepDefault, Step, Answer, NoAnswer, Queue
<1>11. CASE StepBuffered
  BY <1>11, StepIsDone DEF StepBuffered, Step, AppIsCalled, Answer, NoAnswer, Queue
<1>12. CASE StepBufferedOff
  BY <1>12, StepIsDone DEF StepBufferedOff, Step, NoAnswer
<1>13. CASE StepRawEnd
  BY <1>13, StepIsDone DEF StepRawEnd, Step, AppIsCalled, Answer, NoAnswer, Queue
<1>14. CASE StepRawOff
  BY <1>14, StepIsDone DEF StepRawOff, Step, NoAnswer
<1>15. CASE StepRawGives
  BY <1>15, StepIsDone DEF StepRawGives, Step, Queue
<1>16. CASE StepRawAgain
  BY <1>16, StepIsDone DEF StepRawAgain, Step
<1>17. CASE ChunkIgnored
  BY <1>17, ChunkIsDone DEF ChunkIgnored
<1>18. CASE ChunkBuffered
  BY <1>18, ChunkIsDone DEF ChunkBuffered, KnownLimit, Filled
<1>19. CASE ChunkHandsOver
  BY <1>19, ChunkIsDone DEF ChunkHandsOver, AppIsCalled, KnownLimit, Filled
<1>20. CASE ChunkRaw
  BY <1>20, ChunkIsDone DEF ChunkRaw, AppIsCalled
<1>21. CASE TakeResult
  BY <1>21 DEF TakeResult, AtRest, Queue, MarkRead, Agendas, PieceIsAhead
<1>22. CASE ResponseStarted
  BY <1>22 DEF ResponseStarted, AtRest, Agendas, PieceIsAhead
<1>23. CASE ResponseCompleted
  BY <1>23 DEF ResponseCompleted, AtRest, Agendas, PieceIsAhead
<1>24. CASE Fails
  BY <1>24 DEF Fails, AtRest, Queue, OnError, Agendas, PieceIsAhead
<1>25. CASE Ends
  BY <1>25 DEF Ends, AtRest, Agendas, PieceIsAhead
<1>26. CASE Gone
  BY <1>26 DEF Gone, PieceIsAhead
<1>27. CASE UNCHANGED vars
  BY <1>27 DEF PieceIsAhead
<1> QED
  BY <1>1, <1>2, <1>3, <1>4, <1>5, <1>6, <1>7, <1>8, <1>9, <1>10, <1>11, <1>12, <1>13, <1>14,
     <1>15, <1>16, <1>17, <1>18, <1>19, <1>20, <1>21, <1>22, <1>23, <1>24, <1>25, <1>26, <1>27
  DEF Next, Parser, Steps, Chunks, Pipeline

\* Every message that has been read has a result when the parser returns, if only "no
\* response": HttpProtocolExecution takes a message without one for a violation.
THEOREM MessagesAreAnswered == Spec => []EveryMessageIsAnswered
<1> HIDE DEF vars, request, body, inner
<1>1. Inv => EveryMessageIsAnswered
  BY DEF Inv
<1> QED
  BY Initially, Inductive, <1>1, PTL DEF Spec

-----------------------------------------------------------------------------
(* Results *)

\* Every other action leaves a result that is pending alone, or does not happen while one is.
LEMMA ResultStep ==
    [Next]_vars => (pending # "None" /\ pending' # pending => TakeResult)
<1> SUFFICES ASSUME [Next]_vars, pending # "None", ~TakeResult PROVE pending' = pending
  OBVIOUS
<1>1. CASE StartLine
  BY <1>1 DEF StartLine
<1>2. CASE HeadersComplete
  BY <1>2 DEF HeadersComplete
<1>3. CASE Body
  BY <1>3 DEF Body
<1>4. CASE MessageComplete
  BY <1>4 DEF MessageComplete
<1>5. CASE StepAnswered
  BY <1>5 DEF StepAnswered
<1>6. CASE StepNobody
  BY <1>6 DEF StepNobody, Step
<1>7. CASE StepGet
  BY <1>7 DEF StepGet, Step
<1>8. CASE StepGetOff
  BY <1>8 DEF StepGetOff, Step
<1>9. CASE StepFiltered
  BY <1>9 DEF StepFiltered, Step
<1>10. CASE StepDefault
  BY <1>10 DEF StepDefault, Step
<1>11. CASE StepBuffered
  BY <1>11 DEF StepBuffered, Step
<1>12. CASE StepBufferedOff
  BY <1>12 DEF StepBufferedOff, Step
<1>13. CASE StepRawEnd
  BY <1>13 DEF StepRawEnd, Step
<1>14. CASE StepRawOff
  BY <1>14 DEF StepRawOff, Step
<1>15. CASE StepRawGives
  BY <1>15 DEF StepRawGives, Step
<1>16. CASE StepRawAgain
  BY <1>16 DEF StepRawAgain, Step
<1>17. CASE ChunkIgnored
  BY <1>17 DEF ChunkIgnored
<1>18. CASE ChunkBuffered
  BY <1>18 DEF ChunkBuffered
<1>19. CASE ChunkHandsOver
  BY <1>19 DEF ChunkHandsOver
<1>20. CASE ChunkRaw
  BY <1>20 DEF ChunkRaw
<1>21. CASE TakeResult
  BY <1>21
<1>22. CASE ResponseStarted
  BY <1>22 DEF ResponseStarted
<1>23. CASE ResponseCompleted
  BY <1>23 DEF ResponseCompleted
<1>24. CASE Fails
  BY <1>24 DEF Fails, OnError
<1>25. CASE Ends
  BY <1>25 DEF Ends
<1>26. CASE Gone
  BY <1>26 DEF Gone
<1>27. CASE UNCHANGED vars
  BY <1>27
<1> QED
  BY <1>1, <1>2, <1>3, <1>4, <1>5, <1>6, <1>7, <1>8, <1>9, <1>10, <1>11, <1>12, <1>13, <1>14,
     <1>15, <1>16, <1>17, <1>18, <1>19, <1>20, <1>21, <1>22, <1>23, <1>24, <1>25, <1>26, <1>27
  DEF Next, Parser, Steps, Chunks, Pipeline

\* The first result wins: DefaultHttpContextRunner queues none while one is pending, and only
\* the pipeline, which takes it, replaces it.
THEOREM TheFirstResultWins == Spec => FirstResultWins
<1> HIDE DEF vars, request, body, inner
<1>1. [Next]_vars => [pending # "None" /\ pending' # pending => TakeResult]_vars
  BY ResultStep
<1> QED
  BY <1>1, PTL DEF Spec, FirstResultWins

\* Application code is called by a step that finds no result, or for a piece of the body.
LEMMA CallStep ==
    ASSUME [Next]_vars, calls' # calls
    PROVE  \/ StepGet \/ StepFiltered \/ StepBuffered \/ StepRawEnd
           \/ ChunkHandsOver \/ ChunkRaw
<1>1. CASE StartLine
  BY <1>1 DEF StartLine
<1>2. CASE HeadersComplete
  BY <1>2 DEF HeadersComplete
<1>3. CASE Body
  BY <1>3 DEF Body
<1>4. CASE MessageComplete
  BY <1>4 DEF MessageComplete
<1>5. CASE StepAnswered
  BY <1>5 DEF StepAnswered
<1>6. CASE StepNobody
  BY <1>6 DEF StepNobody
<1>7. CASE StepGet
  BY <1>7
<1>8. CASE StepGetOff
  BY <1>8 DEF StepGetOff
<1>9. CASE StepFiltered
  BY <1>9
<1>10. CASE StepDefault
  BY <1>10 DEF StepDefault
<1>11. CASE StepBuffered
  BY <1>11
<1>12. CASE StepBufferedOff
  BY <1>12 DEF StepBufferedOff
<1>13. CASE StepRawEnd
  BY <1>13
<1>14. CASE StepRawOff
  BY <1>14 DEF StepRawOff
<1>15. CASE StepRawGives
  BY <1>15 DEF StepRawGives
<1>16. CASE StepRawAgain
  BY <1>16 DEF StepRawAgain
<1>17. CASE ChunkIgnored
  BY <1>17 DEF ChunkIgnored
<1>18. CASE ChunkBuffered
  BY <1>18 DEF ChunkBuffered
<1>19. CASE ChunkHandsOver
  BY <1>19
<1>20. CASE ChunkRaw
  BY <1>20
<1>21. CASE TakeResult
  BY <1>21 DEF TakeResult
<1>22. CASE ResponseStarted
  BY <1>22 DEF ResponseStarted
<1>23. CASE ResponseCompleted
  BY <1>23 DEF ResponseCompleted
<1>24. CASE Fails
  BY <1>24 DEF Fails
<1>25. CASE Ends
  BY <1>25 DEF Ends
<1>26. CASE Gone
  BY <1>26 DEF Gone
<1>27. CASE UNCHANGED vars
  BY <1>27
<1> QED
  BY <1>1, <1>2, <1>3, <1>4, <1>5, <1>6, <1>7, <1>8, <1>9, <1>10, <1>11, <1>12, <1>13, <1>14,
     <1>15, <1>16, <1>17, <1>18, <1>19, <1>20, <1>21, <1>22, <1>23, <1>24, <1>25, <1>26, <1>27
  DEF Next, Parser, Steps, Chunks, Pipeline

\* A step needs that no result is pending, a piece that the request is being read.
LEMMA SilentStep ==
    Inv /\ [Next]_vars => (calls' # calls /\ stage # "reading" => progress = "complete")
<1> SUFFICES ASSUME Inv, [Next]_vars, calls' # calls, stage # "reading" PROVE progress = "complete"
  OBVIOUS
<1>1. Course /\ Unanswered
  BY DEF Inv
<1>2. CASE StepGet \/ StepFiltered \/ StepBuffered \/ StepRawEnd
  <2>1. Job("step") /\ pending = "None"
    BY <1>2 DEF StepGet, StepFiltered, StepBuffered, StepRawEnd, Step
  <2>2. agenda # <<>> /\ stage # "crashed"
    BY <2>1 DEF Job
  <2> QED
    BY <1>1, <2>1, <2>2 DEF Course, Unanswered, Stages
<1>3. CASE ChunkHandsOver \/ ChunkRaw
  BY <1>1, <1>3, ChunkIsDone DEF ChunkHandsOver, ChunkRaw, Course
<1> QED
  BY <1>2, <1>3, CallStep

\* Once a request was answered before its end, markCurrentRequestRead has left a result for
\* it, so that the steps of its response do not reach the application.
THEOREM CutRequestsAreSilent == Spec => CutRequestIsSilent
<1> HIDE DEF vars, request, body, inner
<1>1. Inv /\ [Next]_vars => [calls' # calls /\ stage # "reading" => progress = "complete"]_vars
  BY SilentStep
<1> QED
  BY <1>1, Initially, Inductive, PTL DEF Spec, CutRequestIsSilent

-----------------------------------------------------------------------------
(* Bodies *)

\* The part of the body that the handler has been given
Given == IF PieceIsAhead THEN arrived - piece ELSE arrived

Sizes == size \in 0..MaxBody /\ arrived \in 0..size /\ piece \in 0..arrived

\* A buffer holds what its handler was given, up to the capacity, and is untouched otherwise.
Buffering ==
    /\ handler \in Handlers \cup {"None"}
    /\ handler = "Buffered" =>
          held = "None" /\ limit \in {0, Least(size, Capacity)} /\ buffer = Least(Given, Capacity)
    /\ handler # "Buffered" => buffer = 0 /\ limit = 0
    /\ progress \in {"start", "line"} => arrived = 0 /\ handler = "None"
    /\ progress = "complete" => arrived = size

Bodies == Sizes /\ Buffering

\* Nothing has arrived and no handler has been made.
LEMMA BodiesInitially == Init => Bodies
BY SizesAssumption DEF Init, Bodies, Sizes, Buffering, Handlers

\* A piece goes into the buffer whole, or fills it to the capacity.
LEMMA PieceIsKept ==
    ASSUME Bodies, PieceIsAhead, ~PieceIsAhead', handler = "Buffered",
           UNCHANGED <<size, arrived>>, limit' = KnownLimit, buffer' = Filled
    PROVE  /\ limit' \in {0, Least(size, Capacity)}
           /\ buffer' = Least(Given', Capacity)
<1> USE SizesAssumption
<1>1. size \in Nat /\ arrived \in Nat /\ piece \in Nat /\ piece <= arrived /\ arrived <= size
  BY DEF Bodies, Sizes
<1>2. Given = arrived - piece /\ Given' = arrived
  BY DEF Given
<1>3. limit \in {0, Least(size, Capacity)} /\ buffer = Least(arrived - piece, Capacity)
  BY <1>2 DEF Bodies, Buffering
<1>4. KnownLimit \in {0, Least(size, Capacity)}
  BY <1>3 DEF KnownLimit
<1>5. Least(buffer + piece, Capacity) = Least(arrived, Capacity)
  BY <1>1, <1>3 DEF Least
<1>6. Filled = Least(arrived, Capacity)
  BY <1>1, <1>4, <1>5 DEF Filled, Least
<1> QED
  BY <1>2, <1>4, <1>6

\* A piece is what has arrived with it and had not before.
LEMMA PieceArrives ==
    ASSUME size \in Nat, arrived \in 0..size, Body
    PROVE  arrived' \in 0..size /\ piece' \in 0..arrived' /\ arrived' - piece' = arrived
<1>1. ASSUME NEW s \in Nat, NEW a \in 0..s, NEW p \in 1..s - a
      PROVE  a + p \in 0..s /\ p \in 0..a + p /\ (a + p) - p = a
  OBVIOUS
<1> QED
  BY <1>1 DEF Body

\* The buffer keeps up with what was given, action by action.
LEMMA BodiesStep == Inv /\ Bodies /\ [Next]_vars => Bodies'
<1> SUFFICES ASSUME Inv, Bodies, [Next]_vars PROVE Bodies'
  OBVIOUS
<1>0. Course
  BY DEF Inv
<1> USE SizesAssumption DEF Bodies, Sizes, Buffering, Given
<1>1. CASE StartLine
  BY <1>1 DEF StartLine, Parsing, PieceIsAhead
<1>2. CASE HeadersComplete
  BY <1>2 DEF HeadersComplete, Parsing, PieceIsAhead, Handlers, Least
<1>3. CASE Body
  <2>1. ~PieceIsAhead /\ PieceIsAhead'
    BY <1>3 DEF Body, Parsing, PieceIsAhead
  <2>2. UNCHANGED <<size, handler, buffer, limit, held, progress>> /\ progress = "headers"
    BY <1>3 DEF Body
  <2>3. arrived' \in 0..size /\ piece' \in 0..arrived' /\ arrived' - piece' = arrived
    <3>1. size \in Nat /\ arrived \in 0..size
      OBVIOUS
    <3> QED
      BY <3>1, <1>3, PieceArrives
  <2> QED
    BY <2>1, <2>2, <2>3
<1>4. CASE MessageComplete
  BY <1>4 DEF MessageComplete, Parsing, PieceIsAhead
<1>5. CASE StepAnswered
  BY <1>0, <1>5, StepIsDone DEF StepAnswered, Course
<1>6. CASE StepNobody
  BY <1>0, <1>6, StepIsDone DEF StepNobody, Course, Step
<1>7. CASE StepGet
  BY <1>0, <1>7, StepIsDone DEF StepGet, Course, Step
<1>8. CASE StepGetOff
  BY <1>0, <1>8, StepIsDone DEF StepGetOff, Course, Step
<1>9. CASE StepFiltered
  BY <1>0, <1>9, StepIsDone DEF StepFiltered, Course, Step
<1>10. CASE StepDefault
  BY <1>0, <1>10, StepIsDone DEF StepDefault, Course, Step
<1>11. CASE StepBuffered
  BY <1>0, <1>11, StepIsDone DEF StepBuffered, Course, Step
<1>12. CASE StepBufferedOff
  BY <1>0, <1>12, StepIsDone DEF StepBufferedOff, Course, Step
<1>13. CASE StepRawEnd
  BY <1>0, <1>13, StepIsDone DEF StepRawEnd, Course, Step
<1>14. CASE StepRawOff
  BY <1>0, <1>14, StepIsDone DEF StepRawOff, Course, Step
<1>15. CASE StepRawGives
  BY <1>0, <1>15, StepIsDone DEF StepRawGives, Course, Step
<1>16. CASE StepRawAgain
  BY <1>0, <1>16, StepIsDone DEF StepRawAgain, Course, Step
<1>17. CASE ChunkIgnored
  BY <1>0, <1>17, ChunkIsDone DEF ChunkIgnored, Course
<1>18. CASE ChunkBuffered
  <2>1. PieceIsAhead /\ ~PieceIsAhead' /\ handler = "Buffered"
    BY <1>0, <1>18, ChunkIsDone DEF ChunkBuffered, Course
  <2>2. UNCHANGED <<size, arrived, piece, handler, held, progress>>
    BY <1>18 DEF ChunkBuffered
  <2>3. limit' = KnownLimit /\ buffer' = Filled
    BY <1>18 DEF ChunkBuffered
  <2>4. limit' \in {0, Least(size, Capacity)} /\ buffer' = Least(Given', Capacity)
    BY <2>1, <2>2, <2>3, PieceIsKept
  <2> QED
    BY <2>1, <2>2, <2>4
<1>19. CASE ChunkHandsOver
  <2>1. PieceIsAhead /\ ~PieceIsAhead' /\ handler = "Buffered"
    BY <1>0, <1>19, ChunkIsDone DEF ChunkHandsOver, Course
  <2>2. UNCHANGED <<size, arrived, piece, handler, held, progress>>
    BY <1>19 DEF ChunkHandsOver
  <2>3. limit' = KnownLimit /\ buffer' = Filled
    BY <1>19 DEF ChunkHandsOver
  <2>4. limit' \in {0, Least(size, Capacity)} /\ buffer' = Least(Given', Capacity)
    BY <2>1, <2>2, <2>3, PieceIsKept
  <2> QED
    BY <2>1, <2>2, <2>4
<1>20. CASE ChunkRaw
  BY <1>0, <1>20, ChunkIsDone DEF ChunkRaw, Course
<1>21. CASE TakeResult
  BY <1>21 DEF TakeResult, AtRest, PieceIsAhead
<1>22. CASE ResponseStarted
  BY <1>22 DEF ResponseStarted, AtRest, PieceIsAhead
<1>23. CASE ResponseCompleted
  BY <1>23 DEF ResponseCompleted, AtRest, PieceIsAhead
<1>24. CASE Fails
  BY <1>24 DEF Fails, AtRest, PieceIsAhead
<1>25. CASE Ends
  BY <1>25 DEF Ends, AtRest, PieceIsAhead
<1>26. CASE Gone
  BY <1>26 DEF Gone, PieceIsAhead
<1>27. CASE UNCHANGED vars
  BY <1>27 DEF PieceIsAhead
<1> QED
  BY <1>1, <1>2, <1>3, <1>4, <1>5, <1>6, <1>7, <1>8, <1>9, <1>10, <1>11, <1>12, <1>13, <1>14,
     <1>15, <1>16, <1>17, <1>18, <1>19, <1>20, <1>21, <1>22, <1>23, <1>24, <1>25, <1>26, <1>27
  DEF Next, Parser, Steps, Chunks, Pipeline

\* The handler is called when the buffer is full, or when the message has been read.
LEMMA WholeStep ==
    Inv /\ Bodies /\ [Next]_vars =>
        (calls' # calls /\ handler = "Buffered" => buffer' = Least(size, Capacity))
<1> SUFFICES ASSUME Inv, Bodies, [Next]_vars, calls' # calls, handler = "Buffered"
             PROVE  buffer' = Least(size, Capacity)
  OBVIOUS
<1> USE SizesAssumption
<1>1. Course /\ Unanswered
  BY DEF Inv
<1>2. CASE StepBuffered
  <2>1. progress = "complete"
    BY <1>1, <1>2 DEF Unanswered, StepBuffered, Step
  <2>2. ~PieceIsAhead /\ arrived = size
    BY <1>1, <2>1 DEF Course, Bodies, Buffering
  <2>3. buffer = Least(size, Capacity)
    BY <2>2 DEF Bodies, Buffering, Given
  <2> QED
    BY <1>2, <2>3 DEF StepBuffered
<1>3. CASE ChunkHandsOver
  <2>1. buffer' = KnownLimit /\ KnownLimit > 0
    BY <1>3 DEF ChunkHandsOver
  <2>2. limit \in {0, Least(size, Capacity)}
    BY DEF Bodies, Buffering
  <2> QED
    BY <2>1, <2>2 DEF KnownLimit
<1> QED
  BY <1>2, <1>3, CallStep DEF StepGet, StepFiltered, StepRawEnd, ChunkRaw, Step

\* A handler built on BufferingHttpHandlerBase is given the whole body, up to its capacity,
\* however the pieces fall and whether the length was declared.
THEOREM BodiesAreWhole == Spec => BodyIsWhole
<1> HIDE DEF vars, request, body, inner
<1>1. Inv /\ Bodies /\ [Next]_vars =>
        [calls' # calls /\ handler = "Buffered" => buffer' = Least(size, Capacity)]_vars
  BY WholeStep
<1> QED
  BY <1>1, Initially, Inductive, BodiesInitially, BodiesStep, PTL DEF Spec, BodyIsWhole

-----------------------------------------------------------------------------
(* Types *)

\* The members that nothing else depends on
Others == declared \in BOOLEAN /\ phases \subseteq Phases /\ calls \in Nat

\* The rest of the state is changed within its type.
LEMMA OthersStep == Others /\ [Next]_vars => Others'
<1> SUFFICES ASSUME Others, [Next]_vars PROVE Others'
  OBVIOUS
<1>1. (calls \in Nat)'
  <2> USE DEF Others, AppIsCalled
  <2>1. CASE StartLine
    BY <2>1 DEF StartLine
  <2>2. CASE HeadersComplete
    BY <2>2 DEF HeadersComplete
  <2>3. CASE Body
    BY <2>3 DEF Body
  <2>4. CASE MessageComplete
    BY <2>4 DEF MessageComplete
  <2>5. CASE StepAnswered
    BY <2>5 DEF StepAnswered
  <2>6. CASE StepNobody
    BY <2>6 DEF StepNobody
  <2>7. CASE StepGet
    BY <2>7 DEF StepGet
  <2>8. CASE StepGetOff
    BY <2>8 DEF StepGetOff
  <2>9. CASE StepFiltered
    BY <2>9 DEF StepFiltered
  <2>10. CASE StepDefault
    BY <2>10 DEF StepDefault
  <2>11. CASE StepBuffered
    BY <2>11 DEF StepBuffered
  <2>12. CASE StepBufferedOff
    BY <2>12 DEF StepBufferedOff
  <2>13. CASE StepRawEnd
    BY <2>13 DEF StepRawEnd
  <2>14. CASE StepRawOff
    BY <2>14 DEF StepRawOff
  <2>15. CASE StepRawGives
    BY <2>15 DEF StepRawGives
  <2>16. CASE StepRawAgain
    BY <2>16 DEF StepRawAgain
  <2>17. CASE ChunkIgnored
    BY <2>17 DEF ChunkIgnored
  <2>18. CASE ChunkBuffered
    BY <2>18 DEF ChunkBuffered
  <2>19. CASE ChunkHandsOver
    BY <2>19 DEF ChunkHandsOver
  <2>20. CASE ChunkRaw
    BY <2>20 DEF ChunkRaw
  <2>21. CASE TakeResult
    BY <2>21 DEF TakeResult
  <2>22. CASE ResponseStarted
    BY <2>22 DEF ResponseStarted
  <2>23. CASE ResponseCompleted
    BY <2>23 DEF ResponseCompleted
  <2>24. CASE Fails
    BY <2>24 DEF Fails
  <2>25. CASE Ends
    BY <2>25 DEF Ends
  <2>26. CASE Gone
    BY <2>26 DEF Gone
  <2>27. CASE UNCHANGED vars
    BY <2>27
  <2> QED
    BY <2>1, <2>2, <2>3, <2>4, <2>5, <2>6, <2>7, <2>8, <2>9, <2>10, <2>11, <2>12, <2>13, <2>14,
       <2>15, <2>16, <2>17, <2>18, <2>19, <2>20, <2>21, <2>22, <2>23, <2>24, <2>25, <2>26, <2>27
    DEF Next, Parser, Steps, Chunks, Pipeline
<1>2. (phases \subseteq Phases)'
  <2> USE DEF Others, Phases, NoAnswer, Queue, Answer, OnError, MarkRead
  <2>1. CASE StartLine
    BY <2>1 DEF StartLine
  <2>2. CASE HeadersComplete
    BY <2>2 DEF HeadersComplete
  <2>3. CASE Body
    BY <2>3 DEF Body
  <2>4. CASE MessageComplete
    BY <2>4 DEF MessageComplete
  <2>5. CASE StepAnswered
    BY <2>5 DEF StepAnswered
  <2>6. CASE StepNobody
    BY <2>6 DEF StepNobody
  <2>7. CASE StepGet
    BY <2>7 DEF StepGet
  <2>8. CASE StepGetOff
    BY <2>8 DEF StepGetOff
  <2>9. CASE StepFiltered
    BY <2>9 DEF StepFiltered
  <2>10. CASE StepDefault
    BY <2>10 DEF StepDefault
  <2>11. CASE StepBuffered
    BY <2>11 DEF StepBuffered
  <2>12. CASE StepBufferedOff
    BY <2>12 DEF StepBufferedOff
  <2>13. CASE StepRawEnd
    BY <2>13 DEF StepRawEnd
  <2>14. CASE StepRawOff
    BY <2>14 DEF StepRawOff
  <2>15. CASE StepRawGives
    BY <2>15 DEF StepRawGives
  <2>16. CASE StepRawAgain
    BY <2>16 DEF StepRawAgain
  <2>17. CASE ChunkIgnored
    BY <2>17 DEF ChunkIgnored
  <2>18. CASE ChunkBuffered
    BY <2>18 DEF ChunkBuffered
  <2>19. CASE ChunkHandsOver
    BY <2>19 DEF ChunkHandsOver
  <2>20. CASE ChunkRaw
    BY <2>20 DEF ChunkRaw
  <2>21. CASE TakeResult
    BY <2>21 DEF TakeResult
  <2>22. CASE ResponseStarted
    BY <2>22 DEF ResponseStarted
  <2>23. CASE ResponseCompleted
    BY <2>23 DEF ResponseCompleted
  <2>24. CASE Fails
    BY <2>24 DEF Fails
  <2>25. CASE Ends
    BY <2>25 DEF Ends
  <2>26. CASE Gone
    BY <2>26 DEF Gone
  <2>27. CASE UNCHANGED vars
    BY <2>27
  <2> QED
    BY <2>1, <2>2, <2>3, <2>4, <2>5, <2>6, <2>7, <2>8, <2>9, <2>10, <2>11, <2>12, <2>13, <2>14,
       <2>15, <2>16, <2>17, <2>18, <2>19, <2>20, <2>21, <2>22, <2>23, <2>24, <2>25, <2>26, <2>27
    DEF Next, Parser, Steps, Chunks, Pipeline
<1>3. (declared \in BOOLEAN)'
  BY Zenon DEF Others, Next, Parser, Steps, Chunks, Pipeline, StartLine, HeadersComplete, Body,
     MessageComplete, StepAnswered, StepNobody, StepGet, StepGetOff, StepFiltered, StepDefault,
     StepBuffered, StepBufferedOff, StepRawEnd, StepRawOff, StepRawGives, StepRawAgain,
     ChunkIgnored, ChunkBuffered, ChunkHandsOver, ChunkRaw, TakeResult, ResponseStarted,
     ResponseCompleted, Fails, Ends, Gone
<1> QED
  BY <1>1, <1>2, <1>3 DEF Others

\* Every variable keeps its type; a buffer never exceeds the capacity it was given.
THEOREM TypeInvariant == Spec => []TypeOK
<1> HIDE DEF vars, request, body, inner
<1>1. Init => Others
  BY DEF Init, Others, Phases
<1>2. agenda \in Agendas => agenda \in Seq(Jobs)
  <2>1. "step" \in Jobs /\ "chunk" \in Jobs
    BY DEF Jobs
  <2>2. <<>> \in Seq(Jobs) /\ <<"step">> \in Seq(Jobs) /\ <<"chunk", "step">> \in Seq(Jobs)
    BY <2>1
  <2>3. <<"step", "chunk", "step">> \in Seq(Jobs)
    BY <2>1
  <2> QED
    BY <2>2, <2>3 DEF Agendas
<1>3. Inv /\ Bodies /\ Others => TypeOK
  <2> SUFFICES ASSUME Inv, Bodies, Others PROVE TypeOK
    OBVIOUS
  <2>1. buffer \in 0..Capacity /\ limit \in 0..Capacity
    BY SizesAssumption DEF Bodies, Sizes, Buffering, Given, Least
  <2>2. size \in 0..MaxBody /\ arrived \in 0..size /\ piece \in 0..size
    BY SizesAssumption DEF Bodies, Sizes
  <2> QED
    BY <1>2, <2>1, <2>2 DEF TypeOK, Inv, Course, Results, Stages, Bodies, Buffering, Others
<1> QED
  BY <1>1, <1>3, Initially, Inductive, BodiesInitially, BodiesStep, OthersStep, PTL DEF Spec

-----------------------------------------------------------------------------
(* StaticFiles *)

OneCall == site \in Sites /\ disk \in Disks /\ call \in Calls

\* An aggregate has those of its locators look that the url is for.
Looks(l, target) == site.aggregate => IsFor(l, target.path)

LEMMA NoFileIsNowhere ==
    ASSUME OneCall, NEW file, Exists(file)
    PROVE  file # NoFile
<1>1. PICK entry \in disk : entry.path = file.path /\ entry.suffixes = file.suffixes
    BY DEF Exists
<1>2. entry.path = <<>> => entry.suffixes = <<>>
    BY DisksAssumption DEF OneCall
<1>3. SUFFICES ASSUME file = NoFile PROVE FALSE
    OBVIOUS
<1>4. entry.path = <<>> /\ entry.suffixes = <<"none">>
    BY <1>1, <1>3 DEF NoFile
<1>5. Len(<<"none">>) = 1 /\ Len(<<>>) = 0
    OBVIOUS
<1> QED BY <1>2, <1>4, <1>5

LEMMA FirstOfForms ==
    ASSUME OneCall, NEW file
    PROVE  \/ FirstThere(Variants(file)) \in Forms(file) /\ Exists(FirstThere(Variants(file)))
           \/ FirstThere(Variants(file)) = NoFile /\ \A f \in Forms(file) : ~Exists(f)
<1> DEFINE files == Variants(file)
           there == {n \in DOMAIN files : Exists(files[n])}
<1>1. DOMAIN files = {1, 2, 3} /\ Forms(file) = {files[n] : n \in DOMAIN files}
    BY DEF Variants, Forms, ToSet
<1>2. there \in SUBSET Nat
    BY <1>1
<1>5. FirstThere(files) = IF there = {} THEN NoFile ELSE files[Min(there)]
    BY DEF FirstThere
<1> HIDE DEF files
<1>3. CASE there = {}
    <2>1. \A n \in DOMAIN files : ~Exists(files[n])
        BY <1>3
    <2> QED BY <1>1, <1>3, <1>5, <2>1 DEF files
<1>4. CASE there # {}
    <2>1. Min(there) \in there
        BY <1>2, <1>4, LeastIs
    <2>2. FirstThere(files) = files[Min(there)] /\ Min(there) \in DOMAIN files
        BY <1>4, <1>5, <2>1
    <2>3. Exists(FirstThere(files)) /\ FirstThere(files) \in Forms(file)
        BY <1>1, <2>1, <2>2
    <2> QED BY <2>3 DEF files
<1> QED BY <1>3, <1>4

\* What a locator finds is a form of what it seeks, and if it finds nothing there is none.
LEMMA GetIs ==
    ASSUME OneCall, NEW l, NEW target
    PROVE  \/ Get(l, target) \in Forms(Sought(l, target)) /\ Exists(Get(l, target))
           \/ Get(l, target) = NoFile /\ \A f \in Forms(Sought(l, target)) : ~Exists(f)
BY FirstOfForms DEF Get, Sought

LEMMA LocatorsAre ==
    ASSUME OneCall
    PROVE  Locators \in Seq(Locator) /\ DOMAIN Locators \in SUBSET Nat /\ NotFound \in Targets
<1>1. Locators \in Seq(Locator) /\ NotFound \in Targets
    BY SitesAssumption DEF OneCall, Locators, NotFound
<1> QED BY <1>1, LenProperties

LEMMA LocateIs ==
    ASSUME OneCall, NEW target
    PROVE  \/ /\ Locate(target) # NoFile
              /\ \E l \in ToSet(Locators) :
                    /\ Looks(l, target)
                    /\ Locate(target) \in Forms(Sought(l, target)) /\ Exists(Locate(target))
           \/ /\ Locate(target) = NoFile
              /\ \A l \in ToSet(Locators) : Looks(l, target) =>
                    \A f \in Forms(Sought(l, target)) : ~Exists(f)
<1> DEFINE finders == {n \in DOMAIN Locators :
                        Looks(Locators[n], target) /\ Get(Locators[n], target) # NoFile}
<1>1. finders \in SUBSET Nat
    BY LocatorsAre
<1>4. Locate(target) = IF finders = {} THEN NoFile ELSE Get(Locators[Min(finders)], target)
    BY DEF Locate, Looks
<1>2. CASE finders = {}
    <2>1. Locate(target) = NoFile
        BY <1>2, <1>4
    <2>2. ASSUME NEW l \in ToSet(Locators), Looks(l, target)
          PROVE  \A f \in Forms(Sought(l, target)) : ~Exists(f)
        <3>1. PICK n \in DOMAIN Locators : Locators[n] = l
            BY DEF ToSet
        <3>2. Get(l, target) = NoFile
            BY <1>2, <2>2, <3>1
        <3> QED BY <3>2, GetIs, NoFileIsNowhere
    <2> QED BY <2>1, <2>2
<1>3. CASE finders # {}
    <2>1. Min(finders) \in finders
        BY <1>1, <1>3, LeastIs
    <2>2. PICK n \in finders : Locate(target) = Get(Locators[n], target)
        BY <1>3, <1>4, <2>1
    <2>3. Locators[n] \in ToSet(Locators)
        BY DEF ToSet
    <2> QED BY <2>2, <2>3, GetIs
<1> QED BY <1>2, <1>3

LEMMA LocatesWhatIsThere ==
    ASSUME OneCall, NEW target
    PROVE  IsThere(target) <=> Locate(target) # NoFile
BY LocateIs DEF IsThere, Looks

LEMMA SoughtIsNamed ==
    ASSUME NEW target, NEW l \in ToSet(Locators)
    PROVE  Sought(l, target) \in Names(target)
BY DEF Sought, Names

\* The names on a disk
FileNames == STRING \cup {"index.html"}
Files == [path : Seq(FileNames), suffixes : Seq(STRING)]

LEMMA PartOfPath ==
    ASSUME NEW s \in Seq(STRING), NEW m \in 1..Len(s), NEW n \in 1..Len(s)
    PROVE  SubSeq(s, m, n) \in Seq(STRING)
OBVIOUS

LEMMA NamesAreFiles ==
    ASSUME OneCall, NEW target \in Targets, NEW file \in Names(target)
    PROVE  file \in Files
<1>1. ASSUME NEW l \in ToSet(Locators) PROVE l.root \in Seq(STRING)
    <2>1. Locators \in Seq(Locator)
        BY LocatorsAre
    <2>2. PICK n \in DOMAIN Locators : l = Locators[n]
        BY <1>1 DEF ToSet
    <2>3. l \in Locator
        BY <2>1, <2>2, LenProperties, ElementOfSeq
    <2> QED BY <2>3 DEF Locator
<1>2. Stripped(target.path) \in Seq(STRING)
    <2> DEFINE filled == {n \in DOMAIN target.path : target.path[n] # ""}
    <2>1. target.path \in Seq(STRING) /\ DOMAIN target.path = 1..Len(target.path)
             /\ Len(target.path) \in Nat
        BY LenProperties DEF Targets
    <2>2. CASE filled = {}
        BY <2>2, EmptySeq DEF Stripped
    <2>3. CASE filled # {}
        <3>1. filled \subseteq DOMAIN target.path
            OBVIOUS
        <3>4. filled \in SUBSET Nat /\ filled \subseteq 1..Len(target.path)
            <4> HIDE DEF filled
            <4> QED BY <2>1, <3>1
        <3> HIDE DEF filled
        <3>2. Min(filled) \in 1..Len(target.path) /\ Max(filled) \in 1..Len(target.path)
            BY <2>1, <2>3, <3>4, LeastIs, GreatestIsOne
        <3>3. SubSeq(target.path, Min(filled), Max(filled)) \in Seq(STRING)
            BY <2>1, <3>2, PartOfPath
        <3> QED BY <2>3, <3>3 DEF Stripped, filled
    <2> QED BY <2>2, <2>3
<1>3. ASSUME NEW l \in ToSet(Locators)
      PROVE  Local(l, target) \in Files /\ Below(Local(l, target), "index.html") \in Files
    <2> DEFINE p == l.root \o Stripped(target.path)
    <2>1. p \in Seq(STRING)
        BY <1>1, <1>2, <1>3, ConcatProperties
    <2>2. Local(l, target) = [path |-> p, suffixes |-> target.suffixes]
        BY DEF Local, File
    <2> HIDE DEF p
    <2>3. p \in Seq(FileNames) /\ Append(p, "index.html") \in Seq(FileNames)
        <3>1. \A i \in 1..Len(p) : p[i] \in FileNames
            BY <2>1, ElementOfSeq DEF FileNames
        <3>2. p \in Seq(FileNames)
            BY <2>1, <3>1
        <3>3. "index.html" \in FileNames
            BY DEF FileNames
        <3> QED BY <3>2, <3>3, AppendProperties
    <2>4. <<>> \in Seq(STRING) /\ target.suffixes \in Seq(STRING)
        BY EmptySeq DEF Targets
    <2> QED BY <2>2, <2>3, <2>4 DEF Files, Below, File
<1> QED BY <1>3 DEF Names

\* A form of a file is the file, or one whose type is that of the file.
LEMMA TypeOfForm ==
    ASSUME NEW file \in Files, NEW form \in Forms(file)
    PROVE  form = file \/ Typed(form) = file
<1>1. ASSUME NEW suffix \in {"br", "gz"}, form = Suffixed(file, suffix) PROVE Typed(form) = file
    <2>1. form.suffixes = Append(file.suffixes, suffix) /\ file.suffixes \in Seq(STRING)
        BY <1>1 DEF Suffixed, Files
    <2>2. /\ Len(form.suffixes) = Len(file.suffixes) + 1 /\ Len(file.suffixes) \in Nat
          /\ form.suffixes[Len(form.suffixes)] = suffix
          /\ SubSeq(form.suffixes, 1, Len(file.suffixes)) = file.suffixes
        BY <2>1
    <2>3. Encoding(form) = suffix /\ Front(form.suffixes) = file.suffixes
        BY <2>2 DEF Encoding, Last, Front
    <2> QED BY <1>1, <2>3 DEF Typed, Suffixed, Files
<1>2. form = file \/ \E suffix \in {"br", "gz"} : form = Suffixed(file, suffix)
    BY DEF Forms, Variants, ToSet
<1> QED BY <1>1, <1>2

\* A directory that is named apart is no form of what a locator seeks.
LEMMA FormIsNoDirectory ==
    ASSUME OneCall, DirectoriesAreNamedApart, NEW target \in Targets, NEW l \in ToSet(Locators),
           NEW form \in Forms(Sought(l, target))
    PROVE  ~IsDirectory(form)
<1> DEFINE file == Local(l, target)
           index == Below(file, "index.html")
<1>1. file \in Files /\ index \in Files
    BY NamesAreFiles DEF Names
<1>2. index.path # <<>> /\ Last(index.path) = "index.html" /\ form.path = Sought(l, target).path
    <2>1. index.path = Append(file.path, "index.html") /\ file.path \in Seq(FileNames)
        BY <1>1 DEF Below, File, Files
    <2>2. \A p \in Seq(FileNames) :
            Append(p, "index.html") # <<>> /\ Last(Append(p, "index.html")) = "index.html"
        BY DEF Last
    <2>3. form.path = Sought(l, target).path
        <3>1. Sought(l, target) \in Files
            BY <1>1 DEF Sought
        <3>2. form = Sought(l, target) \/ \E s \in {"br", "gz"} : form = Suffixed(Sought(l, target), s)
            BY DEF Forms, Variants, ToSet
        <3> QED BY <3>1, <3>2 DEF Suffixed, Files
    <2> QED BY <2>1, <2>2, <2>3
<1>3. CASE IsDirectory(file)
    BY <1>2, <1>3 DEF Sought, IsDirectory, DirectoriesAreNamedApart
<1>4. CASE ~IsDirectory(file) /\ form # file
    <2>1. PICK suffix \in {"br", "gz"} : form = Suffixed(file, suffix)
        BY <1>4 DEF Forms, Variants, ToSet, Sought
    <2>2. form.suffixes = Append(file.suffixes, suffix) /\ file.suffixes \in Seq(STRING)
        BY <1>1, <2>1 DEF Suffixed, Files
    <2>3. form.suffixes # <<>> /\ Last(form.suffixes) = suffix
        BY <2>2 DEF Last
    <2> QED BY <2>3 DEF IsDirectory, DirectoriesAreNamedApart
<1> QED BY <1>3, <1>4

LEMMA BodyIs == OneCall => BodyIsWhatItSays
<1> SUFFICES ASSUME OneCall, Served.status = "200" PROVE BodyIsWhatItSays
    BY DEF BodyIsWhatItSays
<1> DEFINE target == call.target
           found  == Resolved(target)
<1>1. target \in Targets /\ NotFound \in Targets
    BY TargetsAssumption, LocatorsAre DEF OneCall
<1>2. found # NoFile /\ Served.body = found /\ Served.type = Typed(found)
    BY DEF Served, FileAnswer, Unhandled
<1>3. \/ found = Locate(target)
      \/ Locate(target) = NoFile /\ found = Locate(NotFound)
    BY <1>2 DEF Resolved
<1>4. ASSUME NEW t \in Targets, found = Locate(t)
      PROVE  /\ Exists(found) /\ (DirectoriesAreNamedApart => ~IsDirectory(found))
             /\ found \in FormsOf(Names(t)) /\ (Typed(found) \in Names(t) \/ found \in Names(t))
    <2>1. PICK l \in ToSet(Locators) : found \in Forms(Sought(l, t)) /\ Exists(found)
        BY <1>2, <1>4, LocateIs
    <2>2. Sought(l, t) \in Names(t) /\ Sought(l, t) \in Files
        BY SoughtIsNamed, NamesAreFiles
    <2> HIDE DEF found
    <2> QED BY <2>1, <2>2, TypeOfForm, FormIsNoDirectory DEF FormsOf
<1>5. Locate(target) = NoFile =>
        \A l \in ToSet(Locators) : IsFor(l, target.path) =>
            \A f \in Forms(Sought(l, target)) : ~Exists(f)
    BY LocateIs DEF Looks
<1> HIDE DEF found
<1> QED BY <1>1, <1>2, <1>3, <1>4, <1>5 DEF BodyIsWhatItSays, Sought

\* Whatever is on the disk, and however the locators share the urls: the body of an answer is
\* what its headers say, and the page for what is not found stands in for nothing that is there.
THEOREM BodiesAreWhatTheySay == StaticSpec => []BodyIsWhatItSays
<1>1. StaticInit => OneCall
    BY DEF StaticInit, OneCall
<1>2. OneCall /\ [StaticNext]_staticVars => OneCall'
    BY DEF StaticNext, staticVars, OneCall
<1> QED BY <1>1, <1>2, BodyIs, PTL DEF StaticSpec

LEMMA UrlsAre == OneCall => OnlyItsOwnUrls
<1> SUFFICES ASSUME OneCall PROVE OnlyItsOwnUrls
    OBVIOUS
<1> DEFINE url == call.target.path
           mine == url \notin site.restricted /\ \E l \in ToSet(Locators) : IsFor(l, url)
           thereIs == IsThere(call.target) \/ (NotFound # NoFile /\ IsThere(NotFound))
<1>1. mine <=> Allowed(url)
    BY DEF Allowed, ToSet
<1>4. Resolved(call.target) = NoFile <=> ~mine \/ ~thereIs
    BY <1>1, LocatesWhatIsThere DEF Resolved
<1>2. Served.status = (IF ~mine \/ ~thereIs THEN "unhandled"
                       ELSE IF call.method \in {"GET", "HEAD"} THEN "200" ELSE "405")
    <2> HIDE DEF mine, thereIs
    <2> QED BY <1>4 DEF Served, FileAnswer, Unhandled
<1>3. ASSUME NEW other \in Calls, Stripped(other.target.path) = Stripped(url),
             other.target.suffixes = call.target.suffixes, Allowed(url), Allowed(other.target.path),
             \A l \in ToSet(Locators) : IsFor(l, url) <=> IsFor(l, other.target.path)
      PROVE  FileAnswer(other.target, call.method) = Served
    <2>1. \A l : Get(l, other.target) = Get(l, call.target)
        BY <1>3 DEF Get, Local
    <2>2. \A n \in DOMAIN Locators : IsFor(Locators[n], url) <=> IsFor(Locators[n], other.target.path)
        BY <1>3 DEF ToSet
    <2>3. {n \in DOMAIN Locators : (site.aggregate => IsFor(Locators[n], url)) /\ Get(Locators[n], call.target) # NoFile}
            = {n \in DOMAIN Locators : (site.aggregate => IsFor(Locators[n], other.target.path))
                                        /\ Get(Locators[n], other.target) # NoFile}
        BY <2>1, <2>2
    <2>4. Locate(other.target) = Locate(call.target)
        BY <2>1, <2>3 DEF Locate
    <2>5. Resolved(other.target) = Resolved(call.target)
        BY <1>3, <2>4 DEF Resolved
    <2> QED BY <2>5 DEF FileAnswer, Served
<1> QED BY <1>1, <1>2, <1>3 DEF OnlyItsOwnUrls

\* Whatever the setup and whatever is on the disk: only the urls that the rules give to the
\* static files are answered, and these when there is a form of the file or of the page.
THEOREM OnlyOwnUrls == StaticSpec => []OnlyItsOwnUrls
<1>1. StaticInit => OneCall
    BY DEF StaticInit, OneCall
<1>2. OneCall /\ [StaticNext]_staticVars => OneCall'
    BY DEF StaticNext, staticVars, OneCall
<1> QED BY <1>1, <1>2, UrlsAre, PTL DEF StaticSpec

-----------------------------------------------------------------------------
(* HANDLERMATCHER *)

-----------------------------------------------------------------------------
(* Cutting up.  R tells which pieces there may be: <<k, a, b>> if the k-th may lie between  *)
(* the cuts a and b.                                                                        *)

\* A way to cut what lies behind a into the pieces from k to n
CutFrom(R, n, length, k, a, cut) ==
    /\ cut \in [(k - 1)..n -> 0..length] /\ cut[k - 1] = a /\ cut[n] = length
    /\ \A m \in k..n : cut[m - 1] <= cut[m] /\ <<m, cut[m - 1], cut[m]>> \in R

Chain(R, n, length, k, a) == \E cut : CutFrom(R, n, length, k, a, cut)

\* Behind the last piece there is nothing.
LEMMA ChainEnd ==
    ASSUME NEW R, NEW n \in Nat, NEW length \in Nat, NEW a \in 0..length
    PROVE  Chain(R, n, length, n + 1, a) <=> a = length
<1>1. ASSUME Chain(R, n, length, n + 1, a) PROVE a = length
    <2>1. PICK cut : CutFrom(R, n, length, n + 1, a, cut)
        BY <1>1 DEF Chain
    <2>2. (n + 1) - 1 = n
        OBVIOUS
    <2> QED BY <2>1, <2>2 DEF CutFrom
<1>2. ASSUME a = length PROVE Chain(R, n, length, n + 1, a)
    <2> DEFINE cut == [m \in n..n |-> a]
    <2>1. cut \in [n..n -> 0..length] /\ cut[n] = a
        OBVIOUS
    <2>2. (n + 1) - 1 = n /\ \A m \in (n + 1)..n : FALSE
        OBVIOUS
    <2> HIDE DEF cut
    <2>3. CutFrom(R, n, length, n + 1, a, cut)
        BY <1>2, <2>1, <2>2 DEF CutFrom
    <2> QED BY <2>3 DEF Chain
<1> QED BY <1>1, <1>2

\* A cut in front of a way to cut the rest is a way to cut it all.
Extended(k, n, a, cut) == [m \in (k - 1)..n |-> IF m = k - 1 THEN a ELSE cut[m]]

LEMMA CutExtends ==
    ASSUME NEW R, NEW n \in Nat, NEW length \in Nat, NEW k \in 1..n, NEW a \in 0..length,
           NEW b \in a..length, <<k, a, b>> \in R,
           NEW cut, CutFrom(R, n, length, k + 1, b, cut)
    PROVE  CutFrom(R, n, length, k, a, Extended(k, n, a, cut))
<1> DEFINE e == Extended(k, n, a, cut)
<1>1. cut \in [k..n -> 0..length] /\ cut[k] = b /\ cut[n] = length
    <2>1. (k + 1) - 1 = k
        OBVIOUS
    <2> QED BY <2>1 DEF CutFrom
<1>2. \A m \in (k + 1)..n : cut[m - 1] <= cut[m] /\ <<m, cut[m - 1], cut[m]>> \in R
    BY DEF CutFrom
<1>3. e[k - 1] = a /\ \A m \in k..n : e[m] = cut[m]
    <2>1. k - 1 \in (k - 1)..n /\ \A m \in k..n : m \in (k - 1)..n /\ m # k - 1
        OBVIOUS
    <2> QED BY <2>1 DEF Extended
<1>4. e \in [(k - 1)..n -> 0..length]
    <2>1. \A m \in (k - 1)..n : m # k - 1 => m \in k..n
        OBVIOUS
    <2>2. \A m \in (k - 1)..n : (IF m = k - 1 THEN a ELSE cut[m]) \in 0..length
        BY <1>1, <2>1
    <2> QED BY <2>2 DEF Extended
<1> HIDE DEF e
<1>5. ASSUME NEW m \in k..n PROVE e[m - 1] <= e[m] /\ <<m, e[m - 1], e[m]>> \in R
    <2>1. CASE m = k
        <3>1. e[m - 1] = a /\ e[m] = b /\ a <= b
            BY <1>1, <1>3, <2>1
        <3> QED BY <2>1, <3>1
    <2>2. CASE m # k
        <3>1. m \in (k + 1)..n /\ m - 1 \in k..n
            BY <2>2
        <3>2. e[m - 1] = cut[m - 1] /\ e[m] = cut[m]
            BY <1>3, <3>1
        <3> QED BY <1>2, <3>1, <3>2
    <2> QED BY <2>1, <2>2
<1>6. e[n] = length /\ n \in k..n
    BY <1>1, <1>3
<1> QED BY <1>3, <1>4, <1>5, <1>6 DEF CutFrom, e

\* The first piece, and a way to cut the rest
Shortened(k, n, cut) == [m \in k..n |-> cut[m]]

LEMMA CutBegins ==
    ASSUME NEW R, NEW n \in Nat, NEW length \in Nat, NEW k \in 1..n, NEW a \in 0..length,
           NEW cut, CutFrom(R, n, length, k, a, cut)
    PROVE  /\ cut[k] \in a..length /\ <<k, a, cut[k]>> \in R
           /\ CutFrom(R, n, length, k + 1, cut[k], Shortened(k, n, cut))
<1> DEFINE c == Shortened(k, n, cut)
           b == cut[k]
<1>1. /\ cut \in [(k - 1)..n -> 0..length] /\ cut[k - 1] = a /\ cut[n] = length
      /\ \A m \in k..n : cut[m - 1] <= cut[m] /\ <<m, cut[m - 1], cut[m]>> \in R
    BY DEF CutFrom
<1>2. k \in k..n /\ k \in (k - 1)..n /\ n \in k..n
    OBVIOUS
<1>3. b \in a..length /\ <<k, a, b>> \in R
    BY <1>1, <1>2
<1>4. (k + 1) - 1 = k
    OBVIOUS
<1>5. c \in [k..n -> 0..length] /\ c[k] = b /\ c[n] = length
    <2>1. \A m \in k..n : m \in (k - 1)..n
        OBVIOUS
    <2> QED BY <1>1, <1>2, <2>1 DEF Shortened
<1>6. \A m \in (k + 1)..n : c[m - 1] = cut[m - 1] /\ c[m] = cut[m] /\ m \in k..n
    BY DEF Shortened
<1> HIDE DEF c, b
<1>7. CutFrom(R, n, length, k + 1, b, c)
    BY <1>1, <1>4, <1>5, <1>6 DEF CutFrom
<1> QED BY <1>3, <1>7 DEF b, c

LEMMA ChainStep ==
    ASSUME NEW R, NEW n \in Nat, NEW length \in Nat, NEW k \in 1..n, NEW a \in 0..length
    PROVE  Chain(R, n, length, k, a)
            <=> \E b \in a..length : <<k, a, b>> \in R /\ Chain(R, n, length, k + 1, b)
<1>1. ASSUME Chain(R, n, length, k, a)
      PROVE  \E b \in a..length : <<k, a, b>> \in R /\ Chain(R, n, length, k + 1, b)
    <2>1. PICK cut : CutFrom(R, n, length, k, a, cut)
        BY <1>1 DEF Chain
    <2>2. /\ cut[k] \in a..length /\ <<k, a, cut[k]>> \in R
          /\ CutFrom(R, n, length, k + 1, cut[k], Shortened(k, n, cut))
        BY <2>1, CutBegins
    <2>3. Chain(R, n, length, k + 1, cut[k])
        BY <2>2 DEF Chain
    <2> QED BY <2>2, <2>3
<1>2. ASSUME NEW b \in a..length, <<k, a, b>> \in R, Chain(R, n, length, k + 1, b)
      PROVE  Chain(R, n, length, k, a)
    <2>1. PICK cut : CutFrom(R, n, length, k + 1, b, cut)
        BY <1>2 DEF Chain
    <2> QED BY <1>2, <2>1, CutExtends DEF Chain
<1> QED BY <1>1, <1>2

\* From the first piece on it is one of the Cuts.
LEMMA CutsAre ==
    ASSUME NEW R, NEW n \in Nat, NEW length \in Nat, NEW cut
    PROVE  CutFrom(R, n, length, 1, 0, cut)
            <=> cut \in Cuts(n, length) /\ \A k \in 1..n : <<k, cut[k - 1], cut[k]>> \in R
<1>1. 1 - 1 = 0
    OBVIOUS
<1> QED BY <1>1 DEF CutFrom, Cuts

-----------------------------------------------------------------------------
(* A segment and a pattern for it *)

Chars(segment, pattern) ==
    {w \in (1..Len(pattern)) \X Nat \X Nat :
        pattern[w[1]] = "*" \/ SubSeq(segment, w[2] + 1, w[3]) = <<pattern[w[1]]>>}

\* What is left of the segment from s on fits what is left of the pattern from p on.
Fits(segment, pattern, p, s) ==
    Chain(Chars(segment, pattern), Len(pattern), Len(segment), p, s - 1)

LEMMA CharsAre ==
    ASSUME NEW segment, NEW pattern, NEW k \in 1..Len(pattern), NEW a \in Nat, NEW b \in Nat
    PROVE  <<k, a, b>> \in Chars(segment, pattern)
            <=> pattern[k] = "*" \/ SubSeq(segment, a + 1, b) = <<pattern[k]>>
<1>1. <<k, a, b>> \in (1..Len(pattern)) \X Nat \X Nat
    OBVIOUS
<1> QED BY <1>1 DEF Chars

LEMMA OneIs ==
    ASSUME NEW S, NEW u \in Seq(S), Len(u) = 1
    PROVE  u = <<u[1]>>
<1>1. u[1] \in S
    <2>1. 1 \in 1..Len(u)
        OBVIOUS
    <2> QED BY <2>1, ElementOfSeq
<1>2. <<u[1]>> \in Seq(S) /\ Len(<<u[1]>>) = 1
    BY <1>1
<1>3. \A i \in 1..1 : u[i] = <<u[1]>>[i]
    OBVIOUS
<1> QED BY <1>2, <1>3, SeqEqual

\* One character between two cuts
LEMMA OneChar ==
    ASSUME NEW segment \in Seq(Characters), NEW c \in Characters, NEW a \in 0..Len(segment), NEW b \in a..Len(segment)
    PROVE  SubSeq(segment, a + 1, b) = <<c>> <=> b = a + 1 /\ segment[a + 1] = c
<1> DEFINE u == SubSeq(segment, a + 1, b)
<1>1. Len(segment) \in Nat /\ a \in Nat /\ b \in Nat
    BY LenProperties
<1>2. a + 1 \in Nat \ {0} /\ b \in 0..Len(segment) /\ (a + 1) + 1 - 1 = a + 1
    BY <1>1
<1>3. /\ u \in Seq(Characters) /\ Len(u) = IF a + 1 <= b THEN b - (a + 1) + 1 ELSE 0
      /\ \A i \in 1..(b - (a + 1) + 1) : u[i] = segment[a + 1 + i - 1]
    BY <1>2, PartIs
<1> HIDE DEF u
<1>4. Len(u) = 1 <=> b = a + 1
    BY <1>1, <1>3
<1>5. b = a + 1 => u[1] = segment[a + 1]
    <2> SUFFICES ASSUME b = a + 1 PROVE u[1] = segment[a + 1]
        OBVIOUS
    <2>1. 1 \in 1..(b - (a + 1) + 1)
        BY <1>1
    <2>2. u[1] = segment[(a + 1) + 1 - 1]
        BY <1>3, <2>1
    <2> QED BY <1>2, <2>2
<1>6. u = <<c>> => Len(u) = 1 /\ u[1] = c
    OBVIOUS
<1>7. Len(u) = 1 /\ u[1] = c => u = <<c>>
    BY <1>3, OneIs
<1> QED BY <1>4, <1>5, <1>6, <1>7 DEF u

LEMMA FitsEnd ==
    ASSUME NEW segment \in Seq(Characters), NEW pattern \in Seq(Characters), NEW s \in 1..(Len(segment) + 1)
    PROVE  Fits(segment, pattern, Len(pattern) + 1, s) <=> s = Len(segment) + 1
<1>1. Len(segment) \in Nat /\ Len(pattern) \in Nat
    BY LenProperties
<1>2. s - 1 \in 0..Len(segment)
    BY <1>1
<1>3. Fits(segment, pattern, Len(pattern) + 1, s) <=> s - 1 = Len(segment)
    BY <1>1, <1>2, ChainEnd DEF Fits
<1> QED BY <1>1, <1>3

LEMMA FitsStar ==
    ASSUME NEW segment \in Seq(Characters), NEW pattern \in Seq(Characters), NEW s \in 1..(Len(segment) + 1),
           NEW p \in 1..Len(pattern), pattern[p] = "*"
    PROVE  Fits(segment, pattern, p, s)
            <=> \E t \in s..(Len(segment) + 1) : Fits(segment, pattern, p + 1, t)
<1> DEFINE R == Chars(segment, pattern)
           n == Len(pattern)
           L == Len(segment)
<1>1. L \in Nat /\ n \in Nat /\ s - 1 \in 0..L /\ p \in 1..n
    BY LenProperties
<1>2. \A b \in (s - 1)..L : <<p, s - 1, b>> \in R
    BY <1>1 DEF Chars
<1> HIDE DEF R, n, L
<1>3. Chain(R, n, L, p, s - 1) <=> \E b \in (s - 1)..L : <<p, s - 1, b>> \in R /\ Chain(R, n, L, p + 1, b)
    BY <1>1, ChainStep
<1>4. Chain(R, n, L, p, s - 1) <=> \E b \in (s - 1)..L : Chain(R, n, L, p + 1, b)
    BY <1>2, <1>3
<1>5. ASSUME NEW b \in (s - 1)..L, Chain(R, n, L, p + 1, b)
      PROVE  \E t \in s..(L + 1) : Chain(R, n, L, p + 1, t - 1)
    <2>1. (b + 1) - 1 = b /\ b + 1 \in s..(L + 1)
        BY <1>1
    <2> QED BY <1>5, <2>1
<1>6. \A t \in s..(L + 1) : t - 1 \in (s - 1)..L
    BY <1>1
<1> QED BY <1>4, <1>5, <1>6 DEF Fits, R, n, L

LEMMA FitsChar ==
    ASSUME NEW segment \in Seq(Characters), NEW pattern \in Seq(Characters), NEW s \in 1..(Len(segment) + 1),
           NEW p \in 1..Len(pattern), pattern[p] # "*"
    PROVE  Fits(segment, pattern, p, s)
            <=> s <= Len(segment) /\ segment[s] = pattern[p] /\ Fits(segment, pattern, p + 1, s + 1)
<1> DEFINE R == Chars(segment, pattern)
           n == Len(pattern)
           L == Len(segment)
           c == pattern[p]
<1>1. L \in Nat /\ n \in Nat /\ s - 1 \in 0..L /\ p \in 1..n /\ (s - 1) + 1 = s /\ (s + 1) - 1 = s
    BY LenProperties
<1>0. c \in Characters
    BY ElementOfSeq
<1>2. ASSUME NEW b \in (s - 1)..L
      PROVE  <<p, s - 1, b>> \in R <=> b = s /\ segment[s] = c
    <2>0. PICK a \in 0..Len(segment) : a = s - 1
        BY <1>1
    <2>1. a \in Nat /\ b \in Nat /\ b \in a..Len(segment) /\ a + 1 = s
        BY <1>1, <2>0
    <2>2. <<p, a, b>> \in Chars(segment, pattern)
            <=> pattern[p] = "*" \/ SubSeq(segment, a + 1, b) = <<pattern[p]>>
        BY <2>1, CharsAre
    <2> HIDE DEF c
    <2>3. SubSeq(segment, a + 1, b) = <<c>> <=> b = a + 1 /\ segment[a + 1] = c
        BY <1>0, <2>1, OneChar
    <2>4. <<p, a, b>> \in R <=> b = a + 1 /\ segment[a + 1] = c
        BY <2>2, <2>3 DEF c
    <2> QED BY <2>0, <2>1, <2>4
<1> HIDE DEF R, n, L
<1>3. Chain(R, n, L, p, s - 1) <=> \E b \in (s - 1)..L : <<p, s - 1, b>> \in R /\ Chain(R, n, L, p + 1, b)
    BY <1>1, ChainStep
<1> HIDE DEF c
<1>4. Chain(R, n, L, p, s - 1) <=> s \in (s - 1)..L /\ segment[s] = c /\ Chain(R, n, L, p + 1, s)
    BY <1>2, <1>3
<1>5. s \in (s - 1)..L <=> s <= L
    BY <1>1
<1> QED BY <1>1, <1>4, <1>5 DEF Fits, R, n, L, c

\* Characters that are no "*" stand for themselves.
Same(segment, pattern, q, t, d) == \A m \in 0..(d - 1) : segment[t + m] = pattern[q + m]
NoStar(pattern, q, d) == \A m \in 0..(d - 1) : pattern[q + m] # "*"

LEMMA FitsRun ==
    ASSUME NEW segment \in Seq(Characters), NEW pattern \in Seq(Characters), NEW t \in 1..(Len(segment) + 1),
           NEW q \in 1..(Len(pattern) + 1), NEW d \in Nat, q + d <= Len(pattern) + 1, NoStar(pattern, q, d)
    PROVE  Fits(segment, pattern, q, t)
            <=> /\ t + d <= Len(segment) + 1 /\ Same(segment, pattern, q, t, d)
                /\ Fits(segment, pattern, q + d, t + d)
<1> DEFINE L == Len(segment)
           n == Len(pattern)
           Run(e) == t + e <= L + 1 /\ Same(segment, pattern, q, t, e)
                        /\ Fits(segment, pattern, q + e, t + e)
           S == {e \in Nat : e <= d => (Fits(segment, pattern, q, t) <=> Run(e))}
<1>1. L \in Nat /\ n \in Nat
    BY LenProperties
<1>2. 0 \in S
    <2>1. t + 0 <= L + 1 /\ q + 0 = q /\ t + 0 = t
        BY <1>1
    <2>2. Same(segment, pattern, q, t, 0)
        BY DEF Same
    <2> QED BY <2>1, <2>2
<1>3. ASSUME NEW e \in Nat, e \in S PROVE e + 1 \in S
    <2> SUFFICES ASSUME e + 1 <= d PROVE Fits(segment, pattern, q, t) <=> Run(e + 1)
        OBVIOUS
    <2>1. Fits(segment, pattern, q, t) <=> Run(e)
        BY <1>3
    <2>2. q + e \in 1..n /\ pattern[q + e] # "*"
        <3>1. e \in 0..(d - 1) /\ q + e \in 1..n
            BY <1>1
        <3> QED BY <3>1 DEF NoStar
    <2>3. q + (e + 1) = (q + e) + 1 /\ t + (e + 1) = (t + e) + 1 /\ q + e \in Nat /\ t + e \in Nat
        BY <1>1
    <2>4. ASSUME t + e <= L + 1
          PROVE  Fits(segment, pattern, q + e, t + e)
                    <=> t + e <= L /\ segment[t + e] = pattern[q + e] /\ Fits(segment, pattern, q + (e + 1), t + (e + 1))
        <3>1. t + e \in 1..(L + 1)
            BY <1>1, <2>4
        <3> QED BY <2>2, <2>3, <3>1, FitsChar
    <2>5. Same(segment, pattern, q, t, e + 1) <=> Same(segment, pattern, q, t, e) /\ segment[t + e] = pattern[q + e]
        <3>1. \A m \in 0..((e + 1) - 1) : m \in 0..(e - 1) \/ m = e
            OBVIOUS
        <3>2. \A m \in 0..(e - 1) : m \in 0..((e + 1) - 1)
            OBVIOUS
        <3>3. e \in 0..((e + 1) - 1)
            OBVIOUS
        <3> QED BY <3>1, <3>2, <3>3 DEF Same
    <2>6. t + (e + 1) <= L + 1 <=> t + e <= L
        BY <1>1
    <2>7. t + e <= L => t + e <= L + 1
        BY <1>1
    <2> QED BY <2>1, <2>4, <2>5, <2>6, <2>7, Zenon
<1> HIDE DEF S
<1>4. d \in S
    BY <1>2, <1>3, Counting
<1> QED BY <1>4 DEF S

\* Nothing is left of the segment.
LEMMA FitsNothing ==
    ASSUME NEW segment \in Seq(Characters), NEW pattern \in Seq(Characters), NEW p \in 1..(Len(pattern) + 1)
    PROVE  Fits(segment, pattern, p, Len(segment) + 1) <=> \A i \in p..Len(pattern) : pattern[i] = "*"
<1> DEFINE L == Len(segment)
           n == Len(pattern)
           Stars(q) == \A i \in q..n : pattern[i] = "*"
           S == {e \in Nat : e <= n => (Fits(segment, pattern, (n + 1) - e, L + 1) <=> Stars((n + 1) - e))}
<1>1. L \in Nat /\ n \in Nat
    BY LenProperties
<1>2. 0 \in S
    <2>1. (n + 1) - 0 = n + 1 /\ L + 1 \in 1..(L + 1) /\ \A i \in (n + 1)..n : FALSE
        BY <1>1
    <2>2. Fits(segment, pattern, n + 1, L + 1)
        BY <2>1, FitsEnd
    <2> QED BY <2>1, <2>2
<1>3. ASSUME NEW e \in Nat, e \in S PROVE e + 1 \in S
    <2> SUFFICES ASSUME e + 1 <= n
                 PROVE  Fits(segment, pattern, (n + 1) - (e + 1), L + 1) <=> Stars((n + 1) - (e + 1))
        OBVIOUS
    <2> DEFINE q == (n + 1) - (e + 1)
    <2>1. q \in 1..n /\ q + 1 = (n + 1) - e /\ L + 1 \in 1..(L + 1)
        BY <1>1
    <2>2. Fits(segment, pattern, q + 1, L + 1) <=> Stars(q + 1)
        BY <1>1, <1>3, <2>1
    <2> HIDE DEF q
    <2>3. Stars(q) <=> pattern[q] = "*" /\ Stars(q + 1)
        <3>1. q \in q..n /\ \A i \in q..n : i = q \/ i \in (q + 1)..n
            BY <1>1, <2>1
        <3>2. \A i \in (q + 1)..n : i \in q..n
            BY <1>1, <2>1
        <3> QED BY <3>1, <3>2
    <2>4. CASE pattern[q] = "*"
        <3>1. Fits(segment, pattern, q, L + 1) <=> \E t \in (L + 1)..(L + 1) : Fits(segment, pattern, q + 1, t)
            BY <2>1, <2>4, FitsStar
        <3>2. (L + 1)..(L + 1) = {L + 1}
            BY <1>1
        <3> QED BY <2>2, <2>3, <2>4, <3>1, <3>2 DEF q
    <2>5. CASE pattern[q] # "*"
        <3>1. ~Fits(segment, pattern, q, L + 1)
            <4>1. ~(L + 1 <= L)
                BY <1>1
            <4> QED BY <2>1, <2>5, <4>1, FitsChar
        <3> QED BY <2>3, <2>5, <3>1 DEF q
    <2> QED BY <2>4, <2>5
<1> HIDE DEF S
<1>4. (n + 1) - p \in S
    <2>1. (n + 1) - p \in Nat
        BY <1>1
    <2> QED BY <1>2, <1>3, <2>1, Counting
<1>5. (n + 1) - ((n + 1) - p) = p /\ (n + 1) - p <= n /\ (n + 1) - p \in Nat
    BY <1>1
<1> QED BY <1>4, <1>5 DEF S

LEMMA FitsMeans ==
    ASSUME NEW segment \in Seq(Characters), NEW pattern \in Seq(Characters)
    PROVE  Fits(segment, pattern, 1, 1) <=> MeansSegment(segment, pattern)
<1> DEFINE R == Chars(segment, pattern)
           n == Len(pattern)
           L == Len(segment)
           Good(cut) == \A k \in 1..n : pattern[k] = "*" \/ Piece(segment, cut, k) = <<pattern[k]>>
<1>1. L \in Nat /\ n \in Nat /\ 1 - 1 = 0
    BY LenProperties
<1>2. DOMAIN pattern = 1..n
    BY LenProperties
<1>3. ASSUME NEW cut \in Cuts(n, L)
      PROVE  (\A k \in 1..n : <<k, cut[k - 1], cut[k]>> \in R) <=> Good(cut)
    <2>1. ASSUME NEW k \in 1..n
          PROVE  <<k, cut[k - 1], cut[k]>> \in R <=> pattern[k] = "*" \/ Piece(segment, cut, k) = <<pattern[k]>>
        <3>1. k \in 0..n /\ k - 1 \in 0..n /\ cut \in [0..n -> 0..L]
            BY <1>1 DEF Cuts
        <3>2. cut[k - 1] \in Nat /\ cut[k] \in Nat
            BY <3>1
        <3> QED BY <3>2 DEF Chars, Piece
    <2> HIDE DEF R
    <2> QED BY <2>1
<1> HIDE DEF R, n, L
<1>4. Fits(segment, pattern, 1, 1) <=> \E cut : CutFrom(R, n, L, 1, 0, cut)
    BY <1>1 DEF Fits, Chain, R, n, L
<1>5. \A cut : CutFrom(R, n, L, 1, 0, cut)
                <=> cut \in Cuts(n, L) /\ \A k \in 1..n : <<k, cut[k - 1], cut[k]>> \in R
    BY <1>1, CutsAre
<1>6. Fits(segment, pattern, 1, 1) <=> \E cut \in Cuts(n, L) : Good(cut)
    BY <1>3, <1>4, <1>5
<1> QED BY <1>2, <1>6 DEF MeansSegment, n, L

-----------------------------------------------------------------------------
(* The loop of segmentMatchesGlob *)

\* A place of the loop, by its parts
Place(segment, pattern, at) ==
    /\ at \in [s : Nat, p : Nat, star : Nat, from : Nat]
    /\ at.s \in 1..(Len(segment) + 1) /\ at.p \in 1..(Len(pattern) + 1)
    /\ at.star <= Len(pattern) /\ at.from <= Len(segment) + 1 /\ at.star < at.p /\ at.from <= at.s

LEMMA PlacesAre ==
    ASSUME NEW segment \in Seq(Characters), NEW pattern \in Seq(Characters), NEW at
    PROVE  at \in GlobPlaces(segment, pattern) <=> Place(segment, pattern, at)
<1>1. Len(segment) \in Nat /\ Len(pattern) \in Nat
    BY LenProperties
<1>2. ASSUME at \in GlobPlaces(segment, pattern) PROVE Place(segment, pattern, at)
    <2>1. at \in [s : 1..Len(segment) + 1, p : 1..Len(pattern) + 1,
                  star : 0..Len(pattern), from : 0..Len(segment) + 1] /\ at.star < at.p /\ at.from <= at.s
        BY <1>2 DEF GlobPlaces
    <2>2. /\ at.s \in 1..Len(segment) + 1 /\ at.p \in 1..Len(pattern) + 1
          /\ at.star \in 0..Len(pattern) /\ at.from \in 0..Len(segment) + 1
          /\ at = [s |-> at.s, p |-> at.p, star |-> at.star, from |-> at.from]
        BY <2>1
    <2>3. at.s \in Nat /\ at.p \in Nat /\ at.star \in Nat /\ at.from \in Nat
          /\ at.star <= Len(pattern) /\ at.from <= Len(segment) + 1
        BY <1>1, <2>2
    <2> QED BY <2>1, <2>2, <2>3 DEF Place
<1>3. ASSUME Place(segment, pattern, at) PROVE at \in GlobPlaces(segment, pattern)
    <2>1. /\ at.star \in 0..Len(pattern) /\ at.from \in 0..Len(segment) + 1
          /\ at.s \in 1..Len(segment) + 1 /\ at.p \in 1..Len(pattern) + 1
        BY <1>1, <1>3 DEF Place
    <2>2. at = [s |-> at.s, p |-> at.p, star |-> at.star, from |-> at.from]
        BY <1>3 DEF Place
    <2>3. at \in [s : 1..Len(segment) + 1, p : 1..Len(pattern) + 1,
                  star : 0..Len(pattern), from : 0..Len(segment) + 1]
        BY <2>1, <2>2
    <2> QED BY <1>3, <2>3 DEF GlobPlaces, Place
<1> QED BY <1>2, <1>3

Parts(segment, pattern, at, L, n, s, p, star, from) ==
    /\ L = Len(segment) /\ n = Len(pattern)
    /\ at.s = s /\ at.p = p /\ at.star = star /\ at.from = from /\ at = At(s, p, star, from)
    /\ 1 <= s /\ s <= L + 1 /\ 1 <= p /\ p <= n + 1 /\ star <= n /\ from <= L + 1
    /\ star < p /\ from <= s

LEMMA PartsAre ==
    ASSUME NEW segment \in Seq(Characters), NEW pattern \in Seq(Characters), NEW at, Place(segment, pattern, at)
    PROVE  \E L, n, s, p, star, from \in Nat : Parts(segment, pattern, at, L, n, s, p, star, from)
<1>1. Len(segment) \in Nat /\ Len(pattern) \in Nat
    BY LenProperties
<1>2. at = At(at.s, at.p, at.star, at.from)
      /\ at.s \in Nat /\ at.p \in Nat /\ at.star \in Nat /\ at.from \in Nat
    BY DEF Place, At
<1>3. 1 <= at.s /\ at.s <= Len(segment) + 1 /\ 1 <= at.p /\ at.p <= Len(pattern) + 1
    BY <1>1, <1>2 DEF Place
<1>4. Parts(segment, pattern, at, Len(segment), Len(pattern), at.s, at.p, at.star, at.from)
    BY <1>2, <1>3 DEF Place, Parts
<1> QED BY <1>1, <1>2, <1>4

\* What becomes less with every round: a "*" that is noted, or a longer text for it, outweighs
\* what is left of the pattern.
LEMMA Lexical ==
    ASSUME NEW A \in Nat, NEW B \in Nat, NEW a \in Nat, NEW b \in Nat, NEW K \in Nat,
           b < K, a < A \/ (a = A /\ b < B)
    PROVE  a * K + b < A * K + B /\ a * K + b \in Nat
<1>1. a * K \in Nat /\ A * K \in Nat
    OBVIOUS
<1>2. CASE a < A
    <2>1. PICK d \in Nat : A = a + 1 + d
        <3>1. A - a - 1 \in Nat /\ A = a + 1 + (A - a - 1)
            BY <1>2
        <3> QED BY <3>1
    <2>2. A * K = a * K + K + d * K /\ d * K \in Nat
        BY <2>1
    <2> QED BY <1>1, <2>2
<1>3. CASE a = A /\ b < B
    BY <1>1, <1>3
<1> QED BY <1>2, <1>3

Weight(segment, pattern, at) ==
    (Len(segment) + Len(pattern) + 1 - at.from - at.star) * (Len(pattern) + 2) + (Len(pattern) + 1 - at.p)

Wild(pattern, at) == at.p <= Len(pattern) /\ pattern[at.p] = "*"
Like(segment, pattern, at) == at.p <= Len(pattern) /\ pattern[at.p] # "*" /\ pattern[at.p] = segment[at.s]

LEMMA RoundIs ==
    ASSUME NEW segment \in Seq(Characters), NEW pattern \in Seq(Characters), NEW at, Place(segment, pattern, at)
    PROVE  Round(segment, pattern, at)
            = IF Wild(pattern, at) THEN At(at.s, at.p + 1, at.p, at.s)
              ELSE IF Like(segment, pattern, at) THEN At(at.s + 1, at.p + 1, at.star, at.from)
              ELSE At(at.from + 1, at.star + 1, at.star, at.from + 1)
<1>1. Len(pattern) \in Nat /\ at.p \in Nat /\ (at.p > Len(pattern) <=> ~(at.p <= Len(pattern)))
    BY LenProperties DEF Place
<1>2. CASE Wild(pattern, at)
    BY <1>1, <1>2 DEF Round, Wild
<1>3. CASE Like(segment, pattern, at)
    <2>2. ~Wild(pattern, at)
        BY <1>3 DEF Wild, Like
    <2>3. Round(segment, pattern, at) = At(at.s + 1, at.p + 1, at.star, at.from)
        BY <1>1, <1>3 DEF Round, Like
    <2> QED BY <1>3, <2>2, <2>3
<1>4. CASE ~Wild(pattern, at) /\ ~Like(segment, pattern, at)
    BY <1>1, <1>4 DEF Round, Wild, Like
<1> QED BY <1>2, <1>3, <1>4

LEMMA StuckIs ==
    ASSUME NEW segment \in Seq(Characters), NEW pattern \in Seq(Characters), NEW at, Place(segment, pattern, at)
    PROVE  Stuck(segment, pattern, at) <=> at.star = 0 /\ ~Wild(pattern, at) /\ ~Like(segment, pattern, at)
<1>1. Len(pattern) \in Nat /\ at.p \in Nat /\ (at.p > Len(pattern) <=> ~(at.p <= Len(pattern)))
    BY LenProperties DEF Place
<1> QED BY <1>1 DEF Stuck, Wild, Like

LEMMA PlaceIs ==
    ASSUME NEW segment \in Seq(Characters), NEW pattern \in Seq(Characters),
           NEW s \in 1..(Len(segment) + 1), NEW p \in 1..(Len(pattern) + 1),
           NEW star \in Nat, star < p, NEW from \in Nat, from <= s
    PROVE  Place(segment, pattern, At(s, p, star, from))
<1>1. Len(segment) \in Nat /\ Len(pattern) \in Nat
    BY LenProperties
<1>2. s \in Nat /\ p \in Nat /\ star <= Len(pattern) /\ from <= Len(segment) + 1
    BY <1>1
<1>3. At(s, p, star, from) \in [s : Nat, p : Nat, star : Nat, from : Nat]
    BY <1>2 DEF At
<1> QED BY <1>2, <1>3 DEF Place, At

LEMMA WeightIs ==
    ASSUME NEW segment \in Seq(Characters), NEW pattern \in Seq(Characters), NEW at, Place(segment, pattern, at)
    PROVE  Weight(segment, pattern, at) \in Nat
<1>1. PICK L, n, s, p, star, from \in Nat : Parts(segment, pattern, at, L, n, s, p, star, from)
    BY PartsAre
<1>2. PICK A \in Nat : A = L + n + 1 - from - star
    <2>1. L + n + 1 - from - star \in Nat
        BY <1>1 DEF Parts
    <2> QED BY <2>1
<1>3. PICK B \in Nat : B = n + 1 - p
    <2>1. n + 1 - p \in Nat
        BY <1>1 DEF Parts
    <2> QED BY <2>1
<1>4. PICK K \in Nat : K = n + 2
    OBVIOUS
<1>5. A * K + B \in Nat
    OBVIOUS
<1>6. Weight(segment, pattern, at) = A * K + B
    BY <1>1, <1>2, <1>3, <1>4 DEF Weight, Parts
<1> QED BY <1>5, <1>6

Later(x, y) == y.from + y.star > x.from + x.star \/ (y.from + y.star = x.from + x.star /\ y.p > x.p)

LEMMA WeightLess ==
    ASSUME NEW segment \in Seq(Characters), NEW pattern \in Seq(Characters),
           NEW x, Place(segment, pattern, x), NEW y, Place(segment, pattern, y),
           Later(x, y)
    PROVE  Weight(segment, pattern, y) < Weight(segment, pattern, x)
<1>1. PICK L, n, s, p, star, from \in Nat : Parts(segment, pattern, x, L, n, s, p, star, from)
    BY PartsAre
<1>2. PICK M, m, t, q, later, back \in Nat : Parts(segment, pattern, y, M, m, t, q, later, back)
    BY PartsAre
<1>3. PICK A \in Nat : A = L + n + 1 - from - star
    <2>1. L + n + 1 - from - star \in Nat
        BY <1>1 DEF Parts
    <2> QED BY <2>1
<1>4. PICK B \in Nat : B = n + 1 - p
    <2>1. n + 1 - p \in Nat
        BY <1>1 DEF Parts
    <2> QED BY <2>1
<1>5. PICK a \in Nat : a = L + n + 1 - back - later
    <2>1. L + n + 1 - back - later \in Nat
        BY <1>1, <1>2 DEF Parts
    <2> QED BY <2>1
<1>6. PICK b \in Nat : b = n + 1 - q
    <2>1. n + 1 - q \in Nat
        BY <1>1, <1>2 DEF Parts
    <2> QED BY <2>1
<1>7. PICK K \in Nat : K = n + 2
    OBVIOUS
<1>8. back + later > from + star \/ (back + later = from + star /\ q > p)
    BY <1>1, <1>2 DEF Parts, Later
<1>9. b < K /\ (a < A \/ (a = A /\ b < B))
    <2>1. q >= 1
        BY <1>2 DEF Parts
    <2>2. b < K
        BY <1>6, <1>7, <2>1
    <2>3. back + later > from + star => a < A
        BY <1>3, <1>5
    <2>4. back + later = from + star /\ q > p => a = A /\ b < B
        BY <1>3, <1>4, <1>5, <1>6
    <2> QED BY <1>8, <2>2, <2>3, <2>4
<1>10. a * K + b < A * K + B
    BY <1>9, Lexical
<1>11. Weight(segment, pattern, x) = A * K + B
    BY <1>1, <1>3, <1>4, <1>7 DEF Weight, Parts
<1>12. Weight(segment, pattern, y) = a * K + b
    BY <1>1, <1>2, <1>5, <1>6, <1>7 DEF Weight, Parts
<1> QED BY <1>10, <1>11, <1>12

\* A round gives a place, and one that is later.
NextPlace(segment, pattern, x, y) == Place(segment, pattern, y) /\ Later(x, y)

LEMMA RoundGoesOn ==
    ASSUME NEW segment \in Seq(Characters), NEW pattern \in Seq(Characters), NEW at, Place(segment, pattern, at),
           at.s <= Len(segment)
    PROVE  NextPlace(segment, pattern, at, Round(segment, pattern, at))
<1> DEFINE y == Round(segment, pattern, at)
<1>1. PICK L, n, s, p, star, from \in Nat : Parts(segment, pattern, at, L, n, s, p, star, from)
    BY PartsAre
<1>2. /\ L = Len(segment) /\ n = Len(pattern) /\ s >= 1 /\ s <= L /\ p >= 1 /\ p <= n + 1
      /\ at.s = s /\ at.p = p /\ at.star = star /\ at.from = from
      /\ star <= n /\ from <= L + 1 /\ star < p /\ from <= s
    BY <1>1 DEF Parts
<1>3. CASE Wild(pattern, at)
    <2>1. PICK q \in Nat : q = p + 1
        OBVIOUS
    <2>2. y = At(s, q, p, s)
        BY <1>2, <1>3, <2>1, RoundIs
    <2>3. s \in 1..(L + 1) /\ q \in 1..(n + 1) /\ p < q /\ s <= s
        BY <1>2, <1>3, <2>1 DEF Wild
    <2>4. Place(segment, pattern, y)
        BY <1>2, <2>2, <2>3, PlaceIs
    <2>5. s + p > from + star
        BY <1>2
    <2>6. Later(at, y)
        BY <1>2, <2>2, <2>5 DEF At, Later
    <2> QED BY <2>4, <2>6 DEF NextPlace
<1>4. CASE ~Wild(pattern, at) /\ Like(segment, pattern, at)
    <2>1. PICK q, t \in Nat : q = p + 1 /\ t = s + 1
        OBVIOUS
    <2>2. y = At(t, q, star, from)
        BY <1>2, <1>4, <2>1, RoundIs
    <2>3. t \in 1..(L + 1) /\ q \in 1..(n + 1) /\ star < q /\ from <= t /\ q > p
        BY <1>2, <1>4, <2>1 DEF Like
    <2>4. Place(segment, pattern, y)
        BY <1>2, <2>2, <2>3, PlaceIs
    <2>6. Later(at, y)
        BY <1>2, <2>2, <2>3 DEF At, Later
    <2> QED BY <2>4, <2>6 DEF NextPlace
<1>5. CASE ~Wild(pattern, at) /\ ~Like(segment, pattern, at)
    <2>1. PICK q, t \in Nat : q = star + 1 /\ t = from + 1
        OBVIOUS
    <2>2. y = At(t, q, star, t)
        BY <1>2, <1>5, <2>1, RoundIs
    <2>3. t \in 1..(L + 1) /\ q \in 1..(n + 1) /\ star < q /\ t <= t
        BY <1>2, <2>1
    <2>4. Place(segment, pattern, y)
        BY <1>2, <2>2, <2>3, PlaceIs
    <2>5. t + star > from + star
        BY <2>1
    <2>6. Later(at, y)
        BY <1>2, <2>2, <2>5 DEF At, Later
    <2> QED BY <2>4, <2>6 DEF NextPlace
<1> QED BY <1>3, <1>4, <1>5

\* The loop gives the value of where it ends.
Looped(segment, pattern, f) ==
    \A at : Place(segment, pattern, at) =>
        f[at] = IF at.s > Len(segment) THEN \A n \in at.p..Len(pattern) : pattern[n] = "*"
                ELSE ~Stuck(segment, pattern, at) /\ f[Round(segment, pattern, at)]

LEMMA LoopExists ==
    ASSUME NEW segment \in Seq(Characters), NEW pattern \in Seq(Characters)
    PROVE  \E f : Looped(segment, pattern, f) /\ GlobMatches(segment, pattern) = f[At(1, 1, 0, 0)]
<1> DEFINE X == GlobPlaces(segment, pattern)
           Stars(at) == \A n \in at.p..Len(pattern) : pattern[n] = "*"
           Value(at, g) == IF at.s > Len(segment) THEN Stars(at)
                           ELSE ~Stuck(segment, pattern, at) /\ g[Round(segment, pattern, at)]
           measure == [at \in X |-> Weight(segment, pattern, at)]
           F == [w \in X \X [X -> BOOLEAN] |-> Value(w[1], w[2])]
           Is(f) == f = [at \in X |-> Value(at, f)]
<1>1. measure \in [X -> Nat]
    <2>1. \A at \in X : Weight(segment, pattern, at) \in Nat
        BY PlacesAre, WeightIs
    <2> QED BY <2>1
<1>2. F \in [X \X [X -> BOOLEAN] -> BOOLEAN]
    OBVIOUS
<1>3. LooksDown(F, X, BOOLEAN, measure)
    <2>1. ASSUME NEW x \in X, NEW g \in [X -> BOOLEAN], NEW h \in [X -> BOOLEAN],
                 \A y \in X : measure[y] < measure[x] => g[y] = h[y]
          PROVE  Value(x, g) = Value(x, h)
        <3>1. Place(segment, pattern, x)
            BY PlacesAre
        <3>2. CASE x.s > Len(segment)
            BY <3>2
        <3>3. CASE ~(x.s > Len(segment)) /\ Stuck(segment, pattern, x)
            BY <3>3
        <3>4. CASE ~(x.s > Len(segment)) /\ ~Stuck(segment, pattern, x)
            <4> DEFINE y == Round(segment, pattern, x)
            <4>1. x.s <= Len(segment)
                BY <3>1, <3>4, LenProperties DEF Place
            <4>2. Place(segment, pattern, y) /\ Weight(segment, pattern, y) < Weight(segment, pattern, x)
                BY <3>1, <4>1, RoundGoesOn, WeightLess DEF NextPlace
            <4>3. y \in X
                BY <4>2, PlacesAre
            <4>4. measure[y] < measure[x]
                BY <4>2, <4>3
            <4>5. g[y] = h[y]
                BY <2>1, <4>3, <4>4
            <4> QED BY <3>4, <4>5
        <3> QED BY <3>2, <3>3, <3>4
    <2>2. \A x \in X, g \in [X -> BOOLEAN] : F[<<x, g>>] = Value(x, g)
        OBVIOUS
    <2> HIDE DEF F, Value, X, measure
    <2>3. ASSUME NEW x \in X, NEW g \in [X -> BOOLEAN], NEW h \in [X -> BOOLEAN],
                 \A y \in X : measure[y] < measure[x] => g[y] = h[y]
          PROVE  F[<<x, g>>] = F[<<x, h>>]
        <3>1. Value(x, g) = Value(x, h)
            BY <2>1, <2>3
        <3>2. F[<<x, g>>] = Value(x, g) /\ F[<<x, h>>] = Value(x, h)
            BY <2>2
        <3> QED BY <3>1, <3>2
    <2> QED BY <2>3 DEF LooksDown
<1>4. \E f : Recurses(f, X, BOOLEAN, F)
    <2> HIDE DEF F, X, measure
    <2> QED BY <1>1, <1>2, <1>3, RecursionDown
<1>5. PICK g : Recurses(g, X, BOOLEAN, F)
    BY <1>4
<1>6. g = [at \in X |-> Value(at, g)]
    <2>1. g \in [X -> BOOLEAN] /\ \A at \in X : g[at] = F[<<at, g>>]
        BY <1>5 DEF Recurses
    <2>2. \A at \in X : F[<<at, g>>] = Value(at, g)
        BY <2>1
    <2> HIDE DEF F, Value, X
    <2> QED BY <2>1, <2>2
<1>7. Is(g)
    BY <1>6
<1> DEFINE f == CHOOSE h : Is(h)
<1>8. Is(f)
    <2> HIDE DEF Is
    <2> QED BY <1>7
<1>9. f = [at \in X |-> Value(at, f)]
    BY <1>8
<1>10. GlobMatches(segment, pattern) = f[At(1, 1, 0, 0)]
    BY DEF GlobMatches
<1> HIDE DEF f, Value
<1>11. ASSUME NEW at, Place(segment, pattern, at) PROVE f[at] = Value(at, f)
    <2>1. at \in X
        BY <1>11, PlacesAre
    <2> HIDE DEF X
    <2> QED BY <1>9, <2>1
<1>12. Looped(segment, pattern, f)
    BY <1>11 DEF Looped, Value
<1> QED BY <1>10, <1>12

\* The text between the last "*" and the place of the loop is what the pattern has there.
Held(segment, pattern, star, from, s, p) ==
    /\ from >= 1 /\ p - star - 1 = s - from
    /\ NoStar(pattern, star + 1, s - from) /\ Same(segment, pattern, star + 1, from, s - from)
Consistent(segment, pattern, at) ==
    at.star > 0 => Held(segment, pattern, at.star, at.from, at.s, at.p)

\* What the loop has to find out, at some place: with a "*" before it, that may stand for more.
Target(segment, pattern, at) ==
    IF at.star = 0 THEN Fits(segment, pattern, at.p, at.s)
    ELSE \E t \in at.from..(Len(segment) + 1) : Fits(segment, pattern, at.star + 1, t)

\* What fits behind the last "*" fits at the place of the loop, or further on.
FurtherOn(segment, pattern, s, p, star, from) ==
    /\ Fits(segment, pattern, star + 1, from) <=> Fits(segment, pattern, p, s)
    /\ \A t \in from..(Len(segment) + 1) : Fits(segment, pattern, star + 1, t) =>
            t + (s - from) <= Len(segment) + 1 /\ Fits(segment, pattern, p, t + (s - from))

LEMMA HeldIs ==
    ASSUME NEW segment \in Seq(Characters), NEW pattern \in Seq(Characters), NEW at,
           NEW L \in Nat, NEW n \in Nat, NEW s \in Nat, NEW p \in Nat, NEW star \in Nat, NEW from \in Nat,
           Parts(segment, pattern, at, L, n, s, p, star, from), Held(segment, pattern, star, from, s, p)
    PROVE  FurtherOn(segment, pattern, s, p, star, from)
<1>1. /\ L = Len(segment) /\ n = Len(pattern) /\ s >= 1 /\ s <= L + 1 /\ p >= 1 /\ p <= n + 1
      /\ star <= n /\ from <= L + 1 /\ star < p /\ from <= s
    BY DEF Parts
<1>2. from >= 1 /\ p - star - 1 = s - from
    BY DEF Held
<1>3. PICK d \in Nat : d = s - from
    <2>1. s - from \in Nat
        BY <1>1
    <2> QED BY <2>1
<1>4. PICK q \in Nat : q = star + 1
    OBVIOUS
<1>5. q \in 1..(n + 1) /\ q + d = p /\ from + d = s /\ q + d <= n + 1
    BY <1>1, <1>2, <1>3, <1>4
<1>6. NoStar(pattern, q, d) /\ Same(segment, pattern, q, from, d)
    BY <1>3, <1>4 DEF Held
<1>7. ASSUME NEW t \in 1..(L + 1)
      PROVE  Fits(segment, pattern, q, t)
                <=> /\ t + d <= L + 1 /\ Same(segment, pattern, q, t, d)
                    /\ Fits(segment, pattern, p, t + d)
    <2>1. t \in 1..(Len(segment) + 1) /\ q \in 1..(Len(pattern) + 1) /\ q + d <= Len(pattern) + 1
        BY <1>1, <1>5
    <2> QED BY <1>1, <1>5, <1>6, <2>1, FitsRun
<1>8. Fits(segment, pattern, q, from) <=> Fits(segment, pattern, p, s)
    <2>1. from \in 1..(L + 1) /\ from + d <= L + 1
        BY <1>1, <1>2, <1>5
    <2> QED BY <1>5, <1>6, <1>7, <2>1
<1>9. ASSUME NEW t \in from..(L + 1), Fits(segment, pattern, q, t)
      PROVE  t + d <= L + 1 /\ Fits(segment, pattern, p, t + d)
    <2>1. t \in 1..(L + 1)
        BY <1>1, <1>2
    <2> QED BY <1>7, <1>9, <2>1
<1> QED BY <1>1, <1>3, <1>4, <1>8, <1>9 DEF FurtherOn

\* At the end of the segment
LEMMA TargetAtTheEnd ==
    ASSUME NEW segment \in Seq(Characters), NEW pattern \in Seq(Characters), NEW at, Place(segment, pattern, at),
           Consistent(segment, pattern, at), at.s > Len(segment)
    PROVE  Target(segment, pattern, at) <=> \A n \in at.p..Len(pattern) : pattern[n] = "*"
<1>1. PICK L, n, s, p, star, from \in Nat : Parts(segment, pattern, at, L, n, s, p, star, from)
    BY PartsAre
<1>2. /\ L = Len(segment) /\ n = Len(pattern) /\ s >= 1 /\ s <= L + 1 /\ p >= 1 /\ p <= n + 1
      /\ at.s = s /\ at.p = p /\ at.star = star /\ at.from = from
      /\ star <= n /\ from <= L + 1 /\ star < p /\ from <= s
    BY <1>1 DEF Parts
<1>3. s = L + 1 /\ p \in 1..(n + 1)
    BY <1>2
<1>4. Fits(segment, pattern, p, s) <=> \A i \in p..n : pattern[i] = "*"
    BY <1>2, <1>3, FitsNothing
<1>5. CASE star = 0
    BY <1>2, <1>4, <1>5 DEF Target
<1>6. CASE star > 0
    <2>1. FurtherOn(segment, pattern, s, p, star, from)
        BY <1>1, <1>2, <1>6, HeldIs DEF Consistent
    <2>2. from \in from..(L + 1)
        BY <1>2
    <2>3. ASSUME NEW t \in from..(L + 1), t + (s - from) <= L + 1 PROVE t = from
        BY <1>2, <1>3, <2>3
    <2>4. (\E t \in from..(L + 1) : Fits(segment, pattern, star + 1, t)) <=> Fits(segment, pattern, p, s)
        BY <1>2, <2>1, <2>2, <2>3 DEF FurtherOn
    <2>5. star # 0
        BY <1>6
    <2> QED BY <1>2, <1>4, <2>4, <2>5 DEF Target
<1> QED BY <1>5, <1>6

\* Where the pattern has neither a "*" nor the character of the segment, nothing fits.
LEMMA FitsNot ==
    ASSUME NEW segment \in Seq(Characters), NEW pattern \in Seq(Characters), NEW at, Place(segment, pattern, at),
           at.s <= Len(segment), ~Wild(pattern, at), ~Like(segment, pattern, at)
    PROVE  ~Fits(segment, pattern, at.p, at.s)
<1>1. PICK L, n, s, p, star, from \in Nat : Parts(segment, pattern, at, L, n, s, p, star, from)
    BY PartsAre
<1>2. /\ L = Len(segment) /\ n = Len(pattern) /\ s >= 1 /\ s <= L /\ p >= 1 /\ p <= n + 1
      /\ at.s = s /\ at.p = p
    BY <1>1 DEF Parts
<1>3. s \in 1..(L + 1)
    BY <1>2
<1>4. CASE p <= n
    <2>1. p \in 1..n /\ pattern[p] # "*" /\ pattern[p] # segment[s]
        BY <1>2, <1>4 DEF Wild, Like
    <2> QED BY <1>2, <1>3, <2>1, FitsChar
<1>5. CASE p > n
    <2>1. p = n + 1 /\ s # L + 1
        BY <1>2, <1>5
    <2> QED BY <1>2, <1>3, <2>1, FitsEnd
<1> QED BY <1>4, <1>5

KeepsTarget(segment, pattern, x, y) ==
    /\ Consistent(segment, pattern, y)
    /\ Target(segment, pattern, x) <=> Target(segment, pattern, y)

\* A "*" that is noted: what stood before it has been found, as early as may be.
LEMMA NotesStar ==
    ASSUME NEW segment \in Seq(Characters), NEW pattern \in Seq(Characters), NEW at, Place(segment, pattern, at),
           Consistent(segment, pattern, at), Wild(pattern, at)
    PROVE  KeepsTarget(segment, pattern, at, At(at.s, at.p + 1, at.p, at.s))
<1>1. PICK L, n, s, p, star, from \in Nat : Parts(segment, pattern, at, L, n, s, p, star, from)
    BY PartsAre
<1>2. /\ L = Len(segment) /\ n = Len(pattern) /\ s >= 1 /\ s <= L + 1 /\ p >= 1 /\ p <= n + 1
      /\ at.s = s /\ at.p = p /\ at.star = star /\ at.from = from
      /\ star <= n /\ from <= L + 1 /\ star < p /\ from <= s
    BY <1>1 DEF Parts
<1> DEFINE y == At(s, p + 1, p, s)
<1>3. s \in 1..(L + 1) /\ p \in 1..n /\ pattern[p] = "*" /\ p # 0
    BY <1>2 DEF Wild
<1>4. Consistent(segment, pattern, y)
    <2>1. (p + 1) - p - 1 = 0 /\ s - s = 0 /\ \A m \in 0..(0 - 1) : FALSE
        OBVIOUS
    <2>2. Held(segment, pattern, p, s, s, p + 1)
        BY <1>2, <2>1 DEF Held, NoStar, Same
    <2> QED BY <2>2 DEF Consistent, At
<1>5. Fits(segment, pattern, p, s) <=> \E t \in s..(L + 1) : Fits(segment, pattern, p + 1, t)
    BY <1>2, <1>3, FitsStar
<1>6. Target(segment, pattern, y) <=> \E t \in s..(L + 1) : Fits(segment, pattern, p + 1, t)
    BY <1>2, <1>3 DEF Target, At
<1>7. Target(segment, pattern, at) <=> Fits(segment, pattern, p, s)
    <2>1. CASE star = 0
        BY <1>2, <2>1 DEF Target
    <2>2. CASE star > 0
        <3>1. FurtherOn(segment, pattern, s, p, star, from)
            BY <1>1, <1>2, <2>2, HeldIs DEF Consistent
        <3>2. Target(segment, pattern, at) <=> \E t \in from..(L + 1) : Fits(segment, pattern, star + 1, t)
            BY <1>2, <2>2 DEF Target
        <3>3. from \in from..(L + 1)
            BY <1>2
        <3>4. Fits(segment, pattern, p, s) => Target(segment, pattern, at)
            BY <3>1, <3>2, <3>3 DEF FurtherOn
        <3>5. ASSUME NEW t \in from..(L + 1), Fits(segment, pattern, star + 1, t)
              PROVE  Fits(segment, pattern, p, s)
            <4>1. PICK u \in Nat : u = t + (s - from)
                <5>1. t + (s - from) \in Nat
                    BY <1>2
                <5> QED BY <5>1
            <4>2. u <= L + 1 /\ Fits(segment, pattern, p, u)
                BY <1>2, <3>1, <3>5, <4>1 DEF FurtherOn
            <4>3. u >= s /\ u \in 1..(L + 1)
                BY <1>2, <4>1, <4>2
            <4>4. PICK v \in u..(L + 1) : Fits(segment, pattern, p + 1, v)
                BY <1>2, <1>3, <4>2, <4>3, FitsStar
            <4>5. v \in s..(L + 1)
                BY <4>3, <4>4
            <4> QED BY <1>5, <4>4, <4>5
        <3> QED BY <3>2, <3>4, <3>5
    <2> QED BY <2>1, <2>2
<1> QED BY <1>2, <1>4, <1>5, <1>6, <1>7 DEF KeepsTarget

\* A character that goes with its like
LEMMA TakesLike ==
    ASSUME NEW segment \in Seq(Characters), NEW pattern \in Seq(Characters), NEW at, Place(segment, pattern, at),
           at.s <= Len(segment), Consistent(segment, pattern, at), Like(segment, pattern, at)
    PROVE  KeepsTarget(segment, pattern, at, At(at.s + 1, at.p + 1, at.star, at.from))
<1>1. PICK L, n, s, p, star, from \in Nat : Parts(segment, pattern, at, L, n, s, p, star, from)
    BY PartsAre
<1>2. /\ L = Len(segment) /\ n = Len(pattern) /\ s >= 1 /\ s <= L /\ p >= 1 /\ p <= n + 1
      /\ at.s = s /\ at.p = p /\ at.star = star /\ at.from = from
      /\ star <= n /\ from <= L + 1 /\ star < p /\ from <= s
    BY <1>1 DEF Parts
<1> DEFINE y == At(s + 1, p + 1, star, from)
<1>3. s \in 1..(L + 1) /\ p \in 1..n /\ pattern[p] # "*" /\ segment[s] = pattern[p]
    BY <1>2 DEF Like
<1>4. CASE star = 0
    <2>1. Fits(segment, pattern, p, s) <=> Fits(segment, pattern, p + 1, s + 1)
        BY <1>2, <1>3, FitsChar
    <2>2. Consistent(segment, pattern, y)
        BY <1>4 DEF Consistent, At
    <2>3. Target(segment, pattern, at) <=> Target(segment, pattern, y)
        BY <1>2, <1>4, <2>1 DEF Target, At
    <2> QED BY <1>2, <2>2, <2>3 DEF KeepsTarget
<1>5. CASE star > 0
    <2>1. Held(segment, pattern, star, from, s, p)
        BY <1>2, <1>5 DEF Consistent
    <2>2. PICK d \in Nat : d = s - from
        <3>1. s - from \in Nat
            BY <1>2
        <3> QED BY <3>1
    <2>3. PICK q \in Nat : q = star + 1
        OBVIOUS
    <2>4. NoStar(pattern, q, d) /\ Same(segment, pattern, q, from, d) /\ from >= 1 /\ q + d = p /\ from + d = s
        BY <1>2, <2>1, <2>2, <2>3 DEF Held
    <2>5. \A m \in 0..((d + 1) - 1) : m \in 0..(d - 1) \/ m = d
        OBVIOUS
    <2>6. NoStar(pattern, q, d + 1) /\ Same(segment, pattern, q, from, d + 1)
        BY <1>3, <2>4, <2>5 DEF NoStar, Same
    <2>7. (s + 1) - from = d + 1 /\ (p + 1) - star - 1 = d + 1
        BY <1>2, <2>2, <2>3, <2>4
    <2>8. Held(segment, pattern, star, from, s + 1, p + 1)
        BY <2>3, <2>4, <2>6, <2>7 DEF Held
    <2>9. Consistent(segment, pattern, y)
        BY <2>8 DEF Consistent, At
    <2>10. Target(segment, pattern, at) <=> Target(segment, pattern, y)
        BY <1>2, <1>5 DEF Target, At
    <2> QED BY <1>2, <2>9, <2>10 DEF KeepsTarget
<1> QED BY <1>2, <1>4, <1>5

\* The text of the last "*" becomes longer: as it was, nothing fits behind it.
LEMMA TriesFurtherOn ==
    ASSUME NEW segment \in Seq(Characters), NEW pattern \in Seq(Characters), NEW at, Place(segment, pattern, at),
           at.s <= Len(segment), Consistent(segment, pattern, at),
           ~Wild(pattern, at), ~Like(segment, pattern, at), at.star # 0
    PROVE  KeepsTarget(segment, pattern, at, At(at.from + 1, at.star + 1, at.star, at.from + 1))
<1>1. PICK L, n, s, p, star, from \in Nat : Parts(segment, pattern, at, L, n, s, p, star, from)
    BY PartsAre
<1>2. /\ L = Len(segment) /\ n = Len(pattern) /\ s >= 1 /\ s <= L /\ p >= 1 /\ p <= n + 1
      /\ at.s = s /\ at.p = p /\ at.star = star /\ at.from = from /\ star > 0
      /\ star <= n /\ from <= L + 1 /\ star < p /\ from <= s
    BY <1>1 DEF Parts
<1> DEFINE y == At(from + 1, star + 1, star, from + 1)
<1>3. Held(segment, pattern, star, from, s, p)
    BY <1>2 DEF Consistent
<1>4. FurtherOn(segment, pattern, s, p, star, from)
    BY <1>1, <1>3, HeldIs
<1>5. ~Fits(segment, pattern, star + 1, from)
    BY <1>2, <1>4, FitsNot DEF FurtherOn
<1>6. \A t \in from..(L + 1) : t = from \/ t \in (from + 1)..(L + 1)
    BY <1>2
<1>7. \A t \in (from + 1)..(L + 1) : t \in from..(L + 1)
    BY <1>2
<1>8. (\E t \in from..(L + 1) : Fits(segment, pattern, star + 1, t))
        <=> \E t \in (from + 1)..(L + 1) : Fits(segment, pattern, star + 1, t)
    BY <1>5, <1>6, <1>7
<1>9. Target(segment, pattern, at) <=> Target(segment, pattern, y)
    BY <1>2, <1>8 DEF Target, At
<1>10. Consistent(segment, pattern, y)
    <2>1. (star + 1) - star - 1 = 0 /\ (from + 1) - (from + 1) = 0 /\ \A m \in 0..(0 - 1) : FALSE
        OBVIOUS
    <2>2. Held(segment, pattern, star, from + 1, from + 1, star + 1)
        BY <2>1 DEF Held, NoStar, Same
    <2> QED BY <2>2 DEF Consistent, At
<1> QED BY <1>2, <1>9, <1>10 DEF KeepsTarget

\* From every place of the loop, it finds out what it has to.
LEMMA LoopFinds ==
    ASSUME NEW segment \in Seq(Characters), NEW pattern \in Seq(Characters), NEW f, Looped(segment, pattern, f),
           NEW at, Place(segment, pattern, at), Consistent(segment, pattern, at)
    PROVE  f[at] <=> Target(segment, pattern, at)
<1> DEFINE W(x) == Weight(segment, pattern, x)
           Finds(x) == f[x] <=> Target(segment, pattern, x)
           S == {k \in Nat : \A x : Place(segment, pattern, x) /\ Consistent(segment, pattern, x) /\ W(x) < k
                                        => Finds(x)}
<1>0. \A x : Place(segment, pattern, x) => W(x) \in Nat
    BY WeightIs
<1>1. 0 \in S
    BY <1>0
<1>2. ASSUME NEW k \in Nat, k \in S PROVE k + 1 \in S
    <2>1. ASSUME NEW x, Place(segment, pattern, x), Consistent(segment, pattern, x), W(x) < k + 1
          PROVE  Finds(x)
        <3> DEFINE y == Round(segment, pattern, x)
        <3>0. Len(segment) \in Nat /\ x.s \in Nat
            BY <2>1, LenProperties DEF Place
        <3>1. CASE x.s > Len(segment)
            <4>1. f[x] = \A i \in x.p..Len(pattern) : pattern[i] = "*"
                BY <2>1, <3>1 DEF Looped
            <4> QED BY <2>1, <3>1, <4>1, TargetAtTheEnd
        <3>2. CASE x.s <= Len(segment) /\ Stuck(segment, pattern, x)
            <4>1. ~(x.s > Len(segment))
                BY <3>0, <3>2
            <4>2. f[x] = FALSE
                BY <2>1, <3>2, <4>1 DEF Looped
            <4>3. x.star = 0 /\ ~Wild(pattern, x) /\ ~Like(segment, pattern, x)
                BY <2>1, <3>2, StuckIs
            <4>4. ~Target(segment, pattern, x)
                BY <2>1, <3>2, <4>3, FitsNot DEF Target
            <4> QED BY <4>2, <4>4
        <3>3. CASE x.s <= Len(segment) /\ ~Stuck(segment, pattern, x)
            <4>1. ~(x.s > Len(segment))
                BY <3>0, <3>3
            <4>2. f[x] = (TRUE /\ f[y])
                BY <2>1, <3>3, <4>1 DEF Looped
            <4>3. Place(segment, pattern, y) /\ W(y) < W(x)
                BY <2>1, <3>3, RoundGoesOn, WeightLess DEF NextPlace
            <4>4. KeepsTarget(segment, pattern, x, y)
                <5>1. x.star # 0 \/ Wild(pattern, x) \/ Like(segment, pattern, x)
                    BY <2>1, <3>3, StuckIs
                <5>2. CASE Wild(pattern, x)
                    BY <2>1, <5>2, RoundIs, NotesStar
                <5>3. CASE ~Wild(pattern, x) /\ Like(segment, pattern, x)
                    BY <2>1, <3>3, <5>3, RoundIs, TakesLike
                <5>4. CASE ~Wild(pattern, x) /\ ~Like(segment, pattern, x)
                    BY <2>1, <3>3, <5>1, <5>4, RoundIs, TriesFurtherOn
                <5> QED BY <5>2, <5>3, <5>4
            <4>5. W(y) < k
                BY <1>0, <2>1, <4>3
            <4>6. f[y] <=> Target(segment, pattern, y)
                BY <1>2, <4>3, <4>4, <4>5 DEF KeepsTarget
            <4> HIDE DEF y
            <4> QED BY <4>2, <4>4, <4>6, Zenon DEF KeepsTarget
        <3> QED BY <3>0, <3>1, <3>2, <3>3
    <2> QED BY <2>1
<1>3. \A k \in Nat : k \in S
    <2> HIDE DEF S
    <2> QED BY <1>1, <1>2, Counting
<1>4. W(at) + 1 \in Nat /\ W(at) < W(at) + 1
    BY <1>0
<1> HIDE DEF W, Finds
<1>5. W(at) + 1 \in S
    BY <1>3, <1>4
<1>6. Finds(at)
    BY <1>4, <1>5
<1> QED BY <1>6 DEF Finds

\* segmentMatchesGlob finds out what a pattern of a segment means.
LEMMA GlobIsExact ==
    ASSUME NEW segment \in Seq(Characters), NEW pattern \in Seq(Characters)
    PROVE  GlobMatches(segment, pattern) <=> MeansSegment(segment, pattern)
<1>1. PICK f : Looped(segment, pattern, f) /\ GlobMatches(segment, pattern) = f[At(1, 1, 0, 0)]
    BY LoopExists
<1> DEFINE at == At(1, 1, 0, 0)
<1>2. Len(segment) \in Nat /\ Len(pattern) \in Nat
    BY LenProperties
<1>3. Place(segment, pattern, at)
    BY <1>2 DEF Place, At
<1>4. Consistent(segment, pattern, at)
    BY DEF Consistent, At
<1>5. Target(segment, pattern, at) <=> Fits(segment, pattern, 1, 1)
    BY DEF Target, At
<1> HIDE DEF at
<1>6. f[at] <=> Target(segment, pattern, at)
    BY <1>1, <1>3, <1>4, LoopFinds
<1> QED BY <1>1, <1>5, <1>6, FitsMeans DEF at

\* A pattern of a segment without "*" means itself.
LEMMA LiteralMeans ==
    ASSUME NEW segment \in Seq(Characters), NEW pattern \in Seq(Characters), ~IsGlob(pattern)
    PROVE  MeansSegment(segment, pattern) <=> segment = pattern
<1>1. PICK L, n \in Nat : L = Len(segment) /\ n = Len(pattern)
    BY LenProperties
<1>2. \A m \in 0..(n - 1) : pattern[1 + m] # "*"
    <2>1. \A i \in DOMAIN pattern : pattern[i] # "*"
        BY DEF IsGlob, ToSet
    <2>2. \A m \in 0..(n - 1) : 1 + m \in 1..n
        BY <1>1
    <2>3. DOMAIN pattern = 1..n
        BY <1>1, LenProperties
    <2> QED BY <2>1, <2>2, <2>3
<1>3. 1 \in 1..(L + 1) /\ 1 \in 1..(n + 1) /\ 1 + n <= n + 1 /\ NoStar(pattern, 1, n)
    BY <1>1, <1>2 DEF NoStar
<1>4. Fits(segment, pattern, 1, 1)
        <=> 1 + n <= L + 1 /\ Same(segment, pattern, 1, 1, n) /\ Fits(segment, pattern, 1 + n, 1 + n)
    BY <1>1, <1>3, FitsRun
<1>5. 1 + n <= L + 1 => (Fits(segment, pattern, n + 1, n + 1) <=> n + 1 = L + 1)
    <2> SUFFICES ASSUME 1 + n <= L + 1 PROVE Fits(segment, pattern, n + 1, n + 1) <=> n + 1 = L + 1
        OBVIOUS
    <2>1. n + 1 \in 1..(L + 1)
        OBVIOUS
    <2> QED BY <1>1, <2>1, FitsEnd
<1>6. 1 + n = n + 1 /\ (n + 1 = L + 1 <=> n = L) /\ (n = L => 1 + n <= L + 1)
    OBVIOUS
<1>7. Fits(segment, pattern, 1, 1) <=> n = L /\ Same(segment, pattern, 1, 1, n)
    BY <1>4, <1>5, <1>6
<1>8. ASSUME n = L, Same(segment, pattern, 1, 1, n) PROVE segment = pattern
    <2>1. \A i \in 1..n : i - 1 \in 0..(n - 1) /\ 1 + (i - 1) = i
        OBVIOUS
    <2>2. \A i \in 1..n : segment[i] = pattern[i]
        BY <1>8, <2>1 DEF Same
    <2> QED BY <1>1, <1>8, <2>2, SeqEqual
<1>9. segment = pattern => n = L /\ Same(segment, pattern, 1, 1, n)
    BY <1>1 DEF Same
<1> QED BY <1>7, <1>8, <1>9, FitsMeans

-----------------------------------------------------------------------------
(* A path and a pattern for it *)

Segmented == Seq(Seq(Characters))

Ways(path, pattern) ==
    {w \in (1..Len(pattern)) \X Nat \X Nat :
        MeansPiece(SubSeq(path, w[2] + 1, w[3]), pattern[w[1]])}

\* What is left of the path from i on can be cut up along the pattern from j on.
Leads(path, pattern, j, i) == Chain(Ways(path, pattern), Len(pattern), Len(path), j, i - 1)

LEMMA WaysAre ==
    ASSUME NEW path, NEW pattern, NEW k \in 1..Len(pattern), NEW a \in Nat, NEW b \in Nat
    PROVE  <<k, a, b>> \in Ways(path, pattern) <=> MeansPiece(SubSeq(path, a + 1, b), pattern[k])
<1>1. <<k, a, b>> \in (1..Len(pattern)) \X Nat \X Nat
    OBVIOUS
<1> QED BY <1>1 DEF Ways

\* A part of one element
LEMMA OnePart ==
    ASSUME NEW S, NEW t \in Seq(S), NEW a \in 0..Len(t), NEW b \in a..Len(t)
    PROVE  /\ Len(SubSeq(t, a + 1, b)) = 1 <=> b = a + 1
           /\ b = a + 1 => SubSeq(t, a + 1, b) = <<t[a + 1]>>
<1> DEFINE u == SubSeq(t, a + 1, b)
<1>1. Len(t) \in Nat /\ a \in Nat /\ b \in Nat
    BY LenProperties
<1>2. a + 1 \in Nat \ {0} /\ b \in 0..Len(t) /\ (a + 1) + 1 - 1 = a + 1
    BY <1>1
<1>3. /\ u \in Seq(S) /\ Len(u) = IF a + 1 <= b THEN b - (a + 1) + 1 ELSE 0
      /\ \A i \in 1..(b - (a + 1) + 1) : u[i] = t[a + 1 + i - 1]
    BY <1>2, PartIs
<1> HIDE DEF u
<1>4. Len(u) = 1 <=> b = a + 1
    BY <1>1, <1>3
<1>5. b = a + 1 => u[1] = t[a + 1]
    <2> SUFFICES ASSUME b = a + 1 PROVE u[1] = t[a + 1]
        OBVIOUS
    <2>1. 1 \in 1..(b - (a + 1) + 1)
        BY <1>1
    <2>2. u[1] = t[(a + 1) + 1 - 1]
        BY <1>3, <2>1
    <2> QED BY <1>2, <2>2
<1>6. b = a + 1 => u = <<t[a + 1]>>
    BY <1>3, <1>4, <1>5, OneIs
<1> QED BY <1>4, <1>6 DEF u

\* What a segment of a pattern that is not "**" takes: one segment
TakesOne(x, g) ==
    IF IsNamed(g) THEN x # <<>> ELSE ~IsParameter(g) /\ MeansSegment(x, g)

LEMMA PieceMeans ==
    ASSUME NEW cutout, NEW g
    PROVE  MeansPiece(cutout, g) <=> IsGlobStar(g) \/ (Len(cutout) = 1 /\ TakesOne(cutout[1], g))
<1>1. ~(IsGlobStar(g) /\ IsNamed(g))
    BY DEF IsGlobStar, IsNamed
<1>2. ~(IsGlobStar(g) /\ IsParameter(g))
    BY DEF IsGlobStar, IsParameter
<1>3. IsNamed(g) => IsParameter(g)
    BY DEF IsNamed, IsParameter
<1>4. CASE IsGlobStar(g)
    BY <1>4, <1>1, <1>2 DEF MeansPiece
<1>5. CASE IsNamed(g)
    BY <1>5, <1>1 DEF MeansPiece, TakesOne
<1>6. CASE ~IsGlobStar(g) /\ ~IsNamed(g) /\ IsParameter(g)
    BY <1>6 DEF MeansPiece, TakesOne
<1>7. CASE ~IsGlobStar(g) /\ ~IsNamed(g) /\ ~IsParameter(g)
    BY <1>7 DEF MeansPiece, TakesOne
<1> QED BY <1>4, <1>5, <1>6, <1>7

LEMMA LeadsEnd ==
    ASSUME NEW path \in Segmented, NEW pattern \in Segmented, NEW i \in 1..(Len(path) + 1)
    PROVE  Leads(path, pattern, Len(pattern) + 1, i) <=> i = Len(path) + 1
<1>1. Len(path) \in Nat /\ Len(pattern) \in Nat
    BY LenProperties DEF Segmented
<1>2. i - 1 \in 0..Len(path)
    BY <1>1
<1>3. Leads(path, pattern, Len(pattern) + 1, i) <=> i - 1 = Len(path)
    BY <1>1, <1>2, ChainEnd DEF Leads
<1> QED BY <1>1, <1>3

\* One segment of the pattern takes the segments of the path before next.
Takes(path, pattern, j, i, next) == <<j, i - 1, next - 1>> \in Ways(path, pattern)

LEMMA LeadsStep ==
    ASSUME NEW path \in Segmented, NEW pattern \in Segmented, NEW i \in 1..(Len(path) + 1),
           NEW j \in 1..Len(pattern)
    PROVE  Leads(path, pattern, j, i)
            <=> \E next \in i..(Len(path) + 1) :
                    Takes(path, pattern, j, i, next) /\ Leads(path, pattern, j + 1, next)
<1> DEFINE R == Ways(path, pattern)
           n == Len(pattern)
           L == Len(path)
<1>1. L \in Nat /\ n \in Nat /\ i - 1 \in 0..L /\ j \in 1..n
    BY LenProperties DEF Segmented
<1> HIDE DEF R, n, L
<1>3. Chain(R, n, L, j, i - 1) <=> \E b \in (i - 1)..L : <<j, i - 1, b>> \in R /\ Chain(R, n, L, j + 1, b)
    BY <1>1, ChainStep
<1>5. ASSUME NEW b \in (i - 1)..L, <<j, i - 1, b>> \in R, Chain(R, n, L, j + 1, b)
      PROVE  \E next \in i..(L + 1) : <<j, i - 1, next - 1>> \in R /\ Chain(R, n, L, j + 1, next - 1)
    <2>1. (b + 1) - 1 = b /\ b + 1 \in i..(L + 1)
        BY <1>1
    <2> QED BY <1>5, <2>1
<1>6. \A next \in i..(L + 1) : next - 1 \in (i - 1)..L
    BY <1>1
<1> QED BY <1>3, <1>5, <1>6 DEF Leads, Takes, R, n, L

LEMMA TakesAre ==
    ASSUME NEW path \in Segmented, NEW pattern \in Segmented, NEW i \in 1..(Len(path) + 1),
           NEW j \in 1..Len(pattern), NEW next \in i..(Len(path) + 1)
    PROVE  Takes(path, pattern, j, i, next)
            <=> IsGlobStar(pattern[j]) \/ (next = i + 1 /\ i <= Len(path) /\ TakesOne(path[i], pattern[j]))
<1>1. Len(path) \in Nat
    BY LenProperties DEF Segmented
<1>2. PICK a, b \in Nat : a = i - 1 /\ b = next - 1
    <2>1. i - 1 \in Nat /\ next - 1 \in Nat
        BY <1>1
    <2> QED BY <2>1
<1>3. a \in 0..Len(path) /\ b \in a..Len(path) /\ a + 1 = i /\ (b = a + 1 <=> next = i + 1)
    BY <1>1, <1>2
<1> DEFINE cutout == SubSeq(path, a + 1, b)
<1>4. Takes(path, pattern, j, i, next) <=> MeansPiece(cutout, pattern[j])
    BY <1>2, WaysAre DEF Takes
<1>5. (Len(cutout) = 1 <=> b = a + 1) /\ (b = a + 1 => cutout = <<path[a + 1]>>)
    BY <1>3, OnePart DEF Segmented
<1> HIDE DEF cutout
<1>6. MeansPiece(cutout, pattern[j])
        <=> IsGlobStar(pattern[j]) \/ (Len(cutout) = 1 /\ TakesOne(cutout[1], pattern[j]))
    BY PieceMeans
<1>7. b = a + 1 => cutout[1] = path[i]
    BY <1>3, <1>5
<1>8. next = i + 1 => i <= Len(path)
    BY <1>1
<1> QED BY <1>3, <1>4, <1>5, <1>6, <1>7, <1>8

LEMMA LeadsOne ==
    ASSUME NEW path \in Segmented, NEW pattern \in Segmented, NEW i \in 1..(Len(path) + 1),
           NEW j \in 1..Len(pattern), ~IsGlobStar(pattern[j])
    PROVE  Leads(path, pattern, j, i)
            <=> /\ i <= Len(path) /\ TakesOne(path[i], pattern[j])
                /\ Leads(path, pattern, j + 1, i + 1)
<1>1. Len(path) \in Nat
    BY LenProperties DEF Segmented
<1>2. i <= Len(path) => i + 1 \in i..(Len(path) + 1)
    BY <1>1
<1>3. Leads(path, pattern, j, i)
        <=> \E next \in i..(Len(path) + 1) :
                Takes(path, pattern, j, i, next) /\ Leads(path, pattern, j + 1, next)
    BY LeadsStep
<1>4. \A next \in i..(Len(path) + 1) :
        Takes(path, pattern, j, i, next)
            <=> next = i + 1 /\ i <= Len(path) /\ TakesOne(path[i], pattern[j])
    BY TakesAre
<1> QED BY <1>2, <1>3, <1>4

LEMMA LeadsMeans ==
    ASSUME NEW path \in Segmented, NEW pattern \in Segmented
    PROVE  Leads(path, pattern, 1, 1) <=> Means(path, pattern)
<1> DEFINE R == Ways(path, pattern)
           n == Len(pattern)
           L == Len(path)
           Good(cut) == \A k \in 1..n : MeansPiece(Piece(path, cut, k), pattern[k])
<1>1. L \in Nat /\ n \in Nat /\ 1 - 1 = 0
    BY LenProperties DEF Segmented
<1>2. DOMAIN pattern = 1..n
    BY LenProperties DEF Segmented
<1>3. ASSUME NEW cut \in Cuts(n, L)
      PROVE  (\A k \in 1..n : <<k, cut[k - 1], cut[k]>> \in R) <=> Good(cut)
    <2>1. ASSUME NEW k \in 1..n
          PROVE  <<k, cut[k - 1], cut[k]>> \in R <=> MeansPiece(Piece(path, cut, k), pattern[k])
        <3>1. k \in 0..n /\ k - 1 \in 0..n /\ cut \in [0..n -> 0..L]
            BY <1>1 DEF Cuts
        <3>2. cut[k - 1] \in Nat /\ cut[k] \in Nat
            BY <3>1
        <3> QED BY <3>2, WaysAre DEF Piece
    <2> HIDE DEF R
    <2> QED BY <2>1
<1> HIDE DEF R, n, L, Good
<1>4. Leads(path, pattern, 1, 1) <=> \E cut : CutFrom(R, n, L, 1, 0, cut)
    BY <1>1 DEF Leads, Chain, R, n, L
<1>5. \A cut : CutFrom(R, n, L, 1, 0, cut)
                <=> cut \in Cuts(n, L) /\ \A k \in 1..n : <<k, cut[k - 1], cut[k]>> \in R
    BY <1>1, CutsAre
<1>6. Leads(path, pattern, 1, 1) <=> \E cut \in Cuts(n, L) : Good(cut)
    BY <1>3, <1>4, <1>5
<1> QED BY <1>2, <1>6 DEF Means, Good, n, L

-----------------------------------------------------------------------------
(* What matchPathSegments is made of is what it should be. *)

Findings == [matches : BOOLEAN, parameters : SUBSET Captured]

LEMMA OrdinalExists == Ordinal \in [Nat -> Seq(Characters)]
<1> DEFINE Value(n, g) == IF n < 10 THEN <<Digits[n + 1]>>
                          ELSE Append(g[n \div 10], Digits[(n % 10) + 1])
           measure == [n \in Nat |-> n]
           F == [w \in Nat \X [Nat -> Seq(Characters)] |-> Value(w[1], w[2])]
           Is(f) == f = [n \in Nat |-> Value(n, f)]
<1>0. \A d \in 0..9 : Digits[d + 1] \in Characters
    <2>1. Digits \in Seq(Characters) /\ Len(Digits) = 10
        <3>1. Len(Digits) = 10
            BY DEF Digits
        <3> QED BY <3>1, CharactersAssumption
    <2>2. \A d \in 0..9 : d + 1 \in 1..Len(Digits)
        BY <2>1
    <2> QED BY <2>1, <2>2, ElementOfSeq
<1>1. ASSUME NEW n \in Nat, NEW g \in [Nat -> Seq(Characters)] PROVE Value(n, g) \in Seq(Characters)
    <2>1. CASE n < 10
        <3>1. n \in 0..9
            BY <2>1
        <3>2. Digits[n + 1] \in Characters
            BY <1>0, <3>1
        <3> QED BY <2>1, <3>2
    <2>2. CASE ~(n < 10)
        <3>1. n \div 10 \in Nat /\ n % 10 \in 0..9
            OBVIOUS
        <3>2. g[n \div 10] \in Seq(Characters) /\ Digits[(n % 10) + 1] \in Characters
            BY <1>0, <3>1
        <3>3. Append(g[n \div 10], Digits[(n % 10) + 1]) \in Seq(Characters)
            BY <3>2, AppendProperties
        <3> QED BY <2>2, <3>3
    <2> QED BY <2>1, <2>2
<1> HIDE DEF Value
<1>2. F \in [Nat \X [Nat -> Seq(Characters)] -> Seq(Characters)]
    BY <1>1
<1>3. measure \in [Nat -> Nat] /\ <<>> \in Seq(Characters)
    OBVIOUS
<1>4. LooksDown(F, Nat, Seq(Characters), measure)
    <2>1. ASSUME NEW n \in Nat, NEW g \in [Nat -> Seq(Characters)], NEW h \in [Nat -> Seq(Characters)],
                 \A m \in Nat : measure[m] < measure[n] => g[m] = h[m]
          PROVE  F[<<n, g>>] = F[<<n, h>>]
        <3>1. F[<<n, g>>] = Value(n, g) /\ F[<<n, h>>] = Value(n, h)
            OBVIOUS
        <3>2. CASE n < 10
            BY <3>1, <3>2 DEF Value
        <3>3. CASE ~(n < 10)
            <4>1. n \div 10 \in Nat /\ n \div 10 < n
                BY <3>3
            <4>2. g[n \div 10] = h[n \div 10]
                BY <2>1, <4>1
            <4> QED BY <3>1, <3>3, <4>2 DEF Value
        <3> QED BY <3>2, <3>3
    <2> HIDE DEF F, measure
    <2> QED BY <2>1 DEF LooksDown
<1>5. PICK f : Recurses(f, Nat, Seq(Characters), F)
    <2> HIDE DEF F, measure
    <2> QED BY <1>2, <1>3, <1>4, RecursionDown
<1>6. f \in [Nat -> Seq(Characters)] /\ Is(f)
    <2>1. f \in [Nat -> Seq(Characters)] /\ \A n \in Nat : f[n] = F[<<n, f>>]
        BY <1>5 DEF Recurses
    <2>2. \A n \in Nat : F[<<n, f>>] = Value(n, f)
        BY <2>1
    <2> HIDE DEF F
    <2> QED BY <2>1, <2>2
<1>7. Ordinal = CHOOSE g : Is(g)
    BY DEF Ordinal, Value
<1>8. Is(Ordinal)
    <2> HIDE DEF Is
    <2> QED BY <1>6, <1>7
<1>9. \A n \in Nat : Ordinal[n] \in Seq(Characters)
    <2> DEFINE S == {b \in Nat : \A n \in Nat : n < b => Ordinal[n] \in Seq(Characters)}
    <2>0. \A n \in Nat : Ordinal[n] = Value(n, Ordinal)
        BY <1>8
    <2>1. 0 \in S
        OBVIOUS
    <2>2. ASSUME NEW b \in Nat, b \in S PROVE b + 1 \in S
        <3>1. ASSUME NEW n \in Nat, n < b + 1 PROVE Ordinal[n] \in Seq(Characters)
            <4>1. Ordinal[n] = IF n < 10 THEN <<Digits[n + 1]>>
                               ELSE Append(Ordinal[n \div 10], Digits[(n % 10) + 1])
                BY <2>0 DEF Value
            <4>2. CASE n < 10
                <5>0. n \in 0..9
                    BY <4>2
                <5>1. Digits[n + 1] \in Characters
                    BY <1>0, <5>0
                <5> QED BY <4>1, <4>2, <5>1
            <4>3. CASE ~(n < 10)
                <5>1. n \div 10 \in Nat /\ n % 10 \in 0..9 /\ n \div 10 < n
                    BY <4>3
                <5>2. n \div 10 < b
                    BY <3>1, <5>1
                <5>3. Ordinal[n \div 10] \in Seq(Characters) /\ Digits[(n % 10) + 1] \in Characters
                    BY <1>0, <2>2, <5>1, <5>2
                <5>4. Append(Ordinal[n \div 10], Digits[(n % 10) + 1]) \in Seq(Characters)
                    BY <5>3, AppendProperties
                <5> QED BY <4>1, <4>3, <5>4
            <4> QED BY <4>2, <4>3
        <3> QED BY <3>1
    <2>3. \A b \in Nat : b \in S
        <3> HIDE DEF S
        <3> QED BY <2>1, <2>2, Counting
    <2> SUFFICES ASSUME NEW n \in Nat PROVE Ordinal[n] \in Seq(Characters)
        OBVIOUS
    <2>4. n + 1 \in Nat /\ n < n + 1
        OBVIOUS
    <2>5. n + 1 \in S
        BY <2>3, <2>4
    <2> QED BY <2>4, <2>5
<1>10. Ordinal = [n \in Nat |-> Ordinal[n]]
    BY <1>8
<1> QED BY <1>9, <1>10

LEMMA JoinedTyped ==
    ASSUME NEW segments \in Segmented
    PROVE  Joined(segments) \in Segmented
<1> DEFINE filled == {n \in DOMAIN segments : segments[n] # <<>>}
<1>1. CASE filled = {}
    BY <1>1 DEF Joined, Segmented
<1>2. CASE filled # {}
    <2>1. DOMAIN segments = 1..Len(segments) /\ Len(segments) \in Nat
        BY LenProperties DEF Segmented
    <2>2. filled \in SUBSET Nat
        BY <2>1
    <2>3. Min(filled) \in filled
        <3> HIDE DEF filled
        <3> QED BY <1>2, <2>2, LeastIs
    <2>4. Min(filled) \in Nat \ {0} /\ Len(segments) \in 0..Len(segments)
        BY <2>1, <2>3
    <2>5. SubSeq(segments, Min(filled), Len(segments)) \in Segmented
        BY <2>4, PartIs DEF Segmented
    <2> QED BY <1>2, <2>5 DEF Joined
<1> QED BY <1>1, <1>2

LEMMA PartTyped ==
    ASSUME NEW path \in Segmented, NEW i \in Nat \ {0}, NEW next \in i..(Len(path) + 1)
    PROVE  SubSeq(path, i, next - 1) \in Segmented
<1>1. Len(path) \in Nat
    BY LenProperties DEF Segmented
<1>2. next - 1 \in 0..Len(path)
    BY <1>1
<1> QED BY <1>2, PartIs DEF Segmented

LEMMA NameTyped ==
    ASSUME NEW segment \in Seq(Characters), IsNamed(segment)
    PROVE  Tail(segment) \in Seq(Characters)
<1>1. segment # <<>>
    BY DEF IsNamed
<1> QED BY <1>1, HeadTailProperties

LEMMA ThereIs ==
    ASSUME NEW i \in Nat \ {0}, NEW j \in Nat \ {0}, NEW parameters \in SUBSET Captured, NEW globs \in Nat
    PROVE  There(i, j, parameters, globs) \in Attempts
BY DEF There, Attempts

LEMMA AttemptsAre ==
    ASSUME NEW at \in Attempts
    PROVE  /\ at.i \in Nat \ {0} /\ at.j \in Nat \ {0} /\ at.j + 1 \in Nat \ {0}
           /\ at.parameters \in SUBSET Captured /\ at.globs \in Nat
BY DEF Attempts

\* What comes next has the next place in the pattern.
LEMMA CaptureTyped ==
    ASSUME NEW capturing \in BOOLEAN, NEW at \in Attempts, NEW next \in Nat \ {0},
           NEW key \in Seq(Characters), NEW value \in Segmented, NEW globs \in Nat
    PROVE  There(next, at.j + 1, With1(capturing, at.parameters, key, value), globs) \in Attempts
<1>1. at.j + 1 \in Nat \ {0} /\ at.parameters \in SUBSET Captured
    BY AttemptsAre
<1>2. [key |-> key, value |-> value] \in Captured
    BY DEF Captured, Segmented
<1>3. With1(capturing, at.parameters, key, value) \in SUBSET Captured
    BY <1>1, <1>2 DEF With1
<1> QED BY <1>1, <1>3, ThereIs

LEMMA FailureTyped == Failure \in Findings
BY DEF Failure, Findings

LEMMA CaptureIsResult ==
    ASSUME NEW capturing \in BOOLEAN, NEW rest \in [Attempts -> Findings], NEW at \in Attempts,
           NEW next \in Nat \ {0}, NEW key \in Seq(Characters), NEW value \in Segmented, NEW globs \in Nat
    PROVE  Capture(capturing, rest, at, next, key, value, globs) \in Findings
<1>1. There(next, at.j + 1, With1(capturing, at.parameters, key, value), globs) \in Attempts
    BY CaptureTyped
<1>2. rest[There(next, at.j + 1, With1(capturing, at.parameters, key, value), globs)] \in Findings
    BY <1>1
<1> QED BY <1>2, FailureTyped DEF Capture

\* Two answers for what is found at one place of the pattern
Agree(g, h, j) == \A a \in Attempts : a.j = j => g[a] = h[a]

LEMMA CaptureAgrees ==
    ASSUME NEW capturing \in BOOLEAN, NEW g, NEW h, NEW at \in Attempts, Agree(g, h, at.j + 1),
           NEW next \in Nat \ {0}, NEW key \in Seq(Characters), NEW value \in Segmented, NEW globs \in Nat
    PROVE  Capture(capturing, g, at, next, key, value, globs) = Capture(capturing, h, at, next, key, value, globs)
<1> DEFINE b == There(next, at.j + 1, With1(capturing, at.parameters, key, value), globs)
<1>1. b \in Attempts
    BY CaptureTyped
<1>2. b.j = at.j + 1
    BY DEF There
<1> HIDE DEF b
<1>3. g[b] = h[b]
    BY <1>1, <1>2 DEF Agree
<1> QED BY <1>3 DEF Capture, b

LEMMA GlobStarCaptures ==
    ASSUME NEW path \in Segmented, NEW at \in Attempts, NEW next \in at.i..(Len(path) + 1)
    PROVE  /\ next \in Nat \ {0} /\ Ordinal[at.globs] \in Seq(Characters)
           /\ Joined(SubSeq(path, at.i, next - 1)) \in Segmented /\ at.globs + 1 \in Nat
<1>1. at.i \in Nat \ {0} /\ at.globs \in Nat
    BY AttemptsAre
<1>2. Len(path) \in Nat
    BY LenProperties DEF Segmented
<1>3. SubSeq(path, at.i, next - 1) \in Segmented
    BY <1>1, PartTyped
<1>4. Joined(SubSeq(path, at.i, next - 1)) \in Segmented
    BY <1>3, JoinedTyped
<1>5. next \in Nat \ {0}
    BY <1>1, <1>2
<1>6. Ordinal[at.globs] \in Seq(Characters)
    BY <1>1, OrdinalExists
<1>7. at.globs + 1 \in Nat
    BY <1>1
<1> QED BY <1>4, <1>5, <1>6, <1>7

LEMMA GlobStarTyped ==
    ASSUME NEW path \in Segmented, NEW capturing \in BOOLEAN, NEW rest \in [Attempts -> Findings],
           NEW at \in Attempts, NEW next \in at.i..(Len(path) + 1)
    PROVE  CaptureGlobStar(path, capturing, rest, at, next) \in Findings
<1>1. /\ next \in Nat \ {0} /\ Ordinal[at.globs] \in Seq(Characters)
      /\ Joined(SubSeq(path, at.i, next - 1)) \in Segmented /\ at.globs + 1 \in Nat
    BY GlobStarCaptures
<1> QED BY <1>1, CaptureIsResult DEF CaptureGlobStar

LEMMA GlobStarIsResult ==
    ASSUME NEW path \in Segmented, NEW capturing \in BOOLEAN, NEW rest \in [Attempts -> Findings],
           NEW at \in Attempts
    PROVE  GlobStar(path, capturing, rest, at) \in Findings
<1> DEFINE ends == {next \in at.i..Len(path) + 1 :
                    CaptureGlobStar(path, capturing, rest, at, next).matches}
<1>1. at.i \in Nat \ {0} /\ Len(path) \in Nat
    BY AttemptsAre, LenProperties DEF Segmented
<1>2. CASE ends = {}
    BY <1>2, FailureTyped DEF GlobStar
<1>3. CASE ends # {}
    <2>1. ends \in SUBSET Nat
        BY <1>1
    <2>2. Min(ends) \in ends
        <3> HIDE DEF ends
        <3> QED BY <1>3, <2>1, LeastIs
    <2>3. CaptureGlobStar(path, capturing, rest, at, Min(ends)) \in Findings
        BY <2>2, GlobStarTyped
    <2> QED BY <1>3, <2>3 DEF GlobStar
<1> QED BY <1>2, <1>3

LEMMA GlobStarAgrees ==
    ASSUME NEW path \in Segmented, NEW capturing \in BOOLEAN, NEW g, NEW h, NEW at \in Attempts,
           Agree(g, h, at.j + 1)
    PROVE  GlobStar(path, capturing, g, at) = GlobStar(path, capturing, h, at)
<1> DEFINE E(f) == {next \in at.i..Len(path) + 1 :
                    CaptureGlobStar(path, capturing, f, at, next).matches}
<1>1. \A next \in at.i..(Len(path) + 1) :
        CaptureGlobStar(path, capturing, g, at, next) = CaptureGlobStar(path, capturing, h, at, next)
    <2> SUFFICES ASSUME NEW next \in at.i..(Len(path) + 1)
                 PROVE  CaptureGlobStar(path, capturing, g, at, next) = CaptureGlobStar(path, capturing, h, at, next)
        OBVIOUS
    <2>1. /\ next \in Nat \ {0} /\ Ordinal[at.globs] \in Seq(Characters)
          /\ Joined(SubSeq(path, at.i, next - 1)) \in Segmented /\ at.globs + 1 \in Nat
        BY GlobStarCaptures
    <2> QED BY <2>1, CaptureAgrees DEF CaptureGlobStar
<1>2. E(g) = E(h)
    BY <1>1
<1>3. CASE E(g) = {}
    BY <1>2, <1>3 DEF GlobStar
<1>4. CASE E(g) # {}
    <2>0. at.i \in Nat \ {0} /\ Len(path) \in Nat
        BY AttemptsAre, LenProperties DEF Segmented
    <2>1. E(g) \in SUBSET Nat
        BY <2>0
    <2>2. Min(E(g)) \in E(g)
        <3> HIDE DEF E
        <3> QED BY <1>4, <2>1, LeastIs
    <2>3. Min(E(g)) \in at.i..(Len(path) + 1)
        BY <2>2
    <2>4. CaptureGlobStar(path, capturing, g, at, Min(E(g))) = CaptureGlobStar(path, capturing, h, at, Min(E(h)))
        <3> HIDE DEF E
        <3> QED BY <1>1, <1>2, <2>3
    <2> QED BY <1>2, <1>4, <2>4 DEF GlobStar
<1> QED BY <1>3, <1>4

LEMMA AttemptTyped ==
    ASSUME NEW path \in Segmented, NEW pattern \in Segmented, NEW capturing \in BOOLEAN,
           NEW rest \in [Attempts -> Findings], NEW at \in Attempts
    PROVE  Attempt(path, pattern, capturing, rest, at) \in Findings
<1>0. /\ at.i \in Nat \ {0} /\ at.j \in Nat \ {0} /\ at.j + 1 \in Nat \ {0} /\ at.i + 1 \in Nat \ {0}
      /\ at.parameters \in SUBSET Captured /\ at.globs \in Nat /\ at.globs + 1 \in Nat
      /\ Len(path) \in Nat /\ Len(pattern) \in Nat
    BY AttemptsAre, LenProperties DEF Segmented
<1>1. CASE at.j > Len(pattern)
    <2>1. [matches |-> TRUE, parameters |-> at.parameters] \in Findings
        BY <1>0 DEF Findings
    <2> QED BY <1>1, <2>1, FailureTyped DEF Attempt
<1>2. CASE at.j <= Len(pattern) /\ IsGlobStar(pattern[at.j])
    BY <1>0, <1>2, GlobStarIsResult DEF Attempt
<1>3. CASE at.j <= Len(pattern) /\ ~IsGlobStar(pattern[at.j]) /\ at.i > Len(path)
    BY <1>0, <1>3, FailureTyped DEF Attempt
<1>4. CASE at.j <= Len(pattern) /\ ~IsGlobStar(pattern[at.j]) /\ at.i <= Len(path)
    <2> DEFINE segment == pattern[at.j]
               One(key, globs) == Capture(capturing, rest, at, at.i + 1, key, <<path[at.i]>>, globs)
    <2>1. segment \in Seq(Characters) /\ path[at.i] \in Seq(Characters)
        <3>1. at.i \in 1..Len(path) /\ at.j \in 1..Len(pattern)
            BY <1>0, <1>4
        <3> QED BY <3>1, ElementOfSeq DEF Segmented
    <2>2. <<path[at.i]>> \in Segmented
        BY <2>1 DEF Segmented
    <2>3. \A key \in Seq(Characters), globs \in Nat : One(key, globs) \in Findings
        BY <1>0, <2>2, CaptureIsResult
    <2>4. IsNamed(segment) => Tail(segment) \in Seq(Characters)
        BY <2>1, NameTyped
    <2>5. Ordinal[at.globs] \in Seq(Characters)
        BY <1>0, OrdinalExists
    <2>6. rest[There(at.i + 1, at.j + 1, at.parameters, at.globs)] \in Findings
        BY <1>0, ThereIs
    <2>7. ~(at.j > Len(pattern)) /\ ~(at.i > Len(path))
        BY <1>0, <1>4
    <2> QED BY <1>0, <1>4, <2>3, <2>4, <2>5, <2>6, <2>7, FailureTyped DEF Attempt
<1> QED BY <1>0, <1>1, <1>2, <1>3, <1>4

LEMMA AttemptAgrees ==
    ASSUME NEW path \in Segmented, NEW pattern \in Segmented, NEW capturing \in BOOLEAN,
           NEW g, NEW h, NEW at \in Attempts, at.j <= Len(pattern) => Agree(g, h, at.j + 1)
    PROVE  Attempt(path, pattern, capturing, g, at) = Attempt(path, pattern, capturing, h, at)
<1>0. /\ at.i \in Nat \ {0} /\ at.j \in Nat \ {0} /\ at.j + 1 \in Nat \ {0} /\ at.i + 1 \in Nat \ {0}
      /\ at.parameters \in SUBSET Captured /\ at.globs \in Nat /\ at.globs + 1 \in Nat
      /\ Len(path) \in Nat /\ Len(pattern) \in Nat
    BY AttemptsAre, LenProperties DEF Segmented
<1>1. CASE at.j > Len(pattern)
    BY <1>1 DEF Attempt
<1>2. CASE at.j <= Len(pattern) /\ IsGlobStar(pattern[at.j])
    BY <1>0, <1>2, GlobStarAgrees DEF Attempt
<1>3. CASE at.j <= Len(pattern) /\ ~IsGlobStar(pattern[at.j]) /\ at.i > Len(path)
    BY <1>0, <1>3 DEF Attempt
<1>4. CASE at.j <= Len(pattern) /\ ~IsGlobStar(pattern[at.j]) /\ at.i <= Len(path)
    <2> DEFINE segment == pattern[at.j]
               One(f, key, globs) == Capture(capturing, f, at, at.i + 1, key, <<path[at.i]>>, globs)
    <2>1. segment \in Seq(Characters) /\ path[at.i] \in Seq(Characters)
        <3>1. at.i \in 1..Len(path) /\ at.j \in 1..Len(pattern)
            BY <1>0, <1>4
        <3> QED BY <3>1, ElementOfSeq DEF Segmented
    <2>2. <<path[at.i]>> \in Segmented
        BY <2>1 DEF Segmented
    <2>3. \A key \in Seq(Characters), globs \in Nat : One(g, key, globs) = One(h, key, globs)
        <3> SUFFICES ASSUME NEW key \in Seq(Characters), NEW globs \in Nat
                     PROVE  One(g, key, globs) = One(h, key, globs)
            OBVIOUS
        <3> QED BY <1>0, <1>4, <2>2, CaptureAgrees
    <2>4. IsNamed(segment) => Tail(segment) \in Seq(Characters)
        BY <2>1, NameTyped
    <2>5. Ordinal[at.globs] \in Seq(Characters)
        BY <1>0, OrdinalExists
    <2>6. g[There(at.i + 1, at.j + 1, at.parameters, at.globs)] = h[There(at.i + 1, at.j + 1, at.parameters, at.globs)]
        <3>1. There(at.i + 1, at.j + 1, at.parameters, at.globs) \in Attempts
            BY <1>0, ThereIs
        <3>2. There(at.i + 1, at.j + 1, at.parameters, at.globs).j = at.j + 1
            BY DEF There
        <3> QED BY <1>4, <3>1, <3>2 DEF Agree
    <2>7. ~(at.j > Len(pattern)) /\ ~(at.i > Len(path))
        BY <1>0, <1>4
    <2> QED BY <1>0, <1>4, <2>3, <2>4, <2>5, <2>6, <2>7 DEF Attempt
<1> QED BY <1>0, <1>1, <1>2, <1>3, <1>4

\* The search is defined: what it finds at a place of the pattern is told by the places behind.
Searched(path, pattern, capturing, f) ==
    f = [at \in Attempts |-> Attempt(path, pattern, capturing, f, at)]

LEMMA SearchExists ==
    ASSUME NEW path \in Segmented, NEW pattern \in Segmented, NEW capturing \in BOOLEAN
    PROVE  \E f \in [Attempts -> Findings] : Searched(path, pattern, capturing, f)
<1> DEFINE n == Len(pattern)
           Value(at, g) == Attempt(path, pattern, capturing, g, at)
           measure == [at \in Attempts |-> IF at.j <= n THEN (n + 1) - at.j ELSE 0]
           F == [w \in Attempts \X [Attempts -> Findings] |-> Value(w[1], w[2])]
<1>0. n \in Nat /\ \A at \in Attempts : at.j \in Nat \ {0}
    BY AttemptsAre, LenProperties DEF Segmented
<1>1. F \in [Attempts \X [Attempts -> Findings] -> Findings]
    <2>1. \A at \in Attempts, g \in [Attempts -> Findings] : Value(at, g) \in Findings
        BY AttemptTyped
    <2> HIDE DEF Value
    <2> QED BY <2>1
<1>2. measure \in [Attempts -> Nat] /\ Failure \in Findings
    BY <1>0, FailureTyped
<1>3. LooksDown(F, Attempts, Findings, measure)
    <2>1. ASSUME NEW at \in Attempts, NEW g \in [Attempts -> Findings], NEW h \in [Attempts -> Findings],
                 \A b \in Attempts : measure[b] < measure[at] => g[b] = h[b]
          PROVE  F[<<at, g>>] = F[<<at, h>>]
        <3>1. F[<<at, g>>] = Value(at, g) /\ F[<<at, h>>] = Value(at, h)
            <4> HIDE DEF Value
            <4> QED OBVIOUS
        <3>2. at.j <= n => Agree(g, h, at.j + 1)
            <4> SUFFICES ASSUME at.j <= n, NEW b \in Attempts, b.j = at.j + 1 PROVE g[b] = h[b]
                BY DEF Agree
            <4>1. measure[b] < measure[at]
                BY <1>0
            <4> QED BY <2>1, <4>1
        <3>3. Value(at, g) = Value(at, h)
            <4> HIDE DEF measure, F
            <4> QED BY <3>2, AttemptAgrees
        <3> QED BY <3>1, <3>3
    <2> HIDE DEF F, measure
    <2> QED BY <2>1 DEF LooksDown
<1>4. PICK f : Recurses(f, Attempts, Findings, F)
    <2> HIDE DEF F, measure
    <2> QED BY <1>1, <1>2, <1>3, RecursionDown
<1>5. f \in [Attempts -> Findings] /\ Searched(path, pattern, capturing, f)
    <2>1. f \in [Attempts -> Findings] /\ \A at \in Attempts : f[at] = F[<<at, f>>]
        BY <1>4 DEF Recurses
    <2>2. \A at \in Attempts : F[<<at, f>>] = Attempt(path, pattern, capturing, f, at)
        BY <2>1
    <2> HIDE DEF F
    <2> QED BY <2>1, <2>2 DEF Searched
<1> QED BY <1>5

Search(path, pattern, capturing) == CHOOSE f : Searched(path, pattern, capturing, f)

LEMMA SearchIs ==
    ASSUME NEW path \in Segmented, NEW pattern \in Segmented, NEW capturing \in BOOLEAN
    PROVE  /\ Search(path, pattern, capturing) \in [Attempts -> Findings]
           /\ \A at \in Attempts : Search(path, pattern, capturing)[at]
                                    = Attempt(path, pattern, capturing, Search(path, pattern, capturing), at)
           /\ MatchPathSegments(path, pattern, capturing) = Search(path, pattern, capturing)[There(1, 1, {}, 0)]
<1> DEFINE f == Search(path, pattern, capturing)
<1>1. Searched(path, pattern, capturing, f)
    BY SearchExists DEF Search
<1>2. f = [at \in Attempts |-> Attempt(path, pattern, capturing, f, at)]
    BY <1>1 DEF Searched
<1>3. MatchPathSegments(path, pattern, capturing) = f[There(1, 1, {}, 0)]
    BY DEF MatchPathSegments, Search, Searched
<1> HIDE DEF f
<1>4. \A at \in Attempts : f[at] = Attempt(path, pattern, capturing, f, at)
    BY <1>2
<1> DEFINE g == [at \in Attempts |-> IF f[at] \in Findings THEN f[at] ELSE Failure]
           n == Len(pattern)
           S == {b \in Nat : \A at \in Attempts : at.j + b > n => f[at] \in Findings}
<1>0. n \in Nat /\ \A at \in Attempts : at.j \in Nat \ {0}
    BY AttemptsAre, LenProperties DEF Segmented
<1>5. g \in [Attempts -> Findings]
    BY FailureTyped
<1>6. ASSUME NEW at \in Attempts, at.j <= n => \A b \in Attempts : b.j = at.j + 1 => f[b] \in Findings
      PROVE  f[at] \in Findings
    <2>1. at.j <= n => Agree(f, g, at.j + 1)
        BY <1>6 DEF Agree
    <2> HIDE DEF g
    <2>2. Attempt(path, pattern, capturing, f, at) = Attempt(path, pattern, capturing, g, at)
        BY <2>1, AttemptAgrees
    <2>3. Attempt(path, pattern, capturing, g, at) \in Findings
        BY <1>5, AttemptTyped
    <2> QED BY <1>4, <2>2, <2>3
<1>7. 0 \in S
    <2>1. ASSUME NEW at \in Attempts, at.j + 0 > n PROVE f[at] \in Findings
        <3>1. ~(at.j <= n)
            BY <1>0, <2>1
        <3> QED BY <1>6, <3>1
    <2> QED BY <2>1
<1>8. ASSUME NEW b \in Nat, b \in S PROVE b + 1 \in S
    <2>1. ASSUME NEW at \in Attempts, at.j + (b + 1) > n PROVE f[at] \in Findings
        <3>1. \A c \in Attempts : c.j = at.j + 1 => c.j + b > n
            BY <1>0, <2>1
        <3>2. \A c \in Attempts : c.j = at.j + 1 => f[c] \in Findings
            BY <1>8, <3>1
        <3> QED BY <1>6, <3>2
    <2> QED BY <2>1
<1>9. \A b \in Nat : b \in S
    <2> HIDE DEF S
    <2> QED BY <1>7, <1>8, Counting
<1>10. \A at \in Attempts : f[at] \in Findings
    <2> SUFFICES ASSUME NEW at \in Attempts PROVE f[at] \in Findings
        OBVIOUS
    <2>1. n + 1 \in Nat /\ at.j + (n + 1) > n
        BY <1>0
    <2>2. n + 1 \in S
        BY <1>9, <2>1
    <2> QED BY <2>1, <2>2
<1>11. f \in [Attempts -> Findings]
    <2> HIDE DEF S, g
    <2> QED BY <1>2, <1>10
<1> QED BY <1>3, <1>4, <1>11 DEF f

-----------------------------------------------------------------------------
(* What has a number for its key *)

LEMMA CapturesAre ==
    ASSUME NEW pattern \in Segmented
    PROVE  /\ Captures(pattern) \subseteq 1..Len(pattern) /\ Len(pattern) \in Nat
           /\ IsFiniteSet(Captures(pattern))
<1>1. DOMAIN pattern = 1..Len(pattern) /\ Len(pattern) \in Nat
    BY LenProperties DEF Segmented
<1>2. Captures(pattern) \subseteq 1..Len(pattern)
    BY <1>1 DEF Captures
<1>3. IsFiniteSet(1..Len(pattern))
    <2>1. 1 \in Int /\ Len(pattern) \in Int
        BY <1>1
    <2> QED BY <2>1, FS_Interval
<1> QED BY <1>1, <1>2, <1>3, FS_Subset

LEMMA GlobsStart ==
    ASSUME NEW pattern \in Segmented
    PROVE  Globs(pattern, 1) = 0
<1>1. {n \in Captures(pattern) : n < 1 /\ ~IsNamed(pattern[n])} = {}
    BY CapturesAre
<1> QED BY <1>1, FS_EmptySet DEF Globs

LEMMA GlobsStep ==
    ASSUME NEW pattern \in Segmented, NEW j \in 1..Len(pattern)
    PROVE  /\ Globs(pattern, j) \in Nat
           /\ Globs(pattern, j + 1) = IF j \in Captures(pattern) /\ ~IsNamed(pattern[j])
                                      THEN Globs(pattern, j) + 1 ELSE Globs(pattern, j)
<1> DEFINE C == Captures(pattern)
           B == {n \in C : n < j /\ ~IsNamed(pattern[n])}
           A == {n \in C : n < j + 1 /\ ~IsNamed(pattern[n])}
<1>1. C \subseteq 1..Len(pattern) /\ Len(pattern) \in Nat /\ IsFiniteSet(C)
    BY CapturesAre
<1> HIDE DEF C
<1>2. IsFiniteSet(B)
    <2>1. B \subseteq C
        OBVIOUS
    <2> HIDE DEF B
    <2> QED BY <1>1, <2>1, FS_Subset
<1>3. \A n \in C : n < j + 1 <=> n < j \/ n = j
    BY <1>1
<1>4. CASE j \in C /\ ~IsNamed(pattern[j])
    <2>0. ~(j < j)
        OBVIOUS
    <2>1. A = B \cup {j} /\ j \notin B
        <3>1. j \notin B
            BY <2>0
        <3>2. \A n : n \in A <=> n \in B \/ n = j
            BY <1>3, <1>4
        <3> QED BY <3>1, <3>2
    <2> HIDE DEF A, B
    <2>2. Cardinality(A) = Cardinality(B) + 1
        BY <1>2, <2>1, FS_AddElement
    <2>3. Cardinality(B) \in Nat
        BY <1>2, FS_CardinalityType
    <2> QED BY <1>4, <2>2, <2>3 DEF Globs, A, B, C
<1>5. CASE ~(j \in C /\ ~IsNamed(pattern[j]))
    <2>1. A = B
        BY <1>3, <1>5
    <2> HIDE DEF A, B
    <2>3. Cardinality(B) \in Nat
        BY <1>2, FS_CardinalityType
    <2> QED BY <1>5, <2>1, <2>3 DEF Globs, A, B, C
<1> QED BY <1>4, <1>5

-----------------------------------------------------------------------------
(* Keys that are left, and what is caught under them *)

\* No key from j on is taken, and no two of them are the same.
Fresh(pattern, parameters, j) ==
    /\ \A k \in Captures(pattern) : k >= j => \A c \in parameters : c.key # Key(pattern, k)
    /\ \A k, m \in Captures(pattern) : k >= j /\ m >= j /\ Key(pattern, k) = Key(pattern, m) => k = m

LEMMA FreshStep ==
    ASSUME NEW pattern \in Segmented, NEW j \in 1..Len(pattern), NEW parameters, NEW value,
           j \in Captures(pattern)
    PROVE  Fresh(pattern, parameters, j)
            <=> /\ \A c \in parameters : c.key # Key(pattern, j)
                /\ Fresh(pattern, parameters \cup {[key |-> Key(pattern, j), value |-> value]}, j + 1)
<1> DEFINE C == Captures(pattern)
           K(k) == Key(pattern, k)
           new == [key |-> K(j), value |-> value]
<1>1. C \subseteq Nat /\ j \in Nat
    BY CapturesAre
<1>2. \A k \in C : (k >= j <=> k = j \/ k >= j + 1) /\ ~(k = j /\ k >= j + 1)
    BY <1>1
<1>3. new.key = K(j)
    OBVIOUS
<1>4. j \in C /\ j >= j
    BY <1>1
<1> HIDE DEF C, K, new
<1>5. ASSUME \A k \in C : k >= j => \A c \in parameters : c.key # K(k),
             \A k, m \in C : k >= j /\ m >= j /\ K(k) = K(m) => k = m
      PROVE  /\ \A c \in parameters : c.key # K(j)
             /\ \A k \in C : k >= j + 1 => \A c \in parameters \cup {new} : c.key # K(k)
             /\ \A k, m \in C : k >= j + 1 /\ m >= j + 1 /\ K(k) = K(m) => k = m
    <2>1. \A k \in C : k >= j + 1 => K(k) # K(j)
        BY <1>2, <1>4, <1>5
    <2> QED BY <1>2, <1>3, <1>4, <1>5, <2>1
<1>6. ASSUME \A c \in parameters : c.key # K(j),
             \A k \in C : k >= j + 1 => \A c \in parameters \cup {new} : c.key # K(k),
             \A k, m \in C : k >= j + 1 /\ m >= j + 1 /\ K(k) = K(m) => k = m
      PROVE  /\ \A k \in C : k >= j => \A c \in parameters : c.key # K(k)
             /\ \A k, m \in C : k >= j /\ m >= j /\ K(k) = K(m) => k = m
    <2>1. \A k \in C : k >= j + 1 => K(k) # K(j)
        BY <1>3, <1>6
    <2> QED BY <1>2, <1>6, <2>1
<1> QED BY <1>5, <1>6 DEF Fresh, C, K, new

LEMMA FreshSkip ==
    ASSUME NEW pattern \in Segmented, NEW j \in 1..Len(pattern), NEW parameters, j \notin Captures(pattern)
    PROVE  Fresh(pattern, parameters, j) <=> Fresh(pattern, parameters, j + 1)
<1>1. \A k \in Captures(pattern) : k >= j <=> k >= j + 1
    <2>1. Captures(pattern) \subseteq Nat
        BY CapturesAre
    <2> QED BY <2>1
<1> QED BY <1>1 DEF Fresh

LEMMA FreshEnd ==
    ASSUME NEW pattern \in Segmented, NEW parameters
    PROVE  Fresh(pattern, parameters, Len(pattern) + 1)
<1>1. \A k \in Captures(pattern) : ~(k >= Len(pattern) + 1)
    BY CapturesAre
<1> QED BY <1>1 DEF Fresh

\* The text that the capture at k has when it takes the segments between two cuts
Taken(path, pattern, k, a, b) ==
    IF IsGlobStar(pattern[k]) THEN Joined(SubSeq(path, a + 1, b)) ELSE SubSeq(path, a + 1, b)

Caught(path, pattern, cut, j) ==
    {[key |-> Key(pattern, k), value |-> Taken(path, pattern, k, cut[k - 1], cut[k])] :
        k \in {c \in Captures(pattern) : c >= j}}

LEMMA CaughtStep ==
    ASSUME NEW path, NEW pattern \in Segmented, NEW j \in 1..Len(pattern), NEW a, NEW cut
    PROVE  Caught(path, pattern, Extended(j, Len(pattern), a, cut), j)
            = Caught(path, pattern, cut, j + 1)
                \cup (IF j \in Captures(pattern)
                      THEN {[key |-> Key(pattern, j), value |-> Taken(path, pattern, j, a, cut[j])]} ELSE {})
<1> DEFINE e == Extended(j, Len(pattern), a, cut)
           C == Captures(pattern)
           T(k) == [key |-> Key(pattern, k), value |-> Taken(path, pattern, k, cut[k - 1], cut[k])]
           U(k) == [key |-> Key(pattern, k), value |-> Taken(path, pattern, k, e[k - 1], e[k])]
           new == [key |-> Key(pattern, j), value |-> Taken(path, pattern, j, a, cut[j])]
<1>1. C \subseteq 1..Len(pattern) /\ Len(pattern) \in Nat
    BY CapturesAre
<1>2. e[j - 1] = a /\ \A m \in j..Len(pattern) : e[m] = cut[m]
    <2>1. j - 1 \in (j - 1)..Len(pattern) /\ \A m \in j..Len(pattern) : m \in (j - 1)..Len(pattern) /\ m # j - 1
        BY <1>1
    <2> QED BY <2>1 DEF Extended
<1> HIDE DEF e, C
<1>3. \A k \in C : k >= j + 1 => U(k) = T(k)
    <2>1. \A k \in C : k >= j + 1 => k \in j..Len(pattern) /\ k - 1 \in j..Len(pattern)
        BY <1>1
    <2> QED BY <1>2, <2>1
<1>4. U(j) = new
    BY <1>1, <1>2
<1>5. \A k \in C : (k >= j <=> k = j \/ k >= j + 1)
    BY <1>1
<1>6. j >= j
    OBVIOUS
<1> HIDE DEF U, T, new
<1>7. {U(k) : k \in {c \in C : c >= j}} = {T(k) : k \in {c \in C : c >= j + 1}} \cup (IF j \in C THEN {new} ELSE {})
    BY <1>3, <1>4, <1>5, <1>6
<1> QED BY <1>7 DEF Caught, U, T, new, C, e

-----------------------------------------------------------------------------
(* What the search finds *)

\* The cuts behind a match, and the parameters that come from them
Accounted(path, pattern, capturing, at, r) ==
    /\ ~r.matches => r = Failure
    /\ r.matches =>
        \E cut : /\ CutFrom(Ways(path, pattern), Len(pattern), Len(path), at.j, at.i - 1, cut)
                 /\ r.parameters = IF capturing THEN at.parameters \cup Caught(path, pattern, cut, at.j)
                                   ELSE at.parameters

Unspent(pattern, capturing, at) == capturing => Fresh(pattern, at.parameters, at.j)

Told(path, pattern, capturing, at, r) ==
    /\ r.matches <=> Leads(path, pattern, at.j, at.i) /\ Unspent(pattern, capturing, at)
    /\ Accounted(path, pattern, capturing, at, r)

\* The places that the search comes to
Usual(path, pattern, at) ==
    /\ at \in Attempts /\ at.i <= Len(path) + 1 /\ at.j <= Len(pattern) + 1
    /\ at.globs = Globs(pattern, at.j)

ToldAt(path, pattern, capturing, f, j) ==
    \A at : Usual(path, pattern, at) /\ at.j = j => Told(path, pattern, capturing, at, f[at])

\* The same for a capture that ends at next
Follows(path, pattern, capturing, at, next, r) ==
    /\ r.matches <=> Leads(path, pattern, at.j + 1, next) /\ Unspent(pattern, capturing, at)
    /\ Accounted(path, pattern, capturing, at, r)

LEMMA AccountStep ==
    ASSUME NEW path \in Segmented, NEW pattern \in Segmented, NEW capturing \in BOOLEAN,
           NEW at \in Attempts, at.i <= Len(path) + 1, at.j \in 1..Len(pattern),
           NEW next \in at.i..(Len(path) + 1), Takes(path, pattern, at.j, at.i, next),
           NEW b, b.i = next, b.j = at.j + 1,
           capturing => b.parameters = at.parameters \cup
                (IF at.j \in Captures(pattern)
                 THEN {[key |-> Key(pattern, at.j),
                        value |-> Taken(path, pattern, at.j, at.i - 1, next - 1)]} ELSE {}),
           ~capturing => b.parameters = at.parameters,
           NEW r, Accounted(path, pattern, capturing, b, r)
    PROVE  Accounted(path, pattern, capturing, at, r)
<1> SUFFICES ASSUME r.matches
             PROVE  \E cut : /\ CutFrom(Ways(path, pattern), Len(pattern), Len(path), at.j, at.i - 1, cut)
                             /\ r.parameters = IF capturing THEN at.parameters \cup Caught(path, pattern, cut, at.j)
                                               ELSE at.parameters
    BY DEF Accounted
<1> DEFINE R == Ways(path, pattern)
           n == Len(pattern)
           L == Len(path)
<1>0. L \in Nat /\ n \in Nat /\ at.i \in Nat \ {0} /\ at.j \in Nat \ {0}
    BY AttemptsAre, LenProperties DEF Segmented
<1>1. PICK k, a, c : k = at.j /\ a = at.i - 1 /\ c = next - 1
    OBVIOUS
<1>2. k \in 1..n /\ a \in 0..L /\ c \in a..L
    BY <1>0, <1>1
<1>3. PICK cut : /\ CutFrom(R, n, L, k + 1, c, cut)
                 /\ r.parameters = IF capturing THEN b.parameters \cup Caught(path, pattern, cut, k + 1)
                                   ELSE b.parameters
    BY <1>1 DEF Accounted
<1>4. <<k, a, c>> \in R
    BY <1>1 DEF Takes
<1> HIDE DEF R, n, L
<1> DEFINE e == Extended(k, n, a, cut)
<1>5. CutFrom(R, n, L, k, a, e)
    BY <1>0, <1>2, <1>3, <1>4, CutExtends
<1>6. cut[k] = c
    <2>1. (k + 1) - 1 = k
        BY <1>2
    <2> QED BY <1>3, <2>1 DEF CutFrom
<1>7. Caught(path, pattern, e, k)
        = Caught(path, pattern, cut, k + 1)
            \cup (IF k \in Captures(pattern)
                  THEN {[key |-> Key(pattern, k), value |-> Taken(path, pattern, k, a, c)]} ELSE {})
    BY <1>2, <1>6, CaughtStep DEF n
<1> HIDE DEF e
<1>8. r.parameters = IF capturing THEN at.parameters \cup Caught(path, pattern, e, k) ELSE at.parameters
    <2>1. CASE capturing
        <3>1. b.parameters = at.parameters \cup
                (IF k \in Captures(pattern)
                 THEN {[key |-> Key(pattern, k), value |-> Taken(path, pattern, k, a, c)]} ELSE {})
            BY <1>1, <2>1
        <3>2. r.parameters = b.parameters \cup Caught(path, pattern, cut, k + 1)
            BY <1>3, <2>1
        <3> QED BY ONLY <1>7, <2>1, <3>1, <3>2
    <2>2. CASE ~capturing
        BY <1>3, <2>2
    <2> QED BY <2>1, <2>2
<1> QED BY <1>1, <1>5, <1>8 DEF R, n, L

LEMMA CaptureFollows ==
    ASSUME NEW path \in Segmented, NEW pattern \in Segmented, NEW capturing \in BOOLEAN,
           NEW f, NEW at, Usual(path, pattern, at), at.j \in Captures(pattern),
           ToldAt(path, pattern, capturing, f, at.j + 1),
           NEW next \in at.i..(Len(path) + 1), Takes(path, pattern, at.j, at.i, next),
           NEW value \in Segmented, value = Taken(path, pattern, at.j, at.i - 1, next - 1),
           NEW key \in Seq(Characters), key = Key(pattern, at.j),
           NEW globs, globs = Globs(pattern, at.j + 1)
    PROVE  Follows(path, pattern, capturing, at, next,
                   Capture(capturing, f, at, next, key, value, globs))
<1> DEFINE r == Capture(capturing, f, at, next, key, value, globs)
           b == There(next, at.j + 1, With1(capturing, at.parameters, key, value), globs)
<1>0. /\ at \in Attempts /\ at.i \in Nat \ {0} /\ at.j \in Nat \ {0} /\ at.j + 1 \in Nat \ {0}
      /\ Len(path) \in Nat /\ Len(pattern) \in Nat /\ at.i <= Len(path) + 1 /\ at.j <= Len(pattern) + 1
    BY AttemptsAre, LenProperties DEF Segmented, Usual
<1>1. at.j \in 1..Len(pattern) /\ at.j + 1 <= Len(pattern) + 1
    BY <1>0, CapturesAre
<1>2. next \in Nat \ {0} /\ next <= Len(path) + 1
    BY <1>0
<1>3. globs \in Nat
    BY <1>1, GlobsStep
<1>4. b \in Attempts
    BY <1>0, <1>2, <1>3, CaptureTyped
<1>5. /\ b.i = next /\ b.j = at.j + 1 /\ b.globs = globs
      /\ b.parameters = With1(capturing, at.parameters, key, value)
    BY DEF There
<1> HIDE DEF b
<1>6. Usual(path, pattern, b)
    BY <1>1, <1>2, <1>4, <1>5 DEF Usual
<1>7. Told(path, pattern, capturing, b, f[b])
    BY <1>5, <1>6 DEF ToldAt
<1>8. capturing => b.parameters = at.parameters \cup {[key |-> key, value |-> value]}
    BY <1>5 DEF With1
<1>9. ~capturing => b.parameters = at.parameters
    BY <1>5 DEF With1
<1>10. Unspent(pattern, capturing, at)
        <=> ~Clashes(capturing, at.parameters, key) /\ Unspent(pattern, capturing, b)
    <2>1. CASE capturing
        <3>1. Fresh(pattern, at.parameters, at.j)
                <=> /\ \A c \in at.parameters : c.key # key
                    /\ Fresh(pattern, at.parameters \cup {[key |-> key, value |-> value]}, at.j + 1)
            BY <1>1, FreshStep
        <3> QED BY <1>5, <1>8, <2>1, <3>1 DEF Unspent, Clashes
    <2>2. CASE ~capturing
        BY <2>2 DEF Unspent, Clashes
    <2> QED BY <2>1, <2>2
<1>11. CASE Clashes(capturing, at.parameters, key)
    <2>1. r = Failure /\ ~Failure.matches
        BY <1>11 DEF Capture, Failure
    <2>2. Accounted(path, pattern, capturing, at, Failure)
        BY <2>1 DEF Accounted
    <2> QED BY <1>10, <1>11, <2>1, <2>2 DEF Follows
<1>12. CASE ~Clashes(capturing, at.parameters, key)
    <2>1. r = f[b]
        BY <1>12 DEF Capture, b
    <2> HIDE DEF r
    <2>2. r.matches <=> Leads(path, pattern, at.j + 1, next) /\ Unspent(pattern, capturing, at)
        BY <1>5, <1>7, <1>10, <1>12, <2>1 DEF Told
    <2>3. Accounted(path, pattern, capturing, b, r)
        BY <1>7, <2>1 DEF Told
    <2>4. Accounted(path, pattern, capturing, at, r)
        <3>1. capturing => b.parameters = at.parameters \cup
                (IF at.j \in Captures(pattern)
                 THEN {[key |-> Key(pattern, at.j),
                        value |-> Taken(path, pattern, at.j, at.i - 1, next - 1)]} ELSE {})
            BY <1>8
        <3> QED BY <1>0, <1>1, <1>5, <1>9, <2>3, <3>1, AccountStep
    <2> QED BY <2>2, <2>4 DEF Follows, r
<1> QED BY <1>11, <1>12

LEMMA FailureAccounts ==
    ASSUME NEW path, NEW pattern, NEW capturing, NEW at
    PROVE  Accounted(path, pattern, capturing, at, Failure) /\ ~Failure.matches
BY DEF Accounted, Failure

LEMMA FailureTold ==
    ASSUME NEW path, NEW pattern, NEW capturing, NEW at, ~Leads(path, pattern, at.j, at.i)
    PROVE  Told(path, pattern, capturing, at, Failure)
BY FailureAccounts DEF Told

LEMMA GlobStarKey ==
    ASSUME NEW pattern \in Segmented, NEW j \in 1..Len(pattern), IsGlobStar(pattern[j])
    PROVE  /\ j \in Captures(pattern) /\ ~IsNamed(pattern[j])
           /\ Key(pattern, j) = Ordinal[Globs(pattern, j)] /\ Globs(pattern, j + 1) = Globs(pattern, j) + 1
<1>1. ~IsParameter(pattern[j]) /\ ~IsNamed(pattern[j])
    BY DEF IsGlobStar, IsParameter, IsNamed
<1>2. IsGlob(pattern[j])
    <2>1. pattern[j] = <<"*", "*">>
        BY DEF IsGlobStar
    <2>2. 1 \in DOMAIN pattern[j] /\ pattern[j][1] = "*"
        BY <2>1
    <2> QED BY <2>2 DEF IsGlob, ToSet
<1>3. DOMAIN pattern = 1..Len(pattern)
    BY LenProperties DEF Segmented
<1>4. j \in Captures(pattern)
    BY <1>1, <1>2, <1>3 DEF Captures
<1> QED BY <1>1, <1>4, GlobsStep DEF Key

LEMMA GlobStarFollows ==
    ASSUME NEW path \in Segmented, NEW pattern \in Segmented, NEW capturing \in BOOLEAN,
           NEW f, NEW at, Usual(path, pattern, at), at.j <= Len(pattern), IsGlobStar(pattern[at.j]),
           ToldAt(path, pattern, capturing, f, at.j + 1),
           NEW next \in at.i..(Len(path) + 1)
    PROVE  Follows(path, pattern, capturing, at, next, CaptureGlobStar(path, capturing, f, at, next))
<1>1. /\ at \in Attempts /\ at.i \in Nat \ {0} /\ at.j \in Nat \ {0} /\ Len(path) \in Nat /\ Len(pattern) \in Nat
      /\ at.i <= Len(path) + 1 /\ at.globs = Globs(pattern, at.j)
    BY AttemptsAre, LenProperties DEF Segmented, Usual
<1>2. at.j \in 1..Len(pattern) /\ at.i \in 1..(Len(path) + 1) /\ (at.i - 1) + 1 = at.i
    BY <1>1
<1>3. /\ at.j \in Captures(pattern) /\ Key(pattern, at.j) = Ordinal[at.globs]
      /\ Globs(pattern, at.j + 1) = at.globs + 1
    BY <1>1, <1>2, GlobStarKey
<1>4. Takes(path, pattern, at.j, at.i, next)
    BY <1>2, TakesAre
<1>5. /\ Ordinal[at.globs] \in Seq(Characters) /\ Joined(SubSeq(path, at.i, next - 1)) \in Segmented
    BY <1>1, GlobStarCaptures
<1>6. Joined(SubSeq(path, at.i, next - 1)) = Taken(path, pattern, at.j, at.i - 1, next - 1)
    BY <1>2 DEF Taken
<1> QED BY <1>3, <1>4, <1>5, <1>6, CaptureFollows DEF CaptureGlobStar

LEMMA GlobStarTold ==
    ASSUME NEW path \in Segmented, NEW pattern \in Segmented, NEW capturing \in BOOLEAN,
           NEW f, NEW at, Usual(path, pattern, at), at.j <= Len(pattern), IsGlobStar(pattern[at.j]),
           ToldAt(path, pattern, capturing, f, at.j + 1)
    PROVE  Told(path, pattern, capturing, at, GlobStar(path, capturing, f, at))
<1> DEFINE C(next) == CaptureGlobStar(path, capturing, f, at, next)
           ends == {next \in at.i..Len(path) + 1 : C(next).matches}
<1>1. /\ at.i \in Nat \ {0} /\ at.j \in Nat \ {0} /\ Len(path) \in Nat /\ Len(pattern) \in Nat
      /\ at.i <= Len(path) + 1
    BY AttemptsAre, LenProperties DEF Segmented, Usual
<1>2. at.j \in 1..Len(pattern) /\ at.i \in 1..(Len(path) + 1)
    BY <1>1
<1>3. \A next \in at.i..(Len(path) + 1) : Follows(path, pattern, capturing, at, next, C(next))
    BY GlobStarFollows
<1> HIDE DEF C
<1>4. Leads(path, pattern, at.j, at.i)
        <=> \E next \in at.i..(Len(path) + 1) : Leads(path, pattern, at.j + 1, next)
    <2>1. Leads(path, pattern, at.j, at.i)
            <=> \E next \in at.i..(Len(path) + 1) :
                    Takes(path, pattern, at.j, at.i, next) /\ Leads(path, pattern, at.j + 1, next)
        BY <1>2, LeadsStep
    <2>2. \A next \in at.i..(Len(path) + 1) : Takes(path, pattern, at.j, at.i, next)
        BY <1>2, TakesAre
    <2> QED BY <2>1, <2>2
<1>5. \A next \in at.i..(Len(path) + 1) :
        C(next).matches <=> Leads(path, pattern, at.j + 1, next) /\ Unspent(pattern, capturing, at)
    BY <1>3 DEF Follows
<1>6. ends # {} <=> Leads(path, pattern, at.j, at.i) /\ Unspent(pattern, capturing, at)
    BY <1>4, <1>5
<1>7. GlobStar(path, capturing, f, at) = IF ends = {} THEN Failure ELSE C(Min(ends))
    BY DEF GlobStar, C
<1>8. CASE ends = {}
    BY <1>6, <1>7, <1>8, FailureAccounts DEF Told
<1>9. CASE ends # {}
    <2>1. ends \in SUBSET Nat
        BY <1>1
    <2>2. Min(ends) \in ends
        <3> HIDE DEF ends
        <3> QED BY <1>9, <2>1, LeastIs
    <2>3. PICK m \in at.i..(Len(path) + 1) : m = Min(ends) /\ C(m).matches
        BY <2>2
    <2> HIDE DEF ends
    <2>4. Accounted(path, pattern, capturing, at, C(m))
        BY <1>3 DEF Follows
    <2> QED BY <1>6, <1>7, <1>9, <2>3, <2>4 DEF Told
<1> QED BY <1>8, <1>9

LEMMA EndTold ==
    ASSUME NEW path \in Segmented, NEW pattern \in Segmented, NEW capturing \in BOOLEAN,
           NEW at, Usual(path, pattern, at), at.j = Len(pattern) + 1
    PROVE  Told(path, pattern, capturing, at,
                IF at.i = Len(path) + 1 THEN [matches |-> TRUE, parameters |-> at.parameters] ELSE Failure)
<1>1. /\ at.i \in Nat \ {0} /\ Len(path) \in Nat /\ Len(pattern) \in Nat /\ at.i <= Len(path) + 1
    BY AttemptsAre, LenProperties DEF Segmented, Usual
<1>2. at.i \in 1..(Len(path) + 1)
    BY <1>1
<1>3. Leads(path, pattern, at.j, at.i) <=> at.i = Len(path) + 1
    BY <1>2, LeadsEnd
<1>4. CASE at.i # Len(path) + 1
    BY <1>3, <1>4, FailureTold
<1>5. CASE at.i = Len(path) + 1
    <2> DEFINE r == [matches |-> TRUE, parameters |-> at.parameters]
    <2>1. r.matches = TRUE /\ r.parameters = at.parameters
        OBVIOUS
    <2> HIDE DEF r
    <2>2. Unspent(pattern, capturing, at)
        BY FreshEnd DEF Unspent
    <2>3. PICK cut : CutFrom(Ways(path, pattern), Len(pattern), Len(path), at.j, at.i - 1, cut)
        BY <1>3, <1>5 DEF Leads, Chain
    <2>4. Caught(path, pattern, cut, at.j) = {}
        <3>1. \A c \in Captures(pattern) : ~(c >= at.j)
            BY <1>1, CapturesAre
        <3> QED BY <3>1 DEF Caught
    <2>5. Accounted(path, pattern, capturing, at, r)
        BY <2>1, <2>3, <2>4 DEF Accounted
    <2>6. Told(path, pattern, capturing, at, r)
        BY <1>3, <1>5, <2>1, <2>2, <2>5 DEF Told
    <2> QED BY <1>5, <2>6 DEF r
<1> QED BY <1>4, <1>5

\* A segment that captures one of the path
LEMMA OneTold ==
    ASSUME NEW path \in Segmented, NEW pattern \in Segmented, NEW capturing \in BOOLEAN,
           NEW f, NEW at, Usual(path, pattern, at), at.j <= Len(pattern), at.i <= Len(path),
           ~IsGlobStar(pattern[at.j]), at.j \in Captures(pattern), TakesOne(path[at.i], pattern[at.j]),
           ToldAt(path, pattern, capturing, f, at.j + 1),
           NEW key \in Seq(Characters), key = Key(pattern, at.j),
           NEW globs, globs = Globs(pattern, at.j + 1)
    PROVE  Told(path, pattern, capturing, at,
                Capture(capturing, f, at, at.i + 1, key, <<path[at.i]>>, globs))
<1>1. /\ at.i \in Nat \ {0} /\ at.j \in Nat \ {0} /\ Len(path) \in Nat /\ Len(pattern) \in Nat
    BY AttemptsAre, LenProperties DEF Segmented, Usual
<1>2. at.j \in 1..Len(pattern) /\ at.i \in 1..(Len(path) + 1) /\ at.i \in 1..Len(path)
    BY <1>1
<1>3. PICK next \in at.i..(Len(path) + 1) : next = at.i + 1
    <2>1. at.i + 1 \in at.i..(Len(path) + 1)
        BY <1>1
    <2> QED BY <2>1
<1>4. Takes(path, pattern, at.j, at.i, next)
    BY <1>2, <1>3, TakesAre
<1>5. PICK value \in Segmented : value = <<path[at.i]>>
    <2>1. path[at.i] \in Seq(Characters)
        BY <1>2, ElementOfSeq DEF Segmented
    <2>2. <<path[at.i]>> \in Segmented
        BY <2>1 DEF Segmented
    <2> QED BY <2>2
<1>6. value = Taken(path, pattern, at.j, at.i - 1, next - 1)
    <2>1. PICK a, b \in Nat : a = at.i - 1 /\ b = next - 1
        <3>1. at.i - 1 \in Nat /\ next - 1 \in Nat
            BY <1>1, <1>3
        <3> QED BY <3>1
    <2>2. a \in 0..Len(path) /\ b \in a..Len(path) /\ a + 1 = at.i /\ b = a + 1
        <3>1. PICK i, L \in Nat : i = at.i /\ L = Len(path)
            BY <1>1
        <3>2. i \in 1..L /\ a = i - 1 /\ b = i + 1 - 1
            BY <1>2, <1>3, <2>1, <3>1
        <3>3. a \in 0..L /\ b \in a..L /\ a + 1 = i /\ b = a + 1
            BY <3>1, <3>2
        <3> QED BY <3>1, <3>3
    <2>3. SubSeq(path, a + 1, b) = <<path[a + 1]>>
        BY <2>2, OnePart DEF Segmented
    <2> QED BY <1>5, <2>1, <2>2, <2>3 DEF Taken
<1>7. Follows(path, pattern, capturing, at, next, Capture(capturing, f, at, next, key, value, globs))
    BY <1>4, <1>6, CaptureFollows
<1>8. Leads(path, pattern, at.j, at.i) <=> Leads(path, pattern, at.j + 1, next)
    <2>1. Leads(path, pattern, at.j, at.i)
            <=> /\ at.i <= Len(path) /\ TakesOne(path[at.i], pattern[at.j])
                /\ Leads(path, pattern, at.j + 1, at.i + 1)
        BY <1>2, LeadsOne
    <2> QED BY <1>3, <2>1
<1> QED BY <1>3, <1>5, <1>7, <1>8 DEF Told, Follows

\* A segment that stands for itself
LEMMA LiteralTold ==
    ASSUME NEW path \in Segmented, NEW pattern \in Segmented, NEW capturing \in BOOLEAN,
           NEW f, NEW at, Usual(path, pattern, at), at.j <= Len(pattern), at.i <= Len(path),
           ~IsGlobStar(pattern[at.j]), at.j \notin Captures(pattern), TakesOne(path[at.i], pattern[at.j]),
           ToldAt(path, pattern, capturing, f, at.j + 1)
    PROVE  Told(path, pattern, capturing, at, f[There(at.i + 1, at.j + 1, at.parameters, at.globs)])
<1>1. /\ at \in Attempts /\ at.i \in Nat \ {0} /\ at.j \in Nat \ {0} /\ Len(path) \in Nat /\ Len(pattern) \in Nat
      /\ at.i + 1 \in Nat \ {0} /\ at.j + 1 \in Nat \ {0}
      /\ at.parameters \in SUBSET Captured /\ at.globs \in Nat /\ at.globs = Globs(pattern, at.j)
    <2>1. at \in Attempts /\ at.globs = Globs(pattern, at.j)
        BY DEF Usual
    <2>2. /\ at.i \in Nat \ {0} /\ at.j \in Nat \ {0} /\ at.j + 1 \in Nat \ {0}
          /\ at.parameters \in SUBSET Captured /\ at.globs \in Nat
        BY <2>1, AttemptsAre
    <2>3. Len(path) \in Nat /\ Len(pattern) \in Nat
        BY LenProperties DEF Segmented
    <2>4. at.i + 1 \in Nat \ {0}
        BY <2>2
    <2> QED BY <2>1, <2>2, <2>3, <2>4
<1>2. at.j \in 1..Len(pattern) /\ at.i \in 1..(Len(path) + 1) /\ at.i + 1 <= Len(path) + 1 /\ at.j + 1 <= Len(pattern) + 1
    BY <1>1
<1>3. PICK next \in at.i..(Len(path) + 1) : next = at.i + 1
    <2>1. at.i + 1 \in at.i..(Len(path) + 1)
        BY <1>1, <1>2
    <2> QED BY <2>1
<1>4. Takes(path, pattern, at.j, at.i, next)
    BY <1>2, <1>3, TakesAre
<1> DEFINE b == There(at.i + 1, at.j + 1, at.parameters, at.globs)
<1>5. b \in Attempts
    BY <1>1, ThereIs
<1>6. b.i = next /\ b.j = at.j + 1 /\ b.globs = at.globs /\ b.parameters = at.parameters
    BY <1>3 DEF There
<1> HIDE DEF b
<1>7. Usual(path, pattern, b)
    <2>1. Globs(pattern, at.j + 1) = at.globs
        BY <1>1, <1>2, GlobsStep
    <2>2. b.i <= Len(path) + 1 /\ b.j <= Len(pattern) + 1
        BY <1>2, <1>3, <1>6
    <2> QED BY <1>5, <1>6, <2>1, <2>2 DEF Usual
<1>8. Told(path, pattern, capturing, b, f[b])
    BY <1>6, <1>7 DEF ToldAt
<1>9. Accounted(path, pattern, capturing, at, f[b])
    <2>1. Accounted(path, pattern, capturing, b, f[b])
        BY <1>8 DEF Told
    <2>2. at.parameters = at.parameters \cup
                (IF at.j \in Captures(pattern)
                 THEN {[key |-> Key(pattern, at.j),
                        value |-> Taken(path, pattern, at.j, at.i - 1, next - 1)]} ELSE {})
        OBVIOUS
    <2>3. at.i <= Len(path) + 1
        BY <1>2
    <2> QED BY <1>1, <1>2, <1>4, <1>6, <2>1, <2>2, <2>3, AccountStep
<1>10. Leads(path, pattern, at.j, at.i) <=> Leads(path, pattern, at.j + 1, next)
    <2>1. Leads(path, pattern, at.j, at.i)
            <=> /\ at.i <= Len(path) /\ TakesOne(path[at.i], pattern[at.j])
                /\ Leads(path, pattern, at.j + 1, at.i + 1)
        BY <1>2, LeadsOne
    <2> QED BY <1>3, <2>1
<1>11. Unspent(pattern, capturing, at) <=> Unspent(pattern, capturing, b)
    BY <1>2, <1>6, FreshSkip DEF Unspent
<1>12. Told(path, pattern, capturing, at, f[b])
    BY <1>6, <1>8, <1>9, <1>10, <1>11 DEF Told
<1> QED BY <1>12 DEF b

LEMMA AttemptTold ==
    ASSUME NEW path \in Segmented, NEW pattern \in Segmented, NEW capturing \in BOOLEAN,
           NEW f, NEW at, Usual(path, pattern, at),
           at.j <= Len(pattern) => ToldAt(path, pattern, capturing, f, at.j + 1)
    PROVE  Told(path, pattern, capturing, at, Attempt(path, pattern, capturing, f, at))
<1> DEFINE r == Attempt(path, pattern, capturing, f, at)
           segment == pattern[at.j]
<1>1. at \in Attempts /\ at.globs = Globs(pattern, at.j) /\ at.i <= Len(path) + 1 /\ at.j <= Len(pattern) + 1
    BY DEF Usual
<1>2. /\ at.i \in Nat \ {0} /\ at.j \in Nat \ {0} /\ Len(path) \in Nat /\ Len(pattern) \in Nat
      /\ at.globs \in Nat
    BY <1>1, AttemptsAre, LenProperties DEF Segmented
<1>3. CASE at.j > Len(pattern)
    <2>1. at.j = Len(pattern) + 1
        BY <1>1, <1>2, <1>3
    <2>2. r = IF at.i = Len(path) + 1 THEN [matches |-> TRUE, parameters |-> at.parameters] ELSE Failure
        BY <1>3 DEF Attempt
    <2> QED BY <2>1, <2>2, EndTold
<1>4. CASE at.j <= Len(pattern) /\ IsGlobStar(segment)
    <2>1. ~(at.j > Len(pattern))
        BY <1>2, <1>4
    <2>2. r = GlobStar(path, capturing, f, at)
        BY <1>4, <2>1 DEF Attempt
    <2> QED BY <1>4, <2>2, GlobStarTold
<1>5. CASE at.j <= Len(pattern) /\ ~IsGlobStar(segment)
    <2>1. ~(at.j > Len(pattern)) /\ at.j \in 1..Len(pattern) /\ at.i \in 1..(Len(path) + 1)
        BY <1>1, <1>2, <1>5
    <2>2. DOMAIN pattern = 1..Len(pattern)
        BY LenProperties DEF Segmented
    <2>3. Leads(path, pattern, at.j, at.i)
            <=> /\ at.i <= Len(path) /\ TakesOne(path[at.i], segment)
                /\ Leads(path, pattern, at.j + 1, at.i + 1)
        BY <1>5, <2>1, LeadsOne
    <2>4. ToldAt(path, pattern, capturing, f, at.j + 1)
        BY <1>5
    <2>5. CASE at.i > Len(path)
        <3>1. r = Failure /\ ~(at.i <= Len(path))
            BY <1>2, <1>5, <2>1, <2>5 DEF Attempt
        <3> QED BY <2>3, <3>1, FailureTold
    <2>6. CASE at.i <= Len(path)
        <3>1. ~(at.i > Len(path)) /\ at.i \in 1..Len(path)
            BY <1>2, <2>6
        <3>2. segment \in Seq(Characters) /\ path[at.i] \in Seq(Characters)
            BY <2>1, <3>1, ElementOfSeq DEF Segmented
        <3>3. CASE IsNamed(segment)
            <4>1. TakesOne(path[at.i], segment) <=> path[at.i] # <<>>
                BY <3>3 DEF TakesOne
            <4>2. r = IF path[at.i] = <<>> THEN Failure
                      ELSE Capture(capturing, f, at, at.i + 1, Tail(segment), <<path[at.i]>>, at.globs)
                BY <1>5, <2>1, <3>1, <3>3 DEF Attempt
            <4>3. CASE path[at.i] = <<>>
                BY <2>3, <4>1, <4>2, <4>3, FailureTold
            <4>4. CASE path[at.i] # <<>>
                <5>1. at.j \in Captures(pattern)
                    BY <2>1, <2>2, <3>3 DEF Captures
                <5>2. Tail(segment) \in Seq(Characters) /\ Tail(segment) = Key(pattern, at.j)
                    BY <3>2, <3>3, NameTyped DEF Key
                <5>3. at.globs = Globs(pattern, at.j + 1)
                    BY <1>1, <2>1, <3>3, GlobsStep
                <5> QED BY <1>5, <2>4, <2>6, <4>1, <4>2, <4>4, <5>1, <5>2, <5>3, OneTold
            <4> QED BY <4>3, <4>4
        <3>4. CASE ~IsNamed(segment) /\ IsParameter(segment)
            <4>1. ~TakesOne(path[at.i], segment)
                BY <3>4 DEF TakesOne
            <4>2. r = Failure
                BY <1>5, <2>1, <3>1, <3>4 DEF Attempt
            <4> QED BY <2>3, <4>1, <4>2, FailureTold
        <3>5. CASE ~IsNamed(segment) /\ ~IsParameter(segment) /\ IsGlob(segment)
            <4>1. TakesOne(path[at.i], segment) <=> GlobMatches(path[at.i], segment)
                BY <3>2, <3>5, GlobIsExact DEF TakesOne
            <4>2. r = IF GlobMatches(path[at.i], segment)
                      THEN Capture(capturing, f, at, at.i + 1, Ordinal[at.globs], <<path[at.i]>>, at.globs + 1)
                      ELSE Failure
                BY <1>5, <2>1, <3>1, <3>5 DEF Attempt
            <4>3. CASE ~GlobMatches(path[at.i], segment)
                BY <2>3, <4>1, <4>2, <4>3, FailureTold
            <4>4. CASE GlobMatches(path[at.i], segment)
                <5>1. at.j \in Captures(pattern)
                    BY <2>1, <2>2, <3>5 DEF Captures
                <5>2. Ordinal[at.globs] \in Seq(Characters)
                    BY <1>2, OrdinalExists
                <5>3. Ordinal[at.globs] = Key(pattern, at.j)
                    BY <1>1, <3>5 DEF Key
                <5>4. at.globs + 1 = Globs(pattern, at.j + 1)
                    BY <1>1, <2>1, <3>5, <5>1, GlobsStep
                <5> QED BY <1>5, <2>4, <2>6, <4>1, <4>2, <4>4, <5>1, <5>2, <5>3, <5>4, OneTold
            <4> QED BY <4>3, <4>4
        <3>6. CASE ~IsNamed(segment) /\ ~IsParameter(segment) /\ ~IsGlob(segment)
            <4>1. TakesOne(path[at.i], segment) <=> segment = path[at.i]
                BY <3>2, <3>6, LiteralMeans DEF TakesOne
            <4>2. r = IF segment = path[at.i] THEN f[There(at.i + 1, at.j + 1, at.parameters, at.globs)]
                      ELSE Failure
                BY <1>5, <2>1, <3>1, <3>6 DEF Attempt
            <4>3. CASE segment # path[at.i]
                BY <2>3, <4>1, <4>2, <4>3, FailureTold
            <4>4. CASE segment = path[at.i]
                <5>1. at.j \notin Captures(pattern)
                    BY <3>6 DEF Captures
                <5> QED BY <1>5, <2>4, <2>6, <4>1, <4>2, <4>4, <5>1, LiteralTold
            <4> QED BY <4>3, <4>4
        <3> QED BY <3>3, <3>4, <3>5, <3>6
    <2> QED BY <1>2, <2>5, <2>6
<1> QED BY <1>2, <1>3, <1>4, <1>5

\* The search finds everything it should, from the last segment of the pattern to the first.
LEMMA SearchTells ==
    ASSUME NEW path \in Segmented, NEW pattern \in Segmented, NEW capturing \in BOOLEAN
    PROVE  Told(path, pattern, capturing, There(1, 1, {}, 0), MatchPathSegments(path, pattern, capturing))
<1> DEFINE f == Search(path, pattern, capturing)
           n == Len(pattern)
           T(j) == ToldAt(path, pattern, capturing, f, j)
           S == {b \in Nat : \A j \in 1..(n + 1) : j + b > n => T(j)}
<1>1. n \in Nat /\ Len(path) \in Nat
    BY LenProperties DEF Segmented
<1>2. /\ \A at \in Attempts : f[at] = Attempt(path, pattern, capturing, f, at)
      /\ MatchPathSegments(path, pattern, capturing) = f[There(1, 1, {}, 0)]
    BY SearchIs
<1> HIDE DEF f
<1>3. ASSUME NEW j \in 1..(n + 1), j <= n => T(j + 1) PROVE T(j)
    <2> SUFFICES ASSUME NEW at, Usual(path, pattern, at), at.j = j
                 PROVE  Told(path, pattern, capturing, at, f[at])
        BY DEF ToldAt
    <2>1. at \in Attempts
        BY DEF Usual
    <2>2. at.j <= Len(pattern) => ToldAt(path, pattern, capturing, f, at.j + 1)
        BY <1>3
    <2>3. Told(path, pattern, capturing, at, Attempt(path, pattern, capturing, f, at))
        BY <2>2, AttemptTold
    <2> QED BY <1>2, <2>1, <2>3
<1> HIDE DEF T, n
<1>4. 0 \in S
    <2>1. \A j \in 1..(n + 1) : j + 0 > n => ~(j <= n)
        BY <1>1
    <2> QED BY <1>3, <2>1
<1>5. ASSUME NEW b \in Nat, b \in S PROVE b + 1 \in S
    <2>1. ASSUME NEW j \in 1..(n + 1), j + (b + 1) > n PROVE T(j)
        <3>1. j <= n => j + 1 \in 1..(n + 1) /\ (j + 1) + b > n
            BY <1>1, <2>1
        <3>2. j <= n => T(j + 1)
            BY <1>5, <3>1
        <3> QED BY <1>3, <3>2
    <2> QED BY <2>1
<1>6. \A b \in Nat : b \in S
    <2> HIDE DEF S
    <2> QED BY <1>4, <1>5, Counting
<1>7. T(1)
    <2>1. n \in S /\ 1 \in 1..(n + 1) /\ 1 + n > n
        BY <1>1, <1>6
    <2> QED BY <2>1
<1>8. Usual(path, pattern, There(1, 1, {}, 0))
    <2>1. There(1, 1, {}, 0) \in Attempts
        BY ThereIs
    <2>2. /\ There(1, 1, {}, 0).i = 1 /\ There(1, 1, {}, 0).j = 1 /\ There(1, 1, {}, 0).globs = 0
        BY DEF There
    <2>3. 1 <= Len(path) + 1 /\ 1 <= Len(pattern) + 1
        BY <1>1 DEF n
    <2> QED BY <2>1, <2>2, <2>3, GlobsStart DEF Usual
<1>9. There(1, 1, {}, 0).j = 1
    BY DEF There
<1> QED BY <1>2, <1>7, <1>8, <1>9 DEF T, ToldAt

-----------------------------------------------------------------------------
(* MatchIsExact *)

LEMMA TrimmedTyped ==
    ASSUME NEW text \in Segmented, text # <<>>
    PROVE  Trimmed(text) \in Segmented
<1> DEFINE middle == IF Len(text) > 1 /\ text[1] = <<>> THEN Tail(text) ELSE text
           filled == {n \in DOMAIN middle : middle[n] # <<>>}
           last == IF filled = {} THEN 1 ELSE Max(filled)
<1>1. Len(text) \in Nat /\ Len(text) # 0
    BY LenProperties, EmptySeq DEF Segmented
<1>2. Tail(text) \in Segmented /\ Len(Tail(text)) = Len(text) - 1
    BY HeadTailProperties DEF Segmented
<1>3. middle \in Segmented /\ Len(middle) \in Nat \ {0}
    BY <1>1, <1>2
<1> HIDE DEF middle
<1>4. DOMAIN middle = 1..Len(middle)
    BY <1>3, LenProperties DEF Segmented
<1>5. last \in 0..Len(middle)
    <2>1. CASE filled = {}
        BY <1>3, <2>1
    <2>2. CASE filled # {}
        <3>1. filled \subseteq 1..Len(middle)
            BY <1>4
        <3>2. Max(filled) \in filled
            <4> HIDE DEF filled
            <4> QED BY <1>3, <2>2, <3>1, GreatestIsOne
        <3>3. Max(filled) \in 1..Len(middle)
            BY <3>1, <3>2
        <3>4. last = Max(filled)
            BY <2>2
        <3> HIDE DEF last, filled
        <3> QED BY <1>3, <3>3, <3>4
    <2> QED BY <2>1, <2>2
<1>6. Trimmed(text) = SubSeq(middle, 1, last)
    BY DEF Trimmed, middle
<1> HIDE DEF last
<1>7. SubSeq(middle, 1, last) \in Segmented
    BY <1>3, <1>5, FirstIs DEF Segmented
<1> QED BY <1>6, <1>7

\* Where no segment is empty nothing is dropped.
LEMMA JoinedIs ==
    ASSUME NEW segments \in Segmented, \A i \in 1..Len(segments) : segments[i] # <<>>
    PROVE  Joined(segments) = segments
<1> DEFINE filled == {n \in DOMAIN segments : segments[n] # <<>>}
<1>1. Len(segments) \in Nat /\ DOMAIN segments = 1..Len(segments)
    BY LenProperties DEF Segmented
<1>2. filled = 1..Len(segments)
    BY <1>1
<1>3. CASE Len(segments) = 0
    <2>1. filled = {} /\ segments = <<>>
        <3>1. 1..0 = {}
            OBVIOUS
        <3>2. filled = {}
            BY <1>2, <1>3, <3>1
        <3>3. segments = <<>>
            BY <1>3, EmptySeq DEF Segmented
        <3> QED BY <3>2, <3>3
    <2> QED BY <2>1 DEF Joined
<1>4. CASE Len(segments) # 0
    <2>1. 1 \in filled /\ filled \subseteq Nat /\ \A y \in filled : 1 <= y
        BY <1>1, <1>2, <1>4
    <2> HIDE DEF filled
    <2>2. Min(filled) = 1
        BY <2>1, LeastIsOne
    <2>3. SubSeq(segments, 1, Len(segments)) = segments
        BY DEF Segmented
    <2>4. filled # {}
        BY <2>1
    <2> QED BY <2>2, <2>3, <2>4 DEF Joined, filled
<1> QED BY <1>3, <1>4

LEMMA PiecesAre ==
    ASSUME NEW path \in Segmented, NEW n \in Nat, NEW cut \in Cuts(n, Len(path)), NEW k \in 1..n
    PROVE  /\ cut[k - 1] \in 0..Len(path) /\ cut[k] \in cut[k - 1]..Len(path)
           /\ Piece(path, cut, k) \in Segmented
           /\ (\A i \in DOMAIN path : path[i] # <<>>) =>
                \A i \in 1..Len(Piece(path, cut, k)) : Piece(path, cut, k)[i] # <<>>
<1>1. PICK a, b : a = cut[k - 1] /\ b = cut[k]
    OBVIOUS
<1>2. Len(path) \in Nat /\ DOMAIN path = 1..Len(path)
    BY LenProperties DEF Segmented
<1>3. k - 1 \in 0..n /\ k \in 0..n
    OBVIOUS
<1>4. a \in 0..Len(path) /\ b \in 0..Len(path) /\ a <= b
    BY <1>1, <1>3 DEF Cuts
<1>5. a + 1 \in Nat \ {0} /\ b \in a..Len(path)
    BY <1>2, <1>4
<1> DEFINE u == SubSeq(path, a + 1, b)
<1>6. /\ u \in Segmented /\ Len(u) = IF a + 1 <= b THEN b - (a + 1) + 1 ELSE 0
      /\ \A i \in 1..(b - (a + 1) + 1) : u[i] = path[a + 1 + i - 1]
    BY <1>4, <1>5, PartIs DEF Segmented
<1>7. u = Piece(path, cut, k)
    BY <1>1 DEF Piece
<1> HIDE DEF u
<1>8. \A i \in 1..Len(u) : i \in 1..(b - (a + 1) + 1) /\ a + 1 + i - 1 \in 1..Len(path)
    BY <1>2, <1>4, <1>6
<1>9. (\A i \in DOMAIN path : path[i] # <<>>) => \A i \in 1..Len(u) : u[i] # <<>>
    BY <1>2, <1>6, <1>8
<1> QED BY <1>1, <1>4, <1>5, <1>6, <1>7, <1>9

\* The pieces one behind the other are the path.
LEMMA PiecesMakeIt ==
    ASSUME NEW path \in Segmented, NEW n \in Nat, NEW cut \in Cuts(n, Len(path)),
           NEW pieces, pieces = [k \in 1..n |-> Piece(path, cut, k)]
    PROVE  FlattenSeq(pieces) = path
<1> DEFINE f == [k \in 0..n |-> SubSeq(path, 1, cut[k])]
<1>1. Len(path) \in Nat
    BY LenProperties DEF Segmented
<1>2. pieces \in Seq(Seq(Seq(Characters))) /\ Len(pieces) = n
    <2>1. \A k \in 1..n : Piece(path, cut, k) \in Seq(Seq(Characters))
        BY PiecesAre DEF Segmented
    <2> QED BY <2>1
<1>3. \A k \in 0..n : cut[k] \in 0..Len(path)
    BY DEF Cuts
<1>4. f \in [0..n -> Seq(Seq(Characters))]
    <2>1. \A k \in 0..n : SubSeq(path, 1, cut[k]) \in Seq(Seq(Characters))
        BY <1>3, FirstIs DEF Segmented
    <2> QED BY <2>1
<1>5. f[0] = <<>>
    <2>1. cut[0] = 0 /\ 0 \in 0..n
        BY DEF Cuts
    <2>2. SubSeq(path, 1, 0) = <<>>
        BY DEF Segmented
    <2> QED BY <2>1, <2>2
<1>6. ASSUME NEW k \in 1..n PROVE f[k] = f[k - 1] \o pieces[k]
    <2>1. k - 1 \in 0..n /\ k \in 0..n
        OBVIOUS
    <2>2. PICK a, b : a = cut[k - 1] /\ b = cut[k]
        OBVIOUS
    <2>3. a \in 0..Len(path) /\ b \in a..Len(path)
        BY <2>2, PiecesAre
    <2>4. 1 \in Nat \ {0} /\ a \in (1 - 1)..Len(path)
        BY <2>3
    <2>5. SubSeq(path, 1, a) \o SubSeq(path, a + 1, b) = SubSeq(path, 1, b)
        BY <2>3, <2>4, Join DEF Segmented
    <2>6. f[k] = SubSeq(path, 1, b) /\ f[k - 1] = SubSeq(path, 1, a)
        BY <2>1, <2>2
    <2>7. pieces[k] = SubSeq(path, a + 1, b)
        BY <2>2 DEF Piece
    <2> QED BY <2>5, <2>6, <2>7
<1>7. f[n] = path
    <2>1. cut[n] = Len(path) /\ n \in 0..n
        BY DEF Cuts
    <2>2. SubSeq(path, 1, Len(path)) = path
        BY DEF Segmented
    <2> QED BY <2>1, <2>2
<1> HIDE DEF f
<1>8. Flattens(f, pieces, Seq(Characters))
    BY <1>2, <1>4, <1>5, <1>6 DEF Flattens
<1>9. FlattenSeq(pieces) = f[Len(pieces)]
    BY <1>2, <1>8, FlattenIs
<1> QED BY <1>2, <1>7, <1>9

\* A cut of the path along the pattern
Along(path, pattern, cut) ==
    /\ cut \in Cuts(Len(pattern), Len(path))
    /\ \A k \in 1..Len(pattern) : MeansPiece(Piece(path, cut, k), pattern[k])

LEMMA AlongAre ==
    ASSUME NEW path \in Segmented, NEW pattern \in Segmented,
           NEW cut, CutFrom(Ways(path, pattern), Len(pattern), Len(path), 1, 0, cut)
    PROVE  Along(path, pattern, cut)
<1>1. Len(path) \in Nat /\ Len(pattern) \in Nat
    BY LenProperties DEF Segmented
<1>2. cut \in Cuts(Len(pattern), Len(path)) /\ \A k \in 1..Len(pattern) : <<k, cut[k - 1], cut[k]>> \in Ways(path, pattern)
    BY <1>1, CutsAre
<1>3. ASSUME NEW k \in 1..Len(pattern) PROVE MeansPiece(Piece(path, cut, k), pattern[k])
    <2>1. cut[k - 1] \in Nat /\ cut[k] \in Nat
        <3>1. cut[k - 1] \in 0..Len(path) /\ cut[k] \in cut[k - 1]..Len(path)
            BY <1>1, <1>2, PiecesAre
        <3> QED BY <1>1, <3>1
    <2> QED BY <1>2, <2>1, WaysAre DEF Piece
<1> QED BY <1>2, <1>3 DEF Along

LEMMA KeysAre ==
    ASSUME NEW path, NEW pattern \in Segmented, NEW cut
    PROVE  {c.key : c \in Caught(path, pattern, cut, 1)} = Range(Keys(pattern))
<1>1. \A k \in Captures(pattern) : k >= 1
    BY CapturesAre
<1>2. {k \in Captures(pattern) : k >= 1} = Captures(pattern)
    BY <1>1
<1>3. Range(Keys(pattern)) = {Key(pattern, k) : k \in Captures(pattern)}
    BY DEF Range, Keys
<1>4. Caught(path, pattern, cut, 1)
        = {[key |-> Key(pattern, k), value |-> Taken(path, pattern, k, cut[k - 1], cut[k])] : k \in Captures(pattern)}
    BY <1>2 DEF Caught
<1> DEFINE T(k) == [key |-> Key(pattern, k), value |-> Taken(path, pattern, k, cut[k - 1], cut[k])]
<1>5. \A k : T(k).key = Key(pattern, k)
    OBVIOUS
<1>6. Caught(path, pattern, cut, 1) = {T(k) : k \in Captures(pattern)}
    BY <1>4
<1> HIDE DEF T
<1>7. {c.key : c \in {T(k) : k \in Captures(pattern)}} = {Key(pattern, k) : k \in Captures(pattern)}
    BY <1>5
<1> QED BY <1>3, <1>6, <1>7

LEMMA FreshFromTheStart ==
    ASSUME NEW pattern \in Segmented
    PROVE  Fresh(pattern, {}, 1) <=> IsInjective(Keys(pattern))
<1>1. \A k \in Captures(pattern) : k >= 1
    BY CapturesAre
<1> QED BY <1>1 DEF Fresh, Keys, IsInjective

\* A capture has the text of its piece, another segment is its piece.
LEMMA TextIs ==
    ASSUME NEW path \in Segmented, NEW pattern \in Segmented, NEW cut, Along(path, pattern, cut),
           Fresh(pattern, {}, 1), \A i \in DOMAIN path : path[i] # <<>>, NEW k \in 1..Len(pattern)
    PROVE  Text(pattern, Caught(path, pattern, cut, 1), k) = Piece(path, cut, k)
<1> DEFINE cutout == Piece(path, cut, k)
           K == Caught(path, pattern, cut, 1)
           T(m) == [key |-> Key(pattern, m), value |-> Taken(path, pattern, m, cut[m - 1], cut[m])]
<1>1. /\ Len(path) \in Nat /\ Len(pattern) \in Nat /\ DOMAIN pattern = 1..Len(pattern)
      /\ cut \in Cuts(Len(pattern), Len(path)) /\ MeansPiece(cutout, pattern[k])
    BY LenProperties DEF Segmented, Along
<1>2. cutout \in Segmented /\ \A i \in 1..Len(cutout) : cutout[i] # <<>>
    BY <1>1, PiecesAre
<1>3. Taken(path, pattern, k, cut[k - 1], cut[k]) = cutout
    <2>1. SubSeq(path, cut[k - 1] + 1, cut[k]) = cutout
        BY DEF Piece
    <2> HIDE DEF cutout
    <2>2. Joined(cutout) = cutout
        BY <1>2, JoinedIs
    <2> QED BY <2>1, <2>2 DEF Taken
<1>4. CASE k \in Captures(pattern)
    <2>1. \A m \in Captures(pattern) : m >= 1
        BY CapturesAre
    <2>2. {m \in Captures(pattern) : m >= 1} = Captures(pattern)
        BY <2>1
    <2>3. K = {T(m) : m \in Captures(pattern)}
        BY <2>2 DEF Caught
    <2> HIDE DEF cutout, K
    <2>4. \A m \in Captures(pattern) : Key(pattern, m) = Key(pattern, k) => m = k
        BY <1>4, <2>1 DEF Fresh
    <2>5. T(k) \in K /\ T(k).key = Key(pattern, k) /\ T(k).value = cutout
        BY <1>3, <1>4, <2>3
    <2>6. \A c \in K : c.key = Key(pattern, k) => c = T(k)
        <3> SUFFICES ASSUME NEW m \in Captures(pattern), T(m).key = Key(pattern, k) PROVE T(m) = T(k)
            BY <2>3
        <3>1. T(m).key = Key(pattern, m)
            OBVIOUS
        <3>2. m = k
            BY <2>4, <3>1
        <3> QED BY <3>2
    <2> HIDE DEF T
    <2>7. (CHOOSE c \in K : c.key = Key(pattern, k)) = T(k)
        BY <2>5, <2>6
    <2> QED BY <1>4, <2>5, <2>7 DEF Text, K, cutout
<1>5. CASE k \notin Captures(pattern)
    <2>1. ~IsNamed(pattern[k]) /\ ~(IsGlob(pattern[k]) /\ ~IsParameter(pattern[k]))
        BY <1>1, <1>5 DEF Captures
    <2>2. ~IsGlobStar(pattern[k])
        BY <1>5, GlobStarKey
    <2> HIDE DEF cutout
    <2>3. Len(cutout) = 1 /\ TakesOne(cutout[1], pattern[k])
        BY <1>1, <2>2, PieceMeans
    <2>4. ~IsGlob(pattern[k]) /\ MeansSegment(cutout[1], pattern[k])
        BY <2>1, <2>3 DEF TakesOne
    <2>5. cutout[1] \in Seq(Characters) /\ pattern[k] \in Seq(Characters)
        <3>1. 1 \in 1..Len(cutout)
            BY <2>3
        <3> QED BY <1>2, <3>1, ElementOfSeq DEF Segmented
    <2>6. cutout[1] = pattern[k]
        BY <2>4, <2>5, LiteralMeans
    <2>7. cutout = <<pattern[k]>>
        BY <1>2, <2>3, <2>6, OneIs DEF Segmented
    <2> QED BY <1>5, <2>7 DEF Text, cutout
<1> QED BY <1>4, <1>5

LEMMA MatchTold ==
    ASSUME NEW path \in Segmented, NEW pattern \in Segmented, NEW capturing \in BOOLEAN,
           NEW r, r = MatchPathSegments(path, pattern, capturing)
    PROVE  /\ r.matches <=> Means(path, pattern) /\ (capturing => IsInjective(Keys(pattern)))
           /\ ~r.matches => r.parameters = {}
           /\ r.matches => \E cut : /\ Along(path, pattern, cut)
                                    /\ capturing => r.parameters = Caught(path, pattern, cut, 1)
<1> DEFINE at == There(1, 1, {}, 0)
<1>1. at.i = 1 /\ at.j = 1 /\ at.parameters = {} /\ at.i - 1 = 0
    BY DEF There
<1>2. Told(path, pattern, capturing, at, r)
    BY SearchTells
<1> HIDE DEF at
<1>3. r.matches <=> Leads(path, pattern, 1, 1) /\ Unspent(pattern, capturing, at)
    BY <1>1, <1>2 DEF Told
<1>4. Unspent(pattern, capturing, at) <=> (capturing => IsInjective(Keys(pattern)))
    BY <1>1, FreshFromTheStart DEF Unspent
<1>5. Accounted(path, pattern, capturing, at, r)
    BY <1>2 DEF Told
<1>6. ~r.matches => r.parameters = {}
    BY <1>5 DEF Accounted, Failure
<1>7. ASSUME r.matches
      PROVE  \E cut : /\ Along(path, pattern, cut)
                      /\ capturing => r.parameters = Caught(path, pattern, cut, 1)
    <2>1. PICK cut : /\ CutFrom(Ways(path, pattern), Len(pattern), Len(path), 1, 0, cut)
                     /\ r.parameters = IF capturing THEN {} \cup Caught(path, pattern, cut, 1) ELSE {}
        BY <1>1, <1>5, <1>7 DEF Accounted
    <2>2. Along(path, pattern, cut)
        BY <2>1, AlongAre
    <2>3. capturing => r.parameters = Caught(path, pattern, cut, 1)
        BY <2>1
    <2> QED BY <2>2, <2>3
<1> QED BY <1>3, <1>4, <1>6, <1>7, LeadsMeans

LEMMA MatchesExactly ==
    ASSUME uri \in Segmented \ {<<>>}, template \in Segmented \ {<<>>}
    PROVE  MatchIsExact
<1>1. PICK path, pattern \in Segmented : path = Trimmed(uri) /\ pattern = Trimmed(template)
    BY TrimmedTyped
<1>2. PICK checked : checked = MatchPathSegments(path, pattern, FALSE)
    OBVIOUS
<1>3. PICK found : found = MatchPathSegments(path, pattern, TRUE)
    OBVIOUS
<1>4. checked.matches <=> Means(path, pattern)
    BY <1>2, MatchTold
<1>5. /\ found.matches <=> Means(path, pattern) /\ IsInjective(Keys(pattern))
      /\ ~found.matches => found.parameters = {}
      /\ found.matches => \E cut : /\ Along(path, pattern, cut)
                                   /\ found.parameters = Caught(path, pattern, cut, 1)
    <2>1. PICK yes \in BOOLEAN : yes = TRUE
        OBVIOUS
    <2>2. found = MatchPathSegments(path, pattern, yes)
        BY <1>3, <2>1
    <2>3. /\ found.matches <=> Means(path, pattern) /\ (yes => IsInjective(Keys(pattern)))
          /\ ~found.matches => found.parameters = {}
          /\ found.matches => \E cut : /\ Along(path, pattern, cut)
                                       /\ yes => found.parameters = Caught(path, pattern, cut, 1)
        BY <2>2, MatchTold
    <2> QED BY <2>1, <2>3
<1>6. /\ MatchUri(uri, template, TRUE) = found /\ Parameters(uri, template) = found.parameters
      /\ CheckUriPattern(uri, template) = checked.matches
    BY <1>1, <1>2, <1>3 DEF MatchUri, Parameters, CheckUriPattern
<1>7. MatchIsAsMeant
    BY <1>1, <1>4, <1>6 DEF MatchIsAsMeant
<1>8. ASSUME found.matches
      PROVE  /\ {c.key : c \in found.parameters} = Range(Keys(pattern))
             /\ (\A i \in DOMAIN path : path[i] # <<>>) => Substituted(pattern, found.parameters) = path
    <2>1. PICK cut : Along(path, pattern, cut) /\ found.parameters = Caught(path, pattern, cut, 1)
        BY <1>5, <1>8
    <2>2. Fresh(pattern, {}, 1)
        BY <1>5, <1>8, FreshFromTheStart
    <2>3. {c.key : c \in found.parameters} = Range(Keys(pattern))
        BY <2>1, KeysAre
    <2>4. ASSUME \A i \in DOMAIN path : path[i] # <<>>
          PROVE  Substituted(pattern, found.parameters) = path
        <3>1. DOMAIN pattern = 1..Len(pattern) /\ Len(pattern) \in Nat
            BY LenProperties DEF Segmented
        <3>2. \A k \in 1..Len(pattern) : Text(pattern, found.parameters, k) = Piece(path, cut, k)
            BY <2>1, <2>2, <2>4, TextIs
        <3>3. [k \in DOMAIN pattern |-> Text(pattern, found.parameters, k)]
                = [k \in 1..Len(pattern) |-> Piece(path, cut, k)]
            BY <3>1, <3>2
        <3>4. cut \in Cuts(Len(pattern), Len(path))
            BY <2>1 DEF Along
        <3> QED BY <3>1, <3>3, <3>4, PiecesMakeIt DEF Substituted
    <2> QED BY <2>3, <2>4
<1>9. CapturesGiveThePath
    BY <1>1, <1>4, <1>5, <1>6, <1>8 DEF CapturesGiveThePath
<1> QED BY <1>7, <1>9 DEF MatchIsExact

\* Whatever the path and the pattern of a call are, the match finds a way if and only if
\* there is one, and its parameters give the path back: matchPathSegments and
\* segmentMatchesGlob of HandlerMatcher.cpp.
THEOREM MatchesAreExact == MatcherSpec => []MatchIsExact
<1> DEFINE Texts == uri \in Segmented \ {<<>>} /\ template \in Segmented \ {<<>>}
<1>1. MatcherInit => Texts
    BY LookupsAssumption DEF MatcherInit, Segmented
<1>2. Texts /\ [MatcherNext]_<<uri, template>> => Texts'
    BY DEF MatcherNext
<1>3. Texts => MatchIsExact
    BY MatchesExactly
<1> QED BY <1>1, <1>2, <1>3, PTL DEF MatcherSpec
=============================================================================
