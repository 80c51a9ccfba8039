------------------------------ MODULE MCRequest ------------------------------
(***************************************************************************)
(* The way of a request to its response: the choice of a handler (Routing,   *)
(* with HandlerMatcher as the matcher of its patterns), the matcher on its   *)
(* own, the file that StaticFiles answers with, and the handler at work      *)
(* (RequestHandling).  A behaviour is one of one component; the others keep  *)
(* their first values (0 stands for none), so that one run of TLC looks at   *)
(* all of them.                                                              *)
(***************************************************************************)
EXTENDS RequestHandling, MCRouting, StaticFiles, HandlerMatcher

VARIABLE component     \* the one this behaviour is about

(* HandlerMatcher *)

SomeCharacters == ToSet(Digits) \cup {"a", "b", "*", ":", "?"}
UpTo(n, symbols) == UNION {[1..k -> symbols] : k \in 1..n}
Segments == {<<>>, <<"a">>, <<"a", "b">>}
PatternSegments ==
    {<<>>, <<"a">>, <<"b">>, <<"*", "*">>, <<"*">>, <<"a", "*">>, <<"*", "a">>,
     <<":", "a">>, <<":", "b">>, <<":", "0">>, <<":">>, <<":", "?">>}

\* Short paths and any pattern; longer ones where the parts of a path may be shared out among
\* two "**"; one segment and one with several "*"
SomeLookups ==
    [uri : UpTo(3, Segments), template : UpTo(2, PatternSegments)] \cup
    [uri : UpTo(3, {<<>>, <<"a">>}), template : [1..3 -> PatternSegments \ {<<"b">>, <<":">>, <<":", "?">>}]] \cup
    [uri : UpTo(5, {<<>>, <<"a">>}), template : [1..3 -> {<<"*", "*">>, <<"a">>, <<":", "a">>}]] \cup
    [uri : {<<s>> : s \in UpTo(4, {"a", "b"})}, template : {<<p>> : p \in UpTo(5, {"a", "b", "*"})}]

(* StaticFiles: the builder's locator for what begins with "/a" but not "/api", its page
   outside of that; two roots in an aggregate, with a rule; the default prefixes and no page *)

Entry(path, suffixes, directory) == [path |-> path, suffixes |-> suffixes, directory |-> directory]
Www(name) == <<"www", name>>
SomeEntries ==
    {Entry(Www("a"), s, FALSE) : s \in {<<>>, <<"br">>, <<"gz">>, <<"gz", "br">>}} \cup
    {Entry(Www("a"), <<>>, TRUE), Entry(Www("a"), <<"br">>, TRUE),
     Entry(<<"www", "a", "index.html">>, <<"gz">>, FALSE),
     Entry(Www("404.html"), <<>>, FALSE), Entry(<<"old", "a">>, <<"br">>, FALSE),
     Entry(Www("apidocs"), <<>>, FALSE)}
SomeDisks ==
    {d \in SUBSET SomeEntries :
        \A e \in d : ~e.directory \/ [e EXCEPT !.directory = FALSE] \notin d}
Target(path, suffixes) == [path |-> path, suffixes |-> suffixes]
SomeCalls ==
    [target : {Target(p, <<>>) : p \in {<<"", "a">>, <<"", "a", "">>, <<"", "", "a">>, <<"", "api", "x">>,
                                        <<"", "apidocs">>, <<"", "b">>, <<"", "c">>}}
                \cup {Target(<<"", "a">>, <<"gz">>)},
     method : {"GET"}]
    \cup [target : {Target(<<"", "a">>, <<>>)}, method : {"POST"}]
BeginsWith(text, beginning) ==
    beginning \in {"", text} \/ <<text, beginning>> \in {<<"api", "a">>, <<"apidocs", "a">>, <<"apidocs", "api">>}
Root(name, include) == [include |-> include, exclude |-> <<"", "api">>, root |-> <<name>>]
Page == Target(<<"", "404.html">>, <<>>)
Site(locators, notFound, restricted) ==
    [locators |-> locators, aggregate |-> Len(locators) > 1, notFound |-> notFound, restricted |-> restricted]
SomeSites ==
    {Site(<<Root("www", <<"", "a">>)>>, Page, {}),
     Site(<<Root("www", <<"", "">>), Root("old", <<>>)>>, Page, {<<"", "b">>}),
     Site(<<Root("www", <<"", "">>)>>, NoFile, {})}
NoBody  == Init /\ size = 0 /\ ~declared
NoMatch == uri = <<<<>>>> /\ template = <<<<>>>>
NoCall  ==
    /\ site = Site(<<Root("www", <<>>)>>, NoFile, {}) /\ disk = {}
    /\ call = [target |-> Page, method |-> "GET"]

RequestInit ==
    \/ component = "RequestHandling" /\ Init /\ RoutingInit /\ NoMatch /\ NoCall
    \/ component = "Routing" /\ NoBody /\ RoutingInit /\ NoMatch /\ NoCall
    \/ component = "HandlerMatcher" /\ NoBody /\ RoutingInit /\ MatcherInit /\ NoCall
    \/ component = "StaticFiles" /\ NoBody /\ RoutingInit /\ NoMatch /\ StaticInit

RequestNext ==
    /\ UNCHANGED component
    /\ \/ component = "RequestHandling" /\ Next /\ UNCHANGED <<routingVars, uri, template, staticVars>>
       \/ component = "Routing" /\ RoutingNext /\ UNCHANGED <<vars, uri, template, staticVars>>
       \/ component = "HandlerMatcher" /\ MatcherNext /\ UNCHANGED <<vars, routingVars, staticVars>>
       \/ component = "StaticFiles" /\ StaticNext /\ UNCHANGED <<vars, routingVars, uri, template>>

RequestSpec == RequestInit /\ [][RequestNext]_<<component, vars, routingVars, uri, template, staticVars>>

=============================================================================
