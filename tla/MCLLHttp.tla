------------------------------ MODULE MCLLHttp ------------------------------
(***************************************************************************)
(* The requests LLHttp is checked with: every part of a request is varied    *)
(* on its own, right and wrong, and headers that concern the framing are     *)
(* combined by twos and threes.  A body is as long as the headers announce,  *)
(* and the first word of another request comes behind it.                    *)
(*                                                                           *)
(* Left out, because symbols cannot tell them from something else: an empty  *)
(* target of CONNECT before a protocol, a line end within a value.           *)
(***************************************************************************)
EXTENDS HttpMessages

UpTo(n, symbols) == UNION {[1..k -> symbols] : k \in 0..n}
H(name, value) == [name |-> <<name>>, value |-> value]
Http(version) == <<" ", "HTTP/", version, CR, LF>>
Basis == [method |-> "GET", target |-> <<"/">>, rest |-> Http("1.1"), headers |-> <<>>,
          body |-> 0, chunks |-> <<>>, trailers |-> <<>>, next |-> <<"GET">>]

(* Request lines *)

Targets ==
    (UpTo(3, {"/", "x", "?", "#", "@", "bad"}) \ {<<>>}) \cup
    {<<"x", ":", "/", "/">> \o t : t \in UpTo(3, {"x", "@", "/", "?", "#"})} \cup
    {<<"x", "x", ":", "/", "x">>}
Rests ==
    {<<CR, LF>>, <<LF>>, <<CR, CR, LF>>, <<" ", "HTTP/", "1.1", LF>>,
     <<" ", "HTTP/", "1.1", CR, LF, " ">>} \cup
    {<<" ", p, v, CR, LF>> : p \in {"HTTP/", "RTSP/", "ICE/", "x"}, v \in Versions \cup {"x"}}
Lines ==
    {[Basis EXCEPT !.target = t, !.method = m] : t \in Targets, m \in {"GET", "CONNECT"}} \cup
    {[Basis EXCEPT !.target = <<>>, !.method = m, !.rest = <<CR, LF>>] : m \in {"GET", "CONNECT"}} \cup
    {[Basis EXCEPT !.method = m, !.rest = r] : m \in DOMAIN Protocols \cup {"x"}, r \in Rests}

(* Headers *)

C(digits, extension, size) == [digits |-> digits, extension |-> extension, size |-> size]
End == <<C(<<"0">>, <<>>, 0)>>

\* A body as the headers announce it
Framed(s) ==
    IF IsChunked(s) THEN [s EXCEPT !.chunks = <<C(<<"3">>, <<>>, 3)>> \o End]
    ELSE [s EXCEPT !.body = IF HeadFault(s) THEN 1 ELSE Length(s)]

Values(name) ==
    CASE name = "content-length"    -> UpTo(4, {"1", "9", " ", "x"})
      [] name = "transfer-encoding" -> UpTo(4, {"chunked", " ", ",", "x"})
      [] name = "connection"        -> UpTo(4, {"close", "keep-alive", ",", "x", " "})
      [] name = "upgrade"           -> UpTo(4, {"x", "bad", CR})
      [] name = "x"                 -> UpTo(2, {"x", LF})
SingleHeaders ==
    UNION {{Framed([Basis EXCEPT !.headers = <<H(n, v)>>]) : v \in Values(n)} : n \in KnownFields \cup {"x"}} \cup
    {Framed([Basis EXCEPT !.headers = <<[name |-> n, value |-> <<"1">>]>>]) :
        n \in UpTo(2, {"content-length", "x", " ", "bad"})}

GoodHeaders ==
    {H("transfer-encoding", v) : v \in {<<"chunked">>, <<>>, <<"x">>, <<"x", ",", " ", "chunked">>}} \cup
    {H("content-length", <<"1">>), H("content-length", <<"0">>), H("connection", <<"keep-alive">>),
     H("connection", <<"upgrade", ",", " ", "close">>), H("upgrade", <<"x">>), H("x", <<"x", " ", "x">>)}
Twos ==
    {Framed([Basis EXCEPT !.headers = <<a, b>>, !.rest = r, !.method = m]) :
        a \in GoodHeaders, b \in GoodHeaders, r \in {Http("1.0"), Http("1.1"), <<CR, LF>>},
        m \in {"GET", "CONNECT"}}
Threes == {Framed([Basis EXCEPT !.headers = h]) : h \in [1..3 -> GoodHeaders]}

(* Chunked bodies *)

ChunkedBasis == [Basis EXCEPT !.headers = <<H("transfer-encoding", <<"chunked">>)>>]
Extensions ==
    ProperExtensions \cup {<<";">> \o e : e \in UpTo(4, {"x", "=", "quote", "backslash", ";", " ", "bad"})}
    \cup {<<";", "x", "=", "quote", e, "quote">> : e \in {CR, LF}}
Bodies ==
    {End, <<C(<<"1">>, <<>>, 1), C(<<"1", "3">>, <<>>, 19)>> \o End} \cup
    {<<C(d, <<>>, n)>> \o End : d \in UpTo(3, {"0", "1", "3", "4", "f"}), n \in {1, 3}} \cup
    {<<C(<<"1">>, e, 1)>> \o End : e \in Extensions}
ChunkedOnes ==
    {[ChunkedBasis EXCEPT !.chunks = c] : c \in Bodies} \cup
    {[ChunkedBasis EXCEPT !.chunks = <<C(<<"3">>, <<>>, 3)>> \o End, !.trailers = <<t>>] : t \in GoodHeaders}

SomeRequests == Lines \cup SingleHeaders \cup Twos \cup Threes \cup ChunkedOnes
=============================================================================
