----------------------------- MODULE MCResponse -----------------------------
(***************************************************************************)
(* The streams a response is read through: its framing with the pipeline as  *)
(* the reader (ResponseStream), the filter that replaces variables in its    *)
(* text, and the encoders and decoders.  A behaviour is one of one           *)
(* component; the others keep their first values, so that one run of TLC     *)
(* looks at all of them.                                                     *)
(***************************************************************************)
EXTENDS ResponseStream, ReplaceVariables, Transcoding

VARIABLE component     \* the one this behaviour is about

UpTo(n, symbols) == UNION {[1..k -> symbols] : k \in 0..n}

(* ReplaceVariables: delimiters that begin alike, overlap the text or themselves, and tokens
   that are just too long *)

Option(prefix, suffix, room, drop) ==
    [prefix |-> prefix, suffix |-> suffix, maxTokenBytes |-> room,
     replaceWithEmpty |-> drop, restrictToText |-> ~drop]
SomeOptions ==
    {Option(<<"a", "a">>, <<"b", "b">>, 3, FALSE), Option(<<"a">>, <<"b">>, 2, TRUE),
     Option(<<"a", "b">>, <<"b">>, 2, FALSE), Option(<<"a", "b", "a">>, <<"a", "a", "b">>, 4, FALSE)}
SomeValues == {[key |-> <<"c">>, value |-> <<"a", "c", "c">>]}
Plain == [status |-> "200", contentEncoding |-> "absent", transferEncoding |-> "absent",
          contentType |-> "text", contentLength |-> TRUE]
SomeCases ==
    [options : SomeOptions, body : UNION {[1..k -> {"a", "b", "c"}] : k \in {5, 6}}, response : {Plain}] \cup
    [options : SomeOptions, body : {<<"a", "c", "b", "b">>},
     response : {[Plain EXCEPT !.contentEncoding = e, !.contentType = t, !.status = s] :
                    e \in {"identity", "gzip"}, t \in {"text", "binary"}, s \in {"200", "304"}}]
(* Transcoding: bytes with all bits, no bits and some; the characters of the syntax *)

Words == UpTo(1, {65, 37, 38, 61})
SomeSources ==
    [kind : {"base64", "decode64"}, data : UpTo(5, {0, 77, 255})] \cup
    [kind : {"uri", "decodeUri"}, data : UpTo(3, {65, 37, 43, 32, 127})] \cup
    [kind : {"form"}, data : UpTo(2, [key : Words, value : Words])]

NoResponse == Init /\ response = [bodyless |-> TRUE, hasBody |-> FALSE, length |-> FALSE,
                                  chunked |-> FALSE, total |-> 0]
NoFilter == /\ options = Option(<<>>, <<>>, 0, FALSE) /\ text = <<>> /\ page = Plain /\ filtered = FALSE
            /\ Unread
NoCodec == /\ kind = "uri" /\ data = <<>> /\ inner = <<>> /\ buffer = <<>>
           /\ state = "Normal" /\ delivered = <<>> /\ ended = FALSE

StreamsInit ==
    \/ component = "ResponseStream" /\ Init /\ NoFilter /\ NoCodec
    \/ component = "ReplaceVariables" /\ NoResponse /\ ReplaceInit /\ NoCodec
    \/ component = "Transcoding" /\ NoResponse /\ NoFilter /\ TranscodingInit

StreamsNext ==
    /\ UNCHANGED component
    /\ \/ component = "ResponseStream" /\ Next /\ UNCHANGED <<replaceVars, transcodingVars>>
       \/ component = "ReplaceVariables" /\ ReplaceNext /\ UNCHANGED <<vars, transcodingVars>>
       \/ component = "Transcoding" /\ TranscodingNext /\ UNCHANGED <<vars, replaceVars>>

\* The fairness of ResponseStream!FairSpec
StreamsSpec ==
    /\ StreamsInit /\ [][StreamsNext]_<<component, vars, replaceVars, transcodingVars>>
    /\ WF_vars(component = "ResponseStream" /\ Pipeline)

\* A response whose body comes to its end is sent to its end.
ResponseIsSent == component = "ResponseStream" => IsSent
=============================================================================
