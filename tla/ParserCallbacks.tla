--------------------------- MODULE ParserCallbacks ---------------------------
(***************************************************************************)
(* What RequestParser and llhttp have agreed on: the order in which llhttp   *)
(* calls the parser back.                                                    *)
(***************************************************************************)

\* Where llhttp is when a message is over
Ends == {"start", "closed", "upgraded"}

\* What llhttp expects, the callback that tells that it was there, and what it expects then.
\* A request of HTTP/0.9 has no version; that trailers begin is not told.
Order ==
    {<<"start", "on_message_begin", "method">>, <<"method", "on_method", "url">>,
     <<"url", "on_url", "version">>, <<"url", "on_url", "field">>, <<"version", "on_version", "field">>,
     <<"field", "on_header_field", "value">>, <<"value", "on_header_value", "field">>,
     <<"field", "on_headers_complete", "body">>, <<"body", "on_body", "body">>,
     <<"body", "none", "trailer field">>,
     <<"trailer field", "on_header_field", "trailer value">>,
     <<"trailer value", "on_header_value", "trailer field">>} \cup
    ({"body", "trailer field"} \X {"on_message_complete"} \X Ends)
=============================================================================
