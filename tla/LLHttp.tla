------------------------------- MODULE LLHttp -------------------------------
(***************************************************************************)
(* llhttp (src/llhttp/src/llhttp.c, http.c), as RequestParser sets it up: a  *)
(* parser for requests, no lenient flag set, callbacks that return zero.     *)
(*                                                                           *)
(* It is the part of the server that decides where a message and its body    *)
(* end.  A variable named state holds the generated state machine's state;   *)
(* an action is what the machine does in it with the byte at hand, a goto    *)
(* without p++ leaves the byte for the next state.  Where the input is cut   *)
(* makes no difference to the machine: it resumes in the state it was in.    *)
(*                                                                           *)
(* Limit is one more than content_length holds.  Letter case, tabs, methods  *)
(* that behave like GET and the PRI preface are left out, and so is what a   *)
(* header name that is cut short in the middle of a known one does.          *)
(***************************************************************************)
EXTENDS HttpMessages, ParserCallbacks

CONSTANT Scripts    \* what clients send (environment): see HeadOf and TailOf

VARIABLES
    script,         \* what this client sends
    wire,           \* its symbols
    at,             \* how many of them are consumed
    state,          \* _current
    header_state,   \* the known header being parsed, or the last word of its value
    flags,          \* flags
    content_length, \* content_length, of the body or of a chunk
    method, http,   \* method; http_major and http_minor
    upgrade,        \* upgrade
    told            \* history: the last callback, bytes of the body, where the message ended

llhttpVars == <<script, wire, at, state, header_state, flags, content_length, method, http,
                upgrade, told>>

-----------------------------------------------------------------------------
(* The machine's means *)

Byte == wire[at + 1]
In(s) == state = s /\ at < Len(wire)

Eats(next)   == state' = next /\ at' = at + 1
Passes(next) == state' = next /\ at' = at
Rejects      == state' = "error" /\ at' = at
Or(next, symbols) == IF Byte \in symbols THEN Eats(next) ELSE Rejects

Calls(callback) == told' = [told EXCEPT !.call = callback]

sent   == <<script, wire>>
header == <<header_state, flags>>
line   == <<method, http>>
Frame  == UNCHANGED <<sent, header, content_length, line, upgrade, told>>

\* llhttp__internal__c_mul_add_content_length
Appended(radix, digit) ==
    LET product == content_length * radix
        overflow == content_length > (Limit - 1) \div radix \/ product > Limit - 1 - digit
    IN  [overflow |-> overflow, value |-> IF overflow THEN content_length ELSE product + digit]

Counts(radix, next) ==
    LET sum == Appended(radix, DigitOf(Byte)) IN
    /\ content_length' = sum.value
    /\ IF sum.overflow THEN Rejects ELSE Eats(next)
    /\ UNCHANGED <<sent, header, line, upgrade, told>>

-----------------------------------------------------------------------------
(* The request line *)

Start ==
    /\ In("start")
    /\ IF Byte \in {CR, LF} THEN Eats("start") /\ UNCHANGED told
                            ELSE Passes("start_req") /\ Calls("on_message_begin")
    /\ UNCHANGED <<sent, header, content_length, line, upgrade>>

Method ==
    /\ In("start_req")
    /\ IF Byte \in DOMAIN Protocols
       THEN Eats("req_first_space") /\ method' = Byte /\ Calls("on_method")
       ELSE Rejects /\ UNCHANGED <<method, told>>
    /\ UNCHANGED <<sent, header, content_length, http, upgrade>>

SpacesBeforeUrl ==
    /\ \/ In("req_first_space") /\ Or("req_spaces", {" "})
       \/ In("req_spaces") /\ IF Byte = " " THEN Eats("req_spaces")
                              ELSE Passes(IF method = "CONNECT" THEN "url_server" ELSE "url_start")
    /\ Frame

UrlStart == CASE Byte \in {"/", "*"} -> "url_path" [] Byte = "x" -> "url_schema" [] OTHER -> "error"
UrlSchema == CASE Byte = "x" -> "url_schema" [] Byte = ":" -> "url_delim" [] OTHER -> "error"
UrlServer == CASE Byte \in {"x", ":", "*"} -> state [] Byte = "/" -> "url_path"
               [] Byte = "?" -> "url_query"
               [] Byte = "@" /\ state = "url_server" -> "url_server_with_at" [] OTHER -> "error"
UrlPath == CASE Byte = "?" -> "url_query" [] Byte = "#" -> "url_fragment"
             [] Byte = "bad" -> "error" [] OTHER -> "url_path"
UrlQuery == CASE Byte = "#" -> "url_fragment" [] Byte = "bad" -> "error" [] OTHER -> "url_query"
UrlFragment == IF Byte = "bad" THEN "error" ELSE "url_fragment"
UrlDelimiter(next) == IF Byte = "/" THEN next ELSE "error"

NextInUrl ==
    CASE state = "url_start"   -> UrlStart
      [] state = "url_schema"  -> UrlSchema
      [] state = "url_delim"   -> UrlDelimiter("url_delim_1")
      [] state = "url_delim_1" -> UrlDelimiter("url_server")
      [] state = "url_path"    -> UrlPath
      [] state = "url_query"   -> UrlQuery
      [] state = "url_fragment" -> UrlFragment
      [] OTHER -> UrlServer

UrlBeginnings == {"url_start", "url_schema", "url_delim", "url_delim_1"}
UrlStates == UrlBeginnings \cup {"url_server", "url_server_with_at", "url_path", "url_query", "url_fragment"}

Url ==
    /\ \E s \in UrlStates : In(s)
    /\ Byte \notin {" ", CR, LF} \/ state \in UrlBeginnings
    /\ IF Byte \in {" ", CR, LF} \/ NextInUrl = "error" THEN Rejects ELSE Eats(NextInUrl)
    /\ Frame

\* A URL that ends its line makes the request one of HTTP/0.9.
UrlEnds ==
    /\ \/ \E s \in UrlStates \ UrlBeginnings : In(s) /\
             Passes(CASE Byte = " " -> "url_skip_to_http" [] Byte = CR -> "url_skip_lf_to_http09"
                      [] Byte = LF -> "url_skip_to_http09" [] OTHER -> state)
          /\ Byte \in {" ", CR, LF} /\ UNCHANGED <<http, told>>
       \/ In("url_skip_to_http") /\ Eats("req_http_start") /\ Calls("on_url") /\ UNCHANGED http
       \/ In("url_skip_lf_to_http09") /\ Eats("url_skip_lf_to_http09_1") /\ UNCHANGED <<http, told>>
       \/ In("url_skip_lf_to_http09_1") /\ Or("url_to_http09", {LF}) /\ UNCHANGED <<http, told>>
       \/ In("url_skip_to_http09") /\ Eats("url_to_http09") /\ UNCHANGED <<http, told>>
       \/ In("url_to_http09") /\ Passes("headers_start") /\ http' = "0.9" /\ Calls("on_url")
    /\ UNCHANGED <<sent, header, content_length, method, upgrade>>

Protocol ==
    /\ In("req_http_start")
    /\ IF Byte = " " THEN Eats("req_http_start") ELSE Or("req_http_major", Protocols[method])
    /\ Frame

Version ==
    /\ In("req_http_major")
    /\ IF Byte \in Versions THEN http' = Byte /\ Eats("req_http_complete") /\ Calls("on_version")
                            ELSE Rejects /\ UNCHANGED <<http, told>>
    /\ UNCHANGED <<sent, header, content_length, method, upgrade>>

LineEnds ==
    /\ \/ In("req_http_complete") /\ Or("req_http_complete_crlf", {CR})
       \/ In("req_http_complete_crlf") /\ Or("headers_start", {LF})
       \/ In("headers_start") /\ IF Byte = " " THEN Rejects ELSE Passes("header_field_start")
    /\ Frame

-----------------------------------------------------------------------------
(* Header fields *)

FieldStart ==
    /\ In("header_field_start")
    /\ CASE Byte = CR -> Eats("headers_almost_done")
         [] Byte \in {LF, ":"} -> Rejects
         [] OTHER -> Passes("header_field")
    /\ Frame

\* The name is one of the known ones only if it ends where they do.
Field ==
    /\ \/ In("header_field") /\ Byte \in KnownFields /\ Eats("header_field_colon")
          /\ header_state' = Byte
       \/ In("header_field") /\ Byte \notin KnownFields /\ Passes("header_field_general")
          /\ header_state' = "general"
       \/ In("header_field_colon") /\ Byte # ":" /\ header_state' = "general"
          /\ IF Byte = " " THEN Rejects ELSE Passes("header_field_general")
       \/ In("header_field_general") /\ Byte # ":" /\ Or("header_field_general", TokenSymbols)
          /\ UNCHANGED header_state
    /\ UNCHANGED <<sent, flags, content_length, line, upgrade, told>>

\* Mutant of Excluded: only the length that follows the encoding is refused.
BugOneOrder == header_state = "content-length" /\ "TRANSFER_ENCODING" \in flags

\* A message has a length or a transfer encoding.
Excluded ==
    \/ header_state = "content-length" /\ "TRANSFER_ENCODING" \in flags
    \/ header_state = "transfer-encoding" /\ "CONTENT_LENGTH" \in flags

FieldEnds ==
    /\ In("header_field_colon") \/ In("header_field_general")
    /\ Byte = ":"
    /\ IF Excluded THEN Rejects ELSE Eats("header_value_discard_ws")
    /\ Calls("on_header_field")
    /\ UNCHANGED <<sent, header, content_length, line, upgrade>>

-----------------------------------------------------------------------------
(* Header values *)

\* The flag of the word a value ends with, or that a comma follows
FlagOf(word) ==
    CASE word = "keep-alive" -> {"CONNECTION_KEEP_ALIVE"} [] word = "close" -> {"CONNECTION_CLOSE"}
      [] word = "to upgrade" -> {"CONNECTION_UPGRADE"} [] word = "chunked" -> {"CHUNKED"}
      [] OTHER -> {}
WordOf(symbol) == IF symbol = "upgrade" THEN "to upgrade" ELSE symbol

\* A value without bytes sets no flag; a length must have some.
DiscardSpace ==
    /\ \/ In("header_value_discard_ws") /\ Byte \in {" ", CR}
          /\ Eats(IF Byte = " " THEN state ELSE "header_value_discard_ws_almost_done")
          /\ UNCHANGED told
       \/ In("header_value_discard_ws") /\ Byte = LF /\ Rejects /\ UNCHANGED told
       \/ In("header_value_discard_ws_almost_done") /\ Or("header_value_discard_lws", {LF})
          /\ UNCHANGED told
       \/ In("header_value_discard_lws") /\ Calls("on_header_value")
          /\ IF Byte = " " \/ header_state = "content-length" THEN Rejects
                                                              ELSE Passes("header_field_start")
    /\ UNCHANGED <<sent, header, content_length, line, upgrade>>

\* invoke_load_header_state_3: where the value goes, and the flags it sets by being there
Valued ==
    CASE header_state = "connection" -> <<"header_value_connection", flags>>
      [] header_state = "content-length" ->
            <<IF "CONTENT_LENGTH" \in flags THEN "error" ELSE "header_value_content_length", flags>>
      [] header_state = "transfer-encoding" /\ "CHUNKED" \in flags -> <<"error", flags>>
      [] header_state = "transfer-encoding" /\ "CHUNKED" \notin flags ->
            <<"header_value_te_chunked", flags \cup {"TRANSFER_ENCODING"}>>
      [] header_state = "upgrade" -> <<"header_value", flags \cup {"UPGRADE"}>>
      [] OTHER -> <<"header_value", flags>>

ValueStarts ==
    /\ In("header_value_discard_ws") /\ Byte \notin {" ", CR, LF}
    /\ Passes(Valued[1]) /\ flags' = Valued[2]
    /\ UNCHANGED <<sent, header_state, content_length, line, upgrade, told>>

Connection ==
    /\ \/ In("header_value_connection") /\ Byte = " " /\ Eats(state) /\ UNCHANGED header
       \/ In("header_value_connection") /\ Byte \in ConnectionWords
          /\ Eats("header_value_connection_ws") /\ header_state' = WordOf(Byte) /\ UNCHANGED flags
       \/ In("header_value_connection") /\ Byte \notin ConnectionWords \cup {" "}
          /\ Passes("header_value_connection_token") /\ UNCHANGED header
       \/ In("header_value_connection_ws") /\ Byte \in {CR, LF} /\ Passes("header_value_otherwise")
          /\ UNCHANGED header
       \/ In("header_value_connection_ws") /\ Byte = " " /\ Eats(state) /\ UNCHANGED header
       \/ In("header_value_connection_ws") /\ Byte = "," /\ Eats("header_value_connection")
          /\ flags' = flags \cup FlagOf(header_state) /\ header_state' = "connection"
       \/ In("header_value_connection_ws") /\ Byte \notin {CR, LF, " ", ","}
          /\ Passes("header_value_connection_token") /\ header_state' = "general" /\ UNCHANGED flags
       \/ In("header_value_connection_token") /\ Byte = "," /\ Eats("header_value_connection")
          /\ UNCHANGED header
       \/ In("header_value_connection_token") /\ Byte \in TextSymbols \ {","} /\ Eats(state)
          /\ UNCHANGED header
       \/ In("header_value_connection_token") /\ Byte \notin TextSymbols
          /\ Passes("header_value_otherwise") /\ UNCHANGED header
    /\ UNCHANGED <<sent, content_length, line, upgrade, told>>

ContentLengthDigit ==
    /\ In("header_value_content_length") /\ Byte \in Digits
    /\ Counts(10, "header_value_content_length")

ContentLengthEnds ==
    /\ \/ In("header_value_content_length") /\ Byte \notin Digits
          /\ Passes("header_value_content_length_ws") /\ UNCHANGED flags
       \/ In("header_value_content_length_ws") /\ Byte \notin {CR, LF} /\ Or(state, {" "})
          /\ UNCHANGED flags
       \/ In("header_value_content_length_ws") /\ Byte \in {CR, LF}
          /\ Passes("header_value_otherwise") /\ flags' = flags \cup {"CONTENT_LENGTH"}
    /\ UNCHANGED <<sent, header_state, content_length, line, upgrade, told>>

\* Mutant of AfterChunked: what follows the coding makes no difference.
BugChunkedPrefix == "header_value"

\* Where a coding goes on that begins like chunked
AfterChunked == "header_value_te_token"

\* Chunked counts as the last coding, and as nothing else.
TransferEncoding ==
    /\ \/ In("header_value_te_chunked")
          /\ UNCHANGED header
          /\ IF Byte = "chunked" THEN Eats("header_value_te_chunked_last")
                                 ELSE Passes("header_value_te_token")
       \/ In("header_value_te_chunked_last") /\ Byte \in {CR, LF}
          /\ Passes("header_value_otherwise") /\ header_state' = "chunked" /\ UNCHANGED flags
       \/ In("header_value_te_chunked_last") /\ Byte = " " /\ Eats(state) /\ UNCHANGED header
       \/ In("header_value_te_chunked_last") /\ Byte = "," /\ Rejects /\ UNCHANGED header
       \/ In("header_value_te_chunked_last") /\ Byte \notin {CR, LF, " ", ","}
          /\ Passes(AfterChunked) /\ UNCHANGED header
       \/ In("header_value_te_token") /\ Byte = "," /\ Eats("header_value_te_token_ows")
          /\ UNCHANGED header
       \/ In("header_value_te_token") /\ Byte \in TextSymbols \ {","} /\ Eats(state)
          /\ UNCHANGED header
       \/ In("header_value_te_token") /\ Byte \notin TextSymbols
          /\ Passes("header_value") /\ header_state' = "general" /\ UNCHANGED flags
       \/ In("header_value_te_token_ows") /\ UNCHANGED header
          /\ IF Byte = " " THEN Eats(state) ELSE Passes("header_value_te_chunked")
    /\ UNCHANGED <<sent, content_length, line, upgrade, told>>

ValueText ==
    /\ \/ In("header_value")
          /\ IF Byte \in TextSymbols THEN Eats(state) ELSE Passes("header_value_otherwise")
       \/ In("header_value_otherwise") /\ Or("header_value_almost_done", {CR})
       \/ In("header_value_almost_done") /\ Or("header_value_lws", {LF})
    /\ Frame

\* A line that begins with a blank would continue the value.
ValueEnds ==
    /\ In("header_value_lws")
    /\ IF Byte = " " THEN Rejects /\ UNCHANGED <<flags, told>>
                     ELSE /\ Passes("header_field_start")
                          /\ flags' = flags \cup FlagOf(header_state)
                          /\ Calls("on_header_value")
    /\ UNCHANGED <<sent, header_state, content_length, line, upgrade>>

-----------------------------------------------------------------------------
(* The end of the headers *)

\* llhttp__before_headers_complete
Upgrades == {"UPGRADE", "CONNECTION_UPGRADE"} \subseteq flags \/ method = "CONNECT"

\* llhttp__after_headers_complete for a request
AfterHeaders ==
    IF Upgrades /\ (method = "CONNECT" \/ ~("CHUNKED" \in flags \/ content_length > 0)) THEN "pause"
    ELSE IF "CHUNKED" \in flags THEN "chunk_size_digit"
    ELSE IF "TRANSFER_ENCODING" \in flags THEN "error"
    ELSE IF "CONTENT_LENGTH" \in flags /\ content_length > 0 THEN "consume_content_length_1"
    ELSE "after_message_complete"

Completed == told' = [told EXCEPT !.call = "on_message_complete", !.end = at']

\* The same line ends the headers and the trailers.
HeadersEnd ==
    /\ In("headers_almost_done") /\ Byte = LF
    /\ "TRAILING" \notin flags
    /\ at' = at + 1
    /\ upgrade' = Upgrades
    /\ state' = AfterHeaders
    /\ content_length' = IF "CHUNKED" \in flags THEN 0 ELSE content_length
    /\ IF AfterHeaders \in {"pause", "after_message_complete"}
       THEN Completed ELSE Calls("on_headers_complete")
    /\ UNCHANGED <<sent, header, line>>

TrailersEnd ==
    /\ In("headers_almost_done") /\ Byte = LF
    /\ "TRAILING" \in flags
    /\ Eats("is_equal_upgrade") /\ Completed
    /\ UNCHANGED <<sent, header, content_length, line, upgrade>>

HeadersBreak ==
    /\ In("headers_almost_done") /\ Byte # LF
    /\ Rejects /\ Frame

-----------------------------------------------------------------------------
(* The body *)

\* One byte of a body or of a chunk; the last one ends it.
Consumes(next) ==
    /\ at' = at + 1
    /\ content_length' = content_length - 1
    /\ state' = IF content_length' = 0 THEN next ELSE state

Body ==
    /\ In("consume_content_length_1")
    /\ Consumes("is_equal_upgrade")
    /\ told' = [told EXCEPT !.body = @ + 1, !.call = IF content_length' = 0 THEN "on_message_complete" ELSE "on_body",
                            !.end = IF content_length' = 0 THEN at' ELSE 0]
    /\ UNCHANGED <<sent, header, line, upgrade>>

ChunkBody ==
    /\ In("consume_content_length")
    /\ Consumes("chunk_data_almost_done")
    /\ told' = [told EXCEPT !.body = @ + 1, !.call = "on_body"]
    /\ UNCHANGED <<sent, header, line, upgrade>>

ChunkDataEnds ==
    /\ \/ In("chunk_data_almost_done") /\ Or("chunk_data_almost_done_1", {CR})
          /\ UNCHANGED content_length
       \/ In("chunk_data_almost_done_1") /\ Or("chunk_size_digit", {LF}) /\ content_length' = 0
    /\ UNCHANGED <<sent, header, line, upgrade, told>>

ChunkSizeDigit ==
    /\ In("chunk_size_digit") \/ In("chunk_size")
    /\ Byte \in HexDigits
    /\ Counts(16, "chunk_size")

ChunkSizeOtherwise ==
    /\ In("chunk_size_digit") \/ In("chunk_size")
    /\ Byte \notin HexDigits
    /\ CASE state = "chunk_size" /\ Byte = CR -> Eats("chunk_size_almost_done")
         [] state = "chunk_size" /\ Byte = ";" -> Eats("chunk_extensions")
         [] OTHER -> Rejects
    /\ Frame

ChunkSizeEnds ==
    /\ In("chunk_size_almost_done")
    /\ Or(IF content_length = 0 THEN "header_field_start" ELSE "consume_content_length", {LF})
    /\ flags' = IF content_length = 0 /\ Byte = LF THEN flags \cup {"TRAILING"} ELSE flags
    /\ UNCHANGED <<sent, header_state, content_length, line, upgrade, told>>

ExtensionName ==
    /\ \/ In("chunk_extensions") /\ IF Byte \in {CR, " "} THEN Rejects ELSE Passes("chunk_extension_name")
       \/ In("chunk_extension_name") /\
             CASE Byte \in TokenSymbols -> Eats(state) [] Byte = "=" -> Eats("chunk_extension_value")
               [] Byte = ";" -> Eats("chunk_extensions") [] Byte = CR -> Eats("chunk_size_almost_done")
               [] OTHER -> Rejects
    /\ Frame

ExtensionValue ==
    /\ In("chunk_extension_value")
    /\ CASE Byte \in TokenSymbols -> Eats(state) [] Byte = "quote" -> Eats("chunk_extension_quoted_value")
         [] Byte = ";" -> Eats("chunk_extensions") [] Byte = CR -> Eats("chunk_size_almost_done")
         [] OTHER -> Rejects
    /\ Frame

Quoted == TextSymbols

ExtensionQuoted ==
    /\ \/ In("chunk_extension_quoted_value") /\
             CASE Byte = "quote" -> Eats("chunk_extension_quoted_value_done")
               [] Byte = "backslash" -> Eats("chunk_extension_quoted_value_quoted_pair")
               [] Byte \in Quoted \ {"quote", "backslash"} -> Eats(state)
               [] OTHER -> Rejects
       \/ In("chunk_extension_quoted_value_quoted_pair") /\ Or("chunk_extension_quoted_value", TextSymbols)
       \/ In("chunk_extension_quoted_value_done") /\
             CASE Byte = CR -> Eats("chunk_size_almost_done") [] Byte = ";" -> Eats("chunk_extensions")
               [] OTHER -> Rejects
    /\ Frame

-----------------------------------------------------------------------------
(* The end of the message *)

\* llhttp_should_keep_alive: only 1.1 has both numbers above zero.
ShouldKeepAlive == IF http = "1.1" THEN "CONNECTION_CLOSE" \notin flags
                                   ELSE "CONNECTION_KEEP_ALIVE" \in flags

\* These states look at no byte.
MessageEnds ==
    /\ \/ state = "is_equal_upgrade"
          /\ Passes(IF upgrade THEN "pause" ELSE "after_message_complete")
          /\ UNCHANGED <<flags, content_length>>
       \/ state = "after_message_complete"
          /\ Passes(IF ShouldKeepAlive THEN "start" ELSE "closed")
          /\ flags' = {}
          /\ content_length' = IF ShouldKeepAlive THEN 0 ELSE content_length
    /\ UNCHANGED <<sent, header_state, line, upgrade, told>>

Closed ==
    /\ In("closed")
    /\ Or("closed", {CR, LF})
    /\ Frame

-----------------------------------------------------------------------------
(* The specification *)

LLHttpInit ==
    /\ script \in Scripts
    /\ wire = HeadOf(script) \o TailOf(script) \o script.next
    /\ at = 0 /\ state = "start" /\ header_state = "general" /\ flags = {}
    /\ content_length = 0 /\ method = "none" /\ http = "none" /\ upgrade = FALSE
    /\ told = [call |-> "none", body |-> 0, end |-> 0]

LLHttpNext ==
    \/ Start \/ Method \/ SpacesBeforeUrl \/ Url \/ UrlEnds \/ Protocol \/ Version \/ LineEnds
    \/ FieldStart \/ Field \/ FieldEnds
    \/ DiscardSpace \/ ValueStarts \/ Connection \/ ContentLengthDigit \/ ContentLengthEnds
    \/ TransferEncoding \/ ValueText \/ ValueEnds
    \/ HeadersEnd \/ TrailersEnd \/ HeadersBreak
    \/ Body \/ ChunkBody \/ ChunkDataEnds \/ ChunkSizeDigit \/ ChunkSizeOtherwise \/ ChunkSizeEnds
    \/ ExtensionName \/ ExtensionValue \/ ExtensionQuoted
    \/ MessageEnds \/ Closed

LLHttpSpec == LLHttpInit /\ [][LLHttpNext]_llhttpVars

-----------------------------------------------------------------------------
(* Properties *)

\* The server takes a request to be exactly the bytes its sender means it to be: it ends
\* where the sender's length or last chunk ends it, its body has as many bytes, and the
\* bytes behind it are a new request, nothing, or another protocol, as both sides understand
\* the Connection and Upgrade headers.  A request that contradicts itself is never taken.
RequestsAreFramed ==
    /\ told.body > 0 => ~HeadFault(script) /\ (told.body <= BodySize(script) \/ TailFault(script))
    /\ told.end > 0 =>
         /\ ~Faulty(script)
         /\ told.end = MessageLength(script)
         /\ told.body = BodySize(script)
         /\ state \in {"is_equal_upgrade", "after_message_complete"} \cup
                IF WantsUpgrade(script) THEN {"pause"}
                ELSE IF StaysOpen(script) THEN {"start", "start_req", "req_first_space"}
                ELSE {"closed", "error"}

\* What the machine expects, in the words of ParserCallbacks
UrlEndings == {"url_skip_to_http", "url_skip_lf_to_http09", "url_skip_lf_to_http09_1", "url_skip_to_http09",
               "url_to_http09"}
FieldStates == {"req_http_complete", "req_http_complete_crlf", "headers_start", "header_field_start",
                "header_field", "header_field_colon", "header_field_general", "headers_almost_done"}
ValueStates == {"header_value_discard_ws", "header_value_discard_ws_almost_done", "header_value_discard_lws",
                "header_value_connection", "header_value_connection_ws", "header_value_connection_token",
                "header_value_content_length", "header_value_content_length_ws", "header_value_te_chunked",
                "header_value_te_chunked_last", "header_value_te_token", "header_value_te_token_ows",
                "header_value", "header_value_otherwise", "header_value_almost_done", "header_value_lws"}
ChunkStates == {"chunk_size_digit", "chunk_size", "chunk_size_almost_done", "chunk_extensions",
                "chunk_extension_name", "chunk_extension_value", "chunk_extension_quoted_value",
                "chunk_extension_quoted_value_quoted_pair", "chunk_extension_quoted_value_done",
                "consume_content_length", "chunk_data_almost_done", "chunk_data_almost_done_1"}
Awaits ==
    CASE state = "start_req" -> "method"
      [] state \in {"req_first_space", "req_spaces"} \cup UrlStates \cup UrlEndings -> "url"
      [] state \in {"req_http_start", "req_http_major"} -> "version"
      [] state \in FieldStates -> IF "TRAILING" \in flags THEN "trailer field" ELSE "field"
      [] state \in ValueStates -> IF "TRAILING" \in flags THEN "trailer value" ELSE "value"
      [] state \in ChunkStates \cup {"consume_content_length_1"} -> "body"
      [] state = "pause" \/ (state = "is_equal_upgrade" /\ upgrade) -> "upgraded"
      [] state = "after_message_complete" \/ (state = "is_equal_upgrade" /\ ~upgrade) ->
            IF ShouldKeepAlive THEN "start" ELSE "closed"
      [] OTHER -> state

\* llhttp calls back in the order that RequestParser relies on: where it goes on without an
\* error, each callback takes it to what has been agreed.  The end of the headers and of a
\* message without a body are told in one step.
CallsInOrder ==
    [][\/ told'.call = told.call /\ Awaits' = Awaits
       \/ told'.call = told.call /\ <<Awaits, "none", Awaits'>> \in Order
       \/ <<Awaits, told'.call, Awaits'>> \in Order
       \/ <<Awaits, "on_headers_complete", "body">> \in Order /\ <<"body", told'.call, Awaits'>> \in Order
       \/ Awaits' = "error"]_llhttpVars

\* The body of a request is framed in one way: never by a length and by a transfer coding,
\* by chunks only if chunked is the coding, and by a length only if one was given; and no
\* length is ever more than what holds it.  This is so of all bytes that come.
OneFraming ==
    /\ content_length \in 0..Limit - 1
    /\ ~({"CONTENT_LENGTH", "TRANSFER_ENCODING"} \subseteq flags)
    /\ state = "consume_content_length_1" =>
         "CONTENT_LENGTH" \in flags /\ "TRANSFER_ENCODING" \notin flags /\ content_length > 0
    /\ state \in ChunkStates \/ "TRAILING" \in flags =>
         {"CHUNKED", "TRANSFER_ENCODING"} \subseteq flags /\ "CONTENT_LENGTH" \notin flags

\* A request that is in order is taken: it is not turned down, and once all of its bytes
\* are in, it is complete.
GoodRequestsAreTaken ==
    state = "error" \/ at = Len(wire) =>
        \/ Faulty(script) \/ Dubious(script)
        \/ told.end > 0 /\ (state = "error" => ~StaysOpen(script))
        \/ state # "error" /\ Len(wire) < MessageLength(script)
=============================================================================
