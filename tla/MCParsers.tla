------------------------------ MODULE MCParsers ------------------------------
(***************************************************************************)
(* Everything that takes input apart: llhttp, the RequestParser it calls     *)
(* back, the parser of WebSocket frames and the parser of multipart bodies.  *)
(* A behaviour is one of one component; the others keep their first values   *)
(* (0 stands for none), so that one run of TLC looks at all of them.         *)
(***************************************************************************)
EXTENDS MCRequestParser, MCFrameCodec, Multipart

VARIABLES
    component,      \* the one this behaviour is about
    \* LLHttp
    script, bytes, place, state, header_state, flags, content_length, verb, http, upgrade, told

Requests == INSTANCE MCLLHttp WITH Limit <- 20
SomeRequests == Requests!SomeRequests
LL == INSTANCE LLHttp WITH Limit <- 20, Scripts <- SomeRequests, wire <- bytes, at <- place,
                                method <- verb

\* Parts without data, as small as what is kept back for a delimiter, and larger than a piece;
\* headers that are larger than the buffer
Part == [named : BOOLEAN, head : {1}, size : {0, 1, 3, 8}]
Named(head, size) == [named |-> TRUE, head |-> head, size |-> size]
SomeForms == {<<p>> : p \in Part} \cup (Part \X Part) \cup
             {<<Named(1, 1), Named(1, 0), Named(1, 1)>>, <<Named(2, 3), Named(15, 1), Named(3, 1)>>}

requestVars == <<script, bytes, place, state, header_state, flags, content_length, verb, http,
                 upgrade, told>>

NoRequest == /\ script = 0 /\ bytes = 0 /\ place = 0 /\ state = 0 /\ header_state = 0 /\ flags = 0
             /\ content_length = 0 /\ verb = 0 /\ http = 0 /\ upgrade = 0 /\ told = 0
NoForm == /\ form = <<>> /\ body = <<>> /\ fed = 0 /\ window = <<>> /\ parsingHeaders = TRUE
          /\ partName = 0 /\ partStarted = FALSE /\ answered = FALSE /\ events = <<>> /\ dropped = 0

NoFrames == Starts([toServer |-> TRUE, frames |-> <<>>])

ParsersInit ==
    /\ Init
    /\ \/ component = "RequestParser" /\ NoRequest /\ NoFrames /\ NoForm
       \/ component = "LLHttp" /\ LL!LLHttpInit /\ NoFrames /\ NoForm
       \/ component = "FrameCodec" /\ NoRequest /\ FrameInit /\ NoForm
       \/ component = "Multipart" /\ NoRequest /\ NoFrames /\ MultipartInit

ParsersNext ==
    /\ UNCHANGED component
    /\ \/ component = "RequestParser" /\ Next
          /\ UNCHANGED <<requestVars, codecVars, multipartVars>>
       \/ component = "LLHttp" /\ LL!LLHttpNext
          /\ UNCHANGED <<vars, codecVars, multipartVars>>
       \/ component = "FrameCodec" /\ FrameNext
          /\ UNCHANGED <<vars, requestVars, multipartVars>>
       \/ component = "Multipart" /\ MultipartNext
          /\ UNCHANGED <<vars, requestVars, codecVars>>

ParsersSpec ==
    ParsersInit /\ [][ParsersNext]_<<component, vars, requestVars, codecVars, multipartVars>>

-----------------------------------------------------------------------------
(* The properties of the components that are not extended *)

\* llhttp: the server takes a request to be exactly the bytes its sender means it to be.
RequestsAreFramed == component = "LLHttp" => LL!RequestsAreFramed

\* llhttp: a request that is in order is not turned down, and is complete with its last byte.
GoodRequestsAreTaken == component = "LLHttp" => LL!GoodRequestsAreTaken
=============================================================================
