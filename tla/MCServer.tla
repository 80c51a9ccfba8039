------------------------------- MODULE MCServer -------------------------------
(***************************************************************************)
(* The server's loop over its connections, and the session of an upgraded    *)
(* one.  A behaviour is one of one component, as in MCParsers: of the other,  *)
(* a session that was dropped at once, or a server that never begins.         *)
(***************************************************************************)
EXTENDS WebSocketSession, HttpServer

VARIABLE component      \* the one this behaviour is about

NoSession ==
    /\ pc = "ended" /\ verdict = "Dropped"
    /\ closeState = "Open" /\ context = "Handshaking"
    /\ pending = "Handshake" /\ handshakeWritten = FALSE
    /\ received = FALSE /\ openNotified = FALSE /\ closeNotified = FALSE
    /\ expecting = FALSE /\ stuck = FALSE /\ assembling = FALSE /\ left = 0
    /\ connected = TRUE /\ unread = 0 /\ expired = FALSE /\ closeWritten = FALSE

MCInit ==
    /\ ServerInit
    /\ \/ component = "HttpServer" /\ NoSession
       \/ component = "WebSocketSession" /\ Init

MCNext ==
    /\ UNCHANGED component
    /\ \/ component = "HttpServer" /\ ServerNext /\ UNCHANGED vars
       \/ component = "WebSocketSession" /\ Next /\ UNCHANGED serverVars

\* The loop of a server that never begins makes passes over nothing; they are left out.
MCSpec ==
    /\ MCInit /\ [][MCNext]_<<component, vars, serverVars>>
    /\ Fairness
    /\ WF_serverVars(component = "HttpServer" /\ Loop)
    /\ \A c \in Connections : SF_serverVars(Erase(c))
=============================================================================
