------------------------- MODULE ConnectionLifecycle -------------------------
(***************************************************************************)
(* What a connection promises to the server that services it, whatever the  *)
(* peer, the clock and the handlers do: it alternates between receiving a   *)
(* request and writing a response, it may become an upgraded session, it    *)
(* ends once, whoever was in charge is told when the end comes from outside *)
(* (a timeout, a disconnect), and the verdict it is removed with is the one *)
(* its end calls for.                                                       *)
(***************************************************************************)

VARIABLES
    phase,    \* "Reading", "Writing", "Upgraded", an end, or "Gone"
    told,     \* the handler or session in charge heard of a timeout or a disconnect
    verdict   \* what the server got from handleClient

Live == {"Reading", "Writing", "Upgraded"}
Ends == {"Completed", "Failed", "Aborted", "TimedOut"}

VerdictOf(p) == CASE p = "Completed" -> "Completed"
                  [] p = "Failed"    -> "ErroredUnrecoverably"
                  [] p = "Aborted"   -> "Aborted"
                  [] p = "TimedOut"  -> "TimedOutUnrecoverably"

Init ==
    /\ phase \in {"Reading", "Failed"}
    /\ told = FALSE
    /\ verdict = "Processing"

Respond == phase = "Reading" /\ phase' = "Writing" /\ UNCHANGED <<told, verdict>>
Upgrade == phase = "Reading" /\ phase' = "Upgraded" /\ UNCHANGED <<told, verdict>>

\* The response is done, or cut off from outside, and the next request is awaited.
NextRequest ==
    /\ phase \in {"Writing", "Upgraded"}
    /\ phase' = "Reading"
    /\ UNCHANGED <<told, verdict>>

\* An end from within: nobody is told.
End ==
    /\ phase \in Live
    /\ phase' \in {"Completed", "Failed", "Aborted"}
    /\ UNCHANGED <<told, verdict>>

\* An end from outside: whoever is in charge is told, once.  Only an upgraded
\* session may be one that cannot be told.
EndsFromOutside ==
    /\ phase \in Live /\ ~told
    /\ told' \in BOOLEAN
    /\ phase # "Upgraded" => told'

TimeOut == EndsFromOutside /\ phase' = "TimedOut" /\ UNCHANGED verdict

RemovedLive ==
    /\ EndsFromOutside
    /\ phase' = "Gone"
    /\ verdict' \in {"ClientDisconnected", "TimedOutUnrecoverably"}

\* Aborted from outside after it had ended, before the server saw it.
AbortEnded == phase \in Ends /\ phase' = "Aborted" /\ UNCHANGED <<told, verdict>>

\* The server learns how it ended; an end seen too late is reported as a timeout.
Removed ==
    /\ phase \in Ends
    /\ phase' = "Gone"
    /\ verdict' \in {VerdictOf(phase), "TimedOutUnrecoverably"}
    /\ UNCHANGED told

\* The server shuts down.
Dropped ==
    /\ phase # "Gone"
    /\ phase' = "Gone"
    /\ verdict' = "Dropped"
    /\ UNCHANGED told

vars == <<phase, told, verdict>>
Next == Respond \/ Upgrade \/ NextRequest \/ End \/ TimeOut \/ RemovedLive
        \/ AbortEnded \/ Removed \/ Dropped
Spec == Init /\ [][Next]_vars
=============================================================================
