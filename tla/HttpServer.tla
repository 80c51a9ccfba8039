----------------------------- MODULE HttpServer -----------------------------
(***************************************************************************)
(* The server's loop (server/HttpServerBase.cpp): it accepts connections up  *)
(* to MAX_CONCURRENT_CONNECTIONS and services each of them once per pass,    *)
(* erasing those that are done while it walks the vector.                    *)
(*                                                                           *)
(* A connection is what ConnectionLifecycle promises of it (HttpPipeline is  *)
(* shown to implement that).  It takes the steps of its lifecycle only while *)
(* the loop is inside its handleClient().  The listening socket is external: *)
(* a queue of connections that accept() takes from.                          *)
(***************************************************************************)
EXTENDS Integers, SequencesExt

CONSTANTS
    Connections,    \* every connection a client may open
    MaxConcurrent   \* MAX_CONCURRENT_CONNECTIONS

ASSUME MaxConcurrentAssumption == MaxConcurrent \in Nat \ {0}

VARIABLES
    stage,      \* "idle" between two calls of handleClient, "accept" or "service"
    running,    \* the transport has begun and not ended
    backlog,    \* connections accept() has not returned yet
    slots,      \* pipelines_
    i,          \* the index of the service loop
    phase, told, outcome,   \* the lifecycle of each connection
    due,        \* history: the connections in slots when the service loop began
    served      \* history: how often each was serviced since

lifecycle == <<phase, told, outcome>>
loopVars  == <<stage, i, due, served>>
serverVars == <<loopVars, running, backlog, slots, lifecycle>>

Conn(c) == INSTANCE ConnectionLifecycle
               WITH phase <- phase[c], told <- told[c], verdict <- outcome[c]

-----------------------------------------------------------------------------
\* Before it is accepted a connection has no pipeline: "Away", then "Waiting".
Phases   == {"Away", "Waiting", "Reading", "Writing", "Upgraded", "Completed", "Failed",
             "Aborted", "TimedOut", "Gone"}
Verdicts == {"Processing", "Completed", "ClientDisconnected", "ErroredUnrecoverably",
             "TimedOutUnrecoverably", "Aborted", "Dropped"}
HasPipeline(c) == phase[c] \notin {"Away", "Waiting", "Gone"}

\* The type of the state: the vector and the listen queue hold connections, and the
\* loop's index stays within the vector or just after it.
ServerTypeOK ==
    /\ stage \in {"idle", "accept", "service"} /\ running \in BOOLEAN
    /\ backlog \in Seq(Connections) /\ slots \in Seq(Connections)
    /\ i \in 1..Len(slots) + 1
    /\ phase \in [Connections -> Phases] /\ told \in [Connections -> BOOLEAN]
    /\ outcome \in [Connections -> Verdicts]
    /\ due \subseteq Connections /\ served \in [Connections -> 0..2]

ServerInit ==
    /\ stage = "idle" /\ running = FALSE
    /\ backlog = <<>> /\ slots = <<>> /\ i = 1
    /\ phase = [c \in Connections |-> "Away"]
    /\ told = [c \in Connections |-> FALSE]
    /\ outcome = [c \in Connections |-> "Processing"]
    /\ due = {} /\ served = [c \in Connections |-> 0]

-----------------------------------------------------------------------------
(* Clients and the listening socket *)

Connect(c) ==
    /\ running /\ phase[c] = "Away"
    /\ phase' = [phase EXCEPT ![c] = "Waiting"]
    /\ backlog' = Append(backlog, c)
    /\ UNCHANGED <<loopVars, running, slots, told, outcome>>

-----------------------------------------------------------------------------
(* handleClient: the accept loop *)

StartPass ==
    /\ stage = "idle"
    /\ stage' = "accept"
    /\ UNCHANGED <<i, due, served, running, backlog, slots, lifecycle>>

\* Mutant of Accept: one connection more than the limit.
BugOneTooMany ==
    /\ stage = "accept" /\ Len(slots) <= MaxConcurrent /\ backlog # <<>>
    /\ backlog' = Tail(backlog)
    /\ slots' = Append(slots, Head(backlog))
    /\ \E p \in {"Reading", "Failed"} : phase' = [phase EXCEPT ![Head(backlog)] = p]
    /\ UNCHANGED <<loopVars, running, told, outcome>>

\* The pipeline's constructor may find no handler and start in Error.
Accept ==
    /\ stage = "accept" /\ Len(slots) < MaxConcurrent /\ backlog # <<>>
    /\ backlog' = Tail(backlog)
    /\ slots' = Append(slots, Head(backlog))
    /\ \E p \in {"Reading", "Failed"} : phase' = [phase EXCEPT ![Head(backlog)] = p]
    /\ UNCHANGED <<loopVars, running, told, outcome>>

\* Mutant of AcceptDone: a full server returns from the call instead of leaving the loop.
BugFullReturns ==
    /\ stage = "accept"
    /\ Len(slots) >= MaxConcurrent \/ backlog = <<>>
    /\ stage' = IF Len(slots) >= MaxConcurrent THEN "idle" ELSE "service"
    /\ i' = 1
    /\ due' = ToSet(slots) /\ served' = [c \in Connections |-> 0]
    /\ UNCHANGED <<running, backlog, slots, lifecycle>>

AcceptDone ==
    /\ stage = "accept"
    /\ Len(slots) >= MaxConcurrent \/ backlog = <<>>
    /\ stage' = "service" /\ i' = 1
    /\ due' = ToSet(slots) /\ served' = [c \in Connections |-> 0]
    /\ UNCHANGED <<running, backlog, slots, lifecycle>>

-----------------------------------------------------------------------------
(* handleClient: the service loop *)

InService(c) == stage = "service" /\ i <= Len(slots) /\ slots[i] = c

\* The connection in service takes a step of its lifecycle.
Moves(c) ==
    \E p \in Phases, t \in BOOLEAN, v \in Verdicts :
        /\ phase' = [phase EXCEPT ![c] = p]
        /\ told' = [told EXCEPT ![c] = t]
        /\ outcome' = [outcome EXCEPT ![c] = v]

InsideCall(c) == Conn(c)!Respond \/ Conn(c)!Upgrade \/ Conn(c)!NextRequest \/ Conn(c)!End
                 \/ Conn(c)!TimeOut
EndOfCall(c)  == Conn(c)!Removed \/ Conn(c)!RemovedLive

Progress(c) ==
    /\ InService(c)
    /\ Moves(c) /\ InsideCall(c)
    /\ UNCHANGED <<loopVars, running, backlog, slots>>

Serviced(c) == served' = [served EXCEPT ![c] = IF @ < 2 THEN @ + 1 ELSE @]

\* The call returns Processing, which a connection that has ended never does: the
\* loop moves on.
Continue(c) ==
    /\ InService(c) /\ phase[c] \in {"Reading", "Writing", "Upgraded"}
    /\ Serviced(c)
    /\ i' = i + 1
    /\ UNCHANGED <<stage, due, running, backlog, slots, lifecycle>>

\* Mutant of Erase: the index moves on although the vector has moved up.
BugSkipsNext(c) ==
    /\ InService(c)
    /\ Moves(c) /\ EndOfCall(c)
    /\ Serviced(c)
    /\ slots' = RemoveAt(slots, i)
    /\ i' = i + 1
    /\ UNCHANGED <<stage, due, running, backlog>>

\* The call returns a final result: the pipeline is erased, the index stays.
Erase(c) ==
    /\ InService(c)
    /\ Moves(c) /\ EndOfCall(c)
    /\ Serviced(c)
    /\ slots' = RemoveAt(slots, i)
    /\ UNCHANGED <<stage, i, due, running, backlog>>

PassEnds ==
    /\ stage = "service" /\ i > Len(slots)
    /\ stage' = "idle"
    /\ UNCHANGED <<i, due, served, running, backlog, slots, lifecycle>>

-----------------------------------------------------------------------------
(* begin and end, between two calls of handleClient *)

Begin ==
    /\ stage = "idle" /\ ~running
    /\ running' = TRUE
    /\ UNCHANGED <<loopVars, backlog, slots, lifecycle>>

\* Every pipeline is destroyed as it is; the transport drops who still waits.
End ==
    /\ stage = "idle" /\ running
    /\ running' = FALSE
    /\ slots' = <<>> /\ backlog' = <<>> /\ i' = 1
    /\ phase' = [c \in Connections |-> IF phase[c] = "Away" THEN "Away" ELSE "Gone"]
    /\ outcome' = [c \in Connections |-> IF HasPipeline(c) THEN "Dropped" ELSE outcome[c]]
    /\ UNCHANGED <<stage, due, served, told>>

-----------------------------------------------------------------------------
Loop ==
    \/ StartPass \/ Accept \/ AcceptDone \/ PassEnds
    \/ \E c \in Connections : Continue(c)
ServerNext ==
    \/ Loop \/ Begin \/ End
    \/ \E c \in Connections : Connect(c) \/ Progress(c) \/ Erase(c)
ServerSpec == ServerInit /\ [][ServerNext]_serverVars

\* The application calls handleClient for ever, and a connection that is serviced
\* again and again ends: HttpPipeline's Terminates.
ServerFairness == WF_serverVars(Loop) /\ \A c \in Connections : SF_serverVars(Erase(c))

-----------------------------------------------------------------------------
(* Properties *)

\* The vector holds exactly the connections that have a pipeline, each once, and
\* never more than the limit, also while it is erased from during the walk.
SlotsHoldTheLive ==
    /\ Len(slots) <= MaxConcurrent
    /\ \A m, n \in 1..Len(slots) : slots[m] = slots[n] => m = n
    /\ ToSet(slots) = {c \in Connections : HasPipeline(c)}

\* A pass services every connection it started with, and none twice, whichever of
\* them it erases on the way.
EveryoneOncePerPass ==
    [][stage = "service" /\ stage' = "idle" => \A c \in due : served[c] = 1]_serverVars

\* A client that waits is accepted in the end, unless the server ends: no connection
\* keeps its slot for ever.
EveryoneIsAccepted ==
    \A c \in Connections : phase[c] = "Waiting" ~> phase[c] # "Waiting" \/ ~running
=============================================================================
