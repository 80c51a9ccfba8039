-------------------------- MODULE HttpServerProofs --------------------------
(***************************************************************************)
(* The server's loop, for any set of connections and any limit: what its    *)
(* vector holds, and whom a pass services.                                  *)
(***************************************************************************)
EXTENDS HttpServer, SequenceTheorems, TLAPS

-----------------------------------------------------------------------------
(* Sequences that hold each element once *)

Distinct(s) == \A m, n \in 1..Len(s) : s[m] = s[n] => m = n
From(s, p, c) == \E n \in p..Len(s) : s[n] = c

\* RemoveAt takes one element out and lets those behind it move up.
LEMMA RemoveAtProperties ==
    ASSUME NEW S, NEW s \in Seq(S), NEW p \in 1..Len(s)
    PROVE  /\ RemoveAt(s, p) \in Seq(S)
           /\ Len(RemoveAt(s, p)) = Len(s) - 1
           /\ \A n \in 1..(Len(s) - 1) : RemoveAt(s, p)[n] = IF n < p THEN s[n] ELSE s[n + 1]
<1> DEFINE before == SubSeq(s, 1, p - 1)
           behind == SubSeq(s, p + 1, Len(s))
<1>1. /\ Len(s) \in Nat /\ p \in Int /\ p - 1 \in Int /\ p + 1 \in Int /\ Len(s) \in Int
      /\ \A n \in 1..Len(s) : s[n] \in S
  BY LenProperties, ElementOfSeq
<1>2. /\ before \in Seq(S) /\ Len(before) = p - 1
      /\ \A n \in 1..(p - 1) : before[n] = s[n]
  <2>1. \A n \in 1..(p - 1) : s[n] \in S
    BY <1>1
  <2>2. /\ before \in Seq(S)
        /\ Len(before) = IF 1 <= p - 1 THEN (p - 1) - 1 + 1 ELSE 0
        /\ \A n \in 1..((p - 1) - 1 + 1) : before[n] = s[1 + n - 1]
    BY <1>1, <2>1, SubSeqProperties
  <2> HIDE DEF before
  <2> QED
    BY <1>1, <2>2
<1>3. /\ behind \in Seq(S) /\ Len(behind) = Len(s) - p
      /\ \A n \in 1..(Len(s) - p) : behind[n] = s[p + n]
  <2>1. \A n \in (p + 1)..Len(s) : s[n] \in S
    BY <1>1
  <2>2. /\ behind \in Seq(S)
        /\ Len(behind) = IF p + 1 <= Len(s) THEN Len(s) - (p + 1) + 1 ELSE 0
        /\ \A n \in 1..(Len(s) - (p + 1) + 1) : behind[n] = s[(p + 1) + n - 1]
    BY <1>1, <2>1, SubSeqProperties
  <2> HIDE DEF behind
  <2> QED
    BY <1>1, <2>2
<1>4. RemoveAt(s, p) = before \o behind
  BY DEF RemoveAt
<1> HIDE DEF before, behind
<1>5. /\ before \o behind \in Seq(S) /\ Len(before \o behind) = Len(before) + Len(behind)
      /\ \A n \in 1..(Len(before) + Len(behind)) :
            (before \o behind)[n] = IF n <= Len(before) THEN before[n] ELSE behind[n - Len(before)]
  BY <1>2, <1>3, ConcatProperties
<1> QED
  BY <1>1, <1>2, <1>3, <1>4, <1>5

\* Who is still there after an element has been taken out: all but that one, and behind it
\* the same as before.
LEMMA Removing ==
    ASSUME NEW S, NEW s \in Seq(S), Distinct(s), NEW p \in 1..Len(s), NEW r, r = RemoveAt(s, p)
    PROVE  /\ Distinct(r)
           /\ \A c : From(r, 1, c) <=> From(s, 1, c) /\ c # s[p]
           /\ \A c : From(r, p, c) <=> From(s, p, c) /\ c # s[p]
<1>1. /\ Len(s) \in Nat /\ Len(r) = Len(s) - 1
      /\ \A n \in 1..(Len(s) - 1) : r[n] = IF n < p THEN s[n] ELSE s[n + 1]
  BY RemoveAtProperties, LenProperties
<1>2. Distinct(r)
  BY <1>1 DEF Distinct
<1>3. ASSUME NEW c, NEW q \in {1, p}
      PROVE  From(r, q, c) <=> From(s, q, c) /\ c # s[p]
  <2>1. ASSUME NEW n \in q..Len(r), r[n] = c
        PROVE  From(s, q, c) /\ c # s[p]
    <3>1. CASE n < p
      BY <1>1, <2>1, <3>1 DEF From, Distinct
    <3>2. CASE ~ n < p
      BY <1>1, <2>1, <3>2 DEF From, Distinct
    <3> QED
      BY <3>1, <3>2
  <2>2. ASSUME NEW n \in q..Len(s), s[n] = c, c # s[p]
        PROVE  From(r, q, c)
    <3>1. CASE n < p
      BY <1>1, <2>2, <3>1 DEF From
    <3>2. CASE n > p
      <4>1. n - 1 \in q..Len(r) /\ r[n - 1] = c
        BY <1>1, <2>2, <3>2
      <4> QED
        BY <4>1 DEF From
    <3> QED
      BY <2>2, <3>1, <3>2
  <2> QED
    BY <2>1, <2>2 DEF From
<1> QED
  BY <1>2, <1>3

LEMMA Appending ==
    ASSUME NEW S, NEW s \in Seq(S), Distinct(s), NEW e \in S, ~ From(s, 1, e), NEW r, r = Append(s, e)
    PROVE  /\ r \in Seq(S) /\ Len(r) = Len(s) + 1
           /\ Distinct(r)
           /\ \A c : From(r, 1, c) <=> From(s, 1, c) \/ c = e
<1>1. /\ Len(s) \in Nat /\ r \in Seq(S) /\ Len(r) = Len(s) + 1 /\ r[Len(s) + 1] = e
      /\ \A n \in 1..Len(s) : r[n] = s[n]
  BY AppendProperties, LenProperties
<1>2. Distinct(r)
  BY <1>1 DEF Distinct, From
<1>3. ASSUME NEW c
      PROVE  From(r, 1, c) <=> From(s, 1, c) \/ c = e
  <2>1. From(r, 1, c) => From(s, 1, c) \/ c = e
    BY <1>1 DEF From
  <2>2. From(s, 1, c) => From(r, 1, c)
    BY <1>1 DEF From
  <2>3. c = e => From(r, 1, c)
    BY <1>1 DEF From
  <2> QED
    BY <2>1, <2>2, <2>3
<1> QED
  BY <1>1, <1>2, <1>3

LEMMA TakingHead ==
    ASSUME NEW S, NEW s \in Seq(S), Distinct(s), s # <<>>, NEW r, r = Tail(s)
    PROVE  /\ r \in Seq(S) /\ Head(s) \in S /\ From(s, 1, Head(s))
           /\ Distinct(r)
           /\ \A c : From(r, 1, c) <=> From(s, 1, c) /\ c # Head(s)
<1>1. /\ Len(s) \in Nat /\ Len(s) > 0 /\ r \in Seq(S) /\ Len(r) = Len(s) - 1 /\ Head(s) = s[1]
      /\ s[1] \in S
      /\ \A n \in 1..Len(r) : r[n] = s[n + 1]
  BY HeadTailProperties, LenProperties, EmptySeq, ElementOfSeq
<1>2. Distinct(r)
  BY <1>1 DEF Distinct
<1>3. ASSUME NEW c
      PROVE  From(r, 1, c) <=> From(s, 1, c) /\ c # Head(s)
  <2>1. ASSUME NEW n \in 1..Len(r), r[n] = c
        PROVE  From(s, 1, c) /\ c # Head(s)
    BY <1>1, <2>1 DEF From, Distinct
  <2>2. ASSUME NEW n \in 1..Len(s), s[n] = c, c # Head(s)
        PROVE  From(r, 1, c)
    <3>1. n - 1 \in 1..Len(r) /\ r[n - 1] = c
      BY <1>1, <2>2
    <3> QED
      BY <3>1 DEF From
  <2> QED
    BY <2>1, <2>2 DEF From
<1>4. From(s, 1, Head(s))
  BY <1>1 DEF From
<1> QED
  BY <1>1, <1>2, <1>3, <1>4

-----------------------------------------------------------------------------
(* The inductive invariant *)

InSlots(c)   == From(slots, 1, c)
InBacklog(c) == From(backlog, 1, c)

\* Who is in the vector has a pipeline, who waits is in the queue of the socket, and both
\* hold them once.
Places ==
    /\ Len(slots) <= MaxConcurrent
    /\ Distinct(slots) /\ Distinct(backlog)
    /\ \A c \in Connections : HasPipeline(c) <=> InSlots(c)
    /\ \A c \in Connections : phase[c] = "Waiting" <=> InBacklog(c)

\* In the middle of a pass, who was there when it began stands at the index or behind it and
\* has not been serviced, or has been, once.
Passing ==
    stage = "service" =>
        /\ due \subseteq Connections
        /\ \A n \in i..Len(slots) : slots[n] \in due
        /\ \A c \in due : served[c] = IF From(slots, i, c) THEN 0 ELSE 1

Inv == ServerTypeOK /\ Places /\ Passing

LEMMA Initially == ServerInit => Inv
<1> SUFFICES ASSUME ServerInit PROVE Inv
  OBVIOUS
<1>1. slots \in Seq(Connections) /\ backlog \in Seq(Connections) /\ Len(slots) = 0 /\ Len(backlog) = 0
  BY EmptySeq DEF ServerInit
<1>2. ServerTypeOK
  <2>1. phase \in [Connections -> Phases] /\ outcome \in [Connections -> Verdicts]
    BY DEF ServerInit, Phases, Verdicts
  <2>2. told \in [Connections -> BOOLEAN] /\ served \in [Connections -> 0..2] /\ due \subseteq Connections
    BY DEF ServerInit
  <2>3. i \in 1..Len(slots) + 1
    BY <1>1 DEF ServerInit
  <2>4. stage \in {"idle", "accept", "service"} /\ running \in BOOLEAN
    BY DEF ServerInit
  <2> QED
    BY <1>1, <2>1, <2>2, <2>3, <2>4 DEF ServerTypeOK
<1>3. Places
  BY <1>1, MaxConcurrentAssumption
     DEF ServerInit, Places, Distinct, InSlots, InBacklog, From, HasPipeline
<1> QED
  BY <1>2, <1>3 DEF ServerInit, Inv, Passing

\* A step inside a call leaves the connection its pipeline.
LEMMA ProgressKeeps ==
    ASSUME NEW c \in Connections, ServerTypeOK, Progress(c)
    PROVE  /\ phase' \in [Connections -> Phases]
           /\ \A d \in Connections : d # c => phase'[d] = phase[d]
           /\ HasPipeline(c) /\ phase[c] # "Waiting" /\ HasPipeline(c)' /\ phase'[c] # "Waiting"
<1>1. PICK p \in Phases : phase' = [phase EXCEPT ![c] = p]
  BY DEF Progress, Moves
<1>2. InsideCall(c)
  BY DEF Progress
<1> QED
  BY <1>1, <1>2 DEF InsideCall, Conn!Respond, Conn!Upgrade, Conn!NextRequest, Conn!End, Conn!TimeOut,
                    Conn!EndsFromOutside, Conn!Live, ServerTypeOK, Phases, HasPipeline

\* The step that ends a call for good takes the pipeline from the connection.
LEMMA EraseFrees ==
    ASSUME NEW c \in Connections, ServerTypeOK, Erase(c)
    PROVE  /\ phase' \in [Connections -> Phases]
           /\ \A d \in Connections : d # c => phase'[d] = phase[d]
           /\ phase[c] # "Waiting" /\ ~ HasPipeline(c)' /\ phase'[c] # "Waiting"
<1>1. PICK p \in Phases : phase' = [phase EXCEPT ![c] = p]
  BY DEF Erase, Moves
<1>2. EndOfCall(c)
  BY DEF Erase
<1> QED
  BY <1>1, <1>2 DEF EndOfCall, Conn!Removed, Conn!RemovedLive, Conn!EndsFromOutside, Conn!Live, Conn!Ends,
                    ServerTypeOK, Phases, HasPipeline

\* What is said of a connection, and of what it is in, when a step moves nobody else.
LEMMA PlacesKept ==
    ASSUME Places, slots' = slots, backlog' = backlog, NEW c \in Connections,
           \A d \in Connections : d # c => phase'[d] = phase[d],
           HasPipeline(c) <=> HasPipeline(c)', phase[c] = "Waiting" <=> phase'[c] = "Waiting"
    PROVE  Places'
BY SMTT(30) DEF Places, Distinct, InSlots, InBacklog, From, HasPipeline

LEMMA Inductive == Inv /\ [ServerNext]_serverVars => Inv'
<1> SUFFICES ASSUME Inv, [ServerNext]_serverVars PROVE Inv'
  OBVIOUS
<1>0. /\ slots \in Seq(Connections) /\ backlog \in Seq(Connections)
      /\ Len(slots) \in Nat /\ Len(backlog) \in Nat /\ i \in Nat /\ i >= 1 /\ i <= Len(slots) + 1
      /\ \A n \in 1..Len(slots) : slots[n] \in Connections
  BY LenProperties, ElementOfSeq DEF Inv, ServerTypeOK
<1>1. ASSUME NEW c \in Connections, Connect(c)
      PROVE  Inv'
  <2>1. ~ InBacklog(c) /\ phase[c] = "Away" /\ phase' = [phase EXCEPT ![c] = "Waiting"]
    BY <1>1 DEF Connect, Inv, Places
  <2>2. /\ backlog' \in Seq(Connections)
        /\ Distinct(backlog')
        /\ \A d : From(backlog', 1, d) <=> From(backlog, 1, d) \/ d = c
    BY <1>0, <1>1, <2>1, Appending DEF Connect, Inv, Places, InBacklog
  <2>3. ServerTypeOK'
    BY <1>1, <2>1, <2>2 DEF Connect, Inv, ServerTypeOK, Phases, loopVars
  <2>4. \A d \in Connections : HasPipeline(d)' <=> InSlots(d)'
    BY <1>1, <2>1 DEF Connect, Inv, Places, ServerTypeOK, HasPipeline, InSlots, From
  <2>5. \A d \in Connections : phase'[d] = "Waiting" <=> InBacklog(d)'
    BY <1>1, <2>1, <2>2 DEF Inv, Places, ServerTypeOK, InBacklog
  <2>6. Places'
    BY <1>1, <2>2, <2>4, <2>5 DEF Connect, Inv, Places, Distinct
  <2>7. Passing'
    BY <1>1 DEF Connect, Inv, Passing, loopVars, From
  <2> QED
    BY <2>3, <2>6, <2>7 DEF Inv
<1>2. CASE Accept
  <2> DEFINE c == Head(backlog)
  <2>1. /\ backlog' \in Seq(Connections) /\ c \in Connections /\ InBacklog(c)
        /\ Distinct(backlog')
        /\ \A d : From(backlog', 1, d) <=> From(backlog, 1, d) /\ d # c
    BY <1>0, <1>2, TakingHead DEF Accept, Inv, Places, InBacklog
  <2>2. PICK p \in {"Reading", "Failed"} : phase' = [phase EXCEPT ![c] = p]
    BY <1>2 DEF Accept
  <2>3. /\ slots' = Append(slots, c) /\ Len(slots) < MaxConcurrent /\ stage = "accept"
        /\ UNCHANGED <<loopVars, running, told, outcome>>
    BY <1>2 DEF Accept
  <2> HIDE DEF c
  <2>4. phase[c] = "Waiting" /\ ~ InSlots(c)
    BY <2>1 DEF Inv, Places, HasPipeline
  <2>5. /\ slots' \in Seq(Connections) /\ Len(slots') = Len(slots) + 1
        /\ Distinct(slots')
        /\ \A d : From(slots', 1, d) <=> From(slots, 1, d) \/ d = c
    <3>1. slots \in Seq(Connections) /\ Distinct(slots) /\ c \in Connections /\ ~ From(slots, 1, c)
      BY <1>0, <2>1, <2>4 DEF Inv, Places, InSlots
    <3> QED
      BY ONLY <2>3, <3>1, Appending
  <2>6. phase' \in [Connections -> Phases]
    BY <2>1, <2>2 DEF Inv, ServerTypeOK, Phases
  <2>7. ServerTypeOK'
    BY <1>0, <2>1, <2>3, <2>5, <2>6 DEF Inv, ServerTypeOK, loopVars
  <2>8. \A d \in Connections : HasPipeline(d)' <=> InSlots(d)'
    BY <2>1, <2>2, <2>5 DEF Inv, Places, ServerTypeOK, HasPipeline, InSlots
  <2>9. \A d \in Connections : phase'[d] = "Waiting" <=> InBacklog(d)'
    BY <2>1, <2>2 DEF Inv, Places, ServerTypeOK, InBacklog
  <2>10. Len(slots') <= MaxConcurrent
    BY <1>0, <2>3, <2>5, MaxConcurrentAssumption
  <2>11. Places'
    BY <2>1, <2>5, <2>8, <2>9, <2>10 DEF Places, Distinct
  <2>12. Passing'
    BY <2>3 DEF Passing, loopVars
  <2> QED
    BY <2>7, <2>11, <2>12 DEF Inv
<1>3. CASE AcceptDone
  <2>1. ServerTypeOK'
    <3>1. ToSet(slots) \subseteq Connections
      BY <1>0 DEF ToSet
    <3>2. [c \in Connections |-> 0] \in [Connections -> 0..2]
      OBVIOUS
    <3> QED
      BY <1>0, <1>3, <3>1, <3>2 DEF AcceptDone, Inv, ServerTypeOK, lifecycle
  <2>2. Places'
    BY <1>3 DEF AcceptDone, Inv, Places, Distinct, InSlots, InBacklog, From, HasPipeline, lifecycle
  <2>3. Passing'
    <3>1. /\ i' = 1 /\ slots' = slots /\ due' = ToSet(slots) /\ served' = [c \in Connections |-> 0]
      BY <1>3 DEF AcceptDone
    <3>2. \A c : c \in ToSet(slots) <=> From(slots, 1, c)
      BY <1>0 DEF ToSet, From
    <3>3. \A n \in 1..Len(slots) : slots[n] \in ToSet(slots)
      BY <3>2 DEF From
    <3>4. ToSet(slots) \subseteq Connections
      BY <1>0 DEF ToSet
    <3> QED
      BY <3>1, <3>2, <3>3, <3>4 DEF Passing, From
  <2> QED
    BY <2>1, <2>2, <2>3 DEF Inv
<1>4. CASE StartPass \/ PassEnds \/ Begin \/ UNCHANGED serverVars
  <2>1. /\ UNCHANGED <<i, due, served, backlog, slots, phase, told, outcome>>
        /\ stage' \in {"idle", "accept", "service"} /\ running' \in BOOLEAN
        /\ stage' = "service" => stage = "service"
    BY <1>4 DEF StartPass, PassEnds, Begin, serverVars, lifecycle, loopVars, Inv, ServerTypeOK
  <2>2. ServerTypeOK'
    BY <2>1 DEF Inv, ServerTypeOK
  <2>3. Places'
    BY <2>1 DEF Inv, Places, Distinct, InSlots, InBacklog, From, HasPipeline
  <2>4. Passing'
    BY <2>1 DEF Inv, Passing, From
  <2> QED
    BY <2>2, <2>3, <2>4 DEF Inv
<1>5. ASSUME NEW c \in Connections, Progress(c)
      PROVE  Inv'
  <2>1. ServerTypeOK
    BY DEF Inv
  <2>2. /\ phase' \in [Connections -> Phases]
        /\ \A d \in Connections : d # c => phase'[d] = phase[d]
        /\ HasPipeline(c) /\ phase[c] # "Waiting" /\ HasPipeline(c)' /\ phase'[c] # "Waiting"
    BY <1>5, <2>1, ProgressKeeps
  <2>3. /\ UNCHANGED <<stage, i, due, served, running, backlog, slots>>
    BY <1>5 DEF Progress, loopVars
  <2>4. told' \in [Connections -> BOOLEAN] /\ outcome' \in [Connections -> Verdicts]
    BY <1>5 DEF Progress, Moves, Inv, ServerTypeOK
  <2>5. ServerTypeOK'
    BY <2>2, <2>3, <2>4 DEF Inv, ServerTypeOK
  <2>6. Places'
    BY <2>2, <2>3, PlacesKept DEF Inv
  <2>7. Passing'
    BY <2>3 DEF Inv, Passing, From
  <2> QED
    BY <2>5, <2>6, <2>7 DEF Inv
<1>6. ASSUME NEW c \in Connections, Continue(c)
      PROVE  Inv'
  <2>1. /\ stage = "service" /\ stage' = "service" /\ i <= Len(slots) /\ slots[i] = c /\ i' = i + 1
        /\ served' = [served EXCEPT ![c] = IF @ < 2 THEN @ + 1 ELSE @]
        /\ UNCHANGED <<due, running, backlog, slots, phase, told, outcome>>
    BY <1>6 DEF Continue, InService, Serviced, lifecycle
  <2>2. ServerTypeOK'
    BY <1>0, <2>1 DEF Inv, ServerTypeOK
  <2>3. Places'
    BY <2>1 DEF Inv, Places, Distinct, InSlots, InBacklog, From, HasPipeline
  <2>4. /\ due \subseteq Connections /\ c \in due
        /\ \A n \in i..Len(slots) : slots[n] \in due
        /\ \A d \in due : served[d] = IF From(slots, i, d) THEN 0 ELSE 1
    BY <1>0, <2>1 DEF Inv, Passing
  <2>5. \A d : From(slots, i + 1, d) <=> From(slots, i, d) /\ d # c
    BY <1>0, <2>1 DEF Inv, Places, Distinct, From
  <2>6. From(slots, i, c)
    BY <1>0, <2>1 DEF From
  <2>7. \A d \in due : served'[d] = IF From(slots, i + 1, d) THEN 0 ELSE 1
    BY <2>1, <2>4, <2>5, <2>6 DEF Inv, ServerTypeOK
  <2>8. \A n \in (i')..Len(slots') : slots'[n] \in due'
    BY <1>0, <2>1, <2>4
  <2>9. Passing'
    BY <2>1, <2>4, <2>7, <2>8 DEF Passing, From
  <2> QED
    BY <2>2, <2>3, <2>9 DEF Inv
<1>7. ASSUME NEW c \in Connections, Erase(c)
      PROVE  Inv'
  <2>1. /\ stage = "service" /\ stage' = "service" /\ i' = i /\ i \in 1..Len(slots) /\ slots[i] = c
        /\ served' = [served EXCEPT ![c] = IF @ < 2 THEN @ + 1 ELSE @]
        /\ slots' = RemoveAt(slots, i)
        /\ UNCHANGED <<due, running, backlog>>
    BY <1>0, <1>7 DEF Erase, InService, Serviced
  <2>2. /\ phase' \in [Connections -> Phases]
        /\ \A d \in Connections : d # c => phase'[d] = phase[d]
        /\ phase[c] # "Waiting" /\ ~ HasPipeline(c)' /\ phase'[c] # "Waiting"
    BY <1>7, EraseFrees DEF Inv
  <2>3. told' \in [Connections -> BOOLEAN] /\ outcome' \in [Connections -> Verdicts]
    BY <1>7 DEF Erase, Moves, Inv, ServerTypeOK
  <2>4. slots' \in Seq(Connections) /\ Len(slots') = Len(slots) - 1
    BY <1>0, <2>1, RemoveAtProperties
  <2>5. /\ Distinct(slots')
        /\ \A d : From(slots', 1, d) <=> From(slots, 1, d) /\ d # c
        /\ \A d : From(slots', i, d) <=> From(slots, i, d) /\ d # c
    BY <1>0, <2>1, Removing DEF Inv, Places
  <2>6. ServerTypeOK'
    <3>1. i' \in 1..Len(slots') + 1
      BY <1>0, <2>1, <2>4
    <3>2. served' \in [Connections -> 0..2]
      BY <2>1 DEF Inv, ServerTypeOK
    <3> QED
      BY <2>1, <2>2, <2>3, <2>4, <3>1, <3>2 DEF Inv, ServerTypeOK
  <2>7. Places'
    <3>1. \A d \in Connections : HasPipeline(d)' <=> InSlots(d)'
      BY <2>2, <2>5 DEF Inv, Places, InSlots, HasPipeline
    <3>2. \A d \in Connections : phase'[d] = "Waiting" <=> InBacklog(d)'
      BY <2>1, <2>2 DEF Inv, Places, InBacklog, From
    <3>3. Distinct(backlog') /\ Len(slots') <= MaxConcurrent
      BY <1>0, <2>1, <2>4, MaxConcurrentAssumption DEF Inv, Places
    <3> QED
      BY <2>5, <3>1, <3>2, <3>3 DEF Places, Distinct
  <2>8. /\ due \subseteq Connections /\ c \in due
        /\ \A n \in i..Len(slots) : slots[n] \in due
        /\ \A d \in due : served[d] = IF From(slots, i, d) THEN 0 ELSE 1
    BY <1>0, <2>1 DEF Inv, Passing
  <2>9. From(slots, i, c)
    BY <1>0, <2>1 DEF From
  <2>10. \A d \in due : served'[d] = IF From(slots', i, d) THEN 0 ELSE 1
    BY <2>1, <2>5, <2>8, <2>9 DEF Inv, ServerTypeOK
  <2>11. \A n \in i..Len(slots') : slots'[n] \in due
    <3> SUFFICES ASSUME NEW n \in i..Len(slots') PROVE slots'[n] \in due
      OBVIOUS
    <3>1. From(slots', i, slots'[n])
      BY DEF From
    <3>2. From(slots, i, slots'[n])
      BY <2>5, <3>1
    <3> QED
      BY <2>8, <3>2 DEF From
  <2>12. Passing'
    BY <2>1, <2>8, <2>10, <2>11 DEF Passing, From
  <2> QED
    BY <2>6, <2>7, <2>12 DEF Inv
<1>8. CASE End
  <2>1. /\ stage = "idle" /\ stage' = "idle" /\ slots' = <<>> /\ backlog' = <<>> /\ i' = 1 /\ running' = FALSE
        /\ phase' = [c \in Connections |-> IF phase[c] = "Away" THEN "Away" ELSE "Gone"]
        /\ outcome' = [c \in Connections |-> IF HasPipeline(c) THEN "Dropped" ELSE outcome[c]]
        /\ UNCHANGED <<due, served, told>>
    BY <1>8 DEF End
  <2>2. slots' \in Seq(Connections) /\ backlog' \in Seq(Connections) /\ Len(slots') = 0 /\ Len(backlog') = 0
    BY <2>1, EmptySeq
  <2>3. ServerTypeOK'
    <3>1. phase' \in [Connections -> Phases] /\ outcome' \in [Connections -> Verdicts]
      BY <2>1 DEF Inv, ServerTypeOK, Phases, Verdicts
    <3>2. i' \in 1..Len(slots') + 1
      BY <2>1, <2>2
    <3> QED
      BY <2>1, <2>2, <3>1, <3>2 DEF Inv, ServerTypeOK
  <2>4. Places'
    BY <2>1, <2>2, MaxConcurrentAssumption DEF Places, Distinct, InSlots, InBacklog, From, HasPipeline
  <2> QED
    BY <2>1, <2>3, <2>4 DEF Inv, Passing
<1> QED
  BY <1>1, <1>2, <1>3, <1>4, <1>5, <1>6, <1>7, <1>8 DEF ServerNext, Loop

-----------------------------------------------------------------------------
(* Theorems *)

LEMMA Invariant == ServerSpec => []Inv
BY Initially, Inductive, PTL DEF ServerSpec

\* HttpServerBase: the vector and the listen queue hold connections, and the loop's index
\* stays within the vector or just behind it.
THEOREM TypeInvariant == ServerSpec => []ServerTypeOK
<1>1. Inv => ServerTypeOK
  BY DEF Inv
<1> QED
  BY <1>1, Invariant, PTL

\* HttpServerBase::handleClient: the vector holds the connections that have a pipeline, each
\* once and never more than the limit, whatever it accepts and erases.
THEOREM SlotsAreTheLive == ServerSpec => []SlotsHoldTheLive
<1>1. Inv => SlotsHoldTheLive
  <2> SUFFICES ASSUME Inv PROVE SlotsHoldTheLive
    OBVIOUS
  <2>1. slots \in Seq(Connections) /\ \A n \in 1..Len(slots) : slots[n] \in Connections
    BY ElementOfSeq DEF Inv, ServerTypeOK
  <2>2. \A c : c \in ToSet(slots) <=> From(slots, 1, c)
    BY <2>1, LenProperties DEF ToSet, From
  <2>3. \A c \in ToSet(slots) : c \in Connections
    BY <2>1, <2>2 DEF From
  <2> QED
    BY <2>2, <2>3 DEF Inv, Places, Distinct, InSlots, SlotsHoldTheLive
<1> QED
  BY <1>1, Invariant, PTL

\* HttpServerBase::handleClient: a pass services each connection that was there when its
\* service loop began exactly once, whoever is erased on the way.
THEOREM EveryoneIsServiced == ServerSpec => EveryoneOncePerPass
<1>1. Inv /\ [ServerNext]_serverVars => [stage = "service" /\ stage' = "idle" => \A c \in due : served[c] = 1]_serverVars
  <2> SUFFICES ASSUME Inv, ServerNext, stage = "service", stage' = "idle"
               PROVE  \A c \in due : served[c] = 1
    OBVIOUS
  <2>1. PassEnds
    BY DEF ServerNext, Loop, StartPass, Accept, AcceptDone, Continue, Begin, End, Connect, Progress, Erase,
           InService, loopVars
  <2>2. Len(slots) \in Nat /\ i \in Nat /\ i > Len(slots)
    BY <2>1, LenProperties DEF PassEnds, Inv, ServerTypeOK
  <2> QED
    BY <2>2 DEF Inv, Passing, From
<1> QED
  BY <1>1, Invariant, PTL DEF ServerSpec, EveryoneOncePerPass
=============================================================================
