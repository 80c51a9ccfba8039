------------------------------ MODULE Multipart ------------------------------
(***************************************************************************)
(* MultipartFormDataHandler (handlers/): the parts of a form, found in a    *)
(* body that arrives in pieces of any size and handed to the application    *)
(* as far as they are there.                                                *)
(*                                                                          *)
(* The unit is a byte, of which only its place is kept: byte n of the data  *)
(* of part p, byte n of a delimiter.  The headers of a part are units, of   *)
(* which the first tells its name, and one for the empty line behind them;  *)
(* a preamble counts as headers.  The boundary is as long as one byte, so a *)
(* delimiter is a line end, the boundary and two bytes more.                *)
(***************************************************************************)
EXTENDS Integers, FiniteSetsExt, SequencesExt

CONSTANTS
    Forms,      \* forms that are sent: sequences of parts [named, head, size] (environment)
    Room,       \* MULTIPART_FORM_DATA_BUFFER_SIZE
    MaxPart     \* bytes in a piece of the body (PIPELINE_STACK_BUFFER_SIZE)

ASSUME FormsAssumption ==
    /\ Forms \subseteq Seq([named : BOOLEAN, head : Nat \ {0}, size : Nat])
    /\ Room \in Nat /\ MaxPart \in Nat

VARIABLES
    form, body,         \* the form of this request, and its bytes
    fed,                \* bytes that handleBodyChunk has been given
    window,             \* buffer_ up to bufferLength_
    parsingHeaders,     \* parsingHeaders_
    partName,           \* the part that partName_ is the name of, 0 if it is empty
    partStarted,        \* partStarted_
    answered,           \* response_ is set
    events,             \* history: what the application was told
    dropped             \* history: bytes of the body that found no room

multipartVars ==
    <<form, body, fed, window, parsingHeaders, partName, partStarted, answered, events, dropped>>

-----------------------------------------------------------------------------
(* The body *)

HeadOf(p) == [n \in 1..form[p].head |->
                [kind |-> "head", part |-> IF form[p].named THEN p ELSE 0, n |-> n]]
Break == [kind |-> "break", part |-> 0, n |-> 0]
PartData(p) == [n \in 1..form[p].size |-> [kind |-> "data", part |-> p, n |-> n]]
Delimiter == [n \in 1..5 |-> [kind |-> "delimiter", part |-> 0, n |-> n]]
Matched  == SubSeq(Delimiter, 1, 3)         \* line end and boundary
Kept     == Len(Delimiter)                  \* boundary_.size() + 4

PartBytes == [p \in DOMAIN form |-> HeadOf(p) \o <<Break>> \o PartData(p) \o Delimiter]
FormBytes == FlattenSeq(PartBytes)

-----------------------------------------------------------------------------
(* One look at the buffer *)

Event(status, name, data) == [status |-> status, part |-> name, data |-> data]
NamedEvent(status, name, data) == IF name = 0 THEN <<>> ELSE <<Event(status, name, data)>>

\* parsePartHeaders: the buffer is cut behind the first empty line, and the name is that of
\* the first Content-Disposition before it.
Headed(buffer) ==
    LET breaks == {n \in DOMAIN buffer : buffer[n] = Break}
        end == Min(breaks)
        names == {n \in 1..end : buffer[n].kind = "head" /\ buffer[n].n = 1}
    IN  IF Len(buffer) < 2 \/ breaks = {} THEN [found |-> FALSE, rest |-> buffer, name |-> 0]
        ELSE [found |-> TRUE, rest |-> SubSeq(buffer, end + 1, Len(buffer)),
              name |-> IF names = {} THEN 0 ELSE buffer[Min(names)].part]

Look(buffer, headers, name, started, told) ==
    [buffer |-> buffer, headers |-> headers, name |-> name, started |-> started, told |-> told]

\* findBoundary
Boundaries(buffer) == {n \in 1..(Len(buffer) - 2) : SubSeq(buffer, n, n + 2) = Matched}

\* The end of a part is in the buffer: the part is handed over, and the next one begins
\* behind the delimiter.
AtBoundary(buffer, name, n) ==
    Look(SubSeq(buffer, n + Kept, Len(buffer)), TRUE, 0, FALSE,
         NamedEvent(IF partStarted THEN "Final" ELSE "First", name, SubSeq(buffer, 1, n - 1)))

\* Mutant of Streamed: too little is kept back for a delimiter that is not complete.
BugKeepsTooLittle(buffer, name) ==
    LET flushed == Len(buffer) - 1
    IN  Look(SubSeq(buffer, flushed + 1, Len(buffer)), FALSE, name, partStarted \/ name # 0,
             NamedEvent(IF partStarted THEN "Subsequent" ELSE "First", name, SubSeq(buffer, 1, flushed)))

\* All but what might be a part of a delimiter is handed over.
Streamed(buffer, name) ==
    LET flushed == Len(buffer) - Kept
    IN  Look(SubSeq(buffer, flushed + 1, Len(buffer)), FALSE, name, partStarted \/ name # 0,
             NamedEvent(IF partStarted THEN "Subsequent" ELSE "First", name, SubSeq(buffer, 1, flushed)))

InPart(buffer, name) ==
    IF Boundaries(buffer) # {} THEN AtBoundary(buffer, name, Min(Boundaries(buffer)))
    ELSE IF Len(buffer) > Kept THEN Streamed(buffer, name)
    ELSE Look(buffer, FALSE, name, partStarted, <<>>)

\* handleBodyChunk, after it has stored its piece: one boundary at most is looked for.
Processed(buffer) ==
    LET headed == Headed(buffer)
    IN  IF ~parsingHeaders THEN InPart(buffer, partName)
        ELSE IF headed.found THEN InPart(headed.rest, headed.name)
        ELSE Look(buffer, TRUE, partName, partStarted, <<>>)

Becomes(look) ==
    /\ window' = look.buffer /\ parsingHeaders' = look.headers
    /\ partName' = look.name /\ partStarted' = look.started

-----------------------------------------------------------------------------
(* The handler *)

MultipartInit ==
    /\ form \in Forms /\ body = FormBytes /\ fed = 0
    /\ window = <<>> /\ parsingHeaders = TRUE /\ partName = 0 /\ partStarted = FALSE
    /\ answered = FALSE /\ events = <<>> /\ dropped = 0

Ended == events # <<>> /\ Last(events).status = "Completed"

\* handleBodyChunk without a byte: another look, and if the application has still not
\* answered it is told that this was all.  It is told so again in every step until it answers
\* (recorded once).
NoMore ==
    LET look == Processed(window)
    IN  \/ /\ look.told # <<>> /\ answered' = TRUE
           /\ Becomes(look) /\ events' = events \o look.told
        \/ /\ Becomes(Look(<<>>, TRUE, 0, FALSE, <<>>))
           /\ events' = IF Ended /\ look.told = <<>> THEN events
                        ELSE events \o look.told \o <<Event("Completed", 0, <<>>)>>
           /\ answered' \in BOOLEAN

\* handleBodyChunk: what does not fit into the buffer is dropped; if nothing fits, it does
\* what it does at the end.
BodyChunk ==
    /\ ~answered
    /\ \E length \in 1..MaxPart :
        LET stored == IF Len(window) + length > Room THEN Room - Len(window) ELSE length
            look == Processed(window \o SubSeq(body, fed + 1, fed + stored))
        IN  /\ fed + length <= Len(body)
            /\ fed' = fed + length /\ dropped' = dropped + length - stored
            /\ IF stored = 0 THEN NoMore
               ELSE /\ Becomes(look) /\ events' = events \o look.told
                    /\ answered' \in IF look.told = <<>> THEN {FALSE} ELSE BOOLEAN
    /\ UNCHANGED <<form, body>>

\* handleStep after the end of the message
EndOfMessage ==
    /\ fed = Len(body) /\ ~answered /\ NoMore
    /\ UNCHANGED <<form, body, fed, dropped>>

MultipartNext == BodyChunk \/ EndOfMessage
MultipartSpec == MultipartInit /\ [][MultipartNext]_multipartVars

-----------------------------------------------------------------------------
(* Properties *)

EventsOf(p) == {i \in DOMAIN events : events[i].part = p}
Told(p) == FlattenSeq([i \in DOMAIN events |-> IF events[i].part = p THEN events[i].data ELSE <<>>])

\* As long as nothing was dropped for want of room, what the application is told of a part
\* is the data of that part from its beginning, without a byte of a delimiter or of another
\* part, in one first piece and later ones; the next part, and a final piece, come only
\* after all of it, wherever the body was cut.
PartsAreGenuine ==
    dropped = 0 =>
        /\ \A p \in DOMAIN form :
            /\ IsPrefix(Told(p), PartData(p))
            /\ \A i \in EventsOf(p) :
                /\ events[i].status = "First" <=> \A j \in EventsOf(p) : i <= j
                /\ events[i].status = "Final" =>
                    Told(p) = PartData(p) /\ \A j \in EventsOf(p) : j <= i
        /\ \A i, j \in DOMAIN events :
            i < j /\ events[j].part # 0 /\ events[i].part # events[j].part =>
                events[i].part < events[j].part /\ Told(events[i].part) = PartData(events[i].part)

\* "Completed, // All multipart data processed": when the application is told so it has had
\* all the named parts of the form.
CompletedMeansAll ==
    Ended /\ dropped = 0 => \A p \in DOMAIN form : form[p].named => EventsOf(p) # {} /\ Told(p) = PartData(p)
=============================================================================
