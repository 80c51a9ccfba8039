------------------------- MODULE RequestParserProofs -------------------------
(***************************************************************************)
(* For every length of the buffer, every limit and every cut of the input:   *)
(* the parser's buffer is safe, and an error is the last the handler hears.  *)
(***************************************************************************)
EXTENDS RequestParser, DataLemmas

\* llhttp, which shares no variable with the parser
CONSTANTS
    LengthLimit,    \* one more than content_length holds
    Scripts         \* what clients send
VARIABLES script, wire, place, state, header_state, flags, content_length, verb, http, upgrade, told
LL == INSTANCE LLHttp WITH Limit <- LengthLimit, at <- place, method <- verb

\* What is stored, and the numbers of the tokens it is made of.
StoreType ==
    /\ buffer \in Seq(Nat)
    /\ pos \in [Kinds -> Nat] /\ len \in [Kinds -> Nat]
    /\ token \in Nat

Stored == StoreType /\ InBounds

\* A step that leaves the store and the token count alone keeps the bounds.
LEMMA Untouched ==
    ASSUME Stored, UNCHANGED <<buffer, pos, len, token>>
    PROVE  Stored'
BY DEF Stored, StoreType, InBounds

\* Resetting the buffer together with the lengths of the tokens in it keeps the bounds.
LEMMA ResetIsSafe ==
    ASSUME Stored, ResetBuffer, UNCHANGED token
    PROVE  Stored'
<1>1. buffer' = <<>> /\ len' = [k \in Kinds |-> 0] /\ pos' = pos
    BY DEF ResetBuffer
<1>2. Len(buffer') = 0 /\ buffer' \in Seq(Nat)
    BY <1>1
<1> QED
    BY <1>1, <1>2, LimitsAssumption DEF Stored, StoreType, InBounds

\* A piece starts where the written part ends, unless its token has started already, and
\* is only kept if it fits (appendToBuffer).
LEMMA PieceIsSafe ==
    ASSUME Stored, NEW k \in Kinds, NEW n \in 0..MaxPiece, Piece(k, n)
    PROVE  /\ token' \in Nat
           /\ pos' \in [Kinds -> Nat]
           /\ pos'[k] + len[k] <= Len(buffer)
           /\ \A j \in Kinds \ {k} : pos'[j] = pos[j]
<1>1. token' \in Nat
    BY DEF Piece, Stored, StoreType
<1>2. Len(buffer) \in Nat
    BY DEF Stored, StoreType
<1> QED
    BY <1>1, <1>2 DEF Piece, Stored, StoreType, InBounds

LEMMA KeepIsSafe ==
    ASSUME Stored, NEW k \in Kinds, NEW n \in 0..MaxPiece, Keep(k, n)
    PROVE  Stored'
<1> DEFINE piece == [b \in 1..n |-> token']
<1>1. n \in Nat /\ Piece(k, n) /\ Fits(k, n)
    BY LimitsAssumption DEF Keep
<1>2. token' \in Nat /\ pos' \in [Kinds -> Nat] /\ pos'[k] + len[k] <= Len(buffer)
      /\ \A j \in Kinds \ {k} : pos'[j] = pos[j]
    BY <1>1, PieceIsSafe
<1>3. piece \in Seq(Nat) /\ Len(piece) = n
    BY <1>1, <1>2
<1>4. buffer' = buffer \o piece /\ len' = [len EXCEPT ![k] = @ + n]
    BY DEF Keep
<1>5. buffer \in Seq(Nat) /\ len \in [Kinds -> Nat]
    BY DEF Stored, StoreType
<1>6. buffer' \in Seq(Nat) /\ Len(buffer') = Len(buffer) + n
    BY <1>3, <1>4, <1>5
<1>7. len' \in [Kinds -> Nat] /\ len'[k] = len[k] + n /\ \A j \in Kinds \ {k} : len'[j] = len[j]
    BY <1>1, <1>4, <1>5
<1>8. StoreType'
    BY <1>2, <1>6, <1>7 DEF StoreType
<1>9. Len(buffer') <= BufferLength /\ len'[k] <= Limit[k]
    BY <1>1, <1>5, <1>6, <1>7 DEF Fits, Stored, InBounds
<1>10. ASSUME NEW j \in Kinds
       PROVE  len'[j] <= Limit[j] /\ (len'[j] > 0 => pos'[j] + len'[j] <= Len(buffer'))
    <2>1. CASE j = k
        BY <2>1, <1>1, <1>2, <1>5, <1>6, <1>7, <1>9
    <2>2. CASE j # k
        BY <2>2, <1>1, <1>2, <1>5, <1>6, <1>7, SMTT(30) DEF Stored, InBounds, StoreType
    <2> QED BY <2>1, <2>2
<1> QED
    BY <1>8, <1>9, <1>10 DEF Stored, InBounds

LEMMA OverflowIsSafe ==
    ASSUME Stored, NEW k \in Kinds, NEW n \in 0..MaxPiece, Overflow(k, n)
    PROVE  Stored'
<1>1. Piece(k, n) /\ buffer' = buffer /\ len' = len
    BY DEF Overflow
<1>2. token' \in Nat /\ pos' \in [Kinds -> Nat] /\ pos'[k] + len[k] <= Len(buffer)
      /\ \A j \in Kinds \ {k} : pos'[j] = pos[j]
    BY <1>1, PieceIsSafe
<1> QED
    BY <1>1, <1>2 DEF Stored, StoreType, InBounds

\* Handing a header over gives its lengths back, not its bytes.
LEMMA HeaderIsSafe ==
    ASSUME Stored, ValueComplete
    PROVE  Stored'
<1>1. buffer' = buffer /\ pos' = pos /\ token' = token
      /\ len' = [len EXCEPT !["field"] = 0, !["value"] = 0]
    BY DEF ValueComplete, Elsewhere
<1>2. len' \in [Kinds -> Nat] /\ \A k \in Kinds : len'[k] = 0 \/ len'[k] = len[k]
    BY <1>1 DEF Stored, StoreType
<1> QED
    BY <1>1, <1>2, LimitsAssumption, SMTT(30) DEF Stored, StoreType, InBounds

LEMMA StoredInit == Init => Stored
<1> SUFFICES ASSUME Init PROVE Stored
    OBVIOUS
<1>1. buffer = <<>> /\ pos = [k \in Kinds |-> 0] /\ len = [k \in Kinds |-> 0] /\ token = 0
    BY DEF Init
<1>2. buffer \in Seq(Nat) /\ Len(buffer) = 0
    BY <1>1
<1> QED
    BY <1>1, <1>2, LimitsAssumption DEF Stored, StoreType, InBounds

LEMMA StoredNext == Stored /\ [Next]_vars => Stored'
<1> SUFFICES ASSUME Stored, [Next]_vars PROVE Stored'
    OBVIOUS
<1> USE DEF store, tokens
<1>1. CASE ExecuteReturns
    <2>1. CASE event = "MessageComplete"
        BY <1>1, <2>1, ResetIsSafe DEF ExecuteReturns
    <2>2. CASE event # "MessageComplete"
        BY <1>1, <2>2, Untouched DEF ExecuteReturns
    <2> QED BY <2>1, <2>2
<1>2. CASE ExecuteFails
    BY <1>2, ResetIsSafe DEF ExecuteFails
<1>3. CASE Token
    BY <1>3, KeepIsSafe, OverflowIsSafe DEF Token
<1>4. CASE ValueComplete
    BY <1>4, HeaderIsSafe
<1>5. CASE Execute \/ NoMoreBytes \/ ExecutePauses \/ MarkRead
    BY <1>5, Untouched DEF Execute, NoMoreBytes, ExecutePauses, MarkRead
<1>6. CASE MethodComplete \/ UrlComplete \/ VersionComplete \/ FieldComplete
           \/ ValueEmpty \/ TooManyHeaders
    BY <1>6, Untouched DEF MethodComplete, UrlComplete, VersionComplete, FieldComplete,
       ValueEmpty, TooManyHeaders, Elsewhere
<1>7. CASE MessageBegin \/ HeadersComplete \/ Body \/ TrailersBegin \/ MessageComplete \/ Malformed
           \/ BufferEnds
    BY <1>7, Untouched DEF MessageBegin, HeadersComplete, Body, TrailersBegin, MessageComplete,
       Malformed, BufferEnds, Aside
<1>8. CASE Over \/ UNCHANGED vars
    BY <1>8, Untouched DEF Over, vars
<1> QED
    BY <1>1, <1>2, <1>3, <1>4, <1>5, <1>6, <1>7, <1>8 DEF Next

\* The buffer is never written past its end, and every view the handler is given lies in
\* the part written for this message (appendToBuffer, resetBuffer, the completion callbacks).
THEOREM BufferIsSafe == Spec => []InBounds
<1>1. Stored => InBounds
    BY DEF Stored
<1> QED
    BY <1>1, StoredInit, StoredNext, PTL DEF Spec
-----------------------------------------------------------------------------
(* Once the handler has been told of an error, llhttp is stopped and execute on its way *)
(* out, or HttpProtocolExecution has ended; this is what keeps a second report away.    *)

Silenced ==
    \/ caller \in {"failed", "done"}
    \/ caller = "executed" /\ result = "error" /\ event = "Error"

ErrorInv ==
    /\ errors \in {0, 1}
    /\ errors = 1 => Silenced
    /\ event = "Error" => errors = 1

\* A callback finds no error reported, and reports at most one.
LEMMA CallbackReportsOnce ==
    ASSUME ErrorInv, caller = "executing", Token \/ ValueComplete \/ TooManyHeaders
    PROVE  ErrorInv'
<1>1. errors = 0 /\ event # "Error"
    BY DEF ErrorInv, Silenced
<1>2. ASSUME NEW k \in Kinds, NEW n \in 0..MaxPiece, Keep(k, n) PROVE ErrorInv'
    <2>1. errors' = 0 /\ event' = EventOf(k)
        BY <1>1, <1>2 DEF Keep, handler
    <2>2. EventOf(k) # "Error"
        BY <1>1 DEF EventOf, Kinds
    <2> QED BY <2>1, <2>2 DEF ErrorInv
<1>3. ASSUME Rejects PROVE ErrorInv'
    BY <1>1, <1>3 DEF Rejects, Hears, Stop, ErrorInv, Silenced
<1>4. CASE Token
    BY <1>2, <1>3, <1>4 DEF Token, Overflow
<1>5. CASE ValueComplete
    BY <1>1, <1>5 DEF ValueComplete, Hears, ErrorInv
<1>6. CASE TooManyHeaders
    BY <1>3, <1>6 DEF TooManyHeaders
<1> QED
    BY <1>4, <1>5, <1>6

\* execute reports an error of llhttp unless a callback has done so.
LEMMA ReportedOnce ==
    ASSUME ErrorInv, ReportError, event = "Error" \/ errors = 0
    PROVE  event' = "Error" /\ errors' = 1
<1>1. CASE event = "Error"
    BY <1>1 DEF ErrorInv, ReportError, handler
<1>2. CASE event # "Error"
    BY <1>2 DEF ErrorInv, ReportError, Hears
<1> QED BY <1>1, <1>2

LEMMA ErrorNext == ErrorInv /\ [Next]_vars => ErrorInv'
<1> SUFFICES ASSUME ErrorInv, [Next]_vars PROVE ErrorInv'
    OBVIOUS
<1> USE DEF ErrorInv, Silenced, handler
<1>1. CASE Execute \/ NoMoreBytes \/ ExecuteReturns \/ ExecutePauses
    BY <1>1 DEF Execute, NoMoreBytes, ExecuteReturns, ExecutePauses
<1>2. CASE ExecuteFails
    BY <1>2, ReportedOnce DEF ExecuteFails
<1>3. CASE MarkRead
    <2>1. errors = 0 /\ event # "Error" /\ caller' \in {"failed", "done"}
        BY <1>3 DEF MarkRead
    <2>2. CASE CutShort /\ ~finished
        BY <1>3, <2>1, <2>2, ReportedOnce DEF MarkRead
    <2>3. CASE ~(CutShort /\ ~finished)
        BY <1>3, <2>1, <2>3 DEF MarkRead
    <2> QED BY <2>2, <2>3
<1>4. CASE Token \/ ValueComplete \/ TooManyHeaders
    <2>1. caller = "executing"
        BY <1>4 DEF Token, Keep, Overflow, Piece, Executing, ValueComplete, TooManyHeaders,
           Complete
    <2> QED BY <1>4, <2>1, CallbackReportsOnce
<1>5. CASE MethodComplete \/ VersionComplete \/ FieldComplete \/ ValueEmpty
    BY <1>5 DEF MethodComplete, VersionComplete, FieldComplete, ValueEmpty, Complete, Goes
<1>6. CASE UrlComplete
    BY <1>6 DEF UrlComplete, Complete, Hears, Returned, Goes, Stop
<1>7. CASE MessageBegin \/ TrailersBegin \/ Malformed \/ BufferEnds
    BY <1>7 DEF MessageBegin, TrailersBegin, Malformed, BufferEnds, Executing, Goes, Stop
<1>8. CASE HeadersComplete \/ Body \/ MessageComplete
    BY <1>8 DEF HeadersComplete, Body, MessageComplete, Executing, Hears
<1>9. CASE Over \/ UNCHANGED vars
    BY <1>9 DEF Over, vars
<1> QED
    BY <1>1, <1>2, <1>3, <1>4, <1>5, <1>6, <1>7, <1>8, <1>9 DEF Next

\* In such a state no step calls the handler.
LEMMA NothingMore == ErrorInv /\ [Next]_vars => (errors > 0 => errors' = 1 /\ heard' = heard)
<1> SUFFICES ASSUME ErrorInv, [Next]_vars, errors > 0 PROVE errors' = 1 /\ heard' = heard
    OBVIOUS
<1>1. errors = 1 /\ Silenced
    BY DEF ErrorInv
<1> USE DEF Silenced, handler
<1>2. CASE ExecuteFails
    BY <1>1, <1>2 DEF ExecuteFails, ReportError
<1>3. CASE Over \/ UNCHANGED vars
    BY <1>1, <1>3 DEF Over, vars
<1>4. CASE Execute \/ NoMoreBytes \/ ExecuteReturns \/ ExecutePauses \/ MarkRead
    BY <1>1, <1>4 DEF Execute, NoMoreBytes, ExecuteReturns, ExecutePauses, MarkRead
<1>5. caller # "executing"
    BY <1>1
<1> QED
    BY <1>1, <1>2, <1>3, <1>4, <1>5
    DEF Next, Token, Keep, Overflow, Piece, MethodComplete, UrlComplete, VersionComplete,
        FieldComplete, ValueEmpty, ValueComplete, TooManyHeaders, Complete, MessageBegin,
        HeadersComplete, Body, TrailersBegin, MessageComplete, Malformed, BufferEnds, Executing

\* The parser reports one error at most, and calls the handler no more after it
\* (currentEvent_, finished_, and the return codes of the callbacks).
THEOREM ErrorIsLast == Spec => ErrorIsTheLastWord
<1>1. Init => ErrorInv
    BY DEF Init, ErrorInv
<1> QED
    BY <1>1, ErrorNext, NothingMore, PTL DEF Spec, ErrorIsTheLastWord

-----------------------------------------------------------------------------
(* A parser that is done in the middle of a message has said so. Its last position alone *)
(* does not tell: "error" is also where llhttp stands before execute has reported it.    *)

Places == Kinds \cup {"start", "body", "closed", "upgraded", "error"}

CutInv ==
    /\ at \in Places
    /\ finished \/ caller = "failed" => at \in {"start", "closed", "upgraded"} \/ errors = 1
    /\ finished => caller \notin {"executing", "executed"}
    /\ at = "error" => errors = 1 \/ (caller = "executed" /\ result = "error")
    /\ caller = "executed" /\ result = "paused" => at = "upgraded"

\* A callback, called by a parser that is not done, ends in a place of the grammar, or stops
\* llhttp with the code that fits the place.
LEMMA CallbackCut ==
    ASSUME CutInv, ErrorInv, caller = "executing", finished' = finished, caller' # "failed",
           \/ at' \in Places \ {"error"} /\ caller' = caller
           \/ at' \in Places \ {"error"} /\ Stop("ok")
           \/ at' = "upgraded" /\ Stop("paused")
           \/ at' = "error" /\ Stop("error")
    PROVE  CutInv'
BY DEF CutInv, Stop, Places

LEMMA CutNext == ErrorInv /\ CutInv /\ [Next]_vars => CutInv'
<1> SUFFICES ASSUME ErrorInv, CutInv, [Next]_vars PROVE CutInv'
    OBVIOUS
<1>0. errors = 1 => errors' = 1
    BY NothingMore
<1>1. CASE Execute \/ NoMoreBytes
    BY <1>0, <1>1 DEF Execute, NoMoreBytes, CutInv, handler
<1>2. CASE ExecuteReturns
    BY <1>0, <1>2 DEF ExecuteReturns, Parsed, CutInv, handler
<1>3. CASE ExecutePauses
    BY <1>0, <1>3 DEF ExecutePauses, Parsed, CutInv, handler
<1>4. CASE ExecuteFails
    <2>1. errors' = 1
        BY <1>4, ReportedOnce DEF ExecuteFails, ErrorInv, Silenced
    <2> QED BY <1>4, <2>1 DEF ExecuteFails, CutInv
<1>5. CASE MarkRead
    <2>1. at' = at /\ result' = result /\ finished' /\ caller' \in {"failed", "done"}
        BY <1>5 DEF MarkRead
    <2>2. CASE CutShort /\ ~finished
        <3>1. errors' = 1
            BY <1>5, <2>2, ReportedOnce DEF MarkRead, ErrorInv, Silenced
        <3> QED BY <2>1, <3>1 DEF CutInv
    <2>3. CASE ~(CutShort /\ ~finished)
        <3>1. at \in {"start", "closed", "upgraded"} \/ errors = 1
            BY <1>5, <2>3 DEF MarkRead, CutShort, CutInv, Places
        <3> QED BY <1>0, <2>1, <3>1 DEF CutInv
    <2> QED BY <2>2, <2>3
<1>6. CASE Token
    <2>1. ASSUME NEW k \in Kinds, NEW n \in 0..MaxPiece, Keep(k, n) PROVE CutInv'
        BY <2>1, CallbackCut DEF Keep, Piece, Executing, Stop, Places, Kinds
    <2>2. ASSUME NEW k \in Kinds, NEW n \in 0..MaxPiece, Overflow(k, n) PROVE CutInv'
        BY <2>2, CallbackCut DEF Overflow, Piece, Executing, Rejects, Stop
    <2> QED BY <1>6, <2>1, <2>2 DEF Token
<1>7. CASE MethodComplete \/ UrlComplete \/ VersionComplete \/ FieldComplete \/ ValueEmpty
           \/ ValueComplete
    BY <1>7, CallbackCut
    DEF MethodComplete, UrlComplete, VersionComplete, FieldComplete, ValueEmpty, ValueComplete,
        Complete, Elsewhere, Goes, Returned, Stop, Places, Kinds
<1>8. CASE TooManyHeaders
    BY <1>8, CallbackCut DEF TooManyHeaders, Complete, Elsewhere, Rejects, Stop
<1>9. CASE MessageBegin \/ HeadersComplete \/ Body \/ TrailersBegin \/ MessageComplete
           \/ Malformed
    BY <1>9, CallbackCut
    DEF MessageBegin, HeadersComplete, Body, TrailersBegin, MessageComplete, Malformed,
        Executing, Aside, Goes, Returned, Stop, Places, Kinds
<1>10. CASE BufferEnds
    BY <1>0, <1>10 DEF BufferEnds, Executing, Aside, Stop, CutInv, handler
<1>11. CASE Over \/ UNCHANGED vars
    BY <1>11 DEF Over, vars, handler, CutInv
<1> QED
    BY <1>1, <1>2, <1>3, <1>4, <1>5, <1>6, <1>7, <1>8, <1>9, <1>10, <1>11 DEF Next

\* A request that is cut in its middle, by an error of llhttp, by a limit, or by the pipeline
\* that reads no further (markRequestReadCompleted), is reported to the handler once.
THEOREM CutIsReported == Spec => []CutRequestIsReported
<1>1. Init => ErrorInv /\ CutInv
    BY DEF Init, ErrorInv, CutInv, Places
<1>2. CutInv => CutRequestIsReported
    BY DEF CutInv, CutRequestIsReported
<1> QED
    BY <1>1, <1>2, ErrorNext, CutNext, PTL DEF Spec

-----------------------------------------------------------------------------
(* Types *)

Flags == /\ readDone \in BOOLEAN /\ due \in BOOLEAN /\ finished \in BOOLEAN
         /\ bare \in BOOLEAN /\ pending \in BOOLEAN /\ trailing \in BOOLEAN

\* Flags are set, cleared, or left.
LEMMA FlagsStep == Flags /\ [Next]_vars => Flags'
<1> SUFFICES ASSUME Flags, [Next]_vars PROVE Flags'
    OBVIOUS
<1> USE DEF Flags
<1>1. CASE Execute
    BY <1>1 DEF Execute, store, strings, tokens, handler
<1>2. CASE NoMoreBytes
    BY <1>2 DEF NoMoreBytes, store, strings, tokens, handler
<1>3. CASE ExecuteReturns
    BY <1>3 DEF ExecuteReturns, ResetBuffer, Parsed, store, strings, tokens, handler
<1>4. CASE ExecutePauses
    BY <1>4 DEF ExecutePauses, Parsed, store, strings, tokens, handler
<1>5. CASE ExecuteFails
    BY <1>5 DEF ExecuteFails, Hears, ReportError, ResetBuffer, strings, tokens, handler
<1>6. CASE MarkRead
    BY <1>6 DEF MarkRead, Hears, ReportError, store, strings, tokens, handler
<1>7. CASE Token
    <2>1. PICK k \in Kinds, n \in 0..MaxPiece : Keep(k, n) \/ Overflow(k, n)
        BY <1>7 DEF Token
    <2>2. CASE Keep(k, n)
        BY <2>2 DEF Keep, Stop, Piece, strings, handler
    <2>3. CASE Overflow(k, n)
        BY <2>3 DEF Overflow, Rejects, Hears, Stop, Piece, strings
    <2> QED BY <2>1, <2>2, <2>3
<1>8. CASE MethodComplete
    BY <1>8 DEF MethodComplete, Goes, Complete, Elsewhere, store, handler
<1>9. CASE UrlComplete
    BY <1>9 DEF UrlComplete, Hears, Stop, Goes, Returned, Complete, Elsewhere, store, strings,
       handler
<1>10. CASE VersionComplete
    BY <1>10 DEF VersionComplete, Goes, Complete, Elsewhere, store, handler
<1>11. CASE FieldComplete
    BY <1>11 DEF FieldComplete, Goes, Complete, Elsewhere, store, strings, handler
<1>12. CASE ValueEmpty
    BY <1>12 DEF ValueEmpty, Goes, Complete, Elsewhere, store, strings, handler
<1>13. CASE ValueComplete
    BY <1>13 DEF ValueComplete, Hears, Stop, Goes, Returned, Complete, Elsewhere, strings
<1>14. CASE TooManyHeaders
    BY <1>14 DEF TooManyHeaders, Hears, Stop, Rejects, Complete, Elsewhere, store, strings
<1>15. CASE MessageBegin
    BY <1>15 DEF MessageBegin, Goes, Aside, store, strings, handler
<1>16. CASE HeadersComplete
    BY <1>16 DEF HeadersComplete, Hears, Stop, Goes, Returned, Aside, Ongoing, store, strings
<1>17. CASE Body
    BY <1>17 DEF Body, Hears, Stop, Goes, Returned, Aside, Ongoing, store, strings
<1>18. CASE MessageComplete
    BY <1>18 DEF MessageComplete, Hears, Stop, Goes, Returned, Aside, Ongoing, store, strings
<1>19. CASE Malformed
    BY <1>19 DEF Malformed, Stop, Aside, Ongoing, store, strings, handler
<1>20. CASE BufferEnds
    BY <1>20 DEF BufferEnds, Stop, Aside, Ongoing, store, strings, handler
<1>21. CASE Over
    BY <1>21 DEF Over, vars, store, strings, tokens, handler
<1>22. CASE TrailersBegin
    BY <1>22 DEF TrailersBegin, Goes, Aside, store, strings, handler
<1>23. CASE UNCHANGED vars
    BY <1>23 DEF vars, store, strings, tokens, handler
<1> QED
    BY <1>1, <1>2, <1>3, <1>4, <1>5, <1>6, <1>7, <1>8, <1>9, <1>10, <1>11, <1>12,
       <1>13, <1>14, <1>15, <1>16, <1>17, <1>18, <1>19, <1>20, <1>21, <1>22, <1>23 DEF Next

Positions ==
    /\ caller \in {"between", "loop", "executing", "executed", "answered", "unanswered",
                   "failed", "done"}
    /\ result \in {"ok", "paused", "error"} /\ event \in Events
    /\ headers \in 0..MaxHeaders /\ messages \in 0..MaxMessages

\* Headers and messages are counted up to their limits, and there no further.
LEMMA PositionsStep == Positions /\ [Next]_vars => Positions'
<1> SUFFICES ASSUME Positions, [Next]_vars PROVE Positions'
    OBVIOUS
<1> USE LimitsAssumption DEF Positions, Events
<1>1. CASE Execute
    BY <1>1 DEF Execute, store, strings, tokens, handler
<1>2. CASE NoMoreBytes
    BY <1>2 DEF NoMoreBytes, store, strings, tokens, handler
<1>3. CASE ExecuteReturns
    BY <1>3 DEF ExecuteReturns, ResetBuffer, Parsed, store, strings, tokens, handler
<1>4. CASE ExecutePauses
    BY <1>4 DEF ExecutePauses, Parsed, store, strings, tokens, handler
<1>5. CASE ExecuteFails
    BY <1>5 DEF ExecuteFails, Hears, ReportError, ResetBuffer, strings, tokens, handler
<1>6. CASE MarkRead
    BY <1>6 DEF MarkRead, Hears, ReportError, store, strings, tokens, handler
<1>7. CASE Token
    <2>1. ASSUME NEW k \in Kinds, NEW n \in 0..MaxPiece, Keep(k, n) PROVE Positions'
        <3>1. headers' = headers /\ messages' = messages
            BY <2>1 DEF Keep, Piece
        <3>2. event' \in Events
            BY <2>1 DEF Keep, EventOf
        <3>3. caller' \in {"executing", "executed"} /\ result' \in {"ok", result}
            BY <2>1 DEF Keep, Piece, Executing, Stop
        <3> QED BY <3>1, <3>2, <3>3
    <2>2. ASSUME NEW k \in Kinds, NEW n \in 0..MaxPiece, Overflow(k, n) PROVE Positions'
        BY <2>2 DEF Overflow, Piece, Rejects, Stop
    <2> QED BY <1>7, <2>1, <2>2 DEF Token
<1>8. CASE MethodComplete
    BY <1>8 DEF MethodComplete, Goes, Complete, Elsewhere, store, handler
<1>9. CASE UrlComplete
    BY <1>9 DEF UrlComplete, Hears, Stop, Goes, Returned, Complete, Elsewhere, store, strings,
       handler
<1>10. CASE VersionComplete
    BY <1>10 DEF VersionComplete, Goes, Complete, Elsewhere, store, handler
<1>11. CASE FieldComplete
    BY <1>11 DEF FieldComplete, Goes, Complete, Elsewhere, store, strings, handler
<1>12. CASE ValueEmpty
    BY <1>12 DEF ValueEmpty, Goes, Complete, Elsewhere, store, strings, handler
<1>13. CASE ValueComplete
    BY <1>13 DEF ValueComplete, Hears, Stop, Goes, Returned, Complete, Elsewhere, strings
<1>14. CASE TooManyHeaders
    BY <1>14 DEF TooManyHeaders, Hears, Stop, Rejects, Complete, Elsewhere, store, strings
<1>15. CASE MessageBegin
    BY <1>15 DEF MessageBegin, Goes, Aside, store, strings, handler
<1>16. CASE HeadersComplete
    BY <1>16 DEF HeadersComplete, Hears, Stop, Goes, Returned, Aside, Ongoing, store, strings
<1>17. CASE Body
    BY <1>17 DEF Body, Hears, Stop, Goes, Returned, Aside, Ongoing, store, strings
<1>18. CASE MessageComplete
    BY <1>18 DEF MessageComplete, Hears, Stop, Goes, Returned, Aside, Ongoing, store, strings
<1>19. CASE Malformed
    BY <1>19 DEF Malformed, Stop, Aside, Ongoing, store, strings, handler
<1>20. CASE BufferEnds
    BY <1>20 DEF BufferEnds, Stop, Aside, Ongoing, store, strings, handler
<1>21. CASE Over
    BY <1>21 DEF Over, vars, store, strings, tokens, handler
<1>22. CASE TrailersBegin
    BY <1>22 DEF TrailersBegin, Goes, Aside, store, strings, handler
<1>23. CASE UNCHANGED vars
    BY <1>23 DEF vars, store, strings, tokens, handler
<1> QED
    BY <1>1, <1>2, <1>3, <1>4, <1>5, <1>6, <1>7, <1>8, <1>9, <1>10, <1>11, <1>12,
       <1>13, <1>14, <1>15, <1>16, <1>17, <1>18, <1>19, <1>20, <1>21, <1>22, <1>23 DEF Next

Texts ==
    /\ method \in Bytes /\ version \in Bytes /\ whole \in [Kinds -> Bytes]
    /\ heard \in [call : Calls, args : Seq(Bytes)]

\* A view of what is kept of a token is a text (the lengths of std::string_view).
LEMMA ViewIsText ==
    ASSUME Stored, NEW k \in Kinds, len[k] > 0
    PROVE  View(k) \in Bytes
<1>1. /\ buffer \in Seq(Nat) /\ pos[k] \in Nat /\ len[k] \in Nat
      /\ pos[k] + len[k] <= Len(buffer)
    BY DEF Stored, StoreType, InBounds
<1> DEFINE first == pos[k] + 1
           last  == pos[k] + len[k]
<1>2. first \in Int /\ last \in Int /\ 1 <= first /\ last <= Len(buffer) /\ Len(buffer) \in Nat
    BY <1>1
<1> HIDE DEF first, last
<1>3. \A i \in first..last : buffer[i] \in Nat
    BY <1>1, <1>2, ElementOfSeq
<1>4. SubSeq(buffer, first, last) \in Seq(Nat)
    BY <1>2, <1>3, SubSeqProperties
<1> QED
    BY <1>4 DEF View, Bytes, first, last

\* One, two or three texts are arguments.
LEMMA Arguments ==
    ASSUME NEW a \in Bytes, NEW b \in Bytes, NEW c \in Bytes
    PROVE  <<>> \in Seq(Bytes) /\ <<a, b>> \in Seq(Bytes) /\ <<a, b, c>> \in Seq(Bytes)
<1> HIDE DEF Bytes
<1> QED OBVIOUS

\* A call is one of the handler's.
LEMMA HeardIsTyped ==
    ASSUME NEW call \in Calls, NEW args \in Seq(Bytes), Hears(call, args)
    PROVE  heard' \in [call : Calls, args : Seq(Bytes)]
BY DEF Hears

\* What is said of the parser's own calls does not depend on the texts.
LEMMA TextsStep == Stored /\ Texts /\ [Next]_vars => Texts'
<1> SUFFICES ASSUME Stored, Texts, [Next]_vars PROVE Texts'
    OBVIOUS
<1>a. <<>> \in Seq(Bytes) /\ <<>> \in Bytes
    BY DEF Bytes
<1>b. ASSUME NEW call \in Calls, Hears(call, <<>>) PROVE heard' \in [call : Calls, args : Seq(Bytes)]
    BY <1>a, <1>b, HeardIsTyped
<1>c. {"onMessageBegin", "onHeader", "onHeadersComplete", "onBody", "onMessageComplete", "onError"}
        \subseteq Calls
    BY DEF Calls
<1> USE DEF Texts
<1>1. CASE Execute
    BY <1>1 DEF Execute, store, strings, tokens, handler
<1>2. CASE NoMoreBytes
    BY <1>2 DEF NoMoreBytes, store, strings, tokens, handler
<1>3. CASE ExecuteReturns
    BY <1>3 DEF ExecuteReturns, ResetBuffer, Parsed, store, strings, tokens, handler
<1>4. CASE ExecutePauses
    BY <1>4 DEF ExecutePauses, Parsed, store, strings, tokens, handler
<1>5. CASE ExecuteFails
    BY <1>5, <1>b, <1>c DEF ExecuteFails, ReportError, ResetBuffer, strings, tokens, handler
<1>6. CASE MarkRead
    BY <1>6, <1>b, <1>c DEF MarkRead, ReportError, store, strings, tokens, handler
<1>7. CASE Token
    <2>1. ASSUME NEW k \in Kinds, NEW n \in 0..MaxPiece, Piece(k, n) PROVE whole' \in [Kinds -> Bytes]
        <3> DEFINE before == IF Started(k) THEN whole[k] ELSE <<>>
                   piece  == [b \in 1..n |-> token']
        <3>1. n \in Nat /\ token' \in Nat
            BY <2>1, PieceIsSafe, LimitsAssumption
        <3>2. before \in Bytes
            BY <1>a
        <3>3. piece \in Bytes
            BY <3>1 DEF Bytes
        <3>4. before \o piece \in Bytes
            <4> HIDE DEF before, piece
            <4> QED BY <3>2, <3>3 DEF Bytes
        <3>5. whole' = [whole EXCEPT ![k] = before \o piece]
            BY <2>1 DEF Piece
        <3> QED BY <3>4, <3>5
    <2>2. ASSUME NEW k \in Kinds, NEW n \in 0..MaxPiece, Keep(k, n) PROVE Texts'
        BY <2>1, <2>2 DEF Keep, Piece, strings, handler
    <2>3. ASSUME NEW k \in Kinds, NEW n \in 0..MaxPiece, Overflow(k, n) PROVE Texts'
        <3>1. Hears("onError", <<>>) /\ Piece(k, n)
            BY <2>3 DEF Overflow, Rejects
        <3> QED BY <2>1, <1>b, <1>c, <3>1 DEF Piece, strings
    <2> QED BY <1>7, <2>2, <2>3 DEF Token
<1>8. CASE MethodComplete
    <2>1. method' \in Bytes
        BY <1>8, ViewIsText DEF MethodComplete, Kinds
    <2> QED BY <1>8, <2>1 DEF MethodComplete, Elsewhere, handler
<1>9. CASE UrlComplete
    <2>1. heard' \in [call : Calls, args : Seq(Bytes)]
        <3>1. CASE len["url"] > 0
            <4>1. View("url") \in Bytes
                BY <3>1, ViewIsText DEF Kinds
            <4>2. <<method, version, View("url")>> \in Seq(Bytes)
                BY <4>1, Arguments
            <4>3. Hears("onMessageBegin", <<method, version, View("url")>>)
                BY <1>9, <3>1 DEF UrlComplete
            <4> QED BY <1>c, <4>2, <4>3, HeardIsTyped
        <3>2. CASE ~(len["url"] > 0)
            BY <1>9, <3>2 DEF UrlComplete, handler
        <3> QED BY <3>1, <3>2
    <2> QED BY <1>9, <2>1 DEF UrlComplete, Elsewhere, strings
<1>10. CASE VersionComplete
    <2>1. version' \in Bytes
        BY <1>10, ViewIsText DEF VersionComplete, Kinds
    <2> QED BY <1>10, <2>1 DEF VersionComplete, Elsewhere, handler
<1>11. CASE FieldComplete
    BY <1>11 DEF FieldComplete, Goes, Complete, Elsewhere, store, strings, handler
<1>12. CASE ValueEmpty
    BY <1>12 DEF ValueEmpty, Goes, Complete, Elsewhere, store, strings, handler
<1>13. CASE ValueComplete
    <2>1. View("field") \in Bytes /\ View("value") \in Bytes
        BY <1>13, ViewIsText DEF ValueComplete, Kinds
    <2>2. <<View("field"), View("value")>> \in Seq(Bytes)
        BY <2>1, Arguments
    <2>3. Hears("onHeader", <<View("field"), View("value")>>)
        BY <1>13 DEF ValueComplete
    <2>4. heard' \in [call : Calls, args : Seq(Bytes)]
        BY <1>c, <2>2, <2>3, HeardIsTyped
    <2> QED BY <1>13, <2>4 DEF ValueComplete, Elsewhere, strings
<1>14. CASE TooManyHeaders
    BY <1>14, <1>b, <1>c DEF TooManyHeaders, Stop, Rejects, Complete, Elsewhere, store, strings
<1>15. CASE MessageBegin
    BY <1>15 DEF MessageBegin, Goes, Aside, store, strings, handler
<1>16. CASE HeadersComplete
    BY <1>16, <1>b, <1>c DEF HeadersComplete, Stop, Goes, Returned, Aside, Ongoing, store, strings
<1>17. CASE Body
    BY <1>17, <1>b, <1>c DEF Body, Stop, Goes, Returned, Aside, Ongoing, store, strings
<1>18. CASE MessageComplete
    BY <1>18, <1>b, <1>c DEF MessageComplete, Stop, Goes, Returned, Aside, Ongoing, store, strings
<1>19. CASE Malformed
    BY <1>19 DEF Malformed, Stop, Aside, Ongoing, store, strings, handler
<1>20. CASE BufferEnds
    BY <1>20 DEF BufferEnds, Stop, Aside, Ongoing, store, strings, handler
<1>21. CASE Over
    BY <1>21 DEF Over, vars, store, strings, tokens, handler
<1>22. CASE TrailersBegin
    BY <1>22 DEF TrailersBegin, Goes, Aside, store, strings, handler
<1>23. CASE UNCHANGED vars
    BY <1>23 DEF vars, store, strings, tokens, handler
<1> QED
    BY <1>1, <1>2, <1>3, <1>4, <1>5, <1>6, <1>7, <1>8, <1>9, <1>10, <1>11, <1>12,
       <1>13, <1>14, <1>15, <1>16, <1>17, <1>18, <1>19, <1>20, <1>21, <1>22, <1>23 DEF Next

\* Every variable of the parser keeps its type, what it hands over included.
THEOREM TypeInvariant == Spec => []TypeOK
<1>1. Init => Flags /\ Positions /\ ErrorInv /\ CutInv
    <2>1. Init => Flags
        BY DEF Init, Flags
    <2>2. Init => Positions
        BY LimitsAssumption DEF Init, Positions, Events
    <2>3. Init => ErrorInv
        BY DEF Init, ErrorInv
    <2>4. Init => CutInv
        BY DEF Init, CutInv, Places
    <2> QED BY <2>1, <2>2, <2>3, <2>4
<1>2. Init => Texts
    <2>1. <<>> \in Bytes /\ <<>> \in Seq(Bytes)
        BY DEF Bytes
    <2> QED BY <2>1 DEF Init, Texts, Calls
<1>3. Stored /\ ErrorInv /\ CutInv /\ Flags /\ Positions /\ Texts => TypeOK
    BY DEF TypeOK, Stored, StoreType, ErrorInv, CutInv, Places, Flags, Positions, Texts, Bytes
<1> QED
    BY <1>1, <1>2, <1>3, StoredInit, StoredNext, ErrorNext, CutNext, FlagsStep, PositionsStep,
       TextsStep, PTL DEF Spec

-----------------------------------------------------------------------------
(* Within the first message the buffer is not reset, and what is kept of a token is what has  *)
(* been seen of it: llhttp is in one token, whose bytes are the last in the buffer, and the    *)
(* numbers of the tokens tell a field and the value before it apart.  A field that follows one *)
(* without a value is appended to it: the field is then only the end of what is kept.          *)

AtEnd(k)  == pos[k] + len[k] = Len(buffer)
Unseen(S) == \A k \in S : len[k] = 0 /\ whole[k] = <<>>
Newest(k) == View(k) = whole[k] /\ (len[k] > 0 => Started(k) /\ AtEnd(k))
FirstTokens == \A k \in Kinds : whole[k] # <<>> => whole[k][1] <= token
OwnField == \E u \in Bytes : View("field") = u \o whole["field"] /\ (bare \/ u = <<>>)

InMethod  == method = <<>> /\ Newest("method") /\ Unseen(Kinds \ {"method"})
InUrl     == method = whole["method"] /\ Newest("url") /\ Unseen({"version", "field", "value"})
InVersion == Unseen({"field", "value"})
InField ==
    /\ len["value"] = 0
    /\ len["field"] > 0 => AtEnd("field")
    /\ due => Started("field")
    /\ Started("field") => len["field"] > 0 /\ ~Started("value") /\ OwnField
    /\ ~Started("field") /\ len["field"] > 0 => bare
InValue ==
    /\ len["field"] > 0 /\ OwnField
    /\ ~(Started("field") /\ Started("value"))
    /\ due => ~Started("field")
    /\ len["value"] = 0 => ~Started("value") /\ AtEnd("field")
    /\ len["value"] > 0 => Started("value") /\ AtEnd("value") /\ View("value") = whole["value"]
Inside ==
    /\ event # "MessageComplete"
    /\ FirstTokens
    /\ at = "method" => InMethod
    /\ at = "url" => InUrl
    /\ at = "version" => InVersion
    /\ at \in {"field", "body"} => InField
    /\ at = "value" => InValue
TokensInv ==
    /\ messages = 0 => at \in {"start", "error"} /\ method = <<>> /\ Unseen(Kinds)
    /\ messages = 1 /\ at \in Kinds \cup {"body"} => Inside
    /\ caller = "executed" /\ result = "error" => at = "error"

\* appendToBuffer adds a piece to the view of its own token, and to no other.
LEMMA ViewsOfKeep ==
    ASSUME Stored, NEW k \in Kinds, NEW n \in 0..MaxPiece, Keep(k, n), len[k] > 0 => AtEnd(k)
    PROVE  /\ View(k)' = View(k) \o [b \in 1..n |-> token']
           /\ AtEnd(k)'
           /\ len'[k] = len[k] + n
           /\ n = 0 => buffer' = buffer
           /\ \A j \in Kinds \ {k} : View(j)' = View(j) /\ len'[j] = len[j] /\ pos'[j] = pos[j]
<1> DEFINE piece == [b \in 1..n |-> token']
<1>1. n \in Nat /\ Piece(k, n)
    BY LimitsAssumption DEF Keep
<1>2. token' \in Nat /\ pos' \in [Kinds -> Nat]
    BY <1>1, PieceIsSafe
<1>3. piece \in Seq(Nat) /\ Len(piece) = n
    BY <1>1, <1>2
<1>4. buffer' = buffer \o piece /\ len' = [len EXCEPT ![k] = @ + n]
    BY DEF Keep
<1>5. buffer \in Seq(Nat) /\ len \in [Kinds -> Nat] /\ pos \in [Kinds -> Nat]
      /\ \A j \in Kinds : len[j] > 0 => pos[j] + len[j] <= Len(buffer)
    BY DEF Stored, StoreType, InBounds
<1>6. Len(buffer) \in Nat /\ Len(buffer') = Len(buffer) + n
    BY <1>3, <1>4, <1>5
<1>7. len'[k] = len[k] + n /\ \A j \in Kinds \ {k} : len'[j] = len[j]
    BY <1>1, <1>4, <1>5
<1>8. pos'[k] + len[k] = Len(buffer) /\ \A j \in Kinds \ {k} : pos'[j] = pos[j]
    BY <1>1, <1>5 DEF Piece, AtEnd
<1>9. pos'[k] \in 0..Len(buffer) /\ pos'[k] + len'[k] = Len(buffer) + n
    <2>1. pos'[k] \in Nat /\ len[k] \in Nat
        BY <1>2, <1>5
    <2>2. \A p, l, m, e \in Nat : p + l = m /\ e = l + n => p \in 0..m /\ p + e = m + n
        BY <1>1
    <2>3. len'[k] \in Nat /\ len'[k] = len[k] + n
        BY <1>1, <1>7, <2>1
    <2>4. Len(buffer) \in Nat /\ pos'[k] + len[k] = Len(buffer)
        BY <1>6, <1>8
    <2> HIDE DEF piece
    <2> QED BY <2>1, <2>2, <2>3, <2>4
<1>10. View(k)' = SubSeq(buffer, pos'[k] + 1, Len(buffer)) \o piece
    <2>1. View(k)' = SubSeq(buffer', pos'[k] + 1, pos'[k] + len'[k])
        BY DEF View
    <2> HIDE DEF piece
    <2> QED BY <1>3, <1>4, <1>5, <1>9, <2>1, PartToTheEnd
<1>11. SubSeq(buffer, pos'[k] + 1, Len(buffer)) = View(k)
    <2>0. len[k] \in Nat /\ pos[k] \in Nat /\ pos'[k] \in Nat
        BY <1>2, <1>5
    <2>1. CASE len[k] > 0
        <3>1. pos'[k] = pos[k]
            BY <1>1, <2>0, <2>1 DEF Piece
        <3> QED BY <1>8, <3>1 DEF View
    <2>2. CASE len[k] = 0
        <3>1. View(k) = <<>>
            BY <1>5, <2>0, <2>2, NoPart DEF View
        <3>2. pos'[k] = Len(buffer)
            BY <1>8, <2>0, <2>2
        <3> QED BY <1>5, <1>6, <3>1, <3>2, NoPart
    <2> QED BY <2>0, <2>1, <2>2
<1>12. ASSUME NEW j \in Kinds \ {k} PROVE View(j)' = View(j)
    <2>1. View(j)' = SubSeq(buffer', pos[j] + 1, pos[j] + len[j])
        BY <1>7, <1>8 DEF View
    <2>0. len[j] \in Nat /\ pos[j] \in Nat /\ pos[j] + len[j] \in Nat
        BY <1>5
    <2>2. CASE len[j] > 0
        <3>1. pos[j] + len[j] <= Len(buffer)
            BY <1>5, <2>2
        <3> DEFINE last == pos[j] + len[j]
        <3> HIDE DEF piece, last
        <3>2. last \in Nat /\ last <= Len(buffer)
            BY <2>0, <3>1 DEF last
        <3>3. SubSeq(buffer \o piece, pos[j] + 1, last) = SubSeq(buffer, pos[j] + 1, last)
            <4>1. piece \in Seq(Nat) /\ buffer \in Seq(Nat) /\ pos[j] \in Nat
                BY <1>3, <1>5, <2>0
            <4> QED BY <3>2, <4>1, PartBefore
        <3> QED BY <1>4, <2>1, <3>3 DEF View, last
    <2>3. CASE len[j] = 0
        <3>1. buffer' \in Seq(Nat)
            BY <1>3, <1>4, <1>5
        <3>2. pos[j] + len[j] = pos[j]
            BY <2>0, <2>3
        <3>3. View(j)' = <<>>
            BY <2>0, <2>1, <3>1, <3>2, NoPart
        <3>4. View(j) = <<>>
            BY <1>5, <2>0, <3>2, NoPart DEF View
        <3> QED BY <3>3, <3>4
    <2> QED BY <2>0, <2>2, <2>3
<1>13. n = 0 => buffer' = buffer
    BY <1>3, <1>4, <1>5
<1>14. AtEnd(k)'
    BY <1>6, <1>9 DEF AtEnd
<1> QED BY <1>7, <1>8, <1>10, <1>11, <1>12, <1>13, <1>14

\* The same of the tokens themselves: a piece starts its token, or goes on with it.
LEMMA WholeOfKeep ==
    ASSUME Stored, Texts, FirstTokens, NEW k \in Kinds, NEW n \in 0..MaxPiece, Keep(k, n)
    PROVE  /\ [b \in 1..n |-> token'] \in Bytes
           /\ whole'[k] = (IF Started(k) THEN whole[k] ELSE <<>>) \o [b \in 1..n |-> token']
           /\ \A j \in Kinds \ {k} : whole'[j] = whole[j]
           /\ n > 0 \/ Started(k) => Started(k)'
           /\ n = 0 /\ ~Started(k) => ~Started(k)'
           /\ k \notin {"url", "value"} => Started(k)'
           /\ \A j \in Kinds \ {k} : Started(j)' <=> Started(j) /\ Started(k)
           /\ FirstTokens'
<1> DEFINE piece == [b \in 1..n |-> token']
           before == IF Started(k) THEN whole[k] ELSE <<>>
<1>1. n \in Nat /\ Piece(k, n)
    BY LimitsAssumption DEF Keep
<1>2. token \in Nat /\ token' = IF Started(k) THEN token ELSE token + 1
    BY <1>1 DEF Piece, Stored, StoreType
<1>3. piece \in Seq(Nat) /\ Len(piece) = n /\ (n > 0 => piece[1] = token')
    BY <1>1, <1>2
<1>4. whole \in [Kinds -> Seq(Nat)]
    BY DEF Texts, Bytes
<1>5. whole' = [whole EXCEPT ![k] = before \o piece]
    BY <1>1 DEF Piece
<1>6. whole'[k] = before \o piece /\ \A j \in Kinds \ {k} : whole'[j] = whole[j]
    BY <1>4, <1>5
<1>7. before \in Seq(Nat) /\ (Started(k) => before # <<>> /\ before[1] = token)
    BY <1>4 DEF Started
<1>8. ASSUME Started(k) PROVE whole'[k] # <<>> /\ whole'[k][1] = token'
    <2>1. before \in Seq(Nat) /\ before # <<>> /\ before[1] = token'
        BY <1>2, <1>7, <1>8
    <2> HIDE DEF before, piece
    <2>2. Len(before) \in Nat \ {0}
        BY <2>1
    <2>3. Len(before \o piece) = Len(before) + n
        BY <1>3, <2>1, ConcatProperties
    <2>4. (before \o piece)[1] = before[1]
        <3>1. 1 \in 1..Len(before) + Len(piece) /\ 1 <= Len(before)
            BY <1>1, <1>3, <2>2
        <3> QED BY <1>3, <2>1, <3>1, ConcatProperties
    <2>5. before \o piece # <<>>
        BY <1>1, <2>2, <2>3
    <2> QED BY <1>6, <2>1, <2>4, <2>5
<1>9. ASSUME ~Started(k) PROVE whole'[k] = piece
    <2> HIDE DEF piece
    <2> QED BY <1>3, <1>6, <1>9
<1>10. n > 0 \/ Started(k) => Started(k)'
    BY <1>1, <1>3, <1>8, <1>9 DEF Started
<1>11. n = 0 /\ ~Started(k) => ~Started(k)'
    BY <1>3, <1>9 DEF Started
<1>12. \A j \in Kinds \ {k} : Started(j)' <=> Started(j) /\ Started(k)
    BY <1>2, <1>4, <1>6 DEF Started, FirstTokens
<1>13. FirstTokens'
    <2>1. ASSUME NEW j \in Kinds, j # k, whole'[j] # <<>> PROVE whole'[j][1] <= token'
        <3>1. whole[j][1] <= token /\ whole[j][1] \in Nat
            BY <1>4, <1>6, <2>1 DEF FirstTokens
        <3> QED BY <1>2, <1>6, <2>1, <3>1
    <2>2. ASSUME whole'[k] # <<>> PROVE whole'[k][1] <= token'
        BY <1>1, <1>2, <1>3, <1>8, <1>9, <2>2
    <2> QED BY <2>1, <2>2 DEF FirstTokens
<1>14. k \notin {"url", "value"} => Started(k)'
    BY <1>1, <1>10 DEF Piece
<1> QED BY <1>3, <1>6, <1>10, <1>11, <1>12, <1>13, <1>14 DEF Bytes

\* A token of which everything is kept stays so.
LEMMA NewestOfKeep ==
    ASSUME Stored, Texts, FirstTokens, NEW k \in Kinds, NEW n \in 0..MaxPiece, Keep(k, n),
           Newest(k), k # "value"
    PROVE  Newest(k)'
<1> DEFINE piece == [b \in 1..n |-> token']
<1>1. View(k)' = View(k) \o piece /\ AtEnd(k)'
    BY ViewsOfKeep DEF Newest
<1>2. /\ whole'[k] = (IF Started(k) THEN whole[k] ELSE <<>>) \o piece
      /\ n > 0 \/ Started(k) => Started(k)'
    BY WholeOfKeep
<1>3. ~Started(k) => whole[k] = <<>>
    <2>1. len[k] \in Nat /\ pos[k] \in Nat /\ buffer \in Seq(Nat)
        BY DEF Stored, StoreType
    <2>2. len[k] = 0 => View(k) = <<>>
        BY <2>1, NoPart DEF View
    <2> QED BY <2>1, <2>2 DEF Newest
<1>4. View(k)' = whole'[k]
    <2> HIDE DEF piece
    <2> QED BY <1>1, <1>2, <1>3 DEF Newest
<1>5. len'[k] > 0 => Started(k)'
    <2>1. len'[k] = len[k] + n
        BY ViewsOfKeep DEF Newest
    <2>2. len[k] \in Nat /\ n \in Nat
        BY LimitsAssumption DEF Stored, StoreType
    <2> QED BY <1>2, <2>1, <2>2 DEF Newest
<1> QED BY <1>1, <1>4, <1>5 DEF Newest

\* What is kept of a field ends with the field, piece by piece.
LEMMA OwnFieldGrows ==
    ASSUME Stored, Texts, FirstTokens, NEW n \in 0..MaxPiece, Keep("field", n), InField
    PROVE  OwnField'
<1> DEFINE piece == [b \in 1..n |-> token']
           view  == View("field")
           old   == whole["field"]
<1>1. "field" \in Kinds
    BY DEF Kinds
<1>2. view' = view \o piece
    BY <1>1, ViewsOfKeep DEF InField
<1>3. whole'["field"] = (IF Started("field") THEN old ELSE <<>>) \o piece /\ piece \in Bytes
    BY <1>1, WholeOfKeep
<1>4. bare' = bare
    BY DEF Keep, Piece
<1>5. old \in Bytes /\ len["field"] \in Nat /\ pos["field"] \in Nat /\ buffer \in Seq(Nat)
    BY <1>1 DEF Texts, Stored, StoreType
<1>6. view \in Bytes /\ (len["field"] = 0 => view = <<>>)
    <2>1. CASE len["field"] > 0
        BY <1>1, <2>1, ViewIsText
    <2>2. CASE len["field"] = 0
        <3>1. view = <<>>
            BY <1>5, <2>2, NoPart DEF View
        <3> HIDE DEF view
        <3> QED BY <3>1 DEF Bytes
    <2> QED BY <1>5, <2>1, <2>2
<1> HIDE DEF piece, view, old
<1>7. CASE Started("field")
    <2>1. PICK u \in Bytes : view = u \o old /\ (bare \/ u = <<>>)
        BY <1>7 DEF InField, OwnField, view, old
    <2>2. view' = u \o (old \o piece)
        <3>1. u \in Seq(Nat) /\ old \in Seq(Nat) /\ piece \in Seq(Nat)
            BY <1>3, <1>5 DEF Bytes
        <3>2. (u \o old) \o piece = u \o (old \o piece)
            <4>1. Grouped(u, old, piece)
                BY <3>1, Regrouped
            <4> QED BY <4>1 DEF Grouped
        <3> QED BY <1>2, <2>1, <3>2
    <2>3. whole'["field"] = old \o piece
        BY <1>3, <1>7
    <2> QED BY <1>4, <2>1, <2>2, <2>3 DEF OwnField, view
<1>8. CASE ~Started("field")
    <2>1. whole'["field"] = piece
        BY <1>3, <1>8 DEF Bytes
    <2>2. bare \/ view = <<>>
        BY <1>5, <1>6, <1>8 DEF InField
    <2> QED BY <1>2, <1>4, <1>6, <2>1, <2>2 DEF OwnField, view
<1> QED BY <1>7, <1>8

\* A piece that is kept leaves the picture of its message right.
LEMMA KeepTokens ==
    ASSUME Stored, Texts, Inside, NEW k \in Kinds, NEW n \in 0..MaxPiece, Keep(k, n)
    PROVE  Inside'
<1>1. at = k /\ at' = at /\ method' = method /\ bare' = bare /\ event' = EventOf(k)
    BY DEF Keep, Piece, strings
<1>2. event' # "MessageComplete"
    BY <1>1 DEF EventOf, Inside
<1>3. FirstTokens /\ FirstTokens'
    BY WholeOfKeep DEF Inside
<1>4. \A j \in Kinds \ {k} : whole'[j] = whole[j]
    BY <1>3, WholeOfKeep
<1>5. CASE k = "method"
    <2>1. InMethod /\ Newest(k)
        BY <1>1, <1>5 DEF Inside, InMethod
    <2>2. Newest(k)'
        BY <1>3, <1>5, <2>1, NewestOfKeep
    <2>3. \A j \in Kinds \ {k} : len'[j] = len[j]
        BY <2>1, ViewsOfKeep DEF Newest
    <2> QED BY <1>1, <1>2, <1>3, <1>4, <1>5, <2>1, <2>2, <2>3 DEF Inside, InMethod, Unseen
<1>6. CASE k = "url"
    <2>1. InUrl /\ Newest(k)
        BY <1>1, <1>6 DEF Inside, InUrl
    <2>2. Newest(k)'
        BY <1>3, <1>6, <2>1, NewestOfKeep
    <2>3. \A j \in Kinds \ {k} : len'[j] = len[j]
        BY <2>1, ViewsOfKeep DEF Newest
    <2>4. {"method", "version", "field", "value"} \subseteq Kinds \ {k}
        BY <1>6 DEF Kinds
    <2>5. method' = whole'["method"]
        BY <1>1, <1>4, <2>1, <2>4 DEF InUrl
    <2>6. Unseen({"version", "field", "value"})'
        BY <1>4, <2>1, <2>3, <2>4 DEF InUrl, Unseen
    <2> QED BY <1>1, <1>2, <1>3, <1>6, <2>2, <2>5, <2>6 DEF Inside, InUrl
<1>7. CASE k = "version"
    <2>1. InVersion
        BY <1>1, <1>7 DEF Inside
    <2>2. len'["field"] = len["field"] /\ len'["value"] = len["value"]
        BY <1>7 DEF Keep, Stored, StoreType, Kinds
    <2>3. whole'["field"] = whole["field"] /\ whole'["value"] = whole["value"]
        BY <1>4, <1>7 DEF Kinds
    <2> QED BY <1>1, <1>2, <1>3, <1>7, <2>1, <2>2, <2>3 DEF Inside, InVersion, Unseen
<1>8. CASE k = "field"
    <2>1. InField
        BY <1>1, <1>8 DEF Inside
    <2>2. AtEnd(k)' /\ len'["value"] = 0 /\ len'[k] = len[k] + n
        BY <1>8, <2>1, ViewsOfKeep DEF InField, Kinds
    <2>3. Started(k)' /\ (n > 0 \/ Started(k))
        BY <1>3, <1>8, WholeOfKeep DEF Keep, Piece
    <2>4. len'[k] > 0
        BY <1>8, <2>1, <2>2, <2>3, LimitsAssumption DEF InField, Stored, StoreType
    <2>5. ~Started("value")'
        BY <1>3, <1>8, <2>1, WholeOfKeep DEF InField, Kinds
    <2>6. OwnField'
        BY <1>3, <1>8, <2>1, OwnFieldGrows
    <2>7. InField'
        BY <1>8, <2>2, <2>3, <2>4, <2>5, <2>6 DEF InField
    <2> QED BY <1>1, <1>2, <1>3, <1>8, <2>7 DEF Inside
<1>9. CASE k = "value"
    <2>1. InValue
        BY <1>1, <1>9 DEF Inside
    <2>2. "field" \in Kinds \ {k} /\ len[k] \in Nat /\ n \in Nat
        BY <1>9, LimitsAssumption DEF Kinds, Stored, StoreType
    <2>3. len[k] > 0 => AtEnd(k)
        BY <1>9, <2>1 DEF InValue
    <2>4. /\ View(k)' = View(k) \o [b \in 1..n |-> token']
          /\ AtEnd(k)' /\ len'[k] = len[k] + n /\ (n = 0 => buffer' = buffer)
          /\ View("field")' = View("field") /\ len'["field"] = len["field"]
          /\ pos'["field"] = pos["field"]
        BY <2>2, <2>3, ViewsOfKeep
    <2>5. /\ [b \in 1..n |-> token'] \in Bytes
          /\ whole'[k] = (IF Started(k) THEN whole[k] ELSE <<>>) \o [b \in 1..n |-> token']
          /\ n > 0 \/ Started(k) => Started(k)'
          /\ n = 0 /\ ~Started(k) => ~Started(k)'
          /\ Started("field")' <=> Started("field") /\ Started(k)
        BY <1>3, <2>2, WholeOfKeep
    <2>6. ~Started("field")'
        BY <1>9, <2>1, <2>5 DEF InValue
    <2>7. OwnField'
        BY <1>1, <1>4, <2>1, <2>2, <2>4 DEF InValue, OwnField
    <2>8. ASSUME len'[k] = 0 PROVE ~Started(k)' /\ AtEnd("field")'
        <3>1. n = 0 /\ len[k] = 0
            BY <2>2, <2>4, <2>8
        <3>2. ~Started(k) /\ AtEnd("field")
            BY <1>9, <2>1, <3>1 DEF InValue
        <3>3. AtEnd("field")'
            BY <2>4, <3>1, <3>2 DEF AtEnd
        <3> QED BY <2>5, <3>1, <3>2, <3>3
    <2>9. ASSUME len'[k] > 0 PROVE Started(k)' /\ AtEnd(k)' /\ View(k)' = whole'[k]
        <3>1. n > 0 \/ len[k] > 0
            BY <2>2, <2>4, <2>9
        <3>2. len[k] > 0 <=> Started(k)
            BY <1>9, <2>1, <2>2 DEF InValue
        <3>3. len[k] > 0 => View(k) = whole[k]
            BY <1>9, <2>1 DEF InValue
        <3>4. len[k] = 0 => View(k) = <<>>
            <4>1. buffer \in Seq(Nat) /\ pos[k] \in Nat
                BY DEF Stored, StoreType
            <4> QED BY <4>1, NoPart DEF View
        <3> DEFINE piece == [b \in 1..n |-> token']
        <3> HIDE DEF piece
        <3>5. View(k)' = whole'[k]
            <4>1. View(k)' = View(k) \o piece
                BY <2>4 DEF piece
            <4>2. whole'[k] = (IF Started(k) THEN whole[k] ELSE <<>>) \o piece
                BY <2>5 DEF piece
            <4>3. View(k) = IF Started(k) THEN whole[k] ELSE <<>>
                BY <2>2, <3>2, <3>3, <3>4
            <4> QED BY <4>1, <4>2, <4>3
        <3> QED BY <2>4, <2>5, <3>1, <3>2, <3>5
    <2>10. InValue'
        BY <1>9, <2>1, <2>4, <2>6, <2>7, <2>8, <2>9 DEF InValue
    <2> QED BY <1>1, <1>2, <1>3, <1>9, <2>10 DEF Inside
<1> QED BY <1>5, <1>6, <1>7, <1>8, <1>9 DEF Kinds

\* A step that leaves what is kept and seen alone, and stays where it is or goes from the fields
\* to the body or back, changes nothing of it.
LEMMA InsideStays ==
    ASSUME Inside, at' = at \/ (at \in {"field", "body"} /\ at' \in {"field", "body"}),
           event' # "MessageComplete", due' = due,
           UNCHANGED <<buffer, pos, len, method, token, whole, bare>>
    PROVE  Inside'
<1>1. /\ View("method")' = View("method") /\ View("url")' = View("url")
      /\ View("field")' = View("field") /\ View("value")' = View("value")
    BY DEF View
<1>2. /\ Started("method")' = Started("method") /\ Started("url")' = Started("url")
      /\ Started("field")' = Started("field") /\ Started("value")' = Started("value")
    BY DEF Started
<1>3. /\ AtEnd("method")' = AtEnd("method") /\ AtEnd("url")' = AtEnd("url")
      /\ AtEnd("field")' = AtEnd("field") /\ AtEnd("value")' = AtEnd("value")
    BY DEF AtEnd
<1>4. FirstTokens => FirstTokens'
    BY DEF FirstTokens
<1>5. OwnField => OwnField'
    BY <1>1 DEF OwnField
<1>6. /\ Newest("method") => Newest("method")'
      /\ Newest("url") => Newest("url")'
    BY <1>1, <1>2, <1>3 DEF Newest
<1>7. /\ InMethod => InMethod'
      /\ InUrl => InUrl'
      /\ InVersion => InVersion'
    BY <1>6 DEF InMethod, InUrl, InVersion, Unseen
<1>8. InField => InField'
    BY <1>2, <1>3, <1>5 DEF InField
<1>9. InValue => InValue'
    BY <1>1, <1>2, <1>3, <1>5 DEF InValue
<1> QED BY <1>4, <1>7, <1>8, <1>9 DEF Inside

\* So do the completion callbacks: they move on to the next token of the grammar.
LEMMA CompletesInside ==
    ASSUME Stored, Texts, Inside, messages = 1,
           MethodComplete \/ UrlComplete \/ VersionComplete \/ FieldComplete \/ ValueEmpty
             \/ ValueComplete
    PROVE  at' \in Kinds => Inside'
<1>1. /\ token' = token /\ whole' = whole /\ pos' = pos /\ buffer' = buffer /\ event' = event
      /\ due /\ ~due'
    BY DEF MethodComplete, UrlComplete, VersionComplete, FieldComplete, ValueEmpty, ValueComplete,
       Complete, Elsewhere, store
<1>2. FirstTokens' /\ event' # "MessageComplete"
    BY <1>1 DEF Inside, FirstTokens
<1>3. \A k \in Kinds : Started(k)' <=> Started(k)
    BY <1>1 DEF Started
<1>4. \A k \in Kinds : len[k] \in Nat /\ pos[k] \in Nat /\ (len[k] = 0 => View(k) = <<>>)
    <2>1. ASSUME NEW k \in Kinds PROVE len[k] \in Nat /\ pos[k] \in Nat /\ (len[k] = 0 => View(k) = <<>>)
        <3>1. len[k] \in Nat /\ pos[k] \in Nat /\ buffer \in Seq(Nat)
            BY DEF Stored, StoreType
        <3> QED BY <3>1, NoPart DEF View
    <2> QED BY <2>1
<1>5. {"method", "url", "version", "field", "value"} = Kinds
    BY DEF Kinds
<1>6. CASE MethodComplete
    <2>1. at = "method" /\ at' = "url" /\ len' = len /\ method' = IF len["method"] > 0 THEN View("method") ELSE method
        BY <1>6 DEF MethodComplete, Complete, Goes, store
    <2>2. InMethod
        BY <2>1 DEF Inside
    <2>3. method' = whole["method"]
        BY <1>4, <1>5, <2>1, <2>2 DEF InMethod, Newest
    <2>4. len["url"] = 0 /\ whole["url"] = <<>> /\ View("url") = <<>>
        BY <1>4, <1>5, <2>2 DEF InMethod, Unseen
    <2>5. View("url")' = View("url")
        BY <1>1, <2>1 DEF View
    <2>6. InUrl'
        BY <1>1, <1>5, <2>1, <2>2, <2>3, <2>4, <2>5 DEF InMethod, InUrl, Newest, Unseen
    <2> QED BY <1>2, <2>1, <2>6 DEF Inside
<1>7. CASE UrlComplete
    <2>1. at = "url" /\ at' \in {"version", "field", "error"} /\ len' = len
        BY <1>7 DEF UrlComplete, Complete, Returned, Goes, store
    <2>2. InUrl
        BY <2>1 DEF Inside
    <2>3. InVersion'
        BY <1>1, <2>1, <2>2 DEF InUrl, InVersion, Unseen
    <2>4. len["field"] = 0 /\ len["value"] = 0 /\ ~Started("field")
        BY <2>2 DEF InUrl, Unseen, Started
    <2>5. InField'
        BY <1>1, <1>3, <1>5, <2>1, <2>4 DEF InField
    <2> QED BY <1>2, <1>5, <2>1, <2>3, <2>5 DEF Inside
<1>8. CASE VersionComplete
    <2>1. at = "version" /\ at' = "field" /\ len' = len
        BY <1>8 DEF VersionComplete, Complete, Goes, store
    <2>2. InVersion
        BY <2>1 DEF Inside
    <2>3. len["field"] = 0 /\ len["value"] = 0 /\ ~Started("field")
        BY <2>2 DEF InVersion, Unseen, Started
    <2>4. InField'
        BY <1>1, <1>3, <1>5, <2>1, <2>3 DEF InField
    <2> QED BY <1>2, <2>1, <2>4 DEF Inside
<1>9. CASE FieldComplete
    <2>1. at = "field" /\ at' = "value" /\ len' = len /\ bare' = bare
        BY <1>9 DEF FieldComplete, Complete, Goes, store
    <2>2. InField
        BY <2>1 DEF Inside
    <2>3. len["field"] > 0 /\ OwnField /\ ~Started("value") /\ AtEnd("field") /\ len["value"] = 0
        BY <1>1, <2>2 DEF InField
    <2>4. OwnField' /\ AtEnd("field")'
        BY <1>1, <2>1, <2>3 DEF OwnField, AtEnd, View
    <2>5. InValue'
        BY <1>1, <1>3, <1>5, <2>1, <2>3, <2>4 DEF InValue
    <2> QED BY <1>2, <2>1, <2>5 DEF Inside
<1>10. CASE ValueEmpty
    <2>1. at = "value" /\ at' = "field" /\ len' = len /\ bare' /\ (len["field"] = 0 \/ len["value"] = 0)
        BY <1>10 DEF ValueEmpty, Complete, Goes, store
    <2>2. InValue
        BY <2>1 DEF Inside
    <2>3. len["value"] = 0 /\ AtEnd("field") /\ ~Started("field")
        BY <1>1, <2>1, <2>2 DEF InValue
    <2>4. AtEnd("field")'
        BY <1>1, <2>1, <2>3 DEF AtEnd
    <2>5. InField'
        BY <1>1, <1>3, <1>5, <2>1, <2>3, <2>4 DEF InField
    <2> QED BY <1>2, <2>1, <2>5 DEF Inside
<1>11. CASE ValueComplete
    <2>1. at = "value" /\ at' \in {"field", "error"}
        BY <1>11 DEF ValueComplete, Complete, Returned, Goes
    <2>2. InValue
        BY <2>1 DEF Inside
    <2>3. len'["field"] = 0 /\ len'["value"] = 0
        BY <1>5, <1>11 DEF ValueComplete, Stored, StoreType
    <2>4. ~Started("field")'
        BY <1>1, <1>3, <1>5, <2>2 DEF InValue
    <2>5. InField'
        BY <1>1, <2>3, <2>4 DEF InField
    <2>6. at' = "field" => Inside'
        BY <1>2, <2>5 DEF Inside
    <2> QED BY <1>5, <2>1, <2>6
<1> QED BY <1>6, <1>7, <1>8, <1>9, <1>10, <1>11

\* No step of the first message resets the buffer before it is complete, or in error.
LEMMA InsideNext ==
    ASSUME Stored, Texts, TokensInv, messages = 1, messages' = 1, at' \in Kinds \cup {"body"}, [Next]_vars
    PROVE  Inside'
<1> USE DEF store, strings, tokens
<1>0. Kinds = {"method", "url", "version", "field", "value"}
    BY DEF Kinds
<1>1. at \in Kinds \cup {"body"} => Inside
    BY DEF TokensInv
<1>2. CASE Token
    <2>1. PICK k \in Kinds, n \in 0..MaxPiece : Keep(k, n) \/ Overflow(k, n)
        BY <1>2 DEF Token
    <2>2. ~Overflow(k, n)
        BY <1>0 DEF Overflow, Rejects
    <2>3. Keep(k, n)
        BY <2>1, <2>2
    <2>4. Inside
        BY <1>1, <2>3 DEF Keep, Piece
    <2> QED BY <2>3, <2>4, KeepTokens
<1>3. CASE MethodComplete \/ UrlComplete \/ VersionComplete \/ FieldComplete \/ ValueEmpty
             \/ ValueComplete
    <2>1. at \in Kinds /\ at' # "body"
        BY <1>0, <1>3 DEF MethodComplete, UrlComplete, VersionComplete, FieldComplete, ValueEmpty,
           ValueComplete, Complete, Goes, Returned
    <2> QED BY <1>1, <1>3, <2>1, CompletesInside
<1>4. CASE TooManyHeaders
    BY <1>0, <1>4 DEF TooManyHeaders, Rejects
<1>5. CASE MessageBegin
    BY <1>5 DEF MessageBegin
<1>6. CASE MessageComplete \/ Malformed
    BY <1>0, <1>6 DEF MessageComplete, Malformed, Returned, Goes
<1>7. CASE BufferEnds
    BY <1>1, <1>7, InsideStays DEF BufferEnds, Aside, Inside
<1>8. CASE Execute \/ NoMoreBytes \/ ExecutePauses
    BY <1>1, <1>8, InsideStays DEF Execute, NoMoreBytes, ExecutePauses, Inside
<1>9. CASE ExecuteReturns
    <2>1. at' = at /\ event' = event
        BY <1>9 DEF ExecuteReturns
    <2>2. event # "MessageComplete"
        BY <1>1, <2>1 DEF Inside
    <2> QED BY <1>1, <1>9, <2>1, <2>2, InsideStays DEF ExecuteReturns, Inside
<1>10. CASE ExecuteFails
    BY <1>0, <1>10 DEF ExecuteFails, TokensInv
<1>11. CASE MarkRead
    <2>1. event' \in {event, "Error"} /\ at' = at
        BY <1>11 DEF MarkRead, ReportError
    <2> QED BY <1>1, <1>11, <2>1, InsideStays DEF MarkRead, Inside
<1>12. CASE Over \/ UNCHANGED vars
    BY <1>1, <1>12, InsideStays DEF Over, vars, Inside
<1>13. CASE HeadersComplete \/ Body \/ TrailersBegin
    <2>1. at \in {"field", "body"} /\ Inside /\ at' \in {"field", "body"}
        BY <1>0, <1>1, <1>13 DEF HeadersComplete, Body, TrailersBegin, Returned, Goes
    <2>2. event' # "MessageComplete"
        BY <1>13, <2>1 DEF HeadersComplete, Body, TrailersBegin, Inside
    <2>3. due' = due /\ UNCHANGED <<buffer, pos, len, method, token, whole, bare>>
        BY <1>13 DEF HeadersComplete, Body, TrailersBegin, Aside
    <2> QED BY <2>1, <2>2, <2>3, InsideStays
<1> QED BY <1>2, <1>3, <1>4, <1>5, <1>6, <1>7, <1>8, <1>9, <1>10, <1>11, <1>12, <1>13 DEF Next

\* Messages are counted by llhttp's on_message_begin alone.
LEMMA MessagesStep ==
    ASSUME [Next]_vars
    PROVE  messages' = messages \/ (messages' = messages + 1 /\ MessageBegin)
BY DEF Next, vars, tokens, Execute, NoMoreBytes, ExecuteReturns, ExecutePauses, ExecuteFails, MarkRead,
   Token, Keep, Overflow, Piece, MethodComplete, UrlComplete, VersionComplete, FieldComplete,
   ValueEmpty, ValueComplete, TooManyHeaders, Elsewhere, MessageBegin, HeadersComplete, Body,
   TrailersBegin, MessageComplete, Malformed, BufferEnds, Ongoing, Over

\* Before the first message nothing is kept.
LEMMA BeforeNext ==
    ASSUME TokensInv, messages = 0, messages' = 0, [Next]_vars
    PROVE  at' \in {"start", "error"} /\ method' = <<>> /\ Unseen(Kinds)'
<1>1. at \in {"start", "error"} /\ method = <<>> /\ Unseen(Kinds) /\ at \notin Kinds
    BY DEF TokensInv, Kinds
<1>2. ASSUME at' \in {at, "error"}, method' = method, whole' = whole,
             len' \in {len, [k \in Kinds |-> 0]}
      PROVE  at' \in {"start", "error"} /\ method' = <<>> /\ Unseen(Kinds)'
    BY <1>1, <1>2 DEF Unseen
<1> USE DEF store, strings, tokens
<1>3. CASE Execute \/ NoMoreBytes \/ ExecuteReturns \/ ExecutePauses \/ ExecuteFails \/ MarkRead
    BY <1>2, <1>3 DEF Execute, NoMoreBytes, ExecuteReturns, ExecutePauses, ExecuteFails, MarkRead,
       ResetBuffer
<1>4. CASE Token \/ MethodComplete \/ UrlComplete \/ VersionComplete \/ FieldComplete
             \/ ValueEmpty \/ ValueComplete \/ TooManyHeaders
    BY <1>1, <1>4 DEF Token, Keep, Overflow, Piece, MethodComplete, UrlComplete, VersionComplete,
       FieldComplete, ValueEmpty, ValueComplete, TooManyHeaders, Complete, Kinds
<1>5. CASE MessageBegin
    BY <1>5 DEF MessageBegin
<1>6. CASE HeadersComplete \/ Body \/ TrailersBegin \/ MessageComplete
    BY <1>1, <1>6 DEF HeadersComplete, Body, TrailersBegin, MessageComplete, Kinds
<1>7. CASE Malformed \/ BufferEnds
    BY <1>2, <1>7 DEF Malformed, BufferEnds, Aside
<1>8. CASE Over \/ UNCHANGED vars
    BY <1>2, <1>8 DEF Over, vars
<1> QED BY <1>3, <1>4, <1>5, <1>6, <1>7, <1>8 DEF Next

\* llhttp stops with an error where it has failed.
LEMMA FailedAt ==
    ASSUME TokensInv, [Next]_vars, caller' = "executed", result' = "error"
    PROVE  at' = "error"
<1> USE DEF store, strings, tokens, TokensInv
<1>1. CASE Execute \/ NoMoreBytes \/ ExecuteReturns \/ ExecutePauses \/ ExecuteFails \/ MarkRead
    BY <1>1 DEF Execute, NoMoreBytes, ExecuteReturns, ExecutePauses, ExecuteFails, MarkRead, Parsed
<1>2. CASE Token
    BY <1>2 DEF Token, Keep, Overflow, Piece, Executing, Rejects, Stop
<1>3. CASE MethodComplete \/ UrlComplete \/ VersionComplete \/ FieldComplete
             \/ ValueEmpty \/ ValueComplete
    BY <1>3 DEF MethodComplete, UrlComplete, VersionComplete, FieldComplete, ValueEmpty,
       ValueComplete, Complete, Returned, Goes, Stop
<1>4. CASE TooManyHeaders
    BY <1>4 DEF TooManyHeaders, Rejects
<1>5. CASE MessageBegin \/ HeadersComplete \/ Body \/ TrailersBegin \/ MessageComplete \/ Malformed
           \/ BufferEnds
    BY <1>5 DEF MessageBegin, HeadersComplete, Body, TrailersBegin, MessageComplete, Malformed,
       BufferEnds, Executing, Returned, Goes, Stop
<1>6. CASE Over \/ UNCHANGED vars
    BY <1>6 DEF Over, vars
<1> QED BY <1>1, <1>2, <1>3, <1>4, <1>5, <1>6 DEF Next

\* The picture is right in the first message from its beginning on.
LEMMA TokensNext == Stored /\ Positions /\ Texts /\ TokensInv /\ [Next]_vars => TokensInv'
<1> SUFFICES ASSUME Stored, Positions, Texts, TokensInv, [Next]_vars PROVE TokensInv'
    OBVIOUS
<1>1. messages \in Nat /\ (messages' = messages \/ (messages' = messages + 1 /\ MessageBegin))
    BY MessagesStep DEF Positions
<1>2. messages' = 0 => at' \in {"start", "error"} /\ method' = <<>> /\ Unseen(Kinds)'
    BY <1>1, BeforeNext
<1>3. ASSUME messages' = 1, at' \in Kinds \cup {"body"} PROVE Inside'
    <2>1. CASE messages = 1
        BY <1>3, <2>1, InsideNext
    <2>2. CASE messages = 0
        <3>1. MessageBegin /\ method = <<>> /\ Unseen(Kinds)
            BY <1>1, <1>3, <2>2 DEF TokensInv
        <3>2. /\ at' = "method" /\ event' = "MessageBegin" /\ method' = method
              /\ len' = len /\ whole' = whole /\ buffer' = buffer /\ pos' = pos
            BY <3>1 DEF MessageBegin, Goes, Aside, store, strings
        <3>3. FirstTokens' /\ Unseen(Kinds \ {"method"})'
            BY <3>1, <3>2 DEF FirstTokens, Unseen
        <3>4. len["method"] = 0 /\ whole["method"] = <<>>
            BY <3>1 DEF Unseen, Kinds
        <3>5. View("method") = <<>>
            <4>1. buffer \in Seq(Nat) /\ pos["method"] \in Nat
                BY DEF Stored, StoreType, Kinds
            <4> QED BY <3>4, <4>1, NoPart DEF View
        <3>6. View("method")' = View("method")
            BY <3>2 DEF View
        <3>7. InMethod'
            BY <3>1, <3>2, <3>3, <3>4, <3>5, <3>6 DEF InMethod, Newest
        <3> QED BY <3>2, <3>3, <3>7 DEF Inside
    <2> QED BY <1>1, <1>3, <2>1, <2>2
<1>4. caller' = "executed" /\ result' = "error" => at' = "error"
    BY FailedAt
<1> QED BY <1>2, <1>3, <1>4 DEF TokensInv

\* A call carries what it was made with.
LEMMA HeardIs ==
    ASSUME NEW call, NEW args, Hears(call, args)
    PROVE  heard'.call = call /\ heard'.args = args
BY DEF Hears

\* What HandlerIsGivenTheTokens says of one step
GivenTheTokens ==
    heard' # heard /\ messages = 1 =>
         /\ heard'.call = "onMessageBegin" =>
                heard'.args[1] = whole["method"] /\ heard'.args[3] = whole["url"]
         /\ heard'.call = "onHeader" =>
                /\ heard'.args[2] = whole["value"]
                /\ IF bare THEN IsSuffix(whole["field"], heard'.args[1])
                           ELSE heard'.args[1] = whole["field"]

\* The two calls that carry texts carry the tokens' own.
LEMMA TokensGiven == Stored /\ Texts /\ TokensInv /\ [Next]_vars => GivenTheTokens
<1> SUFFICES ASSUME Stored, Texts, TokensInv, [Next]_vars, heard' # heard, messages = 1
             PROVE  GivenTheTokens
    BY DEF GivenTheTokens
<1> USE DEF handler
<1>1. ASSUME NEW call \in {"onHeadersComplete", "onBody", "onMessageComplete", "onError"},
             NEW args, Hears(call, args)
      PROVE  GivenTheTokens
    BY <1>1, HeardIs DEF GivenTheTokens
<1>2. CASE UrlComplete
    <2>1. at = "url" /\ (len["url"] > 0 => Hears("onMessageBegin", <<method, version, View("url")>>))
        BY <1>2 DEF UrlComplete, Complete
    <2>2. len["url"] > 0
        BY <1>2 DEF UrlComplete
    <2>3. heard'.call = "onMessageBegin" /\ heard'.args = <<method, version, View("url")>>
        BY <2>1, <2>2, HeardIs
    <2>4. method = whole["method"] /\ View("url") = whole["url"]
        BY <2>1 DEF TokensInv, Inside, InUrl, Newest, Kinds
    <2> QED BY <2>3, <2>4 DEF GivenTheTokens
<1>3. CASE ValueComplete
    <2>1. /\ at = "value" /\ len["field"] > 0 /\ len["value"] > 0
          /\ Hears("onHeader", <<View("field"), View("value")>>)
        BY <1>3 DEF ValueComplete, Complete
    <2>2. heard'.call = "onHeader" /\ heard'.args = <<View("field"), View("value")>>
        BY <2>1, HeardIs
    <2>3. OwnField /\ View("value") = whole["value"]
        BY <2>1 DEF TokensInv, Inside, InValue, Kinds
    <2>4. PICK u \in Bytes : View("field") = u \o whole["field"] /\ (bare \/ u = <<>>)
        BY <2>3 DEF OwnField
    <2>5. whole["field"] \in Seq(Nat) /\ u \in Seq(Nat)
        BY DEF Texts, Kinds, Bytes
    <2>6. IsSuffix(whole["field"], View("field"))
        BY <2>4, <2>5, SuffixOfConcat
    <2>7. ~bare => View("field") = whole["field"]
        <3>1. <<>> \o whole["field"] = whole["field"]
            BY <2>5
        <3> QED BY <2>4, <3>1
    <2>8. heard'.args[1] = View("field") /\ heard'.args[2] = View("value")
        BY <2>2
    <2> QED BY <2>2, <2>3, <2>6, <2>7, <2>8 DEF GivenTheTokens
<1>4. CASE Execute \/ NoMoreBytes \/ ExecuteReturns \/ ExecutePauses
    BY <1>4 DEF Execute, NoMoreBytes, ExecuteReturns, ExecutePauses
<1>5. CASE ExecuteFails \/ MarkRead
    BY <1>1, <1>5 DEF ExecuteFails, MarkRead, ReportError
<1>6. CASE Token \/ TooManyHeaders
    BY <1>1, <1>6 DEF Token, Keep, Overflow, TooManyHeaders, Rejects
<1>7. CASE MethodComplete \/ VersionComplete \/ FieldComplete \/ ValueEmpty
    BY <1>7 DEF MethodComplete, VersionComplete, FieldComplete, ValueEmpty
<1>8. CASE HeadersComplete \/ Body \/ MessageComplete
    BY <1>1, <1>8 DEF HeadersComplete, Body, MessageComplete
<1>9. CASE MessageBegin \/ TrailersBegin \/ Malformed \/ BufferEnds
    BY <1>9 DEF MessageBegin, TrailersBegin, Malformed, BufferEnds
<1>10. CASE Over \/ UNCHANGED vars
    BY <1>10 DEF Over, vars
<1> QED BY <1>2, <1>3, <1>4, <1>5, <1>6, <1>7, <1>8, <1>9, <1>10 DEF Next

\* Nothing is kept, seen or said at first.
LEMMA StartsTyped == Init => Positions /\ Texts /\ TokensInv
<1>1. Init => Positions
    BY LimitsAssumption DEF Init, Positions, Events
<1>2. Init => Texts
    <2>1. <<>> \in Bytes /\ <<>> \in Seq(Bytes)
        BY DEF Bytes
    <2> QED BY <2>1 DEF Init, Texts, Calls
<1>3. Init => TokensInv
    BY DEF Init, TokensInv, Unseen
<1> QED BY <1>1, <1>2, <1>3

\* Method, URL, field and value reach the handler as the client has sent them, however the
\* input was cut into buffers and pieces, but for fields after a header without a value
\* (appendToBuffer, onMethodComplete, onUrlComplete, onHeaderValueComplete).
THEOREM TokensAreGiven == Spec => HandlerIsGivenTheTokens
<1>1. Spec => [][GivenTheTokens]_vars
    BY StartsTyped, StoredInit, StoredNext, PositionsStep, TextsStep, TokensNext, TokensGiven,
       PTL DEF Spec
<1> QED BY <1>1, PTL DEF HandlerIsGivenTheTokens, GivenTheTokens

-----------------------------------------------------------------------------
(* The order of the callbacks, on either side of the seam: what RequestParser expects of      *)
(* llhttp, and what llhttp does.                                                               *)

TrailingInv == trailing => at \in {"field", "value", "error"}

ExpectedStep ==
    Awaits' \in {Awaits, "error"} \/ \E o \in Order : o[1] = Awaits /\ o[3] = Awaits'

\* A callback leads to what is expected after it, in the header and in the trailers.
LEMMA CallsStep == TrailingInv /\ [Next]_vars => TrailingInv' /\ ExpectedStep
<1> SUFFICES ASSUME TrailingInv, [Next]_vars PROVE TrailingInv' /\ ExpectedStep
    OBVIOUS
<1> USE DEF TrailingInv, tokens
<1>1. ASSUME at' \in {at, "error"}, trailing' = trailing PROVE TrailingInv' /\ ExpectedStep
    BY <1>1 DEF ExpectedStep, Awaits
<1>2. CASE Execute \/ NoMoreBytes \/ ExecuteReturns \/ ExecutePauses \/ ExecuteFails \/ MarkRead
    BY <1>1, <1>2 DEF Execute, NoMoreBytes, ExecuteReturns, ExecutePauses, ExecuteFails, MarkRead
<1>3. CASE Token
    BY <1>1, <1>3 DEF Token, Keep, Overflow, Piece, Rejects
<1>4. CASE TooManyHeaders \/ Malformed \/ BufferEnds
    BY <1>1, <1>4 DEF TooManyHeaders, Malformed, BufferEnds, Rejects, Elsewhere, Ongoing
<1>5. CASE Over \/ UNCHANGED vars
    BY <1>1, <1>5 DEF Over, vars
<1>6. CASE MethodComplete
    <2>1. at = "method" /\ at' = "url" /\ trailing' = trailing
        BY <1>6 DEF MethodComplete, Complete, Goes, Elsewhere
    <2>2. <<"method", "on_method", "url">> \in Order
        BY DEF Order
    <2> QED BY <2>1, <2>2 DEF ExpectedStep, Awaits
<1>7. CASE UrlComplete
    <2>1. at = "url" /\ at' \in {"version", "field", "error"} /\ trailing' = trailing
        BY <1>7 DEF UrlComplete, Complete, Goes, Returned, Elsewhere
    <2>2. <<"url", "on_url", "version">> \in Order /\ <<"url", "on_url", "field">> \in Order
        BY DEF Order
    <2> QED BY <2>1, <2>2 DEF ExpectedStep, Awaits
<1>8. CASE VersionComplete
    <2>1. at = "version" /\ at' = "field" /\ trailing' = trailing
        BY <1>8 DEF VersionComplete, Complete, Goes, Elsewhere
    <2>2. <<"version", "on_version", "field">> \in Order
        BY DEF Order
    <2> QED BY <2>1, <2>2 DEF ExpectedStep, Awaits
<1>9. CASE FieldComplete
    <2>1. at = "field" /\ at' = "value" /\ trailing' = trailing
        BY <1>9 DEF FieldComplete, Complete, Goes, Elsewhere
    <2>2. /\ <<"field", "on_header_field", "value">> \in Order
          /\ <<"trailer field", "on_header_field", "trailer value">> \in Order
        BY DEF Order
    <2> QED BY <2>1, <2>2 DEF ExpectedStep, Awaits
<1>10. CASE ValueEmpty \/ ValueComplete
    <2>1. at = "value" /\ at' \in {"field", "error"} /\ trailing' = trailing
        BY <1>10 DEF ValueEmpty, ValueComplete, Complete, Goes, Returned, Elsewhere
    <2>2. /\ <<"value", "on_header_value", "field">> \in Order
          /\ <<"trailer value", "on_header_value", "trailer field">> \in Order
        BY DEF Order
    <2> QED BY <2>1, <2>2 DEF ExpectedStep, Awaits
<1>11. CASE MessageBegin
    <2>1. at = "start" /\ at' = "method" /\ trailing' = trailing
        BY <1>11 DEF MessageBegin, Goes
    <2>2. <<"start", "on_message_begin", "method">> \in Order
        BY DEF Order
    <2> QED BY <2>1, <2>2 DEF ExpectedStep, Awaits
<1>12. CASE HeadersComplete
    <2>1. at = "field" /\ ~trailing /\ at' \in {"body", "error"} /\ trailing' = trailing
        BY <1>12 DEF HeadersComplete, Goes, Returned, Ongoing
    <2>2. <<"field", "on_headers_complete", "body">> \in Order
        BY DEF Order
    <2> QED BY <2>1, <2>2 DEF ExpectedStep, Awaits
<1>13. CASE Body
    BY <1>1, <1>13 DEF Body, Goes, Returned, Ongoing
<1>14. CASE TrailersBegin
    <2>1. at = "body" /\ at' = "field" /\ trailing'
        BY <1>14 DEF TrailersBegin, Goes
    <2>2. <<"body", "none", "trailer field">> \in Order
        BY DEF Order
    <2> QED BY <2>1, <2>2 DEF ExpectedStep, Awaits
<1>15. CASE MessageComplete
    <2>1. Awaits \in {"body", "trailer field"} /\ ~trailing' /\ at' \in Ends \cup {"error"}
        BY <1>15 DEF MessageComplete, Goes, Returned, Awaits, Ends
    <2>2. at' \in Ends => <<Awaits, "on_message_complete", at'>> \in Order
        BY <2>1 DEF Order
    <2>3. Awaits' = at'
        BY <2>1 DEF Awaits
    <2>4. at' \in Ends => ExpectedStep
        BY <2>2, <2>3 DEF ExpectedStep
    <2> QED BY <2>1, <2>3, <2>4 DEF ExpectedStep
<1> QED BY <1>2, <1>3, <1>4, <1>5, <1>6, <1>7, <1>8, <1>9, <1>10, <1>11, <1>12, <1>13, <1>14, <1>15
        DEF Next

\* Whatever the handler answers and wherever the input is cut, the parser expects llhttp's
\* callbacks in the agreed order (the settings of RequestParser's constructor).
THEOREM OrderIsExpected == Spec => CallsAreExpected
<1>1. Init => TrailingInv
    BY DEF Init, TrailingInv
<1>2. Spec => [][ExpectedStep]_vars
    BY <1>1, CallsStep, PTL DEF Spec
<1> QED BY <1>2, PTL DEF CallsAreExpected, ExpectedStep

-----------------------------------------------------------------------------
(* llhttp.  Its state, what it awaits in it, and the flags that hold there.                     *)

ToldInv == DOMAIN told = {"call", "body", "end"} /\ told = [field \in DOMAIN told |-> told[field]]

HeaderStates == LL!FieldStates \ {"req_http_complete", "req_http_complete_crlf", "headers_start"}

\* Trailers are behind the request line of their message, and before that of the next one.
TrailersInv ==
    "TRAILING" \in flags =>
        state \in HeaderStates \cup LL!ValueStates \cup
                  {"is_equal_upgrade", "after_message_complete", "pause", "error"}

\* What is awaited, by the state
AwaitedBy ==
    /\ state = "start_req" => LL!Awaits = "method"
    /\ state \in {"req_first_space", "req_spaces"} \cup LL!UrlStates \cup LL!UrlEndings => LL!Awaits = "url"
    /\ state \in {"req_http_start", "req_http_major"} => LL!Awaits = "version"
    /\ state \in LL!FieldStates => LL!Awaits = IF "TRAILING" \in flags THEN "trailer field" ELSE "field"
    /\ state \in LL!ValueStates => LL!Awaits = IF "TRAILING" \in flags THEN "trailer value" ELSE "value"
    /\ state \in LL!ChunkStates \cup {"consume_content_length_1"} => LL!Awaits = "body"
    /\ state = "pause" => LL!Awaits = "upgraded"
    /\ state = "is_equal_upgrade" =>
         LL!Awaits = IF upgrade THEN "upgraded" ELSE IF LL!ShouldKeepAlive THEN "start" ELSE "closed"
    /\ state = "after_message_complete" => LL!Awaits = IF LL!ShouldKeepAlive THEN "start" ELSE "closed"
    /\ state \in {"start", "closed", "error"} => LL!Awaits = state

LEMMA WhatIsAwaited == AwaitedBy
<1> USE DEF LL!UrlStates, LL!UrlBeginnings, LL!UrlEndings, LL!FieldStates, LL!ValueStates, LL!ChunkStates
<1>1. state = "start_req" => LL!Awaits = "method"
    BY DEF LL!Awaits
<1>2. state \in {"req_first_space", "req_spaces"} \cup LL!UrlStates \cup LL!UrlEndings => LL!Awaits = "url"
    BY DEF LL!Awaits
<1>3. state \in {"req_http_start", "req_http_major"} => LL!Awaits = "version"
    BY DEF LL!Awaits
<1>4. state \in LL!FieldStates => LL!Awaits = IF "TRAILING" \in flags THEN "trailer field" ELSE "field"
    BY DEF LL!Awaits
<1>5. state \in LL!ValueStates => LL!Awaits = IF "TRAILING" \in flags THEN "trailer value" ELSE "value"
    BY DEF LL!Awaits
<1>6. state \in LL!ChunkStates \cup {"consume_content_length_1"} => LL!Awaits = "body"
    BY DEF LL!Awaits
<1>7. state = "pause" => LL!Awaits = "upgraded"
    BY DEF LL!Awaits
<1>8. state = "is_equal_upgrade" =>
         LL!Awaits = IF upgrade THEN "upgraded" ELSE IF LL!ShouldKeepAlive THEN "start" ELSE "closed"
    BY DEF LL!Awaits
<1>9. state = "after_message_complete" => LL!Awaits = IF LL!ShouldKeepAlive THEN "start" ELSE "closed"
    BY DEF LL!Awaits
<1>10. state \in {"start", "closed", "error"} => LL!Awaits = state
    BY DEF LL!Awaits
<1> QED BY <1>1, <1>2, <1>3, <1>4, <1>5, <1>6, <1>7, <1>8, <1>9, <1>10 DEF AwaitedBy

LEMMA WhatIsAwaitedNext == AwaitedBy'
BY WhatIsAwaited, PTL

\* What CallsInOrder says of one step
InOrderStep ==
    \/ told'.call = told.call /\ LL!Awaits' = LL!Awaits
    \/ told'.call = told.call /\ <<LL!Awaits, "none", LL!Awaits'>> \in LL!Order
    \/ <<LL!Awaits, told'.call, LL!Awaits'>> \in LL!Order
    \/ <<LL!Awaits, "on_headers_complete", "body">> \in LL!Order
       /\ <<"body", told'.call, LL!Awaits'>> \in LL!Order
    \/ LL!Awaits' = "error"

\* The agreed order, one entry after the other
LEMMA Agreed ==
    /\ <<"start", "on_message_begin", "method">> \in LL!Order
    /\ <<"method", "on_method", "url">> \in LL!Order
    /\ <<"url", "on_url", "version">> \in LL!Order /\ <<"url", "on_url", "field">> \in LL!Order
    /\ <<"version", "on_version", "field">> \in LL!Order
    /\ <<"field", "on_header_field", "value">> \in LL!Order
    /\ <<"value", "on_header_value", "field">> \in LL!Order
    /\ <<"field", "on_headers_complete", "body">> \in LL!Order
    /\ <<"body", "on_body", "body">> \in LL!Order
    /\ <<"body", "none", "trailer field">> \in LL!Order
    /\ <<"trailer field", "on_header_field", "trailer value">> \in LL!Order
    /\ <<"trailer value", "on_header_value", "trailer field">> \in LL!Order
    /\ \A end \in {"start", "closed", "upgraded"} :
          /\ <<"body", "on_message_complete", end>> \in LL!Order
          /\ <<"trailer field", "on_message_complete", end>> \in LL!Order
BY DEF LL!Order, LL!Ends

\* The machine's means: a callback is told, and a byte that does not fit is an error.
LEMMA Called ==
    ASSUME ToldInv, NEW callback, LL!Calls(callback)
    PROVE  told'.call = callback
BY DEF ToldInv, LL!Calls

LEMMA FailsInOrder ==
    ASSUME state' = "error"
    PROVE  InOrderStep
BY WhatIsAwaitedNext DEF AwaitedBy, InOrderStep

LEMMA SilentInOrder ==
    ASSUME told' = told, LL!Awaits' = LL!Awaits
    PROVE  InOrderStep
BY DEF InOrderStep

LEMMA CalledInOrder ==
    ASSUME <<LL!Awaits, told'.call, LL!Awaits'>> \in LL!Order
    PROVE  InOrderStep
BY DEF InOrderStep

\* Within fields, values and chunks nothing is told, and what is awaited stays.
LEMMA WithinFields ==
    ASSUME state \in LL!FieldStates, state' \in LL!FieldStates \cup {"error"}, told' = told,
           "TRAILING" \in flags' <=> "TRAILING" \in flags
    PROVE  InOrderStep
<1>1. LL!Awaits = IF "TRAILING" \in flags THEN "trailer field" ELSE "field"
    BY WhatIsAwaited DEF AwaitedBy
<1>2. state' # "error" => LL!Awaits' = IF "TRAILING" \in flags' THEN "trailer field" ELSE "field"
    BY WhatIsAwaitedNext DEF AwaitedBy
<1>3. state' # "error" => LL!Awaits' = LL!Awaits
    BY <1>1, <1>2
<1> QED BY <1>3, FailsInOrder, SilentInOrder

LEMMA WithinValues ==
    ASSUME state \in LL!ValueStates, state' \in LL!ValueStates \cup {"error"}, told' = told,
           "TRAILING" \in flags' <=> "TRAILING" \in flags
    PROVE  InOrderStep
<1>1. LL!Awaits = IF "TRAILING" \in flags THEN "trailer value" ELSE "value"
    BY WhatIsAwaited DEF AwaitedBy
<1>2. state' # "error" => LL!Awaits' = IF "TRAILING" \in flags' THEN "trailer value" ELSE "value"
    BY WhatIsAwaitedNext DEF AwaitedBy
<1>3. state' # "error" => LL!Awaits' = LL!Awaits
    BY <1>1, <1>2
<1> QED BY <1>3, FailsInOrder, SilentInOrder

LEMMA WithinChunks ==
    ASSUME state \in LL!ChunkStates, state' \in LL!ChunkStates \cup {"error"}, told' = told
    PROVE  InOrderStep
<1>1. state' # "error" => LL!Awaits = "body" /\ LL!Awaits' = "body"
    BY WhatIsAwaited, WhatIsAwaitedNext DEF AwaitedBy
<1> QED BY <1>1, FailsInOrder, SilentInOrder

\* The request line
LEMMA LineInOrder ==
    ASSUME ToldInv, TrailersInv,
           \/ LL!Start \/ LL!Method \/ LL!SpacesBeforeUrl \/ LL!Url \/ LL!UrlEnds \/ LL!Protocol
           \/ LL!Version \/ LL!LineEnds
    PROVE  InOrderStep
<1> USE DEF LL!In, LL!Eats, LL!Passes, LL!Rejects, LL!Or
<1>1. AwaitedBy /\ AwaitedBy'
    BY WhatIsAwaited, WhatIsAwaitedNext
<1>2. CASE LL!Start
    <2>1. CASE state' = "start" /\ told' = told
        BY <1>1, <1>2, <2>1, SilentInOrder DEF AwaitedBy, LL!Start
    <2>2. CASE state' = "start_req" /\ LL!Calls("on_message_begin")
        <3>1. told'.call = "on_message_begin"
            BY <2>2, Called
        <3>2. LL!Awaits = "start" /\ LL!Awaits' = "method"
            BY <1>1, <1>2, <2>2 DEF AwaitedBy, LL!Start
        <3> QED BY <3>1, <3>2, Agreed, CalledInOrder
    <2> QED BY <1>2, <2>1, <2>2 DEF LL!Start
<1>3. CASE LL!Method
    <2>1. CASE state' = "error"
        BY <2>1, FailsInOrder
    <2>2. CASE state' = "req_first_space" /\ LL!Calls("on_method")
        <3>1. told'.call = "on_method"
            BY <2>2, Called
        <3>2. LL!Awaits = "method" /\ LL!Awaits' = "url"
            BY <1>1, <1>3, <2>2 DEF AwaitedBy, LL!Method
        <3> QED BY <3>1, <3>2, Agreed, CalledInOrder
    <2> QED BY <1>3, <2>1, <2>2 DEF LL!Method
<1>4. CASE LL!SpacesBeforeUrl
    <2>1. /\ state \in {"req_first_space", "req_spaces"}
          /\ state' \in {"req_spaces", "url_server", "url_start", "error"} /\ told' = told
        BY <1>4 DEF LL!SpacesBeforeUrl, LL!Frame
    <2>2. state' # "error" => LL!Awaits = "url" /\ LL!Awaits' = "url"
        BY <1>1, <2>1 DEF AwaitedBy, LL!UrlStates, LL!UrlBeginnings
    <2> QED BY <2>1, <2>2, FailsInOrder, SilentInOrder
<1>5. CASE LL!Url
    <2>1. state \in LL!UrlStates /\ told' = told
        BY <1>5 DEF LL!Url, LL!Frame
    <2>2. state' \in LL!UrlStates \cup {"error"}
        <3>1. LL!NextInUrl \in LL!UrlStates \cup {"error"}
            BY <2>1 DEF LL!NextInUrl, LL!UrlStart, LL!UrlSchema, LL!UrlServer, LL!UrlPath, LL!UrlQuery,
               LL!UrlFragment, LL!UrlDelimiter, LL!UrlStates, LL!UrlBeginnings
        <3> QED BY <1>5, <3>1 DEF LL!Url
    <2>3. state' # "error" => LL!Awaits = "url" /\ LL!Awaits' = "url"
        BY <1>1, <2>1, <2>2 DEF AwaitedBy
    <2> QED BY <2>1, <2>3, FailsInOrder, SilentInOrder
<1>6. CASE LL!UrlEnds
    <2>1. state \in LL!UrlStates \cup LL!UrlEndings /\ LL!Awaits = "url"
        BY <1>1, <1>6 DEF LL!UrlEnds, LL!UrlEndings, AwaitedBy
    <2>2. "TRAILING" \notin flags'
        <3>1. flags' = flags
            BY <1>6 DEF LL!UrlEnds, LL!header
        <3> QED BY <2>1, <3>1 DEF TrailersInv, HeaderStates, LL!UrlStates, LL!UrlBeginnings, LL!UrlEndings,
               LL!FieldStates, LL!ValueStates
    <2>3. CASE state' \in LL!UrlEndings \cup {"error"} /\ told' = told
        <3>1. state' # "error" => LL!Awaits' = "url"
            BY <1>1, <2>3 DEF AwaitedBy
        <3>2. state' # "error" => LL!Awaits' = LL!Awaits
            BY <2>1, <3>1
        <3> QED BY <2>3, <3>2, FailsInOrder, SilentInOrder
    <2>4. CASE state' = "req_http_start" /\ LL!Calls("on_url")
        <3>1. told'.call = "on_url"
            BY <2>4, Called
        <3>2. LL!Awaits' = "version"
            BY <1>1, <2>4 DEF AwaitedBy
        <3> QED BY <2>1, <3>1, <3>2, Agreed, CalledInOrder
    <2>5. CASE state' = "headers_start" /\ LL!Calls("on_url")
        <3>1. told'.call = "on_url"
            BY <2>5, Called
        <3>2. LL!Awaits' = "field"
            BY <1>1, <2>2, <2>5 DEF AwaitedBy, LL!FieldStates
        <3> QED BY <2>1, <3>1, <3>2, Agreed, CalledInOrder
    <2> QED BY <1>6, <2>1, <2>3, <2>4, <2>5 DEF LL!UrlEnds, LL!UrlEndings
<1>7. CASE LL!Protocol
    <2>1. state = "req_http_start" /\ state' \in {"req_http_start", "req_http_major", "error"} /\ told' = told
        BY <1>7 DEF LL!Protocol, LL!Frame
    <2>2. state' # "error" => LL!Awaits = "version" /\ LL!Awaits' = "version"
        BY <1>1, <2>1 DEF AwaitedBy
    <2> QED BY <2>1, <2>2, FailsInOrder, SilentInOrder
<1>8. CASE LL!Version
    <2>1. CASE state' = "error"
        BY <2>1, FailsInOrder
    <2>2. CASE state' = "req_http_complete" /\ LL!Calls("on_version")
        <3>1. state = "req_http_major" /\ flags' = flags
            BY <1>8 DEF LL!Version, LL!header
        <3>2. "TRAILING" \notin flags'
            BY <3>1 DEF TrailersInv, HeaderStates, LL!FieldStates, LL!ValueStates
        <3>3. told'.call = "on_version"
            BY <2>2, Called
        <3>4. LL!Awaits = "version" /\ LL!Awaits' = "field"
            BY <1>1, <2>2, <3>1, <3>2 DEF AwaitedBy, LL!FieldStates
        <3> QED BY <3>3, <3>4, Agreed, CalledInOrder
    <2> QED BY <1>8, <2>1, <2>2 DEF LL!Version
<1>9. CASE LL!LineEnds
    <2>1. state \in LL!FieldStates /\ state' \in LL!FieldStates \cup {"error"}
          /\ told' = told /\ flags' = flags
        BY <1>9 DEF LL!LineEnds, LL!Frame, LL!header, LL!FieldStates
    <2> QED BY <2>1, WithinFields
<1> QED BY <1>2, <1>3, <1>4, <1>5, <1>6, <1>7, <1>8, <1>9

\* The headers' fields
LEMMA FieldsInOrder ==
    ASSUME ToldInv, LL!FieldStart \/ LL!Field \/ LL!FieldEnds \/ LL!HeadersBreak
    PROVE  InOrderStep
<1> USE DEF LL!In, LL!Eats, LL!Passes, LL!Rejects, LL!Or
<1>1. AwaitedBy /\ AwaitedBy'
    BY WhatIsAwaited, WhatIsAwaitedNext
<1>2. CASE LL!FieldStart
    <2>1. state \in LL!FieldStates /\ state' \in LL!FieldStates \cup {"error"}
          /\ told' = told /\ flags' = flags
        BY <1>2 DEF LL!FieldStart, LL!Frame, LL!header, LL!FieldStates
    <2> QED BY <2>1, WithinFields
<1>3. CASE LL!Field
    <2>1. state \in LL!FieldStates /\ state' \in LL!FieldStates \cup {"error"}
          /\ told' = told /\ flags' = flags
        BY <1>3 DEF LL!Field, LL!FieldStates
    <2> QED BY <2>1, WithinFields
<1>4. CASE LL!FieldEnds
    <2>1. state \in LL!FieldStates /\ state' \in {"header_value_discard_ws", "error"} /\ flags' = flags
        BY <1>4 DEF LL!FieldEnds, LL!header, LL!FieldStates
    <2>2. told'.call = "on_header_field"
        BY <1>4, Called DEF LL!FieldEnds
    <2>3. LL!Awaits = IF "TRAILING" \in flags THEN "trailer field" ELSE "field"
        BY <1>1, <2>1 DEF AwaitedBy
    <2>4. state' # "error" => LL!Awaits' = IF "TRAILING" \in flags' THEN "trailer value" ELSE "value"
        BY <1>1, <2>1 DEF AwaitedBy, LL!ValueStates
    <2>5. state' # "error" => <<LL!Awaits, told'.call, LL!Awaits'>> \in LL!Order
        BY <2>1, <2>2, <2>3, <2>4, Agreed
    <2> QED BY <2>5, FailsInOrder, CalledInOrder
<1>5. CASE LL!HeadersBreak
    BY <1>5, FailsInOrder DEF LL!HeadersBreak
<1> QED BY <1>2, <1>3, <1>4, <1>5

\* A value ends its header, and no flag says that the trailers have begun.
LEMMA ValueToField ==
    ASSUME state \in LL!ValueStates, state' \in {"header_field_start", "error"},
           told'.call = "on_header_value", "TRAILING" \in flags' <=> "TRAILING" \in flags
    PROVE  InOrderStep
<1>1. LL!Awaits = IF "TRAILING" \in flags THEN "trailer value" ELSE "value"
    BY WhatIsAwaited DEF AwaitedBy
<1>2. state' # "error" => LL!Awaits' = IF "TRAILING" \in flags' THEN "trailer field" ELSE "field"
    BY WhatIsAwaitedNext DEF AwaitedBy, LL!FieldStates
<1>3. state' # "error" => <<LL!Awaits, told'.call, LL!Awaits'>> \in LL!Order
    BY <1>1, <1>2, Agreed
<1> QED BY <1>3, FailsInOrder, CalledInOrder

LEMMA ValuesInOrder ==
    ASSUME ToldInv,
           \/ LL!DiscardSpace \/ LL!ValueStarts \/ LL!Connection \/ LL!ContentLengthDigit
           \/ LL!ContentLengthEnds \/ LL!TransferEncoding \/ LL!ValueText \/ LL!ValueEnds
    PROVE  InOrderStep
<1> USE DEF LL!In, LL!Eats, LL!Passes, LL!Rejects, LL!Or
<1>1. "TRAILING" \notin LL!FlagOf(header_state)
    BY DEF LL!FlagOf
<1>2. CASE LL!DiscardSpace
    <2>1. state \in LL!ValueStates /\ flags' = flags
        BY <1>2 DEF LL!DiscardSpace, LL!header, LL!ValueStates
    <2>2. CASE state' \in LL!ValueStates \cup {"error"} /\ told' = told
        BY <2>1, <2>2, WithinValues
    <2>3. CASE state' \in {"header_field_start", "error"} /\ LL!Calls("on_header_value")
        BY <2>1, <2>3, Called, ValueToField
    <2> QED BY <1>2, <2>2, <2>3 DEF LL!DiscardSpace, LL!ValueStates
<1>3. CASE LL!ValueStarts
    <2>1. state \in LL!ValueStates /\ told' = told
        BY <1>3 DEF LL!ValueStarts, LL!ValueStates
    <2>2. LL!Valued[1] \in LL!ValueStates \cup {"error"}
          /\ ("TRAILING" \in LL!Valued[2] <=> "TRAILING" \in flags)
        BY DEF LL!Valued, LL!ValueStates
    <2> QED BY <1>3, <2>1, <2>2, WithinValues DEF LL!ValueStarts
<1>4. CASE LL!Connection
    <2>1. state \in LL!ValueStates /\ told' = told
        BY <1>4 DEF LL!Connection, LL!ValueStates
    <2>2. state' \in LL!ValueStates
        BY <1>4, <2>1 DEF LL!Connection, LL!ValueStates
    <2>3. flags' = flags \/ flags' = flags \cup LL!FlagOf(header_state)
        BY <1>4 DEF LL!Connection, LL!header
    <2> QED BY <1>1, <2>1, <2>2, <2>3, WithinValues
<1>5. CASE LL!ContentLengthDigit
    <2>1. state \in LL!ValueStates /\ state' \in LL!ValueStates \cup {"error"}
          /\ told' = told /\ flags' = flags
        BY <1>5 DEF LL!ContentLengthDigit, LL!Counts, LL!header, LL!ValueStates
    <2> QED BY <2>1, WithinValues
<1>6. CASE LL!ContentLengthEnds
    <2>1. state \in LL!ValueStates /\ state' \in LL!ValueStates \cup {"error"}
          /\ told' = told /\ flags' \in {flags, flags \cup {"CONTENT_LENGTH"}}
        BY <1>6 DEF LL!ContentLengthEnds, LL!ValueStates
    <2> QED BY <2>1, WithinValues
<1>7. CASE LL!TransferEncoding
    <2>1. state \in LL!ValueStates /\ told' = told /\ flags' = flags
        BY <1>7 DEF LL!TransferEncoding, LL!header, LL!ValueStates
    <2>2. state' \in LL!ValueStates \cup {"error"}
        BY <1>7, <2>1 DEF LL!TransferEncoding, LL!AfterChunked, LL!ValueStates
    <2> QED BY <2>1, <2>2, WithinValues
<1>8. CASE LL!ValueText
    <2>1. state \in LL!ValueStates /\ state' \in LL!ValueStates \cup {"error"}
          /\ told' = told /\ flags' = flags
        BY <1>8 DEF LL!ValueText, LL!Frame, LL!header, LL!ValueStates
    <2> QED BY <2>1, WithinValues
<1>9. CASE LL!ValueEnds
    <2>1. state \in LL!ValueStates
        BY <1>9 DEF LL!ValueEnds, LL!ValueStates
    <2>2. CASE state' = "error"
        BY <2>2, FailsInOrder
    <2>3. CASE state' = "header_field_start" /\ flags' = flags \cup LL!FlagOf(header_state)
               /\ LL!Calls("on_header_value")
        BY <1>1, <2>1, <2>3, Called, ValueToField
    <2> QED BY <1>9, <2>2, <2>3 DEF LL!ValueEnds
<1> QED BY <1>2, <1>3, <1>4, <1>5, <1>6, <1>7, <1>8, <1>9

\* The body, its chunks, and what is behind them
LEMMA BodyInOrder ==
    ASSUME ToldInv,
           \/ LL!HeadersEnd \/ LL!TrailersEnd \/ LL!Body \/ LL!ChunkBody \/ LL!ChunkDataEnds
           \/ LL!ChunkSizeDigit \/ LL!ChunkSizeOtherwise \/ LL!ChunkSizeEnds \/ LL!ExtensionName
           \/ LL!ExtensionValue \/ LL!ExtensionQuoted \/ LL!MessageEnds \/ LL!Closed
    PROVE  InOrderStep
<1> USE DEF LL!In, LL!Eats, LL!Passes, LL!Rejects, LL!Or
<1>1. AwaitedBy /\ AwaitedBy'
    BY WhatIsAwaited, WhatIsAwaitedNext
<1>2. CASE LL!HeadersEnd
    <2>1. state = "headers_almost_done" /\ "TRAILING" \notin flags /\ flags' = flags
        BY <1>2 DEF LL!HeadersEnd, LL!header
    <2>2. LL!Awaits = "field"
        BY <1>1, <2>1 DEF AwaitedBy, LL!FieldStates
    <2>3. CASE state' \in {"pause", "after_message_complete"} /\ LL!Completed
        <3>1. told'.call = "on_message_complete"
            BY <2>3 DEF LL!Completed, ToldInv
        <3>2. LL!Awaits' \in {"upgraded", "start", "closed"}
            BY <1>1, <2>3 DEF AwaitedBy
        <3>3. <<"body", told'.call, LL!Awaits'>> \in LL!Order
            BY <3>1, <3>2, Agreed
        <3>4. <<LL!Awaits, "on_headers_complete", "body">> \in LL!Order
            BY <2>2, Agreed
        <3> QED BY <3>3, <3>4 DEF InOrderStep
    <2>4. CASE state' \in {"chunk_size_digit", "consume_content_length_1"} /\ LL!Calls("on_headers_complete")
        <3>1. told'.call = "on_headers_complete"
            BY <2>4, Called
        <3>2. LL!Awaits' = "body"
            BY <1>1, <2>4 DEF AwaitedBy, LL!ChunkStates
        <3> QED BY <2>2, <3>1, <3>2, Agreed, CalledInOrder
    <2>5. CASE state' = "error"
        BY <2>5, FailsInOrder
    <2> QED BY <1>2, <2>3, <2>4, <2>5 DEF LL!HeadersEnd, LL!AfterHeaders
<1>3. CASE LL!TrailersEnd
    <2>1. state = "headers_almost_done" /\ "TRAILING" \in flags /\ state' = "is_equal_upgrade"
        BY <1>3 DEF LL!TrailersEnd
    <2>2. LL!Awaits = "trailer field"
        BY <1>1, <2>1 DEF AwaitedBy, LL!FieldStates
    <2>3. told'.call = "on_message_complete"
        BY <1>3 DEF LL!TrailersEnd, LL!Completed, ToldInv
    <2>4. LL!Awaits' \in {"upgraded", "start", "closed"}
        BY <1>1, <2>1 DEF AwaitedBy
    <2> QED BY <2>2, <2>3, <2>4, Agreed, CalledInOrder
<1>4. CASE LL!Body
    <2>1. LL!Awaits = "body"
        BY <1>1, <1>4 DEF AwaitedBy, LL!Body
    <2>2. CASE state' = "is_equal_upgrade" /\ told'.call = "on_message_complete"
        <3>1. LL!Awaits' \in {"upgraded", "start", "closed"}
            BY <1>1, <2>2 DEF AwaitedBy
        <3> QED BY <2>1, <2>2, <3>1, Agreed, CalledInOrder
    <2>3. CASE state' = "consume_content_length_1" /\ told'.call = "on_body"
        <3>1. LL!Awaits' = "body"
            BY <1>1, <2>3 DEF AwaitedBy
        <3> QED BY <2>1, <2>3, <3>1, Agreed, CalledInOrder
    <2>4. told'.call = IF content_length' = 0 THEN "on_message_complete" ELSE "on_body"
        BY <1>4 DEF LL!Body, ToldInv
    <2>5. state' = IF content_length' = 0 THEN "is_equal_upgrade" ELSE "consume_content_length_1"
        BY <1>4 DEF LL!Body, LL!Consumes
    <2> QED BY <2>2, <2>3, <2>4, <2>5
<1>5. CASE LL!ChunkBody
    <2>1. state \in LL!ChunkStates /\ state' \in LL!ChunkStates
        BY <1>5 DEF LL!ChunkBody, LL!Consumes, LL!ChunkStates
    <2>2. told'.call = "on_body"
        BY <1>5 DEF LL!ChunkBody, ToldInv
    <2>3. LL!Awaits = "body" /\ LL!Awaits' = "body"
        BY <1>1, <2>1 DEF AwaitedBy
    <2> QED BY <2>2, <2>3, Agreed, CalledInOrder
<1>6. CASE LL!ChunkDataEnds \/ LL!ChunkSizeDigit \/ LL!ChunkSizeOtherwise
    <2>1. state \in LL!ChunkStates /\ told' = told
        BY <1>6 DEF LL!ChunkDataEnds, LL!ChunkSizeDigit, LL!ChunkSizeOtherwise, LL!Counts, LL!Frame,
           LL!ChunkStates
    <2>2. state' \in LL!ChunkStates \cup {"error"}
        BY <1>6 DEF LL!ChunkDataEnds, LL!ChunkSizeDigit, LL!ChunkSizeOtherwise, LL!Counts, LL!ChunkStates
    <2> QED BY <2>1, <2>2, WithinChunks
<1>7. CASE LL!ChunkSizeEnds
    <2>1. state = "chunk_size_almost_done" /\ told' = told
        BY <1>7 DEF LL!ChunkSizeEnds
    <2>2. CASE state' \in {"consume_content_length", "error"}
        BY <2>1, <2>2, WithinChunks DEF LL!ChunkStates
    <2>3. CASE state' = "header_field_start" /\ "TRAILING" \in flags'
        <3>1. LL!Awaits = "body"
            BY <1>1, <2>1 DEF AwaitedBy, LL!ChunkStates
        <3>2. LL!Awaits' = "trailer field"
            BY <1>1, <2>3 DEF AwaitedBy, LL!FieldStates
        <3>3. <<LL!Awaits, "none", LL!Awaits'>> \in LL!Order
            BY <3>1, <3>2, Agreed
        <3> QED BY <2>1, <3>3 DEF InOrderStep
    <2>4. state' = "header_field_start" => "TRAILING" \in flags'
        BY <1>7 DEF LL!ChunkSizeEnds, LL!LF
    <2> QED BY <1>7, <2>2, <2>3, <2>4 DEF LL!ChunkSizeEnds
<1>8. CASE LL!ExtensionName \/ LL!ExtensionValue \/ LL!ExtensionQuoted
    <2>1. state \in LL!ChunkStates /\ told' = told
        BY <1>8 DEF LL!ExtensionName, LL!ExtensionValue, LL!ExtensionQuoted, LL!Frame, LL!ChunkStates
    <2>2. state' \in LL!ChunkStates \cup {"error"}
        BY <1>8 DEF LL!ExtensionName, LL!ExtensionValue, LL!ExtensionQuoted, LL!ChunkStates
    <2> QED BY <2>1, <2>2, WithinChunks
<1>9. CASE LL!MessageEnds
    <2>1. told' = told /\ upgrade' = upgrade
        BY <1>9 DEF LL!MessageEnds
    <2>2. CASE state = "is_equal_upgrade"
        <3>1. state' = (IF upgrade THEN "pause" ELSE "after_message_complete") /\ flags' = flags /\ http' = http
            BY <1>9, <2>2 DEF LL!MessageEnds, LL!line
        <3>2. LL!ShouldKeepAlive' = LL!ShouldKeepAlive
            BY <3>1 DEF LL!ShouldKeepAlive
        <3>3. LL!Awaits = IF upgrade THEN "upgraded" ELSE IF LL!ShouldKeepAlive THEN "start" ELSE "closed"
            BY <1>1, <2>2 DEF AwaitedBy
        <3>4. CASE upgrade
            <4>1. LL!Awaits' = "upgraded"
                BY <1>1, <3>1, <3>4 DEF AwaitedBy
            <4> QED BY <2>1, <3>3, <3>4, <4>1, SilentInOrder
        <3>5. CASE ~upgrade
            <4>1. LL!Awaits' = IF LL!ShouldKeepAlive' THEN "start" ELSE "closed"
                BY <1>1, <3>1, <3>5 DEF AwaitedBy
            <4> QED BY <2>1, <3>2, <3>3, <3>5, <4>1, SilentInOrder
        <3> QED BY <3>4, <3>5
    <2>3. CASE state = "after_message_complete"
        <3>1. state' = IF LL!ShouldKeepAlive THEN "start" ELSE "closed"
            BY <1>9, <2>3 DEF LL!MessageEnds
        <3>2. LL!Awaits = IF LL!ShouldKeepAlive THEN "start" ELSE "closed"
            BY <1>1, <2>3 DEF AwaitedBy
        <3>3. LL!Awaits' = state'
            BY <1>1, <3>1 DEF AwaitedBy
        <3> QED BY <2>1, <3>1, <3>2, <3>3, SilentInOrder
    <2> QED BY <1>9, <2>2, <2>3 DEF LL!MessageEnds
<1>10. CASE LL!Closed
    <2>1. state = "closed" /\ state' \in {"closed", "error"} /\ told' = told
        BY <1>10 DEF LL!Closed, LL!Frame
    <2>2. state' # "error" => LL!Awaits = "closed" /\ LL!Awaits' = "closed"
        BY <1>1, <2>1 DEF AwaitedBy
    <2> QED BY <2>1, <2>2, FailsInOrder, SilentInOrder
<1> QED BY <1>2, <1>3, <1>4, <1>5, <1>6, <1>7, <1>8, <1>9, <1>10

LEMMA OrderStep == ToldInv /\ TrailersInv /\ [LL!LLHttpNext]_(LL!llhttpVars) => InOrderStep
<1> SUFFICES ASSUME ToldInv, TrailersInv, [LL!LLHttpNext]_(LL!llhttpVars) PROVE InOrderStep
    OBVIOUS
<1>1. CASE UNCHANGED LL!llhttpVars
    <2>1. LL!Awaits' = LL!Awaits
        BY <1>1 DEF LL!llhttpVars, LL!Awaits, LL!ShouldKeepAlive
    <2>2. told' = told
        BY <1>1 DEF LL!llhttpVars
    <2> QED BY <2>1, <2>2, SilentInOrder
<1> QED BY <1>1, LineInOrder, FieldsInOrder, ValuesInOrder, BodyInOrder DEF LL!LLHttpNext

LEMMA ToldNext == ToldInv /\ [LL!LLHttpNext]_(LL!llhttpVars) => ToldInv'
<1> SUFFICES ASSUME ToldInv, [LL!LLHttpNext]_(LL!llhttpVars) PROVE ToldInv'
    OBVIOUS
<1>1. ASSUME NEW callback, LL!Calls(callback) PROVE ToldInv'
    BY <1>1 DEF LL!Calls, ToldInv
<1>2. ASSUME LL!Completed PROVE ToldInv'
    BY <1>2 DEF LL!Completed, ToldInv
<1>3. ASSUME told' = told PROVE ToldInv'
    BY <1>3 DEF ToldInv
<1>4. CASE LL!Body
    BY <1>4 DEF LL!Body, ToldInv
<1>5. CASE LL!ChunkBody
    BY <1>5 DEF LL!ChunkBody, ToldInv
<1>6. CASE LL!Start \/ LL!Method \/ LL!UrlEnds \/ LL!Version \/ LL!FieldEnds \/ LL!DiscardSpace \/ LL!ValueEnds
           \/ LL!HeadersEnd \/ LL!TrailersEnd
    BY <1>1, <1>2, <1>3, <1>6 DEF LL!Start, LL!Method, LL!UrlEnds, LL!Version, LL!FieldEnds, LL!DiscardSpace,
       LL!ValueEnds, LL!HeadersEnd, LL!TrailersEnd
<1>7. told' = told \/ LL!Start \/ LL!Method \/ LL!UrlEnds \/ LL!Version \/ LL!FieldEnds \/ LL!DiscardSpace
        \/ LL!ValueEnds \/ LL!HeadersEnd \/ LL!TrailersEnd \/ LL!Body \/ LL!ChunkBody
    BY DEF LL!LLHttpNext, LL!llhttpVars, LL!SpacesBeforeUrl, LL!Url, LL!Protocol, LL!LineEnds, LL!FieldStart,
       LL!Field, LL!ValueStarts, LL!Connection, LL!ContentLengthDigit, LL!ContentLengthEnds,
       LL!TransferEncoding, LL!ValueText, LL!HeadersBreak, LL!ChunkDataEnds, LL!ChunkSizeDigit,
       LL!ChunkSizeOtherwise, LL!ChunkSizeEnds, LL!ExtensionName, LL!ExtensionValue, LL!ExtensionQuoted,
       LL!MessageEnds, LL!Closed, LL!Counts, LL!Frame
<1> QED BY <1>3, <1>4, <1>5, <1>6, <1>7

LEMMA TrailersNext == TrailersInv /\ [LL!LLHttpNext]_(LL!llhttpVars) => TrailersInv'
<1> SUFFICES ASSUME TrailersInv, [LL!LLHttpNext]_(LL!llhttpVars), "TRAILING" \in flags' PROVE TrailersInv'
    BY DEF TrailersInv
<1> DEFINE Fields == HeaderStates \cup LL!ValueStates
<1> USE DEF LL!In, LL!Eats, LL!Passes, LL!Rejects, LL!Or
<1>1. ASSUME state' \in Fields \cup {"is_equal_upgrade", "after_message_complete", "pause", "error"}
      PROVE  TrailersInv'
    BY <1>1 DEF TrailersInv, LL!ValueStates, HeaderStates, LL!FieldStates
<1>2. ASSUME flags' = flags, state \notin Fields \cup {"is_equal_upgrade", "after_message_complete", "pause", "error"}
      PROVE  FALSE
    BY <1>2 DEF TrailersInv
<1>3. ASSUME flags' = flags, state \in LL!UrlStates \cup LL!UrlEndings \cup LL!ChunkStates \cup
             {"start", "start_req", "req_first_space", "req_spaces", "req_http_start", "req_http_major",
              "req_http_complete", "req_http_complete_crlf", "headers_start", "closed", "consume_content_length_1"}
      PROVE  FALSE
    BY <1>2, <1>3 DEF LL!UrlStates, LL!UrlBeginnings, LL!UrlEndings, LL!ChunkStates, HeaderStates, LL!FieldStates,
       LL!ValueStates
<1> HIDE DEF Fields
<1>4. CASE LL!Start \/ LL!Method \/ LL!SpacesBeforeUrl \/ LL!Url \/ LL!UrlEnds \/ LL!Protocol \/ LL!Version
           \/ LL!LineEnds
    BY <1>3, <1>4 DEF LL!Start, LL!Method, LL!SpacesBeforeUrl, LL!Url, LL!UrlEnds, LL!Protocol, LL!Version,
       LL!LineEnds, LL!Frame, LL!header, LL!UrlEndings
<1>5. CASE LL!FieldStart \/ LL!Field \/ LL!FieldEnds \/ LL!HeadersBreak \/ LL!TrailersEnd
    BY <1>1, <1>5 DEF LL!FieldStart, LL!Field, LL!FieldEnds, LL!HeadersBreak, LL!TrailersEnd, Fields, HeaderStates,
       LL!FieldStates, LL!ValueStates
<1>6. CASE LL!DiscardSpace \/ LL!Connection \/ LL!ContentLengthDigit \/ LL!ContentLengthEnds \/ LL!ValueText
           \/ LL!ValueEnds
    BY <1>1, <1>6 DEF LL!DiscardSpace, LL!Connection, LL!ContentLengthDigit, LL!ContentLengthEnds,
       LL!ValueText, LL!ValueEnds, LL!Counts, Fields, HeaderStates, LL!FieldStates, LL!ValueStates
<1>7. CASE LL!TransferEncoding \/ LL!ValueStarts
    BY <1>1, <1>7 DEF LL!TransferEncoding, LL!AfterChunked, LL!ValueStarts, LL!Valued, Fields, LL!ValueStates
<1>8. CASE LL!HeadersEnd
    BY <1>8 DEF LL!HeadersEnd, LL!header
<1>9. CASE LL!Body \/ LL!ChunkBody \/ LL!ChunkDataEnds \/ LL!ChunkSizeDigit \/ LL!ChunkSizeOtherwise
           \/ LL!ExtensionName \/ LL!ExtensionValue \/ LL!ExtensionQuoted \/ LL!Closed
    BY <1>3, <1>9 DEF LL!Body, LL!ChunkBody, LL!ChunkDataEnds, LL!ChunkSizeDigit, LL!ChunkSizeOtherwise,
       LL!ExtensionName, LL!ExtensionValue, LL!ExtensionQuoted, LL!Closed, LL!Frame, LL!Counts, LL!header,
       LL!ChunkStates
<1>10. CASE LL!ChunkSizeEnds
    <2>1. state = "chunk_size_almost_done"
        BY <1>10 DEF LL!ChunkSizeEnds
    <2>2. flags' = flags \/ state' = "header_field_start"
        BY <1>10 DEF LL!ChunkSizeEnds, LL!LF
    <2> QED BY <1>1, <1>3, <2>1, <2>2 DEF LL!ChunkStates, Fields, HeaderStates, LL!FieldStates
<1>11. CASE LL!MessageEnds
    BY <1>1, <1>11 DEF LL!MessageEnds
<1>12. CASE UNCHANGED LL!llhttpVars
    BY <1>12 DEF LL!llhttpVars, TrailersInv
<1> QED BY <1>4, <1>5, <1>6, <1>7, <1>8, <1>9, <1>10, <1>11, <1>12 DEF LL!LLHttpNext

\* Whatever bytes come, llhttp calls back in the order RequestParser expects (the spans and
\* invocations of llhttp.c): a parser that keeps its tokens in one buffer never gets a value
\* without its field, a field behind the body of a message without chunks, or a second URL.
THEOREM LLHttpCallsInOrder == LL!LLHttpSpec => LL!CallsInOrder
<1>1. LL!LLHttpInit => ToldInv /\ TrailersInv
    BY DEF LL!LLHttpInit, ToldInv, TrailersInv
<1>2. LL!LLHttpSpec => [][InOrderStep]_(LL!llhttpVars)
    BY <1>1, ToldNext, TrailersNext, OrderStep, PTL DEF LL!LLHttpSpec
<1> QED BY <1>2, PTL DEF LL!CallsInOrder, InOrderStep

-----------------------------------------------------------------------------
(* One framing.  The flags alone do not show why: between a header's name and its value, what  *)
(* the machine has seen is in header_state and in the state itself.                             *)

Has(flag) == flag \in flags

\* The word of a header is the one whose value is parsed, and no other framing was announced.
HeaderInv ==
    /\ state \in {"header_field_colon", "header_field_general", "header_value_discard_ws"} =>
         header_state # "chunked"
    /\ state \in LL!ValueStates =>
         /\ header_state = "content-length" => ~Has("TRANSFER_ENCODING")
         /\ header_state \in {"transfer-encoding", "chunked"} => ~Has("CONTENT_LENGTH")
         /\ header_state = "chunked" => Has("TRANSFER_ENCODING")
    /\ state \in {"header_value_connection", "header_value_connection_ws", "header_value_connection_token"} =>
         header_state \notin {"content-length", "transfer-encoding", "chunked"}
    /\ state \in {"header_value_content_length", "header_value_content_length_ws"} =>
         header_state = "content-length"
    /\ state \in {"header_value_te_chunked", "header_value_te_chunked_last", "header_value_te_token",
                  "header_value_te_token_ows"} =>
         header_state = "transfer-encoding" /\ Has("TRANSFER_ENCODING")

FlagsInv ==
    /\ ~(Has("CONTENT_LENGTH") /\ Has("TRANSFER_ENCODING"))
    /\ Has("CHUNKED") => Has("TRANSFER_ENCODING")
    /\ state = "consume_content_length_1" => Has("CONTENT_LENGTH")
    /\ state \in LL!ChunkStates \/ Has("TRAILING") => Has("CHUNKED")

LengthInv ==
    /\ content_length \in 0..LengthLimit - 1
    /\ state \in {"consume_content_length_1", "consume_content_length"} => content_length > 0

\* A length grows by a digit only if it still fits (mul_add_content_length).
LEMMA LengthFits ==
    ASSUME LengthLimit \in Nat \ {0}, content_length \in 0..LengthLimit - 1,
           NEW radix \in {10, 16}, NEW digit \in Nat
    PROVE  LL!Appended(radix, digit).value \in 0..LengthLimit - 1
<1> DEFINE product == content_length * radix
           overflow == content_length > (LengthLimit - 1) \div radix \/ product > LengthLimit - 1 - digit
<1>1. LL!Appended(radix, digit).value = IF overflow THEN content_length ELSE product + digit
    BY DEF LL!Appended
<1>2. product \in Nat
    OBVIOUS
<1> QED BY <1>1, <1>2

LEMMA LengthNext ==
    ASSUME LengthLimit \in Nat \ {0}, LengthInv, [LL!LLHttpNext]_(LL!llhttpVars)
    PROVE  LengthInv'
<1> USE DEF LL!In, LL!Eats, LL!Passes, LL!Rejects, LL!Or, LengthInv
<1>1. ASSUME content_length' = content_length, state' \notin {"consume_content_length_1", "consume_content_length"}
      PROVE  LengthInv'
    BY <1>1
<1>2. CASE LL!ContentLengthDigit \/ LL!ChunkSizeDigit
    <2>1. PICK radix \in {10, 16} : content_length' = LL!Appended(radix, LL!DigitOf(LL!Byte)).value
        BY <1>2 DEF LL!ContentLengthDigit, LL!ChunkSizeDigit, LL!Counts
    <2>2. LL!DigitOf(LL!Byte) \in Nat
        BY <1>2 DEF LL!ContentLengthDigit, LL!ChunkSizeDigit, LL!DigitOf, LL!Digits, LL!HexDigits
    <2>3. content_length' \in 0..LengthLimit - 1
        BY <2>1, <2>2, LengthFits
    <2>4. state' \notin {"consume_content_length_1", "consume_content_length"}
        BY <1>2 DEF LL!ContentLengthDigit, LL!ChunkSizeDigit, LL!Counts
    <2> QED BY <2>3, <2>4
<1>3. CASE LL!HeadersEnd
    <2>1. content_length' = IF "CHUNKED" \in flags THEN 0 ELSE content_length
        BY <1>3 DEF LL!HeadersEnd
    <2>2. state' = "consume_content_length_1" => "CHUNKED" \notin flags /\ content_length > 0
        BY <1>3 DEF LL!HeadersEnd, LL!AfterHeaders
    <2>3. state' # "consume_content_length"
        BY <1>3 DEF LL!HeadersEnd, LL!AfterHeaders
    <2> QED BY <2>1, <2>2, <2>3
<1>4. CASE LL!Body \/ LL!ChunkBody
    <2>1. content_length' = content_length - 1 /\ content_length > 0
        BY <1>4 DEF LL!Body, LL!ChunkBody, LL!Consumes
    <2>2. content_length' = 0 => state' \in {"is_equal_upgrade", "chunk_data_almost_done"}
        BY <1>4 DEF LL!Body, LL!ChunkBody, LL!Consumes
    <2> QED BY <2>1, <2>2
<1>5. CASE LL!ChunkSizeEnds
    <2>1. content_length' = content_length /\ state' # "consume_content_length_1"
        BY <1>5 DEF LL!ChunkSizeEnds
    <2>2. state' = "consume_content_length" => content_length # 0
        BY <1>5 DEF LL!ChunkSizeEnds
    <2> QED BY <2>1, <2>2
<1>6. CASE LL!ChunkDataEnds
    BY <1>6 DEF LL!ChunkDataEnds
<1>7. CASE LL!MessageEnds
    BY <1>7 DEF LL!MessageEnds
<1>8. CASE LL!Start \/ LL!Method \/ LL!SpacesBeforeUrl \/ LL!UrlEnds \/ LL!Protocol \/ LL!Version \/ LL!LineEnds
    BY <1>1, <1>8 DEF LL!Start, LL!Method, LL!SpacesBeforeUrl, LL!UrlEnds, LL!Protocol, LL!Version,
       LL!LineEnds, LL!Frame
<1>9. CASE LL!Url
    <2>1. LL!NextInUrl \in LL!UrlStates \cup {"error"}
        BY <1>9 DEF LL!Url, LL!NextInUrl, LL!UrlStart, LL!UrlSchema, LL!UrlServer, LL!UrlPath, LL!UrlQuery,
           LL!UrlFragment, LL!UrlDelimiter, LL!UrlStates, LL!UrlBeginnings
    <2>2. state' \in LL!UrlStates \cup {"error"}
        BY <1>9, <2>1 DEF LL!Url
    <2> QED BY <1>1, <1>9, <2>2 DEF LL!Url, LL!Frame, LL!UrlStates, LL!UrlBeginnings
<1>10. CASE LL!FieldStart \/ LL!Field \/ LL!FieldEnds \/ LL!HeadersBreak \/ LL!TrailersEnd
    BY <1>1, <1>10 DEF LL!FieldStart, LL!Field, LL!FieldEnds, LL!HeadersBreak, LL!TrailersEnd, LL!Frame
<1>11. CASE LL!DiscardSpace \/ LL!Connection \/ LL!ContentLengthEnds \/ LL!ValueText \/ LL!ValueEnds
    BY <1>1, <1>11 DEF LL!DiscardSpace, LL!Connection, LL!ContentLengthEnds, LL!ValueText, LL!ValueEnds, LL!Frame
<1>12. CASE LL!TransferEncoding \/ LL!ValueStarts
    BY <1>1, <1>12 DEF LL!TransferEncoding, LL!AfterChunked, LL!ValueStarts, LL!Valued
<1>13. CASE LL!ChunkSizeOtherwise \/ LL!ExtensionName \/ LL!ExtensionValue \/ LL!ExtensionQuoted \/ LL!Closed
    BY <1>1, <1>13 DEF LL!ChunkSizeOtherwise, LL!ExtensionName, LL!ExtensionValue, LL!ExtensionQuoted, LL!Closed,
       LL!Frame
<1>14. CASE UNCHANGED LL!llhttpVars
    BY <1>14 DEF LL!llhttpVars
<1> QED BY <1>2, <1>3, <1>4, <1>5, <1>6, <1>7, <1>8, <1>9, <1>10, <1>11, <1>12, <1>13, <1>14 DEF LL!LLHttpNext

\* Outside values, a step that sets no flag leaves the flags right.
LEMMA FlagsStay ==
    ASSUME FlagsInv, flags' = flags, state' # "consume_content_length_1" \/ state' = state,
           state' \in LL!ChunkStates => state \in LL!ChunkStates
    PROVE  FlagsInv'
BY DEF FlagsInv, Has

LEMMA HeaderElsewhere ==
    ASSUME state' \notin LL!ValueStates \cup {"header_field_colon", "header_field_general"}
    PROVE  HeaderInv'
BY DEF HeaderInv, LL!ValueStates

\* Names and values: where the framing is announced
LEMMA NamesNext ==
    ASSUME HeaderInv, FlagsInv, LL!FieldStart \/ LL!Field \/ LL!FieldEnds \/ LL!HeadersBreak
    PROVE  HeaderInv' /\ FlagsInv'
<1> USE DEF LL!In, LL!Eats, LL!Passes, LL!Rejects, LL!Or
<1>1. flags' = flags
    BY DEF LL!FieldStart, LL!Field, LL!FieldEnds, LL!HeadersBreak, LL!Frame, LL!header
<1>2. state' \in LL!FieldStates \cup {"header_value_discard_ws", "error"}
    BY DEF LL!FieldStart, LL!Field, LL!FieldEnds, LL!HeadersBreak, LL!FieldStates
<1>3. FlagsInv'
    BY <1>1, <1>2, FlagsStay DEF LL!FieldStates, LL!ChunkStates
<1>4. CASE LL!FieldStart \/ LL!HeadersBreak
    BY <1>3, <1>4, HeaderElsewhere DEF LL!FieldStart, LL!HeadersBreak, LL!ValueStates
<1>5. CASE LL!Field
    <2>1. state' \in LL!FieldStates \cup {"error"}
        BY <1>5 DEF LL!Field, LL!FieldStates
    <2>2. state' \in {"header_field_colon", "header_field_general"} => header_state' # "chunked"
        BY <1>5 DEF LL!Field, LL!KnownFields, HeaderInv
    <2>3. HeaderInv'
        BY <2>1, <2>2 DEF HeaderInv, LL!FieldStates, LL!ValueStates
    <2> QED BY <1>3, <2>3
<1>6. CASE LL!FieldEnds
    <2>1. state \in {"header_field_colon", "header_field_general"} /\ header_state' = header_state
          /\ state' = IF LL!Excluded THEN "error" ELSE "header_value_discard_ws"
        BY <1>6 DEF LL!FieldEnds, LL!header
    <2>2. header_state # "chunked"
        BY <2>1 DEF HeaderInv
    <2>3. ~LL!Excluded => /\ header_state = "content-length" => ~Has("TRANSFER_ENCODING")
                          /\ header_state = "transfer-encoding" => ~Has("CONTENT_LENGTH")
        BY DEF LL!Excluded, Has
    <2>4. LL!Excluded => HeaderInv'
        BY <2>1, HeaderElsewhere DEF LL!ValueStates
    <2>5. ~LL!Excluded => HeaderInv'
        BY <1>1, <2>1, <2>2, <2>3 DEF HeaderInv, Has
    <2> QED BY <1>3, <2>4, <2>5
<1> QED BY <1>3, <1>4, <1>5, <1>6

\* Values that set no flag leave what is known of their header right, and those that set one
\* are the only ones that announce it.
LEMMA ValuesNext ==
    ASSUME HeaderInv, FlagsInv,
           \/ LL!DiscardSpace \/ LL!ValueStarts \/ LL!Connection \/ LL!ContentLengthDigit
           \/ LL!ContentLengthEnds \/ LL!TransferEncoding \/ LL!ValueText \/ LL!ValueEnds
    PROVE  HeaderInv' /\ FlagsInv'
<1> USE DEF LL!In, LL!Eats, LL!Passes, LL!Rejects, LL!Or
<1>1. ASSUME flags' = flags, state' \in LL!ValueStates \cup {"header_field_start", "error"}
      PROVE  FlagsInv'
    BY <1>1, FlagsStay DEF LL!ValueStates, LL!ChunkStates
<1>2. ASSUME state' \in {"header_field_start", "error"}
      PROVE  HeaderInv'
    BY <1>2, HeaderElsewhere DEF LL!ValueStates
<1>3. CASE LL!DiscardSpace
    <2>1. state \in {"header_value_discard_ws", "header_value_discard_ws_almost_done", "header_value_discard_lws"}
          /\ flags' = flags /\ header_state' = header_state
        BY <1>3 DEF LL!DiscardSpace, LL!header
    <2>2. CASE state' \in {"header_field_start", "error"}
        BY <1>1, <1>2, <2>1, <2>2
    <2>3. CASE /\ state' \in {"header_value_discard_ws", "header_value_discard_ws_almost_done", "header_value_discard_lws"}
               /\ state' = "header_value_discard_ws" => state = "header_value_discard_ws"
        <3>1. HeaderInv'
            BY <2>1, <2>3 DEF HeaderInv, Has, LL!ValueStates
        <3> QED BY <1>1, <2>1, <2>3, <3>1 DEF LL!ValueStates
    <2> QED BY <1>3, <2>2, <2>3 DEF LL!DiscardSpace
<1>4. CASE LL!ValueStarts
    <2>1. state = "header_value_discard_ws" /\ header_state' = header_state
          /\ state' = LL!Valued[1] /\ flags' = LL!Valued[2]
        BY <1>4 DEF LL!ValueStarts
    <2>2. /\ header_state # "chunked"
          /\ header_state = "content-length" => ~Has("TRANSFER_ENCODING")
          /\ header_state = "transfer-encoding" => ~Has("CONTENT_LENGTH")
        BY <2>1 DEF HeaderInv, LL!ValueStates
    <2>3. CASE header_state = "connection"
        <3>1. state' = "header_value_connection" /\ flags' = flags
            BY <2>1, <2>3 DEF LL!Valued
        <3>2. HeaderInv'
            BY <2>1, <2>3, <3>1 DEF HeaderInv
        <3> QED BY <1>1, <3>1, <3>2 DEF LL!ValueStates
    <2>4. CASE header_state = "content-length"
        <3>1. state' \in {"error", "header_value_content_length"} /\ flags' = flags
            BY <2>1, <2>4 DEF LL!Valued
        <3>2. HeaderInv'
            BY <2>1, <2>2, <2>4, <3>1 DEF HeaderInv, Has
        <3> QED BY <1>1, <3>1, <3>2 DEF LL!ValueStates
    <2>5. CASE header_state = "transfer-encoding" /\ "CHUNKED" \in flags
        <3>1. state' = "error" /\ flags' = flags
            BY <2>1, <2>5 DEF LL!Valued
        <3> QED BY <1>1, <1>2, <3>1
    <2>6. CASE header_state = "transfer-encoding" /\ "CHUNKED" \notin flags
        <3>1. state' = "header_value_te_chunked" /\ flags' = flags \cup {"TRANSFER_ENCODING"}
            BY <2>1, <2>6 DEF LL!Valued
        <3>2. HeaderInv'
            BY <2>1, <2>2, <2>6, <3>1 DEF HeaderInv, Has
        <3>3. FlagsInv'
            BY <2>2, <2>6, <3>1 DEF FlagsInv, Has, LL!ChunkStates
        <3> QED BY <3>2, <3>3
    <2>7. CASE header_state \notin {"connection", "content-length", "transfer-encoding"}
        <3>1. state' = "header_value" /\ flags' \in {flags, flags \cup {"UPGRADE"}}
            BY <2>1, <2>7 DEF LL!Valued
        <3>2. HeaderInv'
            BY <2>1, <2>2, <2>7, <3>1 DEF HeaderInv, Has
        <3>3. FlagsInv'
            BY <3>1 DEF FlagsInv, Has, LL!ChunkStates
        <3> QED BY <3>2, <3>3
    <2> QED BY <2>3, <2>4, <2>5, <2>6, <2>7
<1>5. CASE LL!Connection
    <2>1. state \in {"header_value_connection", "header_value_connection_ws", "header_value_connection_token"}
        BY <1>5 DEF LL!Connection
    <2>2. header_state \notin {"content-length", "transfer-encoding", "chunked"}
        BY <2>1 DEF HeaderInv
    <2>3. header_state' \notin {"content-length", "transfer-encoding", "chunked"}
        BY <1>5, <2>2 DEF LL!Connection, LL!header, LL!WordOf, LL!ConnectionWords
    <2>4. state' \in {"header_value_connection", "header_value_connection_ws", "header_value_connection_token",
                      "header_value_otherwise"}
        BY <1>5, <2>1 DEF LL!Connection
    <2>5. HeaderInv'
        BY <2>3, <2>4 DEF HeaderInv
    <2>6. flags' = flags \/ flags' = flags \cup LL!FlagOf(header_state)
        BY <1>5 DEF LL!Connection, LL!header
    <2>7. LL!FlagOf(header_state) \subseteq {"CONNECTION_KEEP_ALIVE", "CONNECTION_CLOSE", "CONNECTION_UPGRADE"}
        BY <2>2 DEF LL!FlagOf
    <2>8. FlagsInv'
        BY <2>4, <2>6, <2>7 DEF FlagsInv, Has, LL!ChunkStates
    <2> QED BY <2>5, <2>8
<1>6. CASE LL!ContentLengthDigit
    <2>1. state = "header_value_content_length" /\ state' \in {"header_value_content_length", "error"}
          /\ flags' = flags /\ header_state' = header_state
        BY <1>6 DEF LL!ContentLengthDigit, LL!Counts, LL!header
    <2>2. HeaderInv'
        BY <2>1 DEF HeaderInv, Has, LL!ValueStates
    <2> QED BY <1>1, <2>1, <2>2 DEF LL!ValueStates
<1>7. CASE LL!ContentLengthEnds
    <2>1. state \in {"header_value_content_length", "header_value_content_length_ws"} /\ header_state' = header_state
        BY <1>7 DEF LL!ContentLengthEnds
    <2>2. header_state = "content-length" /\ ~Has("TRANSFER_ENCODING")
        BY <2>1 DEF HeaderInv, LL!ValueStates
    <2>3. state' \in {"header_value_content_length_ws", "header_value_otherwise", "error"}
          /\ flags' \in {flags, flags \cup {"CONTENT_LENGTH"}}
        BY <1>7 DEF LL!ContentLengthEnds
    <2>4. HeaderInv'
        BY <2>1, <2>2, <2>3 DEF HeaderInv, Has
    <2>5. FlagsInv'
        BY <2>2, <2>3 DEF FlagsInv, Has, LL!ChunkStates
    <2> QED BY <2>4, <2>5
<1>8. CASE LL!TransferEncoding
    <2>1. state \in {"header_value_te_chunked", "header_value_te_chunked_last", "header_value_te_token",
                     "header_value_te_token_ows"} /\ flags' = flags
        BY <1>8 DEF LL!TransferEncoding, LL!header
    <2>2. header_state = "transfer-encoding" /\ Has("TRANSFER_ENCODING") /\ ~Has("CONTENT_LENGTH")
        BY <2>1 DEF HeaderInv, LL!ValueStates
    <2>3. state' \in {"header_value_te_chunked", "header_value_te_chunked_last", "header_value_te_token",
                      "header_value_te_token_ows", "header_value_otherwise", "header_value", "error"}
        BY <1>8, <2>1 DEF LL!TransferEncoding, LL!AfterChunked
    <2>4. header_state' = header_state \/ (header_state' = "chunked" /\ state' = "header_value_otherwise")
             \/ (header_state' = "general" /\ state' = "header_value")
        BY <1>8 DEF LL!TransferEncoding, LL!header
    <2>5. HeaderInv'
        BY <2>1, <2>2, <2>3, <2>4 DEF HeaderInv, Has
    <2> QED BY <1>1, <2>1, <2>3, <2>5 DEF LL!ValueStates
<1>9. CASE LL!ValueText
    <2>1. state \in {"header_value", "header_value_otherwise", "header_value_almost_done"}
          /\ flags' = flags /\ header_state' = header_state
        BY <1>9 DEF LL!ValueText, LL!Frame, LL!header
    <2>2. state' \in {"header_value", "header_value_otherwise", "header_value_almost_done", "header_value_lws", "error"}
        BY <1>9, <2>1 DEF LL!ValueText
    <2>3. HeaderInv'
        BY <2>1, <2>2 DEF HeaderInv, Has, LL!ValueStates
    <2> QED BY <1>1, <2>1, <2>2, <2>3 DEF LL!ValueStates
<1>10. CASE LL!ValueEnds
    <2>1. state = "header_value_lws" /\ state' \in {"header_field_start", "error"}
          /\ (flags' = flags \/ flags' = flags \cup LL!FlagOf(header_state))
        BY <1>10 DEF LL!ValueEnds
    <2>2. header_state = "chunked" => Has("TRANSFER_ENCODING")
        BY <2>1 DEF HeaderInv, LL!ValueStates
    <2>3. LL!FlagOf(header_state) \subseteq {"CONNECTION_KEEP_ALIVE", "CONNECTION_CLOSE", "CONNECTION_UPGRADE"}
             \cup (IF header_state = "chunked" THEN {"CHUNKED"} ELSE {})
        BY DEF LL!FlagOf
    <2>4. FlagsInv'
        BY <2>1, <2>2, <2>3 DEF FlagsInv, Has, LL!ChunkStates
    <2> QED BY <1>2, <2>1, <2>4
<1> QED BY <1>3, <1>4, <1>5, <1>6, <1>7, <1>8, <1>9, <1>10

\* The body: it is framed as the flags say, and they are cleared when it is over.
LEMMA BodyNext ==
    ASSUME FlagsInv,
           \/ LL!HeadersEnd \/ LL!TrailersEnd \/ LL!Body \/ LL!ChunkBody \/ LL!ChunkDataEnds
           \/ LL!ChunkSizeDigit \/ LL!ChunkSizeOtherwise \/ LL!ChunkSizeEnds \/ LL!ExtensionName
           \/ LL!ExtensionValue \/ LL!ExtensionQuoted \/ LL!MessageEnds \/ LL!Closed
    PROVE  HeaderInv' /\ FlagsInv'
<1> USE DEF LL!In, LL!Eats, LL!Passes, LL!Rejects, LL!Or
<1>1. CASE LL!HeadersEnd
    <2>1. state' = LL!AfterHeaders /\ flags' = flags
        BY <1>1 DEF LL!HeadersEnd, LL!header
    <2>2. state' \in {"pause", "chunk_size_digit", "error", "consume_content_length_1", "after_message_complete"}
        BY <2>1 DEF LL!AfterHeaders
    <2>3. state' = "chunk_size_digit" => Has("CHUNKED")
        BY <2>1 DEF LL!AfterHeaders, Has
    <2>4. state' = "consume_content_length_1" => Has("CONTENT_LENGTH")
        BY <2>1 DEF LL!AfterHeaders, Has
    <2>5. FlagsInv'
        BY <2>1, <2>2, <2>3, <2>4 DEF FlagsInv, Has, LL!ChunkStates
    <2> QED BY <2>2, <2>5, HeaderElsewhere DEF LL!ValueStates
<1>2. CASE LL!TrailersEnd \/ LL!Body
    <2>1. flags' = flags /\ state' \in {"is_equal_upgrade", state} /\ state \in {"headers_almost_done", "consume_content_length_1"}
          /\ (state' = state => state = "consume_content_length_1")
        BY <1>2 DEF LL!TrailersEnd, LL!Body, LL!Consumes, LL!header
    <2>2. FlagsInv'
        BY <2>1, FlagsStay DEF LL!ChunkStates
    <2> QED BY <2>1, <2>2, HeaderElsewhere DEF LL!ValueStates
<1>3. CASE LL!ChunkBody \/ LL!ChunkDataEnds \/ LL!ChunkSizeDigit \/ LL!ChunkSizeOtherwise
    <2>1. state \in LL!ChunkStates /\ flags' = flags
        BY <1>3 DEF LL!ChunkBody, LL!ChunkDataEnds, LL!ChunkSizeDigit, LL!ChunkSizeOtherwise, LL!Counts,
           LL!Frame, LL!header, LL!ChunkStates
    <2>2. state' \in LL!ChunkStates \cup {"error"}
        BY <1>3 DEF LL!ChunkBody, LL!ChunkDataEnds, LL!ChunkSizeDigit, LL!ChunkSizeOtherwise, LL!Counts,
           LL!Consumes, LL!ChunkStates
    <2>3. FlagsInv'
        BY <2>1, <2>2, FlagsStay DEF LL!ChunkStates
    <2> QED BY <2>2, <2>3, HeaderElsewhere DEF LL!ChunkStates, LL!ValueStates
<1>4. CASE LL!ChunkSizeEnds
    <2>1. state = "chunk_size_almost_done" /\ flags' \in {flags, flags \cup {"TRAILING"}}
          /\ state' \in {"header_field_start", "consume_content_length", "error"}
        BY <1>4 DEF LL!ChunkSizeEnds
    <2>2. Has("CHUNKED")
        BY <2>1 DEF FlagsInv, LL!ChunkStates
    <2>3. FlagsInv'
        BY <2>1, <2>2 DEF FlagsInv, Has
    <2> QED BY <2>1, <2>3, HeaderElsewhere DEF LL!ValueStates
<1>5. CASE LL!ExtensionName \/ LL!ExtensionValue \/ LL!ExtensionQuoted
    <2>1. state \in LL!ChunkStates /\ flags' = flags
        BY <1>5 DEF LL!ExtensionName, LL!ExtensionValue, LL!ExtensionQuoted, LL!Frame, LL!header, LL!ChunkStates
    <2>2. state' \in LL!ChunkStates \cup {"error"}
        BY <1>5 DEF LL!ExtensionName, LL!ExtensionValue, LL!ExtensionQuoted, LL!ChunkStates
    <2>3. FlagsInv'
        BY <2>1, <2>2, FlagsStay DEF LL!ChunkStates
    <2> QED BY <2>2, <2>3, HeaderElsewhere DEF LL!ChunkStates, LL!ValueStates
<1>6. CASE LL!MessageEnds \/ LL!Closed
    <2>1. state' \in {"pause", "after_message_complete", "start", "closed", "error"} /\ flags' \in {flags, {}}
        BY <1>6 DEF LL!MessageEnds, LL!Closed, LL!Frame, LL!header
    <2>2. FlagsInv'
        BY <2>1 DEF FlagsInv, Has, LL!ChunkStates
    <2> QED BY <2>1, <2>2, HeaderElsewhere DEF LL!ValueStates
<1> QED BY <1>1, <1>2, <1>3, <1>4, <1>5, <1>6

\* The request line announces nothing.
LEMMA LineNext ==
    ASSUME FlagsInv,
           \/ LL!Start \/ LL!Method \/ LL!SpacesBeforeUrl \/ LL!Url \/ LL!UrlEnds \/ LL!Protocol
           \/ LL!Version \/ LL!LineEnds
    PROVE  HeaderInv' /\ FlagsInv'
<1> USE DEF LL!In, LL!Eats, LL!Passes, LL!Rejects, LL!Or
<1>1. flags' = flags
    BY DEF LL!Start, LL!Method, LL!SpacesBeforeUrl, LL!Url, LL!UrlEnds, LL!Protocol, LL!Version, LL!LineEnds,
       LL!Frame, LL!header
<1>2. state' \notin LL!ValueStates \cup LL!ChunkStates \cup
                {"header_field_colon", "header_field_general", "consume_content_length_1"}
    <2>1. CASE LL!Url
        <3>1. LL!NextInUrl \in LL!UrlStates \cup {"error"}
            BY <2>1 DEF LL!Url, LL!NextInUrl, LL!UrlStart, LL!UrlSchema, LL!UrlServer, LL!UrlPath, LL!UrlQuery,
               LL!UrlFragment, LL!UrlDelimiter, LL!UrlStates, LL!UrlBeginnings
        <3>2. state' \in LL!UrlStates \cup {"error"}
            BY <2>1, <3>1 DEF LL!Url
        <3> QED BY <3>2 DEF LL!UrlStates, LL!UrlBeginnings, LL!ValueStates, LL!ChunkStates
    <2>2. CASE LL!Start \/ LL!Method \/ LL!SpacesBeforeUrl \/ LL!Protocol \/ LL!Version \/ LL!LineEnds
        BY <2>2 DEF LL!Start, LL!Method, LL!SpacesBeforeUrl, LL!Protocol, LL!Version, LL!LineEnds,
           LL!ValueStates, LL!ChunkStates
    <2>3. CASE LL!UrlEnds
        <3>1. state' \in LL!UrlEndings \cup LL!UrlStates \cup {"req_http_start", "headers_start", "error"}
            BY <2>3 DEF LL!UrlEnds, LL!UrlEndings
        <3> QED BY <3>1 DEF LL!UrlEndings, LL!UrlStates, LL!UrlBeginnings, LL!ValueStates, LL!ChunkStates
    <2> QED BY <2>1, <2>2, <2>3
<1>3. FlagsInv'
    BY <1>1, <1>2, FlagsStay
<1> QED BY <1>2, <1>3, HeaderElsewhere

LEMMA FramingNext == HeaderInv /\ FlagsInv /\ [LL!LLHttpNext]_(LL!llhttpVars) => HeaderInv' /\ FlagsInv'
<1> SUFFICES ASSUME HeaderInv, FlagsInv, [LL!LLHttpNext]_(LL!llhttpVars) PROVE HeaderInv' /\ FlagsInv'
    OBVIOUS
<1>1. CASE UNCHANGED LL!llhttpVars
    BY <1>1 DEF LL!llhttpVars, HeaderInv, FlagsInv, Has
<1> QED BY <1>1, LineNext, NamesNext, ValuesNext, BodyNext DEF LL!LLHttpNext

\* Whatever bytes come, the machine never reads a body by a length and by chunks, reads it by
\* chunks only if chunked is the last coding, trailers included, and no length exceeds what
\* holds it: what a header announces is settled when its name ends, its value begins, or its
\* value ends, and each of these looks at what was announced before.
THEOREM FramedOnce == LengthLimit \in Nat \ {0} /\ LL!LLHttpSpec => []LL!OneFraming
<1>1. LengthLimit \in Nat \ {0} /\ LL!LLHttpInit => HeaderInv /\ FlagsInv /\ LengthInv
    BY DEF LL!LLHttpInit, HeaderInv, FlagsInv, LengthInv, Has, LL!ValueStates, LL!ChunkStates
<1>2. LengthLimit \in Nat \ {0} /\ LengthInv /\ [LL!LLHttpNext]_(LL!llhttpVars) => LengthInv'
    BY LengthNext
<1>3. HeaderInv /\ FlagsInv /\ LengthInv => LL!OneFraming
    BY DEF FlagsInv, LengthInv, Has, LL!OneFraming
<1>4. ASSUME LengthLimit \in Nat \ {0} PROVE LL!LLHttpSpec => []LL!OneFraming
    BY <1>1, <1>2, <1>3, <1>4, FramingNext, PTL DEF LL!LLHttpSpec
<1> QED BY <1>4
=============================================================================
