------------------------------ MODULE FrameCodec ------------------------------
(***************************************************************************)
(* WebSocketFrameParser (websocket/WebSocketFrameCodec.cpp).                *)
(*                                                                          *)
(* The bytes of a few frames reach parse() cut into inputs of any length;   *)
(* one step is what one byte, or the end of a payload, makes the parser do. *)
(***************************************************************************)
EXTENDS FrameFormat

CONSTANT Scripts    \* what may be sent, [toServer, frames]: sequences of frames (environment)

ASSUME ScriptsAssumption ==
    \A script \in Scripts :
        /\ script.toServer \in BOOLEAN /\ script.frames \in Seq(Frame)
        /\ \A f \in DOMAIN script.frames : Holds(script.frames[f].form, script.frames[f].size)

VARIABLES
    requireMasked,      \* requireMaskedClientFrames_
    sent,               \* the frames the other end encodes
    wire,               \* their bytes
    cursor, left,           \* bytes of wire that parse() has consumed; bytes left in its input
    stage,              \* stage_
    basic,              \* pendingBasicHeaderBytes_ up to pendingBasicHeaderBytesRead_
    missing, digits,    \* pendingLengthByteCount_, pendingLengthBytes_
    keyRead, key,       \* pendingMaskBytesRead_, header.maskingKey
    header, payload,    \* currentFrame_; payloadBytesRead_ is the payload's length
    expecting,          \* expectingContinuation_
    got,                \* history: frames parse() has returned
    error               \* the error it returned

input  == <<requireMasked, sent, wire>>
lengthBytes == <<missing, digits>>
maskBytes == <<keyRead, key>>
frame  == <<header, payload>>
codecVars ==
    <<input, cursor, left, stage, basic, lengthBytes, maskBytes, frame, expecting, got, error>>

-----------------------------------------------------------------------------
NoHeader == [fin |-> FALSE, opcode |-> "Continuation", masked |-> FALSE, size |-> 0]
NoDigits == [i \in 1..8 |-> 0]

\* A new parser, in front of the frames of a script
Starts(script) ==
    /\ requireMasked = script.toServer /\ sent = script.frames /\ wire = Encoded(script.frames)
    /\ cursor = 0 /\ left = 0
    /\ stage = "BasicHeader" /\ basic = <<>> /\ missing = 0 /\ digits = NoDigits
    /\ keyRead = 0 /\ key = [j \in 1..4 |-> NoKey]
    /\ header = NoHeader /\ payload = <<>>
    /\ expecting = FALSE /\ got = <<>> /\ error = "None"

FrameInit == \E script \in Scripts : Starts(script)

-----------------------------------------------------------------------------
(* parse() *)

\* The caller has more bytes, cut anywhere; what a returned frame left of an input it
\* passes again.
Call ==
    /\ left = 0 /\ error = "None"
    /\ ~(stage = "Payload" /\ Len(payload) = header.size)
    /\ \E n \in 1..(Len(wire) - cursor) : left' = n
    /\ UNCHANGED <<input, cursor, stage, basic, lengthBytes, maskBytes, frame, expecting, got, error>>

Consumes(n) == cursor' = cursor + n /\ left' = left - n

\* makeProtocolError
Fail(code) == error' = code

AfterLength == IF header'.masked THEN "MaskingKey" ELSE "Payload"

BasicHeaderStarts ==
    /\ stage = "BasicHeader" /\ left > 0 /\ basic = <<>>
    /\ Consumes(1) /\ basic' = <<wire[cursor + 1]>>
    /\ UNCHANGED <<input, stage, lengthBytes, maskBytes, frame, expecting, got, error>>

\* The checks on the two bytes, in their order
BasicFault(first, second) ==
    CASE first.rsv -> "InvalidReservedBits"
      [] ~first.rsv /\ ~Known(first.opcode) -> "InvalidOpcode"
      [] ~first.rsv /\ Known(first.opcode) /\ requireMasked /\ ~second.masked -> "UnmaskedClientFrame"
      [] OTHER -> "None"

BasicHeaderEnds ==
    /\ stage = "BasicHeader" /\ left > 0 /\ basic # <<>>
    /\ Consumes(1) /\ basic' = <<>>
    /\ LET first == basic[1]  second == wire[cursor + 1]  fault == BasicFault(first, second) IN
       IF fault # "None"
       THEN Fail(fault) /\ UNCHANGED <<stage, missing, header>>
       ELSE /\ header' = [fin |-> first.fin, opcode |-> first.opcode, masked |-> second.masked,
                          size |-> IF second.len <= Short THEN second.len ELSE 0]
            /\ IF second.len <= Short
               THEN stage' = AfterLength /\ UNCHANGED missing
               ELSE /\ stage' = "ExtendedLength"
                    /\ missing' = IF second.len = Marker(2) THEN 2 ELSE 8
            /\ UNCHANGED error
    /\ UNCHANGED <<input, digits, maskBytes, payload, expecting, got>>

LengthByte ==
    /\ stage = "ExtendedLength" /\ left > 0 /\ missing > 1
    /\ Consumes(1)
    /\ digits' = [digits EXCEPT ![9 - missing] = wire[cursor + 1]] /\ missing' = missing - 1
    /\ UNCHANGED <<input, stage, basic, maskBytes, frame, expecting, got, error>>

Zero(bytes, first, last) == \A i \in first..last : bytes[i] = 0

\* Two digits are told from eight by the zeros before them.
Length(bytes) == BigEndian(IF Zero(bytes, 1, 6) THEN SubSeq(bytes, 7, 8) ELSE bytes)
MalformedLength(bytes) ==
    IF Zero(bytes, 3, 6) THEN Length(bytes) <= Short
    ELSE 2 * bytes[1] >= Radix \/ Length(bytes) < Radix * Radix

LengthEnds ==
    /\ stage = "ExtendedLength" /\ left > 0 /\ missing = 1
    /\ Consumes(1) /\ missing' = 0
    /\ LET bytes == [digits EXCEPT ![8] = wire[cursor + 1]] IN
       IF MalformedLength(bytes)
       THEN /\ Fail("MalformedExtendedPayloadLength") /\ digits' = bytes
            /\ UNCHANGED <<stage, header>>
       ELSE /\ header' = [header EXCEPT !.size = Length(bytes)]
            /\ stage' = AfterLength /\ digits' = NoDigits
            /\ UNCHANGED error
    /\ UNCHANGED <<input, basic, maskBytes, payload, expecting, got>>

MaskByte ==
    /\ stage = "MaskingKey" /\ left > 0
    /\ Consumes(1) /\ keyRead' = keyRead + 1
    /\ key' = [key EXCEPT ![keyRead + 1] = wire[cursor + 1]]
    /\ stage' = IF keyRead = 3 THEN "Payload" ELSE stage
    /\ UNCHANGED <<input, basic, lengthBytes, frame, expecting, got, error>>

\* Mutant of Unmasked: the key starts over with every input.
BugKeyRestarts(byte, i, first) ==
    IF ~header.masked \/ byte.key = key[1 + ((i - first) % 4)] THEN byte.plain ELSE <<0, 0>>

\* Payload byte i of a frame; first is the payload's first byte in this input.
Unmasked(byte, i, first) ==
    IF ~header.masked \/ byte.key = key[1 + ((i - 1) % 4)] THEN byte.plain ELSE <<0, 0>>

Least(a, b) == IF a < b THEN a ELSE b

PayloadBytes ==
    /\ stage = "Payload" /\ left > 0 /\ Len(payload) < header.size
    /\ LET n == Least(header.size - Len(payload), left)
           read == Len(payload)
       IN /\ Consumes(n)
          /\ payload' = payload \o [i \in 1..n |-> Unmasked(wire[cursor + i], read + i, read + 1)]
    /\ UNCHANGED <<input, stage, basic, lengthBytes, maskBytes, header, expecting, got, error>>

\* The checks on a frame whose payload is in
FrameFault ==
    LET opcode == header.opcode IN
    CASE opcode \in Control /\ ~header.fin -> "ControlFrameFragmented"
      [] opcode \in Control /\ header.fin /\ header.size > Short -> "ControlFrameTooLarge"
      [] opcode = "Close" /\ header.fin /\ header.size = 1 -> "MalformedClosePayload"
      [] opcode = "Continuation" /\ ~expecting -> "UnexpectedContinuationFrame"
      [] opcode \in Data /\ expecting -> "InterruptedContinuationSequence"
      [] OTHER -> "None"

\* Mutant of Expects: a control frame within a message ends it.
BugControlEndsMessage(opcode, fin) == ~fin

\* Whether a message is open after a frame: control frames may come in the middle of one.
Expects(opcode, fin) == IF opcode \in Control THEN expecting ELSE ~fin

\* resetCurrentFrame
ResetCurrentFrame ==
    /\ stage' = "BasicHeader" /\ basic' = <<>> /\ missing' = 0 /\ digits' = NoDigits
    /\ keyRead' = 0 /\ key' = [j \in 1..4 |-> NoKey]
    /\ header' = NoHeader /\ payload' = <<>>

\* Also when no byte is left: a frame without payload ends with its header.
FrameEnds ==
    /\ stage = "Payload" /\ Len(payload) = header.size /\ error = "None"
    /\ IF FrameFault # "None"
       THEN /\ Fail(FrameFault)
            /\ UNCHANGED <<stage, basic, lengthBytes, maskBytes, frame, expecting, got>>
       ELSE /\ got' = Append(got, [opcode |-> header.opcode, fin |-> header.fin, payload |-> payload])
            /\ expecting' = Expects(header.opcode, header.fin)
            /\ ResetCurrentFrame
            /\ UNCHANGED error
    /\ UNCHANGED <<input, cursor, left>>

Parse ==
    /\ error = "None"
    /\ \/ BasicHeaderStarts \/ BasicHeaderEnds \/ LengthByte \/ LengthEnds
       \/ MaskByte \/ PayloadBytes \/ FrameEnds

FrameNext == Call \/ Parse
FrameSpec == FrameInit /\ [][FrameNext]_codecVars

-----------------------------------------------------------------------------
(* Properties *)

\* What the protocol forbids of the f-th frame, given the frames before it
InMessage(f) ==
    \E open \in 1..(f - 1) :
        /\ sent[open].opcode \notin Control /\ ~sent[open].fin
        /\ \A g \in (open + 1)..(f - 1) : sent[g].opcode \in Control
\* A length is written in the shortest form, and eight bytes leave the first bit zero.
LengthIsRight(d) ==
    /\ d.form # 0 => d.size > Short
    /\ d.form = 8 => d.size >= Radix * Radix /\ 2 * Digits(d.size, 8)[1] < Radix
Faults(f) ==
    LET d == sent[f] IN
    {code \in {"InvalidReservedBits", "InvalidOpcode", "UnmaskedClientFrame",
               "MalformedExtendedPayloadLength", "ControlFrameFragmented", "ControlFrameTooLarge",
               "MalformedClosePayload", "UnexpectedContinuationFrame",
               "InterruptedContinuationSequence"} :
        CASE code = "InvalidReservedBits" -> d.rsv
          [] code = "InvalidOpcode" -> d.opcode \notin Opcodes
          [] code = "UnmaskedClientFrame" -> requireMasked /\ ~d.masked
          [] code = "MalformedExtendedPayloadLength" -> ~LengthIsRight(d)
          [] code = "ControlFrameFragmented" -> d.opcode \in Control /\ ~d.fin
          [] code = "ControlFrameTooLarge" -> d.opcode \in Control /\ d.size > Short
          [] code = "MalformedClosePayload" -> d.opcode = "Close" /\ d.size = 1
          [] code = "UnexpectedContinuationFrame" -> d.opcode = "Continuation" /\ ~InMessage(f)
          [] code = "InterruptedContinuationSequence" -> d.opcode \in Data /\ InMessage(f)}

\* Where the f-th frame ends on the wire
EndOf(f) == Len(Encoded(SubSeq(sent, 1, f)))

\* An error is returned only for a frame that the protocol forbids, and names a rule that
\* this frame breaks, given the frames before it.  A frame that serialize wrote breaks none,
\* but for a Close with one byte of payload, which no caller asks it for.
ErrorsAreDeserved ==
    error # "None" => /\ Len(got) < Len(sent)
                      /\ error \in Faults(Len(got) + 1)

\* However the bytes are cut into inputs, and whatever frame the parser stopped in, it
\* returns the frames as they were sent, payload unmasked, none twice; and each in the very
\* call that brings its last byte, so that no frame waits for the next bytes of a peer that
\* has nothing more to say.  It gives up only where it has to, and returns no frame that the
\* protocol forbids: except for its length, of which the code asks no more than that the
\* basic header could not hold it (LengthsAreRight says the rest, and fails).
FramesAreWhole ==
    /\ Len(got) <= Len(sent)
    /\ \A f \in DOMAIN got :
         /\ Faults(f) \subseteq {"MalformedExtendedPayloadLength"}
         /\ sent[f].form # 0 => sent[f].size > Short
         /\ got[f] = [opcode |-> sent[f].opcode, fin |-> sent[f].fin,
                      payload |-> [i \in 1..sent[f].size |-> Plain(f, i)]]
    /\ left = 0 /\ error = "None" /\ ~(stage = "Payload" /\ Len(payload) = header.size) =>
         \A f \in DOMAIN sent : EndOf(f) <= cursor => f <= Len(got)
    /\ ErrorsAreDeserved

\* MalformedExtendedPayloadLength, as the check in parse() means it (payloadLength < 65536 or
\* the first bit set, when eight bytes were read): no frame is returned whose length is in
\* more bytes than it needs.  Eight bytes are taken for two when the third to the sixth are
\* zero, so the check is never made where it would fail.
LengthsAreRight ==
    \A f \in DOMAIN got : "MalformedExtendedPayloadLength" \notin Faults(f)
=============================================================================
