----------------------------- MODULE FrameFormat -----------------------------
(***************************************************************************)
(* WebSocket frames as bytes, and WebSocketFrameSerializer                  *)
(* (websocket/WebSocketFrameCodec.cpp).                                     *)
(*                                                                          *)
(* A byte is abstracted to what the parser takes out of it: flags and       *)
(* opcode, mask bit and length, a digit of a length, a byte of the masking  *)
(* key, a byte of payload.  XOR with a byte of the key is undone by the     *)
(* same byte only.  The sizes of the format are scaled down: 125 is Short,  *)
(* and a length is written in digits of base Radix instead of 256.          *)
(***************************************************************************)
EXTENDS Integers, SequencesExt

CONSTANTS
    Short,      \* longest payload whose length fits the basic header (125)
    Radix       \* values of a length byte (256)

\* The 125 and 256 of the format are such sizes.
ASSUME SizesAssumption == Short \in Nat /\ Radix \in Nat /\ Radix > 1 /\ Short < Radix * Radix

-----------------------------------------------------------------------------
(* The format *)

Data    == {"Text", "Binary"}
Control == {"Close", "Ping", "Pong"}
Opcodes == Data \cup Control \cup {"Continuation"}

\* isKnownOpcode
Known(opcode) == opcode \in Opcodes

\* readBigEndian
BigEndian(bytes) == FoldLeft(LAMBDA value, digit : value * Radix + digit, 0, bytes)

\* What is left of a length when its last digits are taken away, for each number of them
Shifted(n, count) ==
    LET shifted[k \in 0..count] == IF k = 0 THEN n ELSE shifted[k - 1] \div Radix
    IN  shifted

Digits(n, count) == [i \in 1..count |-> Shifted(n, count)[count - i] % Radix]

\* The byte behind Short tells how many digits follow.
Marker(form) == CASE form = 2 -> Short + 1 [] form = 8 -> Short + 2

\* The shortest form; maxSerializedSize has the same cases.
Form(n) == IF n <= Short THEN 0 ELSE IF n < Radix * Radix THEN 2 ELSE 8

\* What a sender can write, allowed or not: a length is in digits that hold it.
Frame == [fin : BOOLEAN, rsv : BOOLEAN, opcode : STRING, masked : BOOLEAN, form : {0, 2, 8}, size : Nat]
Holds(form, n) ==
    /\ form = 0 => n <= Short
    /\ form # 0 => Shifted(n, form)[form] = 0

\* Byte i of the payload of the f-th frame, under byte (i - 1) % 4 of its key
Plain(f, i)  == <<f, i>>
KeyByte(f, j) == [frame |-> f, byte |-> j]
NoKey == [frame |-> 0, byte |-> 0]

\* A frame as its sender writes it: [fin, rsv, opcode, masked, form, size]
BytesOf(f, d) ==
    << [fin |-> d.fin, rsv |-> d.rsv, opcode |-> d.opcode],
       [masked |-> d.masked, len |-> IF d.form = 0 THEN d.size ELSE Marker(d.form)] >>
    \o Digits(d.size, d.form)
    \o (IF d.masked THEN [j \in 1..4 |-> KeyByte(f, j)] ELSE <<>>)
    \o [i \in 1..d.size |->
          [plain |-> Plain(f, i), key |-> IF d.masked THEN KeyByte(f, 1 + ((i - 1) % 4)) ELSE NoKey]]

Encoded(script) == FlattenSeq([f \in DOMAIN script |-> BytesOf(f, script[f])])

-----------------------------------------------------------------------------
(* The serializer *)

\* What serialize refuses
Refused(opcode, fin, size) == opcode \in Control /\ (~fin \/ size > Short)

\* The frame serialize writes: never masked, its length in the shortest form
Serialized(opcode, fin, size) ==
    [fin |-> fin, rsv |-> FALSE, opcode |-> opcode, masked |-> FALSE,
     form |-> Form(size), size |-> size]
=============================================================================
