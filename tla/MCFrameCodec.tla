---------------------------- MODULE MCFrameCodec ----------------------------
\* One frame of any kind, with any length in any of the three forms, followed by a plain
\* one; three frames of any opcode and fin flag; two frames from the serializer; lengths with
\* the first bit set.  The sizes reach past the first turn of the masking key and into the
\* eight-byte form.
EXTENDS FrameCodec

MaxSize == 6

ClientFrame(fin, opcode, size) ==
    [fin |-> fin, rsv |-> FALSE, opcode |-> opcode, masked |-> TRUE, form |-> 0, size |-> size]

AnyFrame ==
    {d \in [fin : BOOLEAN, rsv : BOOLEAN, opcode : Opcodes \cup {"Reserved"}, masked : BOOLEAN,
            form : {0, 2, 8}, size : 0..MaxSize] :
        /\ d.form = 0 => d.size <= Short
        /\ d.form = 2 => d.size < Radix * Radix}

Written ==
    {Serialized(opcode, fin, size) :
        opcode \in Opcodes, fin \in BOOLEAN, size \in {0, 1, Short, Short + 1, Radix * Radix}}
WrittenOnes ==
    {d \in Written : ~Refused(d.opcode, d.fin, d.size) /\ ~(d.opcode = "Close" /\ d.size = 1)}

SomeScripts ==
    {[toServer |-> s, frames |-> <<d, ClientFrame(TRUE, "Text", 1)>>] : d \in AnyFrame, s \in BOOLEAN}
    \cup
    {[toServer |-> TRUE, frames |-> [i \in 1..3 |-> ClientFrame(f[i], o[i], IF o[i] \in Data THEN 1 ELSE 0)]] :
        f \in [1..3 -> BOOLEAN], o \in [1..3 -> Opcodes]}
    \cup
    {[toServer |-> FALSE, frames |-> <<d, e>>] : d \in WrittenOnes, e \in WrittenOnes}
    \cup
    {[toServer |-> TRUE, frames |-> <<[ClientFrame(TRUE, "Text", n) EXCEPT !.form = 8]>>] :
        n \in {128, 132}}
=============================================================================
