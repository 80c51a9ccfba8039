---------------------------- MODULE FramingProofs ----------------------------
(***************************************************************************)
(* Two readers of what arrives in pieces, for any contents and any cut: the  *)
(* parser of WebSocket frames returns them as they were sent, each in the    *)
(* call that brings its last byte, and an error only for a frame that breaks *)
(* the rule it names; the form handler hands the data of each part over,     *)
(* whole, in order and without a byte of anything else.                      *)
(*                                                                           *)
(* Either argument says where in its bytes the reader is, from its state and *)
(* from what it has gathered.  That of frames needs that the digits of a     *)
(* length give the length back, which is an induction on the digits; that of *)
(* forms, that the first delimiter it finds is the one that ends the part.   *)
(***************************************************************************)
EXTENDS FrameCodec, Multipart, DataLemmas

-----------------------------------------------------------------------------
(* Digits *)

\* The value of the first digits, for each number of them
Values(v, bytes) ==
    /\ v \in [0..Len(bytes) -> Nat] /\ v[0] = 0
    /\ \A m \in 1..Len(bytes) : v[m] = (v[m - 1] * Radix) + bytes[m]

Folds(f, bytes, n) ==
    f = [s \in SUBSET (1..n) |-> IF s = {} THEN 0 ELSE f[s \ {Max(s)}] * Radix + bytes[Max(s)]]

LEMMA FoldsExist ==
    ASSUME NEW bytes \in Seq(Nat)
    PROVE  \E f : Folds(f, bytes, Len(bytes))
<1> DEFINE n == Len(bytes)
           F == [p \in Nat \X Nat |-> IF p[1] \in 1..n THEN p[2] * Radix + bytes[p[1]] ELSE 0]
           zero == 0
<1>1. n \in Nat /\ (\A i \in 1..n : bytes[i] \in Nat) /\ Radix \in Nat
    BY LenProperties, ElementOfSeq, SizesAssumption
<1>2. ASSUME NEW k \in Nat, NEW v \in Nat
      PROVE  /\ F[<<k, v>>] \in Nat
             /\ k \in 1..n => F[<<k, v>>] = v * Radix + bytes[k]
    <2>1. <<k, v>> \in Nat \X Nat
        OBVIOUS
    <2>2. k \in 1..n => v * Radix + bytes[k] \in Nat
        BY <1>1
    <2> QED BY <2>1, <2>2
<1>3. StaysIn(F, Nat)
    BY <1>2 DEF StaysIn
<1> HIDE DEF F, n
<1>4. PICK f : SetRecursive(f, n, Nat, 0, F)
    BY <1>1, <1>3, SetRecursion
<1>5. ASSUME NEW s \in SUBSET (1..n)
      PROVE  f[s] = IF s = {} THEN 0 ELSE f[s \ {Max(s)}] * Radix + bytes[Max(s)]
    <2>1. CASE s = {}
        BY <1>4, <2>1 DEF SetRecursive
    <2>2. CASE s # {}
        <3>1. Max(s) \in s
            BY <1>1, <2>2, GreatestIsOne
        <3>2. Max(s) \in 1..n /\ s \ {Max(s)} \in SUBSET (1..n)
            BY <3>1
        <3>3. f[s] = F[<<Max(s), f[s \ {Max(s)}]>>] /\ f[s \ {Max(s)}] \in Nat
            BY <1>4, <2>2, <3>2 DEF SetRecursive
        <3>4. Max(s) \in Nat
            BY <1>1, <3>2
        <3> HIDE DEF zero
        <3>5. f[s] = f[s \ {Max(s)}] * Radix + bytes[Max(s)]
            BY <1>2, <3>2, <3>3, <3>4
        <3> QED BY <2>2, <3>5
    <2> QED BY <2>1, <2>2
<1> DEFINE g == [s \in SUBSET (1..n) |-> IF s = {} THEN 0 ELSE f[s \ {Max(s)}] * Radix + bytes[Max(s)]]
<1>6. f = g
    <2>1. f \in [SUBSET (1..n) -> Nat]
        BY <1>4 DEF SetRecursive
    <2>2. \A s \in SUBSET (1..n) : f[s] = g[s]
        BY <1>5
    <2> QED BY <2>1, <2>2
<1>7. Folds(f, bytes, n)
    BY <1>6 DEF Folds
<1> QED BY <1>7 DEF n

\* readBigEndian, one digit after the other
LEMMA BigEndianIs ==
    ASSUME NEW bytes \in Seq(Nat)
    PROVE  \E v : Values(v, bytes) /\ BigEndian(bytes) = v[Len(bytes)]
<1> DEFINE n == Len(bytes)
           f == CHOOSE g : Folds(g, bytes, n)
           v == [m \in 0..n |-> f[1..m]]
<1>1. n \in Nat /\ DOMAIN bytes = 1..n /\ (\A i \in 1..n : bytes[i] \in Nat) /\ Radix \in Nat
    BY LenProperties, ElementOfSeq, SizesAssumption
<1>2. Folds(f, bytes, n)
    BY FoldsExist
<1>3. BigEndian(bytes) = f[1..n]
    BY <1>1 DEF BigEndian, Folds, FoldLeft, MapThenFoldSet
<1> HIDE DEF f
<1>4. \A s \in SUBSET (1..n) : f[s] = IF s = {} THEN 0 ELSE f[s \ {Max(s)}] * Radix + bytes[Max(s)]
    BY <1>2 DEF Folds
<1>5. f[1..0] = 0
    <2>1. 1..0 = {} /\ {} \in SUBSET (1..n)
        OBVIOUS
    <2> QED BY <1>4, <2>1
<1>6. ASSUME NEW m \in 1..n PROVE f[1..m] = (f[1..m - 1] * Radix) + bytes[m]
    <2>1. 1..m \in SUBSET (1..n) /\ 1..m # {} /\ (1..m) \ {m} = 1..m - 1
        <3> HIDE DEF n
        <3>1. \A j \in 1..m : j \in 1..n
            BY <1>1
        <3>2. \A j : j \in (1..m) \ {m} <=> j \in 1..m - 1
            BY <1>1
        <3>3. m \in 1..m
            BY <1>1
        <3> QED BY <3>1, <3>2, <3>3
    <2>2. Max(1..m) = m
        <3>1. m \in Nat /\ m \in 1..m
            BY <1>1
        <3> QED BY <3>1, GreatestIs
    <2> QED BY <1>4, <2>1, <2>2
<1> HIDE DEF n
<1>7. v[0] = 0 /\ \A m \in 0..n : v[m] = f[1..m]
    BY <1>1, <1>5
<1>8. \A m \in 1..n : m - 1 \in 0..n /\ m \in 0..n /\ v[m] = (v[m - 1] * Radix) + bytes[m]
    <2> HIDE DEF v
    <2>1. \A m \in 1..n : m - 1 \in 0..n /\ m \in 0..n
        BY <1>1
    <2> QED BY <1>6, <1>7, <2>1
<1>9. v[n] = f[1..n]
    BY <1>1
<1> HIDE DEF v
<1> DEFINE N == {m \in Nat : m <= n => v[m] \in Nat}
<1>10. 0 \in N
    BY <1>7
<1>11. ASSUME NEW m \in Nat, m \in N PROVE m + 1 \in N
    <2> SUFFICES ASSUME m + 1 <= n PROVE v[m + 1] \in Nat
        OBVIOUS
    <2>1. m + 1 \in 1..n /\ (m + 1) - 1 = m /\ v[m] \in Nat
        BY <1>1, <1>11
    <2>2. v[m + 1] = (v[m] * Radix) + bytes[m + 1]
        BY <1>8, <2>1
    <2>3. bytes[m + 1] \in Nat /\ Radix \in Nat
        BY <1>1, <2>1
    <2>4. \A a, b, c \in Nat : (a * b) + c \in Nat
        OBVIOUS
    <2> HIDE DEF N
    <2> QED BY <2>1, <2>2, <2>3, <2>4
<1> HIDE DEF N
<1>12. \A m \in Nat : m \in N
    BY <1>10, <1>11, Counting
<1>13. v \in [0..n -> Nat]
    <2>1. \A m \in 0..n : v[m] \in Nat
        BY <1>1, <1>12 DEF N
    <2>2. \A m \in 0..n : f[1..m] \in Nat
        BY <1>7, <2>1
    <2> QED BY <2>2 DEF v
<1>14. Values(v, bytes)
    BY <1>7, <1>8, <1>13 DEF Values, n
<1> QED BY <1>3, <1>9, <1>14 DEF n

\* What Shifted is: a division by the radix for each digit taken away
LEMMA ShiftedIs ==
    ASSUME NEW size \in Nat, NEW count \in Nat
    PROVE  /\ Shifted(size, count) \in [0..count -> Nat] /\ Shifted(size, count)[0] = size
           /\ \A k \in 1..count :
                Shifted(size, count)[k] = Shifted(size, count)[k - 1] \div Radix
<1> DEFINE Is(q) == q = [k \in 0..count |-> IF k = 0 THEN size ELSE q[k - 1] \div Radix]
           q == Shifted(size, count)
           F == [p \in Nat \X Nat |-> p[2] \div Radix]
<1>1. Radix \in Nat /\ Radix > 1
    BY SizesAssumption
<1>2. ASSUME NEW k \in Nat, NEW v \in Nat PROVE F[<<k, v>>] \in Nat /\ F[<<k, v>>] = v \div Radix
    <2>1. <<k, v>> \in Nat \X Nat /\ v \div Radix \in Nat
        BY <1>1
    <2> QED BY <2>1
<1>3. StaysIn(F, Nat)
    BY <1>2 DEF StaysIn
<1> HIDE DEF F
<1>4. PICK s : Recursive(s, count, Nat, size, F)
    BY <1>3, Recursion
<1>5. ASSUME NEW k \in 0..count
      PROVE  s[k] = IF k = 0 THEN size ELSE s[k - 1] \div Radix
    <2>1. CASE k = 0
        BY <1>4, <2>1 DEF Recursive
    <2>2. CASE k # 0
        <3>1. k \in 1..count /\ k - 1 \in 0..count /\ k \in Nat
            BY <2>2
        <3>2. s[k] = F[<<k, s[k - 1]>>] /\ s[k - 1] \in Nat
            BY <1>4, <3>1 DEF Recursive
        <3> QED BY <1>2, <2>2, <3>1, <3>2
    <2> QED BY <2>1, <2>2
<1>6. Is(s)
    <2> DEFINE t == [k \in 0..count |-> IF k = 0 THEN size ELSE s[k - 1] \div Radix]
    <2>1. s = t
        <3>1. s \in [0..count -> Nat]
            BY <1>4 DEF Recursive
        <3>2. \A k \in 0..count : s[k] = t[k]
            BY <1>5
        <3> QED BY <3>1, <3>2
    <2> QED BY <2>1
<1>7. q = CHOOSE t : Is(t)
    BY DEF Shifted
<1>8. Is(q)
    <2> HIDE DEF Is, q
    <2> QED BY <1>6, <1>7
<1> HIDE DEF q
<1>9. q[0] = size /\ \A k \in 1..count : q[k] = q[k - 1] \div Radix
    BY <1>8
<1> DEFINE N == {k \in Nat : k <= count => q[k] \in Nat}
<1>10. 0 \in N
    BY <1>9
<1>11. ASSUME NEW k \in Nat, k \in N PROVE k + 1 \in N
    <2> SUFFICES ASSUME k + 1 <= count PROVE q[k + 1] \in Nat
        OBVIOUS
    <2>1. k + 1 \in 1..count /\ (k + 1) - 1 = k /\ q[k] \in Nat
        BY <1>11
    <2>2. q[k + 1] = q[k] \div Radix
        BY <1>9, <2>1
    <2>3. q[k] \div Radix \in Nat
        BY <1>1, <2>1
    <2> QED BY <2>2, <2>3
<1> HIDE DEF N
<1>12. \A k \in Nat : k \in N
    BY <1>10, <1>11, Counting
<1>13. q \in [0..count -> Nat]
    <2>1. \A k \in 0..count : q[k] \in Nat
        BY <1>12 DEF N
    <2> QED BY <1>8, <2>1
<1> QED BY <1>9, <1>13 DEF q

\* A digit, and what is left behind it, give what was left before.
LEMMA DigitsAre ==
    ASSUME NEW size \in Nat, NEW count \in Nat, NEW i \in 1..count
    PROVE  /\ Digits(size, count)[i] \in Nat
           /\ Shifted(size, count)[count - i]
                = (Shifted(size, count)[(count - i) + 1] * Radix) + Digits(size, count)[i]
<1> DEFINE q == Shifted(size, count)
           k == count - i
<1>1. Radix \in Nat /\ Radix > 1
    BY SizesAssumption
<1>2. k \in 0..count /\ k + 1 \in 1..count /\ (k + 1) - 1 = k
    OBVIOUS
<1>3. q \in [0..count -> Nat] /\ q[k + 1] = q[(k + 1) - 1] \div Radix
    BY <1>2, ShiftedIs
<1>4. Digits(size, count)[i] = q[k] % Radix
    BY DEF Digits
<1>5. q[k] \in Nat /\ q[k + 1] = q[k] \div Radix
    BY <1>2, <1>3
<1>6. \A n \in Nat : n % Radix \in Nat /\ n = ((n \div Radix) * Radix) + (n % Radix)
    BY <1>1
<1> HIDE DEF q, k
<1>7. q[k] % Radix \in Nat /\ q[k] = (q[k + 1] * Radix) + (q[k] % Radix)
    BY <1>5, <1>6
<1> QED BY <1>4, <1>7 DEF q, k

LEMMA DigitsTyped ==
    ASSUME NEW size \in Nat, NEW count \in Nat
    PROVE  Digits(size, count) \in Seq(Nat) /\ Len(Digits(size, count)) = count
<1>1. \A i \in 1..count : Digits(size, count)[i] \in Nat
    BY DigitsAre
<1>2. Digits(size, count) = [i \in 1..count |-> Digits(size, count)[i]]
    BY DEF Digits
<1> QED BY <1>1, <1>2

\* The digits that hold a length give it back.
LEMMA DigitsGiveBack ==
    ASSUME NEW size \in Nat, NEW count \in Nat, Shifted(size, count)[count] = 0
    PROVE  BigEndian(Digits(size, count)) = size
<1> DEFINE q == Shifted(size, count)
           d == Digits(size, count)
<1>1. d \in Seq(Nat) /\ Len(d) = count
    BY DigitsTyped
<1>2. \A i \in 1..count : q[count - i] = (q[(count - i) + 1] * Radix) + d[i]
    BY DigitsAre
<1>3. q[0] = size /\ q[count] = 0
    BY ShiftedIs
<1> HIDE DEF q, d
<1>4. PICK v : Values(v, d) /\ BigEndian(d) = v[count]
    BY <1>1, BigEndianIs
<1> DEFINE N == {i \in Nat : i <= count => v[i] = q[count - i]}
<1>5. 0 \in N
    <2>1. v[0] = 0 /\ count - 0 = count
        BY <1>4 DEF Values
    <2> QED BY <1>3, <2>1
<1>6. ASSUME NEW i \in Nat, i \in N PROVE i + 1 \in N
    <2> SUFFICES ASSUME i + 1 <= count PROVE v[i + 1] = q[count - (i + 1)]
        OBVIOUS
    <2>1. i + 1 \in 1..count /\ (i + 1) - 1 = i /\ (count - (i + 1)) + 1 = count - i
        OBVIOUS
    <2>2. v[i] = q[count - i]
        BY <1>6
    <2>3. v[i + 1] = (v[(i + 1) - 1] * Radix) + d[i + 1]
        BY <1>1, <1>4, <2>1 DEF Values
    <2>4. q[count - (i + 1)] = (q[(count - (i + 1)) + 1] * Radix) + d[i + 1]
        BY <1>2, <2>1
    <2> QED BY <2>1, <2>2, <2>3, <2>4
<1> HIDE DEF N
<1>7. count \in N
    BY <1>5, <1>6, Counting
<1>8. v[count] = q[0]
    BY <1>7 DEF N
<1> QED BY <1>3, <1>4, <1>8 DEF d

\* Two digits
LEMMA TwoDigits ==
    ASSUME NEW a \in Nat, NEW b \in Nat
    PROVE  BigEndian(<<a, b>>) = (a * Radix) + b
<1> DEFINE d == <<a, b>>
<1>1. d \in Seq(Nat) /\ Len(d) = 2 /\ d[1] = a /\ d[2] = b /\ Radix \in Nat
    BY SizesAssumption
<1> HIDE DEF d
<1>2. PICK v : Values(v, d) /\ BigEndian(d) = v[2]
    BY <1>1, BigEndianIs
<1>3. v[0] = 0 /\ v[1] = (v[0] * Radix) + a /\ v[2] = (v[1] * Radix) + b
    <2>1. 1 \in 1..Len(d) /\ 2 \in 1..Len(d) /\ 1 - 1 = 0 /\ 2 - 1 = 1
        BY <1>1
    <2>2. \A m \in 1..Len(d) : v[m] = (v[m - 1] * Radix) + d[m]
        BY <1>2 DEF Values
    <2>3. v[1] = (v[1 - 1] * Radix) + d[1] /\ v[2] = (v[2 - 1] * Radix) + d[2]
        BY <2>1, <2>2
    <2> QED BY <1>1, <1>2, <2>1, <2>3 DEF Values
<1>4. v[1] = a
    BY <1>1, <1>3
<1> QED BY <1>2, <1>3, <1>4 DEF d

\* pendingLengthBytes_ while some digits are missing: two stand at the end of the eight.
Filled(size, width, m) ==
    [i \in 1..8 |-> IF i > 8 - width /\ i <= 8 - m THEN Digits(size, width)[i - (8 - width)] ELSE 0]

\* A value with one digit more
Carry(a, b) == (a * Radix) + b

LEMMA CarryIs ==
    ASSUME NEW a \in Nat, NEW b \in Nat
    PROVE  /\ Carry(a, b) \in Nat
           /\ a = 0 => Carry(a, b) = b
           /\ a >= 1 \/ b # 0 => Carry(a, b) >= 1
           /\ a >= 1 => Carry(a, b) >= Radix
           /\ a >= Radix => Carry(a, b) >= Radix * Radix
<1>1. Radix \in Nat /\ Radix > 1
    BY SizesAssumption
<1>2. a * Radix \in Nat /\ (a = 0 => a * Radix = 0)
         /\ (a >= 1 => a * Radix >= Radix) /\ (a >= Radix => a * Radix >= Radix * Radix)
    BY <1>1
<1> QED BY <1>1, <1>2 DEF Carry

LEMMA LastTwo ==
    ASSUME NEW s \in Seq(Nat), Len(s) = 8
    PROVE  SubSeq(s, 7, 8) = <<s[7], s[8]>>
<1>1. SubSeq(s, 7, 8) \in Seq(Nat) /\ Len(SubSeq(s, 7, 8)) = 2
    <2>1. ASSUME NEW i \in 7..8 PROVE s[i] \in Nat
        <3>1. i \in 1..Len(s)
            OBVIOUS
        <3> QED BY <3>1, ElementOfSeq
    <2> QED BY <2>1, SubSeqProperties
<1>2. SubSeq(s, 7, 8)[1] = s[7] /\ SubSeq(s, 7, 8)[2] = s[8]
    OBVIOUS
<1> DEFINE t == SubSeq(s, 7, 8)
<1> HIDE DEF t
<1>3. t \in Seq(Nat) /\ Len(t) = 2 /\ t[1] = s[7] /\ t[2] = s[8]
    BY <1>1, <1>2 DEF t
<1>4. t = <<t[1], t[2]>>
    BY <1>3
<1> QED BY <1>3, <1>4 DEF t

LEMMA LengthOfTwo ==
    ASSUME NEW size \in Nat, Holds(2, size)
    PROVE  /\ Length(Filled(size, 2, 0)) = size
           /\ MalformedLength(Filled(size, 2, 0)) <=> size <= Short
<1> DEFINE b == Filled(size, 2, 0)
           d == Digits(size, 2)
<1>0. 2 \in Nat /\ Shifted(size, 2)[2] = 0
    BY DEF Holds
<1>2. d \in Seq(Nat) /\ Len(d) = 2 /\ BigEndian(d) = size
    BY <1>0, DigitsTyped, DigitsGiveBack
<1> HIDE DEF d
<1>1. d \in Seq(Nat) /\ Len(d) = 2 /\ d[1] \in Nat /\ d[2] \in Nat
    <2>1. 1 \in 1..Len(d) /\ 2 \in 1..Len(d)
        BY <1>2
    <2> QED BY <1>2, <2>1, ElementOfSeq
<1>3. b = <<0, 0, 0, 0, 0, 0, d[1], d[2]>>
    <2>1. b = [i \in 1..8 |-> IF i > 6 /\ i <= 8 THEN d[i - 6] ELSE 0]
        BY DEF Filled, d
    <2> QED BY <1>1, <2>1
<1> HIDE DEF b
<1>4. SubSeq(b, 7, 8) = d
    <2>1. SubSeq(b, 7, 8) = <<b[7], b[8]>>
        <3>1. b \in Seq(Nat) /\ Len(b) = 8
            BY <1>1, <1>3
        <3> QED BY <3>1, LastTwo
    <2>2. d = <<d[1], d[2]>>
        BY <1>1
    <2> QED BY <1>3, <2>1, <2>2
<1>5. Zero(b, 1, 6) /\ Zero(b, 3, 6)
    BY <1>3 DEF Zero
<1>6. Length(b) = size
    BY <1>2, <1>4, <1>5 DEF Length
<1>7. MalformedLength(b) <=> size <= Short
    BY <1>5, <1>6 DEF MalformedLength
<1> QED BY <1>6, <1>7 DEF b

LEMMA LengthOfEight ==
    ASSUME NEW size \in Nat, Holds(8, size)
    PROVE  /\ Length(Filled(size, 8, 0)) = size
           /\ size <= Short => MalformedLength(Filled(size, 8, 0))
           /\ MalformedLength(Filled(size, 8, 0)) =>
                size <= Short \/ 2 * Digits(size, 8)[1] >= Radix
<1> DEFINE d == Digits(size, 8)
           q == Shifted(size, 8)
<1>0. Radix \in Nat /\ Radix > 1 /\ Short \in Nat /\ Short < Radix * Radix
    BY SizesAssumption
<1>1. d \in Seq(Nat) /\ Len(d) = 8 /\ \A i \in 1..8 : d[i] \in Nat
    BY DigitsTyped, DigitsAre
<1>2. BigEndian(d) = size
    BY DigitsGiveBack DEF Holds
<1>3. q \in [0..8 -> Nat] /\ q[0] = size /\ q[8] = 0
    <2>1. 8 \in Nat /\ Shifted(size, 8)[8] = 0
        BY DEF Holds
    <2>2. Shifted(size, 8) \in [0..8 -> Nat] /\ Shifted(size, 8)[0] = size
        BY <2>1, ShiftedIs
    <2> QED BY <2>1, <2>2
<1>4. \A i \in 1..8 : q[8 - i] = (q[(8 - i) + 1] * Radix) + d[i]
    BY DigitsAre
<1>6. Filled(size, 8, 0) = d
    <2>1. Filled(size, 8, 0) = [i \in 1..8 |-> IF i > 0 /\ i <= 8 THEN Digits(size, 8)[i - 0] ELSE 0]
        BY DEF Filled
    <2>2. d = [i \in 1..8 |-> d[i]]
        BY DEF Digits
    <2>3. \A i \in 1..8 : i > 0 /\ i <= 8 /\ i - 0 = i
        OBVIOUS
    <2> QED BY <2>1, <2>2, <2>3
<1> HIDE DEF d, q
<1>7. /\ q[7] = d[1]
      /\ q[6] = Carry(q[7], d[2])
      /\ q[5] = Carry(q[6], d[3])
      /\ q[4] = Carry(q[5], d[4])
      /\ q[3] = Carry(q[4], d[5])
      /\ q[2] = Carry(q[3], d[6])
      /\ q[1] = Carry(q[2], d[7])
      /\ q[0] = Carry(q[1], d[8])
    <2>1. \A j \in 0..7 : q[j] = (q[j + 1] * Radix) + d[8 - j]
        <3>1. \A j \in 0..7 : 8 - j \in 1..8 /\ 8 - (8 - j) = j
            OBVIOUS
        <3> QED BY <1>4, <3>1
    <2>2. q[7] = (q[8] * Radix) + d[1]
        BY <2>1
    <2>3. q[7] = d[1]
        BY <1>0, <1>1, <1>3, <2>2
    <2> QED BY <2>1, <2>3 DEF Carry
<1>8. /\ d[1] \in Nat /\ d[2] \in Nat /\ d[3] \in Nat /\ d[4] \in Nat
      /\ d[5] \in Nat /\ d[6] \in Nat /\ d[7] \in Nat /\ d[8] \in Nat
    BY <1>1
<1>9. /\ q[7] \in Nat /\ q[6] \in Nat /\ q[5] \in Nat /\ q[4] \in Nat
      /\ q[3] \in Nat /\ q[2] \in Nat /\ q[1] \in Nat /\ q[0] \in Nat
    BY <1>3
<1>c. \A a, b \in Nat : a = 0 => Carry(a, b) = b
    BY CarryIs
<1>d. \A a, b \in Nat : a >= 1 \/ b # 0 => Carry(a, b) >= 1
    BY CarryIs
<1>e. \A a, b \in Nat : a >= 1 => Carry(a, b) >= Radix
    BY CarryIs
<1>f. \A a, b \in Nat : a >= Radix => Carry(a, b) >= Radix * Radix
    BY CarryIs
<1>10. CASE Zero(d, 1, 6)
    <2>1. d[1] = 0 /\ d[2] = 0 /\ d[3] = 0 /\ d[4] = 0 /\ d[5] = 0 /\ d[6] = 0
        BY <1>10 DEF Zero
    <2>2. q[7] = 0 /\ q[6] = 0 /\ q[5] = 0 /\ q[4] = 0 /\ q[3] = 0 /\ q[2] = 0
        BY <1>7, <1>8, <1>9, <1>c, <2>1
    <2>3. q[1] = d[7]
        BY <1>7, <1>8, <1>9, <1>c, <2>2
    <2>4. size = (d[7] * Radix) + d[8]
        BY <1>3, <1>7, <2>3 DEF Carry
    <2>5. SubSeq(d, 7, 8) = <<d[7], d[8]>>
        BY <1>1, LastTwo
    <2>6. Length(d) = size
        <3>1. BigEndian(<<d[7], d[8]>>) = (d[7] * Radix) + d[8]
            BY <1>8, TwoDigits
        <3>2. Length(d) = BigEndian(SubSeq(d, 7, 8))
            BY <1>10 DEF Length
        <3> QED BY <2>4, <2>5, <3>1, <3>2
    <2>7. Zero(d, 3, 6)
        BY <2>1 DEF Zero
    <2> QED BY <1>6, <2>6, <2>7 DEF MalformedLength
<1>11. CASE ~Zero(d, 1, 6)
    <2>1. Length(d) = size
        BY <1>2, <1>11 DEF Length
    <2>2. CASE Zero(d, 3, 6)
        BY <1>6, <2>1, <2>2 DEF MalformedLength
    <2>3. CASE ~Zero(d, 3, 6)
        <3>1. d[3] # 0 \/ d[4] # 0 \/ d[5] # 0 \/ d[6] # 0
            BY <2>3 DEF Zero
        <3>2. q[2] >= 1
            <4>1. (q[5] >= 1 => q[4] >= 1) /\ (d[3] # 0 => q[5] >= 1)
                BY <1>7, <1>8, <1>9, <1>d
            <4>2. (q[4] >= 1 => q[3] >= 1) /\ (d[4] # 0 => q[4] >= 1)
                BY <1>7, <1>8, <1>9, <1>d
            <4>3. (q[3] >= 1 => q[2] >= 1) /\ (d[5] # 0 => q[3] >= 1)
                BY <1>7, <1>8, <1>9, <1>d
            <4>4. d[6] # 0 => q[2] >= 1
                BY <1>7, <1>8, <1>9, <1>d
            <4> QED BY <3>1, <4>1, <4>2, <4>3, <4>4
        <3>4. q[1] >= Radix
            BY <1>7, <1>8, <1>9, <1>e, <3>2
        <3>5. size >= Radix * Radix
            BY <1>3, <1>7, <1>8, <1>9, <1>f, <3>4
        <3>6. size > Short
            <4>1. Radix * Radix \in Nat
                BY <1>0
            <4> QED BY <1>0, <3>5, <4>1
        <3>7. MalformedLength(d) => 2 * d[1] >= Radix
            <4>1. ~(size < Radix * Radix)
                BY <1>0, <3>5
            <4> QED BY <2>1, <2>3, <4>1 DEF MalformedLength
        <3>8. ~(size <= Short)
            BY <1>0, <3>6
        <3> QED BY <1>6, <2>1, <3>7, <3>8 DEF d
    <2> QED BY <2>2, <2>3
<1> QED BY <1>10, <1>11

\* The parser tells the number of digits from the zeros before them: it gets the length, and
\* refuses it if it would have fitted the basic header, or because its first bit is set.
LEMMA LengthIs ==
    ASSUME NEW size \in Nat, NEW width \in {2, 8}, Holds(width, size)
    PROVE  Length(Filled(size, width, 0)) = size
BY LengthOfTwo, LengthOfEight

LEMMA MalformedIs ==
    ASSUME NEW size \in Nat, NEW width \in {2, 8}, Holds(width, size)
    PROVE  /\ size <= Short => MalformedLength(Filled(size, width, 0))
           /\ MalformedLength(Filled(size, width, 0)) =>
                size <= Short \/ (width = 8 /\ 2 * Digits(size, 8)[1] >= Radix)
BY LengthOfTwo, LengthOfEight

-----------------------------------------------------------------------------
(* What is sent *)

SentRight(frames) ==
    frames \in Seq(Frame) /\ \A f \in DOMAIN frames : Holds(frames[f].form, frames[f].size)

Ends(frames, f) == Len(Encoded(SubSeq(frames, 1, f)))

\* InMessage and Faults, of given frames
Within(frames, f) ==
    \E open \in 1..(f - 1) :
        /\ frames[open].opcode \notin Control /\ ~frames[open].fin
        /\ \A g \in (open + 1)..(f - 1) : frames[g].opcode \in Control

Codes == {"InvalidReservedBits", "InvalidOpcode", "UnmaskedClientFrame",
          "MalformedExtendedPayloadLength", "ControlFrameFragmented", "ControlFrameTooLarge",
          "MalformedClosePayload", "UnexpectedContinuationFrame",
          "InterruptedContinuationSequence"}
Breaks(d, within, toServer, code) ==
    \/ code = "InvalidReservedBits" /\ d.rsv
    \/ code = "InvalidOpcode" /\ d.opcode \notin Opcodes
    \/ code = "UnmaskedClientFrame" /\ toServer /\ ~d.masked
    \/ code = "MalformedExtendedPayloadLength" /\ ~LengthIsRight(d)
    \/ code = "ControlFrameFragmented" /\ d.opcode \in Control /\ ~d.fin
    \/ code = "ControlFrameTooLarge" /\ d.opcode \in Control /\ d.size > Short
    \/ code = "MalformedClosePayload" /\ d.opcode = "Close" /\ d.size = 1
    \/ code = "UnexpectedContinuationFrame" /\ d.opcode = "Continuation" /\ ~within
    \/ code = "InterruptedContinuationSequence" /\ d.opcode \in Data /\ within

\* A frame as it should come out
Whole(frames, f) ==
    [opcode |-> frames[f].opcode, fin |-> frames[f].fin,
     payload |-> [i \in 1..frames[f].size |-> Plain(f, i)]]

KeySize(d) == IF d.masked THEN 4 ELSE 0

\* The checks that a frame has passed when its basic header has, and when its length has
HeaderIsFine(d, toServer) == ~d.rsv /\ Known(d.opcode) /\ (toServer => d.masked)
LengthIsFine(d) == d.form # 0 => d.size > Short

\* All that the parser asks of a frame it returns
Passes(d, within, toServer) ==
    /\ \A code \in Codes :
         Breaks(d, within, toServer, code) => code = "MalformedExtendedPayloadLength"
    /\ LengthIsFine(d)

HeaderOf(d) == [fin |-> d.fin, opcode |-> d.opcode, masked |-> d.masked, size |-> d.size]
KeyUpTo(f, n) == [j \in 1..4 |-> IF j <= n THEN KeyByte(f, j) ELSE NoKey]

\* The abstracted bytes
Byte == [fin : BOOLEAN, rsv : BOOLEAN, opcode : STRING] \cup [masked : BOOLEAN, len : Nat]
        \cup Nat \cup [frame : Nat, byte : Nat]
        \cup [plain : Nat \X Nat, key : [frame : Nat, byte : Nat]]

First(d)  == [fin |-> d.fin, rsv |-> d.rsv, opcode |-> d.opcode]
Second(d) == [masked |-> d.masked, len |-> IF d.form = 0 THEN d.size ELSE Marker(d.form)]
KeyBytes(f, d) == [j \in 1..KeySize(d) |-> KeyByte(f, j)]
Masked(f, d, i) ==
    [plain |-> Plain(f, i), key |-> IF d.masked THEN KeyByte(f, 1 + ((i - 1) % 4)) ELSE NoKey]

LEMMA PartsOfBytes ==
    ASSUME NEW f \in Nat, NEW d \in Frame
    PROVE  /\ <<First(d), Second(d)>> \in Seq(Byte) /\ Len(<<First(d), Second(d)>>) = 2
           /\ Digits(d.size, d.form) \in Seq(Byte) /\ Len(Digits(d.size, d.form)) = d.form
           /\ KeyBytes(f, d) \in Seq(Byte) /\ Len(KeyBytes(f, d)) = KeySize(d)
           /\ [i \in 1..d.size |-> Masked(f, d, i)] \in Seq(Byte)
           /\ Len([i \in 1..d.size |-> Masked(f, d, i)]) = d.size
           /\ BytesOf(f, d) = <<First(d), Second(d)>> \o Digits(d.size, d.form) \o KeyBytes(f, d)
                            \o [i \in 1..d.size |-> Masked(f, d, i)]
<1>1. /\ d.fin \in BOOLEAN /\ d.rsv \in BOOLEAN /\ d.opcode \in STRING /\ d.masked \in BOOLEAN
      /\ d.form \in {0, 2, 8} /\ d.form \in Nat /\ d.size \in Nat /\ Short \in Nat
    BY SizesAssumption DEF Frame
<1>2. <<First(d), Second(d)>> \in Seq(Byte) /\ Len(<<First(d), Second(d)>>) = 2
    <2>1. First(d) \in Byte
        BY <1>1 DEF First, Byte
    <2>2. Second(d) \in Byte
        <3>1. (IF d.form = 0 THEN d.size ELSE Marker(d.form)) \in Nat
            BY <1>1 DEF Marker
        <3> QED BY <1>1, <3>1 DEF Second, Byte
    <2> QED BY <2>1, <2>2
<1>3. Digits(d.size, d.form) \in Seq(Byte) /\ Len(Digits(d.size, d.form)) = d.form
    <2>1. Digits(d.size, d.form) \in Seq(Nat) /\ Len(Digits(d.size, d.form)) = d.form
        BY <1>1, DigitsTyped
    <2>2. Nat \subseteq Byte
        BY DEF Byte
    <2> HIDE DEF Byte
    <2>3. \A i \in 1..d.form : Digits(d.size, d.form)[i] \in Byte
        BY <2>1, <2>2, ElementOfSeq
    <2>4. Digits(d.size, d.form) = [i \in 1..d.form |-> Digits(d.size, d.form)[i]]
        BY DEF Digits
    <2>5. \A n \in Nat : \A g : (g = [i \in 1..n |-> g[i]] /\ \A i \in 1..n : g[i] \in Byte)
                => g \in Seq(Byte) /\ Len(g) = n
        OBVIOUS
    <2> QED BY <1>1, <2>3, <2>4, <2>5
<1>4. \A j \in Nat : KeyByte(f, j) \in Byte /\ KeyByte(f, j) \in [frame : Nat, byte : Nat]
    BY DEF KeyByte, Byte
<1>5. KeySize(d) \in Nat
    BY DEF KeySize
<1>6. KeyBytes(f, d) \in Seq(Byte) /\ Len(KeyBytes(f, d)) = KeySize(d)
    <2> HIDE DEF Byte
    <2>1. \A j \in 1..KeySize(d) : KeyByte(f, j) \in Byte
        BY <1>4, <1>5
    <2> QED BY <1>5, <2>1 DEF KeyBytes
<1>7. \A i \in 1..d.size : Masked(f, d, i) \in Byte
    <2> TAKE i \in 1..d.size
    <2>1. NoKey \in [frame : Nat, byte : Nat]
        BY DEF NoKey
    <2>2. 1 + ((i - 1) % 4) \in Nat
        BY <1>1
    <2>3. (IF d.masked THEN KeyByte(f, 1 + ((i - 1) % 4)) ELSE NoKey) \in [frame : Nat, byte : Nat]
        BY <1>4, <2>1, <2>2
    <2>4. Plain(f, i) \in Nat \X Nat
        BY <1>1 DEF Plain
    <2> QED BY <2>3, <2>4 DEF Masked, Byte
<1>8. [i \in 1..d.size |-> Masked(f, d, i)] \in Seq(Byte) /\ Len([i \in 1..d.size |-> Masked(f, d, i)]) = d.size
    BY <1>1, <1>7
<1>9. BytesOf(f, d) = <<First(d), Second(d)>> \o Digits(d.size, d.form) \o KeyBytes(f, d)
                    \o [i \in 1..d.size |-> Masked(f, d, i)]
    <2>1. KeyBytes(f, d) = IF d.masked THEN [j \in 1..4 |-> KeyByte(f, j)] ELSE <<>>
        BY DEF KeyBytes, KeySize
    <2> QED BY <2>1 DEF BytesOf, First, Second, Masked
<1> QED BY <1>2, <1>3, <1>6, <1>8, <1>9

\* Where things are in four sequences one after the other
Parts(r, a, b, c, d, S) ==
    /\ r \in Seq(S)
    /\ Len(r) = Len(a) + Len(b) + Len(c) + Len(d)
    /\ \A i \in 1..Len(a) : r[i] = a[i]
    /\ \A i \in 1..Len(b) : r[Len(a) + i] = b[i]
    /\ \A i \in 1..Len(c) : r[Len(a) + Len(b) + i] = c[i]
    /\ \A i \in 1..Len(d) : r[Len(a) + Len(b) + Len(c) + i] = d[i]

LEMMA FourParts ==
    ASSUME NEW S, NEW a \in Seq(S), NEW b \in Seq(S), NEW c \in Seq(S), NEW d \in Seq(S)
    PROVE  Parts(a \o b \o c \o d, a, b, c, d, S)
<1>0. \A u, v \in Seq(S) :
        /\ u \o v \in Seq(S) /\ Len(u \o v) = Len(u) + Len(v)
        /\ \A i \in 1..Len(u) + Len(v) : (u \o v)[i] = IF i <= Len(u) THEN u[i] ELSE v[i - Len(u)]
    BY ConcatProperties
<1> DEFINE p == a \o b
<1>1. /\ p \in Seq(S) /\ Len(p) = Len(a) + Len(b)
      /\ \A i \in 1..Len(a) + Len(b) : p[i] = IF i <= Len(a) THEN a[i] ELSE b[i - Len(a)]
    BY <1>0
<1> HIDE DEF p
<1> DEFINE q == p \o c
<1>2. /\ q \in Seq(S) /\ Len(q) = Len(p) + Len(c)
      /\ \A i \in 1..Len(p) + Len(c) : q[i] = IF i <= Len(p) THEN p[i] ELSE c[i - Len(p)]
    BY <1>0, <1>1
<1> HIDE DEF q
<1> DEFINE r == q \o d
<1>3. /\ r \in Seq(S) /\ Len(r) = Len(q) + Len(d)
      /\ \A i \in 1..Len(q) + Len(d) : r[i] = IF i <= Len(q) THEN q[i] ELSE d[i - Len(q)]
    BY <1>0, <1>2
<1> HIDE DEF r
<1>4. Len(a) \in Nat /\ Len(b) \in Nat /\ Len(c) \in Nat /\ Len(d) \in Nat
    BY LenProperties
<1>5. Len(r) = Len(a) + Len(b) + Len(c) + Len(d)
    BY <1>1, <1>2, <1>3, <1>4
<1>6. \A i \in 1..Len(a) : r[i] = a[i]
    BY <1>1, <1>2, <1>3, <1>4
<1>7. \A i \in 1..Len(b) : r[Len(a) + i] = b[i]
    <2> TAKE i \in 1..Len(b)
    <2>0. Len(a) + i \in 1..Len(a) + Len(b) /\ ~(Len(a) + i <= Len(a)) /\ (Len(a) + i) - Len(a) = i
        BY <1>4
    <2>1. p[Len(a) + i] = b[i]
        BY <1>1, <2>0
    <2>2. Len(a) + i \in 1..Len(p) /\ Len(p) \in Nat
        BY <1>1, <1>4
    <2> QED BY <1>2, <1>3, <1>4, <2>1, <2>2
<1>8. \A i \in 1..Len(c) : r[Len(a) + Len(b) + i] = c[i]
    <2> TAKE i \in 1..Len(c)
    <2>0. /\ Len(p) + i \in 1..Len(p) + Len(c) /\ ~(Len(p) + i <= Len(p))
          /\ (Len(p) + i) - Len(p) = i
        BY <1>1, <1>4
    <2>1. q[Len(p) + i] = c[i]
        BY <1>2, <2>0
    <2>2. Len(p) + i \in 1..Len(q) /\ Len(q) \in Nat /\ Len(p) + i = Len(a) + Len(b) + i
        BY <1>1, <1>2, <1>4
    <2> QED BY <1>3, <1>4, <2>1, <2>2, SMTT(30)
<1>9. \A i \in 1..Len(d) : r[Len(a) + Len(b) + Len(c) + i] = d[i]
    <2> TAKE i \in 1..Len(d)
    <2>1. Len(q) + i = Len(a) + Len(b) + Len(c) + i /\ Len(q) \in Nat
        BY <1>1, <1>2, <1>4
    <2>2. Len(q) + i \in 1..Len(q) + Len(d) /\ ~(Len(q) + i <= Len(q)) /\ (Len(q) + i) - Len(q) = i
        BY <1>4, <2>1
    <2> QED BY <1>3, <2>1, <2>2
<1>10. Parts(r, a, b, c, d, S)
    BY <1>3, <1>5, <1>6, <1>7, <1>8, <1>9 DEF Parts
<1> QED BY <1>10 DEF r, q, p

\* A frame, byte by byte
FrameBytes(f, d, b) ==
    /\ b \in Seq(Byte) /\ Len(b) = 2 + d.form + KeySize(d) + d.size
    /\ b[1] = First(d) /\ b[2] = Second(d)
    /\ \A i \in 1..d.form : b[2 + i] = Digits(d.size, d.form)[i]
    /\ \A i \in 1..KeySize(d) : b[2 + d.form + i] = KeyByte(f, i)
    /\ \A i \in 1..d.size : b[2 + d.form + KeySize(d) + i] = Masked(f, d, i)

LEMMA BytesAre ==
    ASSUME NEW f \in Nat, NEW d \in Frame
    PROVE  FrameBytes(f, d, BytesOf(f, d))
<1> DEFINE h == <<First(d), Second(d)>>
           n == Digits(d.size, d.form)
           k == KeyBytes(f, d)
           p == [i \in 1..d.size |-> Masked(f, d, i)]
           b == BytesOf(f, d)
<1>1. /\ h \in Seq(Byte) /\ Len(h) = 2 /\ n \in Seq(Byte) /\ Len(n) = d.form
      /\ k \in Seq(Byte) /\ Len(k) = KeySize(d) /\ p \in Seq(Byte) /\ Len(p) = d.size
      /\ b = h \o n \o k \o p
    BY PartsOfBytes
<1>2. h[1] = First(d) /\ h[2] = Second(d)
    OBVIOUS
<1>3. /\ \A i \in 1..KeySize(d) : k[i] = KeyByte(f, i)
      /\ \A i \in 1..d.size : p[i] = Masked(f, d, i)
    BY DEF KeyBytes
<1> HIDE DEF h, k, p, b, n
<1>4. /\ b \in Seq(Byte) /\ Len(b) = Len(h) + Len(n) + Len(k) + Len(p)
      /\ \A i \in 1..Len(h) : b[i] = h[i]
      /\ \A i \in 1..Len(n) : b[Len(h) + i] = n[i]
      /\ \A i \in 1..Len(k) : b[Len(h) + Len(n) + i] = k[i]
      /\ \A i \in 1..Len(p) : b[Len(h) + Len(n) + Len(k) + i] = p[i]
    <2>1. h \in Seq(Byte) /\ n \in Seq(Byte) /\ k \in Seq(Byte) /\ p \in Seq(Byte)
        BY <1>1
    <2>2. Parts(h \o n \o k \o p, h, n, k, p, Byte)
        BY ONLY <2>1, FourParts
    <2>3. Parts(b, h, n, k, p, Byte)
        BY <1>1, <2>2
    <2> QED BY <2>3 DEF Parts
<1>5. b[1] = First(d) /\ b[2] = Second(d)
    <2>1. 1 \in 1..Len(h) /\ 2 \in 1..Len(h)
        BY <1>1
    <2> QED BY <1>2, <1>4, <2>1
<1>6. /\ Len(b) = 2 + d.form + KeySize(d) + d.size
      /\ \A i \in 1..d.form : b[2 + i] = n[i]
      /\ \A i \in 1..KeySize(d) : b[2 + d.form + i] = KeyByte(f, i)
      /\ \A i \in 1..d.size : b[2 + d.form + KeySize(d) + i] = Masked(f, d, i)
    <2>1. Len(h) = 2 /\ Len(n) = d.form /\ Len(k) = KeySize(d) /\ Len(p) = d.size
        BY ONLY <1>1
    <2>2. Len(b) = 2 + d.form + KeySize(d) + d.size
        BY ONLY <1>4, <2>1
    <2>3. \A i \in 1..d.form : b[2 + i] = n[i]
        BY ONLY <1>4, <2>1
    <2>4. \A i \in 1..KeySize(d) : b[2 + d.form + i] = KeyByte(f, i)
        BY ONLY <1>3, <1>4, <2>1
    <2>5. \A i \in 1..d.size : b[2 + d.form + KeySize(d) + i] = Masked(f, d, i)
        BY ONLY <1>3, <1>4, <2>1
    <2> QED BY ONLY <2>2, <2>3, <2>4, <2>5
<1>7. n = Digits(d.size, d.form) /\ b = BytesOf(f, d)
    BY DEF n, b
<1> QED BY <1>4, <1>5, <1>6, <1>7 DEF FrameBytes

Each(frames) == [f \in DOMAIN frames |-> BytesOf(f, frames[f])]

\* The first frames make the front of the bytes.
LEMMA FrontIs ==
    ASSUME NEW frames, SentRight(frames),
           NEW g, Flattens(g, Each(frames), Byte), NEW m \in 0..Len(frames)
    PROVE  /\ Each(frames) \in Seq(Seq(Byte)) /\ Len(Each(frames)) = Len(frames)
           /\ Ends(frames, m) = Len(g[m])
<1> DEFINE ss == Each(frames)
           front == SubSeq(frames, 1, m)
<1>1. /\ frames \in Seq(Frame) /\ DOMAIN frames = 1..Len(frames) /\ Len(frames) \in Nat
      /\ \A f \in 1..Len(frames) : frames[f] \in Frame /\ f \in Nat
    BY LenProperties, ElementOfSeq DEF SentRight
<1>2. \A f \in 1..Len(frames) : BytesOf(f, frames[f]) \in Seq(Byte)
    BY <1>1, BytesAre DEF FrameBytes
<1>3. ss \in Seq(Seq(Byte)) /\ Len(ss) = Len(frames)
    <2> HIDE DEF Byte
    <2> QED BY <1>1, <1>2 DEF Each
<1>4. /\ front \in Seq(Frame) /\ DOMAIN front = 1..m /\ Len(front) = m
      /\ \A f \in 1..m : front[f] = frames[f]
    <2>1. \A i \in 1..m : frames[i] \in Frame
        BY <1>1
    <2>2. SubSeq(frames, 1, m) \in Seq(Frame) /\ Len(SubSeq(frames, 1, m)) = m
        BY <1>1, <2>1
    <2>3. \A f \in 1..m : SubSeq(frames, 1, m)[f] = frames[f]
        BY <1>1
    <2> QED BY <2>2, <2>3
<1>5. SubSeq(ss, 1, m) = Each(front)
    <2>1. SubSeq(ss, 1, m) = [f \in 1..m |-> ss[f]]
        BY <1>1, <1>3
    <2>2. \A f \in 1..m : ss[f] = BytesOf(f, frames[f])
        BY <1>1 DEF Each
    <2> HIDE DEF front, ss
    <2>3. Each(front) = [f \in 1..m |-> ss[f]]
        BY <1>4, <2>2 DEF Each
    <2> QED BY <2>1, <2>3
<1>6. Encoded(front) = FlattenSeq(Each(front))
    BY DEF Encoded, Each
<1>7. FlattenSeq(SubSeq(ss, 1, m)) = g[m]
    BY <1>3, FlattenFront
<1>8. Ends(frames, m) = Len(g[m])
    BY <1>5, <1>6, <1>7 DEF Ends
<1> QED BY <1>3, <1>8

\* The f-th frame is where the one before it ends.
FrameIsAt(w, frames, f) ==
    /\ Ends(frames, f - 1) \in Nat /\ Ends(frames, f) \in Nat
    /\ Ends(frames, f) = Ends(frames, f - 1) + Len(BytesOf(f, frames[f]))
    /\ \A j \in 1..Len(BytesOf(f, frames[f])) : w[Ends(frames, f - 1) + j] = BytesOf(f, frames[f])[j]

LEMMA WireIs ==
    ASSUME NEW frames, SentRight(frames)
    PROVE  /\ Ends(frames, 0) = 0 /\ Ends(frames, Len(frames)) = Len(Encoded(frames))
           /\ \A f \in 1..Len(frames) : FrameIsAt(Encoded(frames), frames, f)
           /\ \A f \in 0..Len(frames) : \A h \in f..Len(frames) : Ends(frames, f) <= Ends(frames, h)
<1> DEFINE ss == Each(frames)
           n == Len(frames)
<1>1. n \in Nat
    BY LenProperties DEF SentRight
<1>2. ss \in Seq(Seq(Byte)) /\ Len(ss) = n
    <2>1. \A f \in 1..n : frames[f] \in Frame /\ f \in Nat
        BY ElementOfSeq DEF SentRight
    <2>2. \A f \in 1..n : BytesOf(f, frames[f]) \in Seq(Byte)
        BY <2>1, BytesAre DEF FrameBytes
    <2>3. DOMAIN frames = 1..n
        BY LenProperties DEF SentRight
    <2> HIDE DEF Byte
    <2> QED BY <1>1, <2>2, <2>3 DEF Each
<1>3. PICK g : Flattens(g, ss, Byte)
    BY <1>2, FlattensExists
<1>4. \A m \in 0..n : Ends(frames, m) = Len(g[m])
    BY <1>3, FrontIs
<1>5. Encoded(frames) = g[n]
    <2>1. Encoded(frames) = FlattenSeq(ss)
        BY DEF Encoded, Each
    <2> QED BY <1>2, <1>3, <2>1, FlattenIs
<1>6. g[0] = <<>> /\ \A m \in 0..n : g[m] \in Seq(Byte)
    BY <1>2, <1>3 DEF Flattens
<1>7. \A m \in 0..n : Ends(frames, m) \in Nat
    BY <1>4, <1>6, LenProperties
<1>8. Ends(frames, 0) = 0 /\ Ends(frames, n) = Len(Encoded(frames))
    BY <1>1, <1>4, <1>5, <1>6
<1>9. ASSUME NEW f \in 1..n PROVE FrameIsAt(Encoded(frames), frames, f)
    <2>1. f \in 0..n /\ f - 1 \in 0..n
        BY <1>1
    <2>2. ss[f] = BytesOf(f, frames[f])
        <3>1. DOMAIN frames = 1..n
            BY LenProperties DEF SentRight
        <3> QED BY <3>1 DEF Each
    <2> HIDE DEF ss, n
    <2>3. f \in 1..Len(ss)
        BY <1>2
    <2>4. /\ Len(g[f]) = Len(g[f - 1]) + Len(ss[f])
          /\ \A j \in 1..Len(ss[f]) : g[Len(ss)][Len(g[f - 1]) + j] = ss[f][j]
        <3>1. FlatAt(g, ss, f)
            BY ONLY <1>2, <1>3, <2>3, FlattenPlaces
        <3> QED BY <3>1 DEF FlatAt
    <2>5. g[Len(ss)] = Encoded(frames)
        BY <1>2, <1>5
    <2> QED BY <1>4, <1>7, <2>1, <2>2, <2>4, <2>5 DEF FrameIsAt
<1>10. ASSUME NEW f \in 0..n, NEW h \in f..n PROVE Ends(frames, f) <= Ends(frames, h)
    <2>1. Len(g[f]) <= Len(g[h])
        BY <1>2, <1>3, FlattenGrows
    <2>2. h \in 0..n
        BY <1>1
    <2> QED BY <1>4, <2>1, <2>2
<1> QED BY <1>8, <1>9, <1>10

-----------------------------------------------------------------------------
(* The inductive invariant *)

\* The frame that is being read; so many of its bytes are
Nth     == Len(got) + 1
Current == sent[Nth]
Read(n) == cursor = Ends(sent, Len(got)) + n

InBasicHeader ==
    /\ stage = "BasicHeader" /\ Read(Len(basic))
    /\ basic = <<>> \/ (Nth \in DOMAIN sent /\ basic = <<BytesOf(Nth, Current)[1]>>)
    /\ missing = 0 /\ digits = NoDigits /\ keyRead = 0 /\ key = KeyUpTo(Nth, 0)
    /\ payload = <<>>

InLength ==
    /\ stage = "ExtendedLength" /\ Nth \in DOMAIN sent /\ basic = <<>>
    /\ HeaderIsFine(Current, requireMasked)
    /\ Current.form # 0 /\ missing \in 1..Current.form /\ Read(2 + (Current.form - missing))
    /\ header = [HeaderOf(Current) EXCEPT !.size = 0]
    /\ digits = Filled(Current.size, Current.form, missing)
    /\ keyRead = 0 /\ key = KeyUpTo(Nth, 0) /\ payload = <<>>

LengthIsIn ==
    /\ Nth \in DOMAIN sent /\ basic = <<>>
    /\ HeaderIsFine(Current, requireMasked) /\ LengthIsFine(Current)
    /\ header = HeaderOf(Current)
    /\ missing = 0 /\ digits = NoDigits

InKey ==
    /\ stage = "MaskingKey" /\ LengthIsIn /\ Current.masked
    /\ keyRead \in 0..3 /\ key = KeyUpTo(Nth, keyRead)
    /\ Read(2 + Current.form + keyRead)
    /\ payload = <<>>

InPayload ==
    /\ stage = "Payload" /\ LengthIsIn
    /\ keyRead = KeySize(Current) /\ key = KeyUpTo(Nth, keyRead)
    /\ \E n \in 0..Current.size :
         /\ payload = [i \in 1..n |-> Plain(Nth, i)]
         /\ Read(2 + Current.form + keyRead + n)

InputIs ==
    /\ requireMasked \in BOOLEAN /\ SentRight(sent) /\ wire = Encoded(sent)
    /\ cursor \in Nat /\ left \in Nat /\ cursor + left <= Len(wire)

FramesAre ==
    /\ got \in Seq([opcode : STRING, fin : BOOLEAN, payload : Seq(Nat \X Nat)])
    /\ Len(got) <= Len(sent)
    /\ \A f \in DOMAIN got :
         /\ got[f] = Whole(sent, f)
         /\ Passes(sent[f], Within(sent, f), requireMasked)
    /\ expecting = Within(sent, Nth)

Reading == InBasicHeader \/ InLength \/ InKey \/ InPayload

Deserved ==
    Nth \in DOMAIN sent /\ error \in Codes
    /\ Breaks(Current, Within(sent, Nth), requireMasked, error)

CodecInv ==
    /\ InputIs
    /\ FramesAre
    /\ IF error = "None" THEN Reading ELSE Deserved

-----------------------------------------------------------------------------
(* What the properties say, in these terms *)

\* Whether a message is open changes with each frame.
LEMMA WithinStep ==
    ASSUME NEW frames \in Seq(Frame), NEW f \in 1..Len(frames)
    PROVE  Within(frames, f + 1) <=>
             IF frames[f].opcode \in Control THEN Within(frames, f) ELSE ~frames[f].fin
<1>1. f \in Nat /\ f >= 1 /\ (f + 1) - 1 = f
    BY LenProperties
<1>2. CASE frames[f].opcode \in Control
    <2>1. ASSUME Within(frames, f + 1) PROVE Within(frames, f)
        <3>1. PICK open \in 1..f :
                /\ frames[open].opcode \notin Control /\ ~frames[open].fin
                /\ \A g \in (open + 1)..f : frames[g].opcode \in Control
            BY <1>1, <2>1 DEF Within
        <3>2. open # f
            BY <1>2, <3>1
        <3>3. open \in 1..(f - 1)
            BY <1>1, <3>2
        <3>4. \A g \in (open + 1)..(f - 1) : g \in (open + 1)..f
            BY <1>1
        <3> QED BY <3>1, <3>3, <3>4 DEF Within
    <2>2. ASSUME Within(frames, f) PROVE Within(frames, f + 1)
        <3>1. PICK open \in 1..(f - 1) :
                /\ frames[open].opcode \notin Control /\ ~frames[open].fin
                /\ \A g \in (open + 1)..(f - 1) : frames[g].opcode \in Control
            BY <2>2 DEF Within
        <3>2. \A g \in (open + 1)..f : g = f \/ g \in (open + 1)..(f - 1)
            BY <1>1
        <3>3. open \in 1..f
            BY <1>1
        <3> QED BY <1>1, <1>2, <3>1, <3>2, <3>3 DEF Within
    <2> QED BY <1>2, <2>1, <2>2
<1>3. CASE frames[f].opcode \notin Control
    <2>1. ASSUME Within(frames, f + 1) PROVE ~frames[f].fin
        <3>1. PICK open \in 1..f :
                /\ frames[open].opcode \notin Control /\ ~frames[open].fin
                /\ \A g \in (open + 1)..f : frames[g].opcode \in Control
            BY <1>1, <2>1 DEF Within
        <3>2. open < f => f \in (open + 1)..f
            BY <1>1
        <3>3. open = f
            BY <1>1, <1>3, <3>1, <3>2
        <3> QED BY <3>1, <3>3
    <2>2. ASSUME ~frames[f].fin PROVE Within(frames, f + 1)
        <3>1. f \in 1..f /\ (f + 1)..f = {}
            BY <1>1
        <3> QED BY <1>1, <1>3, <2>2, <3>1 DEF Within
    <2> QED BY <1>3, <2>1, <2>2
<1> QED BY <1>2, <1>3

LEMMA FaultsAre ==
    ASSUME NEW f
    PROVE  Faults(f) = {code \in Codes : Breaks(sent[f], Within(sent, f), requireMasked, code)}
<1>1. InMessage(f) <=> Within(sent, f)
    BY DEF InMessage, Within
<1>2. ASSUME NEW code \in Faults(f)
      PROVE  code \in Codes /\ Breaks(sent[f], Within(sent, f), requireMasked, code)
    <2>1. code \in Codes
        BY DEF Faults, Codes
    <2>2. CASE code = "InvalidReservedBits"
        BY <1>1, <2>1, <2>2 DEF Faults, Breaks
    <2>3. CASE code = "InvalidOpcode"
        BY <1>1, <2>1, <2>3 DEF Faults, Breaks
    <2>4. CASE code = "UnmaskedClientFrame"
        BY <1>1, <2>1, <2>4 DEF Faults, Breaks
    <2>5. CASE code = "MalformedExtendedPayloadLength"
        BY <1>1, <2>1, <2>5 DEF Faults, Breaks
    <2>6. CASE code = "ControlFrameFragmented"
        BY <1>1, <2>1, <2>6 DEF Faults, Breaks
    <2>7. CASE code = "ControlFrameTooLarge"
        BY <1>1, <2>1, <2>7 DEF Faults, Breaks
    <2>8. CASE code = "MalformedClosePayload"
        BY <1>1, <2>1, <2>8 DEF Faults, Breaks
    <2>9. CASE code = "UnexpectedContinuationFrame"
        BY <1>1, <2>1, <2>9 DEF Faults, Breaks
    <2>10. CASE code = "InterruptedContinuationSequence"
        BY <1>1, <2>1, <2>10 DEF Faults, Breaks
    <2> QED BY <2>1, <2>2, <2>3, <2>4, <2>5, <2>6, <2>7, <2>8, <2>9, <2>10 DEF Codes
<1>3. \A code \in Codes :
            Breaks(sent[f], Within(sent, f), requireMasked, code) => code \in Faults(f)
    BY <1>1 DEF Faults, Codes, Breaks
<1> QED BY <1>2, <1>3

-----------------------------------------------------------------------------
(* The steps *)

\* The frame that is being read
LEMMA CurrentIs ==
    ASSUME InputIs, FramesAre, Nth \in DOMAIN sent
    PROVE  /\ Nth \in 1..Len(sent) /\ Len(got) \in Nat /\ Current \in Frame
           /\ Holds(Current.form, Current.size)
           /\ FrameBytes(Nth, Current, BytesOf(Nth, Current))
           /\ Len(BytesOf(Nth, Current)) = 2 + Current.form + KeySize(Current) + Current.size
           /\ Ends(sent, Len(got)) \in Nat /\ Ends(sent, Nth) \in Nat
           /\ Ends(sent, Nth) = Ends(sent, Len(got)) + Len(BytesOf(Nth, Current))
           /\ \A j \in 1..Len(BytesOf(Nth, Current)) :
                wire[Ends(sent, Len(got)) + j] = BytesOf(Nth, Current)[j]
<1>1. sent \in Seq(Frame) /\ DOMAIN sent = 1..Len(sent) /\ Len(got) \in Nat /\ Len(sent) \in Nat
    BY LenProperties DEF InputIs, SentRight, FramesAre
<1>2. Nth \in 1..Len(sent) /\ Nth \in Nat /\ Nth - 1 = Len(got)
    BY <1>1 DEF Nth
<1>3. Current \in Frame
    BY <1>1, <1>2, ElementOfSeq DEF Current
<1>4. Holds(Current.form, Current.size)
    BY DEF Current, InputIs, SentRight
<1>5. FrameBytes(Nth, Current, BytesOf(Nth, Current))
    BY <1>2, <1>3, BytesAre
<1>6. FrameIsAt(wire, sent, Nth)
    BY <1>2, WireIs DEF InputIs
<1> HIDE DEF Nth
<1>7. /\ Ends(sent, Len(got)) \in Nat /\ Ends(sent, Nth) \in Nat
      /\ Ends(sent, Nth) = Ends(sent, Len(got)) + Len(BytesOf(Nth, Current))
      /\ \A j \in 1..Len(BytesOf(Nth, Current)) :
           wire[Ends(sent, Len(got)) + j] = BytesOf(Nth, Current)[j]
    BY <1>2, <1>6 DEF FrameIsAt, Current
<1> QED BY <1>1, <1>2, <1>3, <1>4, <1>5, <1>7 DEF FrameBytes

\* The next byte
LEMMA ByteIs ==
    ASSUME InputIs, FramesAre, Nth \in DOMAIN sent,
           NEW n \in Nat, Read(n), n < Len(BytesOf(Nth, Current))
    PROVE  wire[cursor + 1] = BytesOf(Nth, Current)[n + 1]
<1> DEFINE b == BytesOf(Nth, Current)
           e == Ends(sent, Len(got))
<1>1. e \in Nat /\ (\A j \in 1..Len(b) : wire[e + j] = b[j]) /\ Len(b) \in Nat
    <2>1. Len(b) \in Nat
        BY CurrentIs, LenProperties DEF FrameBytes
    <2> QED BY <2>1, CurrentIs
<1>2. cursor = e + n
    BY DEF Read
<1>3. n < Len(b)
    OBVIOUS
<1> HIDE DEF b, e
<1>4. n + 1 \in 1..Len(b) /\ cursor + 1 = e + (n + 1)
    BY <1>1, <1>2, <1>3
<1>5. wire[cursor + 1] = b[n + 1]
    BY <1>1, <1>4
<1> QED BY <1>5 DEF b

\* Some bytes are left, so there is a frame they belong to.
LEMMA MoreIsSent ==
    ASSUME InputIs, FramesAre, InBasicHeader, left > 0
    PROVE  Nth \in DOMAIN sent
<1>1. /\ sent \in Seq(Frame) /\ DOMAIN sent = 1..Len(sent)
      /\ Len(got) \in Nat /\ Len(sent) \in Nat /\ Len(got) <= Len(sent)
    BY LenProperties DEF InputIs, SentRight, FramesAre
<1>2. CASE basic # <<>>
    BY <1>2 DEF InBasicHeader
<1>3. CASE basic = <<>>
    <2>1. Len(basic) = 0
        BY <1>3
    <2>2. cursor = Ends(sent, Len(got)) + 0 /\ cursor \in Nat /\ left \in Nat /\ cursor + left <= Len(wire)
        BY <2>1 DEF InBasicHeader, Read, InputIs
    <2>3. Ends(sent, Len(sent)) = Len(wire)
        BY WireIs DEF InputIs
    <2>4. Ends(sent, Len(got)) \in Nat
        <3>1. CASE Len(got) = 0
            BY <3>1, WireIs DEF InputIs
        <3>2. CASE Len(got) # 0
            <4>1. Len(got) \in 1..Len(sent)
                BY <1>1, <3>2
            <4> QED BY <4>1, WireIs DEF InputIs, FrameIsAt
        <3> QED BY <3>1, <3>2
    <2>5. Len(got) # Len(sent)
        BY <2>2, <2>3, <2>4
    <2> QED BY <1>1, <2>5 DEF Nth
<1> QED BY <1>2, <1>3

LEMMA InputStays ==
    ASSUME InputIs, UNCHANGED input, NEW n \in Nat, n <= left, Consumes(n)
    PROVE  InputIs'
BY DEF InputIs, input, Consumes

LEMMA FramesStay ==
    ASSUME FramesAre, UNCHANGED <<input, got, expecting>>
    PROVE  FramesAre'
BY DEF FramesAre, input, Nth

\* The length of the payload is known and fine; the key or the payload comes next.
LEMMA AfterLengthIs ==
    ASSUME LengthIsIn', Nth' \in DOMAIN sent', Current' \in Frame, stage' = AfterLength,
           keyRead' = 0, key' = KeyUpTo(Nth', 0), payload' = <<>>, Read(2 + Current.form)'
    PROVE  Reading'
<1>1. Current'.masked \in BOOLEAN /\ Current'.size \in Nat /\ Current'.form \in Nat
    BY DEF Frame
<1>2. header'.masked = Current'.masked
    BY DEF LengthIsIn, HeaderOf
<1>3. CASE Current'.masked
    <2>1. Read(2 + Current.form + keyRead)'
        BY <1>1 DEF Read
    <2>2. InKey'
        BY <1>2, <1>3, <2>1 DEF InKey, AfterLength
    <2> QED BY <2>2 DEF Reading
<1>4. CASE ~Current'.masked
    <2>1. KeySize(Current') = 0
        BY <1>4 DEF KeySize
    <2>2. 0 \in 0..Current'.size /\ payload' = [i \in 1..0 |-> Plain(Nth', i)]
        BY <1>1
    <2>3. Read(2 + Current.form + keyRead + 0)'
        BY <1>1 DEF Read
    <2>4. InPayload'
        BY <1>2, <1>4, <2>1, <2>2, <2>3 DEF InPayload, AfterLength
    <2> QED BY <2>4 DEF Reading
<1> QED BY <1>1, <1>3, <1>4

LEMMA CallStep ==
    ASSUME CodecInv, Call
    PROVE  CodecInv'
<1>1. InputIs'
    <2>1. PICK n \in 1..(Len(wire) - cursor) : left' = n
        BY DEF Call
    <2>2. Len(wire) \in Nat
        <3>1. Ends(sent, Len(sent)) = Len(wire)
            BY WireIs DEF CodecInv, InputIs
        <3>2. sent \in Seq(Frame) /\ Len(sent) \in Nat
            BY LenProperties DEF CodecInv, InputIs, SentRight
        <3>3. CASE Len(sent) = 0
            BY <3>1, <3>3, WireIs DEF CodecInv, InputIs
        <3>4. CASE Len(sent) # 0
            <4>1. Len(sent) \in 1..Len(sent)
                BY <3>2, <3>4
            <4> QED BY <3>1, <4>1, WireIs DEF CodecInv, InputIs, FrameIsAt
        <3> QED BY <3>3, <3>4
    <2> QED BY <2>1, <2>2 DEF CodecInv, InputIs, Call, input
<1>2. FramesAre'
    BY FramesStay DEF CodecInv, Call
<1>3. Reading /\ error' = "None"
    BY DEF CodecInv, Call
<1>4. Reading'
    BY <1>3 DEF Call, Reading, InBasicHeader, InLength, LengthIsIn, InKey, InPayload, Nth, Current,
                Read, input, lengthBytes, maskBytes, frame
<1> QED BY <1>1, <1>2, <1>3, <1>4 DEF CodecInv

LEMMA BasicHeaderStartsStep ==
    ASSUME CodecInv, error = "None", BasicHeaderStarts
    PROVE  CodecInv'
<1>1. InputIs /\ FramesAre /\ InBasicHeader /\ basic = <<>> /\ left > 0
    BY DEF CodecInv, Reading, BasicHeaderStarts, InLength, InKey, InPayload
<1>2. Nth \in DOMAIN sent
    BY <1>1, MoreIsSent
<1>3. InputIs'
    BY <1>1, InputStays DEF BasicHeaderStarts, InputIs
<1>4. FramesAre'
    BY <1>1, FramesStay DEF BasicHeaderStarts
<1>5. Read(0) /\ 0 < Len(BytesOf(Nth, Current))
    <2>1. Current.form \in Nat /\ Current.size \in Nat /\ KeySize(Current) \in Nat
        BY <1>1, <1>2, CurrentIs, SMTT(30) DEF Frame, KeySize
    <2>2. Len(BytesOf(Nth, Current)) = 2 + Current.form + KeySize(Current) + Current.size
        BY <1>1, <1>2, CurrentIs
    <2>3. Len(basic) = 0
        BY <1>1
    <2> QED BY <1>1, <2>1, <2>2, <2>3 DEF InBasicHeader
<1>6. wire[cursor + 1] = BytesOf(Nth, Current)[0 + 1]
    BY <1>1, <1>2, <1>5, ByteIs
<1>7. basic' = <<BytesOf(Nth, Current)[1]>> /\ Len(basic') = 1
    BY <1>6 DEF BasicHeaderStarts
<1>8. Read(Len(basic))'
    <2>1. cursor' = cursor + 1 /\ cursor = Ends(sent, Len(got)) + 0
        BY <1>5 DEF Read, BasicHeaderStarts, Consumes
    <2>2. sent' = sent /\ got' = got
        BY DEF BasicHeaderStarts, input
    <2>3. Ends(sent, Len(got)) \in Nat
        BY <1>1, <1>2, CurrentIs
    <2> QED BY <1>7, <2>1, <2>2, <2>3 DEF Read
<1>9. InBasicHeader'
    BY <1>1, <1>2, <1>7, <1>8 DEF InBasicHeader, BasicHeaderStarts, Nth, Current, input, lengthBytes,
                                  maskBytes, frame
<1>10. error' = error
    BY DEF BasicHeaderStarts
<1> QED BY <1>3, <1>4, <1>9, <1>10 DEF CodecInv, Reading

LEMMA NothingFilled ==
    ASSUME NEW size \in Nat, NEW width \in {0, 2, 8}
    PROVE  NoDigits = Filled(size, width, width)
<1>1. \A i \in 1..8 : ~(i > 8 - width /\ i <= 8 - width)
    OBVIOUS
<1> QED BY <1>1 DEF NoDigits, Filled

LEMMA BasicHeaderEndsStep ==
    ASSUME CodecInv, error = "None", BasicHeaderEnds
    PROVE  CodecInv'
<1> DEFINE first == basic[1]
           second == wire[cursor + 1]
           d == Current
           b == BytesOf(Nth, Current)
<1>0. UNCHANGED <<requireMasked, sent, wire, digits, keyRead, key, payload, expecting, got>>
    BY DEF BasicHeaderEnds, input, maskBytes
<1>1. InputIs /\ FramesAre /\ InBasicHeader /\ basic # <<>> /\ left > 0 /\ Nth \in DOMAIN sent
    BY DEF CodecInv, Reading, BasicHeaderEnds, InBasicHeader, InLength, InKey, InPayload
<1>2. /\ d \in Frame /\ Holds(d.form, d.size) /\ FrameBytes(Nth, d, b)
      /\ Ends(sent, Len(got)) \in Nat
    BY <1>1, CurrentIs
<1>3. /\ d.fin \in BOOLEAN /\ d.rsv \in BOOLEAN /\ d.masked \in BOOLEAN /\ d.form \in {0, 2, 8}
      /\ d.size \in Nat /\ Short \in Nat /\ KeySize(d) \in Nat /\ d.form \in Nat
    BY <1>2, SizesAssumption DEF Frame, KeySize
<1>4. InputIs'
    BY <1>1, InputStays DEF BasicHeaderEnds, InputIs
<1>5. FramesAre'
    BY <1>1, FramesStay DEF BasicHeaderEnds
<1>6. basic = <<b[1]>> /\ Read(1)
    <2>1. basic = <<b[1]>>
        BY <1>1 DEF InBasicHeader
    <2>2. Len(basic) = 1
        BY <2>1
    <2> QED BY <1>1, <2>1, <2>2 DEF InBasicHeader
<1>7. first = First(d)
    BY <1>2, <1>6 DEF FrameBytes
<1>8. second = Second(d)
    <2>1. 1 < Len(b)
        BY <1>2, <1>3 DEF FrameBytes
    <2>2. wire[cursor + 1] = b[1 + 1]
        BY <1>1, <1>6, <2>1, ByteIs
    <2> QED BY <1>2, <2>2 DEF FrameBytes
<1>9. Nth' = Nth /\ Current' = Current
    BY <1>0 DEF Nth, Current
<1>10. Read(2)'
    <2>1. cursor' = cursor + 1 /\ cursor = Ends(sent, Len(got)) + 1
        BY <1>6 DEF Read, BasicHeaderEnds, Consumes
    <2> QED BY <1>0, <1>2, <2>1 DEF Read
<1>11. /\ first.rsv = d.rsv /\ first.opcode = d.opcode /\ first.fin = d.fin
       /\ second.masked = d.masked
       /\ second.len = IF d.form = 0 THEN d.size ELSE Marker(d.form)
    BY <1>7, <1>8 DEF First, Second
<1>12. basic' = <<>> /\ missing = 0
    BY <1>1 DEF BasicHeaderEnds, InBasicHeader
<1> HIDE DEF first, second, d, b
<1>13. CASE BasicFault(first, second) # "None"
    <2>1. error' = BasicFault(first, second)
        BY <1>13 DEF BasicHeaderEnds, Fail, first, second
    <2>2. /\ error' \in Codes /\ error' # "None"
          /\ Breaks(d, Within(sent, Nth), requireMasked, error')
        BY <1>3, <1>11, <1>13, <2>1 DEF BasicFault, Codes, Breaks, Known
    <2>3. Deserved'
        BY <1>0, <1>1, <1>9, <2>2 DEF Deserved, d
    <2> QED BY <1>4, <1>5, <2>2, <2>3 DEF CodecInv
<1>14. CASE BasicFault(first, second) = "None"
    <2>1. /\ header' = [fin |-> first.fin, opcode |-> first.opcode, masked |-> second.masked,
                        size |-> IF second.len <= Short THEN second.len ELSE 0]
          /\ IF second.len <= Short
             THEN stage' = AfterLength /\ UNCHANGED missing
             ELSE /\ stage' = "ExtendedLength"
                  /\ missing' = IF second.len = Marker(2) THEN 2 ELSE 8
          /\ error' = "None"
        BY <1>14 DEF BasicHeaderEnds, first, second
    <2>2. HeaderIsFine(d, requireMasked)
        BY <1>1, <1>3, <1>11, <1>14 DEF BasicFault, HeaderIsFine, InputIs
    <2>3. CASE d.form = 0
        <3>1. second.len = d.size /\ d.size <= Short
            BY <1>2, <1>11, <2>3 DEF Holds
        <3>2. header' = HeaderOf(d) /\ stage' = AfterLength /\ missing' = 0
            BY <1>11, <1>12, <2>1, <3>1 DEF HeaderOf
        <3>3. LengthIsFine(d)
            BY <2>3 DEF LengthIsFine
        <3>4. digits' = NoDigits /\ keyRead' = 0 /\ key' = KeyUpTo(Nth', 0) /\ payload' = <<>>
            BY <1>0, <1>1, <1>9 DEF InBasicHeader
        <3>5. LengthIsIn'
            BY <1>0, <1>1, <1>9, <1>12, <2>2, <3>2, <3>3, <3>4 DEF LengthIsIn, d
        <3>6. Read(2 + Current.form)'
            <4>1. Current.form = 0
                BY <2>3 DEF d
            <4> QED BY <1>9, <1>10, <4>1 DEF Read
        <3>7. Reading'
            BY <1>0, <1>1, <1>2, <1>9, <3>2, <3>4, <3>5, <3>6, AfterLengthIs DEF d
        <3> QED BY <1>4, <1>5, <2>1, <3>7 DEF CodecInv
    <2>4. CASE d.form # 0
        <3>1. second.len = Marker(d.form) /\ ~(second.len <= Short)
              /\ (second.len = Marker(2) <=> d.form = 2)
            BY <1>3, <1>11, <2>4 DEF Marker
        <3>2. missing' = d.form /\ stage' = "ExtendedLength"
            BY <1>3, <2>1, <2>4, <3>1
        <3>3. header' = [HeaderOf(d) EXCEPT !.size = 0]
            BY <1>11, <2>1, <3>1 DEF HeaderOf
        <3>4. digits' = Filled(d.size, d.form, d.form)
            BY <1>0, <1>1, <1>3, NothingFilled DEF InBasicHeader
        <3>5. keyRead' = 0 /\ key' = KeyUpTo(Nth', 0) /\ payload' = <<>>
            BY <1>0, <1>1, <1>9 DEF InBasicHeader
        <3>6. Read(2 + (Current.form - missing))'
            <4>1. d.form - d.form = 0 /\ 2 + 0 = 2
                BY <1>3
            <4> QED BY <1>9, <1>10, <3>2, <4>1 DEF Read, d
        <3>7. missing' \in 1..d.form
            BY <1>3, <2>4, <3>2
        <3>8. InLength'
            BY <1>0, <1>1, <1>9, <1>12, <2>2, <2>4, <3>2, <3>3, <3>4, <3>5, <3>6, <3>7
            DEF InLength, d
        <3> QED BY <1>4, <1>5, <2>1, <3>8 DEF CodecInv, Reading
    <2> QED BY <2>3, <2>4
<1> QED BY <1>13, <1>14

FillsIn(size, width, m) ==
    [Filled(size, width, m) EXCEPT ![9 - m] = Digits(size, width)[1 + (width - m)]]
      = Filled(size, width, m - 1)

\* One more digit
LEMMA DigitFills ==
    ASSUME NEW size \in Nat, NEW width \in {2, 8}, NEW m \in 1..width
    PROVE  FillsIn(size, width, m)
<1>1. width \in Nat /\ m \in Nat
    OBVIOUS
<1>2. ASSUME NEW i \in 1..8
      PROVE  [Filled(size, width, m) EXCEPT ![9 - m] = Digits(size, width)[1 + (width - m)]][i]
               = Filled(size, width, m - 1)[i]
    <2>1. CASE i = 9 - m
        <3>1. i > 8 - width /\ i <= 8 - (m - 1) /\ i - (8 - width) = 1 + (width - m)
            BY <1>1, <2>1
        <3>2. Filled(size, width, m - 1)[i] = Digits(size, width)[1 + (width - m)]
            BY <3>1 DEF Filled
        <3> QED BY <2>1, <3>2 DEF Filled
    <2>2. CASE i # 9 - m
        <3>1. i <= 8 - (m - 1) <=> i <= 8 - m
            BY <1>1, <2>2
        <3> QED BY <2>2, <3>1 DEF Filled
    <2> QED BY <2>1, <2>2
<1> QED BY <1>2 DEF Filled, FillsIn

\* The next digit, when some are missing
LEMMA DigitIs ==
    ASSUME InputIs, FramesAre, InLength
    PROVE  /\ wire[cursor + 1] = Digits(Current.size, Current.form)[1 + (Current.form - missing)]
           /\ Current \in Frame /\ Current.form \in {2, 8} /\ Current.size \in Nat
           /\ Holds(Current.form, Current.size)
           /\ Ends(sent, Len(got)) \in Nat
<1> DEFINE d == Current
           b == BytesOf(Nth, Current)
<1>1. Nth \in DOMAIN sent /\ d.form # 0 /\ missing \in 1..d.form /\ Read(2 + (d.form - missing))
    BY DEF InLength
<1>2. /\ d \in Frame /\ FrameBytes(Nth, d, b) /\ Ends(sent, Len(got)) \in Nat
      /\ Holds(d.form, d.size)
    BY <1>1, CurrentIs
<1>3. d.form \in {2, 8} /\ d.form \in Nat /\ d.size \in Nat /\ KeySize(d) \in Nat /\ missing \in Nat
    BY <1>1, <1>2 DEF Frame, KeySize
<1>4. /\ 2 + (d.form - missing) \in Nat /\ 2 + (d.form - missing) < Len(b)
      /\ 1 + (d.form - missing) \in 1..d.form
      /\ (2 + (d.form - missing)) + 1 = 2 + (1 + (d.form - missing))
    <2>1. Len(b) = 2 + d.form + KeySize(d) + d.size
        BY <1>2 DEF FrameBytes
    <2> HIDE DEF d, b
    <2>2. 2 + (d.form - missing) \in Nat
        BY <1>1, <1>3
    <2>3. 1 + (d.form - missing) \in 1..d.form
        BY <1>1, <1>3
    <2>4. (2 + (d.form - missing)) + 1 = 2 + (1 + (d.form - missing))
        BY <1>3
    <2>5. 2 + (d.form - missing) < 2 + d.form + KeySize(d) + d.size
        BY <1>1, <1>3
    <2> QED BY <2>1, <2>2, <2>3, <2>4, <2>5
<1>5. wire[cursor + 1] = b[(2 + (d.form - missing)) + 1]
    BY <1>1, <1>4, ByteIs
<1>6. b[2 + (1 + (d.form - missing))] = Digits(d.size, d.form)[1 + (d.form - missing)]
    BY <1>2, <1>4 DEF FrameBytes
<1> QED BY <1>2, <1>3, <1>4, <1>5, <1>6

LEMMA LengthByteStep ==
    ASSUME CodecInv, error = "None", LengthByte
    PROVE  CodecInv'
<1> DEFINE d == Current
<1>0. UNCHANGED <<requireMasked, sent, wire, stage, basic, keyRead, key, header, payload, expecting,
                  got, error>>
    BY DEF LengthByte, input, maskBytes, frame
<1>1. InputIs /\ FramesAre /\ InLength /\ left > 0 /\ missing > 1
    BY DEF CodecInv, Reading, LengthByte, InBasicHeader, InKey, InPayload
<1>2. InputIs' /\ FramesAre'
    BY <1>1, InputStays, FramesStay DEF LengthByte, InputIs
<1>3. /\ wire[cursor + 1] = Digits(d.size, d.form)[1 + (d.form - missing)]
      /\ d.form \in {2, 8} /\ d.size \in Nat /\ Ends(sent, Len(got)) \in Nat
    BY <1>1, DigitIs
<1>4. Nth' = Nth /\ Current' = Current
    BY <1>0 DEF Nth, Current
<1>5. missing \in 1..d.form /\ missing' = missing - 1
    BY <1>1 DEF LengthByte, InLength
<1>6. digits' = Filled(d.size, d.form, missing')
    <2>1. digits' = [Filled(d.size, d.form, missing) EXCEPT ![9 - missing]
                       = Digits(d.size, d.form)[1 + (d.form - missing)]]
        BY <1>1, <1>3 DEF LengthByte, InLength
    <2> HIDE DEF d
    <2>2. FillsIn(d.size, d.form, missing)
        BY <1>3, <1>5, DigitFills
    <2> QED BY <1>5, <2>1, <2>2 DEF FillsIn
<1>7. Read(2 + (Current.form - missing))'
    <2>1. cursor = Ends(sent, Len(got)) + (2 + (d.form - missing)) /\ cursor' = cursor + 1
        BY <1>1 DEF InLength, Read, LengthByte, Consumes
    <2>2. cursor' = Ends(sent, Len(got)) + (2 + (d.form - missing'))
        BY <1>3, <1>5, <2>1, SMTT(30)
    <2> QED BY <1>0, <1>4, <2>2 DEF Read
<1>8. missing' \in 1..d.form
    BY <1>1, <1>3, <1>5
<1>9. InLength'
    BY <1>0, <1>1, <1>4, <1>6, <1>7, <1>8 DEF InLength
<1> QED BY <1>0, <1>2, <1>9 DEF CodecInv, Reading

LEMMA LengthEndsStep ==
    ASSUME CodecInv, error = "None", LengthEnds
    PROVE  CodecInv'
<1> DEFINE d == Current
           bytes == [digits EXCEPT ![8] = wire[cursor + 1]]
<1>0. UNCHANGED <<requireMasked, sent, wire, basic, keyRead, key, payload, expecting, got>>
    BY DEF LengthEnds, input, maskBytes
<1>1. InputIs /\ FramesAre /\ InLength /\ left > 0 /\ missing = 1
    BY DEF CodecInv, Reading, LengthEnds, InBasicHeader, InKey, InPayload
<1>2. InputIs' /\ FramesAre'
    BY <1>1, InputStays, FramesStay DEF LengthEnds, InputIs
<1>3. /\ wire[cursor + 1] = Digits(d.size, d.form)[1 + (d.form - missing)]
      /\ d \in Frame /\ d.form \in {2, 8} /\ d.size \in Nat /\ Ends(sent, Len(got)) \in Nat
      /\ Holds(d.form, d.size)
    BY <1>1, DigitIs
<1>4. Nth' = Nth /\ Current' = Current
    BY <1>0 DEF Nth, Current
<1>5. bytes = Filled(d.size, d.form, 0)
    <2>1. bytes = [Filled(d.size, d.form, 1) EXCEPT ![9 - 1] = Digits(d.size, d.form)[1 + (d.form - 1)]]
        BY <1>1, <1>3 DEF InLength
    <2>2. 1 \in 1..d.form /\ 1 - 1 = 0
        BY <1>3
    <2> HIDE DEF d, bytes
    <2>3. [Filled(d.size, d.form, 1) EXCEPT ![9 - 1] = Digits(d.size, d.form)[1 + (d.form - 1)]]
            = Filled(d.size, d.form, 1 - 1)
        <3>1. FillsIn(d.size, d.form, 1)
            BY <1>3, <2>2, DigitFills
        <3> QED BY <3>1 DEF FillsIn
    <2> QED BY <2>1, <2>2, <2>3
<1>6. /\ Length(bytes) = d.size
      /\ d.size <= Short => MalformedLength(bytes)
      /\ MalformedLength(bytes) =>
           d.size <= Short \/ (d.form = 8 /\ 2 * Digits(d.size, 8)[1] >= Radix)
    <2> HIDE DEF d, bytes
    <2> QED BY <1>3, <1>5, LengthIs, MalformedIs
<1>7. missing' = 0 /\ basic' = <<>> /\ Nth \in DOMAIN sent /\ d.form # 0
    BY <1>0, <1>1 DEF LengthEnds, InLength
<1>8. Read(2 + Current.form)'
    <2>1. cursor = Ends(sent, Len(got)) + (2 + (d.form - 1)) /\ cursor' = cursor + 1
        BY <1>1 DEF InLength, Read, LengthEnds, Consumes
    <2>2. cursor' = Ends(sent, Len(got)) + (2 + d.form)
        BY <1>3, <2>1
    <2> QED BY <1>0, <1>4, <2>2 DEF Read
<1>9. CASE MalformedLength(bytes)
    <2>1. error' = "MalformedExtendedPayloadLength"
        BY <1>9 DEF LengthEnds, Fail
    <2>2. ~LengthIsRight(d)
        <3>1. CASE d.size <= Short
            BY <1>3, <1>7, <3>1, SizesAssumption DEF LengthIsRight
        <3>2. CASE d.form = 8 /\ 2 * Digits(d.size, 8)[1] >= Radix
            <4>1. Digits(d.size, 8)[1] \in Nat
                <5>1. 8 \in Nat /\ 1 \in 1..8
                    OBVIOUS
                <5> QED BY <1>3, <5>1, DigitsAre
            <4> HIDE DEF d
            <4> QED BY <3>2, <4>1, SizesAssumption DEF LengthIsRight
        <3> QED BY <1>6, <1>9, <3>1, <3>2
    <2>4. Breaks(d, Within(sent, Nth), requireMasked, error')
        BY <2>1, <2>2 DEF Breaks
    <2>3. Deserved'
        BY <1>0, <1>4, <1>7, <2>1, <2>4 DEF Deserved, Codes
    <2> QED BY <1>2, <2>1, <2>3 DEF CodecInv
<1>10. CASE ~MalformedLength(bytes)
    <2>1. /\ header' = [header EXCEPT !.size = Length(bytes)] /\ stage' = AfterLength
          /\ digits' = NoDigits /\ error' = error
        BY <1>10 DEF LengthEnds
    <2>2. header' = HeaderOf(d)
        BY <1>1, <1>6, <2>1 DEF InLength, HeaderOf
    <2>3. LengthIsFine(d)
        BY <1>3, <1>6, <1>10, SizesAssumption DEF LengthIsFine
    <2>4. LengthIsIn'
        BY <1>0, <1>1, <1>4, <1>7, <2>1, <2>2, <2>3 DEF LengthIsIn, InLength
    <2>5. keyRead' = 0 /\ key' = KeyUpTo(Nth', 0) /\ payload' = <<>>
        BY <1>0, <1>1, <1>4 DEF InLength
    <2>6. Reading'
        BY <1>0, <1>3, <1>4, <1>7, <1>8, <2>1, <2>4, <2>5, AfterLengthIs
    <2> QED BY <1>2, <2>1, <2>6 DEF CodecInv
<1> QED BY <1>9, <1>10

LEMMA MaskByteStep ==
    ASSUME CodecInv, error = "None", MaskByte
    PROVE  CodecInv'
<1> DEFINE d == Current
           b == BytesOf(Nth, Current)
<1>0. UNCHANGED <<requireMasked, sent, wire, basic, missing, digits, header, payload, expecting, got,
                  error>>
    BY DEF MaskByte, input, lengthBytes, frame
<1>1. InputIs /\ FramesAre /\ InKey /\ left > 0
    BY DEF CodecInv, Reading, MaskByte, InBasicHeader, InLength, InPayload
<1>2. InputIs' /\ FramesAre'
    BY <1>1, InputStays, FramesStay DEF MaskByte, InputIs
<1>3. /\ Nth \in DOMAIN sent /\ d.masked /\ keyRead \in 0..3 /\ Read(2 + d.form + keyRead)
      /\ key = KeyUpTo(Nth, keyRead)
    BY <1>1 DEF InKey, LengthIsIn
<1>4. d \in Frame /\ FrameBytes(Nth, d, b) /\ Ends(sent, Len(got)) \in Nat
    BY <1>1, <1>3, CurrentIs
<1>5. d.form \in Nat /\ d.size \in Nat /\ KeySize(d) = 4
    BY <1>3, <1>4 DEF Frame, KeySize
<1>6. wire[cursor + 1] = KeyByte(Nth, keyRead + 1)
    <2>1. Len(b) = 2 + d.form + KeySize(d) + d.size
        BY <1>4 DEF FrameBytes
    <2>2. keyRead \in Nat /\ keyRead < 4
        BY <1>3
    <2>3. \A f, k, s \in Nat : k < 4 =>
            /\ 2 + f + k \in Nat /\ 2 + f + k < 2 + f + 4 + s /\ k + 1 \in 1..4
            /\ (2 + f + k) + 1 = 2 + f + (k + 1)
        OBVIOUS
    <2>4. /\ 2 + d.form + keyRead \in Nat /\ 2 + d.form + keyRead < Len(b)
          /\ keyRead + 1 \in 1..KeySize(d)
          /\ (2 + d.form + keyRead) + 1 = 2 + d.form + (keyRead + 1)
        <3> HIDE DEF d, b
        <3> QED BY <1>5, <2>1, <2>2, <2>3, SMTT(30)
    <2>5. wire[cursor + 1] = b[(2 + d.form + keyRead) + 1]
        BY <1>1, <1>3, <2>4, ByteIs
    <2>6. b[2 + d.form + (keyRead + 1)] = KeyByte(Nth, keyRead + 1)
        BY <1>4, <2>4 DEF FrameBytes
    <2> QED BY <2>4, <2>5, <2>6
<1>7. Nth' = Nth /\ Current' = Current
    BY <1>0 DEF Nth, Current
<1>8. keyRead' = keyRead + 1 /\ key' = KeyUpTo(Nth, keyRead + 1)
    <2>1. keyRead' = keyRead + 1 /\ key' = [key EXCEPT ![keyRead + 1] = KeyByte(Nth, keyRead + 1)]
        BY <1>6 DEF MaskByte
    <2>2. \A j \in 1..4 : j <= keyRead + 1 <=> (j <= keyRead \/ j = keyRead + 1)
        BY <1>3
    <2> QED BY <1>3, <2>1, <2>2 DEF KeyUpTo
<1>9. Read(2 + Current.form + keyRead)'
    <2>1. cursor = Ends(sent, Len(got)) + (2 + d.form + keyRead) /\ cursor' = cursor + 1
        BY <1>3 DEF Read, MaskByte, Consumes
    <2>2. cursor' = Ends(sent, Len(got)) + (2 + d.form + (keyRead + 1))
        <3>1. \A e, f, k \in Nat : (e + (2 + f + k)) + 1 = e + (2 + f + (k + 1))
            OBVIOUS
        <3>2. keyRead \in Nat
            BY <1>3
        <3> HIDE DEF d, b
        <3> QED BY <1>4, <1>5, <2>1, <3>1, <3>2
    <2> QED BY <1>0, <1>7, <1>8, <2>2 DEF Read
<1>10. LengthIsIn'
    BY <1>0, <1>1, <1>7 DEF LengthIsIn, InKey
<1>11. payload' = <<>>
    BY <1>0, <1>1 DEF InKey
<1>12. CASE keyRead # 3
    <2>1. stage' = "MaskingKey" /\ keyRead' \in 0..3
        BY <1>3, <1>8, <1>12 DEF MaskByte
    <2>2. InKey'
        BY <1>3, <1>7, <1>8, <1>9, <1>10, <1>11, <2>1 DEF InKey
    <2> QED BY <1>0, <1>2, <2>2 DEF CodecInv, Reading
<1>13. CASE keyRead = 3
    <2>1. stage' = "Payload" /\ keyRead' = 4
        BY <1>8, <1>13 DEF MaskByte
    <2>2. 0 \in 0..d.size /\ payload' = [i \in 1..0 |-> Plain(Nth, i)]
        BY <1>5, <1>11
    <2>3. Read(2 + Current.form + keyRead + 0)'
        BY <1>4, <1>5, <1>7, <1>9, <2>1 DEF Read
    <2>4. InPayload'
        BY <1>5, <1>7, <1>8, <1>10, <1>13, <2>1, <2>2, <2>3 DEF InPayload
    <2> QED BY <1>0, <1>2, <2>4 DEF CodecInv, Reading
<1> QED BY <1>3, <1>12, <1>13

\* A byte of the payload is unmasked with the byte of the key that it was masked with.
LEMMA PayloadByteIs ==
    ASSUME InputIs, FramesAre, InPayload,
           NEW n \in 0..Current.size, Read(2 + Current.form + keyRead + n),
           NEW m \in Nat, n + m <= Current.size, NEW i \in 1..m, NEW first
    PROVE  Unmasked(wire[cursor + i], n + i, first) = Plain(Nth, n + i)
<1> DEFINE d == Current
           b == BytesOf(Nth, Current)
           e == Ends(sent, Len(got))
<1>1. /\ Nth \in DOMAIN sent /\ keyRead = KeySize(d) /\ key = KeyUpTo(Nth, keyRead)
      /\ header = HeaderOf(d)
    BY DEF InPayload, LengthIsIn
<1>2. /\ d \in Frame /\ FrameBytes(Nth, d, b) /\ e \in Nat
      /\ Len(b) = 2 + d.form + KeySize(d) + d.size
      /\ \A j \in 1..Len(b) : wire[e + j] = b[j]
    BY <1>1, CurrentIs
<1>3. /\ d.form \in Nat /\ d.size \in Nat /\ KeySize(d) \in Nat /\ d.masked \in BOOLEAN
      /\ n \in Nat /\ i \in Nat
    BY <1>2 DEF Frame, KeySize
<1>4. cursor = e + (2 + d.form + KeySize(d) + n)
    BY <1>1 DEF Read
<1>5. n + i \in 1..d.size
    BY <1>3
<1> HIDE DEF d, b, e
<1>6. wire[cursor + i] = Masked(Nth, d, n + i)
    <2>1. /\ 2 + d.form + KeySize(d) + (n + i) \in 1..Len(b)
          /\ cursor + i = e + (2 + d.form + KeySize(d) + (n + i))
        <3>1. \A f, k, s, j \in Nat : j \in 1..s => 2 + f + k + j \in 1..(2 + f + k + s)
            OBVIOUS
        <3>3. n + i \in Nat
            BY <1>3
        <3>4. 2 + d.form + KeySize(d) + (n + i) \in 1..(2 + d.form + KeySize(d) + d.size)
            BY <1>3, <1>5, <3>1, <3>3
        <3>5. cursor + i = e + (2 + d.form + KeySize(d) + (n + i))
            BY <1>2, <1>3, <1>4, SMTT(30)
        <3> QED BY <1>2, <3>4, <3>5
    <2>2. b[2 + d.form + KeySize(d) + (n + i)] = Masked(Nth, d, n + i)
        BY <1>2, <1>5 DEF FrameBytes
    <2> QED BY <1>2, <2>1, <2>2
<1>7. wire[cursor + i].plain = Plain(Nth, n + i)
    BY <1>6 DEF Masked
<1>8. header.masked = d.masked
    BY <1>1 DEF HeaderOf
<1>9. CASE ~d.masked
    BY <1>7, <1>8, <1>9 DEF Unmasked
<1>10. CASE d.masked
    <2>1. KeySize(d) = 4
        BY <1>10 DEF KeySize
    <2> DEFINE j == 1 + (((n + i) - 1) % 4)
    <2>2. j \in 1..4
        BY <1>3, <1>5
    <2>3. key[j] = KeyByte(Nth, j)
        BY <1>1, <2>1, <2>2 DEF KeyUpTo
    <2>4. wire[cursor + i].key = KeyByte(Nth, j)
        BY <1>6, <1>10 DEF Masked
    <2> QED BY <1>7, <2>3, <2>4 DEF Unmasked
<1> QED BY <1>3, <1>9, <1>10

LEMMA PayloadBytesStep ==
    ASSUME CodecInv, error = "None", PayloadBytes
    PROVE  CodecInv'
<1> DEFINE d == Current
<1>0. UNCHANGED <<requireMasked, sent, wire, stage, basic, missing, digits, keyRead, key, header,
                  expecting, got, error>>
    BY DEF PayloadBytes, input, lengthBytes, maskBytes
<1>1. InputIs /\ FramesAre /\ InPayload /\ left > 0 /\ left \in Nat /\ Nth \in DOMAIN sent
    BY DEF CodecInv, Reading, PayloadBytes, InBasicHeader, InLength, InKey, InPayload, LengthIsIn, InputIs
<1>2. d \in Frame /\ Ends(sent, Len(got)) \in Nat
    BY <1>1, CurrentIs
<1>3. d.form \in Nat /\ d.size \in Nat /\ KeySize(d) \in Nat /\ keyRead = KeySize(d)
    BY <1>1, <1>2 DEF Frame, KeySize, InPayload
<1>4. PICK n \in 0..d.size :
            payload = [i \in 1..n |-> Plain(Nth, i)] /\ Read(2 + d.form + keyRead + n)
    BY <1>1 DEF InPayload
<1>5. n \in Nat /\ Len(payload) = n /\ header.size = d.size
    BY <1>1, <1>3, <1>4 DEF InPayload, LengthIsIn, HeaderOf
<1>6. PICK m \in Nat : m = Least(header.size - Len(payload), left) /\ m <= left /\ n + m <= d.size
    <2> DEFINE x == Least(header.size - Len(payload), left)
    <2>1. x \in Nat /\ x <= left /\ n + x <= d.size
        BY <1>1, <1>3, <1>4, <1>5 DEF Least, PayloadBytes
    <2> QED BY <2>1
<1>7. Consumes(m) /\ payload' = payload \o [i \in 1..m |-> Unmasked(wire[cursor + i], n + i, n + 1)]
    BY <1>5, <1>6 DEF PayloadBytes
<1>8. InputIs' /\ FramesAre'
    <2>1. UNCHANGED input
        BY DEF PayloadBytes
    <2> QED BY <1>0, <1>1, <1>6, <1>7, <2>1, InputStays, FramesStay
<1>9. Nth' = Nth /\ Current' = Current
    BY <1>0 DEF Nth, Current
<1>10. payload' = [i \in 1..n + m |-> Plain(Nth, i)]
    <2>1. \A i \in 1..m : Unmasked(wire[cursor + i], n + i, n + 1) = Plain(Nth, n + i)
        <3> HIDE DEF d
        <3>1. ASSUME NEW i \in 1..m PROVE Unmasked(wire[cursor + i], n + i, n + 1) = Plain(Nth, n + i)
            BY <1>1, <1>4, <1>6, PayloadByteIs DEF d
        <3> QED BY <3>1
    <2>2. payload' = payload \o [i \in 1..m |-> Plain(Nth, n + i)]
        BY <1>7, <2>1
    <2> DEFINE P == {Plain(Nth, i) : i \in Nat}
               u == [i \in 1..n |-> Plain(Nth, i)]
               v == [i \in 1..m |-> Plain(Nth, n + i)]
               w == [i \in 1..n + m |-> Plain(Nth, i)]
    <2>3. u \in Seq(P) /\ v \in Seq(P) /\ Len(u) = n /\ Len(v) = m
        <3>1. \A i \in 1..n : Plain(Nth, i) \in P
            BY <1>5
        <3>2. \A i \in 1..m : Plain(Nth, n + i) \in P
            BY <1>5, <1>6
        <3> HIDE DEF P
        <3> QED BY <1>5, <1>6, <3>1, <3>2
    <2>4. \A i \in 1..n : u[i] = Plain(Nth, i)
        OBVIOUS
    <2>5. \A i \in 1..m : v[i] = Plain(Nth, n + i)
        OBVIOUS
    <2> HIDE DEF P, u, v
    <2>6. /\ u \o v \in Seq(P) /\ Len(u \o v) = n + m
          /\ \A i \in 1..n + m : (u \o v)[i] = IF i <= n THEN u[i] ELSE v[i - n]
        BY <2>3, ConcatProperties
    <2>7. \A i \in 1..n + m : (u \o v)[i] = Plain(Nth, i)
        <3> TAKE i \in 1..n + m
        <3>1. CASE i <= n
            BY <1>5, <1>6, <2>4, <2>6, <3>1
        <3>2. CASE ~(i <= n)
            <4>1. i - n \in 1..m /\ n + (i - n) = i
                BY <1>5, <1>6, <3>2
            <4> QED BY <2>5, <2>6, <3>2, <4>1
        <3> QED BY <3>1, <3>2
    <2>8. u \o v = w
        <3>1. u \o v = [i \in 1..n + m |-> (u \o v)[i]]
            <4>1. \A q \in Seq(P) : Len(q) = n + m => q = [i \in 1..n + m |-> q[i]]
                BY <1>5, <1>6
            <4> QED BY <2>6, <4>1
        <3> QED BY <2>7, <3>1
    <2> QED BY <1>4, <2>2, <2>8 DEF u, v
<1>11. Read(2 + Current.form + keyRead + (n + m))'
    <2>1. cursor = Ends(sent, Len(got)) + (2 + d.form + keyRead + n) /\ cursor' = cursor + m
        BY <1>4, <1>7 DEF Read, Consumes
    <2>2. \A e, f, k \in Nat : (e + (2 + f + k + n)) + m = e + (2 + f + k + (n + m))
        BY <1>5, <1>6
    <2>3. cursor' = Ends(sent, Len(got)) + (2 + d.form + keyRead + (n + m))
        <3> HIDE DEF d
        <3> QED BY <1>2, <1>3, <2>1, <2>2
    <2> QED BY <1>0, <1>9, <2>3 DEF Read
<1>12. n + m \in 0..d.size
    BY <1>3, <1>5, <1>6
<1>13. LengthIsIn'
    BY <1>0, <1>1, <1>9 DEF LengthIsIn, InPayload
<1>14. InPayload'
    BY <1>0, <1>1, <1>9, <1>10, <1>11, <1>12, <1>13 DEF InPayload
<1> QED BY <1>0, <1>8, <1>14 DEF CodecInv, Reading

\* What FrameFault finds, and what it rules out.
LEMMA FrameFaultIs ==
    ASSUME Current \in Frame, header = HeaderOf(Current), expecting = Within(sent, Nth),
           HeaderIsFine(Current, requireMasked), LengthIsFine(Current), Short \in Nat
    PROVE  /\ FrameFault # "None" =>
                /\ FrameFault \in Codes
                /\ Breaks(Current, Within(sent, Nth), requireMasked, FrameFault)
           /\ FrameFault = "None" => Passes(Current, Within(sent, Nth), requireMasked)
<1> DEFINE d == Current
           w == Within(sent, Nth)
<1>1. /\ header.opcode = d.opcode /\ header.fin = d.fin /\ header.size = d.size
      /\ d.size \in Nat
    BY DEF HeaderOf, Frame
<1>2. w = expecting
    OBVIOUS
<1>3. /\ ~d.rsv /\ d.opcode \in Opcodes /\ (requireMasked => d.masked)
      /\ (d.form # 0 => d.size > Short)
    BY DEF HeaderIsFine, LengthIsFine, Known
<1> HIDE DEF d, w
<1>4. ASSUME FrameFault # "None"
      PROVE  FrameFault \in Codes /\ Breaks(d, w, requireMasked, FrameFault)
    BY <1>1, <1>2, <1>4 DEF FrameFault, Codes, Breaks
<1>5. ASSUME FrameFault = "None"
      PROVE  /\ ~(d.opcode \in Control /\ ~d.fin)
             /\ ~(d.opcode \in Control /\ d.size > Short)
             /\ ~(d.opcode = "Close" /\ d.size = 1)
             /\ ~(d.opcode = "Continuation" /\ ~w)
             /\ ~(d.opcode \in Data /\ w)
    BY <1>1, <1>2, <1>5 DEF FrameFault, Control
<1>6. ASSUME FrameFault = "None" PROVE Passes(d, w, requireMasked)
    BY <1>3, <1>5, <1>6 DEF Passes, Breaks, LengthIsFine
<1> QED BY <1>4, <1>6 DEF d, w

LEMMA FrameEndsStep ==
    ASSUME CodecInv, error = "None", FrameEnds
    PROVE  CodecInv'
<1> DEFINE d == Current
<1>0. UNCHANGED <<requireMasked, sent, wire, cursor, left>>
    BY DEF FrameEnds, input
<1>1. /\ InputIs /\ FramesAre /\ InPayload /\ Nth \in DOMAIN sent /\ Len(payload) = header.size
      /\ LengthIsIn
    BY DEF CodecInv, Reading, FrameEnds, InBasicHeader, InLength, InKey, InPayload, LengthIsIn
<1>2. /\ d \in Frame /\ Ends(sent, Len(got)) \in Nat /\ Nth \in 1..Len(sent) /\ Len(got) \in Nat
      /\ Len(BytesOf(Nth, d)) = 2 + d.form + KeySize(d) + d.size
      /\ Ends(sent, Nth) = Ends(sent, Len(got)) + Len(BytesOf(Nth, d))
    BY <1>1, CurrentIs
<1>3. /\ d.form \in Nat /\ d.size \in Nat /\ KeySize(d) \in Nat /\ keyRead = KeySize(d)
      /\ d.opcode \in STRING /\ d.fin \in BOOLEAN /\ Short \in Nat
    BY <1>1, <1>2, SizesAssumption, SMTT(30) DEF Frame, KeySize, InPayload
<1>4. header = HeaderOf(d) /\ HeaderIsFine(d, requireMasked) /\ LengthIsFine(d)
    BY <1>1 DEF LengthIsIn
<1>5. header.size = d.size /\ header.opcode = d.opcode /\ header.fin = d.fin
    BY <1>4 DEF HeaderOf
<1>6. payload = [i \in 1..d.size |-> Plain(Nth, i)] /\ cursor = Ends(sent, Nth)
    <2>1. PICK n \in 0..d.size :
            payload = [i \in 1..n |-> Plain(Nth, i)] /\ Read(2 + d.form + keyRead + n)
        BY <1>1 DEF InPayload
    <2>2. n = d.size
        <3>1. n \in Nat /\ Len(payload) = n
            BY <1>3, <2>1
        <3> QED BY <1>1, <1>5, <3>1
    <2>3. cursor = Ends(sent, Len(got)) + (2 + d.form + KeySize(d) + d.size)
        BY <1>3, <2>1, <2>2 DEF Read
    <2> QED BY <1>2, <2>1, <2>2, <2>3
<1>7. InputIs'
    BY <1>0, <1>1 DEF InputIs
<1>8. CASE FrameFault # "None"
    <2>1. error' = FrameFault /\ UNCHANGED <<expecting, got>>
        BY <1>8 DEF FrameEnds, Fail
    <2>2. FramesAre'
        <3>1. UNCHANGED <<input, got, expecting>>
            BY <2>1 DEF FrameEnds
        <3> QED BY <1>1, <3>1, FramesStay
    <2>3. error' \in Codes /\ Breaks(d, Within(sent, Nth), requireMasked, error')
        BY <1>2, <1>1, <1>3, <1>4, <1>8, <2>1, FrameFaultIs DEF FramesAre
    <2>4. Nth' = Nth /\ Current' = Current
        BY <1>0, <2>1 DEF Nth, Current
    <2>5. Deserved'
        BY <1>0, <1>1, <2>3, <2>4 DEF Deserved
    <2>6. error' # "None"
        BY <1>8, <2>1
    <2> QED BY <1>7, <2>2, <2>5, <2>6 DEF CodecInv
<1>9. CASE FrameFault = "None"
    <2> DEFINE whole == [opcode |-> header.opcode, fin |-> header.fin, payload |-> payload]
    <2>1. /\ got' = Append(got, whole)
          /\ expecting' = Expects(header.opcode, header.fin) /\ ResetCurrentFrame /\ error' = "None"
        BY <1>9 DEF FrameEnds
    <2>2. whole = Whole(sent, Nth)
        BY <1>5, <1>6 DEF Whole, Current
    <2>3. whole \in [opcode : STRING, fin : BOOLEAN, payload : Seq(Nat \X Nat)]
        <3>1. Nth \in Nat
            BY <1>2
        <3>2. \A i \in 1..d.size : Plain(Nth, i) \in Nat \X Nat
            BY <1>3, <3>1 DEF Plain
        <3>3. payload \in Seq(Nat \X Nat)
            BY <1>3, <1>6, <3>2
        <3> QED BY <1>3, <1>5, <3>3
    <2> HIDE DEF whole
    <2> DEFINE T == [opcode : STRING, fin : BOOLEAN, payload : Seq(Nat \X Nat)]
    <2>4. got \in Seq(T)
        BY <1>1 DEF FramesAre
    <2> HIDE DEF T
    <2>5. /\ got' \in Seq(T) /\ Len(got') = Nth
          /\ \A f \in 1..Nth : got'[f] = IF f <= Len(got) THEN got[f] ELSE whole
        <3>1. whole \in T
            BY <2>3 DEF T
        <3>2. Append(got, whole) \in Seq(T) /\ Len(Append(got, whole)) = Len(got) + 1
            BY <2>4, <3>1, AppendProperties
        <3>3. \A f \in 1..Len(got) + 1 : Append(got, whole)[f] = IF f <= Len(got) THEN got[f] ELSE whole
            BY <1>2, <2>4, <3>1, AppendProperties
        <3> QED BY <2>1, <3>2, <3>3 DEF Nth
    <2>6. Passes(d, Within(sent, Nth), requireMasked)
        BY <1>2, <1>1, <1>3, <1>4, <1>9, FrameFaultIs DEF FramesAre
    <2>7. \A f \in DOMAIN got' :
            /\ got'[f] = Whole(sent, f)
            /\ Passes(sent[f], Within(sent, f), requireMasked)
        <3> TAKE f \in DOMAIN got'
        <3>1. f \in 1..Nth /\ DOMAIN got = 1..Len(got)
            BY <2>4, <2>5, LenProperties
        <3>2. CASE f <= Len(got)
            <4>1. f \in DOMAIN got
                BY <1>2, <3>1, <3>2
            <4> QED BY <1>1, <2>5, <3>1, <3>2, <4>1 DEF FramesAre
        <3>3. CASE ~(f <= Len(got))
            <4>1. f = Nth
                BY <1>2, <3>1, <3>3 DEF Nth
            <4>2. got'[f] = Whole(sent, f)
                BY <2>2, <2>5, <3>1, <3>3, <4>1
            <4> QED BY <2>6, <4>1, <4>2 DEF Current
        <3> QED BY <3>2, <3>3
    <2>8. expecting' = Within(sent, Nth + 1)
        <3>1. Within(sent, Nth + 1) <=>
                IF d.opcode \in Control THEN Within(sent, Nth) ELSE ~d.fin
            <4>1. sent \in Seq(Frame)
                BY <1>1 DEF InputIs, SentRight
            <4>2. \A f \in 1..Len(sent) : Within(sent, f + 1) <=>
                     IF sent[f].opcode \in Control THEN Within(sent, f) ELSE ~sent[f].fin
                BY <4>1, WithinStep
            <4> QED BY <1>2, <4>2 DEF Current
        <3>2. expecting' = IF d.opcode \in Control THEN Within(sent, Nth) ELSE ~d.fin
            BY <1>1, <1>5, <2>1 DEF Expects, FramesAre
        <3>3. (IF d.opcode \in Control THEN Within(sent, Nth) ELSE ~d.fin) \in BOOLEAN
              /\ Within(sent, Nth + 1) \in BOOLEAN
            BY DEF Within
        <3> QED BY <3>1, <3>2, <3>3
    <2>9. Nth' = Nth + 1
        BY <2>5 DEF Nth
    <2>10. FramesAre'
        <3>1. Len(got') <= Len(sent')
            BY <1>0, <1>2, <2>5
        <3> QED BY <1>0, <2>5, <2>7, <2>8, <2>9, <3>1 DEF FramesAre, T
    <2>11. Read(Len(basic))'
        <3>1. basic' = <<>> /\ Len(basic') = 0
            BY <2>1 DEF ResetCurrentFrame
        <3>2. cursor' = Ends(sent', Len(got')) + 0
            BY <1>0, <1>2, <1>6, <2>5
        <3> QED BY <3>1, <3>2 DEF Read
    <2>12. key' = KeyUpTo(Nth', 0)
        <3>1. \A j \in 1..4 : ~(j <= 0)
            OBVIOUS
        <3> QED BY <2>1, <3>1 DEF ResetCurrentFrame, KeyUpTo
    <2>13. InBasicHeader'
        BY <2>1, <2>11, <2>12 DEF InBasicHeader, ResetCurrentFrame
    <2> QED BY <1>7, <2>1, <2>10, <2>13 DEF CodecInv, Reading
<1> QED BY <1>8, <1>9

-----------------------------------------------------------------------------
(* The theorem *)

LEMMA CodecInitially ==
    ASSUME FrameInit
    PROVE  CodecInv
<1>1. InputIs
    <2>1. PICK script \in Scripts : Starts(script)
        BY DEF FrameInit
    <2>2. SentRight(sent) /\ requireMasked \in BOOLEAN /\ wire = Encoded(sent)
        BY <2>1, ScriptsAssumption DEF SentRight, Starts
    <2>3. Len(wire) \in Nat
        <3>1. Ends(sent, 0) = 0 /\ Ends(sent, Len(sent)) = Len(wire)
            BY <2>2, WireIs
        <3>2. Len(sent) \in Nat
            BY <2>2, LenProperties DEF SentRight
        <3>3. CASE Len(sent) # 0
            <4>1. Len(sent) \in 1..Len(sent)
                BY <3>2, <3>3
            <4> QED BY <2>2, <3>1, <4>1, WireIs DEF FrameIsAt
        <3> QED BY <3>1, <3>3
    <2> QED BY <2>2, <2>3 DEF InputIs, FrameInit, Starts
<1>2. got = <<>> /\ Len(got) = 0 /\ Nth = 1
    BY DEF FrameInit, Starts, Nth
<1>3. FramesAre
    <2>1. Len(sent) \in Nat
        BY <1>1, LenProperties DEF InputIs, SentRight
    <2>2. ~Within(sent, 1)
        BY DEF Within
    <2>3. expecting = Within(sent, Nth)
        BY <1>2, <2>2 DEF FrameInit, Starts, Within
    <2> QED BY <1>2, <2>1, <2>3 DEF FramesAre
<1>4. Read(Len(basic))
    <2>1. Ends(sent, 0) = 0
        BY <1>1, WireIs DEF InputIs
    <2>2. basic = <<>> /\ Len(basic) = 0 /\ cursor = 0
        BY DEF FrameInit, Starts
    <2> QED BY <1>2, <2>1, <2>2 DEF Read
<1>5. key = KeyUpTo(Nth, 0)
    <2>1. \A j \in 1..4 : ~(j <= 0)
        OBVIOUS
    <2> QED BY <2>1 DEF FrameInit, Starts, KeyUpTo
<1>6. InBasicHeader /\ error = "None"
    BY <1>4, <1>5 DEF InBasicHeader, FrameInit, Starts
<1> QED BY <1>1, <1>3, <1>6 DEF CodecInv, Reading

LEMMA CodecInductive ==
    ASSUME CodecInv, [FrameNext]_codecVars
    PROVE  CodecInv'
<1>1. CASE Call
    BY <1>1, CallStep
<1>2. CASE Parse
    BY <1>2, BasicHeaderStartsStep, BasicHeaderEndsStep, LengthByteStep, LengthEndsStep, MaskByteStep,
       PayloadBytesStep, FrameEndsStep DEF Parse
<1>3. CASE UNCHANGED codecVars
    <2>1. CodecInv' <=> CodecInv
        BY <1>3 DEF codecVars, CodecInv, InputIs, FramesAre, Reading, Deserved, InBasicHeader, InLength,
                    LengthIsIn, InKey, InPayload, Nth, Current, Read, input, lengthBytes, maskBytes,
                    frame
    <2> QED BY <2>1
<1> QED BY <1>1, <1>2, <1>3 DEF FrameNext

\* The parser has more of the frame to read wherever it stops.
LEMMA NothingWaits ==
    ASSUME CodecInv, error = "None", ~(stage = "Payload" /\ Len(payload) = header.size),
           NEW f \in DOMAIN sent, EndOf(f) <= cursor
    PROVE  f <= Len(got)
<1> SUFFICES ASSUME ~(f <= Len(got)) PROVE FALSE
    OBVIOUS
<1>1. /\ InputIs /\ FramesAre /\ Reading
      /\ DOMAIN sent = 1..Len(sent) /\ Len(sent) \in Nat /\ Len(got) \in Nat
    BY LenProperties DEF CodecInv, InputIs, SentRight, FramesAre
<1>2. Nth \in 1..Len(sent) /\ f \in Nth..Len(sent) /\ Nth \in 0..Len(sent)
    BY <1>1 DEF Nth
<1>3. Ends(sent, Nth) <= Ends(sent, f)
    BY <1>1, <1>2, WireIs DEF InputIs
<1> DEFINE d == Current
<1>4. /\ d \in Frame /\ Ends(sent, Len(got)) \in Nat /\ Ends(sent, Nth) \in Nat /\ cursor \in Nat
      /\ Ends(sent, Nth) = Ends(sent, Len(got)) + Len(BytesOf(Nth, d))
      /\ Len(BytesOf(Nth, d)) = 2 + d.form + KeySize(d) + d.size
    BY <1>1, <1>2, CurrentIs DEF InputIs
<1>5. Ends(sent, f) <= cursor /\ Ends(sent, f) \in Nat
    <2>1. FrameIsAt(wire, sent, f)
        BY <1>1, WireIs DEF InputIs
    <2> QED BY <2>1 DEF EndOf, Ends, FrameIsAt
<1>6. d.form \in Nat /\ d.size \in Nat /\ KeySize(d) \in Nat
    BY <1>4 DEF Frame, KeySize
<1>7. Ends(sent, Nth) <= cursor
    <2> HIDE DEF d
    <2> QED BY <1>3, <1>4, <1>5
<1>8. ASSUME NEW n \in Nat, Read(n) PROVE n >= 2 + d.form + KeySize(d) + d.size
    <2>1. cursor = Ends(sent, Len(got)) + n
        BY <1>8 DEF Read
    <2> HIDE DEF d
    <2> QED BY <1>4, <1>6, <1>7, <2>1
<1>9. CASE InBasicHeader
    <2>1. Len(basic) \in 0..1 /\ Read(Len(basic))
        BY <1>9 DEF InBasicHeader
    <2>2. Len(basic) \in Nat /\ Len(basic) < 2
        BY <2>1
    <2> HIDE DEF d
    <2> QED BY <1>6, <1>8, <2>1, <2>2
<1>10. CASE InLength
    <2>1. missing \in 1..d.form /\ Read(2 + (d.form - missing))
        BY <1>10 DEF InLength
    <2> HIDE DEF d
    <2>2. 2 + (d.form - missing) \in Nat /\ 2 + (d.form - missing) < 2 + d.form
        BY <1>6, <2>1
    <2> QED BY <1>6, <1>8, <2>1, <2>2
<1>11. CASE InKey
    <2>1. keyRead \in 0..3 /\ Read(2 + d.form + keyRead) /\ KeySize(d) = 4
        BY <1>11 DEF InKey, KeySize
    <2> HIDE DEF d
    <2>2. 2 + d.form + keyRead \in Nat
        BY <1>6, <2>1
    <2> QED BY <1>6, <1>8, <2>1, <2>2, SMTT(30)
<1>12. CASE InPayload
    <2>1. PICK n \in 0..d.size :
            payload = [i \in 1..n |-> Plain(Nth, i)] /\ Read(2 + d.form + keyRead + n)
        BY <1>12 DEF InPayload
    <2>2. n \in Nat /\ Len(payload) = n
        BY <1>6, <2>1
    <2>3. header.size = d.size /\ stage = "Payload" /\ keyRead = KeySize(d)
        BY <1>12 DEF InPayload, LengthIsIn, HeaderOf
    <2>4. n < d.size
        BY <1>6, <2>1, <2>2, <2>3
    <2> HIDE DEF d
    <2>5. 2 + d.form + keyRead + n \in Nat
        BY <1>6, <2>2, <2>3
    <2> QED BY <1>6, <1>8, <2>1, <2>2, <2>3, <2>4, <2>5
<1> QED BY <1>1, <1>9, <1>10, <1>11, <1>12 DEF Reading

LEMMA CodecIsRight ==
    ASSUME CodecInv
    PROVE  FramesAreWhole
<1>1. FramesAre
    BY DEF CodecInv
<1>2. \A f : Faults(f) = {code \in Codes : Breaks(sent[f], Within(sent, f), requireMasked, code)}
    BY FaultsAre
<1>3. ASSUME NEW f \in DOMAIN got
      PROVE  /\ Faults(f) \subseteq {"MalformedExtendedPayloadLength"}
             /\ sent[f].form # 0 => sent[f].size > Short
             /\ got[f] = Whole(sent, f)
    BY <1>1, <1>2, <1>3 DEF FramesAre, Passes, LengthIsFine
<1>4. left = 0 /\ error = "None" /\ ~(stage = "Payload" /\ Len(payload) = header.size) =>
        \A f \in DOMAIN sent : EndOf(f) <= cursor => f <= Len(got)
    BY NothingWaits
<1>5. ErrorsAreDeserved
    <2> SUFFICES ASSUME error # "None" PROVE Len(got) < Len(sent) /\ error \in Faults(Len(got) + 1)
        BY DEF ErrorsAreDeserved
    <2>1. Deserved
        BY DEF CodecInv
    <2>2. Nth \in 1..Len(sent) /\ Len(got) \in Nat /\ Len(sent) \in Nat
        BY <2>1, LenProperties DEF CodecInv, InputIs, SentRight, FramesAre, Deserved
    <2>3. error \in Faults(Nth)
        BY <1>2, <2>1 DEF Deserved, Current
    <2> QED BY <2>2, <2>3 DEF Nth
<1> QED BY <1>1, <1>3, <1>4, <1>5 DEF FramesAreWhole, Whole, FramesAre

\* However the bytes of the frames are cut into inputs, whatever the lengths and whatever the
\* values a byte can take: the parser returns the frames as they were sent, each in the call
\* that brings its last byte, and an error only for a frame that breaks the rule it names.
THEOREM FramesComeWhole == FrameSpec => []FramesAreWhole
<1>1. FrameInit => CodecInv
    BY CodecInitially
<1>2. CodecInv /\ [FrameNext]_codecVars => CodecInv'
    BY CodecInductive
<1>3. CodecInv => FramesAreWhole
    BY CodecIsRight
<1> QED BY <1>1, <1>2, <1>3, PTL DEF FrameSpec

-----------------------------------------------------------------------------
(* Where the parts are *)

Unit == [kind : {"head", "break", "data", "delimiter"}, part : Nat, n : Nat]
PartSet == [named : BOOLEAN, head : Nat \ {0}, size : Nat]

FormIs == form \in Seq(PartSet) /\ body = FormBytes

NameOf(p) == IF form[p].named THEN p ELSE 0
HeadUnit(p, n) == [kind |-> "head", part |-> NameOf(p), n |-> n]
DataUnit(p, n) == [kind |-> "data", part |-> p, n |-> n]
DelimiterUnit(n) == [kind |-> "delimiter", part |-> 0, n |-> n]

\* The bytes of b behind s are those of part p.
PartAt(b, s, p) ==
    /\ \A n \in 1..form[p].head : b[s + n] = HeadUnit(p, n)
    /\ b[s + (form[p].head + 1)] = Break
    /\ \A n \in 1..form[p].size : b[s + (form[p].head + 1 + n)] = DataUnit(p, n)
    /\ \A n \in 1..5 : b[s + (form[p].head + 1 + form[p].size + n)] = DelimiterUnit(n)

LengthOf(p) == form[p].head + 1 + form[p].size + 5

\* w is a with b behind it.
Joins(S, a, b, w, m, n) ==
    /\ w \in Seq(S) /\ m \in Nat /\ n \in Nat /\ Len(w) = m + n
    /\ \A i \in 1..m : w[i] = a[i]
    /\ \A i \in 1..n : w[m + i] = b[i]

\* What is in a sequence made of two
LEMMA TwoParts ==
    ASSUME NEW S, NEW a \in Seq(S), NEW b \in Seq(S), NEW m, NEW n, m = Len(a), n = Len(b),
           NEW w, w = a \o b
    PROVE  Joins(S, a, b, w, m, n)
<1>1. m \in Nat /\ n \in Nat
    BY LenProperties
<1>2. /\ a \o b \in Seq(S) /\ Len(a \o b) = Len(a) + Len(b)
      /\ \A i \in 1..(Len(a) + Len(b)) :
            (a \o b)[i] = IF i <= Len(a) THEN a[i] ELSE b[i - Len(a)]
    BY ConcatProperties
<1>3. \A i \in 1..m : i \in 1..(m + n) /\ i <= m
    BY <1>1
<1>4. \A i \in 1..n : m + i \in 1..(m + n) /\ ~(m + i <= m) /\ (m + i) - m = i
    BY <1>1
<1> QED BY <1>1, <1>2, <1>3, <1>4 DEF Joins

\* Every part is as long as its units are many, and these are in their places.
LEMMA OnePart ==
    ASSUME FormIs, NEW p \in DOMAIN form
    PROVE  /\ PartBytes[p] \in Seq(Unit) /\ Len(PartBytes[p]) = LengthOf(p)
           /\ PartAt(PartBytes[p], 0, p)
<1>1. form[p] \in PartSet /\ p \in Nat
    BY LenProperties, ElementOfSeq DEF FormIs
<1> DEFINE h == form[p].head
           z == form[p].size
           a == HeadOf(p)
           b == <<Break>>
           c == PartData(p)
           d == Delimiter
<1>2. h \in Nat /\ z \in Nat /\ h > 0 /\ NameOf(p) \in Nat
    BY <1>1 DEF PartSet, NameOf
<1>3. a \in Seq(Unit) /\ Len(a) = h /\ \A n \in 1..h : a[n] = HeadUnit(p, n)
    <2>1. a = [n \in 1..h |-> HeadUnit(p, n)]
        BY DEF HeadOf, HeadUnit, NameOf
    <2>2. \A n \in 1..h : HeadUnit(p, n) \in Unit
        BY <1>2 DEF HeadUnit, Unit
    <2> HIDE DEF a, h
    <2> QED BY <1>2, <2>1, <2>2
<1>4. b \in Seq(Unit) /\ Len(b) = 1 /\ b[1] = Break
    BY DEF Break, Unit
<1>5. c \in Seq(Unit) /\ Len(c) = z /\ \A n \in 1..z : c[n] = DataUnit(p, n)
    <2>1. c = [n \in 1..z |-> DataUnit(p, n)]
        BY DEF PartData, DataUnit
    <2>2. \A n \in 1..z : DataUnit(p, n) \in Unit
        BY <1>1, <1>2 DEF DataUnit, Unit
    <2> HIDE DEF c, z
    <2> QED BY <1>2, <2>1, <2>2
<1>6. d \in Seq(Unit) /\ Len(d) = 5 /\ \A n \in 1..5 : d[n] = DelimiterUnit(n)
    <2>1. d = [n \in 1..5 |-> DelimiterUnit(n)]
        BY DEF Delimiter, DelimiterUnit
    <2>2. \A n \in 1..5 : DelimiterUnit(n) \in Unit
        BY DEF DelimiterUnit, Unit
    <2> HIDE DEF d
    <2> QED BY <2>1, <2>2
<1>7. PartBytes[p] = ((a \o b) \o c) \o d
    BY DEF PartBytes
<1> HIDE DEF a, b, c, d
<1>8. PICK k \in Nat : k = h
    BY <1>2
<1>9. PICK m \in Nat : m = z
    BY <1>2
<1>10. PICK u : u = a \o b
    OBVIOUS
<1>11. PICK v : v = u \o c
    OBVIOUS
<1>12. PICK w : w = v \o d
    OBVIOUS
<1>13. /\ \A n \in 1..k : a[n] = HeadUnit(p, n)
       /\ \A n \in 1..m : c[n] = DataUnit(p, n)
       /\ Len(a) = k /\ Len(c) = m /\ PartBytes[p] = w
    BY <1>3, <1>5, <1>7, <1>8, <1>9, <1>10, <1>11, <1>12
<1>14. /\ LengthOf(p) = k + 1 + m + 5
       /\ PartAt(w, 0, p) <=> /\ \A n \in 1..k : w[0 + n] = HeadUnit(p, n)
                              /\ w[0 + (k + 1)] = Break
                              /\ \A n \in 1..m : w[0 + (k + 1 + n)] = DataUnit(p, n)
                              /\ \A n \in 1..5 : w[0 + (k + 1 + m + n)] = DelimiterUnit(n)
    BY <1>8, <1>9 DEF LengthOf, PartAt
<1> HIDE DEF h, z
<1>15. /\ u \in Seq(Unit) /\ Len(u) = k + 1
       /\ \A i \in 1..k : u[i] = a[i]
       /\ \A i \in 1..1 : u[k + i] = b[i]
    <2>1. Joins(Unit, a, b, u, k, 1)
        BY <1>3, <1>4, <1>10, <1>13, TwoParts
    <2> QED BY <2>1 DEF Joins
<1>16. /\ v \in Seq(Unit) /\ Len(v) = (k + 1) + m
       /\ \A i \in 1..(k + 1) : v[i] = u[i]
       /\ \A i \in 1..m : v[(k + 1) + i] = c[i]
    <2>1. Joins(Unit, u, c, v, k + 1, m)
        BY <1>5, <1>11, <1>13, <1>15, TwoParts
    <2> QED BY <2>1 DEF Joins
<1>17. /\ w \in Seq(Unit) /\ Len(w) = ((k + 1) + m) + 5
       /\ \A i \in 1..((k + 1) + m) : w[i] = v[i]
       /\ \A i \in 1..5 : w[((k + 1) + m) + i] = d[i]
    <2>1. Joins(Unit, v, d, w, (k + 1) + m, 5)
        BY <1>6, <1>12, <1>16, TwoParts
    <2> QED BY <2>1 DEF Joins
<1>18. /\ \A n \in 1..k : n \in 1..(k + 1) /\ n \in 1..((k + 1) + m) /\ 0 + n = n
       /\ k + 1 \in 1..(k + 1) /\ k + 1 \in 1..((k + 1) + m) /\ 0 + (k + 1) = k + 1 /\ 1 \in 1..1
       /\ \A n \in 1..m : (k + 1) + n \in 1..((k + 1) + m) /\ 0 + (k + 1 + n) = (k + 1) + n
       /\ \A n \in 1..5 : 0 + (k + 1 + m + n) = ((k + 1) + m) + n
    OBVIOUS
<1>19. \A n \in 1..k : w[0 + n] = HeadUnit(p, n)
    BY <1>13, <1>15, <1>16, <1>17, <1>18, SMTT(30)
<1>20. w[0 + (k + 1)] = Break
    BY <1>4, <1>15, <1>16, <1>17, <1>18
<1>21. \A n \in 1..m : w[0 + (k + 1 + n)] = DataUnit(p, n)
    BY <1>13, <1>16, <1>17, <1>18
<1>22. \A n \in 1..5 : w[0 + (k + 1 + m + n)] = DelimiterUnit(n)
    BY <1>6, <1>17, <1>18
<1> QED BY <1>13, <1>14, <1>17, <1>19, <1>20, <1>21, <1>22

\* How many bytes come before part p
Before(p) == Len(FlattenSeq(SubSeq(PartBytes, 1, p - 1)))

PlacedAt(p) ==
    /\ Before(p) \in Nat /\ Before(p + 1) = Before(p) + LengthOf(p) /\ Before(p + 1) <= Len(body)
    /\ PartAt(body, Before(p), p)

\* The parts follow each other in the body, from its first byte to its last.
LEMMA PartsAreAt ==
    ASSUME FormIs
    PROVE  /\ body \in Seq(Unit) /\ Len(form) \in Nat /\ DOMAIN form = 1..Len(form)
           /\ Before(1) = 0 /\ Before(Len(form) + 1) = Len(body)
           /\ \A p \in 1..Len(form) : PlacedAt(p)
<1> DEFINE ss == PartBytes
           N == Len(form)
<1>1. N \in Nat /\ DOMAIN form = 1..N
    BY LenProperties DEF FormIs
<1>2. ss \in Seq(Seq(Unit)) /\ Len(ss) = N
    <2>1. \A p \in 1..N : ss[p] \in Seq(Unit)
        BY <1>1, OnePart
    <2>2. ss = [p \in 1..N |-> ss[p]]
        BY <1>1 DEF PartBytes
    <2> HIDE DEF ss, N
    <2> QED BY <1>1, <2>1, <2>2
<1>3. PICK g : Flattens(g, ss, Unit)
    BY <1>2, FlattensExists
<1> HIDE DEF N
<1>4. body = g[N]
    <2>1. body = FlattenSeq(ss)
        BY DEF FormIs, FormBytes
    <2> HIDE DEF ss
    <2> QED BY <1>2, <1>3, <2>1, FlattenIs
<1>5. \A p \in 1..(N + 1) : Before(p) = Len(g[p - 1])
    <2> TAKE p \in 1..(N + 1)
    <2>1. p - 1 \in 0..Len(ss)
        BY <1>1, <1>2
    <2>2. FlattenSeq(SubSeq(ss, 1, p - 1)) = g[p - 1]
        BY <1>2, <1>3, <2>1, FlattenFront
    <2> QED BY <2>2 DEF Before
<1>6. g[0] = <<>> /\ \A m \in 0..N : g[m] \in Seq(Unit) /\ Len(g[m]) \in Nat
    BY <1>2, <1>3, LenProperties DEF Flattens
<1>7. Before(1) = 0 /\ Before(N + 1) = Len(body)
    <2>1. 1 \in 1..(N + 1) /\ N + 1 \in 1..(N + 1) /\ 1 - 1 = 0 /\ (N + 1) - 1 = N
        BY <1>1
    <2> QED BY <1>4, <1>5, <1>6, <2>1
<1>8. ASSUME NEW p \in 1..N PROVE PlacedAt(p)
    <2>1. p \in 1..(N + 1) /\ p + 1 \in 1..(N + 1) /\ p - 1 \in 0..N /\ (p + 1) - 1 = p /\ p \in 0..N
        BY <1>1
    <2>2. FlatAt(g, ss, p)
        <3>1. p \in 1..Len(ss)
            BY <1>2
        <3> HIDE DEF ss
        <3> QED BY <1>2, <1>3, <3>1, FlattenPlaces
    <2>3. Before(p) = Len(g[p - 1]) /\ Before(p + 1) = Len(g[p]) /\ Before(p) \in Nat
        BY <1>5, <1>6, <2>1
    <2>4. /\ ss[p] \in Seq(Unit) /\ Len(ss[p]) = LengthOf(p) /\ PartAt(ss[p], 0, p)
        BY <1>1, OnePart
    <2>5. Before(p + 1) <= Len(body)
        <3>1. Len(g[p]) <= Len(g[N])
            <4>1. p \in 0..Len(ss) /\ N \in p..Len(ss)
                BY <1>1, <1>2, <2>1
            <4> HIDE DEF ss
            <4> QED BY <1>3, <1>2, <4>1, FlattenGrows
        <3> QED BY <1>4, <2>3, <3>1
    <2>6. \A j \in 1..LengthOf(p) : body[Before(p) + j] = ss[p][j]
        <3> HIDE DEF ss
        <3> QED BY <1>2, <1>4, <2>2, <2>3, <2>4 DEF FlatAt
    <2>7. PartAt(body, Before(p), p)
        <3>1. form[p].head \in Nat /\ form[p].size \in Nat
            <4>1. form[p] \in PartSet
                BY <1>1, ElementOfSeq DEF FormIs, N
            <4> QED BY <4>1 DEF PartSet
        <3> HIDE DEF ss
        <3>2. PICK h \in Nat : h = form[p].head
            BY <3>1
        <3>3. PICK z \in Nat : z = form[p].size
            BY <3>1
        <3>4. PICK s \in Nat : s = Before(p)
            BY <2>3
        <3>5. \A j \in 1..(h + 1 + z + 5) : body[s + j] = ss[p][j]
            BY <2>6, <3>2, <3>3, <3>4 DEF LengthOf
        <3>6. /\ \A n \in 1..h : ss[p][0 + n] = HeadUnit(p, n)
              /\ ss[p][0 + (h + 1)] = Break
              /\ \A n \in 1..z : ss[p][0 + (h + 1 + n)] = DataUnit(p, n)
              /\ \A n \in 1..5 : ss[p][0 + (h + 1 + z + n)] = DelimiterUnit(n)
            BY <2>4, <3>2, <3>3 DEF PartAt
        <3>7. /\ \A n \in 1..h : n \in 1..(h + 1 + z + 5) /\ 0 + n = n
              /\ h + 1 \in 1..(h + 1 + z + 5) /\ 0 + (h + 1) = h + 1
              /\ \A n \in 1..z : h + 1 + n \in 1..(h + 1 + z + 5) /\ 0 + (h + 1 + n) = h + 1 + n
              /\ \A n \in 1..5 : h + 1 + z + n \in 1..(h + 1 + z + 5) /\ 0 + (h + 1 + z + n) = h + 1 + z + n
            OBVIOUS
        <3>8. /\ \A n \in 1..h : body[s + n] = HeadUnit(p, n)
              /\ body[s + (h + 1)] = Break
              /\ \A n \in 1..z : body[s + (h + 1 + n)] = DataUnit(p, n)
              /\ \A n \in 1..5 : body[s + (h + 1 + z + n)] = DelimiterUnit(n)
            BY <3>5, <3>6, <3>7
        <3> QED BY <3>2, <3>3, <3>4, <3>8 DEF PartAt
    <2>8. Before(p + 1) = Before(p) + LengthOf(p)
        <3> HIDE DEF ss
        <3> QED BY <2>2, <2>3, <2>4 DEF FlatAt
    <2> QED BY <2>3, <2>5, <2>7, <2>8 DEF PlacedAt
<1>9. body \in Seq(Unit)
    BY <1>1, <1>4, <1>6
<1> QED BY <1>1, <1>7, <1>8, <1>9 DEF N

-----------------------------------------------------------------------------
(* What is told *)

\* One sequence more behind the others
LEMMA FlattenAppend ==
    ASSUME NEW S, NEW ss \in Seq(Seq(S)), NEW x \in Seq(S)
    PROVE  FlattenSeq(ss) \in Seq(S) /\ FlattenSeq(Append(ss, x)) = FlattenSeq(ss) \o x
<1>1. PICK N \in Nat : N = Len(ss)
    BY LenProperties
<1>2. PICK tt : tt = Append(ss, x)
    OBVIOUS
<1>3. /\ tt \in Seq(Seq(S)) /\ Len(tt) = N + 1 /\ tt[N + 1] = x
      /\ \A i \in 1..N : tt[i] = ss[i]
    BY <1>1, <1>2, AppendProperties
<1>4. PICK g : Flattens(g, tt, S)
    BY <1>3, FlattensExists
<1>5. N \in 0..Len(tt) /\ N + 1 \in 0..Len(tt) /\ N + 1 \in 1..Len(tt) /\ (N + 1) - 1 = N
    BY <1>3
<1>6. SubSeq(tt, 1, N) = ss
    <2>1. /\ SubSeq(tt, 1, N) \in Seq(Seq(S)) /\ Len(SubSeq(tt, 1, N)) = N
          /\ \A i \in 1..N : SubSeq(tt, 1, N)[i] = tt[i]
        BY <1>3, <1>5, FirstIs
    <2> QED BY <1>1, <1>3, <2>1, SeqEqual
<1>7. FlattenSeq(SubSeq(tt, 1, N)) = g[N]
    BY <1>3, <1>4, <1>5, FlattenFront
<1>8. FlattenSeq(tt) = g[N + 1]
    BY <1>3, <1>4, FlattenIs
<1>9. g[N + 1] = g[N] \o x /\ g[N] \in Seq(S)
    BY <1>3, <1>4, <1>5 DEF Flattens
<1> QED BY <1>2, <1>6, <1>7, <1>8, <1>9

EventSet == [status : {"First", "Subsequent", "Final", "Completed"}, part : Nat, data : Seq(Unit)]

EventsIn(ev, p) == {i \in DOMAIN ev : ev[i].part = p}
PieceIn(e, p) == IF e.part = p THEN e.data ELSE <<>>
ToldIn(ev, p) == FlattenSeq([i \in DOMAIN ev |-> PieceIn(ev[i], p)])

\* The history of the model is one of those that are told of here.
LEMMA TheseAreTold ==
    ASSUME NEW p
    PROVE  EventsOf(p) = EventsIn(events, p) /\ Told(p) = ToldIn(events, p)
BY DEF EventsOf, EventsIn, Told, ToldIn, PieceIn

ToldMore(ev, e, p) ==
    /\ ToldIn(ev, p) \in Seq(Unit)
    /\ ToldIn(Append(ev, e), p) = ToldIn(ev, p) \o PieceIn(e, p)
    /\ EventsIn(Append(ev, e), p) = IF e.part = p THEN EventsIn(ev, p) \cup {Len(ev) + 1}
                                    ELSE EventsIn(ev, p)

\* One event more adds its data to what was told of its part, and nothing to the others.
LEMMA OneMore ==
    ASSUME NEW ev \in Seq(EventSet), NEW e \in EventSet, NEW p
    PROVE  ToldMore(ev, e, p)
<1>1. PICK N \in Nat : N = Len(ev)
    BY LenProperties
<1>2. PICK fv : fv = Append(ev, e)
    OBVIOUS
<1>3. /\ fv \in Seq(EventSet) /\ Len(fv) = N + 1 /\ fv[N + 1] = e
      /\ \A i \in 1..N : fv[i] = ev[i]
    BY <1>1, <1>2, AppendProperties
<1>4. DOMAIN ev = 1..N /\ DOMAIN fv = 1..(N + 1)
    BY <1>1, <1>3, LenProperties
<1> DEFINE ss == [i \in 1..N |-> PieceIn(ev[i], p)]
           tt == [i \in 1..(N + 1) |-> PieceIn(fv[i], p)]
           x == PieceIn(e, p)
<1>5. \A d \in EventSet : PieceIn(d, p) \in Seq(Unit)
    <2>1. <<>> \in Seq(Unit)
        BY EmptySeq
    <2> QED BY <2>1 DEF PieceIn, EventSet
<1>6. ss \in Seq(Seq(Unit)) /\ x \in Seq(Unit) /\ Len(ss) = N
    <2>1. \A i \in 1..N : ev[i] \in EventSet
        BY <1>1, ElementOfSeq
    <2>2. \A i \in 1..N : PieceIn(ev[i], p) \in Seq(Unit)
        BY <1>5, <2>1
    <2> QED BY <1>5, <2>2
<1>7. tt = Append(ss, x)
    <2>1. /\ Append(ss, x) \in Seq(Seq(Unit)) /\ Len(Append(ss, x)) = N + 1
          /\ Append(ss, x)[N + 1] = x /\ \A i \in 1..N : Append(ss, x)[i] = ss[i]
        <3> HIDE DEF ss, x
        <3> QED BY <1>6, AppendProperties
    <2>2. \A i \in 1..(N + 1) : tt[i] \in Seq(Unit)
        <3>1. \A i \in 1..(N + 1) : fv[i] \in EventSet
            BY <1>3, ElementOfSeq
        <3> QED BY <1>5, <3>1
    <2>3. tt \in Seq(Seq(Unit)) /\ Len(tt) = N + 1
        BY <2>2
    <2>4. \A i \in 1..N : tt[i] = ss[i]
        BY <1>3
    <2>5. tt[N + 1] = x
        BY <1>3
    <2>6. \A i \in 1..(N + 1) : tt[i] = Append(ss, x)[i]
        <3>1. \A i \in 1..(N + 1) : i = N + 1 \/ i \in 1..N
            OBVIOUS
        <3> HIDE DEF ss, tt, x
        <3> QED BY <2>1, <2>4, <2>5, <3>1
    <2> HIDE DEF ss, tt, x
    <2> QED BY <2>1, <2>3, <2>6, SeqEqual
<1>8. ToldIn(ev, p) = FlattenSeq(ss) /\ ToldIn(fv, p) = FlattenSeq(tt)
    BY <1>4 DEF ToldIn
<1>9. FlattenSeq(ss) \in Seq(Unit) /\ FlattenSeq(tt) = FlattenSeq(ss) \o x
    <2> HIDE DEF ss, tt, x
    <2> QED BY <1>6, <1>7, FlattenAppend
<1>10. EventsIn(fv, p) = IF e.part = p THEN EventsIn(ev, p) \cup {N + 1} ELSE EventsIn(ev, p)
    <2>1. \A i : i \in 1..(N + 1) <=> i \in 1..N \/ i = N + 1
        OBVIOUS
    <2> QED BY <1>3, <1>4, <2>1 DEF EventsIn
<1> HIDE DEF ss, tt
<1> QED BY <1>1, <1>2, <1>8, <1>9, <1>10 DEF ToldMore

-----------------------------------------------------------------------------
(* Pieces of the body *)

DataAt(p) == Before(p) + form[p].head + 1

\* The numbers of a part
LEMMA Sizes ==
    ASSUME FormIs, NEW p \in 1..Len(form)
    PROVE  /\ form[p].head \in Nat \ {0} /\ form[p].size \in Nat /\ form[p].named \in BOOLEAN
           /\ p \in Nat \ {0} /\ Before(p) \in Nat
           /\ DataAt(p) \in Nat /\ DataAt(p) = Before(p) + form[p].head + 1
           /\ Before(p + 1) = DataAt(p) + form[p].size + 5
           /\ Before(p + 1) <= Len(body)
<1>1. form[p] \in PartSet /\ p \in Nat \ {0}
    <2>1. DOMAIN form = 1..Len(form) /\ Len(form) \in Nat /\ form \in Seq(PartSet)
        BY LenProperties DEF FormIs
    <2> QED BY <2>1, ElementOfSeq
<1>2. form[p].head \in Nat \ {0} /\ form[p].size \in Nat /\ form[p].named \in BOOLEAN
    BY <1>1 DEF PartSet
<1>3. PlacedAt(p)
    BY PartsAreAt
<1>4. /\ Before(p) \in Nat /\ Before(p + 1) <= Len(body)
      /\ Before(p + 1) = Before(p) + (form[p].head + 1 + form[p].size + 5)
      /\ DataAt(p) = Before(p) + form[p].head + 1
    BY <1>3 DEF PlacedAt, LengthOf, DataAt
<1>5. PICK h \in Nat \ {0} : h = form[p].head
    BY <1>2
<1>6. PICK z \in Nat : z = form[p].size
    BY <1>2
<1>7. PICK s \in Nat : s = Before(p)
    BY <1>4
<1>8. s + h + 1 \in Nat /\ s + (h + 1 + z + 5) = s + h + 1 + z + 5
    OBVIOUS
<1>9. DataAt(p) \in Nat /\ Before(p + 1) = DataAt(p) + form[p].size + 5
    BY <1>4, <1>5, <1>6, <1>7, <1>8
<1> QED BY <1>1, <1>2, <1>4, <1>9

\* Every byte of a part in its place in the body
LEMMA Units ==
    ASSUME FormIs, NEW p \in 1..Len(form)
    PROVE  /\ \A n \in 1..form[p].head : body[Before(p) + n] = HeadUnit(p, n)
           /\ body[DataAt(p)] = Break
           /\ \A n \in 1..form[p].size : body[DataAt(p) + n] = DataUnit(p, n)
           /\ \A n \in 1..5 : body[DataAt(p) + form[p].size + n] = DelimiterUnit(n)
<1>1. PICK h \in Nat : h = form[p].head
    BY Sizes
<1>2. PICK z \in Nat : z = form[p].size
    BY Sizes
<1>3. PICK s \in Nat : s = Before(p)
    BY Sizes
<1>4. DataAt(p) = s + h + 1
    BY <1>1, <1>3, Sizes
<1>5. PartAt(body, Before(p), p)
    BY PartsAreAt DEF PlacedAt
<1>6. /\ \A n \in 1..h : body[s + n] = HeadUnit(p, n)
      /\ body[s + (h + 1)] = Break
      /\ \A n \in 1..z : body[s + (h + 1 + n)] = DataUnit(p, n)
      /\ \A n \in 1..5 : body[s + (h + 1 + z + n)] = DelimiterUnit(n)
    BY <1>1, <1>2, <1>3, <1>5 DEF PartAt
<1>7. /\ s + (h + 1) = s + h + 1
      /\ \A n \in 1..z : s + (h + 1 + n) = s + h + 1 + n
      /\ \A n \in 1..5 : s + (h + 1 + z + n) = s + h + 1 + z + n
    OBVIOUS
<1>8. /\ body[s + h + 1] = Break
      /\ \A n \in 1..z : body[s + h + 1 + n] = DataUnit(p, n)
      /\ \A n \in 1..5 : body[s + h + 1 + z + n] = DelimiterUnit(n)
    BY <1>6, <1>7
<1> QED BY <1>1, <1>2, <1>3, <1>4, <1>6, <1>8

\* The bytes behind the first a, up to the first f
Cut(a, f) == SubSeq(body, a + 1, f)

CutIs(a, f, w) ==
    /\ w \in Seq(Unit) /\ Len(w) = f - a
    /\ \A i \in 1..(f - a) : w[i] = body[a + i]

\* What is in a piece
LEMMA Cutting ==
    ASSUME body \in Seq(Unit), NEW f \in 0..Len(body), NEW a \in 0..f
    PROVE  CutIs(a, f, Cut(a, f))
<1>1. Len(body) \in Nat
    BY LenProperties
<1>2. a \in Nat /\ f \in Nat /\ a + 1 \in Nat \ {0} /\ a <= f
    BY <1>1
<1> DEFINE u == SubSeq(body, a + 1, f)
<1>3. /\ u \in Seq(Unit)
      /\ Len(u) = IF a + 1 <= f THEN f - (a + 1) + 1 ELSE 0
      /\ \A i \in 1..(f - (a + 1) + 1) : u[i] = body[a + 1 + i - 1]
    BY <1>2, PartIs
<1>4. Len(u) = f - a
    <2> HIDE DEF u
    <2> QED BY <1>2, <1>3
<1>5. \A i \in 1..(f - a) : i \in 1..(f - (a + 1) + 1) /\ a + 1 + i - 1 = a + i
    BY <1>2
<1> HIDE DEF u
<1>6. \A i \in 1..(f - a) : u[i] = body[a + i]
    BY <1>3, <1>5
<1> QED BY <1>3, <1>4, <1>6 DEF CutIs, Cut, u

\* The rest of a piece, its front, and more of it, are pieces.
LEMMA RestOfCut ==
    ASSUME body \in Seq(Unit), NEW f \in 0..Len(body), NEW a \in 0..f, NEW i \in 0..(f - a)
    PROVE  SubSeq(Cut(a, f), i + 1, f - a) = Cut(a + i, f)
<1>1. Len(body) \in Nat
    BY LenProperties
<1>2. /\ a + 1 \in 1..(f + 1) /\ i + 1 \in 1..(f - (a + 1) + 2)
      /\ f - a \in (i + 1 - 1)..(f - (a + 1) + 1)
      /\ a + 1 + (i + 1) - 1 = a + i + 1 /\ a + 1 + (f - a) - 1 = f
    BY <1>1
<1>3. SubSeq(SubSeq(body, a + 1, f), i + 1, f - a) = SubSeq(body, a + 1 + (i + 1) - 1, a + 1 + (f - a) - 1)
    BY <1>2, PartOfPart
<1> QED BY <1>2, <1>3 DEF Cut

\* The front of a piece
LEMMA FrontOfCut ==
    ASSUME body \in Seq(Unit), NEW f \in 0..Len(body), NEW a \in 0..f, NEW i \in 0..(f - a)
    PROVE  SubSeq(Cut(a, f), 1, i) = Cut(a, a + i)
<1>1. Len(body) \in Nat
    BY LenProperties
<1>2. /\ a + 1 \in 1..(f + 1) /\ 1 \in 1..(f - (a + 1) + 2)
      /\ i \in (1 - 1)..(f - (a + 1) + 1)
      /\ a + 1 + 1 - 1 = a + 1 /\ a + 1 + i - 1 = a + i
    BY <1>1
<1>3. SubSeq(SubSeq(body, a + 1, f), 1, i) = SubSeq(body, a + 1 + 1 - 1, a + 1 + i - 1)
    BY <1>2, PartOfPart
<1> QED BY <1>2, <1>3 DEF Cut

\* A piece and the bytes behind it
LEMMA MoreOfCut ==
    ASSUME body \in Seq(Unit), NEW f \in 0..Len(body), NEW m \in 0..f, NEW a \in 0..m
    PROVE  Cut(a, m) \o SubSeq(body, m + 1, f) = Cut(a, f)
<1>1. Len(body) \in Nat
    BY LenProperties
<1>2. a + 1 \in Nat \ {0} /\ m \in (a + 1 - 1)..Len(body) /\ f \in m..Len(body)
    BY <1>1
<1>3. SubSeq(body, a + 1, m) \o SubSeq(body, m + 1, f) = SubSeq(body, a + 1, f)
    BY <1>2, Join
<1> QED BY <1>3 DEF Cut

\* The data of a part, byte by byte
LEMMA DataIs ==
    ASSUME FormIs, NEW p \in 1..Len(form)
    PROVE  /\ PartData(p) \in Seq(Unit) /\ Len(PartData(p)) = form[p].size
           /\ \A n \in 1..form[p].size : PartData(p)[n] = DataUnit(p, n)
<1>1. PICK z \in Nat : z = form[p].size
    BY Sizes
<1>2. PICK c : c = PartData(p)
    OBVIOUS
<1>3. c = [n \in 1..z |-> DataUnit(p, n)]
    BY <1>1, <1>2 DEF PartData, DataUnit
<1>4. \A n \in 1..z : DataUnit(p, n) \in Unit
    BY Sizes DEF DataUnit, Unit
<1>5. c \in Seq(Unit) /\ Len(c) = z /\ \A n \in 1..z : c[n] = DataUnit(p, n)
    BY <1>3, <1>4
<1> QED BY <1>1, <1>2, <1>5

\* A piece from among the data of a part is a piece of these.
LEMMA DataCut ==
    ASSUME FormIs, NEW p \in 1..Len(form), NEW e \in 0..form[p].size, NEW d \in 0..e
    PROVE  Cut(DataAt(p) + d, DataAt(p) + e) = SubSeq(PartData(p), d + 1, e)
<1>1. PICK z \in Nat : z = form[p].size
    BY Sizes
<1>2. PICK s \in Nat : s = DataAt(p)
    BY Sizes
<1>3. body \in Seq(Unit) /\ Len(body) \in Nat
    BY PartsAreAt, LenProperties
<1>4. PICK l \in Nat : l = Len(body)
    BY <1>3
<1>5. s + z <= l
    BY <1>1, <1>2, <1>4, Sizes
<1>6. d \in Nat /\ e \in Nat /\ d <= e /\ e <= z
    BY <1>1
<1>7. PICK w : w = Cut(s + d, s + e)
    OBVIOUS
<1>8. w \in Seq(Unit) /\ Len(w) = e - d /\ \A i \in 1..(e - d) : w[i] = body[s + d + i]
    <2>1. s + e \in 0..Len(body) /\ s + d \in 0..(s + e)
        BY <1>4, <1>5, <1>6
    <2>2. CutIs(s + d, s + e, w)
        BY <1>3, <1>7, <2>1, Cutting
    <2>3. (s + e) - (s + d) = e - d
        BY <1>6
    <2> QED BY <2>2, <2>3 DEF CutIs
<1>9. PICK t : t = PartData(p)
    OBVIOUS
<1>10. t \in Seq(Unit) /\ Len(t) = z /\ \A n \in 1..z : t[n] = DataUnit(p, n)
    BY <1>1, <1>9, DataIs
<1>11. PICK u : u = SubSeq(t, d + 1, e)
    OBVIOUS
<1>12. u \in Seq(Unit) /\ Len(u) = e - d /\ \A i \in 1..(e - d) : u[i] = t[d + i]
    <2>1. d + 1 \in Nat \ {0} /\ e \in 0..Len(t)
        BY <1>6, <1>10
    <2>2. /\ u \in Seq(Unit)
          /\ Len(u) = IF d + 1 <= e THEN e - (d + 1) + 1 ELSE 0
          /\ \A i \in 1..(e - (d + 1) + 1) : u[i] = t[d + 1 + i - 1]
        BY <1>10, <1>11, <2>1, PartIs
    <2>3. \A i \in 1..(e - d) : i \in 1..(e - (d + 1) + 1) /\ d + 1 + i - 1 = d + i
        BY <1>6
    <2>4. (IF d + 1 <= e THEN e - (d + 1) + 1 ELSE 0) = e - d
        BY <1>6
    <2> QED BY <2>2, <2>3, <2>4
<1>13. \A i \in 1..(e - d) : w[i] = u[i]
    <2> TAKE i \in 1..(e - d)
    <2>1. d + i \in 1..z /\ s + d + i = s + (d + i)
        BY <1>6
    <2>2. body[s + (d + i)] = DataUnit(p, d + i)
        BY <1>1, <1>2, <2>1, Units
    <2> QED BY <1>8, <1>10, <1>12, <2>1, <2>2
<1>14. w = u
    BY <1>8, <1>12, <1>13, SeqEqual
<1> QED BY <1>2, <1>7, <1>9, <1>11, <1>14

-----------------------------------------------------------------------------
(* What a look finds *)

Found(rest, name) == [found |-> TRUE, rest |-> rest, name |-> name]

\* Without an empty line there is no end of the headers.
LEMMA NotHeaded ==
    ASSUME NEW w \in Seq(Unit), \A i \in 1..Len(w) : w[i] # Break
    PROVE  ~Headed(w).found
<1>1. DOMAIN w = 1..Len(w)
    BY LenProperties
<1>2. {n \in DOMAIN w : w[n] = Break} = {}
    BY <1>1
<1> QED BY <1>2 DEF Headed

\* The first empty line ends the headers, and the first of these tells the name.
LEMMA HeadedAt ==
    ASSUME NEW w \in Seq(Unit), NEW e \in 1..Len(w), NEW m \in 1..e, Len(w) >= 2,
           w[e] = Break, \A i \in 1..(e - 1) : w[i] # Break,
           w[m].kind = "head", w[m].n = 1,
           \A i \in 1..e : i # m => ~(w[i].kind = "head" /\ w[i].n = 1)
    PROVE  Headed(w) = Found(SubSeq(w, e + 1, Len(w)), w[m].part)
<1>1. DOMAIN w = 1..Len(w) /\ Len(w) \in Nat
    BY LenProperties
<1> DEFINE breaks == {n \in DOMAIN w : w[n] = Break}
           end == Min(breaks)
           names == {n \in 1..end : w[n].kind = "head" /\ w[n].n = 1}
<1>2. end = e
    <2>1. breaks \subseteq Nat /\ e \in breaks
        BY <1>1
    <2>2. \A y \in breaks : e <= y
        <3> TAKE y \in breaks
        <3>1. y \in 1..Len(w) /\ w[y] = Break /\ e \in Nat
            BY <1>1
        <3>2. y \in Nat /\ ~(y \in 1..(e - 1))
            BY <3>1
        <3> QED BY <3>1, <3>2
    <2> HIDE DEF breaks
    <2> QED BY <2>1, <2>2, LeastIsOne
<1>3. names = {m}
    <2> HIDE DEF end
    <2> QED BY <1>2
<1>4. Min({m}) = m
    <2>1. {m} \subseteq Nat /\ m \in {m} /\ \A y \in {m} : m <= y
        BY <1>1
    <2> QED BY <2>1, LeastIsOne
<1>5. breaks # {} /\ ~(Len(w) < 2)
    BY <1>1
<1>6. Headed(w) = IF Len(w) < 2 \/ breaks = {} THEN [found |-> FALSE, rest |-> w, name |-> 0]
                  ELSE [found |-> TRUE, rest |-> SubSeq(w, end + 1, Len(w)),
                        name |-> IF names = {} THEN 0 ELSE w[Min(names)].part]
    BY DEF Headed
<1> HIDE DEF breaks, end, names
<1> QED BY <1>2, <1>3, <1>4, <1>5, <1>6 DEF Found

\* What comes before part p behind the first k bytes is what is left of a delimiter.
Leads(p, k) ==
    /\ k \in Nat /\ k <= Before(p)
    /\ \A i \in (k + 1)..Before(p) : body[i].kind = "delimiter"

\* From before a part, a look finds the end of its headers and its name, as soon as they are there.
LEMMA HeadedIs ==
    ASSUME FormIs, NEW p \in 1..Len(form), NEW f \in 0..Len(body), NEW k, Leads(p, k), k <= f,
           DataAt(p) <= f
    PROVE  Headed(Cut(k, f)) = Found(Cut(DataAt(p), f), NameOf(p))
<1>1. PICK s \in Nat : s = Before(p)
    BY Sizes
<1>2. PICK h \in Nat \ {0} : h = form[p].head
    BY Sizes
<1>3. DataAt(p) = s + h + 1
    BY <1>1, <1>2, Sizes
<1>4. /\ k \in Nat /\ k <= s /\ f \in Nat /\ s + h + 1 <= f
      /\ \A i \in (k + 1)..s : body[i].kind = "delimiter"
    <2>1. Len(body) \in Nat
        BY PartsAreAt, LenProperties
    <2> QED BY <1>1, <1>3, <2>1 DEF Leads
<1>5. PICK w : w = Cut(k, f)
    OBVIOUS
<1>6. body \in Seq(Unit) /\ Len(body) \in Nat /\ k \in 0..f
    BY <1>4, PartsAreAt, LenProperties
<1>7. w \in Seq(Unit) /\ Len(w) = f - k /\ \A i \in 1..(f - k) : w[i] = body[k + i]
    BY <1>5, <1>6, Cutting DEF CutIs
<1> DEFINE e == s + h + 1 - k
           m == s + 1 - k
<1>8. /\ e \in 1..(f - k) /\ m \in 1..e /\ f - k >= 2 /\ f - k \in Nat
      /\ k + e = s + h + 1 /\ k + m = s + 1 /\ m \in 1..(f - k) /\ 1 \in 1..h
      /\ e \in 0..(f - k)
    BY <1>4
<1>9. /\ body[s + h + 1] = Break
      /\ \A n \in 1..h : body[s + n] = HeadUnit(p, n)
    BY <1>1, <1>2, <1>3, Units
<1>10. w[e] = Break /\ w[m] = HeadUnit(p, 1)
    <2> HIDE DEF e, m
    <2> QED BY <1>7, <1>8, <1>9
<1>11. \A i \in 1..(e - 1) : w[i].kind = "delimiter" \/ \E n \in 1..h : w[i] = HeadUnit(p, n) /\ (i # m => n # 1)
    <2> TAKE i \in 1..(e - 1)
    <2>1. i \in 1..(f - k) /\ k + i \in Nat
        BY <1>4
    <2>2. CASE k + i <= s
        <3>1. k + i \in (k + 1)..s
            BY <2>2, <1>4
        <3> QED BY <1>4, <1>7, <2>1, <3>1
    <2>3. CASE ~(k + i <= s)
        <3>1. PICK n \in 1..h : k + i = s + n /\ (n = 1 => i = m)
            <4>1. (k + i) - s \in 1..h /\ k + i = s + ((k + i) - s) /\ ((k + i) - s = 1 => i = m)
                BY <1>4, <2>3
            <4> QED BY <4>1
        <3>2. w[i] = HeadUnit(p, n)
            BY <1>7, <1>9, <2>1, <3>1
        <3> QED BY <3>1, <3>2
    <2> QED BY <2>2, <2>3
<1>12. \A i \in 1..(e - 1) : w[i] # Break
    <2>1. \A n \in 1..h : HeadUnit(p, n) # Break
        BY DEF HeadUnit, Break
    <2>2. Break.kind # "delimiter"
        BY DEF Break
    <2> HIDE DEF e
    <2> QED BY <1>11, <2>1, <2>2
<1>13. \A i \in 1..e : i # m => ~(w[i].kind = "head" /\ w[i].n = 1)
    <2>1. \A i \in 1..e : i = e \/ i \in 1..(e - 1)
        BY <1>8, SMTT(30)
    <2>2. w[e].kind # "head"
        BY <1>10 DEF Break
    <2>3. \A n \in 1..h : n # 1 => HeadUnit(p, n).n # 1
        BY DEF HeadUnit
    <2> HIDE DEF e, m
    <2>4. \A i \in 1..(e - 1) : i # m => ~(w[i].kind = "head" /\ w[i].n = 1)
        BY <1>11, <2>3
    <2> QED BY <2>1, <2>2, <2>4
<1>14. w[m].kind = "head" /\ w[m].n = 1 /\ w[m].part = NameOf(p)
    BY <1>10 DEF HeadUnit
<1>15. SubSeq(w, e + 1, f - k) = Cut(DataAt(p), f)
    <2>1. SubSeq(Cut(k, f), e + 1, f - k) = Cut(k + e, f)
        <3> HIDE DEF e
        <3> QED BY <1>6, <1>8, RestOfCut
    <2> QED BY <1>3, <1>5, <1>8, <2>1
<1>16. Headed(w) = Found(SubSeq(w, e + 1, Len(w)), w[m].part)
    <2>1. e \in 1..Len(w) /\ m \in 1..e /\ Len(w) >= 2
        BY <1>7, <1>8
    <2> HIDE DEF e, m
    <2> QED BY <1>7, <1>10, <1>12, <1>13, <1>14, <2>1, HeadedAt
<1> HIDE DEF e, m
<1> QED BY <1>5, <1>7, <1>14, <1>15, <1>16

\* It finds none before, and none behind the last part.
LEMMA NotHeadedYet ==
    ASSUME FormIs, NEW p \in 1..(Len(form) + 1), NEW f \in 0..Len(body), NEW k, Leads(p, k), k <= f,
           p <= Len(form) => f < DataAt(p)
    PROVE  ~Headed(Cut(k, f)).found
<1>1. body \in Seq(Unit) /\ Len(body) \in Nat /\ Len(form) \in Nat /\ k \in Nat /\ k \in 0..f
    BY PartsAreAt, LenProperties DEF Leads
<1>2. PICK w : w = Cut(k, f)
    OBVIOUS
<1>3. w \in Seq(Unit) /\ Len(w) = f - k /\ \A i \in 1..(f - k) : w[i] = body[k + i]
    BY <1>1, <1>2, Cutting DEF CutIs
<1>4. PICK s \in Nat : s = Before(p)
    <2>1. CASE p \in 1..Len(form)
        BY <2>1, Sizes
    <2>2. CASE p = Len(form) + 1
        BY <1>1, <2>2, PartsAreAt
    <2> QED BY <1>1, <2>1, <2>2
<1>5. ASSUME NEW i \in 1..(f - k) PROVE w[i] # Break
    <2>1. k + i \in Nat /\ w[i] = body[k + i] /\ k + i <= f
        BY <1>1, <1>3
    <2>2. CASE k + i <= s
        <3>1. k + i \in (k + 1)..s
            BY <1>1, <2>2
        <3>2. body[k + i].kind = "delimiter"
            BY <1>4, <3>1 DEF Leads
        <3> QED BY <2>1, <3>2 DEF Break
    <2>3. CASE ~(k + i <= s)
        <3>1. p \in 1..Len(form)
            <4>1. p # Len(form) + 1
                <5> SUFFICES ASSUME p = Len(form) + 1 PROVE FALSE
                    OBVIOUS
                <5>1. s = Len(body)
                    BY <1>4, PartsAreAt
                <5> QED BY <1>1, <2>1, <2>3, <5>1
            <4> QED BY <1>1, <4>1
        <3>2. PICK h \in Nat \ {0} : h = form[p].head
            BY <3>1, Sizes
        <3>3. f < s + h + 1 /\ f \in Nat
            BY <1>1, <1>4, <3>1, <3>2, Sizes
        <3>4. PICK n \in 1..h : k + i = s + n
            <4>1. (k + i) - s \in 1..h /\ k + i = s + ((k + i) - s)
                BY <1>1, <2>1, <2>3, <3>3, SMTT(30)
            <4> QED BY <4>1
        <3>5. body[s + n] = HeadUnit(p, n)
            BY <1>4, <3>1, <3>2, Units
        <3> QED BY <2>1, <3>4, <3>5 DEF HeadUnit, Break
    <2> QED BY <2>2, <2>3
<1> QED BY <1>2, <1>3, <1>5, NotHeaded

\* The bytes of a delimiter
LEMMA DelimiterIs ==
    /\ Delimiter \in Seq(Unit) /\ Len(Delimiter) = 5 /\ Kept = 5
    /\ \A n \in 1..5 : Delimiter[n] = DelimiterUnit(n)
<1>1. PICK d : d = Delimiter
    OBVIOUS
<1>2. d = [n \in 1..5 |-> DelimiterUnit(n)]
    BY <1>1 DEF Delimiter, DelimiterUnit
<1>3. \A n \in 1..5 : DelimiterUnit(n) \in Unit
    BY DEF DelimiterUnit, Unit
<1>4. d \in Seq(Unit) /\ Len(d) = 5 /\ \A n \in 1..5 : d[n] = DelimiterUnit(n)
    BY <1>2, <1>3
<1> QED BY <1>1, <1>4 DEF Kept

BoundaryAt(w, n) ==
    w[n] = DelimiterUnit(1) /\ w[n + 1] = DelimiterUnit(2) /\ w[n + 2] = DelimiterUnit(3)

\* A boundary is found where the first three bytes of a delimiter are.
LEMMA BoundaryIs ==
    ASSUME NEW w \in Seq(Unit), NEW n \in 1..(Len(w) - 2)
    PROVE  SubSeq(w, n, n + 2) = Matched <=> BoundaryAt(w, n)
<1>1. Len(w) \in Nat
    BY LenProperties
<1>2. n \in Nat \ {0} /\ n + 2 \in 0..Len(w) /\ n <= n + 2 /\ (n + 2) - n + 1 = 3
      /\ n + 1 - 1 = n /\ n + 2 - 1 = n + 1 /\ n + 3 - 1 = n + 2
    BY <1>1
<1>3. PICK u : u = SubSeq(w, n, n + 2)
    OBVIOUS
<1>4. /\ u \in Seq(Unit) /\ Len(u) = IF n <= n + 2 THEN (n + 2) - n + 1 ELSE 0
      /\ \A i \in 1..((n + 2) - n + 1) : u[i] = w[n + i - 1]
    BY <1>2, <1>3, PartIs
<1>5. u \in Seq(Unit) /\ Len(u) = 3 /\ \A i \in 1..3 : u[i] = w[n + i - 1]
    BY <1>2, <1>4
<1>6. PICK m : m = Matched
    OBVIOUS
<1>7. m \in Seq(Unit) /\ Len(m) = 3 /\ \A i \in 1..3 : m[i] = Delimiter[i]
    <2>1. 3 \in 0..Len(Delimiter) /\ m = SubSeq(Delimiter, 1, 3)
        BY <1>6, DelimiterIs DEF Matched
    <2> QED BY <2>1, DelimiterIs, FirstIs
<1>8. \A i \in 1..3 : m[i] = DelimiterUnit(i)
    <2>1. \A i \in 1..3 : i \in 1..5
        OBVIOUS
    <2> QED BY <1>7, <2>1, DelimiterIs
<1>9. u = m <=> \A i \in 1..3 : u[i] = m[i]
    <2>1. (\A i \in 1..3 : u[i] = m[i]) => u = m
        BY <1>5, <1>7, SeqEqual
    <2> QED BY <2>1
<1>10. \A i : i \in 1..3 <=> i = 1 \/ i = 2 \/ i = 3
    OBVIOUS
<1>11. u[1] = w[n] /\ u[2] = w[n + 1] /\ u[3] = w[n + 2]
    BY <1>2, <1>5, <1>10
<1>12. u = m <=> u[1] = DelimiterUnit(1) /\ u[2] = DelimiterUnit(2) /\ u[3] = DelimiterUnit(3)
    BY <1>8, <1>9, <1>10
<1> QED BY <1>3, <1>6, <1>11, <1>12 DEF BoundaryAt

\* The first delimiter behind some of the data of part p is the one that ends it.
LEMMA BoundaryFound ==
    ASSUME FormIs, NEW p \in 1..Len(form), NEW f \in 0..Len(body), NEW d \in 0..form[p].size,
           DataAt(p) + form[p].size + 3 <= f
    PROVE  /\ Boundaries(Cut(DataAt(p) + d, f)) # {}
           /\ Min(Boundaries(Cut(DataAt(p) + d, f))) = form[p].size - d + 1
<1>1. PICK s \in Nat : s = DataAt(p)
    BY Sizes
<1>2. PICK z \in Nat : z = form[p].size
    BY Sizes
<1>3. body \in Seq(Unit) /\ Len(body) \in Nat
    BY PartsAreAt, LenProperties
<1>4. d \in Nat /\ d <= z /\ f \in Nat /\ s + z + 3 <= f
    BY <1>1, <1>2, <1>3
<1>5. PICK w : w = Cut(s + d, f)
    OBVIOUS
<1>6. w \in Seq(Unit) /\ Len(w) = f - (s + d) /\ \A i \in 1..(f - (s + d)) : w[i] = body[s + d + i]
    <2>1. s + d \in 0..f
        BY <1>4
    <2> QED BY <1>3, <1>5, <2>1, Cutting DEF CutIs
<1>7. /\ \A n \in 1..z : body[s + n] = DataUnit(p, n)
      /\ \A n \in 1..5 : body[s + z + n] = DelimiterUnit(n)
    BY <1>1, <1>2, Units
<1> DEFINE x == z - d + 1
<1>8. BoundaryAt(w, x)
    <2>1. /\ x \in 1..(f - (s + d)) /\ x + 1 \in 1..(f - (s + d)) /\ x + 2 \in 1..(f - (s + d))
          /\ s + d + x = s + z + 1 /\ s + d + (x + 1) = s + z + 2 /\ s + d + (x + 2) = s + z + 3
          /\ 1 \in 1..5 /\ 2 \in 1..5 /\ 3 \in 1..5
        BY <1>4
    <2> HIDE DEF x
    <2> QED BY <1>6, <1>7, <2>1 DEF BoundaryAt
<1>9. \A n \in 1..(Len(w) - 2) : n < x => ~BoundaryAt(w, n)
    <2> TAKE n \in 1..(Len(w) - 2)
    <2> HAVE n < x
    <2>1. n \in 1..(f - (s + d)) /\ d + n \in 1..z /\ s + d + n = s + (d + n)
        BY <1>4, <1>6
    <2>2. w[n] = DataUnit(p, d + n)
        BY <1>6, <1>7, <2>1
    <2> QED BY <2>2 DEF BoundaryAt, DataUnit, DelimiterUnit
<1>10. \A n \in 1..(Len(w) - 2) : SubSeq(w, n, n + 2) = Matched <=> BoundaryAt(w, n)
    BY <1>6, BoundaryIs
<1>11. PICK bs : bs = Boundaries(w)
    OBVIOUS
<1>12. bs = {n \in 1..(Len(w) - 2) : BoundaryAt(w, n)}
    BY <1>10, <1>11 DEF Boundaries
<1>13. x \in 1..(Len(w) - 2)
    BY <1>4, <1>6
<1>14. bs \subseteq Nat /\ x \in bs
    <2> HIDE DEF x
    <2> QED BY <1>8, <1>12, <1>13
<1>15. \A n \in bs : x <= n
    <2> TAKE n \in bs
    <2>1. n \in Nat /\ ~(n < x) /\ x \in Nat
        BY <1>9, <1>12, <1>13, <1>14
    <2> HIDE DEF x
    <2> QED BY <2>1
<1>16. Min(bs) = x
    <2> HIDE DEF x
    <2> QED BY <1>14, <1>15, LeastIsOne
<1> QED BY <1>1, <1>2, <1>5, <1>11, <1>14, <1>16

\* Before these three bytes are there no delimiter is found among the data.
LEMMA NoBoundaryYet ==
    ASSUME FormIs, NEW p \in 1..Len(form), NEW f \in 0..Len(body), NEW d \in 0..form[p].size,
           DataAt(p) + d <= f, f < DataAt(p) + form[p].size + 3
    PROVE  Boundaries(Cut(DataAt(p) + d, f)) = {}
<1>1. PICK s \in Nat : s = DataAt(p)
    BY Sizes
<1>2. PICK z \in Nat : z = form[p].size
    BY Sizes
<1>3. body \in Seq(Unit) /\ Len(body) \in Nat
    BY PartsAreAt, LenProperties
<1>4. d \in Nat /\ d <= z /\ f \in Nat /\ s + d <= f /\ f < s + z + 3
    BY <1>1, <1>2, <1>3
<1>5. PICK w : w = Cut(s + d, f)
    OBVIOUS
<1>6. w \in Seq(Unit) /\ Len(w) = f - (s + d) /\ \A i \in 1..(f - (s + d)) : w[i] = body[s + d + i]
    <2>1. s + d \in 0..f
        BY <1>4
    <2> QED BY <1>3, <1>5, <2>1, Cutting DEF CutIs
<1>7. \A n \in 1..z : body[s + n] = DataUnit(p, n)
    BY <1>1, <1>2, Units
<1>8. \A n \in 1..(Len(w) - 2) : ~BoundaryAt(w, n)
    <2> TAKE n \in 1..(Len(w) - 2)
    <2>1. n \in 1..(f - (s + d)) /\ d + n \in 1..z /\ s + d + n = s + (d + n)
        <3>1. PICK k \in Nat : k = f - (s + d)
            BY <1>4
        <3>2. n \in Nat /\ 1 <= n /\ n <= k - 2
            BY <1>6, <3>1
        <3>3. d + n <= z /\ s + d + n = s + (d + n)
            BY <1>4, <3>1, <3>2
        <3> QED BY <1>4, <3>1, <3>2, <3>3
    <2>2. w[n] = DataUnit(p, d + n)
        BY <1>6, <1>7, <2>1
    <2> QED BY <2>2 DEF BoundaryAt, DataUnit, DelimiterUnit
<1>9. \A n \in 1..(Len(w) - 2) : SubSeq(w, n, n + 2) # Matched
    BY <1>6, <1>8, BoundaryIs
<1> QED BY <1>1, <1>5, <1>9 DEF Boundaries

-----------------------------------------------------------------------------
(* What the application has been told when it has had the first d bytes of part p; fin: the *)
(* end of this part as well.                                                                *)

InOrder(ev, p) ==
    /\ \A i \in DOMAIN ev : ev[i].status # "Completed" /\ ev[i].part \in 1..p
    /\ \A i, j \in DOMAIN ev : i < j => ev[i].part <= ev[j].part

WithFirst(ev) ==
    \A i \in DOMAIN ev : ev[i].status = "First" <=> \A j \in EventsIn(ev, ev[i].part) : i <= j

WithFinal(ev, p, fin) ==
    \A i \in DOMAIN ev : ev[i].status = "Final" =>
        /\ ev[i].part < p \/ fin
        /\ \A j \in EventsIn(ev, ev[i].part) : j <= i

AllBytes(ev, p, d) ==
    /\ \A q \in Nat : EventsIn(ev, q) = {} => ToldIn(ev, q) = <<>>
    /\ \A i \in DOMAIN ev : ev[i].part < p => ToldIn(ev, ev[i].part) = PartData(ev[i].part)
    /\ EventsIn(ev, p) # {} => ToldIn(ev, p) = SubSeq(PartData(p), 1, d)

Story(ev, p, d, fin) ==
    /\ ev \in Seq(EventSet)
    /\ InOrder(ev, p) /\ WithFirst(ev) /\ WithFinal(ev, p, fin) /\ AllBytes(ev, p, d)

\* At the beginning
LEMMA NothingTold == \A p \in Nat : Story(<<>>, p, 0, FALSE) /\ EventsIn(<<>>, p) = {}
<1>1. <<>> \in Seq(EventSet) /\ DOMAIN <<>> = {}
    BY EmptySeq
<1>2. ASSUME NEW q PROVE EventsIn(<<>>, q) = {} /\ ToldIn(<<>>, q) = <<>>
    <2>1. [i \in DOMAIN <<>> |-> PieceIn(<<>>[i], q)] = <<>>
        BY <1>1
    <2>2. PICK g : Flattens(g, <<>>, Unit)
        <3>1. <<>> \in Seq(Seq(Unit))
            BY EmptySeq
        <3> QED BY <3>1, FlattensExists
    <2>3. FlattenSeq(<<>>) = <<>>
        <3>1. <<>> \in Seq(Seq(Unit)) /\ Len(<<>>) = 0
            BY EmptySeq
        <3>2. FlattenSeq(<<>>) = g[Len(<<>>)]
            BY <2>2, <3>1, FlattenIs
        <3> QED BY <2>2, <3>1, <3>2 DEF Flattens
    <2> QED BY <1>1, <2>1, <2>3 DEF EventsIn, ToldIn
<1> QED BY <1>1, <1>2 DEF Story, InOrder, WithFirst, WithFinal, AllBytes

\* Who has had all of a part is before the next one.
LEMMA NextPart ==
    ASSUME FormIs, NEW p \in 1..Len(form), NEW ev, NEW fin, Story(ev, p, form[p].size, fin)
    PROVE  Story(ev, p + 1, 0, FALSE) /\ EventsIn(ev, p + 1) = {}
<1>1. p \in Nat /\ \A q \in 1..p : q \in 1..(p + 1) /\ q # p + 1 /\ q < p + 1 /\ (q < p \/ q = p)
    BY Sizes
<1>2. /\ ev \in Seq(EventSet)
      /\ \A i \in DOMAIN ev : ev[i].status # "Completed" /\ ev[i].part \in 1..p
    BY DEF Story, InOrder
<1>3. EventsIn(ev, p + 1) = {}
    BY <1>1, <1>2 DEF EventsIn
<1>4. InOrder(ev, p + 1)
    BY <1>1 DEF Story, InOrder
<1>5. WithFinal(ev, p + 1, FALSE)
    BY <1>1, <1>2 DEF Story, WithFinal
<1>6. SubSeq(PartData(p), 1, form[p].size) = PartData(p)
    <2>1. PICK c : c = PartData(p)
        OBVIOUS
    <2>2. c \in Seq(Unit) /\ Len(c) = form[p].size
        BY <2>1, DataIs
    <2>3. SubSeq(c, 1, Len(c)) = c
        BY <2>2, SubSeqFull
    <2> QED BY <2>1, <2>2, <2>3
<1>7. AllBytes(ev, p + 1, 0)
    <2>1. ASSUME NEW i \in DOMAIN ev PROVE ToldIn(ev, ev[i].part) = PartData(ev[i].part)
        <3>1. CASE ev[i].part < p
            BY <3>1 DEF Story, AllBytes
        <3>2. CASE ev[i].part = p
            <4>1. EventsIn(ev, p) # {}
                BY <3>2 DEF EventsIn
            <4> QED BY <1>6, <3>2, <4>1 DEF Story, AllBytes
        <3> QED BY <1>1, <1>2, <3>1, <3>2
    <2> QED BY <1>3, <2>1 DEF Story, AllBytes
<1> QED BY <1>2, <1>3, <1>4, <1>5, <1>7 DEF Story

\* Of a part that the application hears nothing of, any number of bytes may be gone.
LEMMA NoneOfPart ==
    ASSUME NEW p, NEW ev, NEW fin, NEW d, NEW e, Story(ev, p, d, fin), EventsIn(ev, p) = {}
    PROVE  Story(ev, p, e, fin)
BY DEF Story, AllBytes

Piece(status, p, d, e) == Event(status, p, SubSeq(PartData(p), d + 1, e))

PieceTold(ev, status, p, d, e) ==
    /\ Story(ev \o <<Piece(status, p, d, e)>>, p, e, status = "Final")
    /\ EventsIn(ev \o <<Piece(status, p, d, e)>>, p) # {}

\* One piece more
LEMMA OnePieceMore ==
    ASSUME FormIs, NEW p \in 1..Len(form), NEW e \in 0..form[p].size, NEW d \in 0..e,
           NEW ev, Story(ev, p, d, FALSE), EventsIn(ev, p) = {} => d = 0,
           NEW status \in {"First", "Subsequent", "Final"}, status = "First" <=> EventsIn(ev, p) = {}
    PROVE  PieceTold(ev, status, p, d, e)
<1>1. PICK z \in Nat : z = form[p].size
    BY Sizes
<1>2. d \in Nat /\ e \in Nat /\ d <= e /\ e <= z /\ p \in Nat \ {0}
    BY <1>1, Sizes
<1>3. PICK c : c = PartData(p)
    OBVIOUS
<1>4. c \in Seq(Unit) /\ Len(c) = z
    BY <1>1, <1>3, DataIs
<1>5. PICK x : x = Piece(status, p, d, e)
    OBVIOUS
<1>6. x \in EventSet /\ x.part = p /\ x.status = status /\ x.data = SubSeq(c, d + 1, e)
    <2>1. d + 1 \in Nat \ {0} /\ e \in 0..Len(c)
        BY <1>2, <1>4
    <2>2. SubSeq(c, d + 1, e) \in Seq(Unit)
        BY <1>4, <2>1, PartIs
    <2>3. x = [status |-> status, part |-> p, data |-> SubSeq(c, d + 1, e)]
        BY <1>3, <1>5 DEF Piece, Event
    <2>4. status \in {"First", "Subsequent", "Final", "Completed"}
        OBVIOUS
    <2> QED BY <1>2, <2>2, <2>3, <2>4 DEF EventSet
<1>7. PICK fv : fv = Append(ev, x)
    OBVIOUS
<1>8. /\ ev \in Seq(EventSet) /\ InOrder(ev, p) /\ WithFirst(ev) /\ WithFinal(ev, p, FALSE)
      /\ AllBytes(ev, p, d)
    BY DEF Story
<1>9. PICK K \in Nat : K = Len(ev)
    BY <1>8, LenProperties
<1>10. /\ fv \in Seq(EventSet) /\ DOMAIN fv = 1..(K + 1) /\ DOMAIN ev = 1..K
       /\ fv[K + 1] = x /\ \A i \in 1..K : fv[i] = ev[i]
    <2>1. /\ fv \in Seq(EventSet) /\ Len(fv) = K + 1 /\ fv[K + 1] = x
          /\ \A i \in 1..K : fv[i] = ev[i]
        BY <1>6, <1>7, <1>8, <1>9, AppendProperties
    <2> QED BY <1>8, <1>9, <2>1, LenProperties
<1>11. \A i : i \in 1..(K + 1) <=> i \in 1..K \/ i = K + 1
    OBVIOUS
<1>12. \A i \in 1..K : i < K + 1 /\ ~(K + 1 < i) /\ i <= K + 1 /\ ~(K + 1 <= i)
    OBVIOUS
<1>13. ASSUME NEW q PROVE ToldMore(ev, x, q)
    BY <1>6, <1>8, OneMore
<1>14. EventsIn(fv, p) = EventsIn(ev, p) \cup {K + 1}
    BY <1>6, <1>7, <1>9, <1>13 DEF ToldMore
<1>15. \A q : q # p => EventsIn(fv, q) = EventsIn(ev, q) /\ ToldIn(fv, q) = ToldIn(ev, q)
    <2> TAKE q
    <2> HAVE q # p
    <2>1. PieceIn(x, q) = <<>>
        BY <1>6 DEF PieceIn
    <2>2. /\ ToldIn(ev, q) \in Seq(Unit) /\ ToldIn(fv, q) = ToldIn(ev, q) \o PieceIn(x, q)
          /\ EventsIn(fv, q) = EventsIn(ev, q)
        BY <1>6, <1>7, <1>13 DEF ToldMore
    <2> QED BY <2>1, <2>2, ConcatEmptySeq
<1>16. ToldIn(fv, p) = SubSeq(c, 1, e)
    <2>1. ToldIn(fv, p) = ToldIn(ev, p) \o SubSeq(c, d + 1, e)
        BY <1>6, <1>7, <1>13 DEF ToldMore, PieceIn
    <2>2. CASE EventsIn(ev, p) = {}
        <3>1. ToldIn(ev, p) = <<>> /\ d = 0
            BY <1>2, <1>8, <2>2 DEF AllBytes
        <3>2. SubSeq(c, 1, e) \in Seq(Unit)
            BY <1>2, <1>4, FirstIs
        <3>3. ToldIn(fv, p) = <<>> \o SubSeq(c, 1, e)
            <4>1. d + 1 = 1
                BY <3>1
            <4> QED BY <2>1, <3>1, <4>1
        <3> QED BY <3>2, <3>3, ConcatEmptySeq
    <2>3. CASE EventsIn(ev, p) # {}
        <3>1. ToldIn(ev, p) = SubSeq(c, 1, d)
            BY <1>3, <1>8, <2>3 DEF AllBytes
        <3>2. 1 \in Nat \ {0} /\ d \in (1 - 1)..Len(c) /\ e \in d..Len(c)
            BY <1>2, <1>4
        <3>3. SubSeq(c, 1, d) \o SubSeq(c, d + 1, e) = SubSeq(c, 1, e)
            BY <1>4, <3>2, Join
        <3> QED BY <2>1, <3>1, <3>3
    <2> QED BY <2>2, <2>3
<1>17. \A i \in 1..K : ev[i].part \in 1..p /\ ev[i].part <= p /\ ev[i].status # "Completed"
    <2>1. \A q \in 1..p : q <= p
        BY <1>2
    <2> QED BY <1>8, <1>10, <2>1 DEF InOrder
<1>18. InOrder(fv, p)
    <2>1. \A i \in DOMAIN fv : fv[i].status # "Completed" /\ fv[i].part \in 1..p
        <3>1. p \in 1..p
            BY <1>2
        <3> QED BY <1>6, <1>10, <1>11, <1>17, <3>1
    <2>2. ASSUME NEW i \in DOMAIN fv, NEW j \in DOMAIN fv, i < j PROVE fv[i].part <= fv[j].part
        <3>1. i \in 1..K
            BY <1>10, <2>2
        <3>2. CASE j \in 1..K
            BY <1>8, <1>10, <2>2, <3>1, <3>2 DEF InOrder
        <3>3. CASE j = K + 1
            BY <1>6, <1>10, <1>17, <3>1, <3>3
        <3> QED BY <1>10, <1>11, <3>2, <3>3
    <2> QED BY <2>1, <2>2 DEF InOrder
<1>19. WithFirst(fv)
    <2> SUFFICES ASSUME NEW i \in DOMAIN fv
                 PROVE  fv[i].status = "First" <=> \A j \in EventsIn(fv, fv[i].part) : i <= j
        BY DEF WithFirst
    <2>1. CASE i \in 1..K
        <3>1. fv[i] = ev[i] /\ (ev[i].status = "First" <=> \A j \in EventsIn(ev, ev[i].part) : i <= j)
            BY <1>8, <1>10, <2>1 DEF WithFirst
        <3>2. (\A j \in EventsIn(fv, ev[i].part) : i <= j) <=> (\A j \in EventsIn(ev, ev[i].part) : i <= j)
            <4>1. CASE ev[i].part = p
                <5>1. i <= K + 1
                    BY <1>12, <2>1
                <5> QED BY <1>14, <4>1, <5>1
            <4>2. CASE ev[i].part # p
                BY <1>15, <4>2
            <4> QED BY <4>1, <4>2
        <3> QED BY <3>1, <3>2
    <2>2. CASE i = K + 1
        <3>1. fv[i].part = p /\ fv[i].status = status
            BY <1>6, <1>10, <2>2
        <3>2. EventsIn(ev, p) \subseteq 1..K
            BY <1>10 DEF EventsIn
        <3>3. (\A j \in EventsIn(fv, p) : K + 1 <= j) <=> EventsIn(ev, p) = {}
            BY <1>12, <1>14, <3>2
        <3> QED BY <2>2, <3>1, <3>3
    <2> QED BY <1>10, <1>11, <2>1, <2>2
<1>20. WithFinal(fv, p, status = "Final")
    <2> SUFFICES ASSUME NEW i \in DOMAIN fv, fv[i].status = "Final"
                 PROVE  /\ fv[i].part < p \/ status = "Final"
                        /\ \A j \in EventsIn(fv, fv[i].part) : j <= i
        BY DEF WithFinal
    <2>1. CASE i \in 1..K
        <3>1. fv[i] = ev[i] /\ ev[i].part < p /\ \A j \in EventsIn(ev, ev[i].part) : j <= i
            BY <1>8, <1>10, <2>1 DEF WithFinal
        <3>2. ev[i].part # p
            BY <1>2, <3>1
        <3> QED BY <1>15, <3>1, <3>2
    <2>2. CASE i = K + 1
        <3>1. fv[i].part = p /\ status = "Final"
            BY <1>6, <1>10, <2>2
        <3>2. EventsIn(fv, p) \subseteq 1..(K + 1)
            BY <1>10 DEF EventsIn
        <3>3. \A j \in 1..(K + 1) : j <= K + 1
            OBVIOUS
        <3> QED BY <2>2, <3>1, <3>2, <3>3
    <2> QED BY <1>10, <1>11, <2>1, <2>2
<1>21. AllBytes(fv, p, e)
    <2>1. ASSUME NEW q \in Nat, EventsIn(fv, q) = {} PROVE ToldIn(fv, q) = <<>>
        <3>1. q # p
            BY <1>14, <2>1
        <3> QED BY <1>8, <1>15, <2>1, <3>1 DEF AllBytes
    <2>2. ASSUME NEW i \in DOMAIN fv, fv[i].part < p PROVE ToldIn(fv, fv[i].part) = PartData(fv[i].part)
        <3>1. fv[i].part # p
            BY <1>2, <2>2
        <3>2. i \in 1..K
            BY <1>6, <1>10, <1>11, <3>1
        <3> QED BY <1>8, <1>10, <1>15, <2>2, <3>1, <3>2 DEF AllBytes
    <2> QED BY <1>3, <1>16, <2>1, <2>2 DEF AllBytes
<1>22. EventsIn(fv, p) # {}
    BY <1>14
<1>23. fv = ev \o <<x>>
    BY <1>6, <1>7, <1>8, AppendIsConcat
<1> QED BY <1>5, <1>10, <1>18, <1>19, <1>20, <1>21, <1>22, <1>23 DEF Story, PieceTold

-----------------------------------------------------------------------------
(* The places of the handler in a body of which it has had f bytes *)

\* In the data of part p, of which d bytes are gone
InData(p, d, f, buffer, headers, name, started, ev) ==
    /\ p \in 1..Len(form) /\ d \in 0..form[p].size /\ DataAt(p) + d <= f
    /\ buffer = Cut(DataAt(p) + d, f) /\ headers = FALSE /\ name = NameOf(p)
    /\ started = (EventsIn(ev, p) # {})
    /\ (started => form[p].named) /\ (form[p].named /\ ~started => d = 0)
    /\ Story(ev, p, d, FALSE)

\* Before the data of part p, or behind all parts
InHeaders(p, k, f, buffer, headers, name, started, ev) ==
    /\ p \in 1..(Len(form) + 1) /\ Leads(p, k) /\ k <= f
    /\ buffer = Cut(k, f) /\ headers = TRUE /\ name = 0 /\ started = FALSE
    /\ Story(ev, p, 0, FALSE) /\ EventsIn(ev, p) = {}

Somewhere(f, buffer, headers, name, started, ev) ==
    \E p, x : \/ InData(p, x, f, buffer, headers, name, started, ev)
              \/ InHeaders(p, x, f, buffer, headers, name, started, ev)

LooksRight(look, f) ==
    Somewhere(f, look.buffer, look.headers, look.name, look.started, events \o look.told)

\* A part without a name has the number 0 for it.
LEMMA NameIs ==
    ASSUME FormIs, NEW p \in 1..Len(form)
    PROVE  /\ form[p].named => NameOf(p) = p /\ NameOf(p) # 0
           /\ ~form[p].named => NameOf(p) = 0
BY Sizes DEF NameOf

\* d units of part p have been told, and what the handler remembers of it is so.
ToldSoFar(p, d) ==
    /\ Story(events, p, d, FALSE) /\ partStarted = (EventsIn(events, p) # {})
    /\ partStarted => form[p].named
    /\ form[p].named /\ ~partStarted => d = 0

\* With these events e units have been told.
HasTold(ev, p, e, fin) ==
    /\ Story(ev, p, e, fin)
    /\ (partStarted \/ NameOf(p) # 0) = (EventsIn(ev, p) # {})
    /\ form[p].named <=> EventsIn(ev, p) # {}

PieceAdds(p, d, e, status) ==
    HasTold(events \o NamedEvent(status, NameOf(p), Cut(DataAt(p) + d, DataAt(p) + e)),
            p, e, status = "Final")

\* What a look tells of a part with a name
LEMMA TellPiece ==
    ASSUME FormIs, NEW p \in 1..Len(form), NEW e \in 0..form[p].size, NEW d \in 0..e,
           ToldSoFar(p, d),
           NEW status \in {"First", "Subsequent", "Final"}, status = "First" <=> ~partStarted
    PROVE  PieceAdds(p, d, e, status)
<1> DEFINE ev == events \o NamedEvent(status, NameOf(p), Cut(DataAt(p) + d, DataAt(p) + e))
<1>1. events \in Seq(EventSet) /\ Story(events, p, d, FALSE) /\ partStarted = (EventsIn(events, p) # {})
    BY DEF Story, ToldSoFar
<1>0. (partStarted => form[p].named) /\ (form[p].named /\ ~partStarted => d = 0)
    BY DEF ToldSoFar
<1>2. ASSUME form[p].named PROVE HasTold(ev, p, e, status = "Final")
    <2>1. NameOf(p) = p /\ NameOf(p) # 0
        BY <1>2, NameIs
    <2>2. NamedEvent(status, NameOf(p), Cut(DataAt(p) + d, DataAt(p) + e)) = <<Piece(status, p, d, e)>>
        <3>1. Cut(DataAt(p) + d, DataAt(p) + e) = SubSeq(PartData(p), d + 1, e)
            BY DataCut
        <3> QED BY <2>1, <3>1 DEF NamedEvent, Piece
    <2>3. ev = events \o <<Piece(status, p, d, e)>>
        BY <2>2
    <2>4. (EventsIn(events, p) = {} => d = 0) /\ (status = "First" <=> EventsIn(events, p) = {})
        BY <1>0, <1>1, <1>2
    <2> HIDE DEF ev
    <2>5. Story(ev, p, e, status = "Final") /\ EventsIn(ev, p) # {}
        <3>1. PieceTold(events, status, p, d, e)
            BY <1>1, <2>4, OnePieceMore
        <3> QED BY <2>3, <3>1 DEF PieceTold
    <2> QED BY <1>2, <2>1, <2>5 DEF HasTold
<1>3. ASSUME ~form[p].named PROVE HasTold(ev, p, e, status = "Final")
    <2>1. NameOf(p) = 0
        BY <1>3, NameIs
    <2>2. ev = events
        <3>1. NamedEvent(status, NameOf(p), Cut(DataAt(p) + d, DataAt(p) + e)) = <<>>
            BY <2>1 DEF NamedEvent
        <3> QED BY <1>1, <3>1, ConcatEmptySeq
    <2> HIDE DEF ev
    <2>3. EventsIn(events, p) = {} /\ partStarted = FALSE
        BY <1>0, <1>1, <1>3
    <2>4. Story(events, p, e, FALSE)
        BY <1>1, <2>3, NoneOfPart
    <2>5. Story(events, p, e, status = "Final")
        BY <2>4 DEF Story, WithFinal
    <2> QED BY <1>3, <2>1, <2>2, <2>3, <2>5 DEF HasTold
<1>4. HasTold(ev, p, e, status = "Final")
    BY <1>2, <1>3
<1> QED BY <1>4 DEF PieceAdds

\* Behind the delimiter of a part
LEMMA Behind ==
    ASSUME FormIs, NEW p \in 1..Len(form), NEW f \in 0..Len(body), NEW d \in 0..form[p].size,
           DataAt(p) + form[p].size + 3 <= f
    PROVE  \E k : /\ Leads(p + 1, k) /\ k <= f
                  /\ SubSeq(Cut(DataAt(p) + d, f), form[p].size - d + 1 + 5, Len(Cut(DataAt(p) + d, f)))
                        = Cut(k, f)
<1>1. PICK s \in Nat : s = DataAt(p)
    BY Sizes
<1>2. PICK z \in Nat : z = form[p].size
    BY Sizes
<1>3. body \in Seq(Unit) /\ Len(body) \in Nat
    BY PartsAreAt, LenProperties
<1>4. d \in Nat /\ d <= z /\ f \in Nat /\ s + z + 3 <= f
    BY <1>1, <1>2, <1>3
<1>5. Before(p + 1) = s + z + 5
    BY <1>1, <1>2, Sizes
<1>6. \A n \in 1..5 : body[s + z + n] = DelimiterUnit(n)
    BY <1>1, <1>2, Units
<1>7. \A k \in Nat : s + z + 3 <= k /\ k <= s + z + 5 => Leads(p + 1, k)
    <2> SUFFICES ASSUME NEW k \in Nat, s + z + 3 <= k, k <= s + z + 5,
                        NEW i \in (k + 1)..(s + z + 5)
                 PROVE  body[i].kind = "delimiter"
        BY <1>5 DEF Leads
    <2>1. i - (s + z) \in 1..5 /\ i = s + z + (i - (s + z))
        OBVIOUS
    <2>2. body[i] = DelimiterUnit(i - (s + z))
        BY <1>6, <2>1
    <2> QED BY <2>2 DEF DelimiterUnit
<1>8. PICK w : w = Cut(s + d, f)
    OBVIOUS
<1>9. s + d \in 0..f /\ w \in Seq(Unit) /\ Len(w) = f - (s + d)
    <2>1. s + d \in 0..f
        BY <1>4
    <2> QED BY <1>3, <1>8, <2>1, Cutting DEF CutIs
<1> SUFFICES \E k : Leads(p + 1, k) /\ k <= f /\ SubSeq(w, z - d + 1 + 5, Len(w)) = Cut(k, f)
    BY <1>1, <1>2, <1>8
<1>10. CASE s + z + 5 <= f
    <2>1. z - d + 5 \in 0..(f - (s + d)) /\ z - d + 5 + 1 = z - d + 1 + 5 /\ s + d + (z - d + 5) = s + z + 5
        BY <1>4, <1>10
    <2>2. SubSeq(w, z - d + 5 + 1, f - (s + d)) = Cut(s + d + (z - d + 5), f)
        BY <1>3, <1>8, <1>9, <2>1, RestOfCut
    <2>3. SubSeq(w, z - d + 1 + 5, Len(w)) = Cut(s + z + 5, f)
        BY <1>9, <2>1, <2>2
    <2>4. Leads(p + 1, s + z + 5)
        BY <1>7
    <2> QED BY <1>10, <2>3, <2>4
<1>11. CASE ~(s + z + 5 <= f)
    <2>1. Leads(p + 1, f)
        BY <1>4, <1>7, <1>11
    <2>2. SubSeq(w, z - d + 1 + 5, Len(w)) = <<>>
        <3>1. Len(w) < z - d + 1 + 5 /\ Len(w) \in Int /\ z - d + 1 + 5 \in Int
            BY <1>4, <1>9, <1>11
        <3> QED BY <3>1, SubSeqEmpty
    <2>3. Cut(f, f) = <<>>
        <3>1. f < f + 1 /\ f \in Int /\ f + 1 \in Int
            BY <1>4
        <3> QED BY <3>1, SubSeqEmpty DEF Cut
    <2>4. f <= f
        BY <1>4
    <2> QED BY <2>1, <2>2, <2>3, <2>4
<1> QED BY <1>10, <1>11

Part(p, d, f) ==
    /\ p \in 1..Len(form) /\ d \in 0..form[p].size /\ f \in 0..Len(body) /\ DataAt(p) + d <= f
    /\ partStarted = (EventsIn(events, p) # {})
    /\ (partStarted => form[p].named) /\ (form[p].named /\ ~partStarted => d = 0)
    /\ Story(events, p, d, FALSE)

\* The end of a part is in the buffer.
LEMMA EndOfPart ==
    ASSUME FormIs, NEW p, NEW d, NEW f, Part(p, d, f), DataAt(p) + form[p].size + 3 <= f
    PROVE  LooksRight(InPart(Cut(DataAt(p) + d, f), NameOf(p)), f)
<1>1. p \in 1..Len(form) /\ d \in 0..form[p].size /\ f \in 0..Len(body)
    BY DEF Part
<1>2. PICK w : w = Cut(DataAt(p) + d, f)
    OBVIOUS
<1>3. PICK n : n = form[p].size - d + 1
    OBVIOUS
<1>4. Boundaries(w) # {} /\ Min(Boundaries(w)) = n
    BY <1>1, <1>2, <1>3, BoundaryFound
<1>5. PICK status : status = IF partStarted THEN "Final" ELSE "First"
    OBVIOUS
<1>6. InPart(w, NameOf(p)) = Look(SubSeq(w, n + 5, Len(w)), TRUE, 0, FALSE,
                                  NamedEvent(status, NameOf(p), SubSeq(w, 1, n - 1)))
    BY <1>4, <1>5, DelimiterIs DEF InPart, AtBoundary
<1>7. SubSeq(w, 1, n - 1) = Cut(DataAt(p) + d, DataAt(p) + form[p].size)
    <2>1. PICK s \in Nat : s = DataAt(p)
        BY <1>1, Sizes
    <2>2. PICK z \in Nat : z = form[p].size
        BY <1>1, Sizes
    <2>3. body \in Seq(Unit) /\ Len(body) \in Nat
        BY PartsAreAt, LenProperties
    <2>0. d \in Nat /\ d <= z /\ f \in Nat /\ s + z + 3 <= f /\ n = z - d + 1
        BY <1>1, <1>3, <2>1, <2>2, <2>3
    <2>4. s + d \in 0..f /\ z - d \in 0..(f - (s + d)) /\ n - 1 = z - d /\ s + d + (z - d) = s + z
        BY <2>0
    <2>5. SubSeq(Cut(s + d, f), 1, z - d) = Cut(s + d, s + d + (z - d))
        BY <1>1, <2>3, <2>4, FrontOfCut
    <2> QED BY <1>2, <2>1, <2>2, <2>4, <2>5
<1>8. PICK ev : ev = events \o NamedEvent(status, NameOf(p), Cut(DataAt(p) + d, DataAt(p) + form[p].size))
    OBVIOUS
<1>9. Story(ev, p, form[p].size, status = "Final")
    <2>1. form[p].size \in 0..form[p].size /\ d \in 0..form[p].size
        BY <1>1, Sizes
    <2>2. status \in {"First", "Subsequent", "Final"} /\ (status = "First" <=> ~partStarted)
        BY <1>5
    <2>3. ToldSoFar(p, d)
        BY DEF Part, ToldSoFar
    <2>4. PieceAdds(p, d, form[p].size, status)
        BY <1>1, <2>1, <2>2, <2>3, TellPiece
    <2> QED BY <1>8, <2>4 DEF PieceAdds, HasTold
<1>10. Story(ev, p + 1, 0, FALSE) /\ EventsIn(ev, p + 1) = {}
    BY <1>1, <1>9, NextPart
<1>11. PICK k : Leads(p + 1, k) /\ k <= f /\ SubSeq(w, n + 5, Len(w)) = Cut(k, f)
    BY <1>1, <1>2, <1>3, Behind
<1>12. p + 1 \in 1..(Len(form) + 1)
    BY <1>1, PartsAreAt
<1>13. PICK look : look = InPart(w, NameOf(p))
    OBVIOUS
<1>14. /\ look.buffer = Cut(k, f) /\ look.headers = TRUE /\ look.name = 0 /\ look.started = FALSE
       /\ events \o look.told = ev
    <2>1. PICK t : t = NamedEvent(status, NameOf(p), SubSeq(w, 1, n - 1))
        OBVIOUS
    <2>2. ev = events \o t
        BY <1>7, <1>8, <2>1
    <2>3. look = Look(Cut(k, f), TRUE, 0, FALSE, t)
        BY <1>6, <1>11, <1>13, <2>1
    <2>4. /\ look.buffer = Cut(k, f) /\ look.headers = TRUE /\ look.name = 0 /\ look.started = FALSE
          /\ look.told = t
        BY <2>3 DEF Look
    <2> QED BY <2>2, <2>4
<1>15. InHeaders(p + 1, k, f, look.buffer, look.headers, look.name, look.started, events \o look.told)
    BY <1>10, <1>11, <1>12, <1>14 DEF InHeaders
<1> QED BY <1>2, <1>13, <1>15 DEF LooksRight, Somewhere

\* The end of a part is not in the buffer yet.
LEMMA WithinPart ==
    ASSUME FormIs, NEW p, NEW d, NEW f, Part(p, d, f), f < DataAt(p) + form[p].size + 3
    PROVE  LooksRight(InPart(Cut(DataAt(p) + d, f), NameOf(p)), f)
<1>1. p \in 1..Len(form) /\ d \in 0..form[p].size /\ f \in 0..Len(body) /\ DataAt(p) + d <= f
    BY DEF Part
<1>2. PICK w : w = Cut(DataAt(p) + d, f)
    OBVIOUS
<1>3. Boundaries(w) = {}
    BY <1>1, <1>2, NoBoundaryYet
<1>4. PICK s \in Nat : s = DataAt(p)
    BY <1>1, Sizes
<1>5. PICK z \in Nat : z = form[p].size
    BY <1>1, Sizes
<1>6. body \in Seq(Unit) /\ Len(body) \in Nat
    BY PartsAreAt, LenProperties
<1>7. d \in Nat /\ f \in Nat /\ s + d <= f /\ f < s + z + 3 /\ s + d \in 0..f /\ d <= z
    BY <1>1, <1>4, <1>5, <1>6, SMTT(30)
<1>8. w \in Seq(Unit) /\ Len(w) = f - (s + d)
    BY <1>1, <1>2, <1>4, <1>6, <1>7, Cutting DEF CutIs
<1>9. PICK look : look = InPart(w, NameOf(p))
    OBVIOUS
<1>10. CASE Len(w) > 5
    <2>1. PICK i \in Nat : i = f - (s + d) - 5
        BY <1>7, <1>8, <1>10
    <2>2. /\ i \in 0..(f - (s + d)) /\ d + i \in 0..z /\ d \in 0..(d + i) /\ Len(w) - 5 = i
          /\ s + d + i = s + (d + i) /\ s + (d + i) <= f
        BY <1>7, <1>8, <2>1
    <2>3. PICK status : status = IF partStarted THEN "Subsequent" ELSE "First"
        OBVIOUS
    <2>4. look = Look(SubSeq(w, i + 1, Len(w)), FALSE, NameOf(p), partStarted \/ NameOf(p) # 0,
                      NamedEvent(status, NameOf(p), SubSeq(w, 1, i)))
        BY <1>3, <1>9, <1>10, <2>2, <2>3, DelimiterIs DEF InPart, Streamed
    <2>5. SubSeq(w, i + 1, Len(w)) = Cut(s + (d + i), f)
        <3>1. SubSeq(Cut(s + d, f), i + 1, f - (s + d)) = Cut(s + d + i, f)
            BY <1>1, <1>6, <1>7, <2>2, RestOfCut
        <3> QED BY <1>2, <1>4, <1>8, <2>2, <3>1
    <2>6. SubSeq(w, 1, i) = Cut(s + d, s + (d + i))
        <3>1. SubSeq(Cut(s + d, f), 1, i) = Cut(s + d, s + d + i)
            BY <1>1, <1>6, <1>7, <2>2, FrontOfCut
        <3> QED BY <1>2, <1>4, <2>2, <3>1
    <2>7. PICK ev : ev = events \o NamedEvent(status, NameOf(p), Cut(DataAt(p) + d, DataAt(p) + (d + i)))
        OBVIOUS
    <2>8. /\ Story(ev, p, d + i, status = "Final")
          /\ (partStarted \/ NameOf(p) # 0) = (EventsIn(ev, p) # {})
          /\ form[p].named <=> EventsIn(ev, p) # {}
        <3>1. d + i \in 0..form[p].size
            BY <1>5, <2>2
        <3>2. status \in {"First", "Subsequent", "Final"} /\ (status = "First" <=> ~partStarted)
            BY <2>3
        <3>3. /\ Story(events, p, d, FALSE) /\ partStarted = (EventsIn(events, p) # {})
              /\ (partStarted => form[p].named) /\ (form[p].named /\ ~partStarted => d = 0)
            BY DEF Part
        <3>4. PICK e : e = d + i
            OBVIOUS
        <3>5. /\ e \in 0..form[p].size /\ d \in 0..e
              /\ ev = events \o NamedEvent(status, NameOf(p), Cut(DataAt(p) + d, DataAt(p) + e))
            BY <2>2, <2>7, <3>1, <3>4
        <3>6. /\ Story(ev, p, e, status = "Final")
              /\ (partStarted \/ NameOf(p) # 0) = (EventsIn(ev, p) # {})
              /\ form[p].named <=> EventsIn(ev, p) # {}
            <4>1. ToldSoFar(p, d)
                BY <3>3 DEF ToldSoFar
            <4>2. PieceAdds(p, d, e, status)
                BY <1>1, <3>2, <3>5, <4>1, TellPiece
            <4> QED BY <3>5, <4>2 DEF PieceAdds, HasTold
        <3> QED BY <3>4, <3>6
    <2>9. (status = "Final") = FALSE
        BY <2>3
    <2>10. /\ look.buffer = Cut(DataAt(p) + (d + i), f) /\ look.headers = FALSE /\ look.name = NameOf(p)
           /\ look.started = (EventsIn(ev, p) # {}) /\ events \o look.told = ev
        BY <1>4, <2>4, <2>5, <2>6, <2>7, <2>8 DEF Look
    <2>11. InData(p, d + i, f, look.buffer, look.headers, look.name, look.started, events \o look.told)
        BY <1>1, <1>4, <1>5, <2>2, <2>8, <2>9, <2>10 DEF InData
    <2> QED BY <1>2, <1>9, <2>11 DEF LooksRight, Somewhere
<1>11. CASE ~(Len(w) > 5)
    <2>1. look = Look(w, FALSE, NameOf(p), partStarted, <<>>)
        BY <1>3, <1>9, <1>11, DelimiterIs DEF InPart
    <2>2. events \o <<>> = events
        BY ConcatEmptySeq DEF Part, Story
    <2>3. /\ look.buffer = w /\ look.headers = FALSE /\ look.name = NameOf(p)
          /\ look.started = partStarted /\ events \o look.told = events
        BY <2>1, <2>2 DEF Look
    <2>4. InData(p, d, f, look.buffer, look.headers, look.name, look.started, events \o look.told)
        BY <1>1, <1>2, <2>3 DEF InData, Part
    <2> QED BY <1>2, <1>9, <2>4 DEF LooksRight, Somewhere
<1> QED BY <1>10, <1>11

\* One look takes the handler from one of its places to another.
LEMMA LookIsRight ==
    ASSUME FormIs, fed \in Nat, NEW f \in fed..Len(body),
           Somewhere(fed, window, parsingHeaders, partName, partStarted, events)
    PROVE  LooksRight(Processed(window \o SubSeq(body, fed + 1, f)), f)
<1>1. PICK buffer : buffer = window \o SubSeq(body, fed + 1, f)
    OBVIOUS
<1>2. body \in Seq(Unit) /\ Len(body) \in Nat /\ Len(form) \in Nat
    BY PartsAreAt, LenProperties
<1>3. f \in 0..Len(body) /\ fed \in 0..f
    BY <1>2
<1>4. PICK p, x : \/ InData(p, x, fed, window, parsingHeaders, partName, partStarted, events)
                  \/ InHeaders(p, x, fed, window, parsingHeaders, partName, partStarted, events)
    BY DEF Somewhere
<1>5. ASSUME NEW d, Part(p, d, f)
      PROVE  LooksRight(InPart(Cut(DataAt(p) + d, f), NameOf(p)), f)
    <2>1. DataAt(p) + form[p].size + 3 <= f \/ f < DataAt(p) + form[p].size + 3
        <3>1. DataAt(p) \in Nat /\ form[p].size \in Nat
            BY <1>5, Sizes DEF Part
        <3>2. DataAt(p) + form[p].size + 3 \in Nat /\ f \in Nat
            BY <1>2, <3>1, SMTT(30)
        <3> QED BY <3>2
    <2> QED BY <1>5, <2>1, EndOfPart, WithinPart
<1>6. CASE InData(p, x, fed, window, parsingHeaders, partName, partStarted, events)
    <2>1. p \in 1..Len(form) /\ x \in 0..form[p].size /\ DataAt(p) + x <= fed
        BY <1>6 DEF InData
    <2>2. DataAt(p) + x \in 0..fed /\ DataAt(p) + x <= f
        <3>1. DataAt(p) \in Nat /\ form[p].size \in Nat
            BY <2>1, Sizes
        <3>2. PICK s \in Nat : s = DataAt(p)
            BY <3>1
        <3>3. x \in Nat /\ s + x <= fed
            BY <2>1, <3>1, <3>2
        <3>4. s + x \in 0..fed /\ s + x <= f
            BY <1>2, <3>3
        <3> QED BY <3>2, <3>4
    <2>3. buffer = Cut(DataAt(p) + x, f)
        BY <1>1, <1>2, <1>3, <1>6, <2>2, MoreOfCut DEF InData
    <2>4. Part(p, x, f)
        BY <1>3, <1>6, <2>2 DEF InData, Part
    <2>5. Processed(buffer) = InPart(Cut(DataAt(p) + x, f), NameOf(p))
        BY <1>6, <2>3 DEF Processed, InData
    <2> QED BY <1>1, <1>5, <2>4, <2>5
<1>7. CASE InHeaders(p, x, fed, window, parsingHeaders, partName, partStarted, events)
    <2>1. p \in 1..(Len(form) + 1) /\ Leads(p, x) /\ x <= fed /\ x \in Nat
        BY <1>7 DEF InHeaders, Leads
    <2>2. x \in 0..fed /\ x <= f
        BY <1>2, <2>1
    <2>3. buffer = Cut(x, f)
        BY <1>1, <1>2, <1>3, <1>7, <2>2, MoreOfCut DEF InHeaders
    <2>4. CASE p <= Len(form) /\ DataAt(p) <= f
        <3>1. p \in 1..Len(form)
            BY <1>2, <2>1, <2>4
        <3>2. Headed(buffer) = Found(Cut(DataAt(p), f), NameOf(p))
            BY <1>3, <2>1, <2>2, <2>3, <2>4, <3>1, HeadedIs
        <3>3. DataAt(p) + 0 = DataAt(p) /\ 0 \in 0..form[p].size
            BY <3>1, Sizes
        <3>4. Processed(buffer) = InPart(Cut(DataAt(p) + 0, f), NameOf(p))
            BY <1>7, <3>2, <3>3 DEF Processed, InHeaders, Found
        <3>5. Part(p, 0, f)
            BY <1>3, <1>7, <2>4, <3>1, <3>3 DEF InHeaders, Part
        <3> QED BY <1>1, <1>5, <3>4, <3>5
    <2>5. CASE ~(p <= Len(form) /\ DataAt(p) <= f)
        <3>1. p <= Len(form) => f < DataAt(p)
            <4>1. ASSUME p <= Len(form) PROVE DataAt(p) \in Nat /\ f \in Nat
                <5>1. p \in 1..Len(form)
                    BY <1>2, <2>1, <4>1
                <5> QED BY <1>2, <5>1, Sizes
            <4> QED BY <2>5, <4>1
        <3>2. ~Headed(buffer).found
            BY <1>3, <2>1, <2>2, <2>3, <3>1, NotHeadedYet
        <3>3. PICK look : look = Processed(buffer)
            OBVIOUS
        <3>4. look = Look(buffer, TRUE, 0, FALSE, <<>>)
            BY <1>7, <3>2, <3>3 DEF Processed, InHeaders
        <3>5. events \o <<>> = events
            BY <1>7, ConcatEmptySeq DEF InHeaders, Story
        <3>6. /\ look.buffer = buffer /\ look.headers = TRUE /\ look.name = 0 /\ look.started = FALSE
              /\ events \o look.told = events
            BY <3>4, <3>5 DEF Look
        <3>7. InHeaders(p, x, f, look.buffer, look.headers, look.name, look.started, events \o look.told)
            BY <1>7, <2>2, <2>3, <3>6 DEF InHeaders
        <3> QED BY <1>1, <3>3, <3>7 DEF LooksRight, Somewhere
    <2> QED BY <2>4, <2>5
<1> QED BY <1>4, <1>6, <1>7

\* What a look leaves is a piece of the buffer, whatever this holds.
LEMMA LookIsTyped ==
    ASSUME NEW b \in Seq(Unit)
    PROVE  Processed(b).buffer \in Seq(Unit)
<1>1. ASSUME NEW w \in Seq(Unit), NEW a \in Nat \ {0}
      PROVE  SubSeq(w, a, Len(w)) \in Seq(Unit)
    <2>1. Len(w) \in 0..Len(w)
        BY LenProperties
    <2> QED BY <2>1, PartIs
<1>2. ASSUME NEW w \in Seq(Unit), NEW name PROVE InPart(w, name).buffer \in Seq(Unit)
    <2>1. Len(w) \in Nat
        BY LenProperties
    <2>2. CASE Boundaries(w) # {}
        <3>1. PICK n : n = Min(Boundaries(w))
            OBVIOUS
        <3>2. Boundaries(w) \subseteq Nat
            BY <2>1 DEF Boundaries
        <3>3. n \in Nat /\ n + 5 \in Nat \ {0}
            BY <2>2, <3>1, <3>2, LeastIs
        <3>4. SubSeq(w, n + 5, Len(w)) \in Seq(Unit)
            BY <1>1, <3>3
        <3> QED BY <2>2, <3>1, <3>4, DelimiterIs DEF InPart, AtBoundary, Look
    <2>3. CASE Boundaries(w) = {} /\ Len(w) > 5
        <3>1. Len(w) - 5 + 1 \in Nat \ {0}
            <4>1. \A l \in Nat : l > 5 => l - 5 + 1 \in Nat \ {0}
                OBVIOUS
            <4> QED BY <2>1, <2>3, <4>1
        <3>2. SubSeq(w, Len(w) - 5 + 1, Len(w)) \in Seq(Unit)
            BY <1>1, <3>1
        <3> QED BY <2>3, <3>2, DelimiterIs DEF InPart, Streamed, Look
    <2>4. CASE Boundaries(w) = {} /\ ~(Len(w) > 5)
        BY <2>4, DelimiterIs DEF InPart, Look
    <2> QED BY <2>2, <2>3, <2>4
<1>3. Headed(b).rest \in Seq(Unit)
    <2> DEFINE breaks == {n \in DOMAIN b : b[n] = Break}
    <2>1. CASE Len(b) < 2 \/ breaks = {}
        BY <2>1 DEF Headed
    <2>2. CASE ~(Len(b) < 2 \/ breaks = {})
        <3>1. DOMAIN b = 1..Len(b) /\ Len(b) \in Nat
            BY LenProperties
        <3>2. breaks \subseteq Nat /\ breaks # {}
            BY <2>2, <3>1
        <3>3. PICK e : e = Min(breaks)
            OBVIOUS
        <3>4. e \in Nat
            <4> HIDE DEF breaks
            <4> QED BY <3>2, <3>3, LeastIs
        <3>5. SubSeq(b, e + 1, Len(b)) \in Seq(Unit)
            <4>1. e + 1 \in Nat \ {0}
                BY <3>4
            <4> QED BY <1>1, <4>1
        <3>6. Headed(b).rest = SubSeq(b, e + 1, Len(b))
            BY <2>2, <3>3 DEF Headed
        <3> QED BY <3>5, <3>6
    <2> QED BY <2>1, <2>2
<1> QED BY <1>2, <1>3 DEF Processed, Look

-----------------------------------------------------------------------------
(* The invariant *)

HasStory(ev) ==
    \E p \in 1..(Len(form) + 1) : \E d :
        (p <= Len(form) => d \in 0..form[p].size) /\ Story(ev, p, d, FALSE)

\* Wherever the handler is, the application has been told a story.
LEMMA SomewhereInAStory ==
    ASSUME FormIs, NEW f, NEW w, NEW h, NEW n, NEW s, NEW ev, Somewhere(f, w, h, n, s, ev)
    PROVE  HasStory(ev)
<1>1. PICK p, x : InData(p, x, f, w, h, n, s, ev) \/ InHeaders(p, x, f, w, h, n, s, ev)
    BY DEF Somewhere
<1>2. Len(form) \in Nat
    BY PartsAreAt
<1>3. CASE InData(p, x, f, w, h, n, s, ev)
    <2>1. p \in 1..(Len(form) + 1) /\ x \in 0..form[p].size /\ Story(ev, p, x, FALSE)
        <3>1. p \in 1..Len(form) /\ x \in 0..form[p].size /\ Story(ev, p, x, FALSE)
            BY <1>3 DEF InData
        <3>2. p \in 1..(Len(form) + 1)
            BY <1>2, <3>1
        <3> QED BY <3>1, <3>2
    <2> QED BY <2>1 DEF HasStory
<1>4. CASE InHeaders(p, x, f, w, h, n, s, ev)
    <2>1. p \in 1..(Len(form) + 1) /\ Story(ev, p, 0, FALSE)
        BY <1>4 DEF InHeaders
    <2>2. p <= Len(form) => 0 \in 0..form[p].size
        <3>1. p <= Len(form) => p \in 1..Len(form)
            BY <1>2, <2>1
        <3> QED BY <3>1, Sizes
    <2> QED BY <2>1, <2>2 DEF HasStory
<1> QED BY <1>1, <1>3, <1>4

TheEnd == Event("Completed", 0, <<>>)

AllTold ==
    /\ fed = Len(body) /\ window = <<>> /\ parsingHeaders = TRUE
    /\ \E ev : HasStory(ev) /\ events = ev \o <<TheEnd>>

FormTold ==
    /\ FormIs /\ fed \in 0..Len(body) /\ window \in Seq(Unit) /\ dropped \in Nat
    /\ dropped = 0 => \/ Somewhere(fed, window, parsingHeaders, partName, partStarted, events)
                      \/ AllTold

\* The places depend on the body alone, which never changes.
LEMMA SamePlaces ==
    ASSUME form' = form, body' = body,
           Somewhere(fed', window', parsingHeaders', partName', partStarted', events')
    PROVE  Somewhere(fed, window, parsingHeaders, partName, partStarted, events)'
<1>1. ASSUME NEW p PROVE PartData(p)' = PartData(p)
    BY DEF PartData
<1>2. ASSUME NEW p PROVE NameOf(p)' = NameOf(p)
    BY DEF NameOf
<1>3. PartBytes' = PartBytes
    <2>1. ASSUME NEW p PROVE HeadOf(p)' = HeadOf(p)
        BY DEF HeadOf
    <2> QED BY <1>1, <2>1 DEF PartBytes, Break, Delimiter
<1>4. ASSUME NEW p PROVE Before(p)' = Before(p) /\ Before(p + 1)' = Before(p + 1)
    BY <1>3 DEF Before
<1>5. ASSUME NEW p PROVE DataAt(p)' = DataAt(p)
    BY <1>4 DEF DataAt
<1>6. ASSUME NEW p, NEW k PROVE Leads(p, k)' <=> Leads(p, k)
    BY <1>4 DEF Leads
<1>7. PICK p, x : \/ InData(p, x, fed', window', parsingHeaders', partName', partStarted', events')
                  \/ InHeaders(p, x, fed', window', parsingHeaders', partName', partStarted', events')
    BY DEF Somewhere
<1>8. CASE InData(p, x, fed', window', parsingHeaders', partName', partStarted', events')
    <2>1. InData(p, x, fed, window, parsingHeaders, partName, partStarted, events)'
        BY <1>1, <1>2, <1>5, <1>8 DEF InData, Cut, Story, AllBytes
    <2> QED BY <2>1 DEF Somewhere
<1>9. CASE InHeaders(p, x, fed', window', parsingHeaders', partName', partStarted', events')
    <2>1. InHeaders(p, x, fed, window, parsingHeaders, partName, partStarted, events)'
        BY <1>1, <1>6, <1>9 DEF InHeaders, Cut, Story, AllBytes
    <2> QED BY <2>1 DEF Somewhere
<1> QED BY <1>7, <1>8, <1>9

\* So do the stories.
LEMMA SameStory ==
    ASSUME form' = form, NEW ev, HasStory(ev)
    PROVE  HasStory(ev)'
<1>1. ASSUME NEW p PROVE PartData(p)' = PartData(p)
    BY DEF PartData
<1>2. ASSUME NEW p, NEW d, NEW fin PROVE Story(ev, p, d, fin)' <=> Story(ev, p, d, fin)
    BY <1>1 DEF Story, AllBytes
<1> QED BY <1>2 DEF HasStory

\* The handler begins before the first part.
LEMMA FormInit == MultipartInit => FormTold
<1> SUFFICES ASSUME MultipartInit PROVE FormTold
    OBVIOUS
<1>1. FormIs
    BY FormsAssumption DEF MultipartInit, FormIs, PartSet
<1>2. body \in Seq(Unit) /\ Len(body) \in Nat /\ Len(form) \in Nat /\ Before(1) = 0
    BY <1>1, PartsAreAt, LenProperties
<1>3. Leads(1, 0)
    BY <1>2 DEF Leads
<1>4. Cut(0, 0) = <<>>
    <2>1. SubSeq(body, 0 + 1, 0) = <<>>
        BY SubSeqEmpty
    <2> QED BY <2>1 DEF Cut
<1>5. Story(<<>>, 1, 0, FALSE) /\ EventsIn(<<>>, 1) = {}
    BY NothingTold
<1>6. InHeaders(1, 0, fed, window, parsingHeaders, partName, partStarted, events)
    <2>1. 1 \in 1..(Len(form) + 1) /\ 0 <= 0
        BY <1>2
    <2> QED BY <1>3, <1>4, <1>5, <2>1 DEF MultipartInit, InHeaders
<1>7. fed \in 0..Len(body) /\ window \in Seq(Unit) /\ dropped \in Nat
    BY <1>2, EmptySeq DEF MultipartInit
<1> QED BY <1>1, <1>6, <1>7 DEF FormTold, Somewhere

\* The last look leaves a buffer of bytes.
LEMMA NoMoreIsTyped ==
    ASSUME window \in Seq(Unit), NoMore
    PROVE  window' \in Seq(Unit)
<1>1. window' = Processed(window).buffer \/ window' = <<>>
    BY DEF NoMore, Becomes, Look
<1> QED BY <1>1, LookIsTyped, EmptySeq

\* A story has no end of its own.
LEMMA StillGoing ==
    ASSUME NEW ev, HasStory(ev)
    PROVE  ev \in Seq(EventSet) /\ ~(ev # <<>> /\ Last(ev).status = "Completed")
<1>1. PICK p, d : Story(ev, p, d, FALSE)
    BY DEF HasStory
<1>2. ev \in Seq(EventSet) /\ \A i \in DOMAIN ev : ev[i].status # "Completed"
    BY <1>1 DEF Story, InOrder
<1>3. ASSUME ev # <<>> PROVE Last(ev).status # "Completed"
    <2>1. Len(ev) \in DOMAIN ev
        <3>1. Len(ev) \in Nat /\ DOMAIN ev = 1..Len(ev) /\ Len(ev) # 0
            BY <1>2, <1>3, LenProperties, EmptySeq
        <3> QED BY <3>1
    <2> QED BY <1>2, <2>1 DEF Last
<1> QED BY <1>2, <1>3

\* The last look ends the story, or takes it one piece further.
LEMMA NoMoreStep ==
    ASSUME FormTold, NoMore, fed = Len(body), UNCHANGED <<form, body, fed, dropped>>
    PROVE  FormTold'
<1>1. FormIs /\ fed \in 0..Len(body) /\ window \in Seq(Unit) /\ dropped \in Nat
    BY DEF FormTold
<1>2. body \in Seq(Unit) /\ Len(body) \in Nat
    BY <1>1, PartsAreAt, LenProperties
<1>3. FormIs'
    <2>1. FormBytes' = FormBytes
        BY DEF FormBytes, PartBytes, HeadOf, PartData, Break, Delimiter
    <2> QED BY <1>1, <2>1 DEF FormIs
<1>4. fed' \in 0..Len(body') /\ window' \in Seq(Unit) /\ dropped' \in Nat
    BY <1>1, NoMoreIsTyped
<1>5. PICK look : look = Processed(window)
    OBVIOUS
<1>6. CASE dropped = 0 /\ Somewhere(fed, window, parsingHeaders, partName, partStarted, events)
    <2>1. LooksRight(look, fed)
        <3>1. SubSeq(body, fed + 1, fed) = <<>>
            BY <1>1, SubSeqEmpty
        <3>2. window \o SubSeq(body, fed + 1, fed) = window
            BY <1>1, <3>1, ConcatEmptySeq
        <3>3. fed \in Nat /\ fed \in fed..Len(body)
            BY <1>2
        <3> QED BY <1>1, <1>5, <1>6, <3>2, <3>3, LookIsRight
    <2>2. PICK ev : ev = events \o look.told
        OBVIOUS
    <2>3. HasStory(ev)
        BY <1>1, <2>1, <2>2, SomewhereInAStory DEF LooksRight
    <2>4. ~Ended
        <3>1. HasStory(events)
            BY <1>1, <1>6, SomewhereInAStory
        <3> QED BY <3>1, StillGoing DEF Ended
    <2>5. CASE Becomes(look) /\ events' = events \o look.told
        <3>1. Somewhere(fed', window', parsingHeaders', partName', partStarted', events')
            BY <2>1, <2>5 DEF LooksRight, Becomes
        <3>2. Somewhere(fed, window, parsingHeaders, partName, partStarted, events)'
            BY <3>1, SamePlaces
        <3> QED BY <1>3, <1>4, <3>2 DEF FormTold
    <2>6. CASE /\ Becomes(Look(<<>>, TRUE, 0, FALSE, <<>>))
               /\ events' = events \o look.told \o <<TheEnd>>
        <3>1. HasStory(ev)'
            BY <2>3, SameStory
        <3>2. events' = ev \o <<TheEnd>>
            BY <2>2, <2>6
        <3>3. window' = <<>> /\ parsingHeaders' = TRUE /\ fed' = Len(body')
            BY <2>6 DEF Becomes, Look
        <3>4. AllTold'
            BY <3>1, <3>2, <3>3 DEF AllTold, TheEnd, Event
        <3> QED BY <1>3, <1>4, <3>4 DEF FormTold
    <2> QED BY <1>5, <2>4, <2>5, <2>6 DEF NoMore, TheEnd
<1>7. CASE dropped = 0 /\ AllTold
    <2>1. window = <<>> /\ parsingHeaders = TRUE
        BY <1>7 DEF AllTold
    <2>2. look.told = <<>>
        <3>1. window \in Seq(Unit) /\ Len(window) = 0
            BY <2>1, EmptySeq
        <3>2. \A i \in 1..Len(window) : window[i] # Break
            BY <3>1
        <3>3. ~Headed(window).found
            BY <3>1, <3>2, NotHeaded
        <3> QED BY <1>5, <2>1, <3>3 DEF Processed, Look
    <2>3. PICK ev : HasStory(ev) /\ events = ev \o <<TheEnd>>
        BY <1>7 DEF AllTold
    <2>4. Ended
        <3>1. ev \in Seq(EventSet) /\ TheEnd \in EventSet
            BY <2>3, StillGoing, EmptySeq DEF TheEnd, Event, EventSet
        <3>2. events = Append(ev, TheEnd)
            BY <2>3, <3>1, AppendIsConcat
        <3>3. events # <<>> /\ Len(events) = Len(ev) + 1 /\ events[Len(ev) + 1] = TheEnd
            BY <3>1, <3>2, AppendProperties
        <3> QED BY <3>3 DEF Ended, Last, TheEnd, Event
    <2>5. Becomes(Look(<<>>, TRUE, 0, FALSE, <<>>)) /\ events' = events
        BY <1>5, <2>2, <2>4 DEF NoMore
    <2>6. HasStory(ev)'
        BY <2>3, SameStory
    <2>7. window' = <<>> /\ parsingHeaders' = TRUE /\ fed' = Len(body')
        BY <2>5 DEF Becomes, Look
    <2>8. AllTold'
        BY <2>3, <2>5, <2>6, <2>7 DEF AllTold, TheEnd, Event
    <2> QED BY <1>3, <1>4, <2>8 DEF FormTold
<1>8. CASE dropped # 0
    BY <1>3, <1>4, <1>8 DEF FormTold
<1> QED BY <1>6, <1>7, <1>8 DEF FormTold

\* A piece of the body takes the handler from one of its places to another.
LEMMA BodyChunkStep ==
    ASSUME FormTold, BodyChunk
    PROVE  FormTold'
<1>1. FormIs /\ fed \in 0..Len(body) /\ window \in Seq(Unit) /\ dropped \in Nat
    BY DEF FormTold
<1>2. body \in Seq(Unit) /\ Len(body) \in Nat /\ Len(window) \in Nat /\ fed \in Nat
    BY <1>1, PartsAreAt, LenProperties
<1>3. form' = form /\ body' = body
    BY DEF BodyChunk
<1>4. FormIs'
    <2>1. FormBytes' = FormBytes
        BY <1>3 DEF FormBytes, PartBytes, HeadOf, PartData, Break, Delimiter
    <2> QED BY <1>1, <1>3, <2>1 DEF FormIs
<1>5. PICK length \in 1..MaxPart :
        LET stored == IF Len(window) + length > Room THEN Room - Len(window) ELSE length
            look == Processed(window \o SubSeq(body, fed + 1, fed + stored))
        IN  /\ fed + length <= Len(body)
            /\ fed' = fed + length /\ dropped' = dropped + length - stored
            /\ IF stored = 0 THEN NoMore
               ELSE /\ Becomes(look) /\ events' = events \o look.told
                    /\ answered' \in IF look.told = <<>> THEN {FALSE} ELSE BOOLEAN
    BY DEF BodyChunk
<1>6. PICK stored : stored = IF Len(window) + length > Room THEN Room - Len(window) ELSE length
    OBVIOUS
<1>7. PICK piece : piece = SubSeq(body, fed + 1, fed + stored)
    OBVIOUS
<1>8. PICK look : look = Processed(window \o piece)
    OBVIOUS
<1>9. /\ fed + length <= Len(body)
      /\ fed' = fed + length /\ dropped' = dropped + length - stored
      /\ IF stored = 0 THEN NoMore ELSE Becomes(look) /\ events' = events \o look.told
    BY <1>5, <1>6, <1>7, <1>8
<1>10. /\ length \in Nat \ {0} /\ stored \in Int /\ stored <= length
       /\ fed' \in 0..Len(body') /\ dropped' \in Nat
       /\ dropped' = 0 => dropped = 0 /\ stored = length
    <2>1. length \in Nat \ {0} /\ Room \in Nat
        BY FormsAssumption
    <2>2. stored \in Int /\ stored <= length
        BY <1>2, <1>6, <2>1
    <2> QED BY <1>1, <1>2, <1>3, <1>9, <2>1, <2>2
<1>11. window' \in Seq(Unit)
    <2>1. piece \in Seq(Unit)
        <3>1. CASE stored >= 0
            <4>1. fed + 1 \in Nat \ {0} /\ fed + stored \in 0..Len(body)
                BY <1>2, <1>9, <1>10, <3>1
            <4> QED BY <1>2, <1>7, <4>1, PartIs
        <3>2. CASE ~(stored >= 0)
            <4>1. fed + 1 \in Int /\ fed + stored \in Int /\ fed + stored < fed + 1
                BY <1>2, <1>10, <3>2
            <4> QED BY <1>7, <4>1, SubSeqEmpty, EmptySeq
        <3> QED BY <3>1, <3>2
    <2>2. window \o piece \in Seq(Unit)
        BY <1>1, <2>1, ConcatProperties
    <2>3. CASE stored = 0
        BY <1>1, <1>9, <2>3, NoMoreIsTyped
    <2>4. CASE stored # 0
        <3>1. window' = look.buffer
            BY <1>9, <2>4 DEF Becomes
        <3> QED BY <1>8, <2>2, <3>1, LookIsTyped
    <2> QED BY <2>3, <2>4
<1>12. ASSUME dropped' = 0
       PROVE  Somewhere(fed, window, parsingHeaders, partName, partStarted, events)'
    <2>1. dropped = 0 /\ stored = length /\ stored # 0
        BY <1>10, <1>12
    <2>2. ~AllTold
        BY <1>2, <1>9, <1>10 DEF AllTold
    <2>3. Somewhere(fed, window, parsingHeaders, partName, partStarted, events)
        BY <2>1, <2>2 DEF FormTold
    <2>4. PICK f : f = fed + length
        OBVIOUS
    <2>5. f \in fed..Len(body)
        BY <1>2, <1>9, <1>10, <2>4
    <2>6. LooksRight(look, f)
        <3>1. piece = SubSeq(body, fed + 1, f)
            BY <1>7, <2>1, <2>4
        <3> QED BY <1>1, <1>2, <1>8, <2>3, <2>5, <3>1, LookIsRight
    <2>7. Somewhere(fed', window', parsingHeaders', partName', partStarted', events')
        BY <1>9, <2>1, <2>4, <2>6 DEF LooksRight, Becomes
    <2> QED BY <1>3, <2>7, SamePlaces
<1> QED BY <1>4, <1>10, <1>11, <1>12 DEF FormTold

\* So does every step.
LEMMA FormNext == FormTold /\ [MultipartNext]_multipartVars => FormTold'
<1> SUFFICES ASSUME FormTold, [MultipartNext]_multipartVars PROVE FormTold'
    OBVIOUS
<1>1. CASE BodyChunk
    BY <1>1, BodyChunkStep
<1>2. CASE EndOfMessage
    BY <1>2, NoMoreStep DEF EndOfMessage
<1>3. CASE UNCHANGED multipartVars
    <2>1. form' = form /\ body' = body
        BY <1>3 DEF multipartVars
    <2>2. FormIs'
        <3>1. FormBytes' = FormBytes
            BY <2>1 DEF FormBytes, PartBytes, HeadOf, PartData, Break, Delimiter
        <3> QED BY <2>1, <3>1 DEF FormTold, FormIs
    <2>3. fed' \in 0..Len(body') /\ window' \in Seq(Unit) /\ dropped' \in Nat
        BY <1>3 DEF FormTold, multipartVars
    <2>4. CASE dropped = 0 /\ Somewhere(fed, window, parsingHeaders, partName, partStarted, events)
        <3>1. Somewhere(fed', window', parsingHeaders', partName', partStarted', events')
            BY <1>3, <2>4 DEF multipartVars
        <3>2. Somewhere(fed, window, parsingHeaders, partName, partStarted, events)'
            BY <2>1, <3>1, SamePlaces
        <3> QED BY <2>2, <2>3, <3>2 DEF FormTold
    <2>5. CASE AllTold
        <3>1. PICK ev : HasStory(ev) /\ events = ev \o <<TheEnd>>
            BY <2>5 DEF AllTold
        <3>2. HasStory(ev)'
            BY <2>1, <3>1, SameStory
        <3>3. AllTold'
            BY <1>3, <2>5, <3>1, <3>2 DEF AllTold, multipartVars, TheEnd, Event
        <3> QED BY <2>2, <2>3, <3>3 DEF FormTold
    <2>6. CASE dropped # 0
        BY <1>3, <2>2, <2>3, <2>6 DEF FormTold, multipartVars
    <2> QED BY <2>4, <2>5, <2>6 DEF FormTold
<1> QED BY <1>1, <1>2, <1>3 DEF MultipartNext

\* What a story says of the parts, with its end or without
LEMMA GenuineIs ==
    ASSUME FormIs, NEW ev, HasStory(ev), events = ev \/ events = ev \o <<TheEnd>>
    PROVE  /\ \A p \in DOMAIN form :
                /\ IsPrefix(Told(p), PartData(p))
                /\ \A i \in EventsOf(p) :
                    /\ events[i].status = "First" <=> \A j \in EventsOf(p) : i <= j
                    /\ events[i].status = "Final" =>
                        Told(p) = PartData(p) /\ \A j \in EventsOf(p) : j <= i
           /\ \A i, j \in DOMAIN events :
                i < j /\ events[j].part # 0 /\ events[i].part # events[j].part =>
                    events[i].part < events[j].part /\ Told(events[i].part) = PartData(events[i].part)
<1>1. PICK r \in 1..(Len(form) + 1) : \E d :
        (r <= Len(form) => d \in 0..form[r].size) /\ Story(ev, r, d, FALSE)
    BY DEF HasStory
<1>2. PICK d : (r <= Len(form) => d \in 0..form[r].size) /\ Story(ev, r, d, FALSE)
    BY <1>1
<1>3. /\ ev \in Seq(EventSet) /\ InOrder(ev, r) /\ WithFirst(ev) /\ WithFinal(ev, r, FALSE)
      /\ AllBytes(ev, r, d)
    BY <1>2 DEF Story
<1>4. PICK N \in Nat : N = Len(form)
    BY PartsAreAt
<1>5. DOMAIN form = 1..N /\ r \in 1..(N + 1)
    BY <1>1, <1>4, PartsAreAt
<1>6. PICK K \in Nat : K = Len(ev)
    BY <1>3, LenProperties
<1>7. DOMAIN ev = 1..K
    BY <1>3, <1>6, LenProperties
<1>8. TheEnd \in EventSet /\ TheEnd.part = 0
    BY EmptySeq DEF TheEnd, Event, EventSet
<1>9. \A p \in 1..N : EventsOf(p) = EventsIn(ev, p) /\ Told(p) = ToldIn(ev, p)
    <2> TAKE p \in 1..N
    <2>1. EventsOf(p) = EventsIn(events, p) /\ Told(p) = ToldIn(events, p)
        BY TheseAreTold
    <2>2. CASE events = ev
        BY <2>1, <2>2
    <2>3. CASE events = ev \o <<TheEnd>>
        <3>1. events = Append(ev, TheEnd)
            BY <1>3, <1>8, <2>3, AppendIsConcat
        <3>2. ToldMore(ev, TheEnd, p)
            BY <1>3, <1>8, OneMore
        <3>3. TheEnd.part # p
            BY <1>8
        <3>4. PieceIn(TheEnd, p) = <<>>
            BY <3>3 DEF PieceIn
        <3>5. ToldIn(ev, p) \in Seq(Unit) /\ ToldIn(events, p) = ToldIn(ev, p) \o <<>>
              /\ EventsIn(events, p) = EventsIn(ev, p)
            BY <3>1, <3>2, <3>3, <3>4 DEF ToldMore
        <3> QED BY <2>1, <3>5, ConcatEmptySeq
    <2> QED BY <2>2, <2>3
<1>10. \A i \in DOMAIN events :
            /\ i \in Nat
            /\ (i \in 1..K /\ events[i] = ev[i]) \/ (i = K + 1 /\ events[i].part = 0)
    <2>1. CASE events = ev
        BY <1>7, <2>1
    <2>2. CASE events = ev \o <<TheEnd>>
        <3>1. events = Append(ev, TheEnd)
            BY <1>3, <1>8, <2>2, AppendIsConcat
        <3>2. /\ events \in Seq(EventSet) /\ Len(events) = K + 1 /\ events[K + 1] = TheEnd
              /\ \A i \in 1..K : events[i] = ev[i]
            BY <1>3, <1>6, <1>8, <3>1, AppendProperties
        <3>3. DOMAIN events = 1..(K + 1) /\ \A i \in 1..(K + 1) : i \in Nat /\ (i \in 1..K \/ i = K + 1)
            BY <3>2, LenProperties
        <3> QED BY <1>8, <3>2, <3>3
    <2> QED BY <2>1, <2>2
<1>11. \A i \in 1..K : events[i] = ev[i]
    <2>1. CASE events = ev
        BY <2>1
    <2>2. CASE events = ev \o <<TheEnd>>
        <3>1. events = Append(ev, TheEnd)
            BY <1>3, <1>8, <2>2, AppendIsConcat
        <3> QED BY <1>3, <1>6, <1>8, <3>1, AppendProperties
    <2> QED BY <2>1, <2>2
<1>12. \A i \in 1..K : ev[i].part \in 1..r
    BY <1>3, <1>7 DEF InOrder
<1>13. ASSUME NEW p \in 1..N PROVE IsPrefix(Told(p), PartData(p))
    <2>1. PICK c : c = PartData(p)
        OBVIOUS
    <2>2. c \in Seq(Unit) /\ Len(c) = form[p].size /\ Len(c) \in Nat
        BY <1>4, <1>13, <2>1, DataIs, LenProperties
    <2>3. \A b \in 0..Len(c) : IsPrefix(SubSeq(c, 1, b), c)
        <3> TAKE b \in 0..Len(c)
        <3>1. PICK u : u = SubSeq(c, 1, b)
            OBVIOUS
        <3>2. u \in Seq(Unit) /\ Len(u) = b /\ b <= Len(c)
            BY <2>2, <3>1, FirstIs
        <3>3. SubSeq(u, 1, Len(u)) = u
            BY <3>2, SubSeqFull
        <3> QED BY <3>1, <3>2, <3>3 DEF IsPrefix
    <2>4. Told(p) = ToldIn(ev, p) /\ p \in Nat
        BY <1>9
    <2>5. CASE EventsIn(ev, p) = {}
        <3>1. ToldIn(ev, p) = <<>>
            BY <1>3, <2>4, <2>5 DEF AllBytes
        <3>2. SubSeq(c, 1, 0) = <<>> /\ 0 \in 0..Len(c)
            BY <2>2, SubSeqEmpty
        <3>3. IsPrefix(<<>>, c)
            BY <2>3, <3>2
        <3> QED BY <2>1, <2>4, <3>1, <3>3
    <2>6. CASE EventsIn(ev, p) # {}
        <3>1. PICK i \in 1..K : ev[i].part = p
            BY <1>7, <2>6 DEF EventsIn
        <3>2. p < r \/ p = r
            BY <1>5, <1>12, <3>1
        <3>3. CASE p < r
            <4>1. ToldIn(ev, p) = c
                BY <1>3, <1>7, <2>1, <3>1, <3>3 DEF AllBytes
            <4>2. SubSeq(c, 1, Len(c)) = c /\ Len(c) \in 0..Len(c)
                BY <2>2, SubSeqFull
            <4>3. IsPrefix(c, c)
                BY <2>3, <4>2
            <4> QED BY <2>1, <2>4, <4>1, <4>3
        <3>4. CASE p = r
            <4>1. ToldIn(ev, p) = SubSeq(c, 1, d)
                BY <1>3, <2>1, <2>6, <3>4 DEF AllBytes
            <4>2. d \in 0..Len(c)
                BY <1>2, <1>4, <1>13, <2>2, <3>4
            <4>3. IsPrefix(SubSeq(c, 1, d), c)
                BY <2>3, <4>2
            <4> QED BY <2>1, <2>4, <4>1, <4>3
        <3> QED BY <3>2, <3>3, <3>4
    <2> QED BY <2>5, <2>6
<1>14. ASSUME NEW p \in 1..N, NEW i \in EventsOf(p)
       PROVE  /\ events[i].status = "First" <=> \A j \in EventsOf(p) : i <= j
              /\ events[i].status = "Final" =>
                    Told(p) = PartData(p) /\ \A j \in EventsOf(p) : j <= i
    <2>1. EventsOf(p) = EventsIn(ev, p) /\ Told(p) = ToldIn(ev, p)
        BY <1>9
    <2>2. i \in DOMAIN ev /\ ev[i].part = p /\ events[i] = ev[i]
        BY <1>7, <1>11, <2>1 DEF EventsIn
    <2>3. events[i].status = "First" <=> \A j \in EventsOf(p) : i <= j
        BY <1>3, <2>1, <2>2 DEF WithFirst
    <2>4. ASSUME events[i].status = "Final"
          PROVE  Told(p) = PartData(p) /\ \A j \in EventsOf(p) : j <= i
        <3>1. p < r /\ \A j \in EventsIn(ev, p) : j <= i
            BY <1>3, <2>2, <2>4 DEF WithFinal
        <3>2. ToldIn(ev, p) = PartData(p)
            BY <1>3, <2>2, <3>1 DEF AllBytes
        <3> QED BY <2>1, <3>1, <3>2
    <2> QED BY <2>3, <2>4
<1>15. ASSUME NEW i \in DOMAIN events, NEW j \in DOMAIN events,
              i < j, events[j].part # 0, events[i].part # events[j].part
       PROVE  events[i].part < events[j].part /\ Told(events[i].part) = PartData(events[i].part)
    <2>1. j \in 1..K /\ events[j] = ev[j]
        BY <1>10, <1>15
    <2>2. i \in 1..K /\ events[i] = ev[i]
        <3>1. i # K + 1
            BY <1>15, <2>1
        <3> QED BY <1>10, <3>1
    <2>3. ev[i].part \in 1..r /\ ev[j].part \in 1..r /\ ev[i].part <= ev[j].part
        BY <1>3, <1>7, <1>12, <1>15, <2>1, <2>2 DEF InOrder
    <2>4. PICK p \in 1..r : p = ev[i].part
        BY <2>3
    <2>5. PICK q \in 1..r : q = ev[j].part
        BY <2>3
    <2>6. p < q /\ p < r /\ p \in 1..N
        <3>1. p <= q /\ p # q
            BY <1>15, <2>1, <2>2, <2>3, <2>4, <2>5
        <3>2. r \in Nat /\ r <= N + 1
            BY <1>5
        <3> QED BY <3>1, <3>2
    <2>7. ToldIn(ev, p) = PartData(p)
        BY <1>3, <1>7, <2>2, <2>4, <2>6 DEF AllBytes
    <2>8. Told(p) = ToldIn(ev, p)
        BY <1>9, <2>6
    <2> QED BY <2>1, <2>2, <2>4, <2>5, <2>6, <2>7, <2>8
<1> QED BY <1>5, <1>13, <1>14, <1>15

\* Of these stories the property is true.
LEMMA GenuineWhenTold == FormTold => PartsAreGenuine
<1> SUFFICES ASSUME FormTold, dropped = 0 PROVE PartsAreGenuine
    BY DEF PartsAreGenuine
<1>1. FormIs
    BY DEF FormTold
<1>2. \E ev : HasStory(ev) /\ (events = ev \/ events = ev \o <<TheEnd>>)
    <2>1. CASE Somewhere(fed, window, parsingHeaders, partName, partStarted, events)
        <3>1. HasStory(events)
            BY <1>1, <2>1, SomewhereInAStory
        <3> QED BY <3>1
    <2>2. CASE AllTold
        BY <2>2 DEF AllTold
    <2> QED BY <2>1, <2>2 DEF FormTold
<1>3. PICK ev : HasStory(ev) /\ (events = ev \/ events = ev \o <<TheEnd>>)
    BY <1>2
<1> QED BY <1>1, <1>3, GenuineIs DEF PartsAreGenuine

\* Of every form, in a buffer of any size and from pieces of any size: as long as nothing was
\* dropped for want of room, MultipartFormDataHandler hands over the data of each named part
\* whole, in order, and without a byte of a delimiter or of another part.
THEOREM FormsAreReadRight == MultipartSpec => []PartsAreGenuine
<1>1. MultipartInit => FormTold
    BY FormInit
<1>2. FormTold /\ [MultipartNext]_multipartVars => FormTold'
    BY FormNext
<1>3. FormTold => PartsAreGenuine
    BY GenuineWhenTold
<1> QED BY <1>1, <1>2, <1>3, PTL DEF MultipartSpec
=============================================================================
