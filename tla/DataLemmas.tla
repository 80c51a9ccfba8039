----------------------------- MODULE DataLemmas -----------------------------
(***************************************************************************)
(* What the proofs about several components need of numbers and sequences.   *)
(*                                                                           *)
(* Induction over the numbers is stated for a set of them, not for a          *)
(* predicate: a proof defines the set of the numbers that have a property.    *)
(***************************************************************************)
EXTENDS Integers, SequencesExt, SequenceTheorems, WellFoundedInduction, TLAPS

\* The numbers have a least one in every set of them.
LEMMA LeastNumber ==
    ASSUME NEW T, T \subseteq Nat, T # {}
    PROVE  \E x \in T : \A y \in T : x <= y
<1>1. PICK x \in T : \A y \in T : ~ (<<y, x>> \in OpToRel(<, Nat))
    <2>1. IsWellFoundedOn(OpToRel(<, Nat), Nat)
        BY NatLessThanWellFounded
    <2> QED BY <2>1, WFMin
<1>2. x \in Nat /\ \A y \in T : y \in Nat /\ ~(y < x)
    BY <1>1 DEF OpToRel
<1>3. \A y \in T : x <= y
    BY <1>2
<1> QED
    BY <1>3

\* A set that has zero, and with a number the next one, has them all.
LEMMA Counting ==
    ASSUME NEW S, 0 \in S, \A n \in Nat : n \in S => n + 1 \in S
    PROVE  \A n \in Nat : n \in S
<1> DEFINE T == Nat \ S
<1> SUFFICES ASSUME T # {} PROVE FALSE
    OBVIOUS
<1>1. PICK x \in T : \A y \in T : x <= y
    BY LeastNumber
<1>2. x # 0 /\ x \in Nat
    OBVIOUS
<1>3. x - 1 \in Nat /\ x - 1 \notin T
    BY <1>1, <1>2
<1> QED
    BY <1>2, <1>3

\* The least of some numbers is one of them.
LEMMA LeastIs ==
    ASSUME NEW s \in SUBSET Nat, s # {}
    PROVE  Min(s) \in s
<1>1. PICK x \in s : \A y \in s : x <= y
    BY LeastNumber
<1> QED BY <1>1 DEF Min

\* It is the one that is least.
LEMMA LeastIsOne ==
    ASSUME NEW s, s \subseteq Nat, NEW x \in s, \A y \in s : x <= y
    PROVE  Min(s) = x
<1>1. \A z \in s : (\A y \in s : z <= y) => z = x
    <2> TAKE z \in s
    <2> HAVE \A y \in s : z <= y
    <2>1. z <= x /\ x <= z /\ z \in Nat /\ x \in Nat
        OBVIOUS
    <2> QED BY <2>1
<1> QED BY <1>1 DEF Min

\* The greatest of some of the first n numbers, if n is one of them
LEMMA GreatestIs ==
    ASSUME NEW n \in Nat, NEW s, s \subseteq 1..n, n \in s
    PROVE  Max(s) = n
<1>1. \A y \in s : n >= y
    OBVIOUS
<1>2. \A x \in s : (\A y \in s : x >= y) => x = n
    OBVIOUS
<1>3. \E x \in s : \A y \in s : x >= y
    BY <1>1
<1>4. Max(s) \in s /\ \A y \in s : Max(s) >= y
    BY <1>3 DEF Max
<1> QED
    BY <1>2, <1>4

LEMMA GreatestIsOne ==
    ASSUME NEW n \in Nat, NEW s, s \subseteq 1..n, s # {}
    PROVE  Max(s) \in s
<1> DEFINE T == {n - y : y \in s}
<1>1. T \subseteq Nat /\ T # {}
    <2>1. \A y \in s : y \in 1..n
        OBVIOUS
    <2>2. \A y \in s : n - y \in Nat
        BY <2>1
    <2>3. T \subseteq Nat
        BY <2>2
    <2>4. T # {}
        OBVIOUS
    <2> QED BY <2>3, <2>4
<1>2. PICK t \in T : \A u \in T : t <= u
    <2> HIDE DEF T
    <2> QED BY <1>1, LeastNumber
<1>3. PICK x \in s : t = n - x
    OBVIOUS
<1>4. \A y \in s : n - x <= n - y
    BY <1>2, <1>3
<1>5. \A y \in s : x >= y
    BY <1>4
<1> QED
    BY <1>5 DEF Max

-----------------------------------------------------------------------------
(* Parts of a sequence *)

\* A part that ends before the appended bytes does not change.
LEMMA PartBefore ==
    ASSUME NEW s \in Seq(Nat), NEW p \in Seq(Nat), NEW a \in Nat, NEW b \in Nat, b <= Len(s)
    PROVE  SubSeq(s \o p, a + 1, b) = SubSeq(s, a + 1, b)
<1>1. \A i \in a + 1..b : (s \o p)[i] = s[i]
    BY ConcatProperties
<1> QED BY <1>1

\* What is appended to a text is appended to its part from some place to its end.
LEMMA PartToTheEnd ==
    ASSUME NEW s \in Seq(Nat), NEW p \in Seq(Nat), NEW a \in 0..Len(s)
    PROVE  SubSeq(s \o p, a + 1, Len(s) + Len(p)) = SubSeq(s, a + 1, Len(s)) \o p
<1> DEFINE t == s \o p
           n == Len(s) + Len(p)
<1>1. Len(s) \in Nat /\ Len(p) \in Nat /\ a \in Nat /\ a <= Len(s)
    OBVIOUS
<1>2. t \in Seq(Nat) /\ Len(t) = n
    OBVIOUS
<1>3. SubSeq(t, a + 1, Len(s)) \o SubSeq(t, Len(s) + 1, n) = SubSeq(t, a + 1, n)
    <2>1. a + 1 \in 1..Len(t) + 1 /\ Len(s) \in (a + 1) - 1..Len(t) /\ n \in Len(s)..Len(t)
        BY <1>1, <1>2
    <2> HIDE DEF t, n
    <2> QED BY <1>2, <2>1, ConcatAdjacentSubSeq, Zenon
<1>4. SubSeq(t, a + 1, Len(s)) = SubSeq(s, a + 1, Len(s))
    BY <1>1, PartBefore
<1>5. SubSeq(t, Len(s) + 1, n) = p
    <2>1. CASE Len(p) = 0
        BY <1>1, <2>1
    <2>2. CASE Len(p) > 0
        <3>1. SubSeq(t, Len(s) + 1, n) = SubSeq(p, 1, Len(p))
            BY <1>1, <2>2, SubSeqOfConcat2
        <3> QED BY <3>1, SubSeqFull
    <2> QED BY <1>1, <2>1, <2>2
<1> QED BY <1>3, <1>4, <1>5

\* A part of no length is empty.
LEMMA NoPart ==
    ASSUME NEW s \in Seq(Nat), NEW a \in Nat
    PROVE  SubSeq(s, a + 1, a) = <<>>
OBVIOUS

\* What is in a part of a sequence
LEMMA PartIs ==
    ASSUME NEW S, NEW t \in Seq(S), NEW a \in Nat \ {0}, NEW b \in 0..Len(t)
    PROVE  /\ SubSeq(t, a, b) \in Seq(S) /\ Len(t) \in Nat
           /\ Len(SubSeq(t, a, b)) = IF a <= b THEN b - a + 1 ELSE 0
           /\ \A i \in 1..(b - a + 1) : SubSeq(t, a, b)[i] = t[a + i - 1]
<1>1. Len(t) \in Nat
    BY LenProperties
<1>2. a \in Int /\ b \in Int /\ \A i \in a..b : i \in 1..Len(t)
    BY <1>1
<1>3. \A i \in a..b : t[i] \in S
    BY <1>2, ElementOfSeq
<1>4. /\ SubSeq(t, a, b) \in Seq(S)
      /\ Len(SubSeq(t, a, b)) = IF a <= b THEN b - a + 1 ELSE 0
      /\ \A i \in 1..(b - a + 1) : SubSeq(t, a, b)[i] = t[a + i - 1]
    BY <1>2, <1>3, SubSeqProperties
<1> QED BY <1>1, <1>4

\* What a reader has got of a text after b bytes
LEMMA FirstIs ==
    ASSUME NEW S, NEW t \in Seq(S), NEW b \in 0..Len(t)
    PROVE  /\ SubSeq(t, 1, b) \in Seq(S) /\ Len(SubSeq(t, 1, b)) = b /\ b \in Nat /\ Len(t) \in Nat
           /\ \A i \in 1..b : SubSeq(t, 1, b)[i] = t[i]
<1> DEFINE u == SubSeq(t, 1, b)
<1>1. /\ u \in Seq(S) /\ Len(t) \in Nat /\ Len(u) = (IF 1 <= b THEN b - 1 + 1 ELSE 0)
      /\ \A i \in 1..(b - 1 + 1) : u[i] = t[1 + i - 1]
    BY PartIs
<1>2. b \in Nat
    BY <1>1
<1>3. \A i \in 1..b : i \in 1..(b - 1 + 1) /\ 1 + i - 1 = i
    BY <1>2
<1> HIDE DEF u
<1> QED BY <1>1, <1>2, <1>3 DEF u

\* Of three sequences the first two are joined first, or the last two.
Grouped(u, v, w) == (u \o v) \o w = u \o (v \o w)

LEMMA Regrouped ==
    ASSUME NEW S, NEW u \in Seq(S), NEW v \in Seq(S), NEW w \in Seq(S)
    PROVE  Grouped(u, v, w)
BY DEF Grouped

\* A part of a part is a part.
LEMMA PartOfPart ==
    ASSUME NEW S, NEW t \in Seq(S), NEW b \in 0..Len(t), NEW a \in 1..(b + 1),
           NEW m \in 1..(b - a + 2), NEW n \in (m - 1)..(b - a + 1)
    PROVE  SubSeq(SubSeq(t, a, b), m, n) = SubSeq(t, a + m - 1, a + n - 1)
<1>0. Len(t) \in Nat
    BY LenProperties
<1>1. CASE m \in 1..(b - a + 1) /\ n \in 1..(b - a + 1)
    <2>1. a \in 1..Len(t) /\ b \in 1..Len(t)
        BY <1>0, <1>1
    <2> QED BY <1>1, <2>1, SubSeqOfSubSeq
<1>2. CASE ~(m \in 1..(b - a + 1) /\ n \in 1..(b - a + 1))
    <2>1. n < m /\ a + n - 1 < a + m - 1 /\ m \in Int /\ n \in Int
          /\ a + n - 1 \in Int /\ a + m - 1 \in Int
        BY <1>0, <1>2
    <2>2. SubSeq(SubSeq(t, a, b), m, n) = <<>>
        BY <2>1, SubSeqEmpty
    <2>3. SubSeq(t, a + m - 1, a + n - 1) = <<>>
        BY <2>1, SubSeqEmpty
    <2> QED BY <2>2, <2>3
<1> QED BY <1>1, <1>2

\* Adjacent parts make one part.
LEMMA Join ==
    ASSUME NEW S, NEW t \in Seq(S), NEW a \in Nat \ {0}, NEW m \in (a - 1)..Len(t), NEW b \in m..Len(t)
    PROVE  SubSeq(t, a, m) \o SubSeq(t, m + 1, b) = SubSeq(t, a, b)
<1>1. Len(t) \in Nat /\ a \in 1..(Len(t) + 1)
    BY LenProperties
<1> QED BY <1>1, ConcatAdjacentSubSeq

\* What is where when a sequence is turned round
LEMMA Reversed ==
    ASSUME NEW v \in Seq(Nat)
    PROVE  /\ Reverse(v) \in Seq(Nat) /\ Len(Reverse(v)) = Len(v)
           /\ \A i \in 1..Len(v) : Reverse(v)[i] = v[Len(v) - i + 1]
<1>1. PICK n \in Nat : n = Len(v)
    BY LenProperties
<1>2. \A i \in 1..n : n - i + 1 \in 1..n
    BY <1>1
<1>3. \A i \in 1..n : v[n - i + 1] \in Nat
    BY <1>1, <1>2, ElementOfSeq
<1>4. Reverse(v) = [i \in 1..n |-> v[n - i + 1]]
    BY <1>1 DEF Reverse
<1>5. Reverse(v) \in [1..n -> Nat]
    BY <1>3, <1>4
<1>6. Reverse(v) \in Seq(Nat) /\ Len(Reverse(v)) = n
    BY <1>5
<1>7. \A i \in 1..n : Reverse(v)[i] = v[n - i + 1]
    BY <1>4
<1> QED BY <1>1, <1>6, <1>7

\* What ends with a text has it for a suffix.
LEMMA SuffixOfConcat ==
    ASSUME NEW s \in Seq(Nat), NEW u \in Seq(Nat)
    PROVE  IsSuffix(s, u \o s)
<1> DEFINE t == u \o s
           rs == Reverse(s)
           rt == Reverse(t)
<1>1. t \in Seq(Nat) /\ Len(t) = Len(u) + Len(s) /\ Len(s) \in Nat /\ Len(u) \in Nat
    OBVIOUS
<1>2. \A i \in 1..Len(s) : t[Len(t) - i + 1] = s[Len(s) - i + 1]
    BY <1>1, ConcatProperties
<1> HIDE DEF t
<1>3. rs \in Seq(Nat) /\ Len(rs) = Len(s) /\ \A i \in 1..Len(s) : rs[i] = s[Len(s) - i + 1]
    BY Reversed
<1>4. rt \in Seq(Nat) /\ Len(rt) = Len(t) /\ \A i \in 1..Len(t) : rt[i] = t[Len(t) - i + 1]
    BY <1>1, Reversed
<1>5. \A i \in 1..Len(s) : rs[i] = rt[i]
    BY <1>1, <1>2, <1>3, <1>4
<1> HIDE DEF rs, rt
<1>6. SubSeq(rs, 1, Len(s)) = SubSeq(rt, 1, Len(s))
    BY <1>1, <1>5, SMTT(30)
<1>7. IsPrefix(rs, rt)
    BY <1>1, <1>3, <1>4, <1>6 DEF IsPrefix
<1> QED BY <1>7 DEF IsSuffix, t, rs, rt

-----------------------------------------------------------------------------
(* Putting an element in its place *)

LEMMA InsertAtProperties ==
    ASSUME NEW S, NEW s \in Seq(S), NEW e \in S, NEW p \in 1..(Len(s) + 1)
    PROVE  /\ InsertAt(s, p, e) \in Seq(S)
           /\ Len(InsertAt(s, p, e)) = Len(s) + 1
           /\ \A i \in 1..(Len(s) + 1) :
                InsertAt(s, p, e)[i] = IF i < p THEN s[i] ELSE IF i = p THEN e ELSE s[i - 1]
<1> DEFINE before == SubSeq(s, 1, p - 1)
           one    == <<e>>
           behind == SubSeq(s, p, Len(s))
<1>1. /\ Len(s) \in Nat /\ p \in Int /\ p - 1 \in Int /\ Len(s) \in Int
      /\ \A i \in 1..Len(s) : s[i] \in S
  BY LenProperties, ElementOfSeq
<1>2. /\ before \in Seq(S) /\ Len(before) = p - 1
      /\ \A i \in 1..(p - 1) : before[i] = s[i]
  <2>1. \A i \in 1..(p - 1) : s[i] \in S
    BY <1>1
  <2>2. /\ before \in Seq(S)
        /\ Len(before) = IF 1 <= p - 1 THEN (p - 1) - 1 + 1 ELSE 0
        /\ \A i \in 1..((p - 1) - 1 + 1) : before[i] = s[1 + i - 1]
    BY <1>1, <2>1, SubSeqProperties
  <2> HIDE DEF before
  <2> QED
    BY <1>1, <2>2
<1>3. /\ one \in Seq(S) /\ Len(one) = 1 /\ one[1] = e
  OBVIOUS
<1>4. /\ behind \in Seq(S) /\ Len(behind) = Len(s) - p + 1
      /\ \A i \in 1..(Len(s) - p + 1) : behind[i] = s[p + i - 1]
  <2>1. \A i \in p..Len(s) : s[i] \in S
    BY <1>1
  <2>2. /\ behind \in Seq(S)
        /\ Len(behind) = IF p <= Len(s) THEN Len(s) - p + 1 ELSE 0
        /\ \A i \in 1..(Len(s) - p + 1) : behind[i] = s[p + i - 1]
    BY <1>1, <2>1, SubSeqProperties
  <2> HIDE DEF behind
  <2> QED
    BY <1>1, <2>2
<1>5. InsertAt(s, p, e) = (before \o one) \o behind
  BY DEF InsertAt
<1> HIDE DEF before, one, behind
<1>6. /\ before \o one \in Seq(S) /\ Len(before \o one) = p
      /\ \A i \in 1..p : (before \o one)[i] = IF i < p THEN s[i] ELSE e
  <2>1. /\ before \o one \in Seq(S) /\ Len(before \o one) = Len(before) + Len(one)
        /\ \A i \in 1..(Len(before) + Len(one)) :
            (before \o one)[i] = IF i <= Len(before) THEN before[i] ELSE one[i - Len(before)]
    BY <1>2, <1>3, ConcatProperties
  <2> QED
    BY <1>1, <1>2, <1>3, <2>1
<1> DEFINE front == before \o one
<1>7. /\ front \in Seq(S) /\ Len(front) = p
      /\ \A i \in 1..p : front[i] = IF i < p THEN s[i] ELSE e
      /\ InsertAt(s, p, e) = front \o behind
  BY <1>5, <1>6
<1> HIDE DEF front
<1>8. /\ front \o behind \in Seq(S) /\ Len(front \o behind) = Len(front) + Len(behind)
      /\ \A i \in 1..(Len(front) + Len(behind)) :
            (front \o behind)[i] = IF i <= Len(front) THEN front[i] ELSE behind[i - Len(front)]
  BY <1>4, <1>7, ConcatProperties
<1> QED
  BY <1>1, <1>4, <1>7, <1>8

-----------------------------------------------------------------------------
(* What is defined by recursion.  A step is given as a function, for there is no operator   *)
(* to be had as a parameter: F[<<k, v>>] is the k-th value, v the one before it.            *)

StaysIn(F, D) == \A k \in Nat, v \in D : F[<<k, v>>] \in D

Recursive(s, c, D, x, F) ==
    s \in [0..c -> D] /\ s[0] = x /\ \A k \in 1..c : s[k] = F[<<k, s[k - 1]>>]

LEMMA Recursion ==
    ASSUME NEW D, NEW x \in D, NEW F, StaysIn(F, D)
    PROVE  \A c \in Nat : \E s : Recursive(s, c, D, x, F)
<1> DEFINE Is(s, c) == s[0] = x /\ \A k \in 1..c : s[k] = F[<<k, s[k - 1]>>]
           N == {c \in Nat : \E s \in [0..c -> D] : Is(s, c)}
<1>1. 0 \in N
    <2> DEFINE s == [k \in 0..0 |-> x]
    <2>1. s \in [0..0 -> D] /\ Is(s, 0)
        OBVIOUS
    <2> QED BY <2>1
<1>2. ASSUME NEW c \in Nat, c \in N PROVE c + 1 \in N
    <2>1. PICK s \in [0..c -> D] : Is(s, c)
        BY <1>2
    <2> DEFINE t == [k \in 0..c + 1 |-> IF k = c + 1 THEN F[<<c + 1, s[c]>>] ELSE s[k]]
    <2>2. s[c] \in D /\ c + 1 \in Nat
        OBVIOUS
    <2>3. F[<<c + 1, s[c]>>] \in D
        BY <2>2 DEF StaysIn
    <2>4. t \in [0..c + 1 -> D]
        BY <2>3
    <2>5. t[0] = x /\ t[c + 1] = F[<<c + 1, s[c]>>] /\ \A k \in 0..c : t[k] = s[k]
        BY <2>1
    <2> HIDE DEF t
    <2>6. ASSUME NEW k \in 1..c + 1 PROVE t[k] = F[<<k, t[k - 1]>>]
        <3>1. CASE k = c + 1
            <4>1. t[k - 1] = s[c]
                BY <2>5, <3>1
            <4> QED BY <2>5, <3>1, <4>1
        <3>2. CASE k \in 1..c
            <4>1. t[k] = s[k] /\ t[k - 1] = s[k - 1]
                BY <2>5, <3>2
            <4> QED BY <2>1, <3>2, <4>1
        <3> QED BY <3>1, <3>2
    <2> QED BY <2>4, <2>5, <2>6
<1> HIDE DEF N
<1>3. \A c \in Nat : c \in N
    BY <1>1, <1>2, Counting
<1> QED BY <1>3 DEF N, Recursive

\* The same for the folds of sequences, which are defined on the sets of their places.
SetRecursive(f, n, D, x, F) ==
    /\ f \in [SUBSET (1..n) -> D]
    /\ \A s \in SUBSET (1..n) : f[s] = IF s = {} THEN x ELSE F[<<Max(s), f[s \ {Max(s)}]>>]

LEMMA SetRecursion ==
    ASSUME NEW D, NEW x \in D, NEW F, StaysIn(F, D)
    PROVE  \A n \in Nat : \E f : SetRecursive(f, n, D, x, F)
<1> DEFINE Is(f, n) == \A s \in SUBSET (1..n) :
                           f[s] = IF s = {} THEN x ELSE F[<<Max(s), f[s \ {Max(s)}]>>]
           N == {n \in Nat : \E f \in [SUBSET (1..n) -> D] : Is(f, n)}
<1>1. 0 \in N
    <2> DEFINE f == [s \in SUBSET (1..0) |-> x]
    <2>1. SUBSET (1..0) = {{}}
        OBVIOUS
    <2>2. f \in [SUBSET (1..0) -> D] /\ Is(f, 0)
        BY <2>1
    <2> QED BY <2>2
<1>2. ASSUME NEW n \in Nat, n \in N PROVE n + 1 \in N
    <2>1. PICK f \in [SUBSET (1..n) -> D] : Is(f, n)
        BY <1>2
    <2> DEFINE g == [s \in SUBSET (1..n + 1) |->
                        IF n + 1 \in s THEN F[<<n + 1, f[s \ {n + 1}]>>] ELSE f[s]]
    <2>2. g \in [SUBSET (1..n + 1) -> D]
        <3>1. ASSUME NEW s \in SUBSET (1..n + 1)
              PROVE  (IF n + 1 \in s THEN F[<<n + 1, f[s \ {n + 1}]>>] ELSE f[s]) \in D
            <4>1. CASE n + 1 \in s
                <5>1. s \ {n + 1} \in SUBSET (1..n)
                    OBVIOUS
                <5>2. n + 1 \in Nat /\ f[s \ {n + 1}] \in D
                    BY <5>1
                <5> QED BY <4>1, <5>2 DEF StaysIn
            <4>2. CASE n + 1 \notin s
                <5>1. s \in SUBSET (1..n)
                    BY <4>2
                <5> QED BY <4>2, <5>1
            <4> QED BY <4>1, <4>2
        <3> QED BY <3>1
    <2>3. \A s \in SUBSET (1..n) : s \in SUBSET (1..n + 1) /\ n + 1 \notin s /\ g[s] = f[s]
        OBVIOUS
    <2>4. ASSUME NEW s \in SUBSET (1..n + 1)
          PROVE  g[s] = IF s = {} THEN x ELSE F[<<Max(s), g[s \ {Max(s)}]>>]
        <3>1. CASE n + 1 \in s
            <4>1. g[s \ {n + 1}] = f[s \ {n + 1}]
                <5>1. s \ {n + 1} \in SUBSET (1..n)
                    OBVIOUS
                <5> QED BY <2>3, <5>1
            <4>2. Max(s) = n + 1 /\ s # {}
                <5>1. n + 1 \in Nat
                    OBVIOUS
                <5> QED BY <3>1, <5>1, GreatestIs
            <4>3. g[s] = F[<<n + 1, f[s \ {n + 1}]>>]
                BY <3>1
            <4> HIDE DEF g
            <4> QED BY <4>1, <4>2, <4>3
        <3>2. CASE n + 1 \notin s
            <4>1. s \in SUBSET (1..n)
                BY <3>2
            <4>2. s \ {Max(s)} \in SUBSET (1..n)
                BY <4>1
            <4>3. g[s] = f[s] /\ g[s \ {Max(s)}] = f[s \ {Max(s)}]
                BY <2>3, <4>1, <4>2
            <4> HIDE DEF g
            <4> QED BY <2>1, <4>1, <4>3
        <3> QED BY <3>1, <3>2
    <2> HIDE DEF g
    <2>5. Is(g, n + 1)
        BY <2>4
    <2> HIDE DEF Is
    <2> QED BY <2>2, <2>5
<1> HIDE DEF N
<1>3. \A n \in Nat : n \in N
    BY <1>1, <1>2, Counting
<1> QED BY <1>3 DEF N, SetRecursive

-----------------------------------------------------------------------------
(* Sequences one behind the other *)

\* f gives what the first sequences make, for every number of them.
Flattens(f, ss, S) ==
    /\ f \in [0..Len(ss) -> Seq(S)] /\ f[0] = <<>>
    /\ \A i \in 1..Len(ss) : f[i] = f[i - 1] \o ss[i]

LEMMA FlattensExists ==
    ASSUME NEW S, NEW ss \in Seq(Seq(S))
    PROVE  \E f : Flattens(f, ss, S)
<1> DEFINE F == [p \in Nat \X Seq(S) |-> IF p[1] \in 1..Len(ss) THEN p[2] \o ss[p[1]] ELSE p[2]]
<1>1. Len(ss) \in Nat /\ \A i \in 1..Len(ss) : ss[i] \in Seq(S)
    BY LenProperties, ElementOfSeq
<1>2. <<>> \in Seq(S)
    BY EmptySeq
<1>3. ASSUME NEW k \in Nat, NEW v \in Seq(S) PROVE F[<<k, v>>] \in Seq(S)
    <2>1. k \in 1..Len(ss) => v \o ss[k] \in Seq(S)
        BY <1>1, ConcatProperties
    <2>2. <<k, v>> \in Nat \X Seq(S)
        OBVIOUS
    <2> QED BY <2>1, <2>2
<1>4. ASSUME NEW i \in 1..Len(ss), NEW v \in Seq(S) PROVE F[<<i, v>>] = v \o ss[i]
    <2>1. <<i, v>> \in Nat \X Seq(S)
        BY <1>1
    <2> QED BY <2>1
<1> HIDE DEF F
<1>5. PICK f \in [0..Len(ss) -> Seq(S)] :
        f[0] = <<>> /\ \A k \in 1..Len(ss) : f[k] = F[<<k, f[k - 1]>>]
    <2> DEFINE T == Seq(S)
               x == <<>>
    <2>1. x \in T /\ StaysIn(F, T)
        BY <1>2, <1>3 DEF StaysIn
    <2> HIDE DEF T, x
    <2>2. \A c \in Nat : \E f : Recursive(f, c, T, x, F)
        BY <2>1, Recursion
    <2> QED BY <1>1, <2>2 DEF T, x, Recursive
<1>6. ASSUME NEW k \in 1..Len(ss) PROVE f[k] = f[k - 1] \o ss[k]
    <2>1. k - 1 \in 0..Len(ss)
        BY <1>1
    <2>2. f[k - 1] \in Seq(S)
        BY <2>1
    <2> QED BY <1>4, <1>5, <2>2
<1> QED BY <1>5, <1>6 DEF Flattens

\* The recursion of FlattenSeq, which begins with the first sequence
Flattening(ss, f) == f = [i \in 1..Len(ss) |-> IF i = 1 THEN ss[i] ELSE f[i - 1] \o ss[i]]

LEMMA FlattenIs ==
    ASSUME NEW S, NEW ss \in Seq(Seq(S)), NEW f, Flattens(f, ss, S)
    PROVE  FlattenSeq(ss) = f[Len(ss)]
<1>1. Len(ss) \in Nat /\ \A i \in 1..Len(ss) : ss[i] \in Seq(S)
    BY LenProperties, ElementOfSeq
<1>2. CASE Len(ss) = 0
    <2>1. ss = <<>>
        BY <1>2, EmptySeq
    <2> QED BY <1>2, <2>1 DEF FlattenSeq, Flattens
<1>3. CASE Len(ss) # 0
    <2> DEFINE g == CHOOSE h : Flattening(ss, h)
               h == [i \in 1..Len(ss) |-> f[i]]
    <2>0. f[1] = <<>> \o ss[1]
        <3>1. 1 \in 1..Len(ss) /\ 1 - 1 = 0
            BY <1>1, <1>3
        <3>2. f[1] = f[1 - 1] \o ss[1]
            BY ONLY <3>1, Flattens(f, ss, S) DEF Flattens
        <3>3. f[0] = <<>>
            BY DEF Flattens
        <3> QED BY <3>1, <3>2, <3>3
    <2>1. FlattenSeq(ss) = g[Len(ss)]
        BY <1>3 DEF FlattenSeq, Flattening
    <2>2. Flattening(ss, h)
        <3>1. ASSUME NEW i \in 1..Len(ss)
              PROVE  h[i] = IF i = 1 THEN ss[i] ELSE h[i - 1] \o ss[i]
            <4>1. CASE i = 1
                <5>1. f[1] = <<>> \o ss[1] /\ ss[1] \in Seq(S)
                    BY <1>1, <2>0
                <5>2. <<>> \o ss[1] = ss[1]
                    BY <5>1
                <5> QED BY <4>1, <5>1, <5>2
            <4>2. CASE i # 1
                <5>1. i - 1 \in 1..Len(ss)
                    BY <1>1, <4>2
                <5>2. f[i] = f[i - 1] \o ss[i]
                    BY DEF Flattens
                <5> QED BY <4>2, <5>1, <5>2
            <4> QED BY <4>1, <4>2
        <3> DEFINE k == [i \in 1..Len(ss) |-> IF i = 1 THEN ss[i] ELSE h[i - 1] \o ss[i]]
        <3>2. h = k
            <4>1. \A i \in 1..Len(ss) : h[i] = k[i]
                BY <3>1
            <4> QED BY <4>1
        <3> HIDE DEF h
        <3> QED BY <3>2 DEF Flattening
    <2> HIDE DEF h
    <2>3. Flattening(ss, g)
        BY <2>2
    <2> HIDE DEF g
    <2>4. \A i \in 1..Len(ss) : g[i] = IF i = 1 THEN ss[i] ELSE g[i - 1] \o ss[i]
        BY <2>3 DEF Flattening
    <2> DEFINE N == {n \in Nat : n + 1 <= Len(ss) => g[n + 1] = f[n + 1]}
    <2>5. 0 \in N
        <3>1. 1 \in 1..Len(ss)
            BY <1>1, <1>3
        <3>2. g[1] = ss[1] /\ f[1] = <<>> \o ss[1] /\ ss[1] \in Seq(S)
            BY <1>1, <2>0, <2>4, <3>1
        <3> QED BY <3>2
    <2>6. ASSUME NEW n \in Nat, n \in N PROVE n + 1 \in N
        <3> SUFFICES ASSUME (n + 1) + 1 <= Len(ss) PROVE g[(n + 1) + 1] = f[(n + 1) + 1]
            OBVIOUS
        <3>1. (n + 1) + 1 \in 1..Len(ss) /\ (n + 1) + 1 # 1 /\ ((n + 1) + 1) - 1 = n + 1
            BY <1>1
        <3>2. g[n + 1] = f[n + 1]
            BY <1>1, <2>6
        <3>3. g[(n + 1) + 1] = g[n + 1] \o ss[(n + 1) + 1]
            BY <2>4, <3>1
        <3>4. f[(n + 1) + 1] = f[n + 1] \o ss[(n + 1) + 1]
            BY <3>1 DEF Flattens
        <3> QED BY <3>2, <3>3, <3>4
    <2> HIDE DEF N
    <2>7. \A n \in Nat : n \in N
        BY <2>5, <2>6, Counting
    <2>8. Len(ss) - 1 \in N /\ (Len(ss) - 1) + 1 = Len(ss)
        BY <1>1, <1>3, <2>7
    <2> QED BY <1>1, <2>1, <2>8 DEF N
<1> QED BY <1>2, <1>3

\* The first sequences alone give the front of it all.
LEMMA FlattenFront ==
    ASSUME NEW S, NEW ss \in Seq(Seq(S)), NEW f, Flattens(f, ss, S), NEW m \in 0..Len(ss)
    PROVE  FlattenSeq(SubSeq(ss, 1, m)) = f[m]
<1> DEFINE front == SubSeq(ss, 1, m)
           g == [i \in 0..m |-> f[i]]
<1>1. Len(ss) \in Nat /\ m \in Nat /\ m <= Len(ss)
    BY LenProperties
<1>2. front \in Seq(Seq(S)) /\ Len(front) = m /\ \A i \in 1..m : front[i] = ss[i]
    BY <1>1
<1> HIDE DEF front
<1>3. Flattens(g, front, S)
    <2>1. g \in [0..m -> Seq(S)] /\ g[0] = <<>>
        <3>1. \A i \in 0..m : i \in 0..Len(ss)
            BY <1>1
        <3>2. f \in [0..Len(ss) -> Seq(S)] /\ f[0] = <<>>
            BY DEF Flattens
        <3>3. \A i \in 0..m : f[i] \in Seq(S)
            BY <3>1, <3>2
        <3>4. 0 \in 0..m
            BY <1>1
        <3> QED BY <3>2, <3>3, <3>4
    <2>2. ASSUME NEW i \in 1..m PROVE g[i] = g[i - 1] \o front[i]
        <3>1. i \in 1..Len(ss) /\ i - 1 \in 0..m /\ i \in 0..m
            BY <1>1
        <3>2. f[i] = f[i - 1] \o ss[i]
            BY <3>1 DEF Flattens
        <3> QED BY <1>2, <3>1, <3>2
    <2> HIDE DEF g
    <2> QED BY <1>2, <2>1, <2>2 DEF Flattens
<1>4. g[m] = f[m]
    BY <1>1
<1> HIDE DEF g
<1>5. FlattenSeq(front) = g[m]
    BY <1>2, <1>3, FlattenIs
<1> QED BY <1>4, <1>5 DEF front

\* What the first sequences make is the front of what more of them make.
LEMMA FlattenGrows ==
    ASSUME NEW S, NEW ss \in Seq(Seq(S)), NEW f, Flattens(f, ss, S), NEW m \in 0..Len(ss)
    PROVE  \A n \in m..Len(ss) :
            /\ Len(f[m]) <= Len(f[n])
            /\ \A x \in 1..Len(f[m]) : f[n][x] = f[m][x]
<1> DEFINE N == {d \in Nat : m + d <= Len(ss) =>
                    /\ Len(f[m]) <= Len(f[m + d])
                    /\ \A x \in 1..Len(f[m]) : f[m + d][x] = f[m][x]}
<1>1. Len(ss) \in Nat /\ m \in Nat /\ m <= Len(ss) /\ \A i \in 1..Len(ss) : ss[i] \in Seq(S)
    BY LenProperties, ElementOfSeq
<1>2. \A i \in 0..Len(ss) : f[i] \in Seq(S) /\ Len(f[i]) \in Nat
    BY LenProperties DEF Flattens
<1>3. 0 \in N
    BY <1>1, <1>2
<1>4. ASSUME NEW d \in Nat, d \in N PROVE d + 1 \in N
    <2> SUFFICES ASSUME m + (d + 1) <= Len(ss)
                 PROVE  /\ Len(f[m]) <= Len(f[m + (d + 1)])
                        /\ \A x \in 1..Len(f[m]) : f[m + (d + 1)][x] = f[m][x]
        OBVIOUS
    <2>1. /\ m + (d + 1) \in 1..Len(ss) /\ (m + (d + 1)) - 1 = m + d
          /\ m + d \in 0..Len(ss) /\ m + d <= Len(ss) /\ m \in 0..Len(ss)
        BY <1>1
    <2>2. /\ Len(f[m]) <= Len(f[m + d])
          /\ \A x \in 1..Len(f[m]) : f[m + d][x] = f[m][x]
        BY <1>4, <2>1
    <2> DEFINE u == f[m + d]
               v == ss[m + (d + 1)]
    <2>3. f[m + (d + 1)] = u \o v
        BY <2>1 DEF Flattens
    <2>4. u \in Seq(S) /\ v \in Seq(S) /\ Len(u) \in Nat /\ Len(v) \in Nat
        BY <1>1, <1>2, <2>1, LenProperties
    <2>5. Len(f[m]) \in Nat
        BY <1>2
    <2>6. Len(f[m]) <= Len(u) /\ \A x \in 1..Len(f[m]) : u[x] = f[m][x]
        BY <2>2
    <2> HIDE DEF u, v
    <2>7. Len(u \o v) = Len(u) + Len(v) /\ \A x \in 1..Len(u) : (u \o v)[x] = u[x]
        BY <2>4, ConcatProperties
    <2> QED BY <2>3, <2>4, <2>5, <2>6, <2>7, SMTT(30)
<1> HIDE DEF N
<1>5. \A d \in Nat : d \in N
    BY <1>3, <1>4, Counting
<1>6. ASSUME NEW n \in m..Len(ss)
      PROVE  Len(f[m]) <= Len(f[n]) /\ \A x \in 1..Len(f[m]) : f[n][x] = f[m][x]
    <2>1. n - m \in Nat /\ m + (n - m) = n /\ n <= Len(ss)
        BY <1>1
    <2> QED BY <1>5, <2>1 DEF N
<1> QED BY <1>6

\* Where the elements of the m-th sequence are.
FlatAt(f, ss, m) ==
    /\ Len(f[m]) = Len(f[m - 1]) + Len(ss[m])
    /\ \A j \in 1..Len(ss[m]) : f[Len(ss)][Len(f[m - 1]) + j] = ss[m][j]

LEMMA FlattenPlaces ==
    ASSUME NEW S, NEW ss \in Seq(Seq(S)), NEW f, Flattens(f, ss, S), NEW m \in 1..Len(ss)
    PROVE  FlatAt(f, ss, m)
<1>1. Len(ss) \in Nat /\ ss[m] \in Seq(S) /\ m - 1 \in 0..Len(ss) /\ m \in 0..Len(ss)
    BY LenProperties, ElementOfSeq
<1> DEFINE u == f[m - 1]
           v == ss[m]
<1>2. f[m] = u \o v
    BY DEF Flattens
<1>3. u \in Seq(S) /\ v \in Seq(S) /\ Len(u) \in Nat /\ Len(v) \in Nat
    BY <1>1, LenProperties DEF Flattens
<1>4. \A x \in 1..Len(f[m]) : f[Len(ss)][x] = f[m][x]
    <2>1. Len(ss) \in m..Len(ss)
        BY <1>1
    <2>2. \A k \in 0..Len(ss) : \A n \in k..Len(ss) : \A x \in 1..Len(f[k]) : f[n][x] = f[k][x]
        BY FlattenGrows
    <2> QED BY <1>1, <2>1, <2>2
<1> HIDE DEF u, v
<1>5. Len(u \o v) = Len(u) + Len(v) /\ \A j \in 1..Len(v) : (u \o v)[Len(u) + j] = v[j]
    <2>1. /\ Len(u \o v) = Len(u) + Len(v)
          /\ \A i \in 1..Len(u) + Len(v) : (u \o v)[i] = IF i <= Len(u) THEN u[i] ELSE v[i - Len(u)]
        BY <1>3, ConcatProperties
    <2>2. \A j \in 1..Len(v) : /\ Len(u) + j \in 1..Len(u) + Len(v) /\ ~(Len(u) + j <= Len(u))
                               /\ (Len(u) + j) - Len(u) = j
        BY <1>3
    <2> QED BY <2>1, <2>2
<1>6. \A j \in 1..Len(v) : f[Len(ss)][Len(u) + j] = v[j]
    <2>1. \A j \in 1..Len(v) : Len(u) + j \in 1..Len(u) + Len(v)
        BY <1>3
    <2> QED BY <1>2, <1>4, <1>5, <2>1
<1> QED BY <1>2, <1>5, <1>6 DEF FlatAt, u, v

-----------------------------------------------------------------------------
(* Recursion that goes down: what F[<<x, f>>] says of the value at x is said of the values  *)
(* that f has where the measure is less.                                                    *)

Recurses(f, X, V, F) == f \in [X -> V] /\ \A x \in X : f[x] = F[<<x, f>>]

LooksDown(F, X, V, measure) ==
    \A x \in X : \A g, h \in [X -> V] :
        (\A y \in X : measure[y] < measure[x] => g[y] = h[y]) => F[<<x, g>>] = F[<<x, h>>]

LEMMA RecursionDown ==
    ASSUME NEW X, NEW V, NEW v \in V, NEW measure \in [X -> Nat],
           NEW F \in [X \X [X -> V] -> V], LooksDown(F, X, V, measure)
    PROVE  \E f : Recurses(f, X, V, F)
<1> DEFINE D == [X -> V]
           Holds(g, k) == \A x \in X : measure[x] < k => g[x] = F[<<x, g>>]
           Alike(g, h, k) == \A x \in X : measure[x] < k => g[x] = h[x]
           There == {k \in Nat : \E g \in D : Holds(g, k)}
           One == {k \in Nat : \A g, h \in D : Holds(g, k) /\ Holds(h, k) => Alike(g, h, k)}
<1>0. \A x \in X : measure[x] \in Nat
    OBVIOUS
<1>1. 0 \in There
    <2>1. [x \in X |-> v] \in D
        OBVIOUS
    <2>2. \A g : Holds(g, 0)
        BY <1>0
    <2> QED BY <2>1, <2>2
<1>2. ASSUME NEW k \in Nat, k \in There PROVE k + 1 \in There
    <2>1. PICK g \in D : Holds(g, k)
        BY <1>2
    <2> DEFINE h == [x \in X |-> F[<<x, g>>]]
    <2>2. h \in D
        BY <2>1
    <2>3. ASSUME NEW x \in X, measure[x] < k + 1 PROVE h[x] = F[<<x, h>>]
        <3>1. \A y \in X : measure[y] < measure[x] => measure[y] < k
            BY <1>0, <2>3
        <3>2. \A y \in X : measure[y] < measure[x] => g[y] = h[y]
            BY <2>1, <3>1
        <3>3. F[<<x, g>>] = F[<<x, h>>]
            <4> HIDE DEF h
            <4> QED BY <2>2, <3>2 DEF LooksDown
        <3> QED BY <3>3
    <2> HIDE DEF h
    <2>4. Holds(h, k + 1)
        BY <2>3
    <2> QED BY <2>2, <2>4
<1>3. \A k \in Nat : k \in There
    <2> HIDE DEF There
    <2> QED BY <1>1, <1>2, Counting
<1>4. 0 \in One
    BY <1>0
<1>5. ASSUME NEW k \in Nat, k \in One PROVE k + 1 \in One
    <2>1. ASSUME NEW g \in D, NEW h \in D, Holds(g, k + 1), Holds(h, k + 1)
          PROVE  Alike(g, h, k + 1)
        <3>1. \A x \in X : measure[x] < k => measure[x] < k + 1
            BY <1>0
        <3>2. Holds(g, k) /\ Holds(h, k)
            BY <2>1, <3>1
        <3>3. Alike(g, h, k)
            BY <1>5, <3>2
        <3>4. ASSUME NEW x \in X, measure[x] < k + 1 PROVE g[x] = h[x]
            <4>1. \A y \in X : measure[y] < measure[x] => measure[y] < k
                BY <1>0, <3>4
            <4>2. \A y \in X : measure[y] < measure[x] => g[y] = h[y]
                BY <3>3, <4>1
            <4>3. F[<<x, g>>] = F[<<x, h>>]
                BY <4>2 DEF LooksDown
            <4>4. g[x] = F[<<x, g>>] /\ h[x] = F[<<x, h>>]
                BY <2>1, <3>4
            <4> QED BY <4>3, <4>4
        <3> QED BY <3>4
    <2> HIDE DEF Holds, Alike
    <2> QED BY <2>1
<1>6. \A k \in Nat : k \in One
    <2> HIDE DEF One
    <2> QED BY <1>4, <1>5, Counting
<1> DEFINE g(k) == CHOOSE g \in D : Holds(g, k)
           f == [x \in X |-> g(measure[x] + 1)[x]]
<1>7. ASSUME NEW k \in Nat PROVE g(k) \in D /\ Holds(g(k), k)
    <2>1. \E h \in D : Holds(h, k)
        BY <1>3
    <2> HIDE DEF Holds, D
    <2> QED BY <2>1
<1>8. ASSUME NEW x \in X, NEW y \in X, measure[y] <= measure[x]
      PROVE  f[y] = g(measure[x] + 1)[y]
    <2> DEFINE a == g(measure[y] + 1)
               b == g(measure[x] + 1)
    <2>1. measure[y] + 1 \in Nat /\ measure[x] + 1 \in Nat /\ measure[y] < measure[y] + 1
        BY <1>0
    <2>2. a \in D /\ b \in D /\ Holds(a, measure[y] + 1) /\ Holds(b, measure[x] + 1)
        BY <1>7, <2>1
    <2>3. f[y] = a[y]
        OBVIOUS
    <2> HIDE DEF a, b, g, f
    <2>4. \A z \in X : measure[z] < measure[y] + 1 => measure[z] < measure[x] + 1
        BY <1>0, <1>8
    <2>5. Holds(b, measure[y] + 1)
        BY <2>2, <2>4
    <2>6. Alike(a, b, measure[y] + 1)
        BY <1>6, <2>1, <2>2, <2>5
    <2>7. a[y] = b[y]
        BY <2>1, <2>6
    <2> QED BY <2>3, <2>7 DEF b
<1>9. f \in D
    <2>1. \A x \in X : measure[x] + 1 \in Nat
        BY <1>0
    <2>2. \A x \in X : g(measure[x] + 1) \in D
        BY <1>7, <2>1
    <2> HIDE DEF g
    <2> QED BY <2>2
<1>10. ASSUME NEW x \in X PROVE f[x] = F[<<x, f>>]
    <2> DEFINE b == g(measure[x] + 1)
    <2>1. measure[x] + 1 \in Nat /\ measure[x] < measure[x] + 1 /\ measure[x] <= measure[x]
        BY <1>0
    <2>2. b \in D /\ Holds(b, measure[x] + 1)
        BY <1>7, <2>1
    <2>3. \A y \in X : measure[y] < measure[x] => f[y] = b[y]
        <3>1. \A y \in X : measure[y] < measure[x] => measure[y] <= measure[x]
            BY <1>0
        <3> QED BY <1>8, <3>1
    <2>4. f[x] = b[x]
        BY <1>8, <2>1
    <2> HIDE DEF b, f, g
    <2>5. b[x] = F[<<x, b>>]
        BY <2>1, <2>2
    <2>6. F[<<x, f>>] = F[<<x, b>>]
        BY <1>9, <2>2, <2>3 DEF LooksDown
    <2> QED BY <2>4, <2>5, <2>6
<1> HIDE DEF f
<1> QED BY <1>9, <1>10 DEF Recurses

-----------------------------------------------------------------------------
(* Sequences that are put together of others *)

LEMMA HeadOfConcat ==
    ASSUME NEW S, NEW u \in Seq(S), u # <<>>, NEW v \in Seq(S)
    PROVE  u \o v # <<>> /\ (u \o v)[1] = u[1]
OBVIOUS

LEMMA TailOfConcat ==
    ASSUME NEW S, NEW u \in Seq(S), u # <<>>, NEW v \in Seq(S)
    PROVE  Tail(u \o v) = Tail(u) \o v
<1> DEFINE x == Tail(u \o v)
           y == Tail(u) \o v
<1>1. u \o v \in Seq(S) /\ u \o v # <<>> /\ Len(u \o v) = Len(u) + Len(v) /\ Len(u) \in Nat \ {0} /\ Len(v) \in Nat
    OBVIOUS
<1>2. Tail(u) \in Seq(S) /\ Len(Tail(u)) = Len(u) - 1 /\ \A i \in 1..(Len(u) - 1) : Tail(u)[i] = u[i + 1]
    BY <1>1, HeadTailProperties
<1>3. x \in Seq(S) /\ Len(x) = Len(u) + Len(v) - 1 /\ \A i \in 1..(Len(u) + Len(v) - 1) : x[i] = (u \o v)[i + 1]
    BY <1>1, HeadTailProperties
<1>4. y \in Seq(S) /\ Len(y) = Len(u) + Len(v) - 1
    BY <1>1, <1>2
<1>5. ASSUME NEW i \in 1..(Len(u) + Len(v) - 1) PROVE x[i] = y[i]
    <2> HIDE DEF x, y
    <2>0. x[i] = (u \o v)[i + 1]
        BY <1>3
    <2>1. CASE i <= Len(u) - 1
        <3>1. y[i] = Tail(u)[i]
            BY <1>1, <1>2, <2>1 DEF y
        <3>2. (u \o v)[i + 1] = u[i + 1]
            BY <1>1, <2>1
        <3> QED BY <1>2, <2>0, <2>1, <3>1, <3>2
    <2>2. CASE ~(i <= Len(u) - 1)
        <3>1. y[i] = v[i - (Len(u) - 1)]
            BY <1>1, <1>2, <2>2 DEF y
        <3>2. (u \o v)[i + 1] = v[i + 1 - Len(u)]
            BY <1>1, <2>2
        <3>3. i - (Len(u) - 1) = i + 1 - Len(u)
            BY <1>1
        <3> QED BY <2>0, <3>1, <3>2, <3>3
    <2> QED BY <2>1, <2>2
<1> HIDE DEF x, y
<1>6. x = y
    BY <1>1, <1>3, <1>4, <1>5, SeqEqual
<1> QED BY <1>6 DEF x, y

LEMMA HeadIsFirst ==
    ASSUME NEW S, NEW u \in Seq(S), u # <<>>
    PROVE  u[1] \in S /\ Tail(u) \in Seq(S) /\ Len(Tail(u)) = Len(u) - 1 /\ u = <<u[1]>> \o Tail(u)
<1>1. Tail(u) \in Seq(S) /\ Len(Tail(u)) = Len(u) - 1 /\ \A i \in 1..(Len(u) - 1) : Tail(u)[i] = u[i + 1]
    BY HeadTailProperties
<1>2. u[1] \in S /\ Len(u) \in Nat \ {0}
    OBVIOUS
<1>3. /\ <<u[1]>> \o Tail(u) \in Seq(S) /\ Len(<<u[1]>> \o Tail(u)) = Len(u)
    BY <1>1, <1>2
<1>4. ASSUME NEW i \in 1..Len(u) PROVE (<<u[1]>> \o Tail(u))[i] = u[i]
    <2>1. CASE i = 1
        BY <1>1, <1>2, <2>1
    <2>2. CASE i # 1
        <3>1. PICK j \in 1..(Len(u) - 1) : i = j + 1
            <4>1. i - 1 \in 1..(Len(u) - 1) /\ i = (i - 1) + 1
                BY <1>2, <2>2
            <4> QED BY <4>1
        <3>2. (<<u[1]>> \o Tail(u))[i] = Tail(u)[j]
            BY <1>1, <1>2, <3>1
        <3> QED BY <1>1, <3>1, <3>2
    <2> QED BY <2>1, <2>2
<1>5. <<u[1]>> \o Tail(u) = u
    BY <1>3, <1>4, SeqEqual
<1> QED BY <1>1, <1>2, <1>5

LEMMA FlattenNone == FlattenSeq(<<>>) = <<>>
<1> DEFINE ss == <<>>
<1>1. ss \in Seq(Seq(Int)) /\ Len(ss) = 0
    OBVIOUS
<1> HIDE DEF ss
<1>2. PICK f : Flattens(f, ss, Int)
    BY <1>1, FlattensExists
<1>3. FlattenSeq(ss) = f[Len(ss)] /\ f[0] = <<>>
    BY <1>1, <1>2, FlattenIs DEF Flattens
<1>4. FlattenSeq(ss) = <<>>
    BY <1>1, <1>3
<1> QED BY <1>4 DEF ss

\* What is put together of nothing, and of what kind it is.
LEMMA FlattenTyped ==
    ASSUME NEW S, NEW ss \in Seq(Seq(S))
    PROVE  FlattenSeq(ss) \in Seq(S)
<1>1. PICK f : Flattens(f, ss, S)
    BY FlattensExists
<1>2. f \in [0..Len(ss) -> Seq(S)] /\ Len(ss) \in 0..Len(ss)
    BY <1>1, LenProperties DEF Flattens
<1>3. FlattenSeq(ss) = f[Len(ss)]
    BY <1>1, FlattenIs
<1> QED BY <1>2, <1>3

\* What is put together of a sequence of sequences begins with the first of them.
LEMMA FlattenHead ==
    ASSUME NEW S, NEW ss \in Seq(Seq(S)), ss # <<>>
    PROVE  FlattenSeq(ss) = ss[1] \o FlattenSeq(Tail(ss))
<1> DEFINE tt == Tail(ss)
           n == Len(tt)
<1>0. ss[1] \in Seq(S) /\ tt \in Seq(Seq(S)) /\ n = Len(ss) - 1 /\ n \in Nat /\ \A i \in 1..n : tt[i] = ss[i + 1]
    <2>1. Head(ss) \in Seq(S) /\ Tail(ss) \in Seq(Seq(S)) /\ Len(Tail(ss)) = Len(ss) - 1
          /\ \A i \in 1..Len(Tail(ss)) : Tail(ss)[i] = ss[i + 1]
        BY HeadTailProperties
    <2>2. Head(ss) = ss[1] /\ Len(ss) \in Nat \ {0}
        OBVIOUS
    <2> QED BY <2>1, <2>2
<1>1. PICK f : Flattens(f, ss, S)
    BY FlattensExists
<1>2. PICK g : Flattens(g, tt, S)
    BY <1>0, FlattensExists
<1> HIDE DEF n, tt
<1>a. n \in Nat
    BY <1>0
<1> PICK m \in Nat : m = n + 1
    BY ONLY <1>a
<1>3. /\ f \in [0..m -> Seq(S)] /\ f[0] = <<>> /\ \A i \in 1..m : f[i] = f[i - 1] \o ss[i]
    <2>1. m = Len(ss)
        <3>1. Len(ss) \in Nat
            OBVIOUS
        <3> QED BY <1>0, <3>1
    <2> QED BY <1>1, <2>1 DEF Flattens
<1>4. /\ g \in [0..n -> Seq(S)] /\ g[0] = <<>> /\ \A i \in 1..n : g[i] = g[i - 1] \o tt[i]
    BY <1>0, <1>2 DEF Flattens, n
<1> DEFINE After(i, j) == f[j] = ss[1] \o g[i]
           T == {i \in Nat : i <= n => \A j \in Nat : j = i + 1 => After(i, j)}
<1>5. 0 \in T
    <2>0. 1 \in 1..m /\ 1 - 1 = 0
        BY <1>0
    <2>1. f[1] = f[0] \o ss[1]
        BY <1>3, <2>0
    <2>2. <<>> \o ss[1] = ss[1] /\ ss[1] \o <<>> = ss[1]
        BY <1>0
    <2>3. f[1] = ss[1] \o g[0]
        BY <1>3, <1>4, <2>1, <2>2
    <2>4. After(0, 1)
        BY <2>3
    <2> HIDE DEF After
    <2> QED BY <2>4
<1>6. ASSUME NEW i \in Nat, i \in T PROVE i + 1 \in T
    <2> SUFFICES ASSUME i + 1 <= n PROVE After(i + 1, i + 1 + 1)
        <3> HIDE DEF After
        <3> QED OBVIOUS
    <2>2. PICK j \in 1..n : j = i + 1
        BY <1>0
    <2>9. PICK k \in 1..m : k = j + 1
        BY <1>0
    <2>1. f[j] = ss[1] \o g[i]
        <3>1. After(i, j)
            <4> HIDE DEF After
            <4> QED BY <1>0, <1>6, <2>2
        <3> QED BY <3>1
    <2> HIDE DEF T
    <2>3. k - 1 = j /\ j - 1 = i /\ i \in 0..n
        BY <1>0, <2>2, <2>9
    <2>4. f[k] = f[j] \o ss[k] /\ g[j] = g[i] \o tt[j] /\ tt[j] = ss[k] /\ g[i] \in Seq(S)
        <3>1. f[k] = f[k - 1] \o ss[k]
            BY <1>3
        <3>2. g[j] = g[j - 1] \o tt[j]
            BY <1>4
        <3>3. tt[j] = ss[k]
            BY <1>0, <2>9
        <3>4. g[i] \in Seq(S)
            BY <1>4, <2>3
        <3> QED BY <2>3, <3>1, <3>2, <3>3, <3>4
    <2>5. tt[j] \in Seq(S)
        <3>1. j \in 1..Len(tt)
            BY DEF n
        <3> QED BY <1>0, <3>1, ElementOfSeq
    <2>6. Grouped(ss[1], g[i], tt[j])
        BY <1>0, <2>4, <2>5, Regrouped
    <2>7. f[k] = ss[1] \o g[j]
        BY <2>1, <2>4, <2>6 DEF Grouped
    <2> QED BY <2>2, <2>7, <2>9
<1> HIDE DEF T, After
<1>7. \A i \in Nat : i \in T
    BY <1>5, <1>6, Counting
<1>8. f[m] = ss[1] \o g[n]
    <2>1. After(n, m)
        BY <1>0, <1>7 DEF T
    <2> QED BY <2>1 DEF After
<1>9. FlattenSeq(ss) = f[Len(ss)]
    BY <1>1, FlattenIs
<1>10. FlattenSeq(tt) = g[Len(tt)]
    BY <1>0, <1>2, FlattenIs
<1>11. Len(ss) = m /\ Len(tt) = n
    <2>1. Len(ss) \in Nat
        OBVIOUS
    <2> QED BY <1>0, <2>1 DEF n
<1> QED BY <1>8, <1>9, <1>10, <1>11 DEF tt

\* At least one byte of each is at least as many as there are.
LEMMA FlattenCount ==
    ASSUME NEW S, NEW ss \in Seq(Seq(S)), \A i \in 1..Len(ss) : Len(ss[i]) >= 1
    PROVE  Len(FlattenSeq(ss)) >= Len(ss)
<1>1. PICK f : Flattens(f, ss, S)
    BY FlattensExists
<1> DEFINE n == Len(ss)
<1>2. n \in Nat /\ f \in [0..n -> Seq(S)] /\ f[0] = <<>> /\ \A i \in 1..n : f[i] = f[i - 1] \o ss[i]
    BY <1>1, LenProperties DEF Flattens
<1>3. FlattenSeq(ss) = f[n]
    BY <1>1, FlattenIs
<1>4. \A i \in 1..n : ss[i] \in Seq(S)
    BY ElementOfSeq
<1> HIDE DEF n
<1> DEFINE T == {i \in Nat : i <= n => Len(f[i]) >= i}
<1>5. 0 \in T
    BY <1>2
<1>6. ASSUME NEW i \in Nat, i \in T PROVE i + 1 \in T
    <2> SUFFICES ASSUME i + 1 <= n PROVE Len(f[i + 1]) >= i + 1
        OBVIOUS
    <2>1. PICK j \in 1..n : j = i + 1
        BY <1>2
    <2>2. f[j] = f[i] \o ss[j] /\ f[i] \in Seq(S) /\ ss[j] \in Seq(S)
        <3>1. j - 1 = i /\ i \in 0..n
            BY <1>2, <2>1
        <3> QED BY <1>2, <1>4, <3>1
    <2>3. Len(f[i]) >= i
        BY <1>2, <1>6
    <2>4. Len(ss[j]) >= 1
        BY DEF n
    <2>5. Len(f[j]) = Len(f[i]) + Len(ss[j]) /\ Len(f[i]) \in Nat /\ Len(ss[j]) \in Nat
        BY <2>2
    <2>6. \A p \in Nat, q \in Nat : p >= i /\ q >= 1 => p + q >= j
        BY <2>1
    <2>7. Len(f[j]) >= j
        BY <2>3, <2>4, <2>5, <2>6
    <2> QED BY <2>1, <2>7
<1> HIDE DEF T
<1>7. \A i \in Nat : i \in T
    BY <1>5, <1>6, Counting
<1>8. Len(f[n]) >= n
    BY <1>2, <1>7 DEF T
<1> QED BY <1>3, <1>8 DEF n

\* What is put together is taken from its first part.
TakenFrom(w, u, v) == w # <<>> /\ w[1] = u[1] /\ Tail(w) = Tail(u) \o v

LEMMA TakenFromFirst ==
    ASSUME NEW u \in Seq(Nat), u # <<>>, NEW v \in Seq(Nat)
    PROVE  TakenFrom(u \o v, u, v)
BY HeadOfConcat, TailOfConcat DEF TakenFrom

\* What is put together of what C makes of each byte
Mapped(C, bytes) == [n \in DOMAIN bytes |-> C[bytes[n]]]
IsMapped(m, bytes, S) == m \in Seq(Seq(S)) /\ Len(m) = Len(bytes)

LEMMA MappedIs ==
    ASSUME NEW D, NEW S, NEW C \in [D -> Seq(S)], NEW bytes \in Seq(D)
    PROVE  IsMapped(Mapped(C, bytes), bytes, S)
<1>1. DOMAIN bytes = 1..Len(bytes) /\ Len(bytes) \in Nat /\ \A n \in 1..Len(bytes) : bytes[n] \in D
    BY LenProperties, ElementOfSeq
<1>2. \A n \in 1..Len(bytes) : C[bytes[n]] \in Seq(S)
    BY <1>1
<1>3. Mapped(C, bytes) = [n \in 1..Len(bytes) |-> C[bytes[n]]]
    BY <1>1 DEF Mapped
<1> QED BY <1>1, <1>2, <1>3 DEF IsMapped

\* What is made of the first is put before what is made of the others.
LEMMA MappedHead ==
    ASSUME NEW D, NEW S, NEW C \in [D -> Seq(S)], NEW bytes \in Seq(D), bytes # <<>>
    PROVE  /\ FlattenSeq(Mapped(C, bytes)) = C[bytes[1]] \o FlattenSeq(Mapped(C, Tail(bytes)))
           /\ C[bytes[1]] \in Seq(S) /\ FlattenSeq(Mapped(C, Tail(bytes))) \in Seq(S)
<1> DEFINE m == Mapped(C, bytes)
           t == Mapped(C, Tail(bytes))
<1>1. bytes[1] \in D /\ Tail(bytes) \in Seq(D) /\ Len(Tail(bytes)) = Len(bytes) - 1 /\ Len(bytes) \in Nat \ {0}
    BY HeadIsFirst, EmptySeq
<1>2. m \in Seq(Seq(S)) /\ Len(m) = Len(bytes)
    <2>1. IsMapped(Mapped(C, bytes), bytes, S)
        BY MappedIs
    <2> QED BY <2>1 DEF IsMapped
<1>3. t \in Seq(Seq(S)) /\ Len(t) = Len(bytes) - 1
    <2>1. IsMapped(Mapped(C, Tail(bytes)), Tail(bytes), S)
        BY <1>1, MappedIs
    <2> QED BY <1>1, <2>1 DEF IsMapped
<1>4. DOMAIN bytes = 1..Len(bytes) /\ DOMAIN Tail(bytes) = 1..(Len(bytes) - 1)
    BY <1>1, LenProperties
<1>5. m[1] = C[bytes[1]]
    BY <1>1, <1>4 DEF Mapped
<1>6. \A i \in 1..(Len(bytes) - 1) : Tail(bytes)[i] = bytes[i + 1]
    BY HeadTailProperties
<1>7. \A i \in 1..(Len(bytes) - 1) : t[i] = C[bytes[i + 1]]
    BY <1>4, <1>6 DEF Mapped
<1>8. \A i \in 1..(Len(bytes) - 1) : m[i + 1] = C[bytes[i + 1]]
    <2> SUFFICES ASSUME NEW i \in 1..(Len(bytes) - 1) PROVE m[i + 1] = C[bytes[i + 1]]
        OBVIOUS
    <2>1. i + 1 \in DOMAIN bytes
        BY <1>1, <1>4
    <2> QED BY <2>1 DEF Mapped
<1> HIDE DEF m, t
<1>9. m # <<>>
    BY <1>1, <1>2
<1>10. Tail(m) \in Seq(Seq(S)) /\ Len(Tail(m)) = Len(m) - 1 /\ \A i \in 1..(Len(m) - 1) : Tail(m)[i] = m[i + 1]
    BY <1>2, <1>9, HeadTailProperties
<1>11. Tail(m) = t
    <2>1. Len(Tail(m)) = Len(t)
        BY <1>2, <1>3, <1>10
    <2>2. \A i \in 1..Len(Tail(m)) : Tail(m)[i] = t[i]
        BY <1>2, <1>7, <1>8, <1>10
    <2> QED BY <1>3, <1>10, <2>1, <2>2, SeqEqual
<1>12. FlattenSeq(m) = m[1] \o FlattenSeq(Tail(m))
    BY <1>2, <1>9, FlattenHead
<1>13. FlattenSeq(t) \in Seq(S)
    BY <1>3, FlattenTyped
<1>14. C[bytes[1]] \in Seq(S)
    BY <1>1
<1>15. FlattenSeq(m) = C[bytes[1]] \o FlattenSeq(t)
    BY <1>5, <1>11, <1>12
<1> QED BY <1>13, <1>14, <1>15 DEF m, t

LEMMA MappedEmpty ==
    ASSUME NEW C
    PROVE  FlattenSeq(Mapped(C, <<>>)) = <<>>
<1>1. Mapped(C, <<>>) = <<>>
    BY DEF Mapped
<1> QED BY <1>1, FlattenNone

\* What is appended is put together of what was there and one more.
Appended(u, x) ==
    Append(u, x) \in Seq(Nat) /\ Append(u, x) = u \o <<x>> /\ <<x>> \in Seq(Nat) /\ Len(Append(u, x)) = Len(u) + 1

LEMMA AppendedIs ==
    ASSUME NEW u \in Seq(Nat), NEW x \in Nat
    PROVE  Appended(u, x)
<1>1. Append(u, x) \in Seq(Nat) /\ Len(Append(u, x)) = Len(u) + 1 /\ <<x>> \in Seq(Nat)
    BY AppendProperties
<1>2. Append(u, x) = u \o <<x>>
    OBVIOUS
<1> QED BY <1>1, <1>2 DEF Appended
=============================================================================
