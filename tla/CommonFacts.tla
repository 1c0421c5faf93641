---------------------------- MODULE CommonFacts ----------------------------
(***************************************************************************)
(* Facts about sequences and natural numbers that several proofs use.      *)
(***************************************************************************)
EXTENDS Integers, Sequences, SequenceTheorems, WellFoundedInduction, TLAPS

(***************************************************************************)
(* What pushing, popping and replacing the top of a stack do to it.        *)
(***************************************************************************)
LEMMA PushFacts ==
    ASSUME NEW S, NEW s \in Seq(S), NEW e \in S
    PROVE  /\ Append(s, e) \in Seq(S)
           /\ DOMAIN Append(s, e) = 1 .. Len(s) + 1
           /\ \A k \in 1 .. Len(s) : Append(s, e)[k] = s[k]
           /\ Append(s, e)[Len(s) + 1] = e
  OBVIOUS

LEMMA PopFacts ==
    ASSUME NEW S, NEW s \in Seq(S), s # <<>>
    PROVE  /\ Len(s) \in DOMAIN s
           /\ SubSeq(s, 1, Len(s) - 1) \in Seq(S)
           /\ DOMAIN SubSeq(s, 1, Len(s) - 1) = 1 .. Len(s) - 1
           /\ \A k \in 1 .. Len(s) - 1 : SubSeq(s, 1, Len(s) - 1)[k] = s[k]
  <1> DEFINE n == Len(s) - 1
             t == SubSeq(s, 1, n)
  <1>1. Len(s) \in DOMAIN s /\ n \in Nat /\ \A i \in 1 .. n : s[i] \in S
    OBVIOUS
  <1>2. /\ t \in Seq(S)
        /\ Len(t) = IF 1 <= n THEN n - 1 + 1 ELSE 0
        /\ \A i \in 1 .. n - 1 + 1 : t[i] = s[1 + i - 1]
    BY <1>1, SubSeqProperties
  <1> HIDE DEF n, t
  <1>3. DOMAIN t = 1 .. n /\ \A i \in 1 .. n : t[i] = s[i]
    BY <1>1, <1>2
  <1> QED
    BY <1>1, <1>2, <1>3 DEF n, t

LEMMA ReplaceFacts ==
    ASSUME NEW S, NEW s \in Seq(S), NEW i \in DOMAIN s, NEW e \in S
    PROVE  /\ [s EXCEPT ![i] = e] \in Seq(S)
           /\ Len([s EXCEPT ![i] = e]) = Len(s)
           /\ DOMAIN [s EXCEPT ![i] = e] = DOMAIN s
           /\ [s EXCEPT ![i] = e][i] = e
           /\ \A k \in DOMAIN s : k # i => [s EXCEPT ![i] = e][k] = s[k]
  BY ExceptSeq, LenProperties

LEMMA FillFacts ==
    ASSUME NEW S, NEW T, NEW s \in Seq(S), NEW e \in T
    PROVE  /\ [i \in DOMAIN s |-> e] \in Seq(T)
           /\ Len([i \in DOMAIN s |-> e]) = Len(s)
  OBVIOUS

\* A function on 1 .. n is a sequence of length n.
LEMMA FunctionIsSeq ==
    ASSUME NEW S, NEW n \in Nat, NEW f \in [1 .. n -> S]
    PROVE  f \in Seq(S) /\ Len(f) = n /\ DOMAIN f = 1 .. n
  OBVIOUS

(***************************************************************************)
(* Every nonempty set of naturals has a least element.                     *)
(***************************************************************************)
LEMMA LeastElement ==
    ASSUME NEW T \in SUBSET Nat, T # {}
    PROVE  \E x \in T : \A y \in T : x <= y
  <1>1. \A x, y \in Nat : <<y, x>> \in OpToRel(<, Nat) <=> y < x
    BY DEF OpToRel
  <1>2. \E x \in T : \A y \in T : ~ (<<y, x>> \in OpToRel(<, Nat))
    BY NatLessThanWellFounded, WFMin
  <1>3. \E x \in T : \A y \in T : ~(y < x)
    BY <1>1, <1>2, Zenon
  <1> QED
    BY <1>3
\* Facts about numbers and sequences in the form in which they are used: they are
\* stated for constants, and cited for expressions with a prime.
LEMMA Difference ==
    ASSUME NEW i \in Nat, NEW j \in Nat, i <= j
    PROVE  j - i \in Nat /\ i + (j - i) = j /\ (i < j => j - i > 0)
  OBVIOUS

LEMMA Associative ==
    ASSUME NEW S, NEW a \in Seq(S), NEW b \in Seq(S), NEW c \in Seq(S)
    PROVE  (a \o b) \o c = a \o (b \o c)
  BY ConcatAssociative

\* A sequence is what comes up to a position, and what comes after it.
LEMMA SplitAt ==
    ASSUME NEW S, NEW s \in Seq(S), NEW n \in 0 .. Len(s)
    PROVE  SubSeq(s, 1, n) \o SubSeq(s, n + 1, Len(s)) = s
  <1>1. /\ Len(s) \in Nat /\ 1 \in 1 .. Len(s) + 1
        /\ n \in 1 - 1 .. Len(s) /\ Len(s) \in n .. Len(s)
    OBVIOUS
  <1>2. SubSeq(s, 1, n) \o SubSeq(s, n + 1, Len(s)) = SubSeq(s, 1, Len(s))
    BY <1>1, ConcatAdjacentSubSeq, Zenon
  <1> QED
    BY <1>2, SubSeqFull

(***************************************************************************)
(* Sequences whose elements come from no set that is named.                *)
(***************************************************************************)
IsStack(s) == s \in Seq({s[i] : i \in DOMAIN s})

LEMMA IsStackFacts ==
    ASSUME NEW S, NEW t \in Seq(S)
    PROVE  IsStack(t)
  <1> DEFINE T == {t[i] : i \in DOMAIN t}
  <1>1. \A i \in DOMAIN t : t[i] \in T
    OBVIOUS
  <1> HIDE DEF T
  <1>2. Len(t) \in Nat /\ t \in [1 .. Len(t) -> T]
    BY <1>1, LenProperties
  <1>3. t \in Seq(T)
    BY <1>2, FunctionIsSeq
  <1> QED
    BY <1>3 DEF T, IsStack

LEMMA StackFacts ==
    ASSUME NEW s, IsStack(s)
    PROVE  /\ s \in Seq({s[i] : i \in DOMAIN s})
           /\ Len(s) \in Nat /\ DOMAIN s = 1 .. Len(s)
           /\ s # <<>> => Len(s) > 0 /\ 1 \in DOMAIN s
           /\ Len(s) > 0 => s # <<>>
  BY LenProperties, EmptySeq DEF IsStack

LEMMA StackPushed ==
    ASSUME NEW s, IsStack(s), NEW e
    PROVE  /\ IsStack(<<e>> \o s) /\ Len(<<e>> \o s) = Len(s) + 1
           /\ (<<e>> \o s)[1] = e
           /\ \A i \in 1 .. Len(s) : (<<e>> \o s)[i + 1] = s[i]
  <1> DEFINE S == {s[i] : i \in DOMAIN s} \cup {e}
             t == <<e>> \o s
  <1>1. s \in Seq(S) /\ <<e>> \in Seq(S)
    <2>1. \A T, U : T \subseteq U => Seq(T) \subseteq Seq(U)
      BY SeqMonotonic
    <2>2. s \in Seq({s[i] : i \in DOMAIN s}) /\ {s[i] : i \in DOMAIN s} \subseteq S
      BY StackFacts
    <2> QED
      BY <2>1, <2>2
  <1> HIDE DEF S
  <1>2. Len(s) \in Nat /\ Len(<<e>>) = 1 /\ <<e>>[1] = e
    BY <1>1, LenProperties
  <1>3. /\ t \in Seq(S) /\ Len(t) = 1 + Len(s)
        /\ \A i \in 1 .. 1 + Len(s) : t[i] = IF i <= 1 THEN <<e>>[i] ELSE s[i - 1]
    BY <1>1, <1>2, ConcatProperties
  <1> HIDE DEF t
  <1>4. \A i \in 1 .. Len(s) : t[i + 1] = s[i]
    <2> TAKE i \in 1 .. Len(s)
    <2>1. i + 1 \in 1 .. 1 + Len(s) /\ ~(i + 1 <= 1) /\ i + 1 - 1 = i
      BY <1>2
    <2> QED
      BY <1>3, <2>1
  <1>5. t[1] = e
    BY <1>2, <1>3
  <1>6. IsStack(t)
    BY <1>3, IsStackFacts
  <1> QED
    BY <1>2, <1>3, <1>4, <1>5, <1>6 DEF t

LEMMA StackPopped ==
    ASSUME NEW s, IsStack(s), s # <<>>
    PROVE  /\ IsStack(Tail(s)) /\ Len(s) = Len(Tail(s)) + 1
           /\ \A i \in 1 .. Len(Tail(s)) : s[i + 1] = Tail(s)[i]
  <1> DEFINE S == {s[i] : i \in DOMAIN s}
             t == Tail(s)
  <1>1. s \in Seq(S) /\ Len(s) \in Nat /\ Len(s) > 0
    BY StackFacts
  <1> HIDE DEF S
  <1>2. t \in Seq(S) /\ Len(t) = Len(s) - 1 /\ \A i \in 1 .. Len(s) - 1 : t[i] = s[i + 1]
    BY <1>1, HeadTailProperties
  <1> HIDE DEF t
  <1>3. IsStack(t) /\ Len(s) = Len(t) + 1 /\ \A i \in 1 .. Len(t) : s[i + 1] = t[i]
    BY <1>1, <1>2, IsStackFacts
  <1> QED
    BY <1>3 DEF t

(***************************************************************************)
(* Padding and alignment: (-n) % align bytes lead from n to a multiple of  *)
(* the alignment, to the first one there is.                               *)
(***************************************************************************)
LEMMA PaddingBounds ==
    ASSUME NEW n \in Nat, NEW align \in Nat \ {0}
    PROVE  (-n) % align \in Nat /\ (-n) % align < align
  OBVIOUS

LEMMA MultipleHasNoRemainder ==
    ASSUME NEW k \in Int, NEW align \in Nat \ {0}
    PROVE  (align * k) % align = 0
  <1> DEFINE d == (align * k) \div align
             r == (align * k) % align
  <1>1. d \in Int /\ r \in Int /\ 0 <= r /\ r < align /\ align * k = align * d + r
    OBVIOUS
  <1> HIDE DEF d, r
  <1>2. r = align * (k - d)
    BY <1>1
  <1>3. CASE k - d >= 1
    <2>1. align * (k - d) >= align
      BY <1>1, <1>3
    <2> QED
      BY <1>1, <1>2, <2>1
  <1>4. CASE k - d <= -1
    <2>1. align * (k - d) <= -align
      BY <1>1, <1>4
    <2> QED
      BY <1>1, <1>2, <2>1
  <1>5. CASE k - d = 0
    BY <1>2, <1>5 DEF r
  <1> QED
    BY <1>1, <1>3, <1>4, <1>5

LEMMA PaddingAligns ==
    ASSUME NEW n \in Nat, NEW align \in Nat \ {0}
    PROVE  (n + ((-n) % align)) % align = 0
  <1> DEFINE q == (-n) \div align
  <1>1. q \in Int /\ -n = align * q + ((-n) % align)
    OBVIOUS
  <1>2. n + ((-n) % align) = align * (-q)
    BY <1>1
  <1>3. (align * (-q)) % align = 0
    BY <1>1, MultipleHasNoRemainder
  <1> QED
    BY <1>2, <1>3

LEMMA FirstMultiple ==
    ASSUME NEW n \in Nat, NEW at \in Nat, NEW align \in Nat \ {0},
           n <= at, at % align = 0
    PROVE  (-n) % align <= at - n
  <1> DEFINE q == at \div align
             p == (-n) \div align
             r == (-n) % align
  <1>1. q \in Int /\ at = align * q
    OBVIOUS
  <1>2. p \in Int /\ r \in Int /\ 0 <= r /\ r < align /\ -n = align * p + r
    OBVIOUS
  <1> HIDE DEF q, p, r
  <1>3. at - n - r = align * (q + p)
    BY <1>1, <1>2
  <1>4. CASE q + p <= -1
    <2>1. align * (q + p) <= -align
      BY <1>1, <1>2, <1>4
    <2> QED
      BY <1>2, <1>3, <2>1
  <1>5. CASE q + p >= 0
    <2>1. align * (q + p) >= 0
      BY <1>1, <1>2, <1>5
    <2> QED
      BY <1>2, <1>3, <2>1 DEF r
  <1> QED
    BY <1>1, <1>2, <1>4, <1>5

(***************************************************************************)
(* A division guards a multiplication: what needs no more than there is    *)
(* passes it, and what passes it needs no more.                            *)
(***************************************************************************)
LEMMA ProductFitsQuotient ==
    ASSUME NEW count \in Nat, NEW size \in Nat \ {0}, NEW room \in Nat,
           count * size <= room
    PROVE  count <= room \div size
  <1> DEFINE q == room \div size
  <1>1. q \in Nat /\ room < size * (q + 1)
    OBVIOUS
  <1> HIDE DEF q
  <1>2. CASE count >= q + 1
    <2>1. size * count >= size * (q + 1)
      BY <1>1, <1>2
    <2> QED
      BY <1>1, <2>1
  <1> QED
    BY <1>1, <1>2 DEF q

LEMMA QuotientGuardsProduct ==
    ASSUME NEW count \in Nat, NEW size \in Nat \ {0}, NEW room \in Nat,
           count <= room \div size
    PROVE  count * size \in Nat /\ count * size <= room
  <1>1. room \div size \in Nat /\ size * (room \div size) <= room
    OBVIOUS
  <1>2. count * size <= (room \div size) * size
    BY <1>1
  <1> QED
    BY <1>1, <1>2
=============================================================================
