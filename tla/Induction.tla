----------------------------- MODULE Induction -----------------------------
(***************************************************************************)
(* Induction over the natural numbers as a statement about sets, which the *)
(* proofs about recursive functions apply to the set of numbers for which  *)
(* the function is what it should be; and what follows for sequences.      *)
(***************************************************************************)
EXTENDS WellFoundedInduction, SequencesExt, SequenceTheorems, Integers, TLAPS

Before == {ss \in Nat \X Nat : ss[1] < ss[2]}

\* No sequence of natural numbers descends for ever.
LEMMA BeforeIsWellFounded == IsWellFoundedOn(Before, Nat)
  <1>1. Before = OpToRel(<, Nat)
    BY DEF Before, OpToRel
  <1> QED
    BY <1>1, NatLessThanWellFounded

\* A set of natural numbers has a least element.
LEMMA LeastElement ==
  ASSUME NEW S \in SUBSET Nat, S # {}
  PROVE  \E x \in S : \A y \in S : x <= y
  <1>1. PICK x \in S : \A y \in S : ~(<<y, x>> \in Before)
    BY BeforeIsWellFounded, WFMin
  <1>2. ASSUME NEW y \in S PROVE x <= y
    <2>1. x \in Nat /\ y \in Nat /\ <<y, x>> \in Nat \X Nat
      OBVIOUS
    <2>2. ~(y < x)
      BY <1>1, <2>1 DEF Before
    <2> QED
      BY <2>1, <2>2
  <1> QED
    BY <1>2

\* A set that holds 0 and, with a number, the next one, holds all of them.
LEMMA NatInd ==
  ASSUME NEW S, 0 \in S, \A n \in Nat : n \in S => n + 1 \in S
  PROVE  Nat \subseteq S
  <1> SUFFICES ASSUME Nat \ S # {} PROVE FALSE
    OBVIOUS
  <1>1. PICK x \in Nat \ S : \A y \in Nat \ S : x <= y
    BY LeastElement
  <1>2. x # 0 /\ x - 1 \in Nat
    BY <1>1
  <1>3. x - 1 \in S
    BY <1>1, <1>2
  <1> QED
    BY <1>1, <1>2, <1>3

\* A set that holds the empty sequence and, with a sequence, the ones that are
\* longer by one element, holds all of them.
LEMMA SeqInd ==
  ASSUME NEW C, NEW S, << >> \in S,
         \A s \in Seq(C), c \in C : s \in S => Append(s, c) \in S
  PROVE  Seq(C) \subseteq S
  <1> DEFINE T == {n \in Nat : \A s \in Seq(C) : Len(s) = n => s \in S}
  <1>1. 0 \in T
    BY EmptySeq
  <1>2. ASSUME NEW n \in Nat, n \in T PROVE n + 1 \in T
    <2> SUFFICES ASSUME NEW s \in Seq(C), Len(s) = n + 1 PROVE s \in S
      OBVIOUS
    <2>1. s # << >>
      BY EmptySeq
    <2>2. PICK t \in Seq(C), c \in C : s = Append(t, c)
      BY <2>1, SequenceEmptyOrAppend
    <2>3. Len(t) = n
      BY <2>2, AppendProperties, LenProperties
    <2> QED
      BY <1>2, <2>2, <2>3
  <1> HIDE DEF T
  <1>3. Nat \subseteq T
    BY <1>1, <1>2, NatInd
  <1> QED
    BY <1>3, LenProperties DEF T

LEMMA AppendPair ==
  ASSUME NEW a, NEW b PROVE Append(<<a>>, b) = <<a, b>>
  <1> DEFINE C == {a, b}
             e == <<a>>
             t == <<a, b>>
  <1>1. t \in Seq(C) /\ Len(t) = 2 /\ t[1] = a /\ t[2] = b
    OBVIOUS
  <1>2. e \in Seq(C) /\ Len(e) = 1 /\ e[1] = a /\ b \in C
    OBVIOUS
  <1> HIDE DEF C, e, t
  <1>3. /\ Append(e, b) \in Seq(C)
        /\ Len(Append(e, b)) = Len(e) + 1
        /\ \A i \in 1 .. Len(e) : Append(e, b)[i] = e[i]
        /\ Append(e, b)[Len(e) + 1] = b
    <2>1. ASSUME NEW D, NEW x \in Seq(D), NEW y \in D
          PROVE  /\ Append(x, y) \in Seq(D)
                 /\ Len(Append(x, y)) = Len(x) + 1
                 /\ \A i \in 1 .. Len(x) : Append(x, y)[i] = x[i]
                 /\ Append(x, y)[Len(x) + 1] = y
      BY AppendProperties
    <2> QED
      BY <1>2, <2>1
  <1>4. Append(e, b)[1] = a /\ Append(e, b)[2] = b /\ Len(Append(e, b)) = 2
    BY <1>2, <1>3
  <1>5. \A i \in 1 .. 2 : Append(e, b)[i] = t[i]
    BY <1>1, <1>4
  <1>6. Append(e, b) = t
    BY <1>1, <1>3, <1>4, <1>5, SeqEqual
  <1> QED
    BY <1>6 DEF e, t

-----------------------------------------------------------------------------
(* FlattenSeq.                                                             *)

\* The sums of the first sequences exist.
LEMMA FlattenExists ==
  ASSUME NEW s, NEW n \in Nat
  PROVE  \E g : g = [i \in 1 .. n |-> IF i = 1 THEN s[i] ELSE g[i - 1] \o s[i]]
  <1> DEFINE S == {k \in Nat : \E g : g = [i \in 1 .. k |->
                      IF i = 1 THEN s[i] ELSE g[i - 1] \o s[i]]}
  <1>1. 0 \in S
    <2> DEFINE g == [i \in 1 .. 0 |-> s[i]]
    <2>1. g = [i \in 1 .. 0 |-> IF i = 1 THEN s[i] ELSE g[i - 1] \o s[i]]
      OBVIOUS
    <2> QED
      BY <2>1
  <1>2. ASSUME NEW k \in Nat, k \in S PROVE k + 1 \in S
    <2>1. PICK g : g = [i \in 1 .. k |-> IF i = 1 THEN s[i] ELSE g[i - 1] \o s[i]]
      BY <1>2
    <2> DEFINE h == [i \in 1 .. k + 1 |->
                       IF i <= k THEN g[i] ELSE IF i = 1 THEN s[i] ELSE g[k] \o s[i]]
    <2>2. ASSUME NEW i \in 1 .. k + 1
          PROVE  h[i] = IF i = 1 THEN s[i] ELSE h[i - 1] \o s[i]
      <3>1. CASE i = 1
        <4>1. k # 0 => g[1] = s[1]
          BY <2>1
        <4> QED
          BY <3>1, <4>1
      <3>2. CASE i # 1 /\ i <= k
        <4>1. i \in 1 .. k /\ i - 1 \in 1 .. k /\ i - 1 \in 1 .. k + 1
          BY <3>2
        <4>2. g[i] = g[i - 1] \o s[i]
          BY <2>1, <3>2, <4>1
        <4>3. h[i] = g[i] /\ h[i - 1] = g[i - 1]
          BY <3>2, <4>1
        <4> QED
          BY <3>2, <4>2, <4>3
      <3>3. CASE i # 1 /\ i = k + 1
        <4>1. ~(i <= k) /\ i - 1 = k /\ k <= k /\ k \in 1 .. k + 1
          BY <3>3
        <4>2. h[i] = g[k] \o s[i]
          BY <3>3, <4>1
        <4>3. h[i - 1] = g[k]
          BY <4>1
        <4> QED
          BY <3>3, <4>2, <4>3
      <3> QED
        BY <3>1, <3>2, <3>3
    <2>3. h = [i \in 1 .. k + 1 |-> IF i = 1 THEN s[i] ELSE h[i - 1] \o s[i]]
      BY <2>2
    <2> HIDE DEF h
    <2>4. \E f : f = [i \in 1 .. k + 1 |-> IF i = 1 THEN s[i] ELSE f[i - 1] \o s[i]]
      BY <2>3
    <2>5. k + 1 \in Nat
      OBVIOUS
    <2> QED
      BY <2>4, <2>5
  <1> HIDE DEF S
  <1>3. n \in S
    BY <1>1, <1>2, NatInd
  <1> QED
    BY <1>3 DEF S

LEMMA FlattenRuns ==
  ASSUME NEW s, Len(s) \in Nat \ {0}
  PROVE  \E g : /\ g = [i \in 1 .. Len(s) |-> IF i = 1 THEN s[i] ELSE g[i - 1] \o s[i]]
                /\ FlattenSeq(s) = g[Len(s)]
  <1> DEFINE g == CHOOSE g : g = [i \in 1 .. Len(s) |->
                                  IF i = 1 THEN s[i] ELSE g[i - 1] \o s[i]]
  <1>1. g = [i \in 1 .. Len(s) |-> IF i = 1 THEN s[i] ELSE g[i - 1] \o s[i]]
    BY FlattenExists
  <1>2. FlattenSeq(s) = g[Len(s)]
    BY DEF FlattenSeq
  <1> HIDE DEF g
  <1> QED
    BY <1>1, <1>2

LEMMA FlattenEmpty == FlattenSeq(<< >>) = << >>
  BY DEF FlattenSeq

\* g[i] is the concatenation of s[1] to s[i].
Sums(g, s, k) ==
    \A i \in 1 .. k : g[i] = IF i = 1 THEN s[i] ELSE g[i - 1] \o s[i]

\* Two sums agree as far as what is summed up does.
LEMMA FlattenAgree ==
  ASSUME NEW s, NEW t, NEW g, NEW h, NEW k \in Nat \ {0},
         \A i \in 1 .. k : s[i] = t[i], Sums(g, s, k), Sums(h, t, k)
  PROVE  g[k] = h[k]
  <1> DEFINE S == {j \in Nat : j \in 1 .. k => g[j] = h[j]}
  <1>1. 0 \in S
    OBVIOUS
  <1>2. ASSUME NEW j \in Nat, j \in S PROVE j + 1 \in S
    <2> SUFFICES ASSUME j + 1 \in 1 .. k PROVE g[j + 1] = h[j + 1]
      OBVIOUS
    <2>1. s[j + 1] = t[j + 1] /\ (j + 1) - 1 = j
      OBVIOUS
    <2>2. g[j + 1] = IF j + 1 = 1 THEN s[j + 1] ELSE g[j] \o s[j + 1]
      BY <2>1 DEF Sums
    <2>3. h[j + 1] = IF j + 1 = 1 THEN t[j + 1] ELSE h[j] \o t[j + 1]
      BY <2>1 DEF Sums
    <2>4. j + 1 # 1 => g[j] = h[j]
      BY <1>2
    <2> QED
      BY <2>1, <2>2, <2>3, <2>4
  <1> HIDE DEF S
  <1>3. k \in S
    BY <1>1, <1>2, NatInd
  <1> QED
    BY <1>3 DEF S

LEMMA FlattenAppend ==
  ASSUME NEW C, NEW s \in Seq(Seq(C)), NEW b \in Seq(C)
  PROVE  FlattenSeq(Append(s, b)) = FlattenSeq(s) \o b
  <1> DEFINE t == Append(s, b)
             n == Len(s)
  <1>1. /\ t \in Seq(Seq(C)) /\ Len(t) = n + 1 /\ n \in Nat
        /\ \A i \in 1 .. n : t[i] = s[i]
        /\ t[n + 1] = b
    BY AppendProperties, LenProperties
  <1> HIDE DEF t
  <1> HIDE DEF n
  <1>0. Len(t) \in Nat \ {0}
    BY <1>1
  <1>2. PICK h : /\ h = [i \in 1 .. Len(t) |-> IF i = 1 THEN t[i] ELSE h[i - 1] \o t[i]]
                 /\ FlattenSeq(t) = h[Len(t)]
    BY <1>0, FlattenRuns
  <1>5. h = [i \in 1 .. n + 1 |-> IF i = 1 THEN t[i] ELSE h[i - 1] \o t[i]]
    BY <1>1, <1>2
  <1>3. CASE n = 0
    <2>1. s = << >> /\ h[n + 1] = b
      <3>1. s = << >>
        BY <1>3, EmptySeq DEF n
      <3>2. h[n + 1] = t[n + 1]
        BY <1>3, <1>5
      <3> QED
        BY <1>1, <3>1, <3>2
    <2>2. << >> \o b = b
      BY ConcatEmptySeq
    <2> QED
      BY <1>1, <1>2, <2>1, <2>2, FlattenEmpty DEF t
  <1>4. CASE n # 0
    <2>1. PICK g : /\ g = [i \in 1 .. n |-> IF i = 1 THEN s[i] ELSE g[i - 1] \o s[i]]
                   /\ FlattenSeq(s) = g[n]
      BY <1>1, <1>4, FlattenRuns DEF n
    <2>2. n \in Nat \ {0}
      BY <1>1, <1>4
    <2>8. \A i \in 1 .. n : s[i] = t[i]
      BY <1>1
    <2>9. \A i \in 1 .. n : i \in 1 .. n + 1
      BY <1>1
    <2>6. Sums(g, s, n)
      BY <2>1 DEF Sums
    <2>7. Sums(h, t, n)
      BY <1>5, <2>9 DEF Sums
    <2>3. g[n] = h[n]
      BY <2>2, <2>6, <2>7, <2>8, FlattenAgree
    <2>4. n + 1 \in 1 .. n + 1 /\ n + 1 # 1 /\ (n + 1) - 1 = n
      BY <2>2
    <2>5. h[n + 1] = h[n] \o t[n + 1]
      BY <1>5, <2>4
    <2> QED
      BY <1>1, <1>2, <2>1, <2>3, <2>5 DEF t
  <1> QED
    BY <1>3, <1>4

LEMMA FlattenType ==
  ASSUME NEW C, NEW s \in Seq(Seq(C)) PROVE FlattenSeq(s) \in Seq(C)
  <1> DEFINE S == {x \in Seq(Seq(C)) : FlattenSeq(x) \in Seq(C)}
  <1>1. << >> \in S
    BY FlattenEmpty, EmptySeq
  <1>2. ASSUME NEW x \in Seq(Seq(C)), NEW b \in Seq(C), x \in S
        PROVE  Append(x, b) \in S
    BY <1>2, FlattenAppend, ConcatProperties, AppendProperties
  <1> HIDE DEF S
  <1>3. Seq(Seq(C)) \subseteq S
    BY <1>1, <1>2, SeqInd
  <1> QED
    BY <1>3 DEF S
=============================================================================
