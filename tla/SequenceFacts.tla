--------------------------- MODULE SequenceFacts ---------------------------
(***************************************************************************)
(* Facts about sequences of any length, by induction: on a set of numbers, *)
(* since the theorems of NaturalsInduction take an operator.  FlattenSeq   *)
(* is the only recursive definition the properties of this project use.    *)
(***************************************************************************)
EXTENDS SequencesExt, SequenceTheorems, WellFoundedInduction, TLAPS

-----------------------------------------------------------------------------
(* Numbers.                                                                *)

LEMMA LeastNumber ==
    ASSUME NEW T, T \subseteq Nat, T # {}
    PROVE  \E n \in T : \A m \in T : n <= m
<1> DEFINE R == {pair \in Nat \X Nat : pair[1] < pair[2]}
<1>1. R = OpToRel(<, Nat)
  BY DEF OpToRel
<1>2. IsWellFoundedOn(R, Nat)
  BY <1>1, NatLessThanWellFounded
<1>3. \A x, y \in Nat : <<y, x>> \in R <=> y < x
  OBVIOUS
<1> HIDE DEF R
<1>4. PICK n \in T : \A m \in T : ~ (<<m, n>> \in R)
  BY <1>2, WFMin
<1>5. ASSUME NEW m \in T PROVE n <= m
  <2>1. m \in Nat /\ n \in Nat
    OBVIOUS
  <2>2. ~ (m < n)
    BY ONLY <1>3, <1>4, <2>1, m \in T
  <2> QED
    BY ONLY <2>1, <2>2
<1> QED
  BY <1>5

\* What holds of 0, and of n + 1 if it holds of n, holds of every number.
LEMMA InductionOnSet ==
    ASSUME NEW T, 0 \in T, \A n \in Nat : n \in T => n + 1 \in T
    PROVE  \A n \in Nat : n \in T
<1> DEFINE Others == {n \in Nat : n \notin T}
<1>1. ASSUME Others # {} PROVE FALSE
  <2>1. PICK n \in Others : \A m \in Others : n <= m
    BY <1>1, LeastNumber
  <2>2. n - 1 \in Nat /\ n - 1 \notin Others
    BY <2>1
  <2> QED
    BY <2>1, <2>2
<1> QED
  BY <1>1

\* The largest number of a bounded set, as Max chooses it.
LEMMA MaxOfBounded ==
    ASSUME NEW n \in Nat, NEW I, I \subseteq 1..n, I # {}
    PROVE  Max(I) \in I /\ \A i \in I : i <= Max(I)
<1> DEFINE T == {n - i : i \in I}
<1>0. \A i \in I : i \in 1..n
  OBVIOUS
<1>1. T \subseteq Nat /\ T # {}
  <2>1. \A i \in 1..n : n - i \in Nat
    OBVIOUS
  <2>2. \A t \in T : t \in Nat
    BY <1>0, <2>1
  <2> QED
    BY <2>2
<1>2. PICK t \in T : \A m \in T : t <= m
  BY <1>1, LeastNumber
<1>3. PICK k \in I : t = n - k
  OBVIOUS
<1>4. \A i \in I : n - k <= n - i
  BY <1>2, <1>3
<1>5. ASSUME NEW i \in I PROVE k >= i
  <2>1. i \in 1..n /\ k \in 1..n /\ n - k <= n - i
    BY <1>0, <1>4
  <2> QED
    BY ONLY <2>1, n \in Nat
<1>6. \E x \in I : \A y \in I : x >= y
  BY <1>5
<1>7. Max(I) \in I /\ \A i \in I : Max(I) >= i
  BY <1>6 DEF Max
<1> QED
  BY <1>0, <1>7

LEMMA MinOfNumbers ==
    ASSUME NEW I, I \subseteq Nat, I # {}
    PROVE  Min(I) \in I /\ \A i \in I : Min(I) <= i
<1>1. \E x \in I : \A y \in I : x <= y
  BY LeastNumber
<1> QED
  BY <1>1 DEF Min

-----------------------------------------------------------------------------
(* FlattenSeq.                                                             *)

\* f[i] is what the first i of n sequences come to.
Flattens(f, n, ss) == \A i \in 1..n : f[i] = IF i = 1 THEN ss[i] ELSE f[i - 1] \o ss[i]

LEMMA FlattenExists ==
    ASSUME NEW S, NEW ss \in Seq(Seq(S))
    PROVE  \E f \in [1..Len(ss) -> Seq(S)] : Flattens(f, Len(ss), ss)
<1> DEFINE T == {n \in Nat : n <= Len(ss) => \E f \in [1..n -> Seq(S)] : Flattens(f, n, ss)}
<1>1. 0 \in T
  <2>1. \A f : Flattens(f, 0, ss)
    BY DEF Flattens
  <2>2. [i \in 1..0 |-> <<>>] \in [1..0 -> Seq(S)]
    OBVIOUS
  <2> QED
    BY <2>1, <2>2
<1>2. ASSUME NEW n \in Nat, n \in T PROVE n + 1 \in T
  <2>0. ASSUME n + 1 <= Len(ss) PROVE \E f \in [1..n + 1 -> Seq(S)] : Flattens(f, n + 1, ss)
    <3>1. PICK f \in [1..n -> Seq(S)] : Flattens(f, n, ss)
      BY <1>2, <2>0
    <3> DEFINE last == IF n = 0 THEN ss[1] ELSE f[n] \o ss[n + 1]
               g    == [i \in 1..n + 1 |-> IF i = n + 1 THEN last ELSE f[i]]
    <3>2. last \in Seq(S)
      <4>1. ss[n + 1] \in Seq(S)
        BY <2>0
      <4>2. n # 0 => f[n] \in Seq(S)
        OBVIOUS
      <4> QED
        BY <4>1, <4>2
    <3>3. g \in [1..n + 1 -> Seq(S)]
      BY <3>2
    <3>4. ASSUME NEW i \in 1..n + 1 PROVE g[i] = IF i = 1 THEN ss[i] ELSE g[i - 1] \o ss[i]
      <4>1. CASE i = n + 1
        BY <4>1
      <4>2. CASE i # n + 1
        <5>1. i \in 1..n /\ g[i] = f[i] /\ (i # 1 => g[i - 1] = f[i - 1])
          BY <4>2
        <5>2. f[i] = IF i = 1 THEN ss[i] ELSE f[i - 1] \o ss[i]
          BY <3>1, <5>1 DEF Flattens
        <5> QED
          BY <5>1, <5>2
      <4> QED
        BY <4>1, <4>2
    <3> HIDE DEF g
    <3>5. Flattens(g, n + 1, ss)
      BY <3>4 DEF Flattens
    <3> QED
      BY <3>3, <3>5
  <2> QED
    BY <2>0
<1> HIDE DEF T
<1>3. Len(ss) \in T
  BY <1>1, <1>2, InductionOnSet
<1> QED
  BY <1>3 DEF T

LEMMA FlattenUnique ==
    ASSUME NEW n \in Nat, NEW ss, NEW f, NEW g, Flattens(f, n, ss), Flattens(g, n, ss)
    PROVE  \A i \in 1..n : f[i] = g[i]
<1> DEFINE T == {i \in Nat : i \in 1..n => f[i] = g[i]}
<1>1. 0 \in T
  OBVIOUS
<1>2. ASSUME NEW i \in Nat, i \in T PROVE i + 1 \in T
  BY <1>2 DEF Flattens
<1> HIDE DEF T
<1>3. \A i \in Nat : i \in T
  BY <1>1, <1>2, InductionOnSet
<1> QED
  BY <1>3 DEF T

LEMMA FlattenIs ==
    ASSUME NEW S, NEW ss \in Seq(Seq(S)), Len(ss) # 0
    PROVE  \E f \in [1..Len(ss) -> Seq(S)] :
               Flattens(f, Len(ss), ss) /\ FlattenSeq(ss) = f[Len(ss)]
<1>1. PICK g \in [1..Len(ss) -> Seq(S)] : Flattens(g, Len(ss), ss)
  BY FlattenExists
<1>2. g = [i \in 1..Len(ss) |-> IF i = 1 THEN ss[i] ELSE g[i - 1] \o ss[i]]
  BY <1>1 DEF Flattens
<1>3. PICK f : /\ f = [i \in 1..Len(ss) |-> IF i = 1 THEN ss[i] ELSE f[i - 1] \o ss[i]]
               /\ FlattenSeq(ss) = f[Len(ss)]
  BY <1>2 DEF FlattenSeq
<1>4. Flattens(f, Len(ss), ss)
  <2> SUFFICES ASSUME NEW i \in 1..Len(ss)
               PROVE  f[i] = IF i = 1 THEN ss[i] ELSE f[i - 1] \o ss[i]
    BY DEF Flattens
  <2> QED
    BY <1>3
<1>5. \A i \in 1..Len(ss) : f[i] = g[i]
  BY <1>1, <1>4, FlattenUnique
<1>6. f = g
  <2>1. f = [i \in 1..Len(ss) |-> f[i]] /\ g = [i \in 1..Len(ss) |-> g[i]]
    BY <1>3
  <2> QED
    BY <1>5, <2>1
<1> QED
  BY <1>1, <1>3, <1>6

LEMMA FlattenEmpty == FlattenSeq(<<>>) = <<>>
  BY DEF FlattenSeq

LEMMA FlattenType ==
    ASSUME NEW S, NEW ss \in Seq(Seq(S))
    PROVE  FlattenSeq(ss) \in Seq(S)
<1>1. CASE Len(ss) = 0
  <2>1. ss = <<>> /\ <<>> \in Seq(S)
    BY <1>1
  <2> QED
    BY <2>1, FlattenEmpty
<1>2. CASE Len(ss) # 0
  <2>1. PICK f \in [1..Len(ss) -> Seq(S)] : Flattens(f, Len(ss), ss) /\ FlattenSeq(ss) = f[Len(ss)]
    BY <1>2, FlattenIs
  <2>2. Len(ss) \in 1..Len(ss)
    BY <1>2
  <2> QED
    BY <2>1, <2>2
<1> QED
  BY <1>1, <1>2

LEMMA FlattenAppend ==
    ASSUME NEW S, NEW ss \in Seq(Seq(S)), NEW s \in Seq(S)
    PROVE  FlattenSeq(Append(ss, s)) = FlattenSeq(ss) \o s
<1> SUFFICES ASSUME NEW n \in Nat, Len(ss) = n
             PROVE  FlattenSeq(Append(ss, s)) = FlattenSeq(ss) \o s
  OBVIOUS
<1> DEFINE tt == Append(ss, s)
<1>1. tt \in Seq(Seq(S)) /\ Len(tt) = n + 1 /\ n \in Nat /\ tt[n + 1] = s /\ \A i \in 1..n : tt[i] = ss[i]
  OBVIOUS
<1> HIDE DEF tt
<1>2. PICK g \in [1..n + 1 -> Seq(S)] : Flattens(g, n + 1, tt) /\ FlattenSeq(tt) = g[n + 1]
  <2>1. Len(tt) # 0
    BY <1>1
  <2>2. \E g \in [1..Len(tt) -> Seq(S)] : Flattens(g, Len(tt), tt) /\ FlattenSeq(tt) = g[Len(tt)]
    BY <1>1, <2>1, FlattenIs
  <2> QED
    BY <1>1, <2>2
<1>3. CASE n = 0
  <2>1. FlattenSeq(tt) = s
    BY <1>1, <1>2, <1>3 DEF Flattens
  <2>2. ss = <<>>
    BY <1>3
  <2> QED
    BY <2>1, <2>2, FlattenEmpty DEF tt
<1>4. CASE n # 0
  <2>1. FlattenSeq(tt) = g[n] \o s
    <3>1. n + 1 \in 1..n + 1 /\ n + 1 # 1 /\ (n + 1) - 1 = n
      BY <1>1, <1>4
    <3>2. g[n + 1] = g[(n + 1) - 1] \o tt[n + 1]
      BY <1>2, <3>1 DEF Flattens
    <3> QED
      BY <1>1, <1>2, <3>1, <3>2
  <2>2. PICK f : Flattens(f, n, ss) /\ FlattenSeq(ss) = f[n]
    BY <1>4, FlattenIs
  <2>3. Flattens(g, n, ss)
    <3> SUFFICES ASSUME NEW i \in 1..n PROVE g[i] = IF i = 1 THEN ss[i] ELSE g[i - 1] \o ss[i]
      BY DEF Flattens
    <3>1. i \in 1..n + 1 /\ tt[i] = ss[i]
      BY <1>1
    <3> QED
      BY <1>2, <3>1 DEF Flattens
  <2>4. f[n] = g[n]
    <3>1. n \in 1..n
      BY <1>1, <1>4
    <3>0. Flattens(f, n, ss) /\ Flattens(g, n, ss) /\ n \in Nat
      BY <1>1, <2>2, <2>3
    <3>2. \A i \in 1..n : f[i] = g[i]
      BY <3>0, FlattenUnique
    <3> QED
      BY <3>1, <3>2
  <2> QED
    BY <2>1, <2>2, <2>4 DEF tt
<1> QED
  BY <1>3, <1>4

\* A sequence that is not empty has a front and a last element.
LEMMA FrontAndLast ==
    ASSUME NEW S, NEW s \in Seq(S), Len(s) # 0
    PROVE  \E front \in Seq(S) : \E x \in S : s = Append(front, x)
<1> DEFINE n     == Len(s) - 1
           front == [i \in 1..n |-> s[i]]
<1>1. n \in Nat /\ \A i \in 1..n + 1 : s[i] \in S
  OBVIOUS
<1>2. front \in Seq(S) /\ Len(front) = n
  BY <1>1
<1>3. s[n + 1] \in S /\ s = Append(front, s[n + 1])
  BY <1>1
<1> QED
  BY <1>2, <1>3

LEMMA Associative == \A S : \A u, v, w \in Seq(S) : (u \o v) \o w = u \o (v \o w)
  BY ConcatAssociative

LEMMA FlattenConcat ==
    ASSUME NEW S, NEW ss \in Seq(Seq(S)), NEW tt \in Seq(Seq(S))
    PROVE  FlattenSeq(ss \o tt) = FlattenSeq(ss) \o FlattenSeq(tt)
<1> DEFINE T == {n \in Nat : \A t \in Seq(Seq(S)) :
                                 Len(t) = n => FlattenSeq(ss \o t) = FlattenSeq(ss) \o FlattenSeq(t)}
<1>0. FlattenSeq(ss) \in Seq(S)
  BY FlattenType
<1>1. 0 \in T
  <2> SUFFICES ASSUME NEW t \in Seq(Seq(S)), Len(t) = 0
               PROVE  FlattenSeq(ss \o t) = FlattenSeq(ss) \o FlattenSeq(t)
    OBVIOUS
  <2>1. t = <<>> /\ ss \o t = ss
    OBVIOUS
  <2> QED
    BY <1>0, <2>1, FlattenEmpty
<1>2. ASSUME NEW n \in Nat, n \in T PROVE n + 1 \in T
  <2> SUFFICES ASSUME NEW t \in Seq(Seq(S)), Len(t) = n + 1
               PROVE  FlattenSeq(ss \o t) = FlattenSeq(ss) \o FlattenSeq(t)
    OBVIOUS
  <2>0. \E front \in Seq(Seq(S)) : \E x \in Seq(S) : t = Append(front, x)
    <3>1. Len(t) # 0
      OBVIOUS
    <3> QED
      BY <3>1, FrontAndLast
  <2>1. PICK front \in Seq(Seq(S)), x \in Seq(S) : t = Append(front, x) /\ Len(front) = n
    BY <2>0
  <2>2. ss \o t = Append(ss \o front, x) /\ ss \o front \in Seq(Seq(S))
    BY <2>1
  <2>3. FlattenSeq(ss \o t) = FlattenSeq(ss \o front) \o x
    BY <2>2, FlattenAppend
  <2>4. FlattenSeq(ss \o front) = FlattenSeq(ss) \o FlattenSeq(front)
    BY <1>2, <2>1
  <2>5. FlattenSeq(t) = FlattenSeq(front) \o x
    BY <2>1, FlattenAppend
  <2>6. FlattenSeq(front) \in Seq(S)
    BY FlattenType
  <2> QED
    <3>1. (FlattenSeq(ss) \o FlattenSeq(front)) \o x = FlattenSeq(ss) \o (FlattenSeq(front) \o x)
      BY ONLY <1>0, <2>6, x \in Seq(S), Associative
    <3> QED
      BY ONLY <2>3, <2>4, <2>5, <3>1
<1> HIDE DEF T
<1>3. Len(tt) \in T
  <2>1. \A n \in Nat : n \in T
    BY <1>1, <1>2, InductionOnSet
  <2> QED
    BY <2>1
<1> QED
  BY <1>3 DEF T

\* Sequences of one element each.
LEMMA FlattenSingles ==
    ASSUME NEW S, NEW s \in Seq(S)
    PROVE  FlattenSeq([i \in DOMAIN s |-> <<s[i]>>]) = s
<1> DEFINE Singles(t) == [i \in DOMAIN t |-> <<t[i]>>]
           T == {n \in Nat : \A t \in Seq(S) : Len(t) = n => FlattenSeq(Singles(t)) = t}
<1>1. 0 \in T
  <2> SUFFICES ASSUME NEW t \in Seq(S), Len(t) = 0 PROVE FlattenSeq(Singles(t)) = t
    OBVIOUS
  <2>1. t = <<>> /\ Singles(t) = <<>>
    OBVIOUS
  <2> QED
    BY <2>1, FlattenEmpty
<1>2. ASSUME NEW n \in Nat, n \in T PROVE n + 1 \in T
  <2> SUFFICES ASSUME NEW t \in Seq(S), Len(t) = n + 1 PROVE FlattenSeq(Singles(t)) = t
    OBVIOUS
  <2>0. \E front \in Seq(S) : \E x \in S : t = Append(front, x)
    <3>1. Len(t) # 0
      OBVIOUS
    <3> QED
      BY <3>1, FrontAndLast
  <2>1. PICK front \in Seq(S), x \in S : t = Append(front, x) /\ Len(front) = n
    BY <2>0
  <2>2. Singles(front) \in Seq(Seq(S)) /\ <<x>> \in Seq(S)
    BY <2>1
  <2>3. Singles(t) = Append(Singles(front), <<x>>)
    BY <2>1
  <2>4. FlattenSeq(Singles(t)) = FlattenSeq(Singles(front)) \o <<x>>
    BY <2>2, <2>3, FlattenAppend
  <2>5. FlattenSeq(Singles(front)) = front
    BY <1>2, <2>1
  <2>6. front \o <<x>> = Append(front, x)
    OBVIOUS
  <2> HIDE DEF Singles
  <2> QED
    BY <2>1, <2>4, <2>5, <2>6
<1> HIDE DEF T
<1>3. Len(s) \in T
  BY <1>1, <1>2, InductionOnSet
<1> QED
  BY <1>3 DEF T

\* Sequences that are all empty.
LEMMA FlattenNothing ==
    ASSUME NEW S, NEW ss \in Seq(Seq(S)), \A i \in 1..Len(ss) : ss[i] = <<>>
    PROVE  FlattenSeq(ss) = <<>>
<1>1. CASE Len(ss) = 0
  BY <1>1, FlattenEmpty
<1>2. CASE Len(ss) # 0
  <2>1. PICK f \in [1..Len(ss) -> Seq(S)] : Flattens(f, Len(ss), ss) /\ FlattenSeq(ss) = f[Len(ss)]
    BY <1>2, FlattenIs
  <2> DEFINE g == [i \in 1..Len(ss) |-> <<>>]
  <2>2. Flattens(g, Len(ss), ss)
    <3>1. <<>> \o <<>> = <<>>
      OBVIOUS
    <3>2. \A i \in 1..Len(ss) : i # 1 => i - 1 \in 1..Len(ss)
      OBVIOUS
    <3>3. ASSUME NEW i \in 1..Len(ss) PROVE g[i] = IF i = 1 THEN ss[i] ELSE g[i - 1] \o ss[i]
      BY <3>1, <3>2
    <3> HIDE DEF g
    <3> QED
      BY <3>3 DEF Flattens
  <2>3. f[Len(ss)] = g[Len(ss)]
    BY <1>2, <2>1, <2>2, FlattenUnique
  <2> QED
    BY <1>2, <2>1, <2>3
<1> QED
  BY <1>1, <1>2

LEMMA PrefixOfConcat ==
    ASSUME NEW S, NEW s \in Seq(S), NEW t \in Seq(S)
    PROVE  IsPrefix(s, s \o t)
  BY DEF IsPrefix

LEMMA PrefixOfLonger ==
    ASSUME NEW S, NEW s \in Seq(S), NEW t \in Seq(S), NEW u \in Seq(S), IsPrefix(s, t)
    PROVE  IsPrefix(s, t \o u)
  BY DEF IsPrefix

-----------------------------------------------------------------------------
(* What a function makes of the elements of a sequence, strung together.   *)

Gather(h, s) == FlattenSeq([i \in DOMAIN s |-> h[s[i]]])

\* The functions that make a sequence over S of each element of A.
Makes(A, S) == [A -> Seq(S)]

\* The sequences that h makes of the elements of s.
LEMMA Gathered ==
    ASSUME NEW A, NEW S, NEW h \in Makes(A, S), NEW s \in Seq(A)
    PROVE  /\ [i \in DOMAIN s |-> h[s[i]]] \in Seq(Seq(S))
           /\ Gather(h, s) \in Seq(S)
<1> DEFINE hs == [i \in DOMAIN s |-> h[s[i]]]
<1>1. DOMAIN s = 1..Len(s) /\ Len(s) \in Nat /\ \A i \in 1..Len(s) : h[s[i]] \in Seq(S)
  BY DEF Makes
<1>2. hs \in Seq(Seq(S))
  BY <1>1
<1> HIDE DEF hs
<1>3. FlattenSeq(hs) \in Seq(S)
  BY <1>2, FlattenType
<1> QED
  BY <1>2, <1>3 DEF hs, Gather

LEMMA GatherEmpty == \A h : Gather(h, <<>>) = <<>>
<1> SUFFICES ASSUME NEW h PROVE Gather(h, <<>>) = <<>>
  OBVIOUS
<1>1. [i \in DOMAIN <<>> |-> h[<<>>[i]]] = <<>>
  OBVIOUS
<1> QED
  BY <1>1, FlattenEmpty DEF Gather

LEMMA GatherConcat ==
    ASSUME NEW A, NEW S, NEW h \in Makes(A, S), NEW s \in Seq(A), NEW t \in Seq(A)
    PROVE  Gather(h, s \o t) = Gather(h, s) \o Gather(h, t)
<1>0. PICK u \in Seq(A) : u = s \o t
  <2>1. s \o t \in Seq(A)
    BY ConcatProperties
  <2> QED
    BY ONLY <2>1
<1> DEFINE hs == [i \in DOMAIN s |-> h[s[i]]]
           ht == [i \in DOMAIN t |-> h[t[i]]]
           hu == [i \in DOMAIN u |-> h[u[i]]]
<1>1. hs \in Seq(Seq(S)) /\ ht \in Seq(Seq(S)) /\ hu \in Seq(Seq(S))
  BY Gathered
<1>2. hu = hs \o ht
  <2>1. /\ Len(s) \in Nat /\ Len(t) \in Nat /\ Len(u) = Len(s) + Len(t)
        /\ DOMAIN s = 1..Len(s) /\ DOMAIN t = 1..Len(t) /\ DOMAIN u = 1..Len(u)
        /\ \A i \in 1..Len(s) + Len(t) : u[i] = IF i <= Len(s) THEN s[i] ELSE t[i - Len(s)]
    BY <1>0
  <2>2. /\ Len(hs) = Len(s) /\ \A i \in 1..Len(s) : hs[i] = h[s[i]]
        /\ Len(ht) = Len(t) /\ \A i \in 1..Len(t) : ht[i] = h[t[i]]
        /\ Len(hu) = Len(u) /\ \A i \in 1..Len(u) : hu[i] = h[u[i]]
    BY <2>1
  <2> HIDE DEF hs, ht, hu
  <2>3. PICK w \in Seq(Seq(S)) : w = hs \o ht
    BY <1>1, ConcatProperties
  <2>4. /\ Len(w) = Len(hs) + Len(ht)
        /\ \A i \in 1..Len(hs) + Len(ht) : w[i] = IF i <= Len(hs) THEN hs[i] ELSE ht[i - Len(hs)]
    BY <1>1, <2>3, ConcatProperties
  <2>5. ASSUME NEW i \in 1..Len(s) + Len(t) PROVE hu[i] = w[i]
    <3>1. CASE i <= Len(s)
      <4>1. i \in 1..Len(s) /\ u[i] = s[i] /\ w[i] = hs[i]
        BY <2>1, <2>2, <2>4, <3>1
      <4>2. hu[i] = h[u[i]] /\ hs[i] = h[s[i]]
        BY ONLY <2>1, <2>2, <4>1, i \in 1..Len(s) + Len(t)
      <4> QED
        BY ONLY <4>1, <4>2
    <3>2. CASE ~ (i <= Len(s))
      <4>1. i - Len(s) \in 1..Len(t) /\ u[i] = t[i - Len(s)] /\ w[i] = ht[i - Len(s)]
        BY <2>1, <2>2, <2>4, <3>2
      <4>2. hu[i] = h[u[i]] /\ ht[i - Len(s)] = h[t[i - Len(s)]]
        BY ONLY <2>1, <2>2, <4>1, i \in 1..Len(s) + Len(t)
      <4> QED
        BY ONLY <4>1, <4>2
    <3> QED
      BY <3>1, <3>2
  <2>6. hu = w
    BY <1>1, <2>1, <2>2, <2>3, <2>4, <2>5, SeqEqual
  <2> QED
    BY <2>3, <2>6
<1> HIDE DEF hs, ht, hu
<1>3. FlattenSeq(hs \o ht) = FlattenSeq(hs) \o FlattenSeq(ht)
  BY <1>1, FlattenConcat
<1>4. Gather(h, u) = FlattenSeq(hu) /\ Gather(h, s) = FlattenSeq(hs) /\ Gather(h, t) = FlattenSeq(ht)
  BY DEF Gather, hs, ht, hu
<1> QED
  BY <1>0, <1>2, <1>3, <1>4

LEMMA GatherOne ==
    ASSUME NEW A, NEW S, NEW h \in Makes(A, S), NEW x \in A
    PROVE  Gather(h, <<x>>) = h[x]
<1>1. [i \in DOMAIN <<x>> |-> h[<<x>>[i]]] = Append(<<>>, h[x])
  OBVIOUS
<1>2. <<>> \in Seq(Seq(S)) /\ h[x] \in Seq(S)
  BY DEF Makes
<1>3. FlattenSeq(Append(<<>>, h[x])) = FlattenSeq(<<>>) \o h[x]
  BY <1>2, FlattenAppend
<1>4. <<>> \o h[x] = h[x]
  BY <1>2
<1> QED
  BY <1>1, <1>3, <1>4, FlattenEmpty DEF Gather

LEMMA GatherAppend ==
    ASSUME NEW A, NEW S, NEW h \in Makes(A, S), NEW s \in Seq(A), NEW x \in A
    PROVE  Gather(h, Append(s, x)) = Gather(h, s) \o h[x]
<1>0. <<x>> \in Seq(A)
  OBVIOUS
<1>1. PICK one \in Seq(A) : one = <<x>>
  BY ONLY <1>0
<1>2. Append(s, x) = s \o one
  BY <1>1
<1>3. Gather(h, s \o one) = Gather(h, s) \o Gather(h, one)
  BY GatherConcat
<1> QED
  BY <1>1, <1>2, <1>3, GatherOne

\* A function that keeps some elements, and drops the others.
LEMMA GatherAll ==
    ASSUME NEW A, NEW s \in Seq(A), NEW h, \A i \in DOMAIN s : h[s[i]] = <<s[i]>>
    PROVE  Gather(h, s) = s
<1>1. [i \in DOMAIN s |-> h[s[i]]] = [i \in DOMAIN s |-> <<s[i]>>]
  OBVIOUS
<1> QED
  BY <1>1, FlattenSingles DEF Gather

LEMMA GatherNone ==
    ASSUME NEW A, NEW S, NEW h \in Makes(A, S), NEW s \in Seq(A), \A i \in DOMAIN s : h[s[i]] = <<>>
    PROVE  Gather(h, s) = <<>>
<1> DEFINE hs == [i \in DOMAIN s |-> h[s[i]]]
<1>1. hs \in Seq(Seq(S))
  BY Gathered
<1>2. \A i \in 1..Len(hs) : hs[i] = <<>>
  OBVIOUS
<1> HIDE DEF hs
<1>3. FlattenSeq(hs) = <<>>
  BY <1>1, <1>2, FlattenNothing
<1> QED
  BY <1>3 DEF Gather, hs

\* Gathering twice is gathering once with the functions composed.
LEMMA GatherTwice ==
    ASSUME NEW A, NEW B, NEW S, NEW g \in Makes(B, S), NEW h \in Makes(A, B), NEW s \in Seq(A)
    PROVE  Gather(g, Gather(h, s)) = Gather([x \in A |-> Gather(g, h[x])], s)
<1> DEFINE gh == [x \in A |-> Gather(g, h[x])]
           T  == {n \in Nat : \A t \in Seq(A) : Len(t) = n => Gather(g, Gather(h, t)) = Gather(gh, t)}
<1>0. gh \in Makes(A, S) /\ \A x \in A : gh[x] = Gather(g, h[x]) /\ h[x] \in Seq(B)
  <2>1. \A x \in A : h[x] \in Seq(B)
    BY DEF Makes
  <2>2. ASSUME NEW x \in A PROVE Gather(g, h[x]) \in Seq(S)
    BY <2>1, Gathered
  <2> QED
    BY <2>1, <2>2 DEF Makes
<1> HIDE DEF gh
<1>1. 0 \in T
  <2> SUFFICES ASSUME NEW t \in Seq(A), Len(t) = 0 PROVE Gather(g, Gather(h, t)) = Gather(gh, t)
    OBVIOUS
  <2>1. t = <<>>
    OBVIOUS
  <2> QED
    BY <2>1, GatherEmpty
<1>2. ASSUME NEW n \in Nat, n \in T PROVE n + 1 \in T
  <2> SUFFICES ASSUME NEW t \in Seq(A), Len(t) = n + 1 PROVE Gather(g, Gather(h, t)) = Gather(gh, t)
    OBVIOUS
  <2>0. \E front \in Seq(A), x \in A : t = Append(front, x)
    <3>1. Len(t) # 0
      OBVIOUS
    <3>2. \E front \in Seq(A) : \E x \in A : t = Append(front, x)
      BY <3>1, FrontAndLast
    <3> QED
      BY ONLY <3>2
  <2> HIDE DEF T
  <2>1. PICK front \in Seq(A), x \in A : t = Append(front, x)
    BY ONLY <2>0
  <2>6. Len(front) = n
    BY <2>1
  <2>2. Gather(h, t) = Gather(h, front) \o h[x] /\ Gather(h, front) \in Seq(B) /\ h[x] \in Seq(B)
    <3>1. Gather(h, Append(front, x)) = Gather(h, front) \o h[x]
      BY GatherAppend
    <3>2. Gather(h, front) \in Seq(B)
      BY Gathered
    <3> QED
      BY <1>0, <2>1, <3>1, <3>2
  <2>7. ASSUME NEW u \in Seq(B), NEW v \in Seq(B)
        PROVE  Gather(g, u \o v) = Gather(g, u) \o Gather(g, v)
    BY GatherConcat
  <2>3. Gather(g, Gather(h, t)) = Gather(g, Gather(h, front)) \o Gather(g, h[x])
    BY ONLY <2>2, <2>7
  <2>4. Gather(gh, t) = Gather(gh, front) \o gh[x]
    BY <1>0, <2>1, GatherAppend
  <2>5. Gather(g, Gather(h, front)) = Gather(gh, front)
    BY <1>2, <2>6 DEF T
  <2> QED
    BY <1>0, <2>3, <2>4, <2>5
<1> HIDE DEF T
<1>3. Len(s) \in T
  <2>1. \A n \in Nat : n \in T
    BY <1>1, <1>2, InductionOnSet
  <2> QED
    BY <2>1
<1> QED
  BY <1>3 DEF T, gh

\* What g makes of 1 to n.
UpTo(g, n) == FlattenSeq([i \in 1..n |-> g[i]])

\* What g makes of n + 1 to m.
Between(g, n, m) == FlattenSeq([i \in 1..m - n |-> g[n + i]])

LEMMA UpToTyped ==
    ASSUME NEW S, NEW I, NEW g \in Makes(I, S), NEW n \in Nat, 1..n \subseteq I
    PROVE  [i \in 1..n |-> g[i]] \in Seq(Seq(S)) /\ UpTo(g, n) \in Seq(S)
<1> DEFINE gs == [i \in 1..n |-> g[i]]
<1>1. \A i \in 1..n : g[i] \in Seq(S)
  <2>1. \A i \in 1..n : i \in I
    OBVIOUS
  <2> QED
    BY <2>1 DEF Makes
<1>2. gs \in Seq(Seq(S))
  BY <1>1
<1> HIDE DEF gs
<1>3. FlattenSeq(gs) \in Seq(S)
  BY <1>2, FlattenType
<1> QED
  BY <1>2, <1>3 DEF gs, UpTo

LEMMA UpToSplit ==
    ASSUME NEW S, NEW I, NEW g \in Makes(I, S), NEW m \in Nat, NEW n \in Nat, n <= m, 1..m \subseteq I
    PROVE  Between(g, n, m) \in Seq(S) /\ UpTo(g, m) = UpTo(g, n) \o Between(g, n, m)
<1> DEFINE gm   == [i \in 1..m |-> g[i]]
           gn   == [i \in 1..n |-> g[i]]
           rest == [i \in 1..m - n |-> g[n + i]]
<1>0. m - n \in Nat /\ 1..n \subseteq I /\ \A i \in 1..m : i \in I
  OBVIOUS
<1>1. gm \in Seq(Seq(S)) /\ gn \in Seq(Seq(S))
  BY <1>0, UpToTyped
<1>2. rest \in Seq(Seq(S))
  <2>1. \A i \in 1..m - n : n + i \in 1..m
    BY <1>0
  <2>2. \A i \in 1..m - n : g[n + i] \in Seq(S)
    BY <1>0, <2>1 DEF Makes
  <2> QED
    BY <1>0, <2>2
<1>3. gm = gn \o rest
  <2>1. /\ Len(gm) = m /\ \A i \in 1..m : gm[i] = g[i]
        /\ Len(gn) = n /\ \A i \in 1..n : gn[i] = g[i]
        /\ Len(rest) = m - n /\ \A i \in 1..m - n : rest[i] = g[n + i]
    BY <1>0
  <2> HIDE DEF gm, gn, rest
  <2>2. PICK w \in Seq(Seq(S)) : w = gn \o rest
    BY <1>1, <1>2, ConcatProperties
  <2>3. /\ Len(w) = Len(gn) + Len(rest)
        /\ \A i \in 1..Len(gn) + Len(rest) : w[i] = IF i <= Len(gn) THEN gn[i] ELSE rest[i - Len(gn)]
    BY <1>1, <1>2, <2>2, ConcatProperties
  <2>4. ASSUME NEW i \in 1..m PROVE gm[i] = w[i]
    <3>1. CASE i <= n
      <4>1. i \in 1..n /\ w[i] = gn[i]
        BY <1>0, <2>1, <2>3, <3>1
      <4> QED
        BY <2>1, <4>1
    <3>2. CASE ~ (i <= n)
      <4>1. i - n \in 1..m - n /\ n + (i - n) = i /\ i \in 1..Len(gn) + Len(rest) /\ ~ (i <= Len(gn))
        BY <2>1, <3>2
      <4>2. w[i] = rest[i - n]
        BY ONLY <2>1, <2>3, <4>1
      <4>3. rest[i - n] = g[n + (i - n)]
        BY ONLY <2>1, <4>1
      <4> QED
        BY <2>1, <4>1, <4>2, <4>3
    <3> QED
      BY <3>1, <3>2
  <2>5. Len(w) = m
    BY <1>0, <2>1, <2>3
  <2>6. gm = w
    BY ONLY <1>1, <2>1, <2>2, <2>4, <2>5, SeqEqual
  <2> QED
    BY <2>2, <2>6
<1> HIDE DEF gm, gn, rest
<1>4. FlattenSeq(gn \o rest) = FlattenSeq(gn) \o FlattenSeq(rest) /\ FlattenSeq(rest) \in Seq(S)
  BY <1>1, <1>2, FlattenConcat, FlattenType
<1>5. UpTo(g, m) = FlattenSeq(gm) /\ UpTo(g, n) = FlattenSeq(gn)
  BY DEF UpTo, gm, gn
<1> QED
  BY <1>3, <1>4, <1>5 DEF Between, rest

LEMMA UpToPrefix ==
    ASSUME NEW S, NEW I, NEW g \in Makes(I, S), NEW m \in Nat, NEW n \in Nat, n <= m, 1..m \subseteq I
    PROVE  IsPrefix(UpTo(g, n), UpTo(g, m))
<1>1. Between(g, n, m) \in Seq(S) /\ UpTo(g, m) = UpTo(g, n) \o Between(g, n, m)
  BY UpToSplit
<1>2. UpTo(g, n) \in Seq(S)
  <2>1. 1..n \subseteq I
    OBVIOUS
  <2> QED
    BY <2>1, UpToTyped
<1> QED
  BY <1>1, <1>2, PrefixOfConcat

\* Only the last of them makes something.
LEMMA UpToSkip ==
    ASSUME NEW S, NEW I, NEW g \in Makes(I, S), NEW m \in Nat, NEW n \in Nat, n < m, 1..m \subseteq I,
           \A i \in n + 1..m - 1 : g[i] = <<>>
    PROVE  UpTo(g, m) = UpTo(g, n) \o g[m]
<1> DEFINE rest  == [i \in 1..m - n |-> g[n + i]]
           front == [i \in 1..m - n - 1 |-> g[n + i]]
<1>0. n <= m /\ m - n - 1 \in Nat /\ \A i \in 1..m : i \in I
  OBVIOUS
<1>1. UpTo(g, m) = UpTo(g, n) \o FlattenSeq(rest)
  <2>1. UpTo(g, m) = UpTo(g, n) \o Between(g, n, m)
    BY <1>0, UpToSplit
  <2> QED
    BY <2>1 DEF Between
<1>2. g[m] \in Seq(S) /\ \A i \in 1..m - n - 1 : g[n + i] \in Seq(S) /\ g[n + i] = <<>>
  <2>1. m \in 1..m /\ \A i \in 1..m - n - 1 : n + i \in 1..m /\ n + i \in n + 1..m - 1
    BY <1>0
  <2> QED
    BY <1>0, <2>1 DEF Makes
<1>3. front \in Seq(Seq(S)) /\ Len(front) = m - n - 1 /\ \A i \in 1..Len(front) : front[i] = <<>>
  BY <1>0, <1>2
<1>4. rest = Append(front, g[m])
  <2>1. n + (m - n) = m
    BY <1>0
  <2> QED
    BY <1>0, <1>2, <2>1
<1> HIDE DEF rest, front
<1>5. FlattenSeq(front) = <<>>
  BY <1>3, FlattenNothing
<1>6. FlattenSeq(rest) = FlattenSeq(front) \o g[m]
  BY <1>2, <1>3, <1>4, FlattenAppend
<1>7. <<>> \o g[m] = g[m]
  BY <1>2
<1> QED
  BY <1>1, <1>5, <1>6, <1>7

-----------------------------------------------------------------------------
(* The last element of a sequence that is in a set.                        *)

LastIn(T, s) == SelectLastInSeq(s, LAMBDA x : x \in T)

LEMMA LastInSeq ==
    ASSUME NEW T, NEW A, NEW s \in Seq(A)
    PROVE  /\ LastIn(T, s) \in 0..Len(s)
           /\ s = <<>> => LastIn(T, s) = 0
<1> DEFINE I == {i \in 1..Len(s) : s[i] \in T}
<1>0. Len(s) \in Nat /\ I \subseteq 1..Len(s)
  OBVIOUS
<1>1. LastIn(T, s) = IF I # {} THEN Max(I) ELSE 0
  BY DEF LastIn, SelectLastInSeq
<1>2. I # {} => Max(I) \in I
  BY <1>0, MaxOfBounded
<1>3. s = <<>> => I = {}
  OBVIOUS
<1> QED
  BY <1>0, <1>1, <1>2, <1>3

LEMMA LastInAppend ==
    ASSUME NEW T, NEW A, NEW s \in Seq(A), NEW x \in A
    PROVE  LastIn(T, Append(s, x)) = IF x \in T THEN Len(s) + 1 ELSE LastIn(T, s)
<1> DEFINE t == Append(s, x)
           I == {i \in 1..Len(s) : s[i] \in T}
           J == {i \in 1..Len(t) : t[i] \in T}
<1>0. Len(s) \in Nat /\ Len(t) = Len(s) + 1 /\ t[Len(s) + 1] = x /\ \A i \in 1..Len(s) : t[i] = s[i]
  OBVIOUS
<1>1. /\ LastIn(T, s) = IF I # {} THEN Max(I) ELSE 0
      /\ LastIn(T, t) = IF J # {} THEN Max(J) ELSE 0
  BY DEF LastIn, SelectLastInSeq
<1> HIDE DEF t
<1>2. CASE x \in T
  <2>1. Len(s) + 1 \in J /\ J \subseteq 1..Len(s) + 1
    BY <1>0, <1>2
  <2>2. Max(J) \in J /\ \A i \in J : i <= Max(J)
    <3>1. Len(s) + 1 \in Nat /\ J # {}
      BY <1>0, <2>1
    <3> HIDE DEF J
    <3> QED
      BY <2>1, <3>1, MaxOfBounded
  <2>3. Max(J) = Len(s) + 1
    BY <1>0, <2>1, <2>2
  <2> QED
    BY <1>1, <1>2, <2>1, <2>3 DEF t
<1>3. CASE x \notin T
  <2>1. I = J
    BY <1>0, <1>3
  <2> QED
    BY <1>1, <1>3, <2>1 DEF t
<1> QED
  BY <1>2, <1>3
=============================================================================
