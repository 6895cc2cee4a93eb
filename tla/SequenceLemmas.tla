---------------------------- MODULE SequenceLemmas ----------------------------
(***************************************************************************)
(* Lemmas about sequences and finite sets that the proofs about the engine  *)
(* share.  The provers cannot instantiate an induction theorem that takes a *)
(* predicate as a parameter; SetInduction takes the set of numbers of which *)
(* the predicate holds instead.                                            *)
(***************************************************************************)
EXTENDS Integers, FiniteSets, Sequences, SequencesExt, FiniteSetTheorems,
        SequenceTheorems, WellFoundedInduction, TLAPS

\* The numbers below one another are well founded (an instance of the library's
\* theorem, with the order spelled out).
LEMMA LessWellFounded == IsWellFoundedOn({p \in Nat \X Nat : p[1] < p[2]}, Nat)
  BY NatLessThanWellFounded DEF OpToRel

\* Induction over the natural numbers, for a set.
LEMMA SetInduction ==
  ASSUME NEW S, 0 \in S, \A n \in Nat : n \in S => n + 1 \in S
  PROVE  \A n \in Nat : n \in S
  <1>1. SUFFICES ASSUME Nat \ S # {} PROVE FALSE
    OBVIOUS
  <1>2. PICK x \in Nat \ S : \A y \in Nat \ S :
               <<y, x>> \notin {p \in Nat \X Nat : p[1] < p[2]}
    BY ONLY <1>1, LessWellFounded, WFMin
  <1>3. x - 1 \in Nat \ S
    BY <1>2
  <1>4. <<x - 1, x>> \in {p \in Nat \X Nat : p[1] < p[2]}
    BY <1>2, <1>3
  <1>5. QED BY <1>2, <1>3, <1>4

-----------------------------------------------------------------------------
(* Ranges and places                                                       *)

\* A sequence is one over any set that holds its elements.
LEMMA Retyped ==
  ASSUME NEW S, NEW s \in Seq(S), NEW U, \A k \in 1..Len(s) : s[k] \in U
  PROVE  s \in Seq(U)
  BY SeqDef

\* A set of places that is not empty has a first and a last one.
LEMMA LastPlace ==
  ASSUME NEW n \in Nat, NEW A \in SUBSET (1..n), A # {}
  PROVE  Max(A) \in A /\ \A i \in A : i <= Max(A)
  <1> DEFINE T == {m \in Nat : (\E i \in A : i <= m) =>
                    \E x \in A : x <= m /\ \A i \in A : i <= m => i <= x}
  <1>1. 0 \in T
    OBVIOUS
  <1>2. ASSUME NEW m \in Nat, m \in T PROVE m + 1 \in T
    <2>1. CASE m + 1 \in A
      <3>1. m + 1 \in A /\ \A i \in A : i <= m + 1 => i <= m + 1
        BY <2>1
      <3>2. QED BY <3>1
    <2>2. CASE m + 1 \notin A
      <3>1. \A i \in A : i <= m + 1 <=> i <= m
        BY <2>2
      <3>2. QED BY <1>2, <3>1
    <2>3. QED BY <2>1, <2>2
  <1>3. \A m \in Nat : m \in T
    <2> HIDE DEF T
    <2> QED BY <1>1, <1>2, SetInduction
  <1>4. n \in T
    BY <1>3
  <1>5. PICK x \in A : \A i \in A : i <= x
    <2>1. \A i \in A : i <= n
      OBVIOUS
    <2>2. QED BY <1>4, <2>1
  <1>6. \E y \in A : \A i \in A : y >= i
    BY <1>5
  <1>7. QED BY <1>6 DEF Max

LEMMA FirstPlace ==
  ASSUME NEW n \in Nat, NEW A \in SUBSET (1..n), A # {}
  PROVE  Min(A) \in A /\ \A i \in A : Min(A) <= i
  <1> DEFINE B == {(n + 1) - i : i \in A}
  <1>1. B \in SUBSET (1..n) /\ B # {}
    <2>1. \A i \in A : (n + 1) - i \in 1..n
      OBVIOUS
    <2>2. QED BY <2>1
  <1> HIDE DEF B
  <1>2. Max(B) \in B /\ \A i \in B : i <= Max(B)
    BY <1>1, LastPlace
  <1> USE DEF B
  <1>3. PICK x \in A : Max(B) = (n + 1) - x
    BY <1>2
  <1>4. \A i \in A : x <= i
    <2>1. TAKE i \in A
    <2>2. (n + 1) - i <= (n + 1) - x
      BY <1>2, <1>3
    <2>3. QED BY <2>2
  <1>5. \E y \in A : \A i \in A : y =< i
    BY <1>4
  <1>6. QED BY <1>5 DEF Min

-----------------------------------------------------------------------------
(* FlattenSeq, which is defined by recursion on the sequence of sequences.   *)

\* The recursion has a solution.
LEMMA FlattenExists ==
  ASSUME NEW S, NEW ss \in Seq(Seq(S))
  PROVE  \E f : f = [i \in 1..Len(ss) |-> IF i = 1 THEN ss[i] ELSE f[i - 1] \o ss[i]]
  <1> DEFINE T == {n \in Nat : \E f :
                     f = [i \in 1..n |-> IF i = 1 THEN ss[i] ELSE f[i - 1] \o ss[i]]}
  <1>1. 0 \in T
    <2>1. [i \in 1..0 |-> ss] = [i \in 1..0 |-> IF i = 1 THEN ss[i]
                                   ELSE [j \in 1..0 |-> ss][i - 1] \o ss[i]]
      OBVIOUS
    <2>2. QED BY <2>1
  <1>2. ASSUME NEW n \in Nat, n \in T PROVE n + 1 \in T
    <2>1. PICK f : f = [i \in 1..n |-> IF i = 1 THEN ss[i] ELSE f[i - 1] \o ss[i]]
      BY <1>2
    <2> DEFINE g == [i \in 1..(n + 1) |-> IF i = 1 THEN ss[i] ELSE f[i - 1] \o ss[i]]
    <2>2. \A i \in 1..n : g[i] = f[i]
      <3> DEFINE h == [i \in 1..n |-> IF i = 1 THEN ss[i] ELSE f[i - 1] \o ss[i]]
      <3>1. \A i \in 1..n : g[i] = h[i]
        OBVIOUS
      <3>2. QED BY <2>1, <3>1, Zenon
    <2>3. \A i \in 1..(n + 1) : i # 1 => g[i] = g[i - 1] \o ss[i]
      <3>1. TAKE i \in 1..(n + 1)
      <3>2. HAVE i # 1
      <3>3. i - 1 \in 1..n
        BY <3>2
      <3>4. g[i] = f[i - 1] \o ss[i]
        BY <3>2
      <3>5. QED BY <3>3, <3>4, <2>2
    <2>4. g = [i \in 1..(n + 1) |-> IF i = 1 THEN ss[i] ELSE g[i - 1] \o ss[i]]
      BY <2>3
    <2>5. \E h : h = [i \in 1..(n + 1) |-> IF i = 1 THEN ss[i] ELSE h[i - 1] \o ss[i]]
      <3> HIDE DEF g
      <3> QED BY <2>4, Zenon
    <2>6. n + 1 \in Nat
      OBVIOUS
    <2>7. QED BY <2>5, <2>6, Zenon
  <1>3. \A n \in Nat : n \in T
    <2> HIDE DEF T
    <2> QED BY <1>1, <1>2, SetInduction
  <1>4. Len(ss) \in Nat
    OBVIOUS
  <1>5. Len(ss) \in T
    BY <1>3, <1>4, Zenon
  <1>6. QED BY <1>5, Zenon

\* Flattening sequences of things gives a sequence of such things.
LEMMA FlattenTyped ==
  ASSUME NEW S, NEW ss \in Seq(Seq(S))
  PROVE  FlattenSeq(ss) \in Seq(S)
  <1>1. CASE Len(ss) = 0
    BY <1>1 DEF FlattenSeq
  <1>2. CASE Len(ss) # 0
    <2> DEFINE c == CHOOSE f : f = [i \in 1..Len(ss) |->
                        IF i = 1 THEN ss[i] ELSE f[i - 1] \o ss[i]]
    <2>1. FlattenSeq(ss) = c[Len(ss)]
      BY <1>2 DEF FlattenSeq
    <2>2. c = [i \in 1..Len(ss) |-> IF i = 1 THEN ss[i] ELSE c[i - 1] \o ss[i]]
      BY FlattenExists
    <2> HIDE DEF c
    <2> DEFINE T == {n \in Nat : n \in 1..Len(ss) => c[n] \in Seq(S)}
    <2>3. 0 \in T
      OBVIOUS
    <2>4. ASSUME NEW n \in Nat, n \in T PROVE n + 1 \in T
      <3>1. SUFFICES ASSUME n + 1 \in 1..Len(ss) PROVE c[n + 1] \in Seq(S)
        OBVIOUS
      <3>2. ss[n + 1] \in Seq(S)
        BY <3>1
      <3>3. CASE n = 0
        BY <2>2, <3>1, <3>2, <3>3
      <3>4. CASE n # 0
        <4> DEFINE h == [i \in 1..Len(ss) |-> IF i = 1 THEN ss[i] ELSE c[i - 1] \o ss[i]]
        <4>0. h[n + 1] = c[n] \o ss[n + 1]
          <5>1. n + 1 \in 1..Len(ss) /\ n + 1 # 1 /\ (n + 1) - 1 = n
            BY <3>1, <3>4
          <5>2. h[n + 1] = c[(n + 1) - 1] \o ss[n + 1]
            BY <5>1, Zenon
          <5>3. QED BY <5>1, <5>2, Zenon
        <4>1. c[n + 1] = c[n] \o ss[n + 1]
          BY <4>0, <2>2, Zenon
        <4>2. c[n] \in Seq(S)
          BY <2>4, <3>1, <3>4
        <4>3. QED BY <4>1, <4>2, <3>2
      <3>5. QED BY <3>3, <3>4
    <2>5. \A n \in Nat : n \in T
      <3> HIDE DEF T
      <3> QED BY <2>3, <2>4, SetInduction
    <2>6. QED BY <2>1, <2>5, <1>2
  <1>3. QED BY <1>1, <1>2

\* What is in a sequence of sequences is in one of them.
LEMMA FlattenRange ==
  ASSUME NEW S, NEW ss \in Seq(Seq(S))
  PROVE  \A x : x \in Range(FlattenSeq(ss)) <=> \E n \in 1..Len(ss) : x \in Range(ss[n])
  <1> DEFINE U == UNION {Range(ss[n]) : n \in 1..Len(ss)}
  <1>1. ASSUME NEW x, x \in Range(FlattenSeq(ss)) PROVE \E n \in 1..Len(ss) : x \in Range(ss[n])
    <2>1. \A n \in 1..Len(ss) : ss[n] \in Seq(U)
      <3>1. TAKE n \in 1..Len(ss)
      <3>2. ss[n] \in Seq(S)
        OBVIOUS
      <3>3. \A k \in 1..Len(ss[n]) : ss[n][k] \in U
        BY <3>2 DEF Range
      <3> HIDE DEF U
      <3>4. QED BY <3>2, <3>3, Retyped
    <2>2. ss \in Seq(Seq(U))
      <3> HIDE DEF U
      <3> QED BY <2>1
    <2>3. FlattenSeq(ss) \in Seq(U)
      <3> HIDE DEF U
      <3> QED BY <2>2, FlattenTyped
    <2>4. x \in U
      <3> HIDE DEF U
      <3> QED BY <1>1, <2>3 DEF Range
    <2>5. QED BY <2>4
  <1>2. ASSUME NEW m \in 1..Len(ss), NEW x \in Range(ss[m]) PROVE x \in Range(FlattenSeq(ss))
    <2> DEFINE c == CHOOSE f : f = [i \in 1..Len(ss) |->
                        IF i = 1 THEN ss[i] ELSE f[i - 1] \o ss[i]]
    <2>1. FlattenSeq(ss) = c[Len(ss)]
      BY DEF FlattenSeq
    <2>2. c = [i \in 1..Len(ss) |-> IF i = 1 THEN ss[i] ELSE c[i - 1] \o ss[i]]
      BY FlattenExists
    <2> HIDE DEF c
    <2> DEFINE T == {n \in Nat : n \in 1..Len(ss) =>
                       c[n] \in Seq(S) /\ (m <= n => x \in Range(c[n]))}
    <2>3. 0 \in T
      OBVIOUS
    <2>4. ASSUME NEW n \in Nat, n \in T PROVE n + 1 \in T
      <3>1. SUFFICES ASSUME n + 1 \in 1..Len(ss)
                     PROVE  c[n + 1] \in Seq(S) /\ (m <= n + 1 => x \in Range(c[n + 1]))
        OBVIOUS
      <3>2. ss[n + 1] \in Seq(S)
        BY <3>1
      <3>3. CASE n = 0
        <4>1. c[1] = ss[1]
          BY <2>2, <3>1, <3>3
        <4>2. QED BY <4>1, <3>2, <3>3, <1>2
      <3>4. CASE n # 0
        <4> DEFINE h == [i \in 1..Len(ss) |-> IF i = 1 THEN ss[i] ELSE c[i - 1] \o ss[i]]
        <4>1. c[n + 1] = c[n] \o ss[n + 1]
          <5>1. n + 1 \in 1..Len(ss) /\ n + 1 # 1 /\ (n + 1) - 1 = n
            BY <3>1, <3>4
          <5>2. h[n + 1] = c[(n + 1) - 1] \o ss[n + 1]
            BY <5>1, Zenon
          <5>3. QED BY <5>1, <5>2, <2>2, Zenon
        <4>2. c[n] \in Seq(S) /\ (m <= n => x \in Range(c[n]))
          BY <2>4, <3>1, <3>4
        <4>3. Range(c[n + 1]) = Range(c[n]) \cup Range(ss[n + 1])
          BY <4>1, <4>2, <3>2, RangeConcatenation
        <4>4. m <= n \/ m = n + 1 \/ ~(m <= n + 1)
          OBVIOUS
        <4>5. m = n + 1 => x \in Range(ss[n + 1])
          BY <1>2
        <4>6. c[n + 1] \in Seq(S)
          BY <4>1, <4>2, <3>2
        <4>7. QED BY <4>2, <4>3, <4>4, <4>5, <4>6
      <3>5. QED BY <3>3, <3>4
    <2>5. \A n \in Nat : n \in T
      <3> HIDE DEF T
      <3> QED BY <2>3, <2>4, SetInduction
    <2>6. Len(ss) \in 1..Len(ss) /\ m <= Len(ss) /\ Len(ss) \in T
      BY <2>5
    <2>7. QED BY <2>1, <2>6
  <1>3. QED BY <1>1, <1>2

-----------------------------------------------------------------------------
(* Counting                                                                *)

LEMMA DisjointUnion ==
  ASSUME NEW A, IsFiniteSet(A), NEW B, IsFiniteSet(B), A \cap B = {}
  PROVE  /\ IsFiniteSet(A \cup B)
         /\ Cardinality(A \cup B) = Cardinality(A) + Cardinality(B)
  <1>1. Cardinality(A \cap B) = 0
    BY FS_EmptySet
  <1>2. Cardinality(A) \in Nat /\ Cardinality(B) \in Nat
    BY FS_CardinalityType
  <1>3. IsFiniteSet(A \cup B)
        /\ Cardinality(A \cup B) = Cardinality(A) + Cardinality(B) - Cardinality(A \cap B)
    BY FS_Union, Zenon
  <1>4. QED BY <1>1, <1>2, <1>3

-----------------------------------------------------------------------------
(* Sequences without repetition                                            *)

\* A sequence that has as many elements as places has each of them once.
LEMMA DistinctInjective ==
  ASSUME NEW n \in Nat, NEW s, DOMAIN s = 1..n, s = [k \in 1..n |-> s[k]],
         Cardinality(Range(s)) = n
  PROVE  \A i, j \in 1..n : s[i] = s[j] => i = j
  <1>1. IsFiniteSet(1..n) /\ Cardinality(1..n) = n
    BY FS_Interval
  <1>2. s \in Surjection(1..n, Range(s))
    BY DEF Surjection, Range
  <1>3. s \in Injection(1..n, Range(s))
    BY <1>1, <1>2, FS_SurjSameCardinalityImpliesInj
  <1>4. QED BY <1>3 DEF Injection, IsInjective

\* And the other way round.
LEMMA InjectiveDistinct ==
  ASSUME NEW n \in Nat, NEW s, DOMAIN s = 1..n, s = [k \in 1..n |-> s[k]],
         \A i, j \in 1..n : s[i] = s[j] => i = j
  PROVE  Cardinality(Range(s)) = n
  <1>1. IsFiniteSet(1..n) /\ Cardinality(1..n) = n
    BY ONLY n \in Nat, FS_Interval
  <1>2. s \in Surjection(1..n, Range(s)) /\ s \in Injection(1..n, Range(s))
    BY DEF Surjection, Injection, IsInjective, Range
  <1>3. QED BY <1>1, <1>2, FS_Surjection

-----------------------------------------------------------------------------
(* Sorting                                                                 *)

\* A strict total order on the places 1..n, as a set of pairs, and the
\* arrangements of the places that agree with it.
TotalOrder(R, n) ==
    /\ \A i \in 1..n : <<i, i>> \notin R
    /\ \A i, j \in 1..n : i = j \/ <<i, j>> \in R \/ <<j, i>> \in R
    /\ \A i, j, k \in 1..n : <<i, j>> \in R /\ <<j, k>> \in R => <<i, k>> \in R
Arranges(p, R, n) == \A i, j \in 1..n : i < j => <<p[i], p[j]>> \in R

\* Every element has a place: one more than the number of those before it.
LEMMA SortExists ==
  ASSUME NEW n \in Nat, NEW R, TotalOrder(R, n)
  PROVE  \E p \in [1..n -> 1..n] : Arranges(p, R, n)
  <1> DEFINE D == 1..n
             Below(i) == {j \in D : <<j, i>> \in R}
             place == [i \in D |-> 1 + Cardinality(Below(i))]
             p == [k \in D |-> CHOOSE i \in D : place[i] = k]
  <1>1. IsFiniteSet(D) /\ Cardinality(D) = n
    BY FS_Interval
  <1>2. \A i \in D : IsFiniteSet(Below(i)) /\ Cardinality(Below(i)) \in Nat
    <2>1. TAKE i \in D
    <2>2. Below(i) \in SUBSET D
      OBVIOUS
    <2>3. IsFiniteSet(Below(i))
      BY <1>1, <2>2, FS_Subset
    <2>4. QED BY <2>3, FS_CardinalityType
  <1>3. \A i \in D : place[i] \in D
    <2>1. TAKE i \in D
    <2>2. Below(i) \in SUBSET (D \ {i})
      BY DEF TotalOrder
    <2>3. IsFiniteSet(D \ {i}) /\ Cardinality(D \ {i}) = n - 1
      BY <1>1, FS_RemoveElement
    <2>4. Cardinality(Below(i)) <= n - 1
      <3> HIDE DEF Below, D
      <3>1. Cardinality(Below(i)) <= Cardinality(D \ {i})
        BY <2>2, <2>3, FS_Subset
      <3>2. QED BY <2>3, <3>1
    <2>5. QED BY <1>2, <2>4
  <1>4. \A i, j \in D : <<i, j>> \in R => place[i] < place[j]
    <2>1. SUFFICES ASSUME NEW i \in D, NEW j \in D, <<i, j>> \in R PROVE place[i] < place[j]
      OBVIOUS
    <2>2. i \notin Below(i) /\ Below(i) \cup {i} \in SUBSET Below(j)
      BY <2>1 DEF TotalOrder
    <2>3. Cardinality(Below(i) \cup {i}) = Cardinality(Below(i)) + 1
      BY <1>2, <2>2, FS_AddElement
    <2>4. Cardinality(Below(i) \cup {i}) <= Cardinality(Below(j))
      BY <1>2, <2>2, FS_Subset
    <2> HIDE DEF Below
    <2>5. QED BY <1>2, <2>3, <2>4
  <1>5. \A i, j \in D : place[i] = place[j] => i = j
    <2>1. SUFFICES ASSUME NEW i \in D, NEW j \in D, place[i] = place[j], i # j PROVE FALSE
      OBVIOUS
    <2>2. <<i, j>> \in R \/ <<j, i>> \in R
      BY <2>1 DEF TotalOrder
    <2>3. place[i] \in Int /\ place[j] \in Int
      BY <1>3
    <2> HIDE DEF place
    <2>4. QED BY <1>4, <2>1, <2>2, <2>3
  <1>6. place \in Injection(D, D)
    BY <1>3, <1>5 DEF Injection, IsInjective
  <1>7. place \in Surjection(D, D)
    BY <1>1, <1>6, FS_Injection
  <1>8. \A k \in D : p[k] \in D /\ place[p[k]] = k
    BY <1>7 DEF Surjection
  <1>9. Arranges(p, R, n)
    <2>1. SUFFICES ASSUME NEW i \in D, NEW j \in D, i < j PROVE <<p[i], p[j]>> \in R
      BY DEF Arranges
    <2> HIDE DEF p
    <2>2. p[i] \in D /\ p[j] \in D /\ place[p[i]] = i /\ place[p[j]] = j
      BY <1>8
    <2> HIDE DEF place
    <2>3. p[i] # p[j] /\ <<p[j], p[i]>> \notin R
      BY <1>4, <2>1, <2>2
    <2>4. QED BY <2>2, <2>3 DEF TotalOrder
  <1>10. QED BY <1>8, <1>9

\* An arrangement has every place once.
LEMMA ArrangementPermutes ==
  ASSUME NEW n \in Nat, NEW R, NEW p \in [1..n -> 1..n],
         \A i \in 1..n : <<i, i>> \notin R, Arranges(p, R, n)
  PROVE  p \in Bijection(1..n, 1..n)
  <1>1. IsFiniteSet(1..n) /\ Cardinality(1..n) = n
    BY FS_Interval
  <1>2. p \in Injection(1..n, 1..n)
    <2>1. ASSUME NEW i \in 1..n, NEW j \in 1..n, p[i] = p[j] PROVE i = j
      <3>1. CASE i < j
        BY <2>1, <3>1 DEF Arranges
      <3>2. CASE j < i
        BY <2>1, <3>2 DEF Arranges
      <3>3. QED BY <3>1, <3>2
    <2>2. QED BY <2>1 DEF Injection, IsInjective
  <1>3. p \in Surjection(1..n, 1..n)
    BY <1>1, <1>2, FS_Injection
  <1>4. QED BY <1>2, <1>3 DEF Bijection

\* Two arrangements that agree with a total order are the same.
LEMMA SortUnique ==
  ASSUME NEW n \in Nat, NEW R, TotalOrder(R, n),
         NEW p \in [1..n -> 1..n], Arranges(p, R, n),
         NEW q \in [1..n -> 1..n], Arranges(q, R, n)
  PROVE  p = q
  <1> DEFINE Below(i) == {j \in 1..n : <<j, i>> \in R}
  <1>1. ASSUME NEW f \in [1..n -> 1..n], Arranges(f, R, n), NEW k \in 1..n
        PROVE  Cardinality(Below(f[k])) = k - 1
    <2> DEFINE g == [i \in 1..(k - 1) |-> f[i]]
    <2>1. f \in Bijection(1..n, 1..n)
      BY <1>1, ArrangementPermutes DEF TotalOrder
    <2>2. g \in [1..(k - 1) -> Below(f[k])]
      <3>1. \A i \in 1..(k - 1) : f[i] \in 1..n /\ <<f[i], f[k]>> \in R
        BY <1>1 DEF Arranges
      <3>2. QED BY <3>1
    <2>3. \A i, j \in 1..(k - 1) : g[i] = g[j] => i = j
      <3>1. ASSUME NEW i \in 1..(k - 1), NEW j \in 1..(k - 1), g[i] = g[j] PROVE i = j
        <4>1. i \in 1..n /\ j \in 1..n /\ f[i] = f[j]
          BY <3>1
        <4>2. QED BY <2>1, <4>1 DEF Bijection, Injection, IsInjective
      <3>2. QED BY <3>1
    <2>4. \A x \in Below(f[k]) : \E i \in 1..(k - 1) : g[i] = x
      <3>1. ASSUME NEW x \in Below(f[k]) PROVE \E i \in 1..(k - 1) : g[i] = x
        <4>1. PICK i \in 1..n : f[i] = x
          BY <2>1 DEF Bijection, Surjection
        <4>2. <<x, f[k]>> \in R /\ x \in 1..n /\ f[k] \in 1..n
          BY <1>1
        <4>3. i # k
          BY <4>1, <4>2 DEF TotalOrder
        <4>4. ~(k < i)
          <5>1. SUFFICES ASSUME k < i PROVE FALSE
            OBVIOUS
          <5>2. <<f[k], x>> \in R
            BY <1>1, <4>1, <5>1 DEF Arranges
          <5>3. <<x, x>> \in R
            BY <4>2, <5>2 DEF TotalOrder
          <5>4. QED BY <4>2, <5>3 DEF TotalOrder
        <4>5. i \in 1..(k - 1)
          BY <4>3, <4>4
        <4>6. QED BY <4>1, <4>5
      <3>2. QED BY <3>1
    <2> HIDE DEF g, Below
    <2>5. g \in Bijection(1..(k - 1), Below(f[k]))
      BY <2>2, <2>3, <2>4 DEF Bijection, Injection, Surjection, IsInjective
    <2>6. IsFiniteSet(1..(k - 1)) /\ Cardinality(1..(k - 1)) = k - 1
      <3>1. PICK m \in Nat : m = k - 1
        BY <1>1
      <3>2. IsFiniteSet(1..m) /\ Cardinality(1..m) = m
        BY FS_Interval
      <3>3. QED BY <3>1, <3>2
    <2>7. QED BY <2>5, <2>6, FS_Bijection DEF ExistsBijection
  <1>2. ASSUME NEW k \in 1..n PROVE p[k] = q[k]
    <2>1. q \in Bijection(1..n, 1..n)
      BY ArrangementPermutes DEF TotalOrder
    <2>2. PICK m \in 1..n : q[m] = p[k]
      BY <2>1 DEF Bijection, Surjection
    <2>3. Cardinality(Below(p[k])) = k - 1 /\ Cardinality(Below(q[m])) = m - 1
      BY <1>1
    <2> HIDE DEF Below
    <2>4. k = m
      BY <2>2, <2>3
    <2>5. QED BY <2>2, <2>4
  <1>3. QED BY <1>2

\* The order of places by two keys, and by the places where both agree: what a
\* stable sort by a pair of keys sorts by.
Precedes(a, b, i, j) == a[i] < a[j] \/ (a[i] = a[j] /\ b[i] < b[j])
ByKeys(a, b, n) == {q \in (1..n) \X (1..n) :
    Precedes(a, b, q[1], q[2]) \/ (~Precedes(a, b, q[2], q[1]) /\ q[1] < q[2])}

LEMMA ByKeysIsTotal ==
  ASSUME NEW n \in Nat, NEW a \in [1..n -> Int], NEW b \in [1..n -> Int]
  PROVE  TotalOrder(ByKeys(a, b, n), n)
  <1> DEFINE First(i, j) == Precedes(a, b, i, j) \/ (~Precedes(a, b, j, i) /\ i < j)
  <1>1. \A i, j \in 1..n : <<i, j>> \in ByKeys(a, b, n) <=> First(i, j)
    BY DEF ByKeys
  <1>2. \A i \in 1..n : ~First(i, i)
    BY DEF Precedes
  <1>3. \A i, j \in 1..n : i = j \/ First(i, j) \/ First(j, i)
    BY DEF Precedes
  <1>4. \A i, j, k \in 1..n : First(i, j) /\ First(j, k) => First(i, k)
    <2>1. TAKE i, j, k \in 1..n
    <2>2. /\ a[i] \in Int /\ a[j] \in Int /\ a[k] \in Int
          /\ b[i] \in Int /\ b[j] \in Int /\ b[k] \in Int
      OBVIOUS
    <2>3. QED BY <2>2 DEF Precedes
  <1> HIDE DEF First
  <1>5. QED BY <1>1, <1>2, <1>3, <1>4 DEF TotalOrder

\* What the sorts of the engine choose: an arrangement that agrees with the keys.
LEMMA SortByKeys ==
  ASSUME NEW n \in Nat, NEW a \in [1..n -> Int], NEW b \in [1..n -> Int]
  PROVE  LET First(i, j) == Precedes(a, b, i, j) \/ (~Precedes(a, b, j, i) /\ i < j)
             order == CHOOSE p \in [1..n -> 1..n] :
                        \A i, j \in 1..n : i < j => First(p[i], p[j])
         IN  order \in Bijection(1..n, 1..n) /\ Arranges(order, ByKeys(a, b, n), n)
  <1> DEFINE R == ByKeys(a, b, n)
             First(i, j) == Precedes(a, b, i, j) \/ (~Precedes(a, b, j, i) /\ i < j)
             order == CHOOSE p \in [1..n -> 1..n] :
                        \A i, j \in 1..n : i < j => First(p[i], p[j])
  <1>1. TotalOrder(R, n)
    BY ByKeysIsTotal
  <1>2. \A i, j \in 1..n : <<i, j>> \in R <=> First(i, j)
    BY DEF ByKeys
  <1>3. \A p \in [1..n -> 1..n] : Arranges(p, R, n) <=>
          \A i, j \in 1..n : i < j => First(p[i], p[j])
    <2> HIDE DEF First, R
    <2> QED BY <1>2 DEF Arranges
  <1>4. order \in [1..n -> 1..n] /\ Arranges(order, R, n)
    <2> HIDE DEF First, R
    <2> QED BY <1>1, <1>3, SortExists
  <1>5. order \in Bijection(1..n, 1..n)
    <2> HIDE DEF order, R
    <2> QED BY <1>1, <1>4, ArrangementPermutes DEF TotalOrder
  <1>6. QED BY <1>4, <1>5

-----------------------------------------------------------------------------
(* Rearranged sequences                                                    *)

\* A rearranged sequence is the same bag.
LEMMA RearrangedBag ==
  ASSUME NEW n \in Nat, NEW s, DOMAIN s = 1..n, NEW p \in Bijection(1..n, 1..n)
  PROVE  ToBag([k \in 1..n |-> s[p[k]]]) = ToBag(s)
  <1> DEFINE t == [k \in 1..n |-> s[p[k]]]
  <1>1. p \in [1..n -> 1..n] /\ (\A i, j \in 1..n : p[i] = p[j] => i = j)
        /\ \A k \in 1..n : \E i \in 1..n : p[i] = k
    BY DEF Bijection, Injection, Surjection, IsInjective
  <1>2. Range(t) = Range(s)
    <2>1. \A x \in Range(t) : x \in Range(s)
      BY <1>1 DEF Range
    <2>2. \A x \in Range(s) : x \in Range(t)
      <3>1. ASSUME NEW k \in 1..n PROVE s[k] \in Range(t)
        <4>1. PICK i \in 1..n : p[i] = k
          BY <1>1
        <4>2. t[i] = s[k]
          BY <4>1
        <4>3. QED BY <4>2 DEF Range
      <3>2. QED BY <3>1 DEF Range
    <2>3. QED BY <2>1, <2>2
  <1>3. ASSUME NEW x
        PROVE  Cardinality({i \in 1..n : t[i] = x}) = Cardinality({i \in 1..n : s[i] = x})
    <2> DEFINE A == {i \in 1..n : t[i] = x}
               B == {i \in 1..n : s[i] = x}
               g == [i \in A |-> p[i]]
    <2>1. g \in [A -> B]
      BY <1>1
    <2>2. \A i, j \in A : g[i] = g[j] => i = j
      BY <1>1
    <2>3. \A k \in B : \E i \in A : g[i] = k
      <3>1. ASSUME NEW k \in B PROVE \E i \in A : g[i] = k
        <4>1. PICK i \in 1..n : p[i] = k
          BY <1>1
        <4>2. t[i] = x
          BY <4>1
        <4>3. i \in A /\ g[i] = k
          BY <4>1, <4>2
        <4>4. QED BY <4>3
      <3>2. QED BY <3>1
    <2>4. IsFiniteSet(A)
      <3>1. IsFiniteSet(1..n)
        BY FS_Interval
      <3>2. QED BY <3>1, FS_Subset
    <2> HIDE DEF A, B, g
    <2>5. g \in Bijection(A, B)
      BY <2>1, <2>2, <2>3 DEF Bijection, Injection, Surjection, IsInjective
    <2>6. Cardinality(A) = Cardinality(B)
      BY <2>4, <2>5, FS_Bijection DEF ExistsBijection
    <2>7. QED BY <2>6 DEF A, B
  <1>4. DOMAIN t = 1..n
    OBVIOUS
  <1> HIDE DEF t
  <1>5. ToBag(t) = ToBag(s)
    BY <1>2, <1>3, <1>4 DEF ToBag
  <1>6. QED BY <1>5 DEF t

-----------------------------------------------------------------------------
(* SumFunction, which is defined by recursion on the set of places left.    *)

Chosen(s) == CHOOSE x \in s : TRUE

LEMMA Removed ==
  ASSUME NEW s, IsFiniteSet(s), NEW x \in s
  PROVE  IsFiniteSet(s \ {x}) /\ Cardinality(s) = Cardinality(s \ {x}) + 1 /\ Cardinality(s \ {x}) \in Nat
  <1>1. IsFiniteSet(s \ {x}) /\ Cardinality(s \ {x}) = Cardinality(s) - 1
    BY FS_RemoveElement
  <1>2. Cardinality(s) \in Nat /\ Cardinality(s \ {x}) \in Nat
    BY <1>1, FS_CardinalityType
  <1>3. QED BY <1>1, <1>2

Sums(g, f, D) == g = [s \in SUBSET D |-> IF s = {} THEN 0 ELSE f[Chosen(s)] + g[s \ {Chosen(s)}]]

\* The recursion has a solution.
LEMMA SumExists ==
  ASSUME NEW D, IsFiniteSet(D), NEW f \in [D -> Int]
  PROVE  \E g : Sums(g, f, D)
  <1> DEFINE Small(m) == {s \in SUBSET D : Cardinality(s) <= m}
             Turn(g, s) == IF s = {} THEN 0 ELSE f[Chosen(s)] + g[s \ {Chosen(s)}]
             T == {m \in Nat : \E g : \A s \in Small(m) : g[s] = Turn(g, s)}
  <1>1. \A s \in SUBSET D : IsFiniteSet(s) /\ Cardinality(s) \in Nat
    BY FS_Subset, FS_CardinalityType
  <1>2. \A s \in SUBSET D : s # {} => Chosen(s) \in s /\ s \ {Chosen(s)} \in SUBSET D
    BY DEF Chosen
  <1>3. 0 \in T
    <2> DEFINE g == [s \in SUBSET D |-> 0]
    <2>1. \A s \in Small(0) : s = {}
      BY <1>1, FS_EmptySet
    <2>2. \A s \in Small(0) : g[s] = Turn(g, s)
      BY <2>1
    <2> HIDE DEF g, Small, Turn
    <2>3. QED BY <2>2
  <1>4. ASSUME NEW m \in Nat, m \in T PROVE m + 1 \in T
    <2>1. PICK g : \A s \in Small(m) : g[s] = Turn(g, s)
      BY <1>4
    <2> DEFINE h == [s \in SUBSET D |-> IF s \in Small(m) THEN g[s] ELSE Turn(g, s)]
    <2>2. \A s \in Small(m + 1) : h[s] = Turn(g, s)
      BY <2>1
    <2>3. ASSUME NEW s \in Small(m + 1), s # {} PROVE h[s \ {Chosen(s)}] = g[s \ {Chosen(s)}]
      <3>1. Chosen(s) \in s /\ s \ {Chosen(s)} \in SUBSET D /\ IsFiniteSet(s)
        BY <1>1, <1>2, <2>3
      <3>2. Cardinality(s) = Cardinality(s \ {Chosen(s)}) + 1 /\ Cardinality(s \ {Chosen(s)}) \in Nat
        BY <3>1, Removed
      <3>3. s \ {Chosen(s)} \in Small(m)
        BY <3>1, <3>2
      <3> HIDE DEF Small
      <3>4. QED BY <3>1, <3>3
    <2>4. \A s \in Small(m + 1) : h[s] = Turn(h, s)
      <3> HIDE DEF h, Small
      <3> QED BY <2>2, <2>3
    <2> HIDE DEF h, Small, Turn
    <2>5. QED BY <2>4
  <1>5. PICK n \in Nat : n = Cardinality(D)
    BY FS_CardinalityType
  <1>6. PICK g : \A s \in Small(n) : g[s] = Turn(g, s)
    <2> HIDE DEF T
    <2>1. n \in T
      BY <1>3, <1>4, SetInduction
    <2>2. QED BY <2>1 DEF T
  <1>7. \A s \in SUBSET D : s \in Small(n)
    BY <1>5, FS_Subset
  <1> DEFINE h == [s \in SUBSET D |-> g[s]]
             r == [s \in SUBSET D |-> Turn(h, s)]
  <1>8. \A s \in SUBSET D : h[s] = Turn(h, s)
    <2>1. \A s \in SUBSET D : h[s] = Turn(g, s)
      BY <1>6, <1>7
    <2>2. \A s \in SUBSET D : s # {} => h[s \ {Chosen(s)}] = g[s \ {Chosen(s)}]
      BY <1>2
    <2> HIDE DEF h
    <2>3. QED BY <2>1, <2>2
  <1>9. h = r
    BY <1>8, Zenon
  <1>10. QED BY <1>9, Zenon DEF Sums

\* g holds the sum of f over every part of D: any place may be taken out first.
SumOver(g, f, D) ==
  /\ g \in [SUBSET D -> Int] /\ SumFunction(f) = g[D] /\ g[{}] = 0
  /\ \A s \in SUBSET D : \A x \in s : g[s] = f[x] + g[s \ {x}]

LEMMA SumSteps ==
  ASSUME NEW D, IsFiniteSet(D), NEW f \in [D -> Int]
  PROVE  \E g : SumOver(g, f, D)
  <1> DEFINE g == CHOOSE h : h = [s \in SUBSET D |-> IF s = {} THEN 0 ELSE f[Chosen(s)] + h[s \ {Chosen(s)}]]
             Typed == {m \in Nat : \A s \in SUBSET D : Cardinality(s) = m => g[s] \in Int}
             Free == {m \in Nat : \A s \in SUBSET D : Cardinality(s) = m =>
                        \A x \in s : g[s] = f[x] + g[s \ {x}]}
  <1>1. SumFunction(f) = g[D]
    <2>1. DOMAIN f = D
      OBVIOUS
    <2>2. QED BY <2>1 DEF SumFunction, SumFunctionOnSet, FoldFunctionOnSet, MapThenFoldSet, Chosen
  <1>2. g = [s \in SUBSET D |-> IF s = {} THEN 0 ELSE f[Chosen(s)] + g[s \ {Chosen(s)}]]
    <2>1. \E h : Sums(h, f, D)
      BY SumExists
    <2>2. QED BY <2>1, Zenon DEF Sums
  <1> HIDE DEF g
  <1>3. g[{}] = 0 /\ \A s \in SUBSET D : s # {} => g[s] = f[Chosen(s)] + g[s \ {Chosen(s)}]
    BY <1>2
  <1>4. \A s \in SUBSET D : IsFiniteSet(s) /\ Cardinality(s) \in Nat
    BY FS_Subset, FS_CardinalityType
  <1>5. ASSUME NEW s \in SUBSET D, NEW x \in s
        PROVE  s \ {x} \in SUBSET D /\ Cardinality(s) = Cardinality(s \ {x}) + 1
               /\ Cardinality(s \ {x}) \in Nat /\ f[x] \in Int
    <2>1. s \ {x} \in SUBSET D /\ x \in D /\ IsFiniteSet(s)
      BY <1>4
    <2>2. QED BY <2>1, Removed
  <1>6. \A s \in SUBSET D : g[s] \in Int
    <2>1. 0 \in Typed
      <3>1. \A s \in SUBSET D : Cardinality(s) = 0 => s = {}
        BY <1>4, FS_EmptySet
      <3>2. ASSUME NEW s \in SUBSET D, Cardinality(s) = 0 PROVE g[s] \in Int
        <4>1. s = {} /\ 0 \in Int
          BY <3>1, <3>2
        <4>2. QED BY <1>3, <4>1, Zenon
      <3>3. QED BY <3>2
    <2>2. ASSUME NEW m \in Nat, m \in Typed PROVE m + 1 \in Typed
      <3>1. ASSUME NEW s \in SUBSET D, Cardinality(s) = m + 1 PROVE g[s] \in Int
        <4>1. s # {}
          BY <3>1, FS_EmptySet
        <4>2. PICK c \in s : c = Chosen(s)
          BY <4>1 DEF Chosen
        <4>3. g[s] = f[c] + g[s \ {c}]
          BY <1>3, <4>1, <4>2
        <4>4. Cardinality(s \ {c}) = m /\ s \ {c} \in SUBSET D /\ f[c] \in Int
          BY <1>5, <3>1
        <4>5. g[s \ {c}] \in Int
          BY <2>2, <4>4
        <4>6. QED BY <4>3, <4>4, <4>5
      <3>2. QED BY <3>1
    <2>3. \A m \in Nat : m \in Typed
      <3> HIDE DEF Typed
      <3> QED BY <2>1, <2>2, SetInduction
    <2>4. QED BY <1>4, <2>3
  <1>7. \A s \in SUBSET D : \A x \in s : g[s] = f[x] + g[s \ {x}]
    <2>1. 0 \in Free
      <3>1. \A s \in SUBSET D : Cardinality(s) = 0 => s = {}
        BY <1>4, FS_EmptySet
      <3>2. QED BY <3>1
    <2>2. ASSUME NEW m \in Nat, m \in Free PROVE m + 1 \in Free
      <3>1. ASSUME NEW s \in SUBSET D, Cardinality(s) = m + 1, NEW x \in s
            PROVE  g[s] = f[x] + g[s \ {x}]
        <4>1. PICK c \in s : c = Chosen(s)
          BY DEF Chosen
        <4>2. g[s] = f[c] + g[s \ {c}]
          BY <1>3, <4>1
        <4>3. CASE x = c
          BY <4>2, <4>3
        <4>4. CASE x # c
          <5>1. x \in s \ {c} /\ c \in s \ {x}
            BY <4>4
          <5>2. s \ {c} \in SUBSET D /\ Cardinality(s \ {c}) = m /\ f[c] \in Int
            BY <1>5, <3>1
          <5>3. s \ {x} \in SUBSET D /\ Cardinality(s \ {x}) = m /\ f[x] \in Int
            BY <1>5, <3>1
          <5>4. PICK r \in SUBSET D : r = (s \ {c}) \ {x} /\ r = (s \ {x}) \ {c}
            BY <5>2
          <5>5. g[s \ {c}] = f[x] + g[r]
            BY <2>2, <5>1, <5>2, <5>4
          <5>6. g[s \ {x}] = f[c] + g[r]
            BY <2>2, <5>1, <5>3, <5>4
          <5>7. g[r] \in Int
            BY <1>6
          <5>8. QED BY <4>2, <5>2, <5>3, <5>5, <5>6, <5>7
        <4>5. QED BY <4>3, <4>4
      <3>2. QED BY <3>1
    <2>3. \A m \in Nat : m \in Free
      <3> HIDE DEF Free
      <3> QED BY <2>1, <2>2, SetInduction
    <2>4. QED BY <1>4, <2>3
  <1>8. g \in [SUBSET D -> Int]
    BY <1>2, <1>6
  <1>9. SumOver(g, f, D)
    BY <1>1, <1>3, <1>7, <1>8 DEF SumOver
  <1>10. QED BY <1>9
=============================================================================
