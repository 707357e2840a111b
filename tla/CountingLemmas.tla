---------------------------- MODULE CountingLemmas ----------------------------
(***************************************************************************)
(* Induction over the natural numbers for sets instead of predicates, and  *)
(* what it says of counting: the places of a sequence, and the elements of *)
(* a finite set of numbers in their order.                                 *)
(***************************************************************************)
EXTENDS Integers, Sequences, FiniteSets, FiniteSetTheorems, WellFoundedInduction, TLAPS

\* A set of numbers has a least element.
LEMMA LeastElement ==
    ASSUME NEW T \in SUBSET Nat, T # {}
    PROVE  \E x \in T : \A y \in T : x <= y
<1> DEFINE less == OpToRel(<, Nat)
<1>1. IsWellFoundedOn(less, Nat)
  BY NatLessThanWellFounded
<1>2. \A x, y \in Nat : <<y, x>> \in less <=> y < x
  BY DEF OpToRel
<1> HIDE DEF less
<1>3. PICK x \in T : \A y \in T : <<y, x>> \notin less
  BY <1>1, WFMin
<1>4. \A y \in T : ~(y < x)
  BY <1>2, <1>3
<1>5. \A y \in T : x <= y
  BY <1>4
<1> QED
  BY <1>5

\* A set of numbers that has 0 and every successor is Nat.
LEMMA SetInduction ==
    ASSUME NEW T \in SUBSET Nat, 0 \in T, \A n \in T : n + 1 \in T
    PROVE  T = Nat
<1> DEFINE missing == Nat \ T
<1> SUFFICES ASSUME missing # {} PROVE FALSE
  OBVIOUS
<1>1. missing \in SUBSET Nat
  OBVIOUS
<1> HIDE DEF missing
<1>2. PICK x \in missing : \A y \in missing : x <= y
  BY <1>1, LeastElement
<1> USE DEF missing
<1>3. x # 0
  OBVIOUS
<1>4. x - 1 \in Nat /\ x - 1 \notin missing
  BY <1>2, <1>3
<1>5. x - 1 + 1 \in T
  BY <1>4
<1> QED
  BY <1>5

\* The places at which a sequence has an element of a set.
Places(s, T) == {i \in DOMAIN s : s[i] \in T}

\* They are finitely many, and appending adds at most the last.
LEMMA PlacesInAppend ==
    ASSUME NEW S, NEW s \in Seq(S), NEW x \in S, NEW T
    PROVE  /\ IsFiniteSet(Places(s, T)) /\ Cardinality(Places(s, T)) \in Nat
           /\ Cardinality(Places(Append(s, x), T))
                 = IF x \in T THEN Cardinality(Places(s, T)) + 1 ELSE Cardinality(Places(s, T))
<1> USE DEF Places
<1> DEFINE before == Places(s, T)
           after == Places(Append(s, x), T)
<1>1. /\ Len(s) \in Nat /\ DOMAIN s = 1 .. Len(s)
      /\ DOMAIN Append(s, x) = 1 .. Len(s) + 1
      /\ Append(s, x)[Len(s) + 1] = x
      /\ \A i \in 1 .. Len(s) : Append(s, x)[i] = s[i]
  OBVIOUS
<1>2. IsFiniteSet(1 .. Len(s))
  BY <1>1, FS_Interval
<1>3. IsFiniteSet(before)
  BY <1>1, <1>2, FS_Subset
<1>4. Cardinality(before) \in Nat
  BY <1>3, FS_CardinalityType
<1>5. Len(s) + 1 \notin before
  BY <1>1
<1>6. CASE x \in T
  <2>1. after = before \cup {Len(s) + 1}
    BY <1>1, <1>6
  <2>2. Cardinality(before \cup {Len(s) + 1}) = Cardinality(before) + 1
    BY <1>3, <1>5, FS_AddElement
  <2> QED
    BY <1>3, <1>4, <1>6, <2>1, <2>2
<1>7. CASE x \notin T
  <2>1. after = before
    BY <1>1, <1>7
  <2> QED
    BY <1>3, <1>4, <1>7, <2>1
<1> QED
  BY <1>6, <1>7

-----------------------------------------------------------------------------
(* The elements of a finite set of numbers, in their order.                *)

\* How many elements are smaller.
Below(S, i) == {k \in S : k < i}

\* They are finitely many, and fewer than all.
LEMMA BelowCounted ==
    ASSUME NEW S \in SUBSET Nat, IsFiniteSet(S), NEW i \in S
    PROVE  /\ IsFiniteSet(Below(S, i))
           /\ Cardinality(Below(S, i)) \in 0 .. Cardinality(S) - 1
<1>1. Below(S, i) \in SUBSET (S \ {i})
  BY DEF Below
<1>2. IsFiniteSet(S \ {i}) /\ Cardinality(S \ {i}) = Cardinality(S) - 1
  BY FS_RemoveElement
<1>3. IsFiniteSet(Below(S, i)) /\ Cardinality(Below(S, i)) <= Cardinality(S) - 1
  BY <1>1, <1>2, FS_Subset
<1>4. Cardinality(Below(S, i)) \in Nat /\ Cardinality(S) \in Nat
  BY <1>3, FS_CardinalityType
<1> QED
  BY <1>3, <1>4

\* A larger element has more below it.
LEMMA BelowGrows ==
    ASSUME NEW S \in SUBSET Nat, IsFiniteSet(S), NEW i \in S, NEW j \in S, i < j
    PROVE  Cardinality(Below(S, i)) < Cardinality(Below(S, j))
<1>1. /\ IsFiniteSet(Below(S, i)) /\ IsFiniteSet(Below(S, j))
      /\ Cardinality(Below(S, i)) \in Nat /\ Cardinality(Below(S, j)) \in Nat
  BY BelowCounted, FS_CardinalityType
<1>2. Below(S, i) \cup {i} \in SUBSET Below(S, j) /\ i \notin Below(S, i)
  <2>1. i \in Nat /\ j \in Nat
    OBVIOUS
  <2>2. \A k \in Nat : k < i => k < j
    BY <2>1
  <2>3. ~(i < i)
    BY <2>1
  <2> QED
    BY <2>2, <2>3 DEF Below
<1>3. Cardinality(Below(S, i) \cup {i}) = Cardinality(Below(S, i)) + 1
  BY <1>1, <1>2, FS_AddElement
<1>4. Cardinality(Below(S, i) \cup {i}) <= Cardinality(Below(S, j))
  BY <1>1, <1>2, FS_Subset
<1> QED
  BY <1>1, <1>3, <1>4

\* Elements with as many below them are the same.
LEMMA BelowTellsApart ==
    ASSUME NEW S \in SUBSET Nat, IsFiniteSet(S), NEW i \in S, NEW j \in S,
           Cardinality(Below(S, i)) = Cardinality(Below(S, j))
    PROVE  i = j
<1>1. Cardinality(Below(S, i)) \in Nat
  BY BelowCounted, FS_CardinalityType
<1>2. ~(Cardinality(Below(S, i)) < Cardinality(Below(S, j)))
  BY <1>1
<1>3. ~(Cardinality(Below(S, j)) < Cardinality(Below(S, i)))
  BY <1>1
<1>4. ~(i < j) /\ ~(j < i)
  BY <1>2, <1>3, BelowGrows
<1> QED
  BY <1>4

\* For every number smaller than the number of elements, there is an element with
\* so many below it.
LEMMA EveryRankIsTaken ==
    ASSUME NEW S \in SUBSET Nat, IsFiniteSet(S), NEW n \in 0 .. Cardinality(S) - 1
    PROVE  \E i \in S : Cardinality(Below(S, i)) = n
<1> DEFINE taken == {m \in Nat : m < Cardinality(S) => \E i \in S : Cardinality(Below(S, i)) = m}
<1>0. Cardinality(S) \in Nat
  BY FS_CardinalityType
<1>1. 0 \in taken
  <2> SUFFICES ASSUME 0 < Cardinality(S) PROVE \E i \in S : Cardinality(Below(S, i)) = 0
    BY DEF taken
  <2>1. S # {}
    BY FS_EmptySet
  <2>2. PICK i \in S : \A k \in S : i <= k
    BY <2>1, LeastElement
  <2>3. ASSUME NEW k \in S PROVE ~(k < i)
    <3>1. k \in Nat /\ i \in Nat /\ i <= k
      BY <2>2
    <3> QED
      BY <3>1
  <2>4. Below(S, i) = {}
    BY <2>3 DEF Below
  <2> QED
    BY <2>4, FS_EmptySet
<1>2. ASSUME NEW m \in taken PROVE m + 1 \in taken
  <2> SUFFICES ASSUME m + 1 < Cardinality(S)
               PROVE  \E j \in S : Cardinality(Below(S, j)) = m + 1
    BY <1>2 DEF taken
  <2>1. m \in Nat /\ m < Cardinality(S)
    BY <1>0, <1>2
  <2>2. PICK i \in S : Cardinality(Below(S, i)) = m
    BY <1>2, <2>1
  <2> DEFINE upTo == Below(S, i) \cup {i}
             above == {k \in S : i < k}
  <2>3. IsFiniteSet(upTo) /\ Cardinality(upTo) = m + 1
    <3>1. i \notin Below(S, i) /\ IsFiniteSet(Below(S, i))
      BY BelowCounted DEF Below
    <3> QED
      BY <2>2, <3>1, FS_AddElement
  <2>4. above # {}
    <3>1. above = {} => S = upTo
      <4>1. ASSUME NEW k \in S PROVE i < k \/ k < i \/ k = i
        <5>1. k \in Nat /\ i \in Nat
          OBVIOUS
        <5> QED
          BY <5>1
      <4> QED
        BY <4>1 DEF Below
    <3>2. S # upTo
      BY <2>1, <2>3
    <3> QED
      BY <3>1, <3>2
  <2>5. PICK j \in above : \A k \in above : j <= k
    <3>1. above \in SUBSET Nat
      OBVIOUS
    <3> QED
      BY <2>4, <3>1, LeastElement
  <2>6. Below(S, j) = upTo
    <3>1. ASSUME NEW k \in S PROVE k < j <=> (k < i \/ k = i)
      <4>1. k \in Nat /\ i \in Nat /\ j \in Nat /\ i < j
        BY <2>5
      <4>2. i < k => j <= k
        BY <2>5
      <4> QED
        BY <4>1, <4>2
    <3> QED
      BY <3>1 DEF Below
  <2> QED
    BY <2>3, <2>5, <2>6
<1>3. taken = Nat
  <2>1. taken \in SUBSET Nat
    OBVIOUS
  <2> HIDE DEF taken
  <2> QED
    BY <1>1, <1>2, <2>1, SetInduction
<1>4. n \in taken /\ n < Cardinality(S)
  <2>1. n \in Nat /\ n < Cardinality(S)
    BY <1>0
  <2> HIDE DEF taken
  <2> QED
    BY <1>3, <2>1
<1> QED
  BY <1>4
=============================================================================
