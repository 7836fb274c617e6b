--------------------------- MODULE SelectionProof ---------------------------
(***************************************************************************)
(* What Picked of module Selection returns, for every list and every set of *)
(* its indices; and induction, which the lists of other modules need.      *)
(***************************************************************************)
EXTENDS Selection, FiniteSetTheorems, TLAPS

\* The rank of an index among those of I.
Rank(I, i) == Cardinality({j \in I : j \leq i})

\* Ranks lie in 1..Cardinality(I) and grow with the index.
LEMMA RankGrows ==
    ASSUME NEW I, I \subseteq Nat, IsFiniteSet(I)
    PROVE  /\ Cardinality(I) \in Nat
           /\ \A i \in I : Rank(I, i) \in 1..Cardinality(I)
           /\ \A i, j \in I : i < j => Rank(I, i) < Rank(I, j)
<1>1. Cardinality(I) \in Nat
  BY FS_CardinalityType
<1> DEFINE Upto(i) == {j \in I : j \leq i}
<1>2. ASSUME NEW i \in I
      PROVE  /\ IsFiniteSet(Upto(i)) /\ Cardinality(Upto(i)) \in Nat
             /\ Cardinality(Upto(i)) \leq Cardinality(I)
  <2>1. Upto(i) \in SUBSET I
    OBVIOUS
  <2> HIDE DEF Upto
  <2>2. IsFiniteSet(Upto(i)) /\ Cardinality(Upto(i)) \leq Cardinality(I)
    BY <2>1, FS_Subset
  <2> QED BY <2>2, FS_CardinalityType
<1>3. ASSUME NEW i \in I PROVE Cardinality(Upto(i)) \in 1..Cardinality(I)
  <2>1. i \in Upto(i)
    OBVIOUS
  <2> HIDE DEF Upto
  <2>2. Cardinality(Upto(i)) # 0
    BY <1>2, <2>1, FS_EmptySet
  <2> QED BY <1>1, <1>2, <2>2
<1>4. ASSUME NEW i \in I, NEW j \in I, i < j
      PROVE  Cardinality(Upto(i)) < Cardinality(Upto(j))
  <2>0. i \in Nat /\ j \in Nat
    OBVIOUS
  <2>1. Upto(i) \in SUBSET Upto(j)
    <3>1. ASSUME NEW k \in I, k \leq i PROVE k \leq j
      <4>1. k \in Nat
        OBVIOUS
      <4> QED BY <1>4, <2>0, <3>1, <4>1
    <3> QED BY <3>1
  <2>2. j \in Upto(j) /\ j \notin Upto(i)
    BY <1>4, <2>0
  <2>3. Upto(i) # Upto(j)
    BY <2>2
  <2> HIDE DEF Upto
  <2>4. Cardinality(Upto(i)) \leq Cardinality(Upto(j)) /\ Cardinality(Upto(i)) # Cardinality(Upto(j))
    BY <1>2, <2>1, <2>3, FS_Subset
  <2> QED BY <1>2, <2>4
<1> QED BY <1>1, <1>3, <1>4 DEF Rank

\* A finite set of indices can be gone through in ascending order, missing none.
LEMMA AscentExists ==
    ASSUME NEW I, I \subseteq Nat, IsFiniteSet(I)
    PROVE  \E f \in [1..Cardinality(I) -> I] :
              Ascends(f, I) /\ \A i \in I : \E k \in 1..Cardinality(I) : f[k] = i
<1> DEFINE n == Cardinality(I)
           rank == [i \in I |-> Rank(I, i)]
<1>1. /\ n \in Nat /\ \A i \in I : rank[i] \in 1..n
      /\ \A i, j \in I : i < j => rank[i] < rank[j]
  BY RankGrows
<1> HIDE DEF n
<1>2. rank \in Injection(I, 1..n)
  <2>1. rank \in [I -> 1..n]
    BY <1>1
  <2>2. ASSUME NEW i \in I, NEW j \in I, rank[i] = rank[j] PROVE i = j
    <3>1. i \in Nat /\ j \in Nat /\ rank[i] \in Nat /\ rank[j] \in Nat
      BY <1>1
    <3>2. ~(i < j) /\ ~(j < i)
      BY <1>1, <2>2, <3>1
    <3> QED BY <3>1, <3>2
  <2> HIDE DEF rank
  <2> QED BY <2>1, <2>2 DEF Injection, IsInjective
<1>3. IsFiniteSet(1..n) /\ Cardinality(1..n) = n
  BY <1>1, FS_Interval
<1>4. rank \in Surjection(I, 1..n)
  BY <1>2, <1>3, FS_Injection DEF n
<1>5. \A k \in 1..n : \E i \in I : rank[i] = k
  BY <1>4 DEF Surjection
<1> DEFINE f == [k \in 1..n |-> CHOOSE i \in I : rank[i] = k]
<1>6. \A k \in 1..n : f[k] \in I /\ rank[f[k]] = k
  BY <1>5
<1>7. ASSUME NEW k \in 1..n, NEW l \in 1..n, k < l PROVE f[k] < f[l]
  <2>1. f[k] \in I /\ f[l] \in I /\ rank[f[k]] = k /\ rank[f[l]] = l
    BY <1>6
  <2> HIDE DEF f, rank
  <2>2. f[k] \in Nat /\ f[l] \in Nat /\ k \in Nat /\ l \in Nat
    <3>1. k \in Nat /\ l \in Nat
      BY <1>1
    <3> QED BY <2>1, <3>1
  <2>3. f[k] # f[l]
    BY <1>7, <2>1, <2>2
  <2>4. ~(f[l] < f[k])
    BY <1>1, <1>7, <2>1, <2>2
  <2> QED BY <2>2, <2>3, <2>4
<1>8. f \in [1..n -> I]
  BY <1>6
<1>9. ASSUME NEW i \in I PROVE \E k \in 1..n : f[k] = i
  <2>1. rank[i] \in 1..n
    BY <1>1
  <2>2. f[rank[i]] \in I /\ rank[f[rank[i]]] = rank[i]
    BY <1>6, <2>1
  <2> HIDE DEF f, rank
  <2>3. f[rank[i]] = i
    BY <1>2, <2>2 DEF Injection, IsInjective
  <2> QED BY <2>1, <2>3
<1> HIDE DEF f, rank
<1> QED BY <1>7, <1>8, <1>9 DEF Ascends, n

\* What filter returns: the k-th entry is the one at index at[k] of the list, where
\* `at' goes through the indices that stay, each once and in ascending order.
THEOREM PickedFacts ==
    ASSUME NEW S, NEW es \in Seq(S), NEW I \in SUBSET DOMAIN es
    PROVE  /\ Cardinality(I) \in Nat
           /\ Picked(es, I) \in Seq(S) /\ Len(Picked(es, I)) = Cardinality(I)
           /\ DOMAIN Picked(es, I) = 1..Cardinality(I)
           /\ \E at \in [1..Cardinality(I) -> I] :
                 /\ \A i, j \in 1..Cardinality(I) : i < j => at[i] < at[j]
                 /\ \A i \in I : \E k \in 1..Cardinality(I) : at[k] = i
                 /\ \A k \in 1..Cardinality(I) : Picked(es, I)[k] = es[at[k]]
<1> DEFINE n == Cardinality(I)
           at == CHOOSE f \in [1..n -> I] : Ascends(f, I)
<1>1. I \subseteq Nat /\ I \subseteq 1..Len(es) /\ Len(es) \in Nat
  OBVIOUS
<1>2. IsFiniteSet(I)
  BY <1>1, FS_Interval, FS_Subset
<1>3. n \in Nat
  BY <1>2, FS_CardinalityType
<1>4. at \in [1..n -> I] /\ \A i, j \in 1..n : i < j => at[i] < at[j]
  <2>1. \E f \in [1..n -> I] : Ascends(f, I)
    BY <1>1, <1>2, AscentExists
  <2>2. Ascends(at, I)
    BY <2>1
  <2> QED BY <2>2 DEF Ascends
<1>5. Picked(es, I) = [k \in 1..n |-> es[at[k]]]
  BY DEF Picked
<1> HIDE DEF n, at
<1>6. at \in Injection(1..n, I)
  <2>1. ASSUME NEW i \in 1..n, NEW j \in 1..n, at[i] = at[j] PROVE i = j
    <3>1. i \in Nat /\ j \in Nat /\ at[i] \in Nat /\ at[j] \in Nat
      BY <1>1, <1>3, <1>4
    <3>2. ~(i < j) /\ ~(j < i)
      BY <1>4, <2>1, <3>1
    <3> QED BY <3>1, <3>2
  <2> QED BY <1>4, <2>1 DEF Injection, IsInjective
<1>7. at \in Surjection(1..n, I)
  <2>1. IsFiniteSet(1..n) /\ Cardinality(1..n) = n
    BY <1>3, FS_Interval
  <2> QED BY <1>2, <1>6, <2>1, FS_Injection DEF n
<1>8. \A i \in I : \E k \in 1..n : at[k] = i
  BY <1>7 DEF Surjection
<1>9. \A k \in 1..n : es[at[k]] \in S
  BY <1>1, <1>4
<1>10. Picked(es, I) \in Seq(S) /\ Len(Picked(es, I)) = n /\ DOMAIN Picked(es, I) = 1..n
  BY <1>3, <1>5, <1>9
<1>11. \A k \in 1..n : Picked(es, I)[k] = es[at[k]]
  BY <1>5
<1> QED BY <1>3, <1>4, <1>8, <1>10, <1>11 DEF n

-----------------------------------------------------------------------------
(* Induction and recursion on the naturals.  The library states both with an *)
(* operator parameter; as statements about sets and functions they can be    *)
(* cited.                                                                    *)

\* A set of naturals that holds 0 and the successor of each of its members holds all.
LEMMA Induction ==
    ASSUME NEW T, 0 \in T, \A n \in Nat : n \in T => n + 1 \in T
    PROVE  Nat \subseteq T
<1> SUFFICES ASSUME NEW n \in Nat, n \notin T PROVE FALSE
  OBVIOUS
<1> DEFINE I == {i \in 0..n : i \notin T}
           c == Cardinality(I)
<1>1. I \subseteq Nat /\ I \subseteq 0..n /\ n \in I
  OBVIOUS
<1>2. \A i \in I : i \in Nat /\ i \notin T
  OBVIOUS
<1>3. \A i \in Nat : i \leq n /\ i \notin T => i \in I
  OBVIOUS
<1> HIDE DEF I
<1>4. IsFiniteSet(I)
  <2>1. IsFiniteSet(0..n)
    BY FS_Interval
  <2> QED BY <1>1, <2>1, FS_Subset
<1>5. c \in Nat /\ c # 0
  BY <1>1, <1>4, FS_CardinalityType, FS_EmptySet
<1>6. PICK f \in [1..c -> I] : Ascends(f, I) /\ \A i \in I : \E k \in 1..c : f[k] = i
  BY <1>1, <1>4, AscentExists
<1> HIDE DEF c
<1>7. f[1] \in Nat /\ f[1] \in I /\ f[1] \leq n
  <2>1. 1 \in 1..c
    BY <1>5
  <2>2. f[1] \in I
    BY <1>6, <2>1
  <2>3. f[1] \in 0..n
    BY <1>1, <2>2
  <2> QED BY <2>2, <2>3
<1>8. f[1] # 0
  BY <1>2, <1>7
<1>9. \A i \in I : f[1] \leq i
  <2>2. \A k \in 1..c : 1 < k => f[1] < f[k]
    BY <1>5, <1>6 DEF Ascends, c
  <2>3. \A k \in 1..c : f[1] \leq f[k]
    <3>1. \A k \in 1..c : k = 1 \/ 1 < k
      BY <1>5
    <3>2. \A k \in 1..c : f[k] \in Nat
      BY <1>1, <1>6
    <3> QED BY <1>7, <2>2, <3>1, <3>2
  <2> QED BY <1>6, <2>3
<1>10. f[1] - 1 \in Nat /\ f[1] - 1 \leq n /\ ~(f[1] \leq f[1] - 1)
  BY <1>7, <1>8
<1>11. f[1] - 1 \in T
  <2>1. f[1] - 1 \notin I
    BY <1>9, <1>10
  <2> QED BY <1>3, <1>10, <2>1
<1>12. (f[1] - 1) + 1 \in T /\ (f[1] - 1) + 1 = f[1]
  <2> DEFINE p == f[1] - 1
  <2>1. p \in Nat /\ p \in T /\ p + 1 = f[1]
    BY <1>7, <1>10, <1>11
  <2> HIDE DEF p
  <2>2. p + 1 \in T
    BY <2>1
  <2> QED BY <2>1, <2>2 DEF p
<1> QED BY <1>2, <1>7, <1>12

\* f[i] is what the first i of n steps make of x.
Folds(f, n, x, step) == f = [i \in 0..n |-> IF i = 0 THEN x ELSE step[i][f[i - 1]]]

\* There is such an f.
LEMMA FoldExists ==
    ASSUME NEW n \in Nat, NEW S, NEW x \in S, NEW step \in [1..n -> [S -> S]]
    PROVE  \E f \in [0..n -> S] : Folds(f, n, x, step)
<1> DEFINE Is(m, f) == /\ f \in [0..m -> S] /\ f[0] = x
                       /\ \A i \in 1..m : f[i] = step[i][f[i - 1]]
           T == {m \in Nat : m \leq n => \E f : Is(m, f)}
<1>1. 0 \in T
  <2>1. Is(0, [i \in 0..0 |-> x])
    OBVIOUS
  <2> QED BY <2>1
<1>2. ASSUME NEW m \in Nat, m \in T PROVE m + 1 \in T
  <2> SUFFICES ASSUME m + 1 \leq n PROVE \E f : Is(m + 1, f)
    OBVIOUS
  <2>1. PICK f : Is(m, f)
    BY <1>2
  <2> DEFINE g == [i \in 0..(m + 1) |-> IF i = m + 1 THEN step[m + 1][f[m]] ELSE f[i]]
  <2>2. m + 1 \in 1..n /\ f[m] \in S
    BY <2>1
  <2>3. step[m + 1][f[m]] \in S
    BY <2>2
  <2>4. g \in [0..(m + 1) -> S] /\ g[0] = x
    BY <2>1, <2>3
  <2>5. ASSUME NEW i \in 1..(m + 1) PROVE g[i] = step[i][g[i - 1]]
    <3>1. CASE i = m + 1
      BY <3>1
    <3>2. CASE i # m + 1
      <4>1. i \in 1..m /\ i - 1 \in 0..m /\ i - 1 # m + 1 /\ i \in 0..(m + 1)
            /\ i - 1 \in 0..(m + 1)
        BY <3>2
      <4> QED BY <2>1, <3>2, <4>1
    <3> QED BY <3>1, <3>2
  <2> HIDE DEF g
  <2> QED BY <2>4, <2>5
<1> HIDE DEF T
<1>3. n \in T
  BY <1>1, <1>2, Induction
<1>4. PICK f : Is(n, f)
  BY <1>3 DEF T
<1>5. Folds(f, n, x, step)
  BY <1>4 DEF Folds
<1> QED BY <1>4, <1>5

=============================================================================
