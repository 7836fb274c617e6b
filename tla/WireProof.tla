------------------------------ MODULE WireProof ------------------------------
(***************************************************************************)
(* Theorems about Wire: whatever is sent, over whichever carrier, however  *)
(* it is cut on its way, what is read is what was written.                 *)
(*                                                                         *)
(* The argument.  The bytes that are underway, those the reader holds, those *)
(* on the wire and those in the writer's queue, are one sequence, in which *)
(* each byte is followed by the one after it in its own item or, at the end *)
(* of an item, by the first byte of the item whose line was written next.  *)
(* The sequence begins where the reader is and, until the medium loses     *)
(* something, ends where the writer is.  A line or a run of octets is then *)
(* found at the front of it, at the lengths the reader looks for.          *)
(***************************************************************************)
EXTENDS Wire, SelectionProof, SequenceTheorems, TLAPS

-----------------------------------------------------------------------------
(* What FlattenSeq returns. *)

LEMMA Associates ==
    ASSUME NEW S, NEW s \in Seq(S), NEW t \in Seq(S), NEW u \in Seq(S)
    PROVE  (s \o t) \o u = s \o (t \o u)
  OBVIOUS

\* How FlattenSeq goes through a sequence.
Flattens(f, ss) == f = [i \in 1..Len(ss) |-> IF i = 1 THEN ss[i] ELSE f[i - 1] \o ss[i]]

LEMMA FlatUnfold ==
    ASSUME NEW S, NEW ss \in Seq(Seq(S)), ss # << >>
    PROVE  /\ Len(ss) \in Nat /\ Len(ss) >= 1
           /\ \E f \in [1..Len(ss) -> Seq(S)] :
                 /\ f[1] = ss[1]
                 /\ \A i \in 1..Len(ss) : i # 1 => f[i] = f[i - 1] \o ss[i]
                 /\ FlattenSeq(ss) = f[Len(ss)]
<1> DEFINE n == Len(ss)
           X == Seq(S)
           x == << >>
           step == [i \in 1..n |-> [q \in X |-> q \o ss[i]]]
           F == CHOOSE f : Flattens(f, ss)
<1>1. n \in Nat /\ n >= 1 /\ n # 0 /\ \A i \in 1..n : ss[i] \in X
  <2>1. n \in Nat \ {0}
    BY EmptySeq
  <2> QED BY <2>1
<1>2. x \in X
  BY EmptySeq
<1>3. step \in [1..n -> [X -> X]]
  <2>1. ASSUME NEW i \in 1..n, NEW q \in X PROVE q \o ss[i] \in X
    BY <1>1, ConcatProperties
  <2> HIDE DEF n, X
  <2> QED BY <2>1
<1>4. PICK f \in [0..n -> X] : Folds(f, n, x, step)
  <2> HIDE DEF n, X, x, step
  <2> QED BY ONLY <1>1, <1>2, <1>3, FoldExists, Zenon
<1> DEFINE g == [i \in 1..n |-> f[i]]
<1>5. g \in [1..n -> X]
  <2> HIDE DEF n, X
  <2> QED BY <1>1, <1>4
<1>6. f[0] = << >> /\ \A i \in 1..n : f[i] = f[i - 1] \o ss[i]
  <2>1. f[0] = x
    <3> HIDE DEF n, X, x, step
    <3> QED BY <1>1, <1>4 DEF Folds
  <2>2. ASSUME NEW i \in 1..n PROVE f[i] = f[i - 1] \o ss[i]
    <3>1. i \in 0..n /\ i - 1 \in 0..n /\ i # 0
      BY <1>1
    <3>2. f[i] = step[i][f[i - 1]]
      <4> HIDE DEF n, X, x, step
      <4> QED BY <1>4, <3>1 DEF Folds
    <3>3. f[i - 1] \in X
      BY <1>4, <3>1
    <3> HIDE DEF n, X
    <3> QED BY <3>2, <3>3
  <2> QED BY <2>1, <2>2
<1>7. g[1] = ss[1]
  <2>1. f[1] = f[0] \o ss[1] /\ ss[1] \in Seq(S)
    <3>1. 1 \in 1..n /\ 1 - 1 = 0
      BY <1>1
    <3> HIDE DEF n
    <3> QED BY <1>1, <1>6, <3>1
  <2>2. << >> \o ss[1] = ss[1]
    BY <2>1, ConcatEmptySeq
  <2> QED BY <1>1, <1>6, <2>1, <2>2
<1>8. ASSUME NEW i \in 1..n, i # 1 PROVE g[i] = g[i - 1] \o ss[i]
  <2>1. i - 1 \in 1..n
    BY <1>1, <1>8
  <2> HIDE DEF n
  <2> QED BY <1>6, <2>1
<1>9. Flattens(g, ss)
  <2> HIDE DEF g
  <2>1. g = [i \in 1..n |-> IF i = 1 THEN ss[i] ELSE g[i - 1] \o ss[i]]
    <3> HIDE DEF n, X
    <3> QED BY <1>5, <1>7, <1>8
  <2> QED BY <2>1 DEF Flattens
<1>10. Flattens(F, ss)
  <2> HIDE DEF g
  <2> QED BY <1>9
<1>11. F = g
  <2> HIDE DEF F
  <2>1. F = [i \in 1..n |-> IF i = 1 THEN ss[i] ELSE F[i - 1] \o ss[i]]
    BY <1>10 DEF Flattens
  <2> DEFINE T == {i \in Nat : i + 1 \in 1..n => F[i + 1] = g[i + 1]}
  <2> HIDE DEF g, n
  <2>2. 0 \in T
    BY <1>1, <1>7, <2>1
  <2>3. ASSUME NEW i \in Nat, i \in T PROVE i + 1 \in T
    <3> SUFFICES ASSUME i + 1 + 1 \in 1..n PROVE F[i + 1 + 1] = g[i + 1 + 1]
      OBVIOUS
    <3> DEFINE j == i + 1 + 1
    <3>1. j \in 1..n /\ j # 1 /\ j - 1 = i + 1 /\ i + 1 \in 1..n
      BY <1>1
    <3>2. F[i + 1] = g[i + 1]
      BY <2>3, <3>1
    <3> HIDE DEF j
    <3>3. F[j] = F[j - 1] \o ss[j] /\ g[j] = g[j - 1] \o ss[j]
      BY <1>8, <2>1, <3>1
    <3> QED BY <3>1, <3>2, <3>3 DEF j
  <2> HIDE DEF T
  <2>4. Nat \subseteq T
    BY <2>2, <2>3, Induction
  <2>5. ASSUME NEW i \in 1..n PROVE F[i] = g[i]
    <3>1. i - 1 \in Nat /\ (i - 1) + 1 = i
      BY <1>1
    <3>2. i - 1 \in T
      BY <2>4, <3>1
    <3> QED BY <3>1, <3>2 DEF T
  <2>6. F = [i \in 1..n |-> F[i]]
    BY ONLY <2>1, Zenon
  <2>7. g = [i \in 1..n |-> g[i]]
    BY ONLY <1>5, Zenon
  <2>8. [i \in 1..n |-> F[i]] = [i \in 1..n |-> g[i]]
    BY ONLY <2>5, Zenon
  <2> QED BY ONLY <2>6, <2>7, <2>8, Zenon
<1>12. FlattenSeq(ss) = F[n]
  BY <1>1 DEF FlattenSeq, Flattens
<1> HIDE DEF F, g
<1> QED BY <1>1, <1>5, <1>7, <1>8, <1>11, <1>12

\* Nothing; one sequence more at the end; the first sequence and the others.
LEMMA FlatFacts ==
    ASSUME NEW S
    PROVE  /\ FlattenSeq(<< >>) = << >>
           /\ \A ss \in Seq(Seq(S)) : FlattenSeq(ss) \in Seq(S)
<1>1. FlattenSeq(<< >>) = << >>
  BY EmptySeq DEF FlattenSeq
<1>2. ASSUME NEW ss \in Seq(Seq(S)) PROVE FlattenSeq(ss) \in Seq(S)
  <2>1. CASE ss = << >>
    BY <1>1, <2>1, EmptySeq
  <2>2. CASE ss # << >>
    <3>1. Len(ss) \in Nat /\ Len(ss) >= 1
      BY <2>2, FlatUnfold
    <3>2. PICK f \in [1..Len(ss) -> Seq(S)] : FlattenSeq(ss) = f[Len(ss)]
      BY <2>2, FlatUnfold
    <3>3. Len(ss) \in 1..Len(ss)
      BY <3>1
    <3> QED BY <3>2, <3>3
  <2> QED BY <2>1, <2>2
<1> QED BY <1>1, <1>2

LEMMA FlatAppend ==
    ASSUME NEW S, NEW ss \in Seq(Seq(S)), NEW s \in Seq(S)
    PROVE  FlattenSeq(Append(ss, s)) = FlattenSeq(ss) \o s
<1> DEFINE n == Len(ss)
           more == Append(ss, s)
<1>1. /\ n \in Nat /\ more \in Seq(Seq(S)) /\ more # << >> /\ Len(more) = n + 1
      /\ \A i \in 1..n : more[i] = ss[i]
      /\ more[n + 1] = s
  BY AppendProperties
<1> HIDE DEF more
<1>2. PICK g \in [1..(n + 1) -> Seq(S)] :
         /\ g[1] = more[1]
         /\ \A i \in 1..(n + 1) : i # 1 => g[i] = g[i - 1] \o more[i]
         /\ FlattenSeq(more) = g[n + 1]
  <2>1. \E f \in [1..Len(more) -> Seq(S)] :
                 /\ f[1] = more[1]
                 /\ \A i \in 1..Len(more) : i # 1 => f[i] = f[i - 1] \o more[i]
                 /\ FlattenSeq(more) = f[Len(more)]
    BY <1>1, FlatUnfold
  <2> QED BY <1>1, <2>1
<1>3. CASE ss = << >>
  <2>1. n = 0
    BY <1>3, EmptySeq
  <2>2. FlattenSeq(more) = s
    BY <1>1, <1>2, <2>1
  <2>3. FlattenSeq(ss) \o s = s
    BY <1>3, FlatFacts, ConcatEmptySeq
  <2> QED BY <2>2, <2>3 DEF more
<1>4. CASE ss # << >>
  <2>1. n >= 1
    BY <1>4, FlatUnfold
  <2>2. PICK f \in [1..n -> Seq(S)] :
           /\ f[1] = ss[1]
           /\ \A i \in 1..n : i # 1 => f[i] = f[i - 1] \o ss[i]
           /\ FlattenSeq(ss) = f[n]
    BY <1>4, FlatUnfold
  <2> DEFINE T == {i \in Nat : i + 1 \in 1..n => g[i + 1] = f[i + 1]}
  <2> HIDE DEF n
  <2>3. 0 \in T
    BY <1>1, <1>2, <2>1, <2>2
  <2>4. ASSUME NEW i \in Nat, i \in T PROVE i + 1 \in T
    <3> SUFFICES ASSUME i + 1 + 1 \in 1..n PROVE g[i + 1 + 1] = f[i + 1 + 1]
      OBVIOUS
    <3> DEFINE j == i + 1 + 1
    <3>1. j \in 1..n /\ j \in 1..(n + 1) /\ j # 1 /\ j - 1 = i + 1 /\ i + 1 \in 1..n
      BY <1>1
    <3>2. g[i + 1] = f[i + 1]
      BY <2>4, <3>1
    <3> HIDE DEF j
    <3>3. g[j] = g[j - 1] \o more[j] /\ f[j] = f[j - 1] \o ss[j] /\ more[j] = ss[j]
      BY <1>1, <1>2, <2>2, <3>1
    <3> QED BY <3>1, <3>2, <3>3 DEF j
  <2> HIDE DEF T
  <2>5. Nat \subseteq T
    BY <2>3, <2>4, Induction
  <2>6. g[n] = f[n]
    <3>1. n - 1 \in Nat /\ (n - 1) + 1 = n /\ n \in 1..n
      BY <1>1, <2>1
    <3>2. n - 1 \in T
      BY <2>5, <3>1
    <3> QED BY <3>1, <3>2 DEF T
  <2>7. g[n + 1] = g[n] \o s
    <3> DEFINE j == n + 1
    <3>1. j \in 1..(n + 1) /\ j # 1 /\ j - 1 = n
      BY <1>1, <2>1
    <3> HIDE DEF j
    <3>2. g[j] = g[j - 1] \o more[j]
      BY <1>2, <3>1
    <3> QED BY <1>1, <3>1, <3>2 DEF j
  <2> QED BY <1>2, <2>2, <2>6, <2>7 DEF more
<1> QED BY <1>3, <1>4

LEMMA FlatHead ==
    ASSUME NEW S, NEW ss \in Seq(Seq(S)), ss # << >>
    PROVE  FlattenSeq(ss) = Head(ss) \o FlattenSeq(Tail(ss))
<1> DEFINE n == Len(ss)
           rest == Tail(ss)
           x == ss[1]
<1>1. /\ n \in Nat /\ n >= 1 /\ rest \in Seq(Seq(S)) /\ Len(rest) = n - 1
      /\ \A i \in 1..(n - 1) : rest[i] = ss[i + 1]
      /\ x \in Seq(S) /\ Head(ss) = x
  <2>1. n \in Nat /\ n >= 1
    BY FlatUnfold
  <2>2. rest \in Seq(Seq(S)) /\ Len(rest) = n - 1 /\ \A i \in 1..Len(rest) : rest[i] = ss[i + 1]
    BY HeadTailProperties
  <2>3. x \in Seq(S)
    BY <2>1, ElementOfSeq
  <2>4. Head(ss) = x
    OBVIOUS
  <2> HIDE DEF n, rest, x
  <2> QED BY <2>1, <2>2, <2>3, <2>4
<1>2. PICK f \in [1..n -> Seq(S)] :
         /\ f[1] = x
         /\ \A i \in 1..n : i # 1 => f[i] = f[i - 1] \o ss[i]
         /\ FlattenSeq(ss) = f[n]
  BY FlatUnfold
<1> HIDE DEF n, rest, x
<1>3. CASE rest = << >>
  <2>1. n = 1
    BY <1>1, <1>3, EmptySeq
  <2>2. x \o FlattenSeq(rest) = x
    BY <1>1, <1>3, FlatFacts, ConcatEmptySeq
  <2> QED BY <1>1, <1>2, <2>1, <2>2 DEF rest
<1>4. CASE rest # << >>
  <2> DEFINE m == n - 1
  <2>1. /\ m \in Nat /\ m >= 1
        /\ \E g \in [1..m -> Seq(S)] :
              /\ g[1] = rest[1]
              /\ \A i \in 1..m : i # 1 => g[i] = g[i - 1] \o rest[i]
              /\ FlattenSeq(rest) = g[m]
    <3>1. m = Len(rest)
      BY <1>1
    <3> HIDE DEF m
    <3>2. /\ Len(rest) \in Nat /\ Len(rest) >= 1
          /\ \E g \in [1..Len(rest) -> Seq(S)] :
                /\ g[1] = rest[1]
                /\ \A i \in 1..Len(rest) : i # 1 => g[i] = g[i - 1] \o rest[i]
                /\ FlattenSeq(rest) = g[Len(rest)]
      BY ONLY <1>1, <1>4, FlatUnfold, Zenon
    <3> QED BY ONLY <3>1, <3>2, Zenon
  <2>2. PICK g \in [1..m -> Seq(S)] :
              /\ g[1] = rest[1]
              /\ \A i \in 1..m : i # 1 => g[i] = g[i - 1] \o rest[i]
              /\ FlattenSeq(rest) = g[m]
    BY <2>1
  <2>3. \A i \in 1..m : rest[i] = ss[i + 1]
    BY <1>1
  <2>4. m + 1 = n
    BY <1>1
  <2> HIDE DEF m
  <2> DEFINE T == {i \in Nat : i + 1 \in 1..m => f[i + 1 + 1] = x \o g[i + 1]}
  <2>5. 0 \in T
    <3>1. 2 \in 1..n /\ 1 \in 1..m /\ 1 + 1 = 2 /\ 2 - 1 = 1
      BY <1>1, <2>1, <2>4
    <3> DEFINE k == 1 + 1
    <3>2. k \in 1..n /\ k # 1 /\ k - 1 = 1 /\ 0 + 1 = 1 /\ 0 + 1 + 1 = k
      BY <3>1
    <3> HIDE DEF k
    <3>3. f[k] = f[k - 1] \o ss[k]
      BY <1>2, <3>2
    <3>4. g[1] = ss[k]
      BY <2>2, <2>3, <3>1 DEF k
    <3>5. f[0 + 1 + 1] = x \o g[0 + 1]
      BY <1>2, <3>2, <3>3, <3>4
    <3> QED BY <3>5
  <2>6. ASSUME NEW i \in Nat, i \in T PROVE i + 1 \in T
    <3> SUFFICES ASSUME i + 1 + 1 \in 1..m PROVE f[i + 1 + 1 + 1] = x \o g[i + 1 + 1]
      OBVIOUS
    <3> DEFINE j == i + 1 + 1
               k == i + 1 + 1 + 1
    <3>1. /\ j \in 1..m /\ j # 1 /\ j - 1 = i + 1 /\ i + 1 \in 1..m
          /\ k \in 1..n /\ k # 1 /\ k - 1 = j /\ j + 1 = k
      BY <2>1, <2>4
    <3>2. f[j] = x \o g[i + 1]
      BY <2>6, <3>1
    <3> HIDE DEF j, k
    <3>3. f[k] = f[j] \o ss[k] /\ g[j] = g[i + 1] \o rest[j] /\ rest[j] = ss[k]
      BY <1>2, <2>2, <2>3, <3>1
    <3>4. g[i + 1] \in Seq(S) /\ rest[j] \in Seq(S)
      <4>1. j \in 1..Len(rest)
        BY <1>1, <2>1, <2>4, <3>1
      <4> QED BY <1>1, <2>2, <3>1, <4>1, ElementOfSeq
    <3>5. (x \o g[i + 1]) \o rest[j] = x \o (g[i + 1] \o rest[j])
      <4> DEFINE u == g[i + 1]
                 v == rest[j]
      <4>1. x \in Seq(S) /\ u \in Seq(S) /\ v \in Seq(S)
        BY <1>1, <3>4
      <4> HIDE DEF u, v
      <4>2. (x \o u) \o v = x \o (u \o v)
        BY ONLY <4>1, Associates, SMTT(30)
      <4> QED BY <4>2 DEF u, v
    <3> QED BY <3>2, <3>3, <3>5 DEF j, k
  <2> HIDE DEF T
  <2>7. Nat \subseteq T
    BY <2>5, <2>6, Induction
  <2>8. f[n] = x \o g[m]
    <3>1. m - 1 \in Nat /\ (m - 1) + 1 = m /\ m \in 1..m
      BY <2>1
    <3>2. m - 1 \in T
      BY <2>7, <3>1
    <3> QED BY <2>4, <3>1, <3>2 DEF T
  <2> QED BY <1>1, <1>2, <2>2, <2>8 DEF rest
<1> QED BY <1>3, <1>4

-----------------------------------------------------------------------------
(* Sequences that are put together entry by entry. *)

MapOf(f, s) == FlattenSeq([k \in DOMAIN s |-> f[s[k]]])
Maps(f, V, S) == f \in [V -> Seq(S)]

LEMMA MapFacts ==
    ASSUME NEW S, NEW V, NEW f, Maps(f, V, S)
    PROVE  /\ MapOf(f, << >>) = << >>
           /\ \A s \in Seq(V) : MapOf(f, s) \in Seq(S)
           /\ \A s \in Seq(V), x \in V : MapOf(f, Append(s, x)) = MapOf(f, s) \o f[x]
           /\ \A s \in Seq(V) : s # << >> => MapOf(f, s) = f[Head(s)] \o MapOf(f, Tail(s))
<1> DEFINE M(s) == [k \in DOMAIN s |-> f[s[k]]]
<1>0. f \in [V -> Seq(S)]
  BY DEF Maps
<1>1. ASSUME NEW s \in Seq(V)
      PROVE  /\ M(s) \in Seq(Seq(S)) /\ Len(M(s)) = Len(s) /\ Len(s) \in Nat
             /\ \A k \in 1..Len(s) : M(s)[k] = f[s[k]]
  <2>1. Len(s) \in Nat /\ DOMAIN s = 1..Len(s) /\ \A k \in 1..Len(s) : s[k] \in V
    BY LenProperties, ElementOfSeq
  <2> QED BY <1>0, <2>1
<1>2. MapOf(f, << >>) = << >>
  <2>1. M(<< >>) = << >>
    OBVIOUS
  <2> QED BY <2>1, FlatFacts DEF MapOf
<1>3. ASSUME NEW s \in Seq(V) PROVE MapOf(f, s) \in Seq(S)
  <2>1. M(s) \in Seq(Seq(S))
    BY <1>1
  <2> HIDE DEF M
  <2>2. FlattenSeq(M(s)) \in Seq(S)
    BY <2>1, FlatFacts
  <2> QED BY <2>2 DEF MapOf, M
<1>4. ASSUME NEW s \in Seq(V), NEW x \in V PROVE MapOf(f, Append(s, x)) = MapOf(f, s) \o f[x]
  <2> DEFINE t == Append(s, x)
  <2>1. /\ t \in Seq(V) /\ Len(t) = Len(s) + 1
        /\ \A k \in 1..Len(s) : t[k] = s[k]
        /\ t[Len(s) + 1] = x
    BY AppendProperties
  <2> HIDE DEF t
  <2>2. M(t) = Append(M(s), f[x])
    <3>1. /\ M(t) \in Seq(Seq(S)) /\ Len(M(t)) = Len(t)
          /\ \A k \in 1..Len(t) : M(t)[k] = f[t[k]]
      BY <1>1, <2>1
    <3>2. /\ M(s) \in Seq(Seq(S)) /\ Len(M(s)) = Len(s) /\ Len(s) \in Nat
          /\ \A k \in 1..Len(s) : M(s)[k] = f[s[k]]
      BY <1>1
    <3> HIDE DEF M
    <3> DEFINE X == Seq(S)
               y == f[x]
               m == M(s)
               a == Append(m, y)
    <3>3. y \in X /\ m \in Seq(X)
      BY <1>0, <3>2
    <3> HIDE DEF X, y, m
    <3>4. /\ a \in Seq(X) /\ Len(a) = Len(m) + 1
          /\ \A k \in 1..Len(m) : a[k] = m[k]
          /\ a[Len(m) + 1] = y
      BY <3>3, AppendProperties
    <3> HIDE DEF a
    <3> USE DEF m, y
    <3>5. Len(M(t)) = Len(a)
      BY <2>1, <3>1, <3>2, <3>4
    <3>6. ASSUME NEW k \in 1..Len(M(t)) PROVE M(t)[k] = a[k]
      <4>1. k \in 1..Len(s) \/ k = Len(s) + 1
        BY <2>1, <3>1, <3>2
      <4>2. M(t)[k] = f[t[k]]
        BY <3>1
      <4>3. CASE k \in 1..Len(s)
        BY <2>1, <3>2, <3>4, <4>2, <4>3
      <4>4. CASE k = Len(s) + 1
        BY <2>1, <3>2, <3>4, <4>2, <4>4
      <4> QED BY <4>1, <4>3, <4>4
    <3>7. M(t) = a
      <4>1. M(t) \in Seq(X)
        BY <3>1 DEF X
      <4> QED BY <3>4, <3>5, <3>6, <4>1, SeqEqual
    <3> QED BY <3>7 DEF a
  <2>3. M(s) \in Seq(Seq(S)) /\ f[x] \in Seq(S)
    BY <1>0, <1>1
  <2> HIDE DEF M
  <2>4. FlattenSeq(M(t)) = FlattenSeq(M(s)) \o f[x]
    BY <2>2, <2>3, FlatAppend
  <2> QED BY <2>4 DEF MapOf, M, t
<1>5. ASSUME NEW s \in Seq(V), s # << >>
      PROVE  MapOf(f, s) = f[Head(s)] \o MapOf(f, Tail(s))
  <2> DEFINE t == Tail(s)
  <2>1. /\ t \in Seq(V) /\ Len(t) = Len(s) - 1 /\ Len(s) \in Nat /\ Len(s) # 0
        /\ \A k \in 1..Len(t) : t[k] = s[k + 1]
        /\ Head(s) = s[1] /\ Head(s) \in V
    BY <1>5, HeadTailProperties, EmptySeq
  <2> HIDE DEF t
  <2>2. /\ M(t) \in Seq(Seq(S)) /\ Len(M(t)) = Len(t)
        /\ \A k \in 1..Len(t) : M(t)[k] = f[t[k]]
    BY <1>1, <2>1
  <2>3. /\ M(s) \in Seq(Seq(S)) /\ Len(M(s)) = Len(s)
        /\ \A k \in 1..Len(s) : M(s)[k] = f[s[k]]
    BY <1>1
  <2> HIDE DEF M
  <2> DEFINE X == Seq(S)
  <2>4. M(s) # << >> /\ Head(M(s)) = f[Head(s)]
    <3>1. Len(M(s)) # 0
      BY <2>1, <2>3
    <3>2. 1 \in 1..Len(s)
      BY <2>1
    <3> QED BY <2>1, <2>3, <3>1, <3>2
  <2>5. Tail(M(s)) = M(t)
    <3>1. /\ Tail(M(s)) \in Seq(X) /\ Len(Tail(M(s))) = Len(M(s)) - 1
          /\ \A k \in 1..Len(Tail(M(s))) : Tail(M(s))[k] = M(s)[k + 1]
      BY <2>3, <2>4, HeadTailProperties
    <3>2. Len(Tail(M(s))) = Len(M(t))
      BY <2>1, <2>2, <2>3, <3>1
    <3>3. ASSUME NEW k \in 1..Len(Tail(M(s))) PROVE Tail(M(s))[k] = M(t)[k]
      <4>1. k \in 1..Len(t) /\ k + 1 \in 1..Len(s)
        BY <2>1, <2>2, <3>2
      <4> QED BY <2>1, <2>2, <2>3, <3>1, <4>1
    <3> QED BY <2>2, <3>1, <3>2, <3>3, SeqEqual DEF X
  <2>6. FlattenSeq(M(s)) = Head(M(s)) \o FlattenSeq(Tail(M(s)))
    BY <2>3, <2>4, FlatHead
  <2> QED BY <2>4, <2>5, <2>6 DEF MapOf, M, t
<1> QED BY <1>2, <1>3, <1>4, <1>5

-----------------------------------------------------------------------------
(* The bytes of an item, in the order they are written: its line, then the *)
(* octets the line announces.                                              *)

Whole(i) == IF IsSegment(i) THEN 3 + Items[i].size ELSE 3

At(i, r) ==
    IF r <= 2 THEN [of |-> i, kind |-> "text", at |-> r]
    ELSE IF r = 3 THEN [of |-> i, kind |-> "newline", at |-> 0]
    ELSE [of |-> i, kind |-> "octet", at |-> r - 3]

LEMMA ItemFacts ==
    ASSUME NEW i \in ItemIds
    PROVE  /\ i \in Nat /\ i # NoItem
           /\ Whole(i) \in Nat /\ Whole(i) >= 3
           /\ IsSegment(i) => Items[i].size \in Nat /\ Whole(i) = 3 + Items[i].size
           /\ ~IsSegment(i) => Items[i].size = -1 /\ Whole(i) = 3
<1>1. i \in 1..Len(Items) /\ Len(Items) \in Nat /\ Items[i].size \in Nat \cup {NoOctets}
  BY ItemsAssumption DEF ItemIds
<1> QED BY <1>1 DEF NoItem, Whole, IsSegment, NoOctets

Origin == [of |-> NoItem, kind |-> "newline", at |-> 0]

LEMMA AtFacts ==
    ASSUME NEW i \in ItemIds, NEW r \in Nat, r >= 1
    PROVE  /\ At(i, r) \in Byte /\ At(i, r).of = i /\ At(i, r) # Origin
           /\ r <= 2 => At(i, r).kind = "text" /\ ~IsNewline(At(i, r))
           /\ r >= 3 => At(i, r).kind # "text"
           /\ r = 3 => IsNewline(At(i, r))
           /\ \A j \in ItemIds, q \in Nat : q >= 1 /\ At(i, r) = At(j, q) => i = j /\ r = q
<1>1. i # NoItem
  BY ItemFacts
<1>2. r - 3 \in Nat \/ r <= 2
  OBVIOUS
<1>3. At(i, r) \in Byte /\ At(i, r).of = i /\ At(i, r) # Origin
  BY <1>1, <1>2 DEF At, Byte, Origin
<1>4. /\ r <= 2 => At(i, r).kind = "text" /\ ~IsNewline(At(i, r))
      /\ r >= 3 => At(i, r).kind # "text"
      /\ r = 3 => IsNewline(At(i, r))
  BY DEF At, IsNewline
<1>5. ASSUME NEW j \in ItemIds, NEW q \in Nat, q >= 1, At(i, r) = At(j, q)
      PROVE  i = j /\ r = q
  <2>1. At(i, r).of = i /\ At(j, q).of = j
    BY DEF At
  <2>2. At(i, r).kind = At(j, q).kind /\ At(i, r).at = At(j, q).at
    BY <1>5
  <2>3. CASE r <= 2
    BY <1>5, <2>2, <2>3 DEF At
  <2>4. CASE r = 3
    BY <1>5, <2>2, <2>4 DEF At
  <2>5. CASE r > 3
    BY <1>5, <2>2, <2>5 DEF At
  <2> QED BY <1>5, <2>1, <2>3, <2>4, <2>5
<1> QED BY <1>3, <1>4, <1>5

LEMMA BytesAssociate ==
    ASSUME NEW s \in Seq(Byte), NEW t \in Seq(Byte), NEW u \in Seq(Byte)
    PROVE  (s \o t) \o u = s \o (t \o u)
  BY ONLY s \in Seq(Byte), t \in Seq(Byte), u \in Seq(Byte), Associates, SMTT(30)

LEMMA ThreeBytes ==
    ASSUME NEW s \in Seq(Byte), Len(s) = 2, NEW b \in Byte
    PROVE  /\ Append(s, b) \in Seq(Byte) /\ Len(Append(s, b)) = 3
           /\ \A k \in 1..2 : Append(s, b)[k] = s[k]
           /\ Append(s, b)[3] = b
<1> DEFINE t == Append(s, b)
<1>1. t \in Seq(Byte) /\ Len(t) = Len(s) + 1 /\ t[Len(s) + 1] = b
  BY ONLY s \in Seq(Byte), b \in Byte, AppendProperties
<1>2. \A k \in 1..Len(s) : t[k] = s[k]
  BY ONLY s \in Seq(Byte), b \in Byte, AppendProperties
<1> HIDE DEF t
<1>3. Len(t) = 3 /\ t[3] = b /\ \A k \in 1..2 : t[k] = s[k]
  BY <1>1, <1>2
<1> QED BY <1>1, <1>3 DEF t

\* A line, the text of a line and a run of octets are stretches of an item's bytes.
LEMMA WriteFacts ==
    ASSUME NEW i \in ItemIds
    PROVE  /\ Text(i) \in Seq(Byte) /\ Len(Text(i)) = 2
           /\ \A k \in 1..2 : Text(i)[k] = At(i, k)
           /\ Line(i) \in Seq(Byte) /\ Len(Line(i)) = 3
           /\ \A k \in 1..3 : Line(i)[k] = At(i, k)
           /\ Octets(i) \in Seq(Byte)
           /\ Len(Octets(i)) = IF IsSegment(i) THEN Items[i].size ELSE 0
           /\ \A k \in 1..Len(Octets(i)) : Octets(i)[k] = At(i, 3 + k)
<1>1. Text(i) \in Seq(Byte) /\ Len(Text(i)) = 2 /\ \A k \in 1..2 : Text(i)[k] = At(i, k)
  <2>1. ASSUME NEW k \in 1..2
        PROVE  [of |-> i, kind |-> "text", at |-> k] \in Byte /\ At(i, k) = [of |-> i, kind |-> "text", at |-> k]
    BY DEF Byte, At
  <2> QED BY <2>1 DEF Text
<1>2. Line(i) \in Seq(Byte) /\ Len(Line(i)) = 3 /\ \A k \in 1..3 : Line(i)[k] = At(i, k)
  <2> DEFINE nl == [of |-> i, kind |-> "newline", at |-> 0]
  <2>1. nl \in Byte /\ At(i, 3) = nl
    BY DEF Byte, At
  <2> HIDE DEF nl
  <2>2. /\ Append(Text(i), nl) \in Seq(Byte) /\ Len(Append(Text(i), nl)) = 3
        /\ \A k \in 1..2 : Append(Text(i), nl)[k] = Text(i)[k]
        /\ Append(Text(i), nl)[3] = nl
    BY <1>1, <2>1, ThreeBytes
  <2>3. Line(i) = Append(Text(i), nl)
    BY DEF Line, nl
  <2>4. \A k \in 1..3 : k \in 1..2 \/ k = 3
    OBVIOUS
  <2> QED BY <1>1, <2>1, <2>2, <2>3, <2>4
<1>3. /\ Octets(i) \in Seq(Byte)
      /\ Len(Octets(i)) = IF IsSegment(i) THEN Items[i].size ELSE 0
      /\ \A k \in 1..Len(Octets(i)) : Octets(i)[k] = At(i, 3 + k)
  <2> DEFINE n == IF IsSegment(i) THEN Items[i].size ELSE 0
             f == [k \in 1..n |-> [of |-> i, kind |-> "octet", at |-> k]]
  <2>1. n \in Nat /\ 1..Items[i].size = 1..n
    <3>1. CASE IsSegment(i)
      BY <3>1, ItemFacts
    <3>2. CASE ~IsSegment(i)
      BY <3>2, ItemFacts
    <3> QED BY <3>1, <3>2
  <2>2. Octets(i) = f
    BY <2>1 DEF Octets
  <2> HIDE DEF n
  <2>3. ASSUME NEW k \in 1..n
        PROVE  /\ [of |-> i, kind |-> "octet", at |-> k] \in Byte
               /\ At(i, 3 + k) = [of |-> i, kind |-> "octet", at |-> k]
    <3>1. k \in Nat /\ k >= 1 /\ (3 + k) - 3 = k /\ ~(3 + k <= 2) /\ 3 + k # 3
      BY <2>1
    <3> QED BY <3>1 DEF Byte, At
  <2>4. f \in Seq(Byte) /\ Len(f) = n /\ \A k \in 1..n : f[k] = At(i, 3 + k)
    BY <2>1, <2>3
  <2> QED BY <2>2, <2>4 DEF n
<1> QED BY <1>1, <1>2, <1>3

-----------------------------------------------------------------------------
(* The order of the bytes. *)

\* The last byte of the n-th of the items L, of which Origin is before the first.
EndOf(L, n) == IF n = 0 THEN Origin ELSE At(L[n], Whole(L[n]))

\* Byte c comes straight after b: in the same item, or as the first of the next.
Follows(L, b, c) ==
    \/ \E i \in ItemIds : \E r \in 1..(Whole(i) - 1) : b = At(i, r) /\ c = At(i, r + 1)
    \/ \E n \in 0..(Len(L) - 1) : b = EndOf(L, n) /\ c = At(L[n + 1], 1)

Before(b, Q, k) == IF k = 1 THEN b ELSE Q[k - 1]
Chain(L, b, Q) == \A k \in 1..Len(Q) : Follows(L, Before(b, Q, k), Q[k])
LastOr(b, Q) == IF Q = << >> THEN b ELSE Q[Len(Q)]

Ordered(L) == L \in Seq(ItemIds) /\ \A j, k \in 1..Len(L) : L[j] = L[k] => j = k

LEMMA FollowsInside ==
    ASSUME NEW L, Ordered(L), NEW i \in ItemIds, NEW r \in Nat, r >= 1, r < Whole(i),
           NEW c, Follows(L, At(i, r), c)
    PROVE  c = At(i, r + 1)
<1>1. CASE \E j \in ItemIds : \E q \in 1..(Whole(j) - 1) : At(i, r) = At(j, q) /\ c = At(j, q + 1)
  <2>0. PICK j \in ItemIds : \E q \in 1..(Whole(j) - 1) : At(i, r) = At(j, q) /\ c = At(j, q + 1)
    BY <1>1
  <2>1. PICK q \in 1..(Whole(j) - 1) : At(i, r) = At(j, q) /\ c = At(j, q + 1)
    BY <2>0
  <2>2. q \in Nat /\ q >= 1
    BY <2>1, ItemFacts
  <2>3. i = j /\ r = q
    BY <2>1, <2>2, AtFacts
  <2> QED BY <2>1, <2>3
<1>2. CASE \E n \in 0..(Len(L) - 1) : At(i, r) = EndOf(L, n) /\ c = At(L[n + 1], 1)
  <2>1. PICK n \in 0..(Len(L) - 1) : At(i, r) = EndOf(L, n)
    BY <1>2
  <2>2. n # 0
    BY <2>1, AtFacts DEF EndOf
  <2>3. n \in 1..Len(L) /\ L[n] \in ItemIds
    BY <2>2 DEF Ordered
  <2>4. At(i, r) = At(L[n], Whole(L[n])) /\ Whole(L[n]) \in Nat /\ Whole(L[n]) >= 1
    BY <2>1, <2>2, <2>3, ItemFacts DEF EndOf
  <2>5. i = L[n] /\ r = Whole(L[n])
    BY <2>3, <2>4, AtFacts
  <2> QED BY <2>5, ItemFacts
<1> QED BY <1>1, <1>2 DEF Follows

LEMMA FollowsEnd ==
    ASSUME NEW L, Ordered(L), NEW n \in 0..Len(L), NEW c, Follows(L, EndOf(L, n), c)
    PROVE  n < Len(L) /\ L[n + 1] \in ItemIds /\ c = At(L[n + 1], 1)
<1>0. Len(L) \in Nat /\ \A m \in 1..Len(L) : L[m] \in ItemIds
  BY DEF Ordered
<1>1. \A m \in 1..Len(L) : /\ EndOf(L, m) = At(L[m], Whole(L[m])) /\ L[m] \in ItemIds
                           /\ Whole(L[m]) \in Nat /\ Whole(L[m]) >= 1
  BY <1>0, ItemFacts DEF EndOf
<1>2. CASE \E j \in ItemIds : \E q \in 1..(Whole(j) - 1) : EndOf(L, n) = At(j, q) /\ c = At(j, q + 1)
  <2>0. PICK j \in ItemIds : \E q \in 1..(Whole(j) - 1) : EndOf(L, n) = At(j, q)
    BY <1>2
  <2>1. PICK q \in 1..(Whole(j) - 1) : EndOf(L, n) = At(j, q)
    BY <2>0
  <2>2. q \in Nat /\ q >= 1 /\ q < Whole(j)
    BY <2>1, ItemFacts
  <2>3. n # 0
    BY <2>1, <2>2, AtFacts DEF EndOf
  <2>4. n \in 1..Len(L)
    BY <1>0, <2>3
  <2>5. j = L[n] /\ q = Whole(L[n])
    BY <1>1, <2>1, <2>2, <2>4, AtFacts
  <2> QED BY <2>2, <2>5
<1>3. CASE \E m \in 0..(Len(L) - 1) : EndOf(L, n) = EndOf(L, m) /\ c = At(L[m + 1], 1)
  <2>1. PICK m \in 0..(Len(L) - 1) : EndOf(L, n) = EndOf(L, m) /\ c = At(L[m + 1], 1)
    BY <1>3
  <2>2. m = n
    <3>1. CASE n = 0
      <4>1. EndOf(L, m) = Origin
        BY <2>1, <3>1 DEF EndOf
      <4>2. m \notin 1..Len(L)
        BY <1>1, <4>1, AtFacts
      <4> QED BY <1>0, <3>1, <4>2
    <3>2. CASE n # 0
      <4>1. n \in 1..Len(L)
        BY <1>0, <3>2
      <4>2. m # 0
        BY <1>1, <2>1, <4>1, AtFacts DEF EndOf
      <4>3. m \in 1..Len(L)
        BY <1>0, <4>2
      <4>4. At(L[n], Whole(L[n])) = At(L[m], Whole(L[m]))
        BY <1>1, <2>1, <4>1, <4>3
      <4>5. L[n] = L[m]
        BY <1>1, <4>1, <4>3, <4>4, AtFacts
      <4> QED BY <4>1, <4>3, <4>5 DEF Ordered
    <3> QED BY <3>1, <3>2
  <2>3. n + 1 \in 1..Len(L)
    BY <1>0, <2>2
  <2> QED BY <1>0, <2>1, <2>2, <2>3
<1> QED BY <1>2, <1>3 DEF Follows

\* What follows keeps following when a line is written.
LEMMA OrderGrows ==
    ASSUME NEW L, Ordered(L), NEW i \in ItemIds, \A k \in 1..Len(L) : L[k] # i
    PROVE  /\ Ordered(Append(L, i))
           /\ \A n \in 0..Len(L) : EndOf(Append(L, i), n) = EndOf(L, n)
           /\ \A b, c : Follows(L, b, c) => Follows(Append(L, i), b, c)
           /\ \A b, Q : Chain(L, b, Q) => Chain(Append(L, i), b, Q)
           /\ Follows(Append(L, i), EndOf(L, Len(L)), At(i, 1))
           /\ EndOf(Append(L, i), Len(L) + 1) = At(i, Whole(i))
<1> DEFINE M == Append(L, i)
<1>1. /\ L \in Seq(ItemIds) /\ Len(L) \in Nat /\ M \in Seq(ItemIds) /\ Len(M) = Len(L) + 1
      /\ \A k \in 1..Len(L) : M[k] = L[k]
      /\ M[Len(L) + 1] = i
  BY DEF Ordered
<1> HIDE DEF M
<1>2. Ordered(M)
  <2>1. ASSUME NEW j \in 1..Len(M), NEW k \in 1..Len(M), M[j] = M[k] PROVE j = k
    <3>1. (j \in 1..Len(L) \/ j = Len(L) + 1) /\ (k \in 1..Len(L) \/ k = Len(L) + 1)
      BY <1>1
    <3> QED BY <1>1, <2>1, <3>1 DEF Ordered
  <2> QED BY <1>1, <2>1 DEF Ordered
<1>3. ASSUME NEW n \in 0..Len(L) PROVE EndOf(M, n) = EndOf(L, n)
  <2>1. n = 0 \/ n \in 1..Len(L)
    BY <1>1
  <2> QED BY <1>1, <2>1 DEF EndOf
<1>4. ASSUME NEW b, NEW c, Follows(L, b, c) PROVE Follows(M, b, c)
  <2>1. CASE \E n \in 0..(Len(L) - 1) : b = EndOf(L, n) /\ c = At(L[n + 1], 1)
    <3>1. PICK n \in 0..(Len(L) - 1) : b = EndOf(L, n) /\ c = At(L[n + 1], 1)
      BY <2>1
    <3>2. n \in 0..(Len(M) - 1) /\ n \in 0..Len(L) /\ n + 1 \in 1..Len(L)
      BY <1>1
    <3>3. b = EndOf(M, n) /\ c = At(M[n + 1], 1)
      BY <1>1, <1>3, <3>1, <3>2
    <3> QED BY <3>2, <3>3 DEF Follows
  <2> QED BY <1>4, <2>1 DEF Follows
<1>5. \A b, Q : Chain(L, b, Q) => Chain(M, b, Q)
  BY <1>4 DEF Chain
<1>6. Follows(M, EndOf(L, Len(L)), At(i, 1))
  <2>1. Len(L) \in 0..(Len(M) - 1) /\ EndOf(M, Len(L)) = EndOf(L, Len(L))
    BY <1>1, <1>3
  <2> QED BY <1>1, <2>1 DEF Follows
<1>7. EndOf(M, Len(L) + 1) = At(i, Whole(i))
  BY <1>1 DEF EndOf
<1> QED BY <1>2, <1>3, <1>4, <1>5, <1>6, <1>7 DEF M

\* A chain is a chain up to anywhere and from there on.
LEMMA ChainConcat ==
    ASSUME NEW L, NEW b, NEW P \in Seq(Byte), NEW Q \in Seq(Byte)
    PROVE  /\ Chain(L, b, P \o Q) <=> Chain(L, b, P) /\ Chain(L, LastOr(b, P), Q)
           /\ LastOr(b, P \o Q) = LastOr(LastOr(b, P), Q)
<1> DEFINE R == P \o Q
           p == Len(P)
           q == Len(Q)
<1>1. /\ p \in Nat /\ q \in Nat /\ R \in Seq(Byte) /\ Len(R) = p + q
      /\ \A k \in 1..p : R[k] = P[k]
      /\ \A k \in 1..q : R[p + k] = Q[k]
  OBVIOUS
<1>2. (P = << >> <=> p = 0) /\ (Q = << >> <=> q = 0) /\ (R = << >> <=> p + q = 0)
  <2>1. \A s \in Seq(Byte) : s = << >> <=> Len(s) = 0
    BY EmptySeq
  <2> HIDE DEF R
  <2> QED BY <1>1, <2>1
<1> HIDE DEF R, p, q
<1>3. \A k \in 1..p : Before(b, R, k) = Before(b, P, k)
  BY <1>1 DEF Before
<1>4. ASSUME NEW k \in 1..q PROVE Before(b, R, p + k) = Before(LastOr(b, P), Q, k)
  <2>1. CASE k = 1
    <3>1. CASE p = 0
      BY <1>1, <1>2, <2>1, <3>1 DEF Before, LastOr
    <3>2. CASE p # 0
      <4>1. p + k # 1 /\ (p + k) - 1 = p /\ p \in 1..p
        BY <1>1, <2>1, <3>2
      <4>2. Before(b, R, p + k) = P[p] /\ Before(LastOr(b, P), Q, k) = P[p]
        BY <1>1, <1>2, <2>1, <3>2, <4>1 DEF Before, LastOr, p
      <4> QED BY <4>2
    <3> QED BY <3>1, <3>2
  <2>2. CASE k # 1
    <3> DEFINE j == k - 1
    <3>1. p + k # 1 /\ (p + k) - 1 = p + j /\ j \in 1..q
      BY <1>1, <2>2
    <3>2. R[p + j] = Q[j]
      BY <1>1, <3>1
    <3> QED BY <2>2, <3>1, <3>2 DEF Before
  <2> QED BY <2>1, <2>2
<1>5. Chain(L, b, R) <=> /\ \A k \in 1..p : Follows(L, Before(b, R, k), R[k])
                         /\ \A k \in 1..q : Follows(L, Before(b, R, p + k), R[p + k])
  <2>1. \A k \in 1..p : k \in 1..Len(R)
    BY <1>1
  <2>2. \A k \in 1..q : p + k \in 1..Len(R)
    BY <1>1
  <2>3. ASSUME NEW k \in 1..Len(R) PROVE k \in 1..p \/ \E j \in 1..q : k = p + j
    <3>1. k \in 1..p \/ (k - p \in 1..q /\ k = p + (k - p))
      BY <1>1
    <3> QED BY <3>1
  <2> QED BY <2>1, <2>2, <2>3 DEF Chain
<1>6. Chain(L, b, P) <=> \A k \in 1..p : Follows(L, Before(b, R, k), R[k])
  BY <1>1, <1>3 DEF Chain, p
<1>7. Chain(L, LastOr(b, P), Q) <=> \A k \in 1..q : Follows(L, Before(b, R, p + k), R[p + k])
  BY <1>1, <1>4 DEF Chain, q
<1>8. LastOr(b, R) = LastOr(LastOr(b, P), Q)
  <2>1. CASE q = 0
    <3>1. R = << >> <=> P = << >>
      BY <1>1, <1>2, <2>1
    <3>2. p # 0 => R[p + q] = P[p] /\ p + q = p
      BY <1>1, <2>1
    <3> QED BY <1>1, <1>2, <2>1, <3>1, <3>2 DEF LastOr, p
  <2>2. CASE q # 0
    <3>1. R # << >> /\ R[p + q] = Q[q]
      BY <1>1, <1>2, <2>2
    <3> QED BY <1>1, <1>2, <2>2, <3>1 DEF LastOr, q
  <2> QED BY <2>1, <2>2
<1> QED BY <1>5, <1>6, <1>7, <1>8 DEF R

\* Once inside an item, a chain goes through it to its end.
LEMMA ChainRun ==
    ASSUME NEW L, Ordered(L), NEW b, NEW Q \in Seq(Byte), Chain(L, b, Q),
           NEW i \in ItemIds, NEW r \in Nat, r >= 1, Q # << >>, Q[1] = At(i, r)
    PROVE  \A k \in 1..Len(Q) : r + k <= Whole(i) + 1 => Q[k] = At(i, (r + k) - 1)
<1> DEFINE T == {n \in Nat : n + 1 <= Len(Q) /\ r + n <= Whole(i) => Q[n + 1] = At(i, r + n)}
<1>1. Len(Q) \in Nat /\ Whole(i) \in Nat
  BY ItemFacts
<1>2. 0 \in T
  OBVIOUS
<1>3. ASSUME NEW n \in Nat, n \in T PROVE n + 1 \in T
  <2> DEFINE k == n + 1
             j == n + 1 + 1
  <2> SUFFICES ASSUME j <= Len(Q), r + k <= Whole(i) PROVE Q[j] = At(i, r + k)
    OBVIOUS
  <2>1. /\ k \in Nat /\ k <= Len(Q) /\ r + n <= Whole(i) /\ r + n < Whole(i) /\ r + n \in Nat /\ r + n >= 1
        /\ j \in 1..Len(Q) /\ j # 1 /\ j - 1 = k /\ (r + n) + 1 = r + k
    BY <1>1
  <2>2. Q[k] = At(i, r + n)
    BY <1>3, <2>1
  <2> HIDE DEF k, j
  <2>3. Follows(L, Q[k], Q[j])
    <3>1. Follows(L, Before(b, Q, j), Q[j])
      BY <2>1 DEF Chain
    <3> QED BY <2>1, <3>1 DEF Before
  <2>4. Q[j] = At(i, (r + n) + 1)
    <3> DEFINE q == r + n
    <3>1. q \in Nat /\ q >= 1 /\ q < Whole(i) /\ Follows(L, At(i, q), Q[j])
      BY <2>1, <2>2, <2>3
    <3> HIDE DEF q
    <3>2. Q[j] = At(i, q + 1)
      BY <3>1, FollowsInside
    <3> QED BY <3>2 DEF q
  <2> QED BY <2>1, <2>4
<1> HIDE DEF T
<1>4. Nat \subseteq T
  BY <1>2, <1>3, Induction
<1>5. ASSUME NEW k \in 1..Len(Q), r + k <= Whole(i) + 1 PROVE Q[k] = At(i, (r + k) - 1)
  <2> DEFINE n == k - 1
  <2>1. n \in Nat /\ n + 1 = k /\ n + 1 <= Len(Q) /\ r + n <= Whole(i) /\ r + n = (r + k) - 1
    BY <1>1, <1>5
  <2>2. n \in T
    BY <1>4, <2>1
  <2> HIDE DEF n
  <2>3. Q[n + 1] = At(i, r + n)
    BY <2>1, <2>2 DEF T
  <2> QED BY <2>1, <2>3
<1> QED BY <1>5

\* A stretch of an item's bytes is a chain from the byte before it.
LEMMA RunIsChain ==
    ASSUME NEW L, NEW b, NEW Q \in Seq(Byte), NEW i \in ItemIds, NEW r \in Nat, r >= 1,
           \A k \in 1..Len(Q) : Q[k] = At(i, (r + k) - 1),
           r + Len(Q) <= Whole(i) + 1,
           Q # << >> => Follows(L, b, At(i, r))
    PROVE  /\ Chain(L, b, Q)
           /\ Q # << >> => LastOr(b, Q) = At(i, (r + Len(Q)) - 1)
<1>1. Len(Q) \in Nat /\ Whole(i) \in Nat /\ (Q # << >> => Len(Q) # 0)
  BY ItemFacts, EmptySeq
<1>2. ASSUME NEW k \in 1..Len(Q) PROVE Follows(L, Before(b, Q, k), Q[k])
  <2>1. CASE k = 1
    <3>1. Q # << >>
      BY <1>1
    <3>2. Q[k] = At(i, r)
      BY <2>1
    <3> QED BY <2>1, <3>1, <3>2 DEF Before
  <2>2. CASE k # 1
    <3> DEFINE j == k - 1
               q == (r + k) - 2
    <3>1. /\ j \in 1..Len(Q) /\ (r + j) - 1 = q /\ (r + k) - 1 = q + 1
          /\ q \in 1..(Whole(i) - 1)
      BY <1>1, <2>2
    <3> HIDE DEF q
    <3>2. Q[j] = At(i, q) /\ Q[k] = At(i, q + 1)
      BY <3>1
    <3> QED BY <2>2, <3>1, <3>2 DEF Before, Follows
  <2> QED BY <2>1, <2>2
<1>3. ASSUME Q # << >> PROVE LastOr(b, Q) = At(i, (r + Len(Q)) - 1)
  <2>1. Len(Q) \in 1..Len(Q)
    BY <1>1, <1>3
  <2> QED BY <1>3, <2>1 DEF LastOr
<1> QED BY <1>2, <1>3 DEF Chain

\* What stands at the front of a chain that begins between two items.
LEMMA FrontOfChain ==
    ASSUME NEW L, Ordered(L), NEW n \in 0..Len(L), NEW Q \in Seq(Byte), Q # << >>,
           Chain(L, EndOf(L, n), Q)
    PROVE  /\ n < Len(L) /\ L[n + 1] \in ItemIds
           /\ \A k \in 1..Len(Q) : k <= Whole(L[n + 1]) => Q[k] = At(L[n + 1], k)
<1>1. 1 \in 1..Len(Q) /\ Before(EndOf(L, n), Q, 1) = EndOf(L, n)
  BY EmptySeq DEF Before
<1>2. Follows(L, EndOf(L, n), Q[1])
  BY <1>1 DEF Chain
<1>3. n < Len(L) /\ L[n + 1] \in ItemIds /\ Q[1] = At(L[n + 1], 1)
  BY <1>2, FollowsEnd
<1> DEFINE i == L[n + 1]
           b == EndOf(L, n)
<1>4. i \in ItemIds /\ Q[1] = At(i, 1) /\ Chain(L, b, Q)
  BY <1>3
<1> HIDE DEF i, b
<1>5. \A k \in 1..Len(Q) : 1 + k <= Whole(i) + 1 => Q[k] = At(i, (1 + k) - 1)
  BY <1>4, ChainRun
<1>6. ASSUME NEW k \in 1..Len(Q), k <= Whole(i) PROVE Q[k] = At(i, k)
  <2>1. Whole(i) \in Nat /\ k \in Nat
    BY <1>4, ItemFacts
  <2>2. 1 + k <= Whole(i) + 1 /\ (1 + k) - 1 = k
    BY <1>6, <2>1
  <2>3. Q[k] = At(i, (1 + k) - 1)
    BY <1>5, <2>2
  <2> QED BY <2>2, <2>3
<1> QED BY <1>3, <1>6 DEF i

\* What is taken off the front leaves the rest.
LEMMA Cut ==
    ASSUME NEW A \in Seq(Byte), NEW n \in 0..Len(A)
    PROVE  /\ SubSeq(A, 1, n) \in Seq(Byte) /\ Len(SubSeq(A, 1, n)) = n
           /\ \A k \in 1..n : SubSeq(A, 1, n)[k] = A[k]
           /\ SubSeq(A, n + 1, Len(A)) \in Seq(Byte)
           /\ A = SubSeq(A, 1, n) \o SubSeq(A, n + 1, Len(A))
<1> DEFINE P == SubSeq(A, 1, n)
           Q == SubSeq(A, n + 1, Len(A))
<1>1. Len(A) \in Nat /\ n \in Nat /\ n <= Len(A)
  OBVIOUS
<1>2. P \in Seq(Byte) /\ Len(P) = n /\ \A k \in 1..n : P[k] = A[k]
  BY <1>1
<1>3. Q \in Seq(Byte) /\ Len(Q) = Len(A) - n /\ \A k \in 1..(Len(A) - n) : Q[k] = A[n + k]
  BY <1>1
<1> HIDE DEF P, Q
<1> DEFINE R == P \o Q
<1>4. /\ R \in Seq(Byte) /\ Len(R) = Len(A)
      /\ \A k \in 1..n : R[k] = P[k]
      /\ \A k \in 1..(Len(A) - n) : R[n + k] = Q[k]
  BY <1>1, <1>2, <1>3
<1> HIDE DEF R
<1>5. ASSUME NEW k \in 1..Len(A) PROVE R[k] = A[k]
  <2>1. CASE k <= n
    BY <1>1, <1>2, <1>4, <2>1
  <2>2. CASE k > n
    <3> DEFINE j == k - n
    <3>1. j \in 1..(Len(A) - n) /\ n + j = k
      BY <1>1, <2>2
    <3> HIDE DEF j
    <3>2. R[n + j] = Q[j] /\ Q[j] = A[n + j]
      BY <1>3, <1>4, <3>1
    <3> QED BY <3>1, <3>2
  <2> QED BY <1>1, <2>1, <2>2
<1>6. R = A
  BY <1>4, <1>5, SeqEqual
<1> QED BY <1>2, <1>3, <1>6 DEF P, Q, R

LEMMA ChainCut ==
    ASSUME NEW L, NEW b, NEW A \in Seq(Byte), NEW W \in Seq(Byte), NEW n \in 0..Len(A),
           Chain(L, b, A \o W)
    PROVE  LET Q == SubSeq(A, n + 1, Len(A)) \o W
               c == LastOr(b, SubSeq(A, 1, n))
           IN Chain(L, c, Q) /\ LastOr(c, Q) = LastOr(b, A \o W)
<1> DEFINE P == SubSeq(A, 1, n)
           B == SubSeq(A, n + 1, Len(A))
           Q == B \o W
<1>1. P \in Seq(Byte) /\ B \in Seq(Byte) /\ A = P \o B
  BY Cut
<1> HIDE DEF P, B
<1>2. A \o W = P \o Q /\ Q \in Seq(Byte)
  <2>1. Q \in Seq(Byte)
    BY ONLY <1>1, W \in Seq(Byte), ConcatProperties
  <2>2. (P \o B) \o W = P \o (B \o W)
    BY ONLY <1>1, W \in Seq(Byte), BytesAssociate, SMTT(30)
  <2> QED BY ONLY <1>1, <2>1, <2>2
<1> HIDE DEF Q
<1>3. Chain(L, LastOr(b, P), Q) /\ LastOr(b, P \o Q) = LastOr(LastOr(b, P), Q)
  BY <1>1, <1>2, ChainConcat
<1> QED BY <1>2, <1>3 DEF P, B, Q

-----------------------------------------------------------------------------
(* A reader in step with the writer. *)

\* The last byte the reader has used, after R was handed over of what the items L
\* make: with w octets awaited, the newline of the line that announced them.
Prev(L, R, w) == IF w > 0 THEN At(L[Len(R) + 1], 3) ELSE EndOf(L, Len(R))

Matches(L, R) == Len(R) <= Len(L) /\ \A k \in 1..Len(R) : R[k] = EntryOf(L[k])

\* R is what the first of the items L make, the octets awaited are the next item's,
\* and P, which is underway, goes on from where the reader is.
InStep(L, R, w, x, P) ==
    /\ Matches(L, R)
    /\ w > 0 => /\ Len(R) < Len(L) /\ x = L[Len(R) + 1]
                /\ IsSegment(x) /\ w = Items[x].size
    /\ Chain(L, Prev(L, R, w), P)

Entry == [kind : {"closed", "bad", "frame", "segment"}, of : ItemIds \cup {NoItem}, octets : Seq(Byte)]

LEMMA EntryFacts ==
    ASSUME NEW i \in ItemIds
    PROVE  /\ EntryOf(i) \in Entry /\ EntryOf(i).kind # "closed"
           /\ FrameOf(i) \in Entry
           /\ \A octets \in Seq(Byte) : SegmentOf(i, octets) \in Entry
           /\ << >> \in Seq(Byte)
           /\ Closed \in Entry /\ Bad \in Entry
<1>1. << >> \in Seq(Byte) /\ Octets(i) \in Seq(Byte)
  BY EmptySeq, WriteFacts
<1>2. FrameOf(i) \in Entry /\ FrameOf(i).kind # "closed" /\ Closed \in Entry /\ Bad \in Entry
  BY <1>1 DEF FrameOf, Closed, Bad, Entry
<1>3. \A octets \in Seq(Byte) : SegmentOf(i, octets) \in Entry /\ SegmentOf(i, octets).kind # "closed"
  BY DEF SegmentOf, Entry
<1> QED BY <1>1, <1>2, <1>3 DEF EntryOf

LEMMA MatchesIsPrefix ==
    ASSUME NEW L \in Seq(ItemIds), NEW R \in Seq(Entry)
    PROVE  Matches(L, R) <=> IsPrefix(R, [k \in DOMAIN L |-> EntryOf(L[k])])
<1> DEFINE W == [k \in DOMAIN L |-> EntryOf(L[k])]
           m == Len(R)
<1>1. /\ Len(L) \in Nat /\ m \in Nat
      /\ W \in Seq(Entry) /\ Len(W) = Len(L) /\ \A k \in 1..Len(L) : W[k] = EntryOf(L[k])
  <2>1. \A k \in 1..Len(L) : L[k] \in ItemIds
    BY ElementOfSeq
  <2>2. \A k \in 1..Len(L) : EntryOf(L[k]) \in Entry
    BY <2>1, EntryFacts
  <2> QED BY <2>2
<1> HIDE DEF W
<1>2. SubSeq(R, 1, m) = R
  BY SubSeqFull
<1>3. CASE m <= Len(W)
  <2>1. /\ SubSeq(W, 1, m) \in Seq(Entry) /\ Len(SubSeq(W, 1, m)) = m
        /\ \A k \in 1..m : SubSeq(W, 1, m)[k] = W[k]
    BY <1>1, <1>3
  <2>2. R = SubSeq(W, 1, m) <=> \A k \in 1..m : R[k] = W[k]
    <3>1. ASSUME \A k \in 1..m : R[k] = W[k] PROVE R = SubSeq(W, 1, m)
      BY <2>1, <3>1, SeqEqual
    <3> QED BY <2>1, <3>1
  <2>3. \A k \in 1..m : W[k] = EntryOf(L[k])
    BY <1>1, <1>3
  <2> QED BY <1>1, <1>2, <1>3, <2>2, <2>3 DEF Matches, IsPrefix, W
<1>4. CASE ~(m <= Len(W))
  BY <1>1, <1>4 DEF Matches, IsPrefix, W
<1> QED BY <1>3, <1>4

LEMMA MatchesGrows ==
    ASSUME NEW L \in Seq(ItemIds), NEW R \in Seq(Entry), Matches(L, R), NEW i \in ItemIds
    PROVE  Matches(Append(L, i), R)
<1>1. /\ Len(L) \in Nat /\ Len(R) \in Nat /\ Len(Append(L, i)) = Len(L) + 1
      /\ \A k \in 1..Len(L) : Append(L, i)[k] = L[k]
  OBVIOUS
<1> DEFINE M == Append(L, i)
<1> HIDE DEF M
<1>2. \A k \in 1..Len(R) : M[k] = L[k]
  BY <1>1 DEF M, Matches
<1> QED BY <1>1, <1>2 DEF Matches, M

LEMMA InStepGrows ==
    ASSUME NEW L, Ordered(L), NEW R \in Seq(Entry), NEW w \in Nat, NEW x, NEW P,
           InStep(L, R, w, x, P), NEW i \in ItemIds, \A k \in 1..Len(L) : L[k] # i
    PROVE  InStep(Append(L, i), R, w, x, P) /\ Prev(Append(L, i), R, w) = Prev(L, R, w)
<1> DEFINE M == Append(L, i)
           m == Len(R)
<1>1. /\ L \in Seq(ItemIds) /\ Len(L) \in Nat /\ m \in Nat /\ Len(M) = Len(L) + 1
      /\ \A k \in 1..Len(L) : M[k] = L[k]
  BY DEF Ordered
<1>2. Matches(L, R) /\ m <= Len(L)
  BY DEF InStep, Matches
<1>3. Matches(M, R)
  BY <1>1, <1>2, MatchesGrows
<1>4. \A n \in 0..Len(L) : EndOf(M, n) = EndOf(L, n)
  BY OrderGrows
<1>5. Chain(M, Prev(L, R, w), P)
  <2>1. \A b, Q : Chain(L, b, Q) => Chain(M, b, Q)
    BY OrderGrows
  <2> HIDE DEF M
  <2> QED BY <2>1 DEF InStep
<1> HIDE DEF M
<1>6. w > 0 => m < Len(L) /\ M[m + 1] = L[m + 1]
  <2>1. w > 0 => m < Len(L)
    BY DEF InStep
  <2> HIDE DEF m
  <2> QED BY <1>1, <2>1
<1>7. Prev(M, R, w) = Prev(L, R, w)
  <2>1. EndOf(M, m) = EndOf(L, m)
    BY <1>1, <1>2, <1>4
  <2> QED BY <1>6, <2>1 DEF Prev
<1>8. InStep(M, R, w, x, P)
  <2>1. w > 0 => m < Len(M) /\ x = M[m + 1] /\ IsSegment(x) /\ w = Items[x].size
    <3>1. w > 0 => x = L[m + 1] /\ IsSegment(x) /\ w = Items[x].size
      BY DEF InStep
    <3> HIDE DEF m
    <3> QED BY <1>1, <1>6, <3>1
  <2> QED BY <1>3, <1>5, <1>7, <2>1 DEF InStep
<1> QED BY <1>7, <1>8 DEF M

LEMMA InStepCut ==
    ASSUME NEW L, NEW R, NEW w, NEW x, NEW P \in Seq(Byte), NEW Q \in Seq(Byte),
           InStep(L, R, w, x, P \o Q)
    PROVE  InStep(L, R, w, x, P)
<1>1. Chain(L, Prev(L, R, w), P)
  BY ChainConcat DEF InStep
<1> QED BY <1>1 DEF InStep

\* The next item is handed over, and the reader goes on after it.
LEMMA InStepGoesOn ==
    ASSUME NEW L, Ordered(L), NEW R \in Seq(Entry), Matches(L, R), Len(R) < Len(L), NEW x, NEW P,
           Chain(L, EndOf(L, Len(R) + 1), P)
    PROVE  /\ InStep(L, Append(R, EntryOf(L[Len(R) + 1])), 0, x, P)
           /\ Prev(L, Append(R, EntryOf(L[Len(R) + 1])), 0) = EndOf(L, Len(R) + 1)
<1> DEFINE m == Len(R)
           e == EntryOf(L[m + 1])
           M == Append(R, e)
<1>1. m \in Nat /\ Len(L) \in Nat /\ m + 1 \in 1..Len(L)
  BY DEF Ordered
<1>2. e \in Entry
  <2>1. L[m + 1] \in ItemIds
    BY <1>1 DEF Ordered
  <2> QED BY <2>1, EntryFacts
<1> HIDE DEF e
<1>3. Len(M) = m + 1 /\ (\A k \in 1..m : M[k] = R[k]) /\ M[m + 1] = e
  BY <1>2
<1> HIDE DEF M
<1>4. ASSUME NEW k \in 1..Len(M) PROVE M[k] = EntryOf(L[k])
  <2>1. k \in 1..m \/ k = m + 1
    BY <1>1, <1>3
  <2>2. \A j \in 1..m : R[j] = EntryOf(L[j])
    BY DEF Matches
  <2> QED BY <1>3, <2>1, <2>2 DEF e
<1>5. Matches(L, M)
  BY <1>1, <1>3, <1>4 DEF Matches
<1>6. Prev(L, M, 0) = EndOf(L, m + 1)
  BY <1>3 DEF Prev
<1> QED BY <1>5, <1>6 DEF InStep, M, e

\* A line in the reader's hands is the next item's, at the length of a line.
LEMMA TakeLine ==
    ASSUME NEW L, Ordered(L), NEW R \in Seq(Entry), NEW x, NEW A \in Seq(Byte), NEW W \in Seq(Byte),
           InStep(L, R, 0, x, A \o W), \E k \in DOMAIN A : IsNewline(A[k])
    PROVE  /\ Len(R) < Len(L) /\ L[Len(R) + 1] \in ItemIds
           /\ Len(A) >= 3 /\ IsNewline(A[3]) /\ \A k \in 1..2 : ~IsNewline(A[k])
           /\ SubSeq(A, 1, 2) = Text(L[Len(R) + 1])
           /\ LET Q == SubSeq(A, 4, Len(A)) \o W
                  c == At(L[Len(R) + 1], 3)
              IN Chain(L, c, Q) /\ LastOr(c, Q) = LastOr(Prev(L, R, 0), A \o W)
<1> DEFINE m == Len(R)
           i == L[m + 1]
           b == EndOf(L, m)
<1>1. Matches(L, R) /\ m \in 0..Len(L) /\ Chain(L, b, A \o W) /\ Prev(L, R, 0) = b
  BY DEF InStep, Matches, Prev, Ordered
<1>2. Chain(L, b, A)
  BY <1>1, ChainConcat
<1>3. A # << >> /\ Len(A) \in Nat /\ DOMAIN A = 1..Len(A)
  OBVIOUS
<1>4. /\ m < Len(L) /\ i \in ItemIds
      /\ \A k \in 1..Len(A) : k <= Whole(i) => A[k] = At(i, k)
  BY <1>1, <1>2, <1>3, FrontOfChain
<1> HIDE DEF i, b
<1>5. Whole(i) \in Nat /\ Whole(i) >= 3
  BY <1>4, ItemFacts
<1>6. \A k \in 1..Len(A) : k <= 3 => A[k] = At(i, k)
  BY <1>4, <1>5
<1>7. \A k \in 1..Len(A) : k <= 2 => ~IsNewline(A[k])
  <2>1. ASSUME NEW k \in 1..Len(A), k <= 2 PROVE ~IsNewline(A[k])
    <3>1. k \in Nat /\ k >= 1 /\ k <= 3
      BY <2>1
    <3> QED BY <1>4, <1>6, <2>1, <3>1, AtFacts
  <2> QED BY <2>1
<1>8. Len(A) >= 3
  <2>1. PICK k \in 1..Len(A) : IsNewline(A[k])
    BY <1>3
  <2> QED BY <1>3, <1>7, <2>1
<1>9. A[3] = At(i, 3) /\ IsNewline(A[3])
  BY <1>3, <1>4, <1>6, <1>8, AtFacts
<1>10. SubSeq(A, 1, 2) = Text(i)
  <2>1. /\ SubSeq(A, 1, 2) \in Seq(Byte) /\ Len(SubSeq(A, 1, 2)) = 2
        /\ \A k \in 1..2 : SubSeq(A, 1, 2)[k] = A[k]
    BY <1>8, Cut
  <2>2. \A k \in 1..2 : A[k] = At(i, k)
    BY <1>6, <1>8
  <2>3. Text(i) \in Seq(Byte) /\ Len(Text(i)) = 2 /\ \A k \in 1..2 : Text(i)[k] = At(i, k)
    BY <1>4, WriteFacts
  <2> QED BY <2>1, <2>2, <2>3, SeqEqual
<1>11. LastOr(b, SubSeq(A, 1, 3)) = At(i, 3)
  <2> DEFINE P == SubSeq(A, 1, 3)
  <2>1. P \in Seq(Byte) /\ Len(P) = 3 /\ \A k \in 1..3 : P[k] = A[k]
    BY <1>8, Cut
  <2> HIDE DEF P
  <2>2. P # << >> /\ P[3] = A[3]
    <3>1. 3 \in 1..3 /\ 3 # 0
      OBVIOUS
    <3>2. P[3] = A[3]
      BY ONLY <2>1, <3>1, Zenon
    <3>3. Len(<< >>) = 0
      BY EmptySeq
    <3>4. P # << >>
      BY ONLY <2>1, <3>1, <3>3, Zenon
    <3> QED BY <3>2, <3>4
  <2> QED BY <1>9, <2>1, <2>2 DEF LastOr, P
<1>12. LET Q == SubSeq(A, 4, Len(A)) \o W
           c == At(i, 3)
       IN Chain(L, c, Q) /\ LastOr(c, Q) = LastOr(b, A \o W)
  <2>1. 3 \in 0..Len(A) /\ 3 + 1 = 4
    BY <1>8
  <2>2. LET Q == SubSeq(A, 3 + 1, Len(A)) \o W
            c == LastOr(b, SubSeq(A, 1, 3))
        IN Chain(L, c, Q) /\ LastOr(c, Q) = LastOr(b, A \o W)
    <3>1. A \in Seq(Byte) /\ W \in Seq(Byte) /\ Chain(L, b, A \o W)
      BY <1>1
    <3> QED BY ONLY <2>1, <3>1, ChainCut, ZenonT(30)
  <2> QED BY <1>11, <2>1, <2>2
<1> QED BY <1>1, <1>4, <1>7, <1>8, <1>9, <1>10, <1>12 DEF i

\* The octets awaited are the next item's, and end it.
LEMMA TakeOctets ==
    ASSUME NEW L, Ordered(L), NEW R \in Seq(Entry), NEW w \in Nat, w > 0, NEW x,
           NEW A \in Seq(Byte), NEW W \in Seq(Byte), InStep(L, R, w, x, A \o W), Len(A) >= w
    PROVE  /\ x \in ItemIds /\ SubSeq(A, 1, w) = Octets(x) /\ EntryOf(x) = SegmentOf(x, SubSeq(A, 1, w))
           /\ Matches(L, R) /\ Len(R) < Len(L) /\ x = L[Len(R) + 1]
           /\ LET Q == SubSeq(A, w + 1, Len(A)) \o W
                  c == EndOf(L, Len(R) + 1)
              IN Chain(L, c, Q) /\ LastOr(c, Q) = LastOr(Prev(L, R, w), A \o W)
<1> DEFINE m == Len(R)
           b == At(x, 3)
<1>1. /\ m \in Nat /\ Len(L) \in Nat /\ Matches(L, R) /\ m < Len(L) /\ x = L[m + 1] /\ IsSegment(x)
      /\ w = Items[x].size /\ Prev(L, R, w) = b /\ Chain(L, b, A \o W)
  BY DEF InStep, Prev, Ordered
<1>2. x \in ItemIds
  <2>1. m + 1 \in 1..Len(L)
    BY <1>1
  <2> QED BY <1>1, <2>1 DEF Ordered
<1>3. Whole(x) = 3 + w
  BY <1>1, <1>2, ItemFacts
<1>4. Chain(L, b, A)
  BY <1>1, ChainConcat
<1>5. A # << >> /\ Len(A) \in Nat /\ 1 \in 1..Len(A)
  <2>1. Len(A) \in Nat /\ Len(A) >= 1
    OBVIOUS
  <2> QED BY <2>1, EmptySeq
<1>6. A[1] = At(x, 4)
  <2>1. Follows(L, b, A[1])
    BY <1>4, <1>5 DEF Chain, Before
  <2>2. A[1] = At(x, 3 + 1)
    BY <1>2, <1>3, <2>1, FollowsInside
  <2> QED BY <2>2
<1> HIDE DEF b
<1>7. \A k \in 1..Len(A) : 4 + k <= Whole(x) + 1 => A[k] = At(x, (4 + k) - 1)
  BY <1>2, <1>4, <1>5, <1>6, ChainRun
<1>8. \A k \in 1..w : A[k] = At(x, 3 + k)
  <2>1. ASSUME NEW k \in 1..w PROVE A[k] = At(x, 3 + k)
    <3>1. k \in 1..Len(A) /\ 4 + k <= Whole(x) + 1 /\ (4 + k) - 1 = 3 + k
      BY <1>3, <1>5
    <3>2. A[k] = At(x, (4 + k) - 1)
      BY <1>7, <3>1
    <3> QED BY <3>1, <3>2
  <2> QED BY <2>1
<1>9. /\ SubSeq(A, 1, w) \in Seq(Byte) /\ Len(SubSeq(A, 1, w)) = w
      /\ \A k \in 1..w : SubSeq(A, 1, w)[k] = A[k]
  BY <1>5, Cut
<1>10. SubSeq(A, 1, w) = Octets(x)
  <2>1. Octets(x) \in Seq(Byte) /\ Len(Octets(x)) = w /\ \A k \in 1..w : Octets(x)[k] = At(x, 3 + k)
    BY <1>1, <1>2, WriteFacts
  <2> QED BY <1>8, <1>9, <2>1, SeqEqual
<1>11. EntryOf(x) = SegmentOf(x, SubSeq(A, 1, w))
  BY <1>1, <1>10 DEF EntryOf
<1>12. LastOr(b, SubSeq(A, 1, w)) = EndOf(L, m + 1)
  <2> DEFINE P == SubSeq(A, 1, w)
  <2>1. P # << >> /\ P[w] = A[w] /\ Len(P) = w /\ w \in 1..w
    BY <1>9
  <2>2. LastOr(b, P) = At(x, 3 + w)
    BY <1>8, <2>1 DEF LastOr
  <2>3. EndOf(L, m + 1) = At(x, Whole(x))
    BY <1>1 DEF EndOf
  <2> QED BY <1>3, <2>2, <2>3
<1>13. LET Q == SubSeq(A, w + 1, Len(A)) \o W
           c == LastOr(b, SubSeq(A, 1, w))
       IN Chain(L, c, Q) /\ LastOr(c, Q) = LastOr(b, A \o W)
  <2>1. w \in 0..Len(A)
    BY <1>5
  <2> QED BY <1>1, <2>1, ChainCut
<1> QED BY <1>1, <1>2, <1>10, <1>11, <1>12, <1>13

-----------------------------------------------------------------------------
(* The lines among the writes, what was read of the log, the bytes queued. *)

WriteOf == [of : ItemIds, part : {"line", "octets"}]
QueuedWrite == [of : ItemIds, bytes : Seq(Byte)]

LinesOf(ws) == FlattenSeq([k \in DOMAIN ws |-> IF ws[k].part = "line" THEN <<ws[k].of>> ELSE << >>])
ReadsOf(es) == FlattenSeq([k \in DOMAIN es |-> IF es[k].kind # "closed" THEN <<es[k]>> ELSE << >>])
BytesOf(qs) == FlattenSeq([k \in DOMAIN qs |-> qs[k].bytes])

LEMMA LinesFacts ==
    /\ LinesOf(<< >>) = << >>
    /\ \A ws \in Seq(WriteOf) : LinesOf(ws) \in Seq(ItemIds)
    /\ \A ws \in Seq(WriteOf), i \in ItemIds :
          /\ LinesOf(Append(ws, [of |-> i, part |-> "line"])) = Append(LinesOf(ws), i)
          /\ LinesOf(Append(ws, [of |-> i, part |-> "octets"])) = LinesOf(ws)
<1> DEFINE f == [w \in WriteOf |-> IF w.part = "line" THEN <<w.of>> ELSE << >>]
<1>1. f \in [WriteOf -> Seq(ItemIds)]
  <2>1. ASSUME NEW w \in WriteOf PROVE (IF w.part = "line" THEN <<w.of>> ELSE << >>) \in Seq(ItemIds)
    <3>1. w.of \in ItemIds
      BY DEF WriteOf
    <3>2. <<w.of>> \in Seq(ItemIds)
      BY <3>1
    <3> QED BY <3>2, EmptySeq
  <2> QED BY <2>1
<1>2. ASSUME NEW ws \in Seq(WriteOf) PROVE LinesOf(ws) = MapOf(f, ws)
  <2>1. \A k \in DOMAIN ws : ws[k] \in WriteOf
    OBVIOUS
  <2>2. \A k \in DOMAIN ws : f[ws[k]] = IF ws[k].part = "line" THEN <<ws[k].of>> ELSE << >>
    BY <2>1
  <2> HIDE DEF f
  <2>3. [k \in DOMAIN ws |-> f[ws[k]]]
        = [k \in DOMAIN ws |-> IF ws[k].part = "line" THEN <<ws[k].of>> ELSE << >>]
    BY ONLY <2>2, Zenon
  <2> QED BY <2>3 DEF LinesOf, MapOf
<1>3. \A i \in ItemIds : /\ [of |-> i, part |-> "line"] \in WriteOf /\ f[[of |-> i, part |-> "line"]] = <<i>>
                         /\ [of |-> i, part |-> "octets"] \in WriteOf /\ f[[of |-> i, part |-> "octets"]] = << >>
  BY DEF WriteOf
<1> HIDE DEF f
<1>4. /\ MapOf(f, << >>) = << >>
      /\ \A ws \in Seq(WriteOf) : MapOf(f, ws) \in Seq(ItemIds)
      /\ \A ws \in Seq(WriteOf), w \in WriteOf : MapOf(f, Append(ws, w)) = MapOf(f, ws) \o f[w]
  <2> DEFINE V == WriteOf
             S == ItemIds
  <2>1. Maps(f, V, S)
    BY <1>1 DEF Maps
  <2> HIDE DEF V, S
  <2>2. /\ MapOf(f, << >>) = << >>
        /\ \A s \in Seq(V) : MapOf(f, s) \in Seq(S)
        /\ \A s \in Seq(V), x \in V : MapOf(f, Append(s, x)) = MapOf(f, s) \o f[x]
        /\ \A s \in Seq(V) : s # << >> => MapOf(f, s) = f[Head(s)] \o MapOf(f, Tail(s))
    BY <2>1, MapFacts
  <2> QED BY <2>2 DEF V, S
<1>5. ASSUME NEW ws \in Seq(WriteOf), NEW i \in ItemIds
      PROVE  /\ LinesOf(Append(ws, [of |-> i, part |-> "line"])) = Append(LinesOf(ws), i)
             /\ LinesOf(Append(ws, [of |-> i, part |-> "octets"])) = LinesOf(ws)
  <2> DEFINE a == [of |-> i, part |-> "line"]
             b == [of |-> i, part |-> "octets"]
  <2>1. a \in WriteOf /\ b \in WriteOf /\ f[a] = <<i>> /\ f[b] = << >>
    BY <1>3
  <2> HIDE DEF a, b
  <2>2. Append(ws, a) \in Seq(WriteOf) /\ Append(ws, b) \in Seq(WriteOf)
    BY <2>1, AppendProperties
  <2>3. LinesOf(Append(ws, a)) = LinesOf(ws) \o <<i>> /\ LinesOf(Append(ws, b)) = LinesOf(ws) \o << >>
    BY <1>2, <1>4, <2>1, <2>2
  <2>4. LinesOf(ws) \in Seq(ItemIds)
    BY <1>2, <1>4
  <2>5. LinesOf(ws) \o <<i>> = Append(LinesOf(ws), i) /\ LinesOf(ws) \o << >> = LinesOf(ws)
    BY <2>4, AppendIsConcat, ConcatEmptySeq
  <2> QED BY <2>3, <2>5 DEF a, b
<1>6. << >> \in Seq(WriteOf)
  BY EmptySeq
<1> QED BY <1>2, <1>4, <1>5, <1>6

LEMMA ReadsFacts ==
    /\ ReadsOf(<< >>) = << >>
    /\ \A es \in Seq(Entry) : ReadsOf(es) \in Seq(Entry)
    /\ \A es \in Seq(Entry), e \in Entry :
          ReadsOf(Append(es, e)) = IF e.kind # "closed" THEN Append(ReadsOf(es), e) ELSE ReadsOf(es)
<1> DEFINE f == [e \in Entry |-> IF e.kind # "closed" THEN <<e>> ELSE << >>]
<1>1. f \in [Entry -> Seq(Entry)]
  <2>1. ASSUME NEW e \in Entry PROVE (IF e.kind # "closed" THEN <<e>> ELSE << >>) \in Seq(Entry)
    BY EmptySeq
  <2> QED BY <2>1
<1>2. ASSUME NEW es \in Seq(Entry) PROVE ReadsOf(es) = MapOf(f, es)
  <2>1. \A k \in DOMAIN es : es[k] \in Entry
    OBVIOUS
  <2>2. \A k \in DOMAIN es : f[es[k]] = IF es[k].kind # "closed" THEN <<es[k]>> ELSE << >>
    BY <2>1
  <2> HIDE DEF f
  <2>3. [k \in DOMAIN es |-> f[es[k]]]
        = [k \in DOMAIN es |-> IF es[k].kind # "closed" THEN <<es[k]>> ELSE << >>]
    BY ONLY <2>2, Zenon
  <2> QED BY <2>3 DEF ReadsOf, MapOf
<1>3. \A e \in Entry : f[e] = IF e.kind # "closed" THEN <<e>> ELSE << >>
  OBVIOUS
<1> HIDE DEF f
<1>4. /\ MapOf(f, << >>) = << >>
      /\ \A es \in Seq(Entry) : MapOf(f, es) \in Seq(Entry)
      /\ \A es \in Seq(Entry), e \in Entry : MapOf(f, Append(es, e)) = MapOf(f, es) \o f[e]
  <2> DEFINE V == Entry
             S == Entry
  <2>1. Maps(f, V, S)
    BY <1>1 DEF Maps
  <2> HIDE DEF V, S
  <2>2. /\ MapOf(f, << >>) = << >>
        /\ \A s \in Seq(V) : MapOf(f, s) \in Seq(S)
        /\ \A s \in Seq(V), x \in V : MapOf(f, Append(s, x)) = MapOf(f, s) \o f[x]
        /\ \A s \in Seq(V) : s # << >> => MapOf(f, s) = f[Head(s)] \o MapOf(f, Tail(s))
    BY <2>1, MapFacts
  <2> QED BY <2>2 DEF V, S
<1>5. ASSUME NEW es \in Seq(Entry), NEW e \in Entry
      PROVE  ReadsOf(Append(es, e)) = IF e.kind # "closed" THEN Append(ReadsOf(es), e) ELSE ReadsOf(es)
  <2>1. Append(es, e) \in Seq(Entry)
    BY AppendProperties
  <2>2. ReadsOf(Append(es, e)) = ReadsOf(es) \o f[e]
    BY <1>2, <1>4, <2>1
  <2>3. ReadsOf(es) \in Seq(Entry)
    BY <1>2, <1>4
  <2>4. ReadsOf(es) \o <<e>> = Append(ReadsOf(es), e) /\ ReadsOf(es) \o << >> = ReadsOf(es)
    BY <2>3, AppendIsConcat, ConcatEmptySeq
  <2> QED BY <1>3, <2>2, <2>4
<1>6. << >> \in Seq(Entry)
  BY EmptySeq
<1> QED BY <1>2, <1>4, <1>5, <1>6

LEMMA BytesFacts ==
    /\ BytesOf(<< >>) = << >>
    /\ \A qs \in Seq(QueuedWrite) : BytesOf(qs) \in Seq(Byte)
    /\ \A qs \in Seq(QueuedWrite), q \in QueuedWrite : BytesOf(Append(qs, q)) = BytesOf(qs) \o q.bytes
    /\ \A qs \in Seq(QueuedWrite) : qs # << >> => BytesOf(qs) = Head(qs).bytes \o BytesOf(Tail(qs))
<1> DEFINE f == [q \in QueuedWrite |-> q.bytes]
<1>1. f \in [QueuedWrite -> Seq(Byte)]
  BY DEF QueuedWrite
<1>2. ASSUME NEW qs \in Seq(QueuedWrite) PROVE BytesOf(qs) = MapOf(f, qs)
  <2>1. \A k \in DOMAIN qs : qs[k] \in QueuedWrite
    OBVIOUS
  <2>2. \A k \in DOMAIN qs : f[qs[k]] = qs[k].bytes
    BY <2>1
  <2> HIDE DEF f
  <2>3. [k \in DOMAIN qs |-> f[qs[k]]] = [k \in DOMAIN qs |-> qs[k].bytes]
    BY ONLY <2>2, Zenon
  <2> QED BY <2>3 DEF BytesOf, MapOf
<1>3. \A q \in QueuedWrite : f[q] = q.bytes
  OBVIOUS
<1> HIDE DEF f
<1>4. /\ MapOf(f, << >>) = << >>
      /\ \A qs \in Seq(QueuedWrite) : MapOf(f, qs) \in Seq(Byte)
      /\ \A qs \in Seq(QueuedWrite), q \in QueuedWrite : MapOf(f, Append(qs, q)) = MapOf(f, qs) \o f[q]
      /\ \A qs \in Seq(QueuedWrite) : qs # << >> => MapOf(f, qs) = f[Head(qs)] \o MapOf(f, Tail(qs))
  <2> DEFINE V == QueuedWrite
             S == Byte
  <2>1. Maps(f, V, S)
    BY <1>1 DEF Maps
  <2> HIDE DEF V, S
  <2>2. /\ MapOf(f, << >>) = << >>
        /\ \A s \in Seq(V) : MapOf(f, s) \in Seq(S)
        /\ \A s \in Seq(V), x \in V : MapOf(f, Append(s, x)) = MapOf(f, s) \o f[x]
        /\ \A s \in Seq(V) : s # << >> => MapOf(f, s) = f[Head(s)] \o MapOf(f, Tail(s))
    BY <2>1, MapFacts
  <2> QED BY <2>2 DEF V, S
<1>5. << >> \in Seq(QueuedWrite)
  BY EmptySeq
<1>6. ASSUME NEW qs \in Seq(QueuedWrite), NEW q \in QueuedWrite
      PROVE  BytesOf(Append(qs, q)) = BytesOf(qs) \o q.bytes
  <2>1. Append(qs, q) \in Seq(QueuedWrite)
    BY AppendProperties
  <2> QED BY <1>2, <1>3, <1>4, <2>1
<1>7. ASSUME NEW qs \in Seq(QueuedWrite), qs # << >>
      PROVE  BytesOf(qs) = Head(qs).bytes \o BytesOf(Tail(qs))
  <2>1. Head(qs) \in QueuedWrite /\ Tail(qs) \in Seq(QueuedWrite)
    BY <1>7, HeadTailProperties
  <2> QED BY <1>2, <1>3, <1>4, <1>7, <2>1
<1> QED BY <1>2, <1>4, <1>5, <1>6, <1>7

-----------------------------------------------------------------------------
(* What a write does to the order of the bytes. *)

TornIn(ws) ==
    \E k \in 1..(Len(ws) - 1) :
        /\ ws[k].part = "line"
        /\ Items[ws[k].of].size > 0
        /\ ws[k + 1].of # ws[k].of

\* The octets of the last line are still to be written.
OpenIn(ws) == ws # << >> /\ ws[Len(ws)].part = "line" /\ Items[ws[Len(ws)].of].size > 0

\* The last byte written.
EndIn(ws) == IF OpenIn(ws) THEN At(ws[Len(ws)].of, 3) ELSE EndOf(LinesOf(ws), Len(LinesOf(ws)))

LastLineIn(ws) ==
    ws # << >> /\ ws[Len(ws)].part = "line" =>
       /\ LinesOf(ws) # << >>
       /\ LinesOf(ws)[Len(LinesOf(ws))] = ws[Len(ws)].of

\* Once torn, a connection stays so, and a write of another item tears an open segment.
LEMMA TornGrows ==
    ASSUME NEW ws \in Seq(WriteOf), NEW w \in WriteOf
    PROVE  /\ TornIn(ws) => TornIn(Append(ws, w))
           /\ OpenIn(ws) /\ w.of # ws[Len(ws)].of => TornIn(Append(ws, w))
<1> DEFINE n == Len(ws)
           more == Append(ws, w)
<1>1. n \in Nat /\ Len(more) = n + 1 /\ (\A k \in 1..n : more[k] = ws[k]) /\ more[n + 1] = w
  BY AppendProperties
<1> HIDE DEF more, n
<1>2. ASSUME TornIn(ws) PROVE TornIn(more)
  <2>1. PICK k \in 1..(n - 1) : ws[k].part = "line" /\ Items[ws[k].of].size > 0 /\ ws[k + 1].of # ws[k].of
    BY <1>2 DEF TornIn, n
  <2> DEFINE j == k + 1
  <2>2. k \in 1..(Len(more) - 1) /\ k \in 1..n /\ j \in 1..n
    BY <1>1
  <2>3. more[j] = ws[j] /\ more[k] = ws[k]
    BY <1>1, <2>2
  <2> QED BY <2>1, <2>2, <2>3 DEF TornIn
<1>3. ASSUME OpenIn(ws), w.of # ws[n].of PROVE TornIn(more)
  <2>1. n # 0
    BY <1>3, EmptySeq DEF OpenIn, n
  <2>2. n \in 1..(Len(more) - 1) /\ n \in 1..n
    BY <1>1, <2>1
  <2>3. ws[n].part = "line" /\ Items[ws[n].of].size > 0
    BY <1>3 DEF OpenIn, n
  <2> QED BY <1>1, <1>3, <2>2, <2>3 DEF TornIn
<1> QED BY <1>2, <1>3 DEF more, n

LEMMA LineWritten ==
    ASSUME NEW ws \in Seq(WriteOf), NEW i \in ItemIds, Ordered(LinesOf(ws)),
           \A k \in DOMAIN ws : ws[k].of # i,
           \A k \in 1..Len(LinesOf(ws)) : LinesOf(ws)[k] # i,
           NEW R \in Seq(Entry), NEW w \in Nat, NEW x, NEW P \in Seq(Byte),
           InStep(LinesOf(ws), R, w, x, P), LastOr(Prev(LinesOf(ws), R, w), P) = EndIn(ws),
           ~TornIn(Append(ws, [of |-> i, part |-> "line"]))
    PROVE  LET more == Append(ws, [of |-> i, part |-> "line"])
           IN  /\ InStep(LinesOf(more), R, w, x, P \o Line(i))
               /\ LastOr(Prev(LinesOf(more), R, w), P \o Line(i)) = EndIn(more)
<1> DEFINE a == [of |-> i, part |-> "line"]
           more == Append(ws, a)
           L == LinesOf(ws)
           M == Append(L, i)
<1>1. a \in WriteOf /\ a.of = i /\ a.part = "line"
  BY DEF WriteOf
<1>2. LinesOf(more) = M
  BY LinesFacts
<1> HIDE DEF a
<1>3. /\ Len(ws) \in Nat /\ more # << >> /\ Len(more) = Len(ws) + 1 /\ more[Len(ws) + 1] = a
  BY <1>1, AppendProperties
<1>4. ~OpenIn(ws)
  <2>1. ASSUME OpenIn(ws) PROVE ws[Len(ws)].of # i
    <3>1. Len(ws) \in DOMAIN ws
      BY <2>1 DEF OpenIn
    <3> QED BY <3>1
  <2>2. ~TornIn(more)
    BY DEF a
  <2> QED BY <1>1, <2>1, <2>2, TornGrows
<1>5. EndIn(ws) = EndOf(L, Len(L))
  BY <1>4 DEF EndIn
<1>6. EndIn(more) = At(i, 3)
  <2>1. ~OpenIn(more) => ~(Items[i].size > 0)
    BY <1>1, <1>3 DEF OpenIn
  <2>2. ~(Items[i].size > 0) => Whole(i) = 3
    <3>1. IsSegment(i) => Items[i].size \in Nat /\ Whole(i) = 3 + Items[i].size
      BY ItemFacts
    <3>2. ~IsSegment(i) => Whole(i) = 3
      BY ItemFacts
    <3> QED BY <3>1, <3>2
  <2>3. L \in Seq(ItemIds)
    BY LinesFacts
  <2> HIDE DEF L, more
  <2>4. Len(M) = Len(L) + 1 /\ M[Len(M)] = i /\ Len(M) # 0
    BY <2>3
  <2>5. EndOf(M, Len(M)) = At(i, Whole(i))
    BY <2>4 DEF EndOf
  <2>6. OpenIn(more) => EndIn(more) = At(i, 3)
    BY <1>1, <1>3 DEF EndIn
  <2> QED BY <1>2, <2>1, <2>2, <2>5, <2>6 DEF EndIn
<1> HIDE DEF more, L
<1> DEFINE b == Prev(L, R, w)
<1>7. InStep(M, R, w, x, P) /\ Prev(M, R, w) = b
  BY InStepGrows DEF L
<1>8. Chain(M, LastOr(b, P), Line(i)) /\ LastOr(LastOr(b, P), Line(i)) = At(i, 3)
  <2>1. Line(i) \in Seq(Byte) /\ Len(Line(i)) = 3 /\ \A k \in 1..3 : Line(i)[k] = At(i, k)
    BY WriteFacts
  <2>2. Follows(M, LastOr(b, P), At(i, 1))
    BY <1>5, OrderGrows DEF L
  <2> DEFINE Q == Line(i)
             c == LastOr(b, P)
  <2>3. /\ Q \in Seq(Byte) /\ Len(Q) = 3 /\ Q # << >> /\ Follows(M, c, At(i, 1))
        /\ 1 + Len(Q) <= Whole(i) + 1
    <3>1. Whole(i) \in Nat /\ Whole(i) >= 3
      BY ItemFacts
    <3>2. Len(<< >>) = 0
      BY EmptySeq
    <3>3. Line(i) # << >>
      <4>1. 3 # 0
        OBVIOUS
      <4> QED BY ONLY <2>1, <3>2, <4>1, Zenon
    <3>4. 1 + Len(Line(i)) <= Whole(i) + 1
      BY ONLY <2>1, <3>1, SMT
    <3> QED BY <2>1, <2>2, <3>3, <3>4
  <2>4. \A k \in 1..Len(Q) : Q[k] = At(i, (1 + k) - 1)
    <3>1. ASSUME NEW k \in 1..3 PROVE Q[k] = At(i, (1 + k) - 1)
      <4>1. (1 + k) - 1 = k
        OBVIOUS
      <4> QED BY <2>1, <4>1
    <3> QED BY <2>1, <3>1
  <2> HIDE DEF Q, c, M
  <2>5. Chain(M, c, Q) /\ LastOr(c, Q) = At(i, (1 + Len(Q)) - 1)
    <3> DEFINE r == 1
    <3>1. /\ r \in Nat /\ r >= 1 /\ Follows(M, c, At(i, r)) /\ r + Len(Q) <= Whole(i) + 1
          /\ \A k \in 1..Len(Q) : Q[k] = At(i, (r + k) - 1)
      BY <2>3, <2>4
    <3> HIDE DEF r
    <3>2. Chain(M, c, Q) /\ LastOr(c, Q) = At(i, (r + Len(Q)) - 1)
      BY <2>3, <3>1, RunIsChain, ZenonT(30)
    <3> QED BY <3>2 DEF r
  <2> QED BY <2>3, <2>5 DEF Q, c
<1> HIDE DEF M
<1>9. Chain(M, b, P \o Line(i)) /\ LastOr(b, P \o Line(i)) = At(i, 3)
  <2>1. Line(i) \in Seq(Byte)
    BY WriteFacts
  <2> HIDE DEF b
  <2>2. Chain(M, b, P)
    BY <1>7 DEF InStep
  <2> QED BY <1>8, <2>1, <2>2, ChainConcat
<1>10. InStep(M, R, w, x, P \o Line(i))
  BY <1>7, <1>9 DEF InStep
<1> QED BY <1>2, <1>6, <1>7, <1>9, <1>10 DEF more, a, b

LEMMA OctetsWritten ==
    ASSUME NEW ws \in Seq(WriteOf), NEW i \in ItemIds, IsSegment(i), Ordered(LinesOf(ws)),
           LastLineIn(ws), NEW j \in DOMAIN ws, ws[j] = [of |-> i, part |-> "line"],
           \A k \in DOMAIN ws : ws[k].of = i => k = j,
           NEW R \in Seq(Entry), NEW w \in Nat, NEW x, NEW P \in Seq(Byte),
           InStep(LinesOf(ws), R, w, x, P), LastOr(Prev(LinesOf(ws), R, w), P) = EndIn(ws),
           ~TornIn(Append(ws, [of |-> i, part |-> "octets"]))
    PROVE  LET more == Append(ws, [of |-> i, part |-> "octets"])
           IN  /\ InStep(LinesOf(more), R, w, x, P \o Octets(i))
               /\ LastOr(Prev(LinesOf(more), R, w), P \o Octets(i)) = EndIn(more)
<1> DEFINE a == [of |-> i, part |-> "octets"]
           more == Append(ws, a)
           L == LinesOf(ws)
           n == Len(ws)
<1>1. a \in WriteOf /\ a.of = i /\ a.part = "octets"
  BY DEF WriteOf
<1>2. LinesOf(more) = L
  BY LinesFacts
<1> HIDE DEF a
<1>3. n \in Nat /\ n # 0 /\ n \in DOMAIN ws /\ j \in 1..n /\ more # << >> /\ Len(more) = n + 1 /\ more[n + 1] = a
  BY <1>1, AppendProperties
<1>4. ~TornIn(ws) /\ ~(OpenIn(ws) /\ ws[n].of # i)
  <2>1. ~TornIn(more)
    BY DEF a
  <2> QED BY <1>1, <2>1, TornGrows
<1>5. EndIn(more) = EndOf(L, Len(L))
  <2>1. ~OpenIn(more)
    BY <1>1, <1>3 DEF OpenIn
  <2> QED BY <1>2, <2>1 DEF EndIn
<1>6. Items[i].size \in Nat /\ Whole(i) = 3 + Items[i].size /\ Octets(i) \in Seq(Byte)
      /\ Len(Octets(i)) = Items[i].size /\ \A k \in 1..Len(Octets(i)) : Octets(i)[k] = At(i, 3 + k)
  BY ItemFacts, WriteFacts
<1> DEFINE b == Prev(L, R, w)
<1>7. CASE Items[i].size = 0
  <2>1. Octets(i) = << >>
    BY <1>6, <1>7, EmptySeq
  <2>2. P \o Octets(i) = P
    BY <2>1, ConcatEmptySeq
  <2>3. ~OpenIn(ws)
    <3>1. OpenIn(ws) => Items[ws[n].of].size > 0
      BY DEF OpenIn
    <3> QED BY <1>4, <1>7, <3>1
  <2>4. EndIn(ws) = EndOf(L, Len(L))
    BY <2>3 DEF EndIn
  <2> QED BY <1>2, <1>5, <2>2, <2>4 DEF a
<1>8. CASE Items[i].size # 0
  <2>1. Items[i].size > 0 /\ Octets(i) # << >>
    BY <1>6, <1>8, EmptySeq
  <2>2. j = n
    <3>1. CASE j # n
      <4> DEFINE k == j + 1
      <4>1. j \in 1..(n - 1) /\ k \in DOMAIN ws /\ k # j
        BY <1>3, <3>1
      <4>2. ws[j].part = "line" /\ ws[j].of = i
        OBVIOUS
      <4>3. ws[k].of # ws[j].of
        BY <4>1, <4>2
      <4> QED BY <1>4, <2>1, <4>1, <4>2, <4>3 DEF TornIn
    <3> QED BY <3>1
  <2>3. ws[n].part = "line" /\ ws[n].of = i /\ ws # << >>
    <3>1. ws # << >>
      BY <1>3, EmptySeq
    <3> QED BY <2>2, <3>1
  <2>4. OpenIn(ws)
    BY <2>1, <2>3 DEF OpenIn
  <2>5. EndIn(ws) = At(i, 3)
    BY <2>3, <2>4 DEF EndIn
  <2>6. L # << >> /\ L[Len(L)] = i /\ L \in Seq(ItemIds)
    BY <2>3, LinesFacts DEF LastLineIn
  <2>7. EndOf(L, Len(L)) = At(i, Whole(i))
    <3> HIDE DEF L
    <3>1. Len(L) # 0
      BY <2>6, EmptySeq
    <3> QED BY <2>6, <3>1 DEF EndOf
  <2> HIDE DEF L
  <2> DEFINE Q == Octets(i)
             c == LastOr(b, P)
  <2>8. c = At(i, 3)
    BY <2>5 DEF L
  <2>9. Follows(L, c, At(i, 4))
    <3>1. 3 \in 1..(Whole(i) - 1) /\ 3 + 1 = 4
      BY <1>6, <2>1
    <3> QED BY <2>8, <3>1 DEF Follows
  <2>10. Q \in Seq(Byte) /\ 4 + Len(Q) <= Whole(i) + 1 /\ Q # << >> /\ (4 + Len(Q)) - 1 = Whole(i)
    BY <1>6, <2>1, SMTT(30)
  <2>11. \A k \in 1..Len(Q) : Q[k] = At(i, (4 + k) - 1)
    <3>1. ASSUME NEW k \in 1..Len(Q) PROVE Q[k] = At(i, (4 + k) - 1)
      <4>1. (4 + k) - 1 = 3 + k
        BY <1>6
      <4> QED BY <1>6, <4>1
    <3> QED BY <3>1
  <2> HIDE DEF Q, c
  <2>12. Chain(L, c, Q) /\ LastOr(c, Q) = At(i, (4 + Len(Q)) - 1)
    BY <2>9, <2>10, <2>11, RunIsChain
  <2> HIDE DEF b
  <2>13. Chain(L, b, P)
    BY DEF InStep, L, b
  <2>14. Chain(L, b, P \o Q) /\ LastOr(b, P \o Q) = At(i, Whole(i))
    BY <2>10, <2>12, <2>13, ChainConcat DEF c
  <2>15. InStep(L, R, w, x, P \o Q)
    BY <2>14 DEF InStep, L, b
  <2> QED BY <1>2, <1>5, <2>7, <2>14, <2>15 DEF a, b, Q
<1> QED BY <1>7, <1>8

-----------------------------------------------------------------------------
(* The inductive invariant. *)

Pending == acc \o FlattenSeq(wire)
Queued == BytesOf(queue)

\* The reader still makes something of what comes.
Parsing == rclose = "open" \/ (rclose = "asked" /\ pumping)

\* Writes may have been lost between the two ends.
Lost == eof # "no" \/ (carrier = "socket" /\ wclose = "closed") \/ LateWrite

Phases == {"todo", "line", "octets", "sent", "swallowed", "late", "failed"}
Stages == {"open", "asked", "ending", "closed"}

Types ==
    /\ phase \in [ItemIds -> Phases]
    /\ queue \in Seq(QueuedWrite) /\ written \in Seq(WriteOf) /\ wclose \in Stages
    /\ wire \in Seq(Seq(Byte)) /\ broke \in BOOLEAN
    /\ acc \in Seq(Byte) /\ want \in Nat /\ pumping \in BOOLEAN
    /\ expecting \in ItemIds \cup {NoItem}
    /\ rclose \in Stages /\ said \in BOOLEAN /\ log \in Seq(Entry)

\* An item is written once, its line first.
WrittenOnce ==
    /\ \A k \in DOMAIN written : phase[written[k].of] # "todo"
    /\ \A i \in ItemIds : phase[i] = "line" =>
          \E k \in DOMAIN written : /\ written[k] = [of |-> i, part |-> "line"]
                                    /\ \A j \in DOMAIN written : written[j].of = i => j = k

LinesOnce ==
    /\ Ordered(LinesOf(written))
    /\ \A k \in 1..Len(LinesOf(written)) : phase[LinesOf(written)[k]] # "todo"
    /\ LastLineIn(written)

\* The queue holds whole writes, and is dropped with a socket.
QueueWhole ==
    /\ \A k \in DOMAIN queue : queue[k].bytes \in {Line(queue[k].of), Octets(queue[k].of)}
    /\ carrier = "socket" /\ wclose = "closed" /\ eof = "no" => queue = << >>

\* A write after the end of a fifo's file has left nothing in its queue, for good.
LateDrops == LateWrite => carrier = "fifo" /\ wclose \in {"ending", "closed"} /\ queue = << >>

\* Until the medium breaks, what it has taken ends with a whole write.
NoCut == ~broke => LastOr(Origin, Pending).kind # "text"

\* A reader at rest has no line left, and is not at rest while its files are closed.
Rested ==
    /\ rclose = "open" /\ ~pumping /\ want = 0 => \A k \in DOMAIN acc : ~IsNewline(acc[k])
    /\ pumping => rclose # "ending"

\* All that was written is underway, or read.
AllThere ==
    /\ InStep(LinesOf(written), ReadsOf(log), want, expecting, Pending \o Queued)
    /\ LastOr(Prev(LinesOf(written), ReadsOf(log), want), Pending \o Queued) = EndIn(written)

Kept ==
    /\ InStep(LinesOf(written), ReadsOf(log), want, expecting, Pending)
    /\ Lost \/ AllThere

ReadSoFar ==
    \/ Matches(LinesOf(written), ReadsOf(log))
    \/ /\ broke /\ said
       /\ Last(ReadsOf(log)) = Bad
       /\ Matches(LinesOf(written), Front(ReadsOf(log)))

Reading == TornIn(written) \/ (Parsing /\ Kept) \/ (~Parsing /\ ReadSoFar)

IInv == Types /\ WrittenOnce /\ LinesOnce /\ QueueWhole /\ LateDrops /\ NoCut /\ Rested /\ Reading

-----------------------------------------------------------------------------
(* What the reader finds. *)

LEMMA LeastExists ==
    ASSUME NEW T \in SUBSET Nat, NEW x \in T
    PROVE  \E k \in T : \A j \in T : k <= j
<1> SUFFICES ASSUME \A k \in T : \E j \in T : j < k PROVE FALSE
  <2>1. ASSUME \A k \in T : \E j \in T : j < k PROVE FALSE
    BY <2>1
  <2>2. \E k \in T : \A j \in T : ~(j < k)
    BY <2>1
  <2> QED BY <2>2
<1> DEFINE U == {n \in Nat : \A k \in Nat : k <= n => k \notin T}
<1>1. 0 \in U
  <2>1. 0 \notin T
    <3>1. ASSUME 0 \in T PROVE FALSE
      <4>1. PICK j \in T : j < 0
        BY <3>1
      <4> QED BY <4>1
    <3> QED BY <3>1
  <2> QED BY <2>1
<1>2. ASSUME NEW n \in Nat, n \in U PROVE n + 1 \in U
  <2>1. n + 1 \notin T
    <3>1. ASSUME n + 1 \in T PROVE FALSE
      <4>1. PICK j \in T : j < n + 1
        BY <3>1
      <4>2. j \in Nat /\ j <= n
        BY <4>1
      <4> QED BY <1>2, <4>1, <4>2
    <3> QED BY <3>1
  <2>2. ASSUME NEW k \in Nat, k <= n + 1 PROVE k \notin T
    <3>1. k <= n \/ k = n + 1
      BY <2>2
    <3> QED BY <1>2, <2>1, <3>1
  <2> QED BY <2>2
<1> HIDE DEF U
<1>3. Nat \subseteq U
  BY <1>1, <1>2, Induction
<1>4. x \in Nat /\ x \in U
  BY <1>3
<1> QED BY <1>4 DEF U

LEMMA FirstNewlineFacts ==
    ASSUME acc \in Seq(Byte), HasLine
    PROVE  /\ FirstNewline \in 1..Len(acc) /\ IsNewline(acc[FirstNewline])
           /\ \A j \in 1..(FirstNewline - 1) : ~IsNewline(acc[j])
<1> DEFINE T == {k \in DOMAIN acc : IsNewline(acc[k])}
<1>1. DOMAIN acc = 1..Len(acc) /\ Len(acc) \in Nat
  OBVIOUS
<1>2. T \in SUBSET Nat /\ \E x \in T : TRUE
  BY <1>1 DEF HasLine
<1>3. PICK k \in T : \A j \in T : k <= j
  BY <1>2, LeastExists
<1>4. k \in DOMAIN acc /\ IsNewline(acc[k]) /\ \A j \in 1..(k - 1) : ~IsNewline(acc[j])
  <2>1. k \in 1..Len(acc) /\ IsNewline(acc[k])
    BY <1>1, <1>3
  <2>2. ASSUME NEW j \in 1..(k - 1) PROVE ~IsNewline(acc[j])
    <3>1. j \in DOMAIN acc /\ ~(k <= j)
      BY <1>1, <2>1
    <3> QED BY <1>3, <3>1
  <2> QED BY <1>1, <2>1, <2>2
<1>5. FirstNewline \in DOMAIN acc /\ IsNewline(acc[FirstNewline])
      /\ \A j \in 1..(FirstNewline - 1) : ~IsNewline(acc[j])
  BY <1>4 DEF FirstNewline
<1> QED BY <1>1, <1>5

LEMMA ReadFrameFacts ==
    /\ \A line : /\ ReadFrame(line) \in ItemIds \cup {NoItem}
                 /\ ReadFrame(line) # NoItem => ReadFrame(line) \in ItemIds /\ line = Text(ReadFrame(line))
    /\ \A i \in ItemIds : ReadFrame(Text(i)) = i
<1>1. ASSUME NEW i \in ItemIds PROVE Text(i)[1].of = i /\ i # NoItem
  BY ItemFacts DEF Text
<1>2. ASSUME NEW line
      PROVE  /\ ReadFrame(line) \in ItemIds \cup {NoItem}
             /\ ReadFrame(line) # NoItem => ReadFrame(line) \in ItemIds /\ line = Text(ReadFrame(line))
  <2>1. CASE \E i \in ItemIds : line = Text(i)
    <3>1. PICK i \in ItemIds : line = Text(i)
      BY <2>1
    <3>2. ReadFrame(line) = i
      BY <1>1, <3>1 DEF ReadFrame
    <3> QED BY <3>1, <3>2
  <2>2. CASE ~\E i \in ItemIds : line = Text(i)
    BY <2>2 DEF ReadFrame
  <2> QED BY <2>1, <2>2
<1>3. ASSUME NEW i \in ItemIds PROVE ReadFrame(Text(i)) = i
  BY <1>1 DEF ReadFrame
<1> QED BY <1>2, <1>3

\* A handler leaves the channel as it was, or closes an open one.
LEMMA HandledFacts ==
    ASSUME Types, Handled
    PROVE  rclose' \in Stages /\ (rclose' = rclose \/ (rclose = "open" /\ rclose' \in {"asked", "closed"}))
BY DEF Types, Handled, CloseAsked, Stages

\* What becomes of the first line.
LEMMA LineTaken ==
    ASSUME NEW line, OnLine(line)
    PROVE  LET i == ReadFrame(line) IN
           \/ /\ i \in ItemIds /\ IsSegment(i) /\ Items[i].size > 0
              /\ want' = Items[i].size /\ expecting' = i /\ UNCHANGED <<log, rclose>>
           \/ /\ i \in ItemIds /\ IsSegment(i) /\ Items[i].size = 0
              /\ want' = 0 /\ expecting' = NoItem /\ log' = Append(log, SegmentOf(i, << >>)) /\ Handled
           \/ /\ i \in ItemIds /\ ~IsSegment(i)
              /\ UNCHANGED <<want, expecting>> /\ log' = Append(log, FrameOf(i)) /\ Handled
           \/ /\ i = NoItem
              /\ UNCHANGED <<want, expecting>> /\ log' = Append(log, Bad) /\ Handled
<1> DEFINE i == ReadFrame(line)
<1>1. i # NoItem => i \in ItemIds
  BY ReadFrameFacts
<1>2. i # NoItem /\ IsSegment(i) => Items[i].size \in Nat
  BY <1>1, ItemFacts
<1> HIDE DEF i
<1>3. CASE i # NoItem /\ IsSegment(i)
  <2>1. CASE Items[i].size = 0
    BY <1>1, <1>3, <2>1 DEF OnLine, OnBytes, Heard, i
  <2>2. CASE Items[i].size # 0
    BY <1>1, <1>2, <1>3, <2>2 DEF OnLine, i
  <2> QED BY <2>1, <2>2
<1>4. CASE i # NoItem /\ ~IsSegment(i)
  BY <1>1, <1>4 DEF OnLine, Heard, i
<1>5. CASE i = NoItem
  BY <1>5 DEF OnLine, Heard, i
<1> QED BY <1>3, <1>4, <1>5 DEF i

-----------------------------------------------------------------------------
(* Types. *)

LEMMA InitTypes == Init => Types
<1> SUFFICES ASSUME Init PROVE Types
  OBVIOUS
<1>1. \A S : << >> \in Seq(S)
  BY EmptySeq
<1>2. phase \in [ItemIds -> Phases]
  BY DEF Init, Phases
<1> QED BY <1>1, <1>2 DEF Init, Types, Stages

\* The send of an item goes on to some other phase, or nothing is written.
LEMMA WriteTypes ==
    ASSUME Types, NEW i \in ItemIds, NEW part \in {"line", "octets"}, NEW bytes \in Seq(Byte),
           Write(i, part, bytes)
    PROVE  /\ phase' \in [ItemIds -> Phases] /\ queue' \in Seq(QueuedWrite) /\ written' \in Seq(WriteOf)
           /\ phase'[i] # "todo" /\ \A j \in ItemIds : j # i => phase'[j] = phase[j]
<1> DEFINE q == [of |-> i, bytes |-> bytes]
           w == [of |-> i, part |-> part]
<1>1. q \in QueuedWrite /\ w \in WriteOf
  BY DEF QueuedWrite, WriteOf
<1> HIDE DEF q, w
<1>2. Append(queue, q) \in Seq(QueuedWrite) /\ Append(written, w) \in Seq(WriteOf)
  BY <1>1, AppendProperties DEF Types
<1>3. CASE Takes
  BY <1>2, <1>3 DEF Write, Types, Phases, q, w
<1>4. CASE ~Takes
  <2>1. Refused \in {"failed", "swallowed", "late"}
    BY DEF Refused
  <2>2. phase' = [phase EXCEPT ![i] = Refused] /\ written' = written
    BY <1>4 DEF Write
  <2>3. queue' = queue \/ queue' = << >>
    BY <1>4 DEF Write
  <2>4. << >> \in Seq(QueuedWrite)
    BY EmptySeq
  <2> QED BY <2>1, <2>2, <2>3, <2>4 DEF Types, Phases
<1> QED BY <1>3, <1>4

LEMMA DropTypes ==
    ASSUME Types, NEW outcome \in {"swallowed", "failed"}, DropQueue(outcome)
    PROVE  /\ phase' \in [ItemIds -> Phases] /\ queue' = << >> /\ queue' \in Seq(QueuedWrite)
           /\ \A i \in ItemIds : phase'[i] = phase[i] \/ phase'[i] = outcome
<1>1. << >> \in Seq(QueuedWrite)
  BY EmptySeq
<1>2. \A i \in ItemIds : phase'[i] = IF Settled(i) THEN phase[i] ELSE outcome
  BY DEF DropQueue
<1>3. phase' = [i \in ItemIds |-> IF Settled(i) THEN phase[i] ELSE outcome]
  BY DEF DropQueue
<1>4. \A i \in ItemIds : (IF Settled(i) THEN phase[i] ELSE outcome) \in Phases
  BY DEF Types, Phases
<1>5. phase' \in [ItemIds -> Phases]
  BY ONLY <1>3, <1>4, Zenon
<1>6. \A i \in ItemIds : phase'[i] = phase[i] \/ phase'[i] = outcome
  BY <1>2
<1> QED BY <1>1, <1>5, <1>6 DEF DropQueue

\* What is left of the wire when it breaks is the front of what was on it.
LEMMA WireFacts ==
    ASSUME Types
    PROVE  /\ FlattenSeq(wire) \in Seq(Byte) /\ Len(FlattenSeq(wire)) \in Nat
           /\ \A s \in Seq(Byte) : <<s>> \in Seq(Seq(Byte)) /\ FlattenSeq(<<s>>) = s
           /\ << >> \in Seq(Seq(Byte)) /\ FlattenSeq(<< >>) = << >>
<1>1. FlattenSeq(wire) \in Seq(Byte) /\ FlattenSeq(<< >>) = << >>
  BY FlatFacts DEF Types
<1>2. ASSUME NEW s \in Seq(Byte) PROVE <<s>> \in Seq(Seq(Byte)) /\ FlattenSeq(<<s>>) = s
  <2> DEFINE X == Seq(Byte)
  <2>1. << >> \in Seq(X) /\ s \in X
    BY EmptySeq
  <2>2. <<s>> \in Seq(X)
    BY <2>1
  <2>3. Append(<< >>, s) = <<s>>
    OBVIOUS
  <2>4. FlattenSeq(Append(<< >>, s)) = FlattenSeq(<< >>) \o s
    BY <2>1, FlatAppend
  <2>5. << >> \o s = s
    BY ConcatEmptySeq
  <2> QED BY <1>1, <2>2, <2>3, <2>4, <2>5
<1>3. << >> \in Seq(Seq(Byte))
  BY EmptySeq
<1>4. Len(FlattenSeq(wire)) \in Nat
  BY <1>1, LenProperties
<1> QED BY <1>1, <1>2, <1>3, <1>4

LEMMA BreakTypes ==
    ASSUME Types, Break
    PROVE  /\ Types' /\ queue' = << >> /\ broke' = TRUE /\ eof' \in {"close", "error"}
           /\ \A i \in ItemIds : phase'[i] \notin {"todo", "line"} \/ phase'[i] = phase[i]
           /\ \E n \in 0..Len(FlattenSeq(wire)) : FlattenSeq(wire') = SubSeq(FlattenSeq(wire), 1, n)
           /\ UNCHANGED <<carrier, written, readerVars>>
<1> DEFINE bytes == FlattenSeq(wire)
<1>1. bytes \in Seq(Byte) /\ Len(bytes) \in Nat
  BY WireFacts
<1>2. PICK n \in 0..Len(bytes) : wire' = IF n = 0 THEN << >> ELSE <<SubSeq(bytes, 1, n)>>
  BY DEF Break
<1> HIDE DEF bytes
<1>3. SubSeq(bytes, 1, n) \in Seq(Byte) /\ (n = 0 => SubSeq(bytes, 1, n) = << >>)
  <2>1. SubSeq(bytes, 1, n) \in Seq(Byte) /\ Len(SubSeq(bytes, 1, n)) = n
    BY <1>1, <1>2, Cut
  <2> QED BY <2>1, EmptySeq
<1>4. wire' \in Seq(Seq(Byte)) /\ FlattenSeq(wire') = SubSeq(bytes, 1, n)
  BY <1>2, <1>3, WireFacts
<1>5. PICK outcome \in {"swallowed", "failed"} : DropQueue(outcome)
  BY DEF Break
<1>6. /\ phase' \in [ItemIds -> Phases] /\ queue' = << >> /\ queue' \in Seq(QueuedWrite)
      /\ \A i \in ItemIds : phase'[i] = phase[i] \/ phase'[i] = outcome
  BY <1>5, DropTypes
<1>7. \A i \in ItemIds : phase'[i] \notin {"todo", "line"} \/ phase'[i] = phase[i]
  BY <1>5, <1>6
<1>8. wclose' \in Stages
  BY DEF Types, Break, CloseAsked, Stages
<1>9. broke' = TRUE /\ eof' \in {"close", "error"} /\ UNCHANGED <<carrier, written, readerVars>>
  BY DEF Break
<1>10. Types'
  BY <1>4, <1>6, <1>8, <1>9 DEF Types, readerVars
<1>11. \E k \in 0..Len(FlattenSeq(wire)) : FlattenSeq(wire') = SubSeq(FlattenSeq(wire), 1, k)
  BY <1>2, <1>4 DEF bytes
<1> QED BY <1>6, <1>7, <1>9, <1>10, <1>11

\* A chunk moves from the wire to the reader, and nothing else of it.
LEMMA FeedFacts ==
    ASSUME Types, Feed
    PROVE  /\ Types' /\ Pending' = Pending
           /\ rclose = "open" /\ ~pumping /\ pumping'
           /\ UNCHANGED <<carrier, writerVars, eof, broke, want, expecting, rclose, left, said, log>>
<1> DEFINE bytes == FlattenSeq(wire)
<1>1. bytes \in Seq(Byte) /\ Len(bytes) \in Nat /\ acc \in Seq(Byte) /\ wire \in Seq(Seq(Byte)) /\ wire # << >>
  BY WireFacts DEF Feed, Types
<1>2. PICK n \in ChunkSizes :
         /\ acc' = acc \o SubSeq(bytes, 1, n)
         /\ wire' = IF carrier = "websocket" THEN Tail(wire)
                    ELSE IF n = Len(bytes) THEN << >> ELSE <<SubSeq(bytes, n + 1, Len(bytes))>>
  BY DEF Feed
<1>3. /\ n \in 0..Len(bytes) /\ wire' \in Seq(Seq(Byte))
      /\ bytes = SubSeq(bytes, 1, n) \o FlattenSeq(wire')
  <2>1. CASE carrier = "websocket"
    <3> DEFINE h == Head(wire)
               rest == FlattenSeq(Tail(wire))
    <3>1. h \in Seq(Byte) /\ Tail(wire) \in Seq(Seq(Byte))
      BY <1>1, HeadTailProperties
    <3>2. rest \in Seq(Byte) /\ bytes = h \o rest
      BY <1>1, <3>1, FlatFacts, FlatHead
    <3>3. n = Len(h) /\ wire' = Tail(wire)
      BY <1>2, <2>1 DEF ChunkSizes
    <3> HIDE DEF h, rest, bytes
    <3>4. /\ Len(h) \in Nat /\ Len(rest) \in Nat /\ Len(bytes) = Len(h) + Len(rest)
          /\ \A k \in 1..Len(h) : bytes[k] = h[k]
      BY <3>1, <3>2, ConcatProperties
    <3>5. n \in 0..Len(bytes)
      BY <3>3, <3>4
    <3>6. SubSeq(bytes, 1, n) = h
      <4>1. /\ SubSeq(bytes, 1, n) \in Seq(Byte) /\ Len(SubSeq(bytes, 1, n)) = n
            /\ \A k \in 1..n : SubSeq(bytes, 1, n)[k] = bytes[k]
        BY <1>1, <3>5, Cut
      <4> QED BY <3>1, <3>3, <3>4, <4>1, SeqEqual
    <3> QED BY <3>1, <3>2, <3>3, <3>5, <3>6 DEF rest
  <2>2. CASE carrier # "websocket"
    <3>1. n \in 1..Len(bytes)
      BY <1>2, <2>2 DEF ChunkSizes
    <3> HIDE DEF bytes
    <3>2. n \in 0..Len(bytes) /\ SubSeq(bytes, n + 1, Len(bytes)) \in Seq(Byte)
          /\ bytes = SubSeq(bytes, 1, n) \o SubSeq(bytes, n + 1, Len(bytes))
      BY <1>1, <3>1, Cut
    <3>3. n = Len(bytes) => SubSeq(bytes, n + 1, Len(bytes)) = << >>
      BY <1>1, SubSeqEmpty
    <3>4. wire' \in Seq(Seq(Byte)) /\ FlattenSeq(wire') = SubSeq(bytes, n + 1, Len(bytes))
      <4>1. CASE n = Len(bytes)
        BY <1>2, <2>2, <3>3, <4>1, WireFacts
      <4>2. CASE n # Len(bytes)
        BY <1>2, <2>2, <3>2, <4>2, WireFacts
      <4> QED BY <4>1, <4>2
    <3> QED BY <3>2, <3>4
  <2> QED BY <2>1, <2>2
<1> HIDE DEF bytes
<1>4. SubSeq(bytes, 1, n) \in Seq(Byte) /\ FlattenSeq(wire') \in Seq(Byte)
  BY <1>1, <1>3, Cut, FlatFacts
<1>5. acc' \in Seq(Byte) /\ acc' \o FlattenSeq(wire') = acc \o bytes
  <2> DEFINE s == SubSeq(bytes, 1, n)
             u == FlattenSeq(wire')
  <2>1. s \in Seq(Byte) /\ u \in Seq(Byte) /\ bytes = s \o u /\ acc' = acc \o s
    BY <1>2, <1>3, <1>4
  <2> HIDE DEF s, u
  <2>0. acc \in Seq(Byte) /\ s \in Seq(Byte) /\ u \in Seq(Byte)
    BY <1>1, <2>1
  <2>2. (acc \o s) \o u = acc \o (s \o u)
    BY ONLY <2>0, BytesAssociate
  <2>3. acc \o s \in Seq(Byte)
    BY ONLY <2>0, ConcatProperties
  <2> QED BY <2>1, <2>2, <2>3 DEF u
<1>6. Pending' = Pending
  BY <1>5 DEF Pending, bytes
<1>7. /\ rclose = "open" /\ ~pumping /\ pumping'
      /\ UNCHANGED <<carrier, writerVars, eof, broke, want, expecting, rclose, left, said, log>>
  BY DEF Feed
<1>8. Types'
  BY <1>3, <1>5, <1>7 DEF Feed, Types, writerVars
<1> QED BY <1>6, <1>7, <1>8

LEMMA PumpOctetsTypes == Types /\ PumpOctets => Types'
<1> SUFFICES ASSUME Types, PumpOctets PROVE Types'
  OBVIOUS
<1>1. /\ want \in 0..Len(acc) /\ acc \in Seq(Byte) /\ acc' = SubSeq(acc, want + 1, Len(acc)) /\ want' = 0
      /\ UNCHANGED <<carrier, writerVars, mediumVars, pumping, said>>
  BY DEF PumpOctets, HasOctets, Types
<1>2. acc' \in Seq(Byte) /\ SubSeq(acc, 1, want) \in Seq(Byte)
  BY <1>1, Cut
<1>3. expecting' \in ItemIds \cup {NoItem} /\ log' \in Seq(Entry) /\ rclose' \in Stages
  <2>1. CASE rclose = "closed"
    BY <2>1 DEF PumpOctets, Unheard, Types
  <2>2. CASE rclose # "closed"
    <3> DEFINE octets == SubSeq(acc, 1, want)
               e == IF expecting = NoItem THEN Bad ELSE SegmentOf(expecting, octets)
    <3>1. expecting' = NoItem /\ log' = Append(log, e) /\ Handled
      BY <2>2 DEF PumpOctets, OnBytes, Heard
    <3>2. e \in Entry
      <4>1. Bad \in Entry
        BY EmptySeq DEF Bad, Entry
      <4>2. expecting # NoItem => expecting \in ItemIds
        BY DEF Types
      <4> QED BY <1>2, <4>1, <4>2, EntryFacts
    <3> HIDE DEF e
    <3> QED BY <3>1, <3>2, HandledFacts, AppendProperties DEF Types
  <2> QED BY <2>1, <2>2
<1> QED BY <1>1, <1>2, <1>3 DEF Types, writerVars, mediumVars

LEMMA PumpLineTypes == Types /\ PumpLine => Types'
<1> SUFFICES ASSUME Types, PumpLine PROVE Types'
  OBVIOUS
<1>1. /\ acc \in Seq(Byte) /\ acc' = SubSeq(acc, FirstNewline + 1, Len(acc)) /\ FirstNewline \in 0..Len(acc)
      /\ UNCHANGED <<carrier, writerVars, mediumVars, pumping, said>>
  <2>1. FirstNewline \in 1..Len(acc)
    BY FirstNewlineFacts DEF PumpLine, Types
  <2>2. Len(acc) \in Nat
    BY LenProperties DEF Types
  <2>3. FirstNewline \in 0..Len(acc)
    BY <2>1, <2>2
  <2> QED BY <2>3 DEF PumpLine, Types
<1>2. acc' \in Seq(Byte)
  BY <1>1, Cut
<1>3. want' \in Nat /\ expecting' \in ItemIds \cup {NoItem} /\ log' \in Seq(Entry) /\ rclose' \in Stages
  <2>1. CASE rclose = "closed"
    BY <2>1 DEF PumpLine, Unheard, Types
  <2>2. CASE rclose # "closed"
    <3> DEFINE line == SubSeq(acc, 1, FirstNewline - 1)
    <3>1. OnLine(line)
      BY <2>2 DEF PumpLine
    <3> HIDE DEF line
    <3> DEFINE i == ReadFrame(line)
    <3>2. \/ /\ i \in ItemIds /\ IsSegment(i) /\ Items[i].size > 0
             /\ want' = Items[i].size /\ expecting' = i /\ UNCHANGED <<log, rclose>>
          \/ /\ i \in ItemIds /\ want' = 0 /\ expecting' = NoItem
             /\ log' = Append(log, SegmentOf(i, << >>)) /\ Handled
          \/ /\ i \in ItemIds /\ UNCHANGED <<want, expecting>> /\ log' = Append(log, FrameOf(i)) /\ Handled
          \/ /\ UNCHANGED <<want, expecting>> /\ log' = Append(log, Bad) /\ Handled
      BY <3>1, LineTaken
    <3> HIDE DEF i
    <3>3. Bad \in Entry /\ << >> \in Seq(Byte)
      BY EmptySeq DEF Bad, Entry
    <3>4. log \in Seq(Entry) /\ want \in Nat /\ expecting \in ItemIds \cup {NoItem} /\ rclose \in Stages
      BY DEF Types
    <3>5. CASE /\ i \in ItemIds /\ IsSegment(i)
               /\ want' = Items[i].size /\ expecting' = i /\ UNCHANGED <<log, rclose>>
      BY <3>4, <3>5, ItemFacts
    <3>6. ASSUME NEW e \in Entry, log' = Append(log, e), Handled,
                 want' \in Nat, expecting' \in ItemIds \cup {NoItem}
          PROVE  /\ want' \in Nat /\ expecting' \in ItemIds \cup {NoItem}
                 /\ log' \in Seq(Entry) /\ rclose' \in Stages
      BY <3>4, <3>6, HandledFacts, AppendProperties
    <3>7. CASE /\ i \in ItemIds /\ want' = 0 /\ expecting' = NoItem
               /\ log' = Append(log, SegmentOf(i, << >>)) /\ Handled
      <4>1. SegmentOf(i, << >>) \in Entry
        BY <3>3, <3>7, EntryFacts
      <4> QED BY <3>6, <3>7, <4>1
    <3>8. CASE /\ i \in ItemIds /\ UNCHANGED <<want, expecting>>
               /\ log' = Append(log, FrameOf(i)) /\ Handled
      <4>1. FrameOf(i) \in Entry
        BY <3>8, EntryFacts
      <4> QED BY <3>4, <3>6, <3>8, <4>1
    <3>9. CASE UNCHANGED <<want, expecting>> /\ log' = Append(log, Bad) /\ Handled
      BY <3>3, <3>4, <3>6, <3>9
    <3> QED BY <3>2, <3>5, <3>7, <3>8, <3>9
  <2> QED BY <2>1, <2>2
<1> QED BY <1>1, <1>2, <1>3 DEF Types, writerVars, mediumVars

\* The news of the end leaves what was read alone.
LEMMA SaidFacts ==
    ASSUME NEW heard \in Seq(Entry), SayClosed(heard)
    PROVE  said' = TRUE /\ log' \in Seq(Entry) /\ ReadsOf(log') = ReadsOf(heard)
<1>1. Closed \in Entry /\ Closed.kind = "closed"
  BY EmptySeq DEF Closed, Entry
<1>2. Append(heard, Closed) \in Seq(Entry) /\ ReadsOf(Append(heard, Closed)) = ReadsOf(heard)
  BY <1>1, ReadsFacts, AppendProperties
<1> QED BY <1>2 DEF SayClosed

\* The end of the medium gives the reader's rest to the handlers, at most one entry.
LEMMA EofFacts ==
    ASSUME Types, ReaderEof
    PROVE  /\ Types' /\ acc' = << >> /\ rclose' # "open" /\ said' = TRUE /\ wire = << >> /\ rclose = "open" /\ ~pumping
           /\ UNCHANGED <<carrier, writerVars, mediumVars, want, pumping, expecting>>
           /\ \/ ReadsOf(log') = ReadsOf(log)
              \/ /\ acc # << >> /\ want = 0 /\ ReadFrame(acc) = NoItem
                 /\ ReadsOf(log') = Append(ReadsOf(log), Bad)
              \/ /\ acc # << >> /\ want = 0 /\ ReadFrame(acc) # NoItem /\ ~IsSegment(ReadFrame(acc))
                 /\ ReadsOf(log') = Append(ReadsOf(log), FrameOf(ReadFrame(acc)))
<1>1. SayClosed(log \o LastLine) /\ acc' = << >> /\ rclose' = CloseAsked /\ wire = << >> /\ rclose = "open" /\ ~pumping
      /\ UNCHANGED <<carrier, writerVars, mediumVars, want, pumping, expecting, left>>
  BY DEF ReaderEof
<1>2. log \in Seq(Entry) /\ want \in Nat
  BY DEF Types
<1>3. Bad \in Entry /\ Bad.kind # "closed"
  BY EmptySeq DEF Bad, Entry
<1> DEFINE i == ReadFrame(acc)
<1>4. \/ log \o LastLine = log
      \/ acc # << >> /\ want = 0 /\ i = NoItem /\ log \o LastLine = Append(log, Bad)
      \/ acc # << >> /\ want = 0 /\ i # NoItem /\ ~IsSegment(i) /\ log \o LastLine = Append(log, FrameOf(i))
  <2>0. log \o << >> = log /\ \A e \in Entry : log \o <<e>> = Append(log, e)
    BY <1>2, ConcatEmptySeq, AppendIsConcat
  <2>1. CASE carrier = "websocket" \/ acc = << >> \/ want > 0
    BY <2>0, <2>1 DEF LastLine
  <2>2. CASE ~(carrier = "websocket" \/ acc = << >> \/ want > 0)
    <3>1. acc # << >> /\ want = 0
      BY <1>2, <2>2
    <3>2. LastLine = IF i = NoItem THEN <<Bad>> ELSE IF ~IsSegment(i) THEN <<FrameOf(i)>> ELSE << >>
      BY <2>2 DEF LastLine
    <3>3. i # NoItem => FrameOf(i) \in Entry
      BY ReadFrameFacts, EntryFacts
    <3> HIDE DEF i
    <3> QED BY <1>3, <2>0, <3>1, <3>2, <3>3
  <2> QED BY <2>1, <2>2
<1>5. i # NoItem => FrameOf(i) \in Entry /\ FrameOf(i).kind # "closed"
  <2>1. i # NoItem => FrameOf(i) \in Entry
    BY ReadFrameFacts, EntryFacts
  <2> QED BY <2>1 DEF FrameOf
<1> HIDE DEF i
<1>6. log \o LastLine \in Seq(Entry)
  <2>1. \A e \in Entry : Append(log, e) \in Seq(Entry)
    BY ONLY <1>2, AppendProperties
  <2> QED BY ONLY <1>2, <1>3, <1>4, <1>5, <2>1
<1>7. said' = TRUE /\ log' \in Seq(Entry) /\ ReadsOf(log') = ReadsOf(log \o LastLine)
  BY <1>1, <1>6, SaidFacts
<1>8. \A e \in Entry : e.kind # "closed" => ReadsOf(Append(log, e)) = Append(ReadsOf(log), e)
  BY <1>2, ReadsFacts
<1>9. \/ ReadsOf(log') = ReadsOf(log)
      \/ acc # << >> /\ want = 0 /\ i = NoItem /\ ReadsOf(log') = Append(ReadsOf(log), Bad)
      \/ acc # << >> /\ want = 0 /\ i # NoItem /\ ~IsSegment(i) /\ ReadsOf(log') = Append(ReadsOf(log), FrameOf(i))
  BY <1>3, <1>4, <1>5, <1>7, <1>8
<1>10. rclose' \in Stages /\ rclose' # "open"
  BY <1>1 DEF CloseAsked, Stages
<1>11. Types'
  <2>1. << >> \in Seq(Byte)
    BY EmptySeq
  <2> QED BY <1>1, <1>7, <1>10, <2>1 DEF Types, writerVars, mediumVars
<1> QED BY <1>1, <1>7, <1>9, <1>10, <1>11 DEF i

LEMMA TypesStep == Types /\ [Next]_vars => Types'
<1> SUFFICES ASSUME Types, [Next]_vars PROVE Types'
  OBVIOUS
<1> USE DEF Types, writerVars, mediumVars, readerVars
<1>1. CASE \E i \in ItemIds : Send(i) \/ SendOctets(i)
  <2>1. PICK i \in ItemIds : \/ Write(i, "line", Line(i)) \/ Write(i, "octets", Octets(i))
    BY <1>1 DEF Send, SendOctets
  <2>2. Line(i) \in Seq(Byte) /\ Octets(i) \in Seq(Byte) /\ UNCHANGED <<carrier, wclose, mediumVars, readerVars>>
    BY <1>1, WriteFacts DEF Send, SendOctets
  <2>3. phase' \in [ItemIds -> Phases] /\ queue' \in Seq(QueuedWrite) /\ written' \in Seq(WriteOf)
    BY <2>1, <2>2, WriteTypes
  <2> QED BY <2>2, <2>3
<1>2. CASE \E i \in ItemIds : SendSettles(i)
  BY <1>2 DEF SendSettles, Phases
<1>3. CASE Flush
  <2>1. Head(queue) \in QueuedWrite /\ Tail(queue) \in Seq(QueuedWrite)
    BY <1>3, HeadTailProperties DEF Flush
  <2>2. Append(wire, Head(queue).bytes) \in Seq(Seq(Byte))
    <3>1. Head(queue).bytes \in Seq(Byte)
      BY <2>1 DEF QueuedWrite
    <3> DEFINE X == Seq(Byte)
    <3>2. wire \in Seq(X) /\ Head(queue).bytes \in X
      BY <3>1
    <3> HIDE DEF X
    <3> QED BY <3>2, AppendProperties DEF X
  <2> QED BY <1>3, <2>1, <2>2 DEF Flush
<1>4. CASE WriterCloses
  BY <1>4 DEF WriterCloses, CloseAsked, Stages
<1>5. CASE WriterEnds
  <2>1. CASE carrier = "socket"
    BY <1>5, <2>1, DropTypes DEF WriterEnds, Stages
  <2>2. CASE carrier # "socket"
    BY <1>5, <2>2 DEF WriterEnds, Stages
  <2> QED BY <2>1, <2>2
<1>6. CASE WriterEnded
  BY <1>6 DEF WriterEnded, Stages
<1>7. CASE Break
  BY <1>7, BreakTypes
<1>8. CASE Feed
  BY <1>8, FeedFacts
<1>9. CASE PumpOctets
  BY <1>9, PumpOctetsTypes
<1>10. CASE PumpLine
  BY <1>10, PumpLineTypes
<1>11. CASE PumpRests
  BY <1>11 DEF PumpRests
<1>12. CASE ReaderEof
  BY <1>12, EofFacts
<1>13. CASE ReaderEnds
  BY <1>13, SaidFacts DEF ReaderEnds, Stages
<1>14. CASE FifoReaderEnded
  BY <1>14, SaidFacts DEF FifoReaderEnded, Stages
<1>15. CASE WebSocketClosed
  BY <1>15, SaidFacts DEF WebSocketClosed, Stages
<1>16. CASE UNCHANGED vars
  BY <1>16 DEF vars
<1> QED BY <1>1, <1>2, <1>3, <1>4, <1>5, <1>6, <1>7, <1>8, <1>9, <1>10, <1>11, <1>12, <1>13, <1>14,
           <1>15, <1>16 DEF Next, Progress

-----------------------------------------------------------------------------
(* The conjuncts of the invariant, one by one. *)

LEMMA InitInv == Init => IInv
<1> SUFFICES ASSUME Init PROVE IInv
  OBVIOUS
<1>1. Types
  BY InitTypes
<1>2. /\ written = << >> /\ log = << >> /\ queue = << >> /\ acc = << >> /\ wire = << >>
      /\ want = 0 /\ rclose = "open" /\ eof = "no" /\ wclose = "open" /\ broke = FALSE /\ ~pumping
      /\ phase = [i \in ItemIds |-> "todo"]
  BY DEF Init
<1>3. << >> \in Seq(Byte) /\ Len(<< >>) = 0 /\ << >> \in Seq(ItemIds) /\ DOMAIN << >> = {}
  <2>1. << >> \in Seq(Byte) /\ Len(<< >>) = 0 /\ << >> \in Seq(ItemIds)
    BY EmptySeq
  <2> QED BY <2>1
<1>4. LinesOf(written) = << >> /\ ReadsOf(log) = << >> /\ Queued = << >>
  BY <1>2, LinesFacts, ReadsFacts, BytesFacts DEF Queued
<1>5. Pending = << >>
  BY <1>2, <1>3, FlatFacts, ConcatEmptySeq DEF Pending
<1>6. Ordered(<< >>)
  BY <1>3 DEF Ordered
<1>7. WrittenOnce
  BY <1>2, <1>3 DEF WrittenOnce
<1>8. LinesOnce
  BY <1>2, <1>3, <1>4, <1>6 DEF LinesOnce, LastLineIn
<1>9. QueueWhole /\ LateDrops
  BY <1>2, <1>3 DEF QueueWhole, LateDrops, LateWrite
<1>10. NoCut
  BY <1>5 DEF NoCut, LastOr, Origin
<1>11. Rested
  BY <1>2, <1>3 DEF Rested
<1>12. Matches(<< >>, << >>) /\ \A b : Chain(<< >>, b, << >>)
  BY <1>3 DEF Matches, Chain
<1>13. InStep(<< >>, << >>, 0, expecting, << >>)
  BY <1>12 DEF InStep
<1>14. << >> \o << >> = << >>
  BY <1>3, ConcatEmptySeq
<1>15. ~OpenIn(<< >>)
  BY DEF OpenIn
<1>16. LastOr(Prev(<< >>, << >>, 0), << >>) = EndIn(written)
  BY <1>2, <1>4, <1>15 DEF LastOr, Prev, EndIn
<1>17. AllThere
  BY <1>2, <1>4, <1>5, <1>13, <1>14, <1>16 DEF AllThere
<1>18. Kept
  BY <1>2, <1>4, <1>5, <1>13, <1>17 DEF Kept
<1>19. Reading
  BY <1>2, <1>18 DEF Reading, Parsing
<1> QED BY <1>1, <1>7, <1>8, <1>9, <1>10, <1>11, <1>19 DEF IInv

\* A send that ends, or is dropped, writes nothing.
LEMMA WritesStay ==
    ASSUME WrittenOnce, LinesOnce, written' = written, Types,
           \A i \in ItemIds : phase'[i] \notin {"todo", "line"} \/ phase'[i] = phase[i]
    PROVE  WrittenOnce' /\ LinesOnce'
<1>1. \A k \in DOMAIN written : written[k].of \in ItemIds
  <2>1. \A k \in DOMAIN written : written[k] \in WriteOf
    BY DEF Types
  <2> QED BY <2>1 DEF WriteOf
<1>2. \A k \in DOMAIN written : phase'[written[k].of] # "todo"
  BY <1>1 DEF WrittenOnce
<1>3. \A i \in ItemIds : phase'[i] = "line" => phase[i] = "line"
  OBVIOUS
<1>4. WrittenOnce'
  BY <1>2, <1>3 DEF WrittenOnce
<1> DEFINE L == LinesOf(written)
<1>5. L' = L /\ L \in Seq(ItemIds)
  BY LinesFacts DEF Types
<1>6. \A k \in 1..Len(L) : L[k] \in ItemIds
  BY <1>5
<1>7. Ordered(L) /\ (\A k \in 1..Len(L) : phase[L[k]] # "todo") /\ LastLineIn(written)
  BY DEF LinesOnce
<1>8. \A k \in 1..Len(L) : phase'[L[k]] # "todo"
  BY <1>6, <1>7
<1>9. LastLineIn(written)'
  BY <1>7 DEF LastLineIn
<1> QED BY <1>4, <1>5, <1>7, <1>8, <1>9 DEF LinesOnce

\* The line of an item whose send begins, where it is taken.
LEMMA LineOnce ==
    ASSUME Types, WrittenOnce, LinesOnce, NEW i \in ItemIds, phase[i] = "todo",
           Takes, Write(i, "line", Line(i))
    PROVE  /\ WrittenOnce' /\ LinesOnce'
           /\ \A k \in DOMAIN written : written[k].of # i
           /\ \A k \in 1..Len(LinesOf(written)) : LinesOf(written)[k] # i
<1> DEFINE a == [of |-> i, part |-> "line"]
           L == LinesOf(written)
           n == Len(written)
<1>1. a \in WriteOf /\ a.of = i /\ a.part = "line"
  BY DEF WriteOf
<1>2. /\ \A k \in DOMAIN written : written[k].of # i
      /\ \A k \in 1..Len(L) : L[k] # i
  BY DEF WrittenOnce, LinesOnce
<1>3. written' = Append(written, a) /\ phase' = [phase EXCEPT ![i] = "line"] /\ written \in Seq(WriteOf)
  BY DEF Write, Types
<1>4. phase'[i] = "line" /\ \A j \in ItemIds : j # i => phase'[j] = phase[j]
  BY <1>3 DEF Types
<1>5. LinesOf(written') = Append(L, i)
  BY <1>3, LinesFacts
<1>6. /\ n \in Nat /\ DOMAIN written = 1..n /\ DOMAIN written' = 1..(n + 1) /\ Len(written') = n + 1
      /\ \A k \in 1..n : written'[k] = written[k] /\ written[k] \in WriteOf
      /\ written'[n + 1] = a
  BY <1>1, <1>3
<1>7. \A k \in DOMAIN written : written[k].of \in ItemIds
  BY <1>6 DEF WriteOf
<1> HIDE DEF a, n
<1>8. \A k \in DOMAIN written' : k \in DOMAIN written \/ k = n + 1
  BY <1>6
<1>9. \A k \in DOMAIN written' : phase'[written'[k].of] # "todo"
  <2>1. ASSUME NEW k \in DOMAIN written PROVE phase'[written'[k].of] # "todo"
    <3>1. written'[k].of = written[k].of /\ written[k].of \in ItemIds /\ written[k].of # i
      BY <1>2, <1>6, <1>7
    <3>2. phase[written[k].of] # "todo"
      BY DEF WrittenOnce
    <3> QED BY <1>4, <3>1, <3>2
  <2>2. phase'[written'[n + 1].of] # "todo"
    BY <1>1, <1>4, <1>6
  <2> QED BY <1>8, <2>1, <2>2
<1>10. ASSUME NEW j \in ItemIds, phase'[j] = "line"
       PROVE  \E k \in DOMAIN written' : /\ written'[k] = [of |-> j, part |-> "line"]
                                         /\ \A m \in DOMAIN written' : written'[m].of = j => m = k
  <2>1. CASE j = i
    <3>1. n + 1 \in DOMAIN written' /\ written'[n + 1] = [of |-> j, part |-> "line"]
      BY <1>6, <2>1 DEF a
    <3>2. \A m \in DOMAIN written' : written'[m].of = j => m = n + 1
      BY <1>2, <1>6, <1>8, <2>1
    <3> QED BY <3>1, <3>2
  <2>2. CASE j # i
    <3>1. phase[j] = "line"
      BY <1>4, <1>10, <2>2
    <3>2. PICK k \in DOMAIN written : /\ written[k] = [of |-> j, part |-> "line"]
                                      /\ \A m \in DOMAIN written : written[m].of = j => m = k
      BY <3>1 DEF WrittenOnce
    <3>3. k \in DOMAIN written' /\ written'[k] = [of |-> j, part |-> "line"]
      BY <1>6, <3>2
    <3>4. \A m \in DOMAIN written' : written'[m].of = j => m = k
      BY <1>1, <1>6, <1>8, <2>2, <3>2
    <3> QED BY <3>3, <3>4
  <2> QED BY <2>1, <2>2
<1>11. WrittenOnce'
  BY <1>9, <1>10 DEF WrittenOnce
<1>12. L \in Seq(ItemIds) /\ Ordered(L) /\ \A k \in 1..Len(L) : phase[L[k]] # "todo"
  BY LinesFacts DEF LinesOnce, Types
<1> HIDE DEF L
<1> DEFINE M == Append(L, i)
<1>13. Ordered(M)
  BY <1>2, <1>12, OrderGrows
<1>14. /\ Len(L) \in Nat /\ Len(M) = Len(L) + 1 /\ M[Len(L) + 1] = i
       /\ \A k \in 1..Len(L) : M[k] = L[k] /\ L[k] \in ItemIds
  BY <1>12
<1> HIDE DEF M
<1>15. \A k \in 1..Len(M) : phase'[M[k]] # "todo"
  <2>1. ASSUME NEW k \in 1..Len(M) PROVE phase'[M[k]] # "todo"
    <3>1. k \in 1..Len(L) \/ k = Len(L) + 1
      BY <1>14
    <3> QED BY <1>2, <1>4, <1>12, <1>14, <3>1
  <2> QED BY <2>1
<1>16. M # << >>
  BY <1>14, EmptySeq
<1>17. LinesOf(written)' = M
  BY <1>5 DEF M
<1>18. LastLineIn(written)'
  BY <1>1, <1>6, <1>14, <1>16, <1>17 DEF LastLineIn
<1>19. LinesOnce'
  BY <1>13, <1>15, <1>17, <1>18 DEF LinesOnce
<1> QED BY <1>2, <1>11, <1>19 DEF L

\* The octets of an item whose line was taken.
LEMMA OctetsOnce ==
    ASSUME Types, WrittenOnce, LinesOnce, NEW i \in ItemIds, phase[i] = "line",
           Takes, Write(i, "octets", Octets(i))
    PROVE  WrittenOnce' /\ LinesOnce'
<1> DEFINE a == [of |-> i, part |-> "octets"]
           L == LinesOf(written)
           n == Len(written)
<1>1. a \in WriteOf /\ a.of = i /\ a.part # "line"
  BY DEF WriteOf
<1>2. written' = Append(written, a) /\ phase' = [phase EXCEPT ![i] = "octets"] /\ written \in Seq(WriteOf)
  BY DEF Write, Types
<1>3. phase'[i] = "octets" /\ \A j \in ItemIds : j # i => phase'[j] = phase[j]
  BY <1>2 DEF Types
<1>4. LinesOf(written') = L
  BY <1>2, LinesFacts
<1>5. /\ n \in Nat /\ DOMAIN written = 1..n /\ DOMAIN written' = 1..(n + 1) /\ Len(written') = n + 1
      /\ \A k \in 1..n : written'[k] = written[k] /\ written[k] \in WriteOf
      /\ written'[n + 1] = a
  BY <1>1, <1>2
<1>6. \A k \in DOMAIN written : written[k].of \in ItemIds
  BY <1>5 DEF WriteOf
<1> HIDE DEF a, n
<1>7. \A k \in DOMAIN written' : k \in DOMAIN written \/ k = n + 1
  BY <1>5
<1>8. \A j \in ItemIds : phase[j] # "todo" => phase'[j] # "todo"
  BY <1>3
<1>9. \A k \in DOMAIN written' : phase'[written'[k].of] # "todo"
  <2>1. ASSUME NEW k \in DOMAIN written PROVE phase'[written'[k].of] # "todo"
    BY <1>5, <1>6, <1>8 DEF WrittenOnce
  <2>2. phase'[written'[n + 1].of] # "todo"
    BY <1>1, <1>3, <1>5
  <2> QED BY <1>7, <2>1, <2>2
<1>10. ASSUME NEW j \in ItemIds, phase'[j] = "line"
       PROVE  \E k \in DOMAIN written' : /\ written'[k] = [of |-> j, part |-> "line"]
                                         /\ \A m \in DOMAIN written' : written'[m].of = j => m = k
  <2>1. j # i /\ phase[j] = "line"
    BY <1>3, <1>10
  <2>2. PICK k \in DOMAIN written : /\ written[k] = [of |-> j, part |-> "line"]
                                    /\ \A m \in DOMAIN written : written[m].of = j => m = k
    BY <2>1 DEF WrittenOnce
  <2>3. k \in DOMAIN written' /\ written'[k] = [of |-> j, part |-> "line"]
    BY <1>5, <2>2
  <2>4. \A m \in DOMAIN written' : written'[m].of = j => m = k
    BY <1>1, <1>5, <1>7, <2>1, <2>2
  <2> QED BY <2>3, <2>4
<1>11. WrittenOnce'
  BY <1>9, <1>10 DEF WrittenOnce
<1>12. L \in Seq(ItemIds) /\ Ordered(L) /\ \A k \in 1..Len(L) : phase[L[k]] # "todo"
  BY LinesFacts DEF LinesOnce, Types
<1>13. \A k \in 1..Len(L) : phase'[L[k]] # "todo"
  BY <1>8, <1>12
<1>14. LastLineIn(written)'
  BY <1>1, <1>5 DEF LastLineIn
<1> QED BY <1>4, <1>11, <1>12, <1>13, <1>14 DEF LinesOnce

LEMMA WritesStep == Types /\ WrittenOnce /\ LinesOnce /\ [Next]_vars => WrittenOnce' /\ LinesOnce'
<1> SUFFICES ASSUME Types, WrittenOnce, LinesOnce, [Next]_vars PROVE WrittenOnce' /\ LinesOnce'
  OBVIOUS
<1>1. ASSUME written' = written, phase' = phase PROVE WrittenOnce' /\ LinesOnce'
  BY <1>1, WritesStay
<1>2. ASSUME NEW i \in ItemIds, NEW bytes, NEW part, Write(i, part, bytes), ~Takes PROVE WrittenOnce' /\ LinesOnce'
  <2>1. /\ written' = written /\ phase' = [phase EXCEPT ![i] = Refused]
        /\ Refused \in {"failed", "swallowed", "late"}
    BY <1>2 DEF Write, Refused
  <2>2. \A j \in ItemIds : phase'[j] \notin {"todo", "line"} \/ phase'[j] = phase[j]
    BY <2>1 DEF Types
  <2> QED BY <2>1, <2>2, WritesStay
<1>3. CASE \E i \in ItemIds : Send(i)
  <2>1. PICK i \in ItemIds : phase[i] = "todo" /\ Write(i, "line", Line(i))
    BY <1>3 DEF Send
  <2> QED BY <1>2, <2>1, LineOnce
<1>4. CASE \E i \in ItemIds : SendOctets(i)
  <2>1. PICK i \in ItemIds : phase[i] = "line" /\ Write(i, "octets", Octets(i))
    BY <1>4 DEF SendOctets
  <2> QED BY <1>2, <2>1, OctetsOnce
<1>5. CASE \E i \in ItemIds : SendSettles(i)
  <2>1. PICK i \in ItemIds : phase' = [phase EXCEPT ![i] = "sent"] /\ written' = written
    BY <1>5 DEF SendSettles
  <2>2. \A j \in ItemIds : phase'[j] \notin {"todo", "line"} \/ phase'[j] = phase[j]
    BY <2>1 DEF Types
  <2> QED BY <2>1, <2>2, WritesStay
<1>6. CASE Flush
  BY <1>1, <1>6 DEF Flush
<1>7. CASE WriterCloses
  BY <1>1, <1>7 DEF WriterCloses
<1>8. CASE WriterEnds
  <2>1. CASE carrier = "socket"
    <3>1. DropQueue("swallowed") /\ written' = written
      BY <1>8, <2>1 DEF WriterEnds
    <3>2. \A j \in ItemIds : phase'[j] = phase[j] \/ phase'[j] = "swallowed"
      BY <3>1, DropTypes
    <3>3. \A j \in ItemIds : phase'[j] \notin {"todo", "line"} \/ phase'[j] = phase[j]
      BY <3>2
    <3> QED BY <3>1, <3>3, WritesStay
  <2>2. CASE carrier # "socket"
    BY <1>1, <1>8, <2>2 DEF WriterEnds
  <2> QED BY <2>1, <2>2
<1>9. CASE WriterEnded
  BY <1>1, <1>9 DEF WriterEnded
<1>10. CASE Break
  <2>1. /\ written' = written
        /\ \A i \in ItemIds : phase'[i] \notin {"todo", "line"} \/ phase'[i] = phase[i]
    BY <1>10, BreakTypes
  <2> QED BY <2>1, WritesStay
<1>11. CASE Feed
  BY <1>1, <1>11 DEF Feed, writerVars
<1>12. CASE PumpOctets \/ PumpLine \/ PumpRests
  BY <1>1, <1>12 DEF PumpOctets, PumpLine, PumpRests, writerVars
<1>13. CASE ReaderEof \/ ReaderEnds \/ FifoReaderEnded \/ WebSocketClosed
  BY <1>1, <1>13 DEF ReaderEof, ReaderEnds, FifoReaderEnded, WebSocketClosed, writerVars
<1>14. CASE UNCHANGED vars
  BY <1>1, <1>14 DEF vars, writerVars
<1> QED BY <1>3, <1>4, <1>5, <1>6, <1>7, <1>8, <1>9, <1>10, <1>11, <1>12, <1>13, <1>14 DEF Next, Progress

LEMMA QueueStep == Types /\ QueueWhole /\ [Next]_vars => QueueWhole'
<1> SUFFICES ASSUME Types, QueueWhole, [Next]_vars PROVE QueueWhole'
  OBVIOUS
<1>0. DOMAIN << >> = {}
  OBVIOUS
<1>1. ASSUME UNCHANGED <<carrier, queue>>,
             carrier = "socket" /\ wclose' = "closed" /\ eof' = "no" => wclose = "closed" /\ eof = "no"
      PROVE  QueueWhole'
  BY <1>1 DEF QueueWhole
<1>2. ASSUME queue' = << >> PROVE QueueWhole'
  BY <1>0, <1>2 DEF QueueWhole
<1>3. ASSUME NEW i \in ItemIds, NEW part, NEW bytes \in {Line(i), Octets(i)}, Write(i, part, bytes),
             UNCHANGED <<carrier, wclose, mediumVars, readerVars>>
      PROVE  QueueWhole'
  <2>1. CASE Takes
    <3> DEFINE q == [of |-> i, bytes |-> bytes]
    <3>1. q \in QueuedWrite /\ q.bytes \in {Line(q.of), Octets(q.of)}
      BY WriteFacts DEF QueuedWrite
    <3>2. queue' = Append(queue, q) /\ queue \in Seq(QueuedWrite)
      BY <1>3, <2>1 DEF Write, Types
    <3> HIDE DEF q
    <3>3. /\ DOMAIN queue' = 1..(Len(queue) + 1) /\ Len(queue) \in Nat /\ DOMAIN queue = 1..Len(queue)
          /\ (\A k \in 1..Len(queue) : queue'[k] = queue[k]) /\ queue'[Len(queue) + 1] = q
      BY <3>1, <3>2
    <3>4. \A k \in DOMAIN queue' : k \in DOMAIN queue \/ k = Len(queue) + 1
      BY <3>3
    <3>5. \A k \in DOMAIN queue' : queue'[k].bytes \in {Line(queue'[k].of), Octets(queue'[k].of)}
      BY <3>1, <3>3, <3>4 DEF QueueWhole
    <3>6. ~(carrier = "socket" /\ wclose' = "closed")
      BY <1>3, <2>1 DEF Takes, ByCallback
    <3> QED BY <1>3, <3>5, <3>6 DEF QueueWhole
  <2>2. CASE ~Takes
    <3>1. queue' = queue \/ queue' = << >>
      BY <1>3, <2>2 DEF Write
    <3> QED BY <1>1, <1>2, <1>3, <3>1 DEF mediumVars
  <2> QED BY <2>1, <2>2
<1>4. CASE \E i \in ItemIds : Send(i) \/ SendOctets(i)
  BY <1>3, <1>4 DEF Send, SendOctets
<1>5. CASE \E i \in ItemIds : SendSettles(i)
  BY <1>1, <1>5 DEF SendSettles, mediumVars
<1>6. CASE Flush
  <2>1. queue' = Tail(queue) /\ queue # << >> /\ queue \in Seq(QueuedWrite) /\ UNCHANGED <<carrier, wclose, eof>>
    BY <1>6 DEF Flush, Types
  <2>2. /\ DOMAIN queue' = 1..(Len(queue) - 1) /\ Len(queue) \in Nat /\ DOMAIN queue = 1..Len(queue)
        /\ \A k \in DOMAIN queue' : queue'[k] = queue[k + 1]
    BY <2>1
  <2>3. \A k \in DOMAIN queue' : queue'[k].bytes \in {Line(queue'[k].of), Octets(queue'[k].of)}
    <3>1. ASSUME NEW k \in DOMAIN queue'
          PROVE  queue'[k].bytes \in {Line(queue'[k].of), Octets(queue'[k].of)}
      <4> DEFINE j == k + 1
      <4>1. j \in DOMAIN queue /\ queue'[k] = queue[j]
        BY <2>2
      <4> HIDE DEF j
      <4>2. queue[j].bytes \in {Line(queue[j].of), Octets(queue[j].of)}
        BY <4>1 DEF QueueWhole
      <4> QED BY <4>1, <4>2
    <3> QED BY <3>1
  <2>4. ~(carrier = "socket" /\ wclose = "closed" /\ eof = "no")
    BY <2>1 DEF QueueWhole
  <2> QED BY <2>1, <2>3, <2>4 DEF QueueWhole
<1>7. CASE WriterCloses
  BY <1>1, <1>7 DEF WriterCloses, CloseAsked, mediumVars
<1>8. CASE WriterEnds
  <2>1. CASE carrier = "socket"
    BY <1>2, <1>8, <2>1 DEF WriterEnds, DropQueue
  <2>2. CASE carrier # "socket"
    BY <1>1, <1>8, <2>2 DEF WriterEnds
  <2> QED BY <2>1, <2>2
<1>9. CASE WriterEnded
  BY <1>2, <1>9 DEF WriterEnded
<1>10. CASE Break
  BY <1>2, <1>10, BreakTypes
<1>11. CASE Feed
  BY <1>1, <1>11 DEF Feed, writerVars
<1>12. CASE PumpOctets \/ PumpLine \/ PumpRests
  BY <1>1, <1>12 DEF PumpOctets, PumpLine, PumpRests, writerVars, mediumVars
<1>13. CASE ReaderEof \/ ReaderEnds \/ FifoReaderEnded \/ WebSocketClosed
  BY <1>1, <1>13 DEF ReaderEof, ReaderEnds, FifoReaderEnded, WebSocketClosed, writerVars, mediumVars
<1>14. CASE UNCHANGED vars
  BY <1>1, <1>14 DEF vars, writerVars, mediumVars
<1> QED BY <1>4, <1>5, <1>6, <1>7, <1>8, <1>9, <1>10, <1>11, <1>12, <1>13, <1>14 DEF Next, Progress

\* After a late write nothing is queued any more, whatever happens.
LEMMA LateStep == Types /\ LateDrops /\ [Next]_vars => LateDrops'
<1> SUFFICES ASSUME Types, LateDrops, [Next]_vars PROVE LateDrops'
  OBVIOUS
<1>1. ASSUME \A i \in ItemIds : phase'[i] = "late" => phase[i] = "late",
             carrier' = carrier, wclose' = wclose \/ wclose' \in {"ending", "closed"},
             queue' = queue \/ queue' = << >>
      PROVE  LateDrops'
  BY <1>1 DEF LateDrops, LateWrite
<1>2. ASSUME \A i \in ItemIds : phase'[i] = "late" => phase[i] = "late", ~LateWrite PROVE LateDrops'
  BY <1>2 DEF LateDrops, LateWrite
<1>3. ASSUME NEW i \in ItemIds, NEW part \in {"line", "octets"}, NEW bytes, Write(i, part, bytes),
             UNCHANGED <<carrier, wclose>>
      PROVE  LateDrops'
  <2>1. CASE Takes
    <3>1. ~LateWrite
      BY <2>1 DEF LateDrops, Takes, ByCallback
    <3>2. phase' = [phase EXCEPT ![i] = part] /\ phase \in [ItemIds -> Phases]
      BY <1>3, <2>1 DEF Write, Types
    <3>3. \A j \in ItemIds : phase'[j] = "late" => phase[j] = "late"
      BY <3>2
    <3> QED BY <1>2, <3>1, <3>3
  <2>2. CASE ~Takes
    <3>1. /\ phase' = [phase EXCEPT ![i] = Refused] /\ phase \in [ItemIds -> Phases]
          /\ queue' = IF Refused = "late" THEN << >> ELSE queue
      BY <1>3, <2>2 DEF Write, Types
    <3>2. CASE Refused = "late"
      <4>1. carrier = "fifo" /\ wclose = "ending"
        BY <3>2 DEF Refused
      <4> QED BY <1>3, <3>1, <3>2, <4>1 DEF LateDrops
    <3>3. CASE Refused # "late"
      <4>1. \A j \in ItemIds : phase'[j] = "late" => phase[j] = "late"
        BY <3>1, <3>3
      <4> QED BY <1>1, <1>3, <3>1, <4>1
    <3> QED BY <3>2, <3>3
  <2> QED BY <2>1, <2>2
<1>4. CASE \E i \in ItemIds : Send(i) \/ SendOctets(i)
  BY <1>3, <1>4 DEF Send, SendOctets
<1>5. CASE \E i \in ItemIds : SendSettles(i)
  <2>1. PICK i \in ItemIds : SendSettles(i)
    BY <1>5
  <2>2. /\ phase' = [phase EXCEPT ![i] = "sent"] /\ phase \in [ItemIds -> Phases]
        /\ UNCHANGED <<carrier, wclose, queue>>
    BY <2>1 DEF SendSettles, Types
  <2>3. \A j \in ItemIds : phase'[j] = "late" => phase[j] = "late"
    BY <2>2
  <2> QED BY <1>1, <2>2, <2>3
<1>6. CASE Flush
  <2>1. ~LateWrite /\ phase' = phase
    BY <1>6 DEF Flush, LateDrops
  <2> QED BY <1>2, <2>1
<1>7. CASE WriterCloses
  <2>1. ~LateWrite /\ phase' = phase
    BY <1>7 DEF WriterCloses, LateDrops
  <2> QED BY <1>2, <2>1
<1>8. CASE WriterEnds
  <2>1. ~LateWrite
    BY <1>8 DEF WriterEnds, LateDrops
  <2>2. \A i \in ItemIds : phase'[i] = "late" => phase[i] = "late"
    <3>1. CASE carrier = "socket"
      BY <1>8, <3>1, DropTypes DEF WriterEnds
    <3>2. CASE carrier # "socket"
      BY <1>8, <3>2 DEF WriterEnds
    <3> QED BY <3>1, <3>2
  <2> QED BY <1>2, <2>1, <2>2
<1>9. CASE WriterEnded
  BY <1>1, <1>9 DEF WriterEnded
<1>10. CASE Break
  <2>1. PICK outcome \in {"swallowed", "failed"} : DropQueue(outcome)
    BY <1>10 DEF Break
  <2>2. \A i \in ItemIds : phase'[i] = "late" => phase[i] = "late"
    BY <2>1, DropTypes
  <2>3. carrier' = carrier /\ queue' = << >>
    BY <1>10, BreakTypes
  <2>4. CASE LateWrite
    <3>1. wclose' = wclose
      BY <1>10, <2>4 DEF Break, LateDrops
    <3> QED BY <1>1, <2>2, <2>3, <3>1
  <2> QED BY <1>2, <2>2, <2>4
<1>11. CASE Feed
  BY <1>1, <1>11 DEF Feed, writerVars
<1>12. CASE PumpOctets \/ PumpLine \/ PumpRests
  BY <1>1, <1>12 DEF PumpOctets, PumpLine, PumpRests, writerVars
<1>13. CASE ReaderEof \/ ReaderEnds \/ FifoReaderEnded \/ WebSocketClosed
  BY <1>1, <1>13 DEF ReaderEof, ReaderEnds, FifoReaderEnded, WebSocketClosed, writerVars
<1>14. CASE UNCHANGED vars
  BY <1>1, <1>14 DEF vars, writerVars
<1> QED BY <1>4, <1>5, <1>6, <1>7, <1>8, <1>9, <1>10, <1>11, <1>12, <1>13, <1>14 DEF Next, Progress

LEMMA PendingFacts ==
    ASSUME Types
    PROVE  /\ acc \in Seq(Byte) /\ FlattenSeq(wire) \in Seq(Byte) /\ Pending \in Seq(Byte) /\ Queued \in Seq(Byte)
           /\ Pending \o Queued \in Seq(Byte)
<1>1. acc \in Seq(Byte) /\ FlattenSeq(wire) \in Seq(Byte) /\ Queued \in Seq(Byte)
  BY WireFacts, BytesFacts DEF Types, Queued
<1>2. Pending \in Seq(Byte)
  BY <1>1, ConcatProperties DEF Pending
<1>3. Pending \o Queued \in Seq(Byte)
  BY <1>1, <1>2, ConcatProperties
<1> QED BY <1>1, <1>2, <1>3

\* The oldest write moves from the queue to the wire, whole.
LEMMA FlushFacts ==
    ASSUME Types, QueueWhole, Flush
    PROVE  /\ eof = "no" /\ queue # << >>
           /\ UNCHANGED <<carrier, phase, written, wclose, eof, broke, readerVars>>
           /\ Pending' \o Queued' = Pending \o Queued
           /\ LastOr(Origin, Pending).kind # "text" => LastOr(Origin, Pending').kind # "text"
<1> DEFINE q == Head(queue)
           B == q.bytes
           W == FlattenSeq(wire)
           D == BytesOf(Tail(queue))
<1>1. /\ wire' = Append(wire, B) /\ queue' = Tail(queue) /\ queue # << >> /\ eof = "no"
      /\ UNCHANGED <<carrier, phase, written, wclose, eof, broke, readerVars>>
  BY DEF Flush
<1>2. queue \in Seq(QueuedWrite) /\ q \in QueuedWrite /\ Tail(queue) \in Seq(QueuedWrite) /\ 1 \in DOMAIN queue /\ q = queue[1]
  <2>1. queue \in Seq(QueuedWrite)
    BY DEF Types
  <2>2. q \in QueuedWrite /\ Tail(queue) \in Seq(QueuedWrite) /\ q = queue[1]
    BY <1>1, <2>1, HeadTailProperties
  <2>3. 1 \in DOMAIN queue
    BY <1>1, <2>1, EmptySeq
  <2> QED BY <2>1, <2>2, <2>3
<1>3. B \in {Line(q.of), Octets(q.of)} /\ q.of \in ItemIds
  BY <1>2 DEF QueueWhole, QueuedWrite
<1>4. B \in Seq(Byte) /\ (B # << >> => B[Len(B)].kind # "text")
  <2>1. CASE B = Line(q.of)
    <3>1. Len(B) = 3 /\ B[3] = At(q.of, 3)
      BY <1>3, <2>1, WriteFacts
    <3>2. At(q.of, 3).kind # "text"
      BY DEF At
    <3> QED BY <1>3, <2>1, <3>1, <3>2, WriteFacts
  <2>2. CASE B = Octets(q.of)
    <3> DEFINE n == Len(B)
    <3>1. B \in Seq(Byte) /\ n \in Nat /\ (n \in 1..n => B[n] = At(q.of, 3 + n))
      BY <1>3, <2>2, WriteFacts
    <3>2. n \in 1..n => At(q.of, 3 + n).kind # "text"
      BY DEF At
    <3>3. B # << >> => n \in 1..n
      BY <3>1, EmptySeq
    <3> QED BY <3>1, <3>2, <3>3
  <2> QED BY <1>3, <2>1, <2>2
<1>5. Queued = B \o D /\ Queued' = D /\ D \in Seq(Byte)
  BY <1>1, <1>2, BytesFacts DEF Queued
<1>6. FlattenSeq(wire') = W \o B
  BY <1>1, <1>4, FlatAppend DEF Types
<1>7. acc \in Seq(Byte) /\ W \in Seq(Byte) /\ acc' = acc /\ Pending \in Seq(Byte) /\ Pending = acc \o W
  BY <1>1, PendingFacts DEF readerVars, Pending
<1>8. Pending' = acc \o (W \o B)
  BY <1>6, <1>7 DEF Pending
<1> HIDE DEF q, B, W, D
<1>9. Pending' = Pending \o B
  <2>1. acc \in Seq(Byte) /\ W \in Seq(Byte) /\ B \in Seq(Byte)
    BY <1>4, <1>7
  <2>2. (acc \o W) \o B = acc \o (W \o B)
    BY ONLY <2>1, BytesAssociate
  <2> QED BY <1>7, <1>8, <2>2
<1>10. Pending' \o Queued' = Pending \o Queued
  <2>1. Pending \in Seq(Byte) /\ B \in Seq(Byte) /\ D \in Seq(Byte)
    BY <1>4, <1>5, <1>7
  <2>2. (Pending \o B) \o D = Pending \o (B \o D)
    BY ONLY <2>1, BytesAssociate
  <2> QED BY <1>5, <1>9, <2>2
<1>11. LastOr(Origin, Pending') = LastOr(LastOr(Origin, Pending), B)
  BY <1>4, <1>7, <1>9, ChainConcat
<1>12. LastOr(Origin, Pending).kind # "text" => LastOr(Origin, Pending').kind # "text"
  BY <1>4, <1>11 DEF LastOr
<1> QED BY <1>1, <1>10, <1>12

\* What a break leaves is the front of what was underway.
LEMMA BreakFacts ==
    ASSUME Types, Break
    PROVE  /\ \E Q \in Seq(Byte) : Pending = Pending' \o Q
           /\ Pending' \in Seq(Byte)
<1> DEFINE bytes == FlattenSeq(wire)
<1>1. PICK n \in 0..Len(bytes) : FlattenSeq(wire') = SubSeq(bytes, 1, n)
  BY BreakTypes
<1>2. acc' = acc /\ acc \in Seq(Byte) /\ bytes \in Seq(Byte)
  BY PendingFacts DEF Break, readerVars
<1>3. Pending = acc \o bytes /\ Pending' = acc \o SubSeq(bytes, 1, n)
  BY <1>1, <1>2 DEF Pending
<1> HIDE DEF bytes
<1> DEFINE P == SubSeq(bytes, 1, n)
           Q == SubSeq(bytes, n + 1, Len(bytes))
<1>4. P \in Seq(Byte) /\ Q \in Seq(Byte) /\ bytes = P \o Q
  BY <1>2, Cut
<1>5. Pending' = acc \o P
  BY <1>3
<1> HIDE DEF P, Q
<1>6. Pending = Pending' \o Q
  <2>0. acc \in Seq(Byte) /\ P \in Seq(Byte) /\ Q \in Seq(Byte)
    BY <1>2, <1>4
  <2>1. (acc \o P) \o Q = acc \o (P \o Q)
    BY ONLY <2>0, BytesAssociate
  <2> QED BY <1>3, <1>4, <1>5, <2>1
<1>7. Pending' \in Seq(Byte)
  BY <1>2, <1>4, <1>5, ConcatProperties
<1> QED BY <1>4, <1>6, <1>7

\* The reader takes something off the front of what it has.
LEMMA PumpFacts ==
    ASSUME Types, PumpOctets \/ PumpLine
    PROVE  /\ \E n \in 0..Len(acc) : acc' = SubSeq(acc, n + 1, Len(acc))
           /\ wire' = wire /\ pumping /\ pumping' /\ UNCHANGED <<carrier, writerVars, mediumVars, said>>
           /\ rclose' = rclose \/ (rclose = "open" /\ rclose' \in {"asked", "closed"})
           /\ rclose = "closed" => log' = log /\ rclose' = "closed"
<1>1. acc \in Seq(Byte) /\ Len(acc) \in Nat
  BY LenProperties DEF Types
<1>2. CASE PumpOctets
  <2>1. want \in 0..Len(acc)
    BY <1>1, <1>2 DEF PumpOctets, HasOctets, Types
  <2>2. rclose = "closed" => log' = log /\ rclose' = rclose
    BY <1>2 DEF PumpOctets, Unheard
  <2>3. rclose # "closed" => Handled
    BY <1>2 DEF PumpOctets, OnBytes, Heard
  <2> QED BY <1>2, <2>1, <2>2, <2>3, HandledFacts DEF PumpOctets, mediumVars
<1>3. CASE PumpLine
  <2>1. FirstNewline \in 0..Len(acc)
    <3>1. FirstNewline \in 1..Len(acc)
      BY <1>1, <1>3, FirstNewlineFacts DEF PumpLine
    <3> QED BY <1>1, <3>1
  <2>2. rclose = "closed" => log' = log /\ rclose' = rclose
    BY <1>3 DEF PumpLine, Unheard
  <2>3. rclose # "closed" => Handled \/ rclose' = rclose
    <3>1. rclose # "closed" => OnLine(SubSeq(acc, 1, FirstNewline - 1))
      BY <1>3 DEF PumpLine
    <3> QED BY <3>1, LineTaken
  <2> QED BY <1>3, <2>1, <2>2, <2>3, HandledFacts DEF PumpLine, mediumVars
<1> QED BY <1>2, <1>3

LEMMA NoCutStep == Types /\ QueueWhole /\ NoCut /\ [Next]_vars => NoCut'
<1> SUFFICES ASSUME Types, QueueWhole, NoCut, [Next]_vars PROVE NoCut'
  OBVIOUS
<1>1. ASSUME UNCHANGED <<acc, wire, broke>> PROVE NoCut'
  BY <1>1 DEF NoCut, Pending
<1>2. CASE \E i \in ItemIds : Send(i) \/ SendOctets(i) \/ SendSettles(i)
  BY <1>1, <1>2 DEF Send, SendOctets, SendSettles, mediumVars, readerVars
<1>3. CASE Flush
  BY <1>3, FlushFacts DEF NoCut
<1>4. CASE WriterCloses \/ WriterEnds \/ WriterEnded
  BY <1>1, <1>4 DEF WriterCloses, WriterEnds, WriterEnded, mediumVars, readerVars
<1>5. CASE Break
  BY <1>5 DEF Break, NoCut
<1>6. CASE Feed
  BY <1>6, FeedFacts DEF NoCut
<1>7. CASE PumpOctets \/ PumpLine
  <2>1. PICK n \in 0..Len(acc) : acc' = SubSeq(acc, n + 1, Len(acc))
    BY <1>7, PumpFacts
  <2> DEFINE P == SubSeq(acc, 1, n)
             B == SubSeq(acc, n + 1, Len(acc))
             W == FlattenSeq(wire)
  <2>2. P \in Seq(Byte) /\ B \in Seq(Byte) /\ acc = P \o B /\ W \in Seq(Byte)
    BY PendingFacts, Cut
  <2>3. Pending' = B \o W /\ Pending = acc \o W /\ broke' = broke
    BY <1>7, <2>1, PumpFacts DEF Pending, mediumVars
  <2> HIDE DEF P, B, W
  <2>4. B \o W \in Seq(Byte)
    BY <2>2, ConcatProperties
  <2>5. Pending = P \o (B \o W)
    BY <2>2, <2>3, BytesAssociate
  <2> DEFINE Q == B \o W
  <2> HIDE DEF Q
  <2>6. LastOr(Origin, Pending) = LastOr(LastOr(Origin, P), Q)
    BY <2>2, <2>4, <2>5, ChainConcat DEF Q
  <2>7. LastOr(Origin, Pending).kind # "text" => LastOr(Origin, Q).kind # "text"
    BY <2>6 DEF LastOr, Origin
  <2> QED BY <2>3, <2>7 DEF NoCut, Q
<1>8. CASE PumpRests \/ ReaderEnds \/ FifoReaderEnded \/ WebSocketClosed
  BY <1>1, <1>8 DEF PumpRests, ReaderEnds, FifoReaderEnded, WebSocketClosed, mediumVars
<1>9. CASE ReaderEof
  <2>1. acc' = << >> /\ wire' = << >>
    BY <1>9 DEF ReaderEof, mediumVars
  <2>2. << >> \in Seq(Byte) /\ FlattenSeq(<< >>) = << >> /\ << >> \o << >> = << >>
    BY EmptySeq, WireFacts, ConcatEmptySeq
  <2>3. Pending' = << >>
    BY <2>1, <2>2 DEF Pending
  <2> QED BY <2>3 DEF NoCut, LastOr, Origin
<1>10. CASE UNCHANGED vars
  BY <1>1, <1>10 DEF vars, mediumVars, readerVars
<1> QED BY <1>2, <1>3, <1>4, <1>5, <1>6, <1>7, <1>8, <1>9, <1>10 DEF Next, Progress

LEMMA RestedStep == Types /\ Rested /\ [Next]_vars => Rested'
<1> SUFFICES ASSUME Types, Rested, [Next]_vars PROVE Rested'
  OBVIOUS
<1>1. ASSUME UNCHANGED <<acc, want, pumping, rclose>> PROVE Rested'
  BY <1>1 DEF Rested
<1>2. CASE \E i \in ItemIds : Send(i) \/ SendOctets(i) \/ SendSettles(i)
  BY <1>1, <1>2 DEF Send, SendOctets, SendSettles, readerVars
<1>3. CASE Flush \/ WriterCloses \/ WriterEnds \/ WriterEnded \/ Break
  BY <1>1, <1>3 DEF Flush, WriterCloses, WriterEnds, WriterEnded, Break, readerVars
<1>4. CASE Feed
  BY <1>4 DEF Feed, Rested
<1>5. CASE PumpOctets \/ PumpLine
  BY <1>5, PumpFacts DEF Rested
<1>6. CASE PumpRests
  BY <1>6 DEF PumpRests, Rested, HasLine
<1>7. CASE ReaderEof \/ ReaderEnds \/ FifoReaderEnded
  BY <1>7 DEF ReaderEof, ReaderEnds, FifoReaderEnded, CloseAsked, Rested
<1>8. CASE WebSocketClosed
  BY <1>1, <1>8 DEF WebSocketClosed
<1>9. CASE UNCHANGED vars
  BY <1>1, <1>9 DEF vars, readerVars
<1> QED BY <1>2, <1>3, <1>4, <1>5, <1>6, <1>7, <1>8, <1>9 DEF Next, Progress

-----------------------------------------------------------------------------
(* The reader stays in step. *)

\* Nothing is handed over, and what is underway is as it was, or only cut.
LEMMA ReaderStays ==
    ASSUME Types, Types', Reading, written' = written, want' = want, expecting' = expecting,
           ReadsOf(log') = ReadsOf(log), broke => broke', said => said', Parsing' => Parsing,
           \/ ~Lost /\ ~Lost' /\ Pending' \o Queued' = Pending \o Queued
           \/ Lost' /\ \E Q \in Seq(Byte) : Pending = Pending' \o Q
    PROVE  Reading'
<1> DEFINE L == LinesOf(written)
           R == ReadsOf(log)
<1>1. L' = L /\ R' = R /\ EndIn(written)' = EndIn(written)
  BY DEF EndIn, OpenIn
<1>2. Pending' \in Seq(Byte) /\ Queued' \in Seq(Byte)
  <2>1. acc' \in Seq(Byte) /\ FlattenSeq(wire') \in Seq(Byte)
    BY FlatFacts DEF Types
  <2>2. Pending' \in Seq(Byte)
    BY <2>1, ConcatProperties DEF Pending
  <2>3. Queued' \in Seq(Byte)
    BY BytesFacts DEF Queued, Types
  <2> QED BY <2>2, <2>3
<1>3. CASE TornIn(written)
  BY <1>3 DEF Reading, TornIn
<1>4. CASE ~Parsing /\ ReadSoFar
  <2>1. ReadSoFar'
    BY <1>4, <1>1 DEF ReadSoFar
  <2> QED BY <1>4, <2>1 DEF Reading
<1>5. CASE Parsing /\ Kept
  <2>1. InStep(L, R, want, expecting, Pending)
    BY <1>5 DEF Kept
  <2>2. Matches(L, R)
    BY <2>1 DEF InStep
  <2> HIDE DEF L, R
  <2>3. CASE ~Parsing'
    <3>1. ReadSoFar'
      BY <1>1, <2>2 DEF ReadSoFar, L, R
    <3> QED BY <2>3, <3>1 DEF Reading
  <2>4. CASE ~Lost /\ ~Lost' /\ Pending' \o Queued' = Pending \o Queued
    <3>1. /\ InStep(L, R, want, expecting, Pending \o Queued)
          /\ LastOr(Prev(L, R, want), Pending \o Queued) = EndIn(written)
      BY <1>5, <2>4 DEF Kept, AllThere, L, R
    <3>2. InStep(L, R, want, expecting, Pending' \o Queued')
      BY <2>4, <3>1
    <3>3. InStep(L, R, want, expecting, Pending')
      BY <1>2, <3>2, InStepCut
    <3>4. LastOr(Prev(L, R, want), Pending' \o Queued') = EndIn(written)
      BY <2>4, <3>1
    <3>5. AllThere'
      BY <1>1, <3>2, <3>4 DEF AllThere, L, R
    <3>6. Kept'
      BY <1>1, <3>3, <3>5 DEF Kept, L, R
    <3> QED BY <2>3, <3>6 DEF Reading
  <2>5. CASE Lost' /\ \E Q \in Seq(Byte) : Pending = Pending' \o Q
    <3>1. PICK Q \in Seq(Byte) : Pending = Pending' \o Q
      BY <2>5
    <3>2. InStep(L, R, want, expecting, Pending' \o Q)
      BY <2>1, <3>1
    <3>3. InStep(L, R, want, expecting, Pending')
      BY <1>2, <3>2, InStepCut
    <3>4. Kept'
      BY <1>1, <2>5, <3>3 DEF Kept, L, R
    <3> QED BY <2>3, <3>4 DEF Reading
  <2> QED BY <2>4, <2>5
<1> QED BY <1>3, <1>4, <1>5 DEF Reading

\* The reader hands over the next item.
LEMMA ReaderGoesOn ==
    ASSUME Types, Types', LinesOnce, UNCHANGED <<carrier, writerVars, mediumVars>>,
           Matches(LinesOf(written), ReadsOf(log)),
           Len(ReadsOf(log)) < Len(LinesOf(written)),
           ReadsOf(log') = Append(ReadsOf(log), EntryOf(LinesOf(written)[Len(ReadsOf(log)) + 1])),
           want' = 0,
           Chain(LinesOf(written), EndOf(LinesOf(written), Len(ReadsOf(log)) + 1), acc' \o FlattenSeq(wire)),
           LET c == EndOf(LinesOf(written), Len(ReadsOf(log)) + 1)
               Q == acc' \o (FlattenSeq(wire) \o Queued)
           IN Lost \/ (Chain(LinesOf(written), c, Q) /\ LastOr(c, Q) = EndIn(written))
    PROVE  Reading'
<1> DEFINE L == LinesOf(written)
           R == ReadsOf(log)
           S == ReadsOf(log')
           c == EndOf(L, Len(R) + 1)
           W == FlattenSeq(wire)
<1>1. Ordered(L) /\ R \in Seq(Entry)
  BY ReadsFacts DEF LinesOnce, Types
<1>2. acc' \in Seq(Byte) /\ W \in Seq(Byte) /\ Queued \in Seq(Byte)
  BY PendingFacts DEF Types
<1>3. /\ LinesOf(written)' = L /\ ReadsOf(log)' = S /\ EndIn(written)' = EndIn(written) /\ Lost' = Lost
      /\ Pending' = acc' \o W /\ Queued' = Queued
  BY DEF writerVars, mediumVars, EndIn, OpenIn, Lost, LateWrite, Pending, Queued
<1>4. \A x, P : Chain(L, c, P) => InStep(L, S, 0, x, P) /\ Prev(L, S, 0) = c
  <2>1. ASSUME NEW x, NEW P, Chain(L, c, P) PROVE InStep(L, S, 0, x, P) /\ Prev(L, S, 0) = c
    <3>1. /\ InStep(L, Append(R, EntryOf(L[Len(R) + 1])), 0, x, P)
          /\ Prev(L, Append(R, EntryOf(L[Len(R) + 1])), 0) = c
      BY <1>1, <2>1, InStepGoesOn
    <3> QED BY <3>1
  <2> QED BY <2>1
<1>5. Chain(L, c, acc' \o W)
  OBVIOUS
<1>6. Lost \/ (Chain(L, c, acc' \o (W \o Queued)) /\ LastOr(c, acc' \o (W \o Queued)) = EndIn(written))
  OBVIOUS
<1> HIDE DEF L, R, S, c, W
<1>7. InStep(L, S, 0, expecting', acc' \o W)
  BY <1>4, <1>5
<1>8. (acc' \o W) \o Queued = acc' \o (W \o Queued)
  BY ONLY <1>2, BytesAssociate
<1>9. Lost \/ AllThere'
  <2>1. CASE ~Lost
    <3>1. InStep(L, S, 0, expecting', (acc' \o W) \o Queued) /\ Prev(L, S, 0) = c
      BY <1>4, <1>6, <1>8, <2>1
    <3>2. LastOr(Prev(L, S, 0), (acc' \o W) \o Queued) = EndIn(written)
      BY <1>6, <1>8, <2>1, <3>1
    <3>3. InStep(L, S, 0, expecting', Pending' \o Queued') /\ LastOr(Prev(L, S, 0), Pending' \o Queued') = EndIn(written)
      BY <1>3, <3>1, <3>2
    <3> QED BY <1>3, <3>3 DEF AllThere
  <2> QED BY <2>1
<1>10. Kept'
  BY <1>3, <1>7, <1>9 DEF Kept
<1>11. ReadSoFar'
  <2>1. Matches(L, S)
    BY <1>7 DEF InStep
  <2> QED BY <1>3, <2>1 DEF ReadSoFar
<1> QED BY <1>10, <1>11 DEF Reading

\* A line or a run of octets is written where what was underway ended.
LEMMA ReadingWrites ==
    ASSUME Types, Types', WrittenOnce, LinesOnce, Reading, NEW i \in ItemIds, Takes,
           LateDrops, LateDrops', UNCHANGED <<carrier, wclose, mediumVars, readerVars>>,
           \/ phase[i] = "todo" /\ Write(i, "line", Line(i))
           \/ phase[i] = "line" /\ IsSegment(i) /\ Write(i, "octets", Octets(i))
    PROVE  Reading'
<1> DEFINE L == LinesOf(written)
           M == LinesOf(written')
           R == ReadsOf(log)
           C == Pending \o Queued
<1>1. /\ Ordered(L) /\ LastLineIn(written) /\ R \in Seq(Entry) /\ written \in Seq(WriteOf)
      /\ queue \in Seq(QueuedWrite) /\ want \in Nat /\ L \in Seq(ItemIds)
  BY ReadsFacts, LinesFacts DEF LinesOnce, Types
<1>2. Pending \in Seq(Byte) /\ Queued \in Seq(Byte) /\ C \in Seq(Byte)
  BY PendingFacts
<1>3. /\ want' = want /\ expecting' = expecting /\ ReadsOf(log)' = R /\ LinesOf(written)' = M
      /\ Pending' = Pending /\ Lost' = Lost /\ Parsing' = Parsing /\ broke' = broke /\ said' = said
  <2>1. ~LateWrite /\ ~LateWrite'
    BY DEF LateDrops, Takes, ByCallback
  <2> QED BY <2>1 DEF mediumVars, readerVars, Pending, Lost, Parsing
<1>4. PICK part \in {"line", "octets"} : \E bytes \in {Line(i), Octets(i)} :
         /\ Write(i, part, bytes)
         /\ \/ part = "line" /\ bytes = Line(i) /\ phase[i] = "todo"
            \/ part = "octets" /\ bytes = Octets(i) /\ phase[i] = "line" /\ IsSegment(i)
  OBVIOUS
<1>5. PICK bytes \in {Line(i), Octets(i)} :
         /\ Write(i, part, bytes)
         /\ \/ part = "line" /\ bytes = Line(i) /\ phase[i] = "todo"
            \/ part = "octets" /\ bytes = Octets(i) /\ phase[i] = "line" /\ IsSegment(i)
  BY <1>4
<1> DEFINE a == [of |-> i, part |-> part]
           q == [of |-> i, bytes |-> bytes]
<1>6. /\ a \in WriteOf /\ q \in QueuedWrite /\ bytes \in Seq(Byte)
      /\ written' = Append(written, a) /\ queue' = Append(queue, q)
  BY <1>5, WriteFacts DEF WriteOf, QueuedWrite, Write
<1>7. Pending' \o Queued' = C \o bytes
  <2>1. Queued' = Queued \o bytes
    BY <1>1, <1>6, BytesFacts DEF Queued
  <2>2. (Pending \o Queued) \o bytes = Pending \o (Queued \o bytes)
    BY ONLY <1>2, <1>6, BytesAssociate
  <2> QED BY <1>3, <2>1, <2>2
<1>8. part = "line" => /\ M = Append(L, i)
                       /\ \A k \in DOMAIN written : written[k].of # i
                       /\ \A k \in 1..Len(L) : L[k] # i
  BY <1>1, <1>5, <1>6, LinesFacts, LineOnce
<1>9. part = "octets" => M = L
  BY <1>1, <1>6, LinesFacts
<1>10. TornIn(written) => TornIn(written')
  BY <1>1, <1>6, TornGrows
<1>11. SUFFICES ASSUME ~TornIn(written'), ~TornIn(written) PROVE Reading'
  BY <1>10 DEF Reading, TornIn
<1>12. EndIn(written)' = EndIn(written')
  BY DEF EndIn, OpenIn
<1>13. ASSUME NEW Z \in Seq(Entry), Matches(L, Z) PROVE Matches(M, Z)
  <2>1. Matches(Append(L, i), Z)
    BY <1>1, <1>13, MatchesGrows
  <2> QED BY <1>8, <1>9, <1>13, <2>1
<1>14. ASSUME NEW w \in Nat, NEW x, NEW P, InStep(L, R, w, x, P)
       PROVE  InStep(M, R, w, x, P)
  <2>1. CASE part = "line"
    <3>1. InStep(Append(L, i), R, w, x, P)
      BY <1>1, <1>8, <1>14, <2>1, InStepGrows
    <3> QED BY <1>8, <2>1, <3>1
  <2>2. CASE part = "octets"
    BY <1>9, <1>14, <2>2
  <2> QED BY <2>1, <2>2
<1>15. ASSUME InStep(L, R, want, expecting, C), LastOr(Prev(L, R, want), C) = EndIn(written)
       PROVE  /\ InStep(M, R, want, expecting, C \o bytes)
              /\ LastOr(Prev(M, R, want), C \o bytes) = EndIn(written')
  <2> HIDE DEF C, R
  <2>1. CASE part = "line"
    <3>1. ~TornIn(Append(written, [of |-> i, part |-> "line"])) /\ bytes = Line(i)
          /\ written' = Append(written, [of |-> i, part |-> "line"])
      BY <1>5, <1>6, <1>11, <2>1
    <3> QED BY <1>1, <1>2, <1>8, <1>15, <2>1, <3>1, LineWritten
  <2>2. CASE part = "octets"
    <3>1. /\ ~TornIn(Append(written, [of |-> i, part |-> "octets"])) /\ bytes = Octets(i)
          /\ written' = Append(written, [of |-> i, part |-> "octets"])
          /\ phase[i] = "line" /\ IsSegment(i)
      BY <1>5, <1>6, <1>11, <2>2
    <3>2. PICK k \in DOMAIN written : /\ written[k] = [of |-> i, part |-> "line"]
                                      /\ \A j \in DOMAIN written : written[j].of = i => j = k
      BY <3>1 DEF WrittenOnce
    <3> QED BY <1>1, <1>2, <1>15, <3>1, <3>2, OctetsWritten
  <2> QED BY <2>1, <2>2
<1> HIDE DEF L, M, C
<1>16. CASE Parsing /\ Kept
  <2>1. InStep(M, R, want, expecting, Pending)
    BY <1>1, <1>14, <1>16 DEF Kept, L
  <2>2. Lost \/ AllThere'
    <3>1. CASE ~Lost
      <4>1. InStep(L, R, want, expecting, C) /\ LastOr(Prev(L, R, want), C) = EndIn(written)
        BY <1>16, <3>1 DEF Kept, AllThere, L, C
      <4> QED BY <1>3, <1>7, <1>12, <1>15, <4>1 DEF AllThere
    <3> QED BY <3>1
  <2>3. Kept'
    BY <1>3, <2>1, <2>2 DEF Kept
  <2> QED BY <1>3, <1>16, <2>3 DEF Reading
<1>17. CASE ~Parsing /\ ReadSoFar
  <2>1. Front(R) \in Seq(Entry)
    <3>1. CASE R = << >>
      <4>1. Front(R) = << >>
        BY <3>1 DEF Front
      <4> QED BY <4>1, EmptySeq
    <3>2. CASE R # << >>
      BY <1>1, <3>2 DEF Front
    <3> QED BY <3>1, <3>2
  <2>2. ReadSoFar'
    BY <1>1, <1>3, <1>13, <1>17, <2>1 DEF ReadSoFar, L
  <2> QED BY <1>3, <1>17, <2>2 DEF Reading
<1> QED BY <1>11, <1>16, <1>17 DEF Reading

\* A chunk's line is the next item's, and its octets are awaited where it has any.
LEMMA ReadingLine ==
    ASSUME Types, Types', LinesOnce, Rested, Reading, PumpLine
    PROVE  Reading'
<1> DEFINE L == LinesOf(written)
           R == ReadsOf(log)
           W == FlattenSeq(wire)
           i == L[Len(R) + 1]
           D == SubSeq(acc, 4, Len(acc))
<1>1. /\ Ordered(L) /\ R \in Seq(Entry) /\ log \in Seq(Entry) /\ acc \in Seq(Byte) /\ W \in Seq(Byte)
      /\ Queued \in Seq(Byte) /\ Pending = acc \o W /\ want = 0
      /\ \E k \in DOMAIN acc : IsNewline(acc[k])
  BY ReadsFacts, PendingFacts DEF LinesOnce, Types, Pending, PumpLine, HasLine
<1>2. /\ UNCHANGED <<carrier, writerVars, mediumVars, pumping, said>>
      /\ pumping /\ acc' = SubSeq(acc, FirstNewline + 1, Len(acc))
  BY DEF PumpLine
<1>3. /\ LinesOf(written)' = L /\ EndIn(written)' = EndIn(written) /\ Lost' = Lost /\ Queued' = Queued
      /\ Pending' = acc' \o W
  BY <1>2 DEF writerVars, mediumVars, EndIn, OpenIn, Lost, LateWrite, Pending, Queued
<1>4. CASE TornIn(written)
  <2>1. TornIn(written)'
    BY <1>2, <1>4 DEF TornIn, writerVars
  <2> QED BY <2>1 DEF Reading
<1>5. CASE ~Parsing /\ ReadSoFar
  <2>1. rclose = "closed"
    BY <1>2, <1>5 DEF Parsing, Rested, Types, Stages
  <2>2. log' = log /\ rclose' = "closed"
    BY <2>1, PumpFacts
  <2>3. ~Parsing' /\ ReadSoFar'
    BY <1>2, <1>5, <2>2 DEF Parsing, ReadSoFar, writerVars, mediumVars
  <2> QED BY <2>3 DEF Reading
<1>6. CASE Parsing /\ Kept
  <2>1. InStep(L, R, 0, expecting, acc \o W)
    BY <1>1, <1>6 DEF Kept
  <2>2. Lost \/ (/\ InStep(L, R, 0, expecting, acc \o (W \o Queued))
                 /\ LastOr(Prev(L, R, 0), acc \o (W \o Queued)) = EndIn(written))
    <3>1. acc \in Seq(Byte) /\ W \in Seq(Byte) /\ Queued \in Seq(Byte)
      BY <1>1
    <3>2. (acc \o W) \o Queued = acc \o (W \o Queued)
      BY ONLY <3>1, BytesAssociate
    <3> QED BY <1>1, <1>6, <3>2 DEF Kept, AllThere
  <2> HIDE DEF L, R, W
  <2>3. /\ Len(R) < Len(L) /\ i \in ItemIds
        /\ Len(acc) >= 3 /\ IsNewline(acc[3]) /\ \A k \in 1..2 : ~IsNewline(acc[k])
        /\ SubSeq(acc, 1, 2) = Text(i)
        /\ Chain(L, At(i, 3), D \o W)
    BY <1>1, <2>1, TakeLine
  <2>4. Lost \/ (/\ Chain(L, At(i, 3), D \o (W \o Queued))
                 /\ LastOr(At(i, 3), D \o (W \o Queued)) = EndIn(written))
    <3>1. W \o Queued \in Seq(Byte)
      BY <1>1, ConcatProperties
    <3> DEFINE V == W \o Queued
    <3> HIDE DEF V
    <3>2. ASSUME ~Lost PROVE Chain(L, At(i, 3), D \o V) /\ LastOr(At(i, 3), D \o V) = EndIn(written)
      <4>1. InStep(L, R, 0, expecting, acc \o V) /\ LastOr(Prev(L, R, 0), acc \o V) = EndIn(written) /\ V \in Seq(Byte)
        BY <2>2, <3>1, <3>2 DEF V
      <4>2. Chain(L, At(i, 3), D \o V) /\ LastOr(At(i, 3), D \o V) = LastOr(Prev(L, R, 0), acc \o V)
        BY <1>1, <4>1, TakeLine
      <4> QED BY <4>1, <4>2
    <3> QED BY <3>2 DEF V
  <2>5. FirstNewline = 3
    <3>1. /\ FirstNewline \in 1..Len(acc) /\ IsNewline(acc[FirstNewline])
          /\ \A j \in 1..(FirstNewline - 1) : ~IsNewline(acc[j])
      BY <1>1, FirstNewlineFacts DEF HasLine
    <3> DEFINE f == FirstNewline
    <3>2. f \in Nat /\ f >= 1 /\ f \notin 1..2
      BY <2>3, <3>1
    <3>3. ~(3 \in 1..(f - 1))
      BY <2>3, <3>1
    <3> HIDE DEF f
    <3>4. f = 3
      BY <3>2, <3>3
    <3> QED BY <3>4 DEF f
  <2>6. acc' = D /\ OnLine(Text(i)) /\ ReadFrame(Text(i)) = i /\ i # NoItem
    <3>1. acc' = D
      BY <1>2, <2>5
    <3>2. FirstNewline - 1 = 2 /\ rclose # "closed"
      BY <1>6, <2>5 DEF Parsing
    <3>3. OnLine(SubSeq(acc, 1, FirstNewline - 1))
      BY <3>2 DEF PumpLine
    <3>4. OnLine(Text(i))
      BY <2>3, <3>2, <3>3
    <3> QED BY <2>3, <3>1, <3>4, ReadFrameFacts, ItemFacts
  <2>7. Matches(L, R) /\ Len(R) \in Nat /\ L \in Seq(ItemIds)
    BY <1>1, <2>1 DEF InStep, Ordered
  <2>8. \/ /\ IsSegment(i) /\ Items[i].size > 0
           /\ want' = Items[i].size /\ expecting' = i /\ UNCHANGED <<log, rclose>>
        \/ /\ IsSegment(i) /\ Items[i].size = 0
           /\ want' = 0 /\ log' = Append(log, SegmentOf(i, << >>))
        \/ /\ ~IsSegment(i) /\ want' = want /\ log' = Append(log, FrameOf(i))
    BY <2>6, LineTaken
  <2>9. CASE /\ IsSegment(i) /\ Items[i].size > 0
             /\ want' = Items[i].size /\ expecting' = i /\ UNCHANGED <<log, rclose>>
    <3>1. Parsing'
      BY <1>2, <1>6, <2>9 DEF Parsing
    <3>2. ReadsOf(log)' = R /\ want' > 0
      BY <2>9 DEF R
    <3>3. Prev(L, R, want') = At(i, 3)
      BY <3>2 DEF Prev
    <3>4. \A P : Chain(L, At(i, 3), P) => InStep(L, R, want', expecting', P)
      BY <2>3, <2>7, <2>9, <3>3 DEF InStep
    <3> HIDE DEF i
    <3>5. InStep(L, R, want', expecting', Pending')
      BY <1>3, <2>3, <2>6, <3>4
    <3>6. Lost \/ AllThere'
      <4>1. CASE ~Lost
        <5>1. Pending' \o Queued' = D \o (W \o Queued)
          <6>1. D \in Seq(Byte) /\ W \in Seq(Byte) /\ Queued \in Seq(Byte)
            BY <1>1, <2>6 DEF Types
          <6> HIDE DEF D
          <6>2. (D \o W) \o Queued = D \o (W \o Queued)
            BY ONLY <6>1, BytesAssociate
          <6> QED BY <1>3, <2>6, <6>2
        <5>2. /\ Chain(L, At(i, 3), Pending' \o Queued')
              /\ LastOr(At(i, 3), Pending' \o Queued') = EndIn(written)
          BY <2>4, <4>1, <5>1
        <5>3. InStep(L, R, want', expecting', Pending' \o Queued')
          BY <3>4, <5>2
        <5> QED BY <1>3, <3>2, <3>3, <5>2, <5>3 DEF AllThere, L
      <4> QED BY <4>1
    <3>7. Kept'
      BY <1>3, <3>2, <3>5, <3>6 DEF Kept, L
    <3> QED BY <3>1, <3>7 DEF Reading
  <2>10. CASE \/ /\ IsSegment(i) /\ Items[i].size = 0
                 /\ want' = 0 /\ log' = Append(log, SegmentOf(i, << >>))
              \/ /\ ~IsSegment(i) /\ want' = want /\ log' = Append(log, FrameOf(i))
    <3>1. log' = Append(log, EntryOf(i)) /\ Whole(i) = 3 /\ want' = 0
      <4>1. CASE IsSegment(i) /\ Items[i].size = 0 /\ want' = 0 /\ log' = Append(log, SegmentOf(i, << >>))
        <5>1. Octets(i) = << >>
          <6>1. Octets(i) \in Seq(Byte) /\ Len(Octets(i)) = 0
            BY <2>3, <4>1, WriteFacts
          <6> QED BY <6>1, EmptySeq
        <5>2. Whole(i) = 3
          BY <4>1 DEF Whole
        <5> QED BY <4>1, <5>1, <5>2 DEF EntryOf
      <4>2. CASE ~IsSegment(i) /\ want' = want /\ log' = Append(log, FrameOf(i))
        BY <1>1, <4>2 DEF EntryOf, Whole
      <4> QED BY <2>10, <4>1, <4>2
    <3>2. ReadsOf(log') = Append(R, EntryOf(i))
      <4>1. EntryOf(i) \in Entry /\ EntryOf(i).kind # "closed"
        BY <2>3, EntryFacts
      <4> HIDE DEF i
      <4> QED BY <1>1, <3>1, <4>1, ReadsFacts DEF R
    <3>3. EndOf(L, Len(R) + 1) = At(i, 3)
      BY <2>7, <3>1 DEF EndOf
    <3>4. Chain(L, EndOf(L, Len(R) + 1), acc' \o W)
      BY <2>3, <2>6, <3>3
    <3>5. \/ Lost
          \/ /\ Chain(L, EndOf(L, Len(R) + 1), acc' \o (W \o Queued))
             /\ LastOr(EndOf(L, Len(R) + 1), acc' \o (W \o Queued)) = EndIn(written)
      BY <2>4, <2>6, <3>3
    <3> QED BY <1>2, <2>3, <2>7, <3>1, <3>2, <3>4, <3>5, ReaderGoesOn DEF L, R, W
  <2> QED BY <2>8, <2>9, <2>10
<1> QED BY <1>4, <1>5, <1>6 DEF Reading

\* The octets awaited are the next item's.
LEMMA ReadingOctets ==
    ASSUME Types, Types', LinesOnce, Rested, Reading, PumpOctets
    PROVE  Reading'
<1> DEFINE L == LinesOf(written)
           R == ReadsOf(log)
           W == FlattenSeq(wire)
<1>0. PICK w \in Nat : w = want
  BY DEF Types
<1> DEFINE D == SubSeq(acc, w + 1, Len(acc))
<1>1. /\ Ordered(L) /\ R \in Seq(Entry) /\ log \in Seq(Entry) /\ acc \in Seq(Byte) /\ W \in Seq(Byte)
      /\ Queued \in Seq(Byte) /\ Pending = acc \o W /\ w > 0 /\ Len(acc) >= w
  BY <1>0, ReadsFacts, PendingFacts DEF LinesOnce, Types, Pending, PumpOctets, HasOctets
<1>2. /\ UNCHANGED <<carrier, writerVars, mediumVars, pumping, said>>
      /\ pumping /\ acc' = D /\ want' = 0
  BY <1>0 DEF PumpOctets
<1>3. CASE TornIn(written)
  <2>1. TornIn(written)'
    BY <1>2, <1>3 DEF TornIn, writerVars
  <2> QED BY <2>1 DEF Reading
<1>4. CASE ~Parsing /\ ReadSoFar
  <2>1. rclose = "closed"
    BY <1>2, <1>4 DEF Parsing, Rested, Types, Stages
  <2>2. log' = log /\ rclose' = "closed"
    BY <2>1, PumpFacts
  <2>3. ~Parsing' /\ ReadSoFar'
    BY <1>2, <1>4, <2>2 DEF Parsing, ReadSoFar, writerVars, mediumVars
  <2> QED BY <2>3 DEF Reading
<1>5. CASE Parsing /\ Kept
  <2>1. InStep(L, R, w, expecting, acc \o W)
    BY <1>0, <1>1, <1>5 DEF Kept
  <2>2. Lost \/ (/\ InStep(L, R, w, expecting, acc \o (W \o Queued))
                 /\ LastOr(Prev(L, R, w), acc \o (W \o Queued)) = EndIn(written))
    <3>1. acc \in Seq(Byte) /\ W \in Seq(Byte) /\ Queued \in Seq(Byte)
      BY <1>1
    <3>2. (acc \o W) \o Queued = acc \o (W \o Queued)
      BY ONLY <3>1, BytesAssociate
    <3> QED BY <1>0, <1>1, <1>5, <3>2 DEF Kept, AllThere
  <2> HIDE DEF L, R, W
  <2>3. /\ expecting \in ItemIds /\ SubSeq(acc, 1, w) = Octets(expecting)
        /\ EntryOf(expecting) = SegmentOf(expecting, SubSeq(acc, 1, w))
        /\ Matches(L, R) /\ Len(R) < Len(L) /\ expecting = L[Len(R) + 1]
        /\ Chain(L, EndOf(L, Len(R) + 1), D \o W)
    <3> HIDE DEF D
    <3>1. Ordered(L) /\ R \in Seq(Entry) /\ acc \in Seq(Byte) /\ W \in Seq(Byte) /\ w > 0 /\ Len(acc) >= w
      BY <1>1
    <3>2. expecting \in ItemIds
      BY <2>1, <3>1, TakeOctets
    <3>3. Matches(L, R) /\ Len(R) < Len(L) /\ expecting = L[Len(R) + 1]
      BY <2>1, <3>1, TakeOctets
    <3>4. Chain(L, EndOf(L, Len(R) + 1), D \o W)
      BY <2>1, <3>1, TakeOctets DEF D
    <3>5. IsSegment(expecting) /\ w = Items[expecting].size
      BY <1>1, <2>1 DEF InStep
    <3>6. SubSeq(acc, 1, w) = Octets(expecting)
      BY <2>1, <3>1, TakeOctets
    <3>7. EntryOf(expecting) = SegmentOf(expecting, SubSeq(acc, 1, w))
      BY <3>5, <3>6 DEF EntryOf
    <3> QED BY <3>2, <3>3, <3>4, <3>6, <3>7
  <2>4. Lost \/ (/\ Chain(L, EndOf(L, Len(R) + 1), D \o (W \o Queued))
                 /\ LastOr(EndOf(L, Len(R) + 1), D \o (W \o Queued)) = EndIn(written))
    <3>1. W \o Queued \in Seq(Byte)
      BY <1>1, ConcatProperties
    <3> DEFINE V == W \o Queued
    <3> HIDE DEF V
    <3>2. ASSUME ~Lost
          PROVE  /\ Chain(L, EndOf(L, Len(R) + 1), D \o V)
                 /\ LastOr(EndOf(L, Len(R) + 1), D \o V) = EndIn(written)
      <4>1. /\ InStep(L, R, w, expecting, acc \o V)
            /\ LastOr(Prev(L, R, w), acc \o V) = EndIn(written) /\ V \in Seq(Byte)
        BY <2>2, <3>1, <3>2 DEF V
      <4>2. /\ Chain(L, EndOf(L, Len(R) + 1), D \o V)
            /\ LastOr(EndOf(L, Len(R) + 1), D \o V) = LastOr(Prev(L, R, w), acc \o V)
        <5>1. /\ Ordered(L) /\ R \in Seq(Entry) /\ acc \in Seq(Byte) /\ V \in Seq(Byte)
              /\ w \in Nat /\ w > 0 /\ Len(acc) >= w /\ InStep(L, R, w, expecting, acc \o V)
          BY <1>1, <4>1
        <5> HIDE DEF D
        <5>2. Chain(L, EndOf(L, Len(R) + 1), D \o V)
          BY ONLY <5>1, TakeOctets, ZenonT(30) DEF D
        <5>3. LastOr(EndOf(L, Len(R) + 1), D \o V) = LastOr(Prev(L, R, w), acc \o V)
          BY ONLY <5>1, TakeOctets, ZenonT(30) DEF D
        <5> QED BY <5>2, <5>3
      <4> QED BY <4>1, <4>2
    <3> QED BY <3>2 DEF V
  <2>5. log' = Append(log, EntryOf(expecting))
    <3>1. rclose # "closed" /\ expecting # NoItem
      BY <1>5, <2>3, ItemFacts DEF Parsing
    <3> QED BY <1>0, <2>3, <3>1 DEF PumpOctets, OnBytes, Heard
  <2>6. ReadsOf(log') = Append(R, EntryOf(expecting))
    <3>1. EntryOf(expecting) \in Entry /\ EntryOf(expecting).kind # "closed"
      BY <2>3, EntryFacts
    <3> QED BY <1>1, <2>5, <3>1, ReadsFacts DEF R
  <2> QED BY <1>2, <2>3, <2>4, <2>6, ReaderGoesOn DEF L, R, W
<1> QED BY <1>3, <1>4, <1>5 DEF Reading

\* At the end a line cut short can be nothing but the front of the next item's.
LEMMA ReadingEof ==
    ASSUME Types, LinesOnce, NoCut, Rested, Reading, ReaderEof
    PROVE  Reading'
<1> DEFINE L == LinesOf(written)
           R == ReadsOf(log)
           m == Len(R)
           i == L[m + 1]
<1>1. /\ rclose' # "open" /\ said' = TRUE /\ wire = << >> /\ rclose = "open" /\ ~pumping
      /\ UNCHANGED <<carrier, writerVars, mediumVars, want, pumping, expecting>>
      /\ \/ ReadsOf(log') = R
         \/ /\ acc # << >> /\ want = 0 /\ ReadFrame(acc) = NoItem
            /\ ReadsOf(log') = Append(R, Bad)
         \/ /\ acc # << >> /\ want = 0 /\ ReadFrame(acc) # NoItem /\ ~IsSegment(ReadFrame(acc))
            /\ ReadsOf(log') = Append(R, FrameOf(ReadFrame(acc)))
  BY EofFacts
<1>2. /\ Ordered(L) /\ R \in Seq(Entry) /\ acc \in Seq(Byte) /\ Len(acc) \in Nat /\ m \in Nat
      /\ ReadsOf(log)' = ReadsOf(log') /\ LinesOf(written)' = L
  BY <1>1, ReadsFacts DEF LinesOnce, Types, writerVars
<1>3. Pending = acc
  <2>1. FlattenSeq(wire) = << >>
    BY <1>1, WireFacts
  <2> QED BY <1>2, <2>1, ConcatEmptySeq DEF Pending
<1>4. CASE TornIn(written)
  <2>1. TornIn(written)'
    BY <1>1, <1>4 DEF TornIn, writerVars
  <2> QED BY <2>1 DEF Reading
<1>5. CASE Parsing /\ Kept
  <2>1. ~Parsing'
    BY <1>1 DEF Parsing
  <2>2. InStep(L, R, want, expecting, acc) /\ Matches(L, R) /\ m \in 0..Len(L)
    BY <1>2, <1>3, <1>5 DEF Kept, InStep, Matches, Ordered
  <2>3. CASE ReadsOf(log') = R
    <3>1. ReadSoFar'
      BY <1>2, <2>2, <2>3 DEF ReadSoFar
    <3> QED BY <2>1, <3>1 DEF Reading
  <2>4. ASSUME acc # << >>, want = 0
        PROVE  /\ m < Len(L) /\ i \in ItemIds
               /\ acc[1] = At(i, 1) /\ 1 \in 1..Len(acc)
               /\ acc[Len(acc)].kind = "text"
    <3>1. Chain(L, EndOf(L, m), acc)
      BY <2>2, <2>4 DEF InStep, Prev
    <3> HIDE DEF m, L, R
    <3>2. m < Len(L) /\ i \in ItemIds /\ \A k \in 1..Len(acc) : k <= Whole(i) => acc[k] = At(i, k)
      BY <1>2, <2>2, <2>4, <3>1, FrontOfChain
    <3>3. Whole(i) \in Nat /\ Whole(i) >= 3
      BY <3>2, ItemFacts
    <3>4. \A k \in 1..Len(acc) : k <= 3 => acc[k] = At(i, k)
      BY <3>2, <3>3
    <3>5. \A k \in 1..Len(acc) : ~IsNewline(acc[k])
      BY <1>1, <2>4 DEF Rested
    <3>6. Len(acc) <= 2
      <4>1. ASSUME 3 \in 1..Len(acc) PROVE FALSE
        <5>1. acc[3] = At(i, 3)
          BY <3>4, <4>1
        <5>2. IsNewline(At(i, 3))
          BY <3>2, AtFacts
        <5> QED BY <3>5, <4>1, <5>1, <5>2
      <4> QED BY <1>2, <4>1
    <3>7. Len(acc) \in 1..Len(acc) /\ 1 \in 1..Len(acc)
      BY <1>2, <2>4, EmptySeq
    <3> DEFINE n == Len(acc)
    <3>8. acc[n] = At(i, n) /\ n \in Nat /\ n >= 1 /\ n <= 2 /\ acc[1] = At(i, 1)
      BY <3>4, <3>6, <3>7
    <3>9. At(i, n).kind = "text"
      BY <3>8 DEF At
    <3> QED BY <3>2, <3>7, <3>8, <3>9
  <2>5. CASE /\ acc # << >> /\ want = 0 /\ ReadsOf(log') = Append(R, Bad)
    <3>1. broke
      BY <1>3, <2>4, <2>5 DEF NoCut, LastOr
    <3>2. broke' /\ said'
      BY <1>1, <3>1 DEF mediumVars
    <3>3. Last(Append(R, Bad)) = Bad /\ Front(Append(R, Bad)) = R
      <4>1. Bad \in Entry
        BY EmptySeq DEF Bad, Entry
      <4> HIDE DEF R
      <4> DEFINE A == Append(R, Bad)
      <4>2. A \in Seq(Entry) /\ Len(A) = Len(R) + 1 /\ A[Len(R) + 1] = Bad /\ \A k \in 1..Len(R) : A[k] = R[k]
        BY <1>2, <4>1, AppendProperties
      <4> HIDE DEF A
      <4>3. Last(A) = Bad
        BY <4>2 DEF Last
      <4>4. Front(A) = SubSeq(A, 1, Len(R)) /\ Len(R) \in Nat
        BY <1>2, <4>2 DEF Front
      <4>5. /\ SubSeq(A, 1, Len(R)) \in Seq(Entry) /\ Len(SubSeq(A, 1, Len(R))) = Len(R)
            /\ \A k \in 1..Len(R) : SubSeq(A, 1, Len(R))[k] = A[k]
        BY <4>2, <4>4
      <4>6. SubSeq(A, 1, Len(R)) = R
        BY <1>2, <4>2, <4>5, SeqEqual
      <4> QED BY <4>3, <4>4, <4>6 DEF A
    <3>4. ReadSoFar'
      BY <1>2, <2>2, <2>5, <3>2, <3>3 DEF ReadSoFar
    <3> QED BY <2>1, <3>4 DEF Reading
  <2>6. CASE /\ acc # << >> /\ want = 0 /\ ReadFrame(acc) # NoItem /\ ~IsSegment(ReadFrame(acc))
             /\ ReadsOf(log') = Append(R, FrameOf(ReadFrame(acc)))
    <3> DEFINE j == ReadFrame(acc)
    <3>1. j \in ItemIds /\ acc = Text(j) /\ ~IsSegment(j)
      BY <2>6, ReadFrameFacts
    <3>2. acc[1] = At(j, 1) /\ acc[1] = At(i, 1) /\ i \in ItemIds /\ m < Len(L)
      BY <2>4, <2>6, <3>1, WriteFacts
    <3>3. j = i
      <4>1. At(j, 1).of = j /\ At(i, 1).of = i
        BY <3>1, <3>2, AtFacts
      <4> QED BY <3>2, <4>1
    <3>4. ReadsOf(log') = Append(R, EntryOf(L[Len(R) + 1]))
      BY <2>6, <3>1, <3>3 DEF EntryOf
    <3>5. Chain(L, EndOf(L, Len(R) + 1), << >>)
      <4>1. Len(<< >>) = 0
        BY EmptySeq
      <4> QED BY <4>1 DEF Chain
    <3> HIDE DEF j
    <3>6. InStep(L, Append(R, EntryOf(L[Len(R) + 1])), 0, expecting, << >>)
      <4>1. Len(R) < Len(L)
        BY <3>2
      <4> HIDE DEF L, R
      <4> QED BY <1>2, <2>2, <3>5, <4>1, InStepGoesOn
    <3>7. Matches(L, ReadsOf(log'))
      BY <3>4, <3>6 DEF InStep
    <3>8. ReadSoFar'
      BY <1>2, <3>7 DEF ReadSoFar
    <3> QED BY <2>1, <3>8 DEF Reading
  <2> QED BY <1>1, <2>3, <2>5, <2>6
<1>6. Parsing
  BY <1>1 DEF Parsing
<1> QED BY <1>4, <1>5, <1>6 DEF Reading

LEMMA ReadingStep ==
    Types /\ WrittenOnce /\ LinesOnce /\ QueueWhole /\ LateDrops /\ NoCut /\ Rested /\ Reading /\ [Next]_vars
      => Reading'
<1> SUFFICES ASSUME Types, WrittenOnce, LinesOnce, QueueWhole, LateDrops, NoCut, Rested, Reading, [Next]_vars
             PROVE  Reading'
  OBVIOUS
<1>0. Types' /\ LateDrops'
  BY TypesStep, LateStep
<1>1. Pending = Pending \o << >> /\ << >> \in Seq(Byte)
  BY PendingFacts, EmptySeq, ConcatEmptySeq
<1>2. ASSUME written' = written, want' = want, expecting' = expecting, ReadsOf(log') = ReadsOf(log),
             broke' = broke, said => said', Parsing' => Parsing,
             Pending' = Pending, Lost' \/ Queued' = Queued, Lost => Lost'
      PROVE  Reading'
  <2>1. CASE Lost'
    <3>1. \E Q \in Seq(Byte) : Pending = Pending' \o Q
      BY <1>1, <1>2
    <3> QED BY <1>0, <1>2, <2>1, <3>1, ReaderStays
  <2>2. CASE ~Lost'
    <3>1. ~Lost /\ Pending' \o Queued' = Pending \o Queued
      BY <1>2, <2>2
    <3> QED BY <1>0, <1>2, <2>2, <3>1, ReaderStays
  <2> QED BY <2>1, <2>2
<1>3. ASSUME NEW i \in ItemIds, NEW part, NEW bytes, Write(i, part, bytes), ~Takes, phase[i] # "late",
             UNCHANGED <<carrier, wclose, mediumVars, readerVars>>
      PROVE  Reading'
  <2>1. /\ phase' = [phase EXCEPT ![i] = Refused] /\ phase \in [ItemIds -> Phases] /\ written' = written
        /\ queue' = IF Refused = "late" THEN << >> ELSE queue
    BY <1>3 DEF Write, Types
  <2>2. Refused = "late" => LateWrite'
    BY <2>1 DEF LateWrite
  <2>3. LateWrite => LateWrite'
    BY <1>3, <2>1 DEF LateWrite
  <2>4. Lost' \/ Queued' = Queued
    BY <2>1, <2>2 DEF Lost, Queued
  <2>5. Lost => Lost'
    BY <1>3, <2>3 DEF Lost, mediumVars
  <2> QED BY <1>2, <1>3, <2>1, <2>4, <2>5 DEF mediumVars, readerVars, Pending, Parsing
<1>4. CASE \E i \in ItemIds : Send(i)
  <2>1. PICK i \in ItemIds : Send(i)
    BY <1>4
  <2>2. /\ phase[i] = "todo" /\ Write(i, "line", Line(i))
        /\ UNCHANGED <<carrier, wclose, mediumVars, readerVars>>
    BY <2>1 DEF Send
  <2>3. CASE Takes
    BY <1>0, <2>2, <2>3, ReadingWrites
  <2> QED BY <1>3, <2>2, <2>3
<1>5. CASE \E i \in ItemIds : SendOctets(i)
  <2>1. PICK i \in ItemIds : SendOctets(i)
    BY <1>5
  <2>2. /\ phase[i] = "line" /\ IsSegment(i) /\ Write(i, "octets", Octets(i))
        /\ UNCHANGED <<carrier, wclose, mediumVars, readerVars>>
    BY <2>1 DEF SendOctets
  <2>3. CASE Takes
    BY <1>0, <2>2, <2>3, ReadingWrites
  <2> QED BY <1>3, <2>2, <2>3
<1>6. CASE \E i \in ItemIds : SendSettles(i)
  <2>1. PICK i \in ItemIds : SendSettles(i)
    BY <1>6
  <2>2. /\ phase[i] # "late" /\ phase' = [phase EXCEPT ![i] = "sent"] /\ phase \in [ItemIds -> Phases]
        /\ UNCHANGED <<carrier, queue, written, wclose, mediumVars, readerVars>>
    BY <2>1 DEF SendSettles, Types
  <2>3. LateWrite => LateWrite'
    BY <2>2 DEF LateWrite
  <2> QED BY <1>2, <2>2, <2>3 DEF mediumVars, readerVars, Pending, Queued, Lost, Parsing
<1>7. CASE Flush
  <2>1. /\ eof = "no" /\ queue # << >> /\ UNCHANGED <<carrier, phase, written, wclose, eof, broke, readerVars>>
        /\ Pending' \o Queued' = Pending \o Queued
    BY <1>7, FlushFacts
  <2>2. ~Lost /\ ~Lost'
    BY <2>1 DEF Lost, LateWrite, LateDrops, QueueWhole
  <2>3. Parsing' = Parsing /\ log' = log /\ want' = want /\ expecting' = expecting /\ said' = said
    BY <2>1 DEF readerVars, Parsing
  <2> QED BY <1>0, <2>1, <2>2, <2>3, ReaderStays
<1>8. CASE WriterCloses
  BY <1>2, <1>8 DEF WriterCloses, mediumVars, readerVars, Pending, Queued, Lost, LateWrite, Parsing
<1>9. CASE WriterEnds
  <2>1. /\ UNCHANGED <<carrier, written, mediumVars, readerVars>> /\ wclose = "asked" /\ Pending' = Pending
        /\ Parsing' = Parsing
    BY <1>9 DEF WriterEnds, mediumVars, readerVars, Pending, Parsing
  <2>2. CASE carrier = "socket"
    <3>1. Lost'
      BY <1>9, <2>2 DEF WriterEnds, Lost, mediumVars
    <3>2. \E Q \in Seq(Byte) : Pending = Pending' \o Q
      BY <1>1, <2>1
    <3> QED BY <1>0, <2>1, <3>1, <3>2, ReaderStays DEF mediumVars, readerVars
  <2>3. CASE carrier # "socket"
    <3>1. queue' = queue /\ (Lost => Lost')
      BY <1>9, <2>1, <2>3 DEF WriterEnds, Lost, LateWrite, mediumVars
    <3> QED BY <1>2, <2>1, <3>1 DEF Queued, mediumVars, readerVars
  <2> QED BY <2>2, <2>3
<1>10. CASE WriterEnded
  <2>1. eof' # "no"
    BY <1>10 DEF WriterEnded
  <2> QED BY <1>2, <1>10, <2>1 DEF WriterEnded, readerVars, Pending, Queued, Lost, LateWrite, Parsing
<1>11. CASE Break
  <2>1. /\ broke' = TRUE /\ eof' \in {"close", "error"} /\ UNCHANGED <<carrier, written, readerVars>>
        /\ \E Q \in Seq(Byte) : Pending = Pending' \o Q
    BY <1>11, BreakTypes, BreakFacts
  <2>2. Lost'
    BY <2>1 DEF Lost
  <2> QED BY <1>0, <2>1, <2>2, ReaderStays DEF readerVars, Parsing
<1>12. CASE Feed
  <2>1. /\ Pending' = Pending /\ rclose = "open"
        /\ UNCHANGED <<carrier, writerVars, eof, broke, want, expecting, rclose, left, said, log>>
    BY <1>12, FeedFacts
  <2> QED BY <1>2, <2>1 DEF writerVars, Queued, Lost, LateWrite, Parsing
<1>13. CASE PumpOctets
  BY <1>0, <1>13, ReadingOctets
<1>14. CASE PumpLine
  BY <1>0, <1>14, ReadingLine
<1>15. CASE PumpRests
  BY <1>2, <1>15 DEF PumpRests, writerVars, mediumVars, Pending, Queued, Lost, LateWrite, Parsing
<1>16. CASE ReaderEof
  BY <1>16, ReadingEof
<1>17. CASE ReaderEnds \/ FifoReaderEnded \/ WebSocketClosed
  <2>1. UNCHANGED <<carrier, writerVars, mediumVars, acc, want, pumping, expecting>>
    BY <1>17 DEF ReaderEnds, FifoReaderEnded, WebSocketClosed
  <2>2. (said => said') /\ ReadsOf(log') = ReadsOf(log)
    <3>1. (log' = log /\ said' = said) \/ SayClosed(log)
      BY <1>17 DEF ReaderEnds, FifoReaderEnded, WebSocketClosed
    <3> QED BY <3>1, SaidFacts DEF Types
  <2>3. ~Parsing'
    BY <1>17, <2>1 DEF ReaderEnds, FifoReaderEnded, WebSocketClosed, Parsing
  <2> QED BY <1>2, <2>1, <2>2, <2>3 DEF writerVars, mediumVars, Pending, Queued, Lost, LateWrite
<1>18. CASE UNCHANGED vars
  BY <1>2, <1>18 DEF vars, writerVars, mediumVars, readerVars, Pending, Queued, Lost, LateWrite, Parsing
<1> QED BY <1>4, <1>5, <1>6, <1>7, <1>8, <1>9, <1>10, <1>11, <1>12, <1>13, <1>14, <1>15, <1>16, <1>17,
           <1>18 DEF Next, Progress

-----------------------------------------------------------------------------
(* The news of the end. *)

\* The end is said when the reader makes nothing more of what comes.
Ended ==
    /\ said => rclose # "open" /\ (rclose = "closed" \/ ~pumping)
    /\ ~said => \A k \in DOMAIN log : log[k] # Closed
    /\ EndIsLast

LEMMA EndSaid ==
    ASSUME NEW heard \in Seq(Entry), SayClosed(heard),
           said => \A k \in DOMAIN heard : heard[k] = Closed => k = Len(heard),
           ~said => \A k \in DOMAIN heard : heard[k] # Closed
    PROVE  said' = TRUE /\ EndIsLast'
<1>1. CASE said
  BY <1>1 DEF SayClosed, EndIsLast
<1>2. CASE ~said
  <2>1. log' = Append(heard, Closed)
    BY <1>2 DEF SayClosed
  <2>2. /\ Len(heard) \in Nat /\ DOMAIN heard = 1..Len(heard)
        /\ Len(Append(heard, Closed)) = Len(heard) + 1
        /\ DOMAIN Append(heard, Closed) = 1..(Len(heard) + 1)
        /\ \A k \in 1..Len(heard) : Append(heard, Closed)[k] = heard[k]
    <3>1. Closed \in Entry
      BY EmptySeq DEF Closed, Entry
    <3> QED BY <3>1, AppendProperties
  <2>3. \A k \in DOMAIN log' : k \in DOMAIN heard \/ k = Len(log')
    BY <2>1, <2>2
  <2>4. \A k \in DOMAIN heard : log'[k] # Closed
    BY <1>2, <2>1, <2>2
  <2>5. EndIsLast'
    BY <2>3, <2>4 DEF EndIsLast
  <2> QED BY <1>2, <2>5 DEF SayClosed
<1> QED BY <1>1, <1>2

\* What is handed over in the meantime is not the end.
LEMMA StillHeard ==
    ASSUME NEW es \in Seq(Entry), \A k \in DOMAIN es : es[k] # Closed, NEW e \in Entry, e.kind # "closed"
    PROVE  Append(es, e) \in Seq(Entry) /\ \A k \in DOMAIN Append(es, e) : Append(es, e)[k] # Closed
<1>1. /\ Append(es, e) \in Seq(Entry) /\ Len(es) \in Nat /\ DOMAIN Append(es, e) = 1..(Len(es) + 1)
      /\ Append(es, e)[Len(es) + 1] = e /\ \A k \in 1..Len(es) : Append(es, e)[k] = es[k]
  BY AppendProperties
<1>2. \A k \in DOMAIN Append(es, e) : k \in 1..Len(es) \/ k = Len(es) + 1
  BY <1>1
<1>3. e # Closed
  BY DEF Closed
<1> QED BY <1>1, <1>2, <1>3

LEMMA PumpHears ==
    ASSUME Types, PumpOctets \/ PumpLine, log' # log
    PROVE  rclose # "closed" /\ \E e \in Entry : e.kind # "closed" /\ log' = Append(log, e)
<1>1. rclose # "closed"
  BY PumpFacts
<1>2. Bad \in Entry /\ Bad.kind # "closed"
  BY EmptySeq DEF Bad, Entry
<1>3. \A i \in ItemIds : /\ FrameOf(i) \in Entry /\ FrameOf(i).kind # "closed"
                         /\ \A octets \in Seq(Byte) : SegmentOf(i, octets) \in Entry /\ SegmentOf(i, octets).kind # "closed"
  <2>1. \A i \in ItemIds : FrameOf(i) \in Entry /\ \A octets \in Seq(Byte) : SegmentOf(i, octets) \in Entry
    BY EntryFacts
  <2> QED BY <2>1 DEF FrameOf, SegmentOf
<1>4. CASE PumpOctets
  <2>1. SubSeq(acc, 1, want) \in Seq(Byte)
    <3>1. want \in 0..Len(acc) /\ acc \in Seq(Byte)
      BY <1>4, LenProperties DEF PumpOctets, HasOctets, Types
    <3> QED BY <3>1, Cut
  <2>2. log' = Append(log, IF expecting = NoItem THEN Bad ELSE SegmentOf(expecting, SubSeq(acc, 1, want)))
    BY <1>1, <1>4 DEF PumpOctets, OnBytes, Heard
  <2>3. expecting # NoItem => expecting \in ItemIds
    BY DEF Types
  <2> QED BY <1>1, <1>2, <1>3, <2>1, <2>2, <2>3
<1>5. CASE PumpLine
  <2>1. OnLine(SubSeq(acc, 1, FirstNewline - 1))
    BY <1>1, <1>5 DEF PumpLine
  <2>2. << >> \in Seq(Byte)
    BY EmptySeq
  <2> QED BY <1>1, <1>2, <1>3, <2>1, <2>2, LineTaken
<1> QED BY <1>4, <1>5

LEMMA EofHears ==
    ASSUME Types
    PROVE  log \o LastLine = log \/ \E e \in Entry : e.kind # "closed" /\ log \o LastLine = Append(log, e)
<1> DEFINE i == ReadFrame(acc)
<1>1. Bad \in Entry /\ Bad.kind # "closed"
  BY EmptySeq DEF Bad, Entry
<1>2. i # NoItem => FrameOf(i) \in Entry
  BY ReadFrameFacts, EntryFacts
<1>3. i # NoItem => FrameOf(i).kind # "closed"
  BY DEF FrameOf
<1>4. log \o << >> = log /\ \A e \in Entry : log \o <<e>> = Append(log, e)
  BY ConcatEmptySeq, AppendIsConcat DEF Types
<1> HIDE DEF i
<1>5. LastLine = << >> \/ LastLine = <<Bad>> \/ (i # NoItem /\ LastLine = <<FrameOf(i)>>)
  BY DEF LastLine, i
<1> QED BY <1>1, <1>2, <1>3, <1>4, <1>5

LEMMA EndedStep == Types /\ Ended /\ [Next]_vars => Ended'
<1> SUFFICES ASSUME Types, Ended, [Next]_vars PROVE Ended'
  OBVIOUS
<1>1. ASSUME UNCHANGED <<log, said, rclose, pumping>> PROVE Ended'
  BY <1>1 DEF Ended, EndIsLast
<1>2. CASE \E i \in ItemIds : Send(i) \/ SendOctets(i) \/ SendSettles(i)
  BY <1>1, <1>2 DEF Send, SendOctets, SendSettles, readerVars
<1>3. CASE Flush \/ WriterCloses \/ WriterEnds \/ WriterEnded \/ Break
  BY <1>1, <1>3 DEF Flush, WriterCloses, WriterEnds, WriterEnded, Break, readerVars
<1>4. CASE Feed
  BY <1>4 DEF Feed, Ended, EndIsLast
<1>5. CASE PumpOctets \/ PumpLine
  <2>1. /\ pumping /\ pumping' /\ said' = said
        /\ rclose' = rclose \/ (rclose = "open" /\ rclose' \in {"asked", "closed"})
        /\ rclose = "closed" => log' = log /\ rclose' = "closed"
    BY <1>5, PumpFacts
  <2>2. CASE log' = log
    BY <2>1, <2>2 DEF Ended, EndIsLast
  <2>3. CASE log' # log
    <3>1. PICK e \in Entry : e.kind # "closed" /\ log' = Append(log, e)
      BY <1>5, <2>3, PumpHears
    <3>2. ~said
      BY <1>5, <2>1, <2>3 DEF Ended
    <3>3. \A k \in DOMAIN log' : log'[k] # Closed
      BY <3>1, <3>2, StillHeard DEF Ended, Types
    <3> QED BY <2>1, <3>2, <3>3 DEF Ended, EndIsLast
  <2> QED BY <2>2, <2>3
<1>6. CASE PumpRests
  BY <1>6 DEF PumpRests, Ended, EndIsLast
<1>7. CASE ReaderEof
  <2>1. /\ SayClosed(log \o LastLine) /\ ~said /\ rclose' \in {"asked", "closed"} /\ ~pumping'
        /\ \A k \in DOMAIN log : log[k] # Closed
    BY <1>7 DEF ReaderEof, Ended, CloseAsked
  <2>2. log \o LastLine \in Seq(Entry) /\ \A k \in DOMAIN (log \o LastLine) : (log \o LastLine)[k] # Closed
    <3>1. CASE log \o LastLine = log
      BY <2>1, <3>1 DEF Types
    <3>2. CASE \E e \in Entry : e.kind # "closed" /\ log \o LastLine = Append(log, e)
      BY <2>1, <3>2, StillHeard DEF Types
    <3> QED BY <3>1, <3>2, EofHears
  <2> DEFINE heard == log \o LastLine
  <2>3. heard \in Seq(Entry) /\ SayClosed(heard) /\ \A k \in DOMAIN heard : heard[k] # Closed
    BY <2>1, <2>2
  <2> HIDE DEF heard
  <2>4. said' = TRUE /\ EndIsLast'
    BY <2>1, <2>3, EndSaid
  <2> QED BY <2>1, <2>4 DEF Ended
<1>8. CASE ReaderEnds \/ FifoReaderEnded \/ WebSocketClosed
  <2>1. rclose' # "open" /\ (rclose' = "closed" \/ ~pumping')
    BY <1>8 DEF ReaderEnds, FifoReaderEnded, WebSocketClosed
  <2>2. CASE SayClosed(log)
    <3>1. said' = TRUE /\ EndIsLast'
      BY <2>2, EndSaid DEF Ended, EndIsLast, Types
    <3> QED BY <2>1, <3>1 DEF Ended
  <2>3. CASE UNCHANGED <<log, said>>
    BY <2>1, <2>3 DEF Ended, EndIsLast
  <2> QED BY <1>8, <2>2, <2>3 DEF ReaderEnds, FifoReaderEnded, WebSocketClosed
<1>9. CASE UNCHANGED vars
  BY <1>1, <1>9 DEF vars, readerVars
<1> QED BY <1>2, <1>3, <1>4, <1>5, <1>6, <1>7, <1>8, <1>9 DEF Next, Progress

-----------------------------------------------------------------------------
(* The theorems. *)

LEMMA InvStep == IInv /\ [Next]_vars => IInv'
BY TypesStep, WritesStep, QueueStep, LateStep, NoCutStep, RestedStep, ReadingStep DEF IInv

LEMMA InvHolds == Spec => []IInv
<1> QED BY InitInv, InvStep, PTL DEF Spec

LEMMA InvReads == IInv => ReadAsWritten
<1> SUFFICES ASSUME IInv PROVE ReadAsWritten
  OBVIOUS
<1> DEFINE L == LinesOf(written)
           R == ReadsOf(log)
<1>1. /\ L \in Seq(ItemIds) /\ R \in Seq(Entry)
      /\ Lines = L /\ Reads = R /\ Torn = TornIn(written)
      /\ Written = [k \in DOMAIN L |-> EntryOf(L[k])]
  BY LinesFacts, ReadsFacts DEF IInv, Types, Lines, Reads, Torn, TornIn, LinesOf, ReadsOf, Written
<1>2. Front(R) \in Seq(Entry)
  <2>1. CASE R = << >>
    <3>1. Front(R) = << >>
      BY <2>1 DEF Front
    <3> QED BY <3>1, EmptySeq
  <2>2. CASE R # << >>
    BY <1>1, <2>2 DEF Front
  <2> QED BY <2>1, <2>2
<1> HIDE DEF L, R
<1>3. \A Z \in Seq(Entry) : Matches(L, Z) => IsPrefix(Z, Written)
  BY <1>1, MatchesIsPrefix
<1>4. TornIn(written) \/ ReadSoFar
  <2>1. Kept => Matches(L, R)
    BY DEF Kept, InStep, L, R
  <2> QED BY <2>1 DEF IInv, Reading, ReadSoFar, L, R
<1>5. TornIn(written) \/ Matches(L, R) \/ (broke /\ said /\ Last(R) = Bad /\ Matches(L, Front(R)))
  BY <1>4 DEF ReadSoFar, L, R
<1> QED BY <1>1, <1>2, <1>3, <1>5 DEF ReadAsWritten

\* Every value the state of one direction of a connection may take: the phases of
\* the sends, the writes the transport holds, the bytes underway, and what the
\* handlers were given.
THEOREM WireTypes == Spec => []Types
<1>1. IInv => Types
  BY DEF IInv
<1> QED BY <1>1, InvHolds, PTL

\* Wherever a chunk ends, whichever carrier it is, whoever closes or whatever
\* breaks, and whatever the items are: what the handlers of the far end are given
\* is the frames and segments written, in the order of their lines, each segment
\* with its own octets, up to some point; only the front of a line that a broken
\* medium cut short may follow, as a line that cannot be read, and only at the end.
\* The exception is a segment torn by another caller's write, which the code does
\* not prevent (lines.ts, json1Channel, the transports).
THEOREM WireReadAsWritten == Spec => []ReadAsWritten
BY InvHolds, InvReads, PTL

\* The close handler of the reading end is told once, and nothing is handed over
\* after it: not by the chunk that was being read when a handler closed the
\* channel, not by the end of a medium that was closed before (pvtClose of the
\* transports, json1Channel).
THEOREM WireEndIsLast == Spec => []EndIsLast
<1>1. Init => Ended
  BY DEF Init, Ended, EndIsLast
<1>2. Types /\ Ended /\ [Next]_vars => Ended'
  BY EndedStep
<1>3. Ended => EndIsLast
  BY DEF Ended
<1> QED BY <1>1, <1>2, <1>3, WireTypes, PTL DEF Spec

=============================================================================
