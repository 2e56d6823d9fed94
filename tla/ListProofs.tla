----------------------------- MODULE ListProofs -----------------------------
(* Lemmas about the lists of module Lists, and about recursion over them, that *)
(* the proofs of several components cite.                                      *)
EXTENDS Lists, Integers, FiniteSetTheorems, FunctionTheorems, WellFoundedInduction, TLAPS

\* A rank is at most the number of members.
LEMMA RankType ==
  ASSUME NEW S \in SUBSET Nat, IsFiniteSet(S), NEW i \in Nat
  PROVE  Rank(S, i) \in 0 .. Cardinality(S)
<1>1. {j \in S : j <= i} \in SUBSET S
  OBVIOUS
<1>. QED
  BY <1>1, FS_Subset, FS_CardinalityType DEF Rank

\* A later member has a higher rank.
LEMMA RankGrows ==
  ASSUME NEW S \in SUBSET Nat, IsFiniteSet(S), NEW i \in Nat, NEW j \in S, i < j
  PROVE  Rank(S, i) < Rank(S, j)
<1> DEFINE A == {m \in S : m <= i}
           B == {m \in S : m <= j}
<1>1. A \in SUBSET B /\ A # B /\ B \in SUBSET S
  <2>1. j \in B /\ j \notin A
    OBVIOUS
  <2>2. \A m \in S : m <= i => m <= j
    OBVIOUS
  <2>3. \A m \in A : m \in B
    BY <2>2
  <2>. QED
    BY <2>1, <2>3
<1>2. IsFiniteSet(B) /\ IsFiniteSet(A)
  BY <1>1, FS_Subset
<1>3. Cardinality(A) <= Cardinality(B) /\ Cardinality(A) # Cardinality(B)
  BY <1>1, <1>2, FS_Subset
<1>4. Cardinality(A) \in Nat /\ Cardinality(B) \in Nat
  BY <1>2, FS_CardinalityType
<1>. QED
  BY <1>3, <1>4 DEF Rank

\* Ranks number the members of a finite set from 1 on.
LEMMA RankOnto ==
  ASSUME NEW S \in SUBSET Nat, IsFiniteSet(S)
  PROVE  /\ \A i \in S : Rank(S, i) \in 1 .. Cardinality(S)
         /\ \A i, j \in S : Rank(S, i) = Rank(S, j) => i = j
         /\ \A k \in 1 .. Cardinality(S) : \E i \in S : Rank(S, i) = k
<1> DEFINE n == Cardinality(S)
           r == [i \in S |-> Rank(S, i)]
<1>1. n \in Nat
  BY FS_CardinalityType
<1>2. \A i \in S : Rank(S, i) \in 1 .. n
  <2> TAKE i \in S
  <2>1. {j \in S : j <= i} # {} /\ IsFiniteSet({j \in S : j <= i})
    <3>1. i \in {j \in S : j <= i} /\ {j \in S : j <= i} \in SUBSET S
      OBVIOUS
    <3>. QED
      BY <3>1, FS_Subset
  <2>2. Rank(S, i) # 0
    BY <2>1, FS_EmptySet DEF Rank
  <2>. QED
    BY <2>2, RankType
<1>3. \A i, j \in S : Rank(S, i) = Rank(S, j) => i = j
  <2> SUFFICES ASSUME NEW i \in S, NEW j \in S, Rank(S, i) = Rank(S, j), i # j PROVE FALSE
    OBVIOUS
  <2>1. Rank(S, i) \in Nat /\ Rank(S, j) \in Nat
    BY <1>2
  <2>2. i \in Nat /\ j \in Nat /\ (i < j \/ j < i)
    OBVIOUS
  <2>. QED
    BY <2>1, <2>2, RankGrows
<1>4. r \in Injection(S, 1 .. n)
  BY <1>2, <1>3 DEF Injection, IsInjective
<1>5. IsFiniteSet(1 .. n) /\ Cardinality(1 .. n) = n
  BY <1>1, FS_Interval
<1>6. r \in Surjection(S, 1 .. n)
  BY <1>4, <1>5, FS_Injection
<1>7. \A k \in 1 .. n : \E i \in S : r[i] = k
  BY <1>6 DEF Surjection
<1>. QED
  BY <1>2, <1>3, <1>7

\* Nth lists the members of a finite set in order.
LEMMA NthLists ==
  ASSUME NEW S \in SUBSET Nat, IsFiniteSet(S)
  PROVE  /\ \A k \in 1 .. Cardinality(S) : Nth(S, k) \in S /\ Rank(S, Nth(S, k)) = k
         /\ \A k, m \in 1 .. Cardinality(S) : k < m => Nth(S, k) < Nth(S, m)
         /\ \A i \in S : Rank(S, i) \in 1 .. Cardinality(S) /\ Nth(S, Rank(S, i)) = i
<1> DEFINE n == Cardinality(S)
<1>3. \A k \in 1 .. n : Nth(S, k) \in S /\ Rank(S, Nth(S, k)) = k
  BY RankOnto DEF Nth
<1>4. \A i \in S : Rank(S, i) \in 1 .. n /\ Nth(S, Rank(S, i)) = i
  <2>1. \A i, j \in S : Rank(S, i) = Rank(S, j) => i = j
    BY RankOnto
  <2>2. \A i \in S : Rank(S, i) \in 1 .. n
    BY RankOnto
  <2>. QED
    BY <2>1, <2>2, <1>3
<1>5. n \in Nat
  BY FS_CardinalityType
<1>6. ASSUME NEW k \in 1 .. n, NEW m \in 1 .. n, k < m PROVE Nth(S, k) < Nth(S, m)
  <2>1. Nth(S, k) \in Nat /\ Nth(S, m) \in Nat /\ Nth(S, k) \in S
    BY <1>3
  <2>2. CASE Nth(S, m) < Nth(S, k)
    <3>1. Rank(S, Nth(S, m)) < Rank(S, Nth(S, k))
      BY <2>1, <2>2, RankGrows
    <3>. QED
      BY <3>1, <1>3, <1>5, <1>6
  <2>3. CASE Nth(S, m) = Nth(S, k)
    BY <2>3, <1>3, <1>6, <1>5
  <2>. QED
    BY <2>1, <2>2, <2>3
<1>. QED
  BY <1>3, <1>4, <1>6

\* An increasing list is that of its members.
LEMMA ListOfMembers ==
  ASSUME NEW n \in Nat, NEW e \in [1 .. n -> Nat],
         \A k, m \in 1 .. n : k < m => e[k] < e[m],
         NEW S, \A i : i \in S <=> \E k \in 1 .. n : i = e[k]
  PROVE  /\ S \in SUBSET Nat /\ IsFiniteSet(S) /\ Cardinality(S) = n
         /\ \A k \in 1 .. n : Nth(S, k) = e[k]
<1>1. ASSUME NEW q \in 0 .. n
      PROVE  IsFiniteSet({e[k] : k \in 1 .. q}) /\ Cardinality({e[k] : k \in 1 .. q}) = q
  <2> DEFINE T == {e[k] : k \in 1 .. q}
             g == [k \in 1 .. q |-> e[k]]
  <2>1. g \in [1 .. q -> T] /\ \A k \in 1 .. q : g[k] = e[k]
    OBVIOUS
  <2>2. \A k, m \in 1 .. q : g[k] = g[m] => k = m
    <3> SUFFICES ASSUME NEW k \in 1 .. q, NEW m \in 1 .. q, e[k] = e[m], k # m PROVE FALSE
      BY <2>1
    <3>1. k \in 1 .. n /\ m \in 1 .. n /\ (k < m \/ m < k) /\ e[k] \in Nat /\ e[m] \in Nat
      OBVIOUS
    <3>. QED
      BY <3>1
  <2>3. \A t \in T : \E k \in 1 .. q : g[k] = t
    BY <2>1
  <2>4. g \in Bijection(1 .. q, T)
    BY <2>1, <2>2, <2>3 DEF Bijection, Injection, Surjection, IsInjective
  <2>5. ExistsBijection(1 .. q, T)
    BY <2>4 DEF ExistsBijection
  <2>6. IsFiniteSet(1 .. q) /\ Cardinality(1 .. q) = q
    BY FS_Interval
  <2>. QED
    BY <2>5, <2>6, FS_Bijection
<1>2. S \in SUBSET Nat /\ IsFiniteSet(S) /\ Cardinality(S) = n
  <2>1. S = {e[k] : k \in 1 .. n}
    OBVIOUS
  <2>2. \A i \in S : i \in Nat
    OBVIOUS
  <2>3. n \in 0 .. n
    OBVIOUS
  <2>4. IsFiniteSet({e[k] : k \in 1 .. n}) /\ Cardinality({e[k] : k \in 1 .. n}) = n
    BY <1>1, <2>3
  <2>. QED
    BY <2>1, <2>2, <2>4
<1>3. ASSUME NEW q \in 1 .. n PROVE Rank(S, e[q]) = q
  <2>1. {j \in S : j <= e[q]} = {e[k] : k \in 1 .. q}
    <3>1. ASSUME NEW k \in 1 .. n PROVE e[k] <= e[q] <=> k <= q
      <4>1. e[k] \in Nat /\ e[q] \in Nat /\ (k < q \/ k = q \/ q < k)
        OBVIOUS
      <4>. QED
        BY <4>1
    <3>2. \A k \in 1 .. q : k \in 1 .. n /\ k <= q
      OBVIOUS
    <3>3. \A j \in S : j <= e[q] => \E k \in 1 .. q : j = e[k]
      <4> SUFFICES ASSUME NEW j \in S, j <= e[q] PROVE \E k \in 1 .. q : j = e[k]
        OBVIOUS
      <4>1. PICK k \in 1 .. n : j = e[k]
        OBVIOUS
      <4>2. k \in 1 .. q
        BY <4>1, <3>1
      <4>. QED
        BY <4>1, <4>2
    <3>. QED
      BY <3>1, <3>2, <3>3
  <2>2. q \in 0 .. n
    OBVIOUS
  <2>. QED
    BY <2>1, <2>2, <1>1 DEF Rank
<1>4. \A q \in 1 .. n : e[q] \in S
  OBVIOUS
<1>5. \A i \in S : Nth(S, Rank(S, i)) = i
  BY <1>2, NthLists
<1>. QED
  BY <1>2, <1>3, <1>4, <1>5

\* What At returns.
LEMMA AtProperties ==
  ASSUME NEW T, NEW s \in Seq(T), NEW S \in SUBSET (DOMAIN s)
  PROVE  /\ IsFiniteSet(S) /\ S \in SUBSET Nat
         /\ At(s, S) \in Seq(T)
         /\ Len(At(s, S)) = Cardinality(S) /\ Cardinality(S) \in 0 .. Len(s)
         /\ \A k \in 1 .. Cardinality(S) : Nth(S, k) \in S /\ At(s, S)[k] = s[Nth(S, k)]
         /\ \A i \in S : \E k \in 1 .. Cardinality(S) : At(s, S)[k] = s[i]
<1>1. Len(s) \in Nat /\ DOMAIN s = 1 .. Len(s)
  OBVIOUS
<1>2. IsFiniteSet(1 .. Len(s)) /\ Cardinality(1 .. Len(s)) = Len(s)
  <2>1. \A n \in Nat : IsFiniteSet(1 .. n) /\ Cardinality(1 .. n) = n
    <3> TAKE n \in Nat
    <3>. QED
      BY FS_Interval
  <2>. QED
    BY <1>1, <2>1
<1>3. IsFiniteSet(S) /\ S \in SUBSET Nat /\ Cardinality(S) \in 0 .. Len(s)
  BY <1>1, <1>2, FS_Subset, FS_CardinalityType
<1>4. \A k \in 1 .. Cardinality(S) : Nth(S, k) \in S
  BY <1>3, NthLists
<1>5. \A k \in 1 .. Cardinality(S) : s[Nth(S, k)] \in T
  BY <1>1, <1>4
<1>6. At(s, S) \in Seq(T) /\ Len(At(s, S)) = Cardinality(S)
  BY <1>3, <1>5 DEF At
<1>7. \A k \in 1 .. Cardinality(S) : At(s, S)[k] = s[Nth(S, k)]
  BY DEF At
<1>8. \A i \in S : Rank(S, i) \in 1 .. Cardinality(S) /\ Nth(S, Rank(S, i)) = i
  BY <1>3, NthLists
<1>. QED
  BY <1>3, <1>4, <1>6, <1>7, <1>8
-----------------------------------------------------------------------------
(* Induction and recursion.                                                *)

\* A set of natural numbers that is not empty has a least member.
LEMMA MinNat ==
  ASSUME NEW S \in SUBSET Nat, S # {} PROVE \E m \in S : \A n \in S : m <= n
<1>1. PICK m \in S : \A n \in S : ~(<<n, m>> \in OpToRel(<, Nat))
  BY NatLessThanWellFounded, WFMin
<1>2. \A n \in S : n \in Nat /\ m \in Nat /\ ~(n < m)
  BY <1>1 DEF OpToRel
<1>. QED
  BY <1>2

\* Induction: what holds of 0, and of n + 1 if it holds of n, holds of all.
LEMMA Induction ==
  ASSUME NEW S, 0 \in S, \A n \in Nat : n \in S => n + 1 \in S
  PROVE  \A n \in Nat : n \in S
<1> SUFFICES ASSUME NEW n \in Nat, n \notin S PROVE FALSE
  OBVIOUS
<1>1. {k \in Nat : k \notin S} \in SUBSET Nat /\ n \in {k \in Nat : k \notin S}
  OBVIOUS
<1>2. PICK m \in {k \in Nat : k \notin S} : \A k \in {j \in Nat : j \notin S} : m <= k
  BY <1>1, MinNat
<1>3. m \in Nat /\ m \notin S /\ m # 0
  BY <1>2
<1>4. m - 1 \in Nat /\ (m - 1) + 1 = m /\ ~(m <= m - 1)
  BY <1>3
<1>5. m - 1 \in S
  BY <1>2, <1>4
<1>. QED
  BY <1>3, <1>4, <1>5

\* n steps in A that begin with a.
Steps(A, a, n, step) == a \in A /\ n \in Nat /\ step \in [1 .. n -> [A -> A]]

\* A function may be defined by its first value and a step from each to the next.
LEMMA Recursion ==
  ASSUME NEW A, NEW a, NEW n, NEW step, Steps(A, a, n, step)
  PROVE  \E f \in [0 .. n -> A] : f[0] = a /\ \A i \in 1 .. n : f[i] = step[i][f[i - 1]]
<1>. a \in A /\ n \in Nat /\ step \in [1 .. n -> [A -> A]]
  BY DEF Steps
<1> DEFINE Made(m, f) == f[0] = a /\ \A i \in 1 .. m : f[i] = step[i][f[i - 1]]
           S == {m \in Nat : m <= n => \E f \in [0 .. m -> A] : Made(m, f)}
<1>1. 0 \in S
  <2>1. [i \in 0 .. 0 |-> a] \in [0 .. 0 -> A] /\ Made(0, [i \in 0 .. 0 |-> a])
    OBVIOUS
  <2>. QED
    BY <2>1
<1>2. ASSUME NEW m \in Nat, m \in S PROVE m + 1 \in S
  <2> SUFFICES ASSUME m + 1 <= n PROVE \E f \in [0 .. m + 1 -> A] : Made(m + 1, f)
    OBVIOUS
  <2>1. PICK f \in [0 .. m -> A] : Made(m, f)
    BY <1>2
  <2> DEFINE g == [i \in 0 .. m + 1 |-> IF i = m + 1 THEN step[m + 1][f[m]] ELSE f[i]]
  <2>2. m \in 0 .. m /\ m + 1 \in 1 .. n /\ f[m] \in A
    BY <2>1
  <2>4. step[m + 1][f[m]] \in A
    BY <2>2
  <2>5. g \in [0 .. m + 1 -> A]
    BY <2>1, <2>4
  <2>6. g[0] = a
    BY <2>1
  <2>7. ASSUME NEW i \in 1 .. m + 1 PROVE g[i] = step[i][g[i - 1]]
    <3>1. i - 1 \in 0 .. m /\ g[i - 1] = f[i - 1]
      OBVIOUS
    <3>2. CASE i = m + 1
      BY <3>1, <3>2
    <3>3. CASE i # m + 1
      <4>1. i \in 1 .. m /\ g[i] = f[i]
        BY <3>3
      <4>. QED
        BY <2>1, <3>1, <4>1
    <3>. QED
      BY <3>2, <3>3
  <2>. QED
    BY <2>5, <2>6, <2>7
<1> HIDE DEF S
<1>3. n \in S
  BY <1>1, <1>2, Induction
<1>. QED
  BY <1>3 DEF S

\* The sums of the first numbers of a list.
LEMMA SumsRecur ==
  ASSUME NEW s \in Seq(Int)
  PROVE  /\ Sums(s) \in [0 .. Len(s) -> Int] /\ Sums(s)[0] = 0
         /\ \A i \in 1 .. Len(s) : Sums(s)[i] = Sums(s)[i - 1] + s[i]
<1> DEFINE n == Len(s)
           step == [i \in 1 .. n |-> [x \in Int |-> x + s[i]]]
           IsSums(g) == g = [i \in 0 .. Len(s) |-> IF i = 0 THEN 0 ELSE g[i - 1] + s[i]]
<1>1. n \in Nat /\ \A i \in 1 .. n : s[i] \in Int
  OBVIOUS
<1>2. step \in [1 .. n -> [Int -> Int]]
  BY <1>1
<1>3. \A x \in Int : \A i \in 1 .. n : step[i][x] = x + s[i]
  OBVIOUS
<1> HIDE DEF step
<1>4. PICK f \in [0 .. n -> Int] : f[0] = 0 /\ \A i \in 1 .. n : f[i] = step[i][f[i - 1]]
  <2> HIDE DEF n
  <2>1. Steps(Int, 0, n, step)
    BY <1>1, <1>2 DEF Steps
  <2>. QED
    BY <2>1, Recursion
<1>5. IsSums(f)
  <2>1. ASSUME NEW i \in 0 .. n PROVE f[i] = IF i = 0 THEN 0 ELSE f[i - 1] + s[i]
    <3>1. CASE i = 0
      BY <1>4, <3>1
    <3>2. CASE i # 0
      <4>1. i \in 1 .. n /\ i - 1 \in 0 .. n
        BY <1>1, <3>2
      <4>. QED
        BY <1>3, <1>4, <3>2, <4>1
    <3>. QED
      BY <3>1, <3>2
  <2>2. f = [i \in 0 .. n |-> f[i]]
    BY <1>4
  <2>. QED
    BY <2>1, <2>2
<1>6. Sums(s) = CHOOSE g : IsSums(g)
  BY DEF Sums
<1> HIDE DEF IsSums
<1>7. IsSums(Sums(s))
  BY <1>5, <1>6
<1>8. Sums(s) = [i \in 0 .. n |-> IF i = 0 THEN 0 ELSE Sums(s)[i - 1] + s[i]]
  BY <1>7 DEF IsSums
<1> HIDE DEF n
<1>9. /\ DOMAIN Sums(s) = 0 .. n /\ Sums(s)[0] = 0
      /\ \A i \in 1 .. n : Sums(s)[i] = Sums(s)[i - 1] + s[i]
  <2> DEFINE F == Sums(s)
  <2>1. F = [i \in 0 .. n |-> IF i = 0 THEN 0 ELSE F[i - 1] + s[i]]
    BY <1>8
  <2> HIDE DEF F
  <2>2. DOMAIN F = 0 .. n
    BY <2>1
  <2>3. F[0] = 0
    BY <1>1, <2>1
  <2>4. \A i \in 1 .. n : F[i] = F[i - 1] + s[i]
    BY <1>1, <2>1
  <2>. QED
    BY <2>2, <2>3, <2>4 DEF F
<1> DEFINE T == {i \in Nat : i <= n => Sums(s)[i] \in Int}
<1>10. 0 \in T
  BY <1>9
<1>11. ASSUME NEW i \in Nat, i \in T PROVE i + 1 \in T
  <2>1. ASSUME i + 1 <= n PROVE Sums(s)[i + 1] \in Int
    <3>1. i + 1 \in 1 .. n /\ (i + 1) - 1 = i /\ i <= n
      BY <1>1, <2>1
    <3>2. Sums(s)[i] \in Int /\ s[i + 1] \in Int /\ Sums(s)[i + 1] = Sums(s)[i] + s[i + 1]
      BY <1>1, <1>9, <1>11, <3>1
    <3>. QED
      BY <3>2
  <2>. QED
    BY <2>1
<1> HIDE DEF T
<1>12. \A i \in Nat : i \in T
  BY <1>10, <1>11, Induction
<1>13. \A i \in 0 .. n : Sums(s)[i] \in Int
  BY <1>1, <1>12 DEF T
<1>14. Sums(s) \in [0 .. n -> Int]
  BY <1>8, <1>13
<1>. QED
  BY <1>9, <1>14 DEF n

\* Sums of two lists agree as far as the lists do.
LEMMA SumsAgree ==
  ASSUME NEW s \in Seq(Int), NEW t \in Seq(Int), NEW m \in Nat, m <= Len(s), m <= Len(t),
         \A i \in 1 .. m : s[i] = t[i]
  PROVE  Sums(s)[m] = Sums(t)[m]
<1> DEFINE T == {i \in Nat : i <= m => Sums(s)[i] = Sums(t)[i]}
<1>1. 0 \in T
  BY SumsRecur
<1>2. ASSUME NEW i \in Nat, i \in T PROVE i + 1 \in T
  <2>1. ASSUME i + 1 <= m PROVE Sums(s)[i + 1] = Sums(t)[i + 1]
    <3>1. /\ i + 1 \in 1 .. Len(s) /\ i + 1 \in 1 .. Len(t) /\ i + 1 \in 1 .. m
          /\ (i + 1) - 1 = i /\ i <= m
      BY <2>1
    <3>2. /\ Sums(s)[i + 1] = Sums(s)[i] + s[i + 1] /\ Sums(t)[i + 1] = Sums(t)[i] + t[i + 1]
      BY <3>1, SumsRecur
    <3>. QED
      BY <1>2, <3>1, <3>2
  <2>. QED
    BY <2>1
<1> HIDE DEF T
<1>3. m \in T
  BY <1>1, <1>2, Induction
<1>. QED
  BY <1>3 DEF T

\* The sum of a list, and of one that is longer by one.
LEMMA SumListProperties ==
  /\ SumList(<<>>) = 0
  /\ \A s \in Seq(Int) : SumList(s) \in Int
  /\ \A s \in Seq(Int), x \in Int : SumList(Append(s, x)) = SumList(s) + x
<1>1. SumList(<<>>) = 0
  <2>1. <<>> \in Seq(Int) /\ Len(<<>>) = 0
    OBVIOUS
  <2>2. Sums(<<>>)[0] = 0
    BY <2>1, SumsRecur
  <2>. QED
    BY <2>1, <2>2 DEF SumList
<1>2. \A s \in Seq(Int) : SumList(s) \in Int
  <2> TAKE s \in Seq(Int)
  <2>1. Len(s) \in 0 .. Len(s)
    OBVIOUS
  <2>. QED
    BY <2>1, SumsRecur DEF SumList
<1>3. ASSUME NEW s \in Seq(Int), NEW x \in Int PROVE SumList(Append(s, x)) = SumList(s) + x
  <2> DEFINE t == Append(s, x)
  <2>1. /\ t \in Seq(Int) /\ Len(t) = Len(s) + 1 /\ Len(s) \in Nat /\ t[Len(s) + 1] = x
        /\ \A i \in 1 .. Len(s) : s[i] = t[i]
    OBVIOUS
  <2> HIDE DEF t
  <2>2. Sums(t)[Len(s)] = Sums(s)[Len(s)]
    <3>1. Len(s) <= Len(s) /\ Len(s) <= Len(t) /\ \A i \in 1 .. Len(s) : t[i] = s[i]
      BY <2>1
    <3>. QED
      BY <2>1, <3>1, SumsAgree
  <2>3. Len(s) + 1 \in 1 .. Len(t) /\ (Len(s) + 1) - 1 = Len(s)
    BY <2>1
  <2>4. Sums(t)[Len(s) + 1] = Sums(t)[Len(s)] + t[Len(s) + 1]
    BY <2>1, <2>3, SumsRecur
  <2>. QED
    BY <2>1, <2>2, <2>4 DEF SumList, t
<1>. QED
  BY <1>1, <1>2, <1>3

\* A number above all members of a set is listed last.
LEMMA AppendNth ==
  ASSUME NEW S \in SUBSET Nat, IsFiniteSet(S), NEW m \in Nat, \A i \in S : i < m
  PROVE  /\ IsFiniteSet(S \cup {m}) /\ Cardinality(S \cup {m}) = Cardinality(S) + 1
         /\ \A k \in 1 .. Cardinality(S) : Nth(S \cup {m}, k) = Nth(S, k)
         /\ Nth(S \cup {m}, Cardinality(S) + 1) = m
<1> DEFINE n == Cardinality(S)
           e == [k \in 1 .. n + 1 |-> IF k = n + 1 THEN m ELSE Nth(S, k)]
           U == S \cup {m}
<1>1. n \in Nat
  BY FS_CardinalityType
<1>2. /\ \A k \in 1 .. n : Nth(S, k) \in S
      /\ \A k, l \in 1 .. n : k < l => Nth(S, k) < Nth(S, l)
      /\ \A i \in S : \E k \in 1 .. n : Nth(S, k) = i
  BY NthLists
<1> HIDE DEF n
<1>3. /\ \A k \in 1 .. n : k \in 1 .. n + 1 /\ e[k] = Nth(S, k)
      /\ n + 1 \in 1 .. n + 1 /\ e[n + 1] = m
      /\ \A k \in 1 .. n + 1 : k \in 1 .. n \/ k = n + 1
  BY <1>1
<1>4. e \in [1 .. n + 1 -> Nat]
  <2>1. \A k \in 1 .. n + 1 : (IF k = n + 1 THEN m ELSE Nth(S, k)) \in Nat
    <3> TAKE k \in 1 .. n + 1
    <3>1. k = n + 1 \/ k \in 1 .. n
      BY <1>1
    <3>. QED
      BY <1>2, <3>1
  <2>. QED
    BY <2>1
<1> HIDE DEF e
<1>5. ASSUME NEW k \in 1 .. n + 1, NEW l \in 1 .. n + 1, k < l PROVE e[k] < e[l]
  <2>1. k \in 1 .. n
    BY <1>1, <1>5
  <2>2. CASE l \in 1 .. n
    BY <1>2, <1>3, <1>5, <2>1, <2>2
  <2>3. CASE l = n + 1
    BY <1>2, <1>3, <2>1, <2>3
  <2>. QED
    BY <1>3, <2>2, <2>3
<1>6. ASSUME NEW i PROVE i \in U <=> \E k \in 1 .. n + 1 : i = e[k]
  BY <1>2, <1>3, ZenonT(60)
<1>7. n + 1 \in Nat
  BY <1>1
<1> HIDE DEF U
<1>8. /\ IsFiniteSet(U) /\ Cardinality(U) = n + 1
      /\ \A k \in 1 .. n + 1 : Nth(U, k) = e[k]
  BY <1>4, <1>5, <1>6, <1>7, ListOfMembers
<1>. QED
  BY <1>3, <1>8 DEF U, n

\* What Append returns, place by place.
LEMMA AppendIs ==
  ASSUME NEW T, NEW a \in Seq(T), NEW x \in T
  PROVE  Append(a, x) = [k \in 1 .. Len(a) + 1 |-> IF k = Len(a) + 1 THEN x ELSE a[k]]
<1> DEFINE b == Append(a, x)
           n == Len(a)
<1>1. n \in Nat /\ b \in Seq(T) /\ DOMAIN b = 1 .. n + 1 /\ \A k \in 1 .. n : b[k] = a[k]
  OBVIOUS
<1>2. b[n + 1] = x
  BY <1>1
<1> HIDE DEF b, n
<1>3. \A k \in 1 .. n + 1 : b[k] = IF k = n + 1 THEN x ELSE a[k]
  BY <1>1, <1>2
<1>4. b = [k \in 1 .. n + 1 |-> IF k = n + 1 THEN x ELSE a[k]]
  BY <1>1, <1>3
<1>. QED
  BY <1>4 DEF b, n

\* One more place, after the others, is one more item.
LEMMA AppendAt ==
  ASSUME NEW T, NEW s \in Seq(T), NEW S \in SUBSET (DOMAIN s), NEW m \in DOMAIN s,
         \A i \in S : i < m
  PROVE  At(s, S \cup {m}) = Append(At(s, S), s[m])
<1> DEFINE n == Cardinality(S)
           U == S \cup {m}
<1>1. IsFiniteSet(S) /\ S \in SUBSET Nat /\ At(s, S) \in Seq(T) /\ Len(At(s, S)) = n
      /\ \A k \in 1 .. n : At(s, S)[k] = s[Nth(S, k)]
  BY AtProperties
<1>2. m \in Nat /\ s[m] \in T
  OBVIOUS
<1>3. /\ Cardinality(U) = n + 1 /\ \A k \in 1 .. n : Nth(U, k) = Nth(S, k)
      /\ Nth(U, n + 1) = m
  BY <1>1, <1>2, AppendNth
<1>4. n \in Nat
  BY <1>1, FS_CardinalityType
<1> DEFINE a == At(s, S)
<1> HIDE DEF n, U, a
<1>5. At(s, U) = [k \in 1 .. n + 1 |-> s[Nth(U, k)]]
  BY <1>3 DEF At
<1>6. Append(a, s[m]) = [k \in 1 .. n + 1 |-> IF k = n + 1 THEN s[m] ELSE a[k]]
  <2>1. a \in Seq(T) /\ Len(a) = n
    BY <1>1 DEF a
  <2>. QED
    BY <1>2, <2>1, AppendIs
<1>7. \A k \in 1 .. n + 1 : s[Nth(U, k)] = IF k = n + 1 THEN s[m] ELSE a[k]
  <2> TAKE k \in 1 .. n + 1
  <2>1. k = n + 1 \/ k \in 1 .. n
    BY <1>4
  <2>2. k = n + 1 => k \notin 1 .. n
    BY <1>4
  <2>. QED
    BY <1>1, <1>3, <2>1, <2>2 DEF a
<1>. QED
  BY <1>5, <1>6, <1>7 DEF U, a

\* No places, no items.
LEMMA EmptyAt ==
  ASSUME NEW s PROVE At(s, {}) = <<>>
<1>1. Cardinality({}) = 0
  BY FS_EmptySet
<1>. QED
  BY <1>1 DEF At

\* What is between two bounds is so on average.
LEMMA SumBetween ==
  ASSUME NEW s \in Seq(Int), NEW lo \in Int, NEW hi \in Int,
         \A i \in 1 .. Len(s) : lo <= s[i] /\ s[i] <= hi
  PROVE  lo * Len(s) <= SumList(s) /\ SumList(s) <= hi * Len(s)
<1> DEFINE T == {i \in Nat : i <= Len(s) => lo * i <= Sums(s)[i] /\ Sums(s)[i] <= hi * i}
<1>1. 0 \in T
  BY SumsRecur
<1>2. ASSUME NEW i \in Nat, i \in T PROVE i + 1 \in T
  <2>1. ASSUME i + 1 <= Len(s)
        PROVE  lo * (i + 1) <= Sums(s)[i + 1] /\ Sums(s)[i + 1] <= hi * (i + 1)
    <3>1. i + 1 \in 1 .. Len(s) /\ (i + 1) - 1 = i /\ i <= Len(s) /\ i \in 0 .. Len(s)
      BY <2>1
    <3>2. Sums(s)[i + 1] = Sums(s)[i] + s[i + 1] /\ Sums(s)[i] \in Int
      BY <3>1, SumsRecur
    <3>3. lo * i <= Sums(s)[i] /\ Sums(s)[i] <= hi * i
      BY <1>2, <3>1
    <3>4. lo * (i + 1) = lo * i + lo /\ hi * (i + 1) = hi * i + hi
          /\ lo * i \in Int /\ hi * i \in Int
      BY SMTT(30)
    <3>5. s[i + 1] \in Int /\ lo <= s[i + 1] /\ s[i + 1] <= hi
      BY <3>1
    <3>. QED
      BY <3>2, <3>3, <3>4, <3>5
  <2>. QED
    BY <2>1
<1>3. Len(s) \in Nat
  OBVIOUS
<1> HIDE DEF T
<1>4. Len(s) \in T
  BY <1>1, <1>2, <1>3, Induction
<1>. QED
  BY <1>4 DEF T, SumList

\* Numbers that grow from each to the next grow from each to any later one.
LEMMA GrowsThroughout ==
  ASSUME NEW n \in Nat, NEW ts \in [1 .. n -> Int], \A i \in 1 .. n - 1 : ts[i] <= ts[i + 1]
  PROVE  \A i, j \in 1 .. n : i < j => ts[i] <= ts[j]
<1> SUFFICES ASSUME NEW i \in 1 .. n PROVE \A j \in 1 .. n : i < j => ts[i] <= ts[j]
  OBVIOUS
<1> DEFINE T == {k \in Nat : i + k <= n => ts[i] <= ts[i + k]}
<1>1. 0 \in T
  OBVIOUS
<1>2. ASSUME NEW k \in Nat, k \in T PROVE k + 1 \in T
  <2>1. ASSUME i + (k + 1) <= n PROVE ts[i] <= ts[i + (k + 1)]
    <3>1. /\ i + k \in 1 .. n /\ i + k \in 1 .. n - 1 /\ (i + k) + 1 = i + (k + 1)
          /\ i + (k + 1) \in 1 .. n /\ i + k <= n
      BY <2>1
    <3>2. ts[i] <= ts[i + k] /\ ts[i + k] <= ts[(i + k) + 1]
      BY <1>2, <3>1
    <3>3. ts[i] \in Int /\ ts[i + k] \in Int /\ ts[i + (k + 1)] \in Int
      BY <3>1
    <3>. QED
      BY <3>1, <3>2, <3>3
  <2>. QED
    BY <2>1
<1> HIDE DEF T
<1>3. \A k \in Nat : k \in T
  BY <1>1, <1>2, Induction
<1>4. ASSUME NEW j \in 1 .. n, i < j PROVE ts[i] <= ts[j]
  <2>1. j - i \in Nat /\ i + (j - i) = j
    BY <1>4
  <2>2. j - i \in T
    BY <1>3, <2>1
  <2>. QED
    BY <2>1, <2>2 DEF T
<1>. QED
  BY <1>4

\* What integer division is.
LEMMA Division ==
  ASSUME NEW a \in Nat, NEW d \in Nat \ {0}
  PROVE  a \div d \in Nat /\ d * (a \div d) <= a /\ a < d * (a \div d) + d
OBVIOUS

\* Larger multiples are at least one apart.
LEMMA Multiples ==
  ASSUME NEW d \in Nat, NEW x \in Int, NEW y \in Int
  PROVE  /\ d * x \in Int /\ d * y \in Int
         /\ x < y => d * x + d <= d * y
<1>1. d * x \in Int /\ d * y \in Int
  BY SMTT(30)
<1>2. ASSUME x < y PROVE d * x + d <= d * y
  <2>1. y - x - 1 \in Nat /\ d * (y - x - 1) \in Nat
    BY <1>2
  <2>2. d * (y - x - 1) = d * y - d * x - d
    BY SMTT(30)
  <2>. QED
    BY <1>1, <2>1, <2>2
<1>. QED
  BY <1>1, <1>2

\* A quotient lies between the bounds of the dividend.
LEMMA DivisionBetween ==
  ASSUME NEW a \in Int, NEW d \in Nat \ {0}, NEW lo \in Int, NEW hi \in Int,
         lo * d <= a, a <= hi * d
  PROVE  a \div d \in Int /\ lo <= a \div d /\ a \div d <= hi
<1> DEFINE q == a \div d
<1>1. q \in Int /\ d * q <= a /\ a < d * q + d
  BY SMTT(30)
<1> HIDE DEF q
<1>2. \A x, y \in Int : x < y => d * x + d <= d * y
  BY Multiples
<1>3. lo * d = d * lo /\ hi * d = d * hi /\ d * q \in Int /\ d * lo \in Int /\ d * hi \in Int
  BY <1>1, SMTT(30)
<1>4. ~(q < lo)
  BY <1>1, <1>2, <1>3
<1>5. ~(hi < q)
  BY <1>1, <1>2, <1>3
<1>. QED
  BY <1>1, <1>4, <1>5 DEF q
=============================================================================
