----------------------------- MODULE OrderProofs ------------------------------
(***************************************************************************)
(* Facts about finite sets of numbers and total orders that the other      *)
(* proofs rest on: each rank of an order is taken once, a finite set has a *)
(* greatest and a least element, and so has what is measured over one.     *)
(***************************************************************************)
EXTENDS Integers, FiniteSets, FiniteSetsExt, FiniteSetTheorems, TLAPS

\* In a total order of 1..n each rank is taken, by one number.
LEMMA RankOnto ==
    ASSUME NEW n \in Nat, NEW R,
           \A i \in 1..n : <<i, i>> \in R,
           \A i, j \in 1..n : <<i, j>> \in R \/ <<j, i>> \in R,
           \A i, j \in 1..n : <<i, j>> \in R /\ <<j, i>> \in R => i = j,
           \A i, j, k \in 1..n : <<i, j>> \in R /\ <<j, k>> \in R => <<i, k>> \in R
    PROVE  /\ \A i \in 1..n : Cardinality({j \in 1..n : <<j, i>> \in R}) \in 1..n
           /\ \A i, k \in 1..n :
                Cardinality({j \in 1..n : <<j, i>> \in R}) = Cardinality({j \in 1..n : <<j, k>> \in R}) => i = k
           /\ \A m \in 1..n : \E i \in 1..n : Cardinality({j \in 1..n : <<j, i>> \in R}) = m
  <1> DEFINE upto(i) == {j \in 1..n : <<j, i>> \in R}
             rank == [i \in 1..n |-> Cardinality(upto(i))]
  <1>1. IsFiniteSet(1..n) /\ Cardinality(1..n) = n
    BY FS_Interval
  <1>2. \A i \in 1..n : IsFiniteSet(upto(i)) /\ Cardinality(upto(i)) \in 1..n
    <2> TAKE i \in 1..n
    <2>1. upto(i) \in SUBSET (1..n) /\ i \in upto(i)
      OBVIOUS
    <2> HIDE DEF upto
    <2>2. IsFiniteSet(upto(i)) /\ Cardinality(upto(i)) <= n
      BY <1>1, <2>1, FS_Subset
    <2>3. Cardinality(upto(i)) \in Nat
      BY <2>2, FS_CardinalityType
    <2>4. Cardinality(upto(i)) # 0
      BY <2>1, <2>2, FS_EmptySet
    <2> QED
      BY <2>2, <2>3, <2>4
  <1>3. \A i, k \in 1..n : Cardinality(upto(i)) = Cardinality(upto(k)) => i = k
    <2>1. ASSUME NEW i \in 1..n, NEW k \in 1..n, <<i, k>> \in R,
                 Cardinality(upto(i)) = Cardinality(upto(k))
          PROVE  i = k
      <3>1. upto(i) \in SUBSET upto(k)
        BY <2>1
      <3>2. k \in upto(k)
        OBVIOUS
      <3> HIDE DEF upto
      <3>3. upto(k) = upto(i)
        BY <3>1, <2>1, <1>2, FS_Subset
      <3>4. k \in upto(i)
        BY <3>2, <3>3
      <3> QED
        BY <3>4, <2>1 DEF upto
    <2> QED
      BY <2>1
  <1>4. rank \in Injection(1..n, 1..n)
    BY <1>2, <1>3 DEF Injection, IsInjective
  <1>5. rank \in Surjection(1..n, 1..n)
    BY <1>4, <1>1, FS_Injection
  <1>6. \A m \in 1..n : \E i \in 1..n : rank[i] = m
    BY <1>5 DEF Surjection
  <1>7. \A m \in 1..n : \E i \in 1..n : Cardinality(upto(i)) = m
    BY <1>6
  <1> QED
    BY <1>2, <1>3, <1>7

\* A finite set of integers has a greatest and a least one.
LEMMA Extremes ==
    ASSUME NEW T \in SUBSET Int, IsFiniteSet(T), T # {}
    PROVE  /\ Max(T) \in T /\ \A x \in T : Max(T) >= x
           /\ Min(T) \in T /\ \A x \in T : Min(T) <= x
  <1> DEFINE n == Cardinality(T)
  <1>1. n \in Nat /\ n # 0
    BY FS_CardinalityType, FS_EmptySet
  <1>2. PICK b \in Bijection(1..n, T) : TRUE
    BY FS_CardinalityType DEF ExistsBijection
  <1>3. b \in [1..n -> T] /\ (\A i, j \in 1..n : b[i] = b[j] => i = j) /\ \A x \in T : \E i \in 1..n : b[i] = x
    BY <1>2 DEF Bijection, Injection, Surjection, IsInjective
  <1> HIDE DEF n
  <1> DEFINE R == {x \in (1..n) \X (1..n) : b[x[1]] <= b[x[2]]}
             upto(i) == {j \in 1..n : <<j, i>> \in R}
  <1>4. \A i, j \in 1..n : <<i, j>> \in R <=> b[i] <= b[j]
    OBVIOUS
  <1>5. \A i \in 1..n : b[i] \in Int
    BY <1>3
  <1> HIDE DEF R
  <1>6. /\ \A i \in 1..n : <<i, i>> \in R
        /\ \A i, j \in 1..n : <<i, j>> \in R \/ <<j, i>> \in R
        /\ \A i, j \in 1..n : <<i, j>> \in R /\ <<j, i>> \in R => i = j
        /\ \A i, j, k \in 1..n : <<i, j>> \in R /\ <<j, k>> \in R => <<i, k>> \in R
    <2>1. \A i, j \in 1..n : b[i] <= b[j] /\ b[j] <= b[i] => i = j
      BY <1>3, <1>5
    <2>2. \A i, j, k \in 1..n : b[i] <= b[j] /\ b[j] <= b[k] => b[i] <= b[k]
      BY <1>5
    <2>3. \A i, j \in 1..n : b[i] <= b[i] /\ (b[i] <= b[j] \/ b[j] <= b[i])
      BY <1>5
    <2> QED
      BY <1>4, <2>1, <2>2, <2>3
  <1>7. \A m \in 1..n : \E i \in 1..n : Cardinality(upto(i)) = m
    BY <1>1, <1>6, RankOnto
  <1>8. \A i \in 1..n : upto(i) \in SUBSET (1..n) /\ i \in upto(i) /\ IsFiniteSet(upto(i))
    <2>1. \A i \in 1..n : upto(i) \in SUBSET (1..n) /\ i \in upto(i)
      BY <1>6
    <2>2. IsFiniteSet(1..n)
      BY <1>1, FS_Interval
    <2> HIDE DEF upto
    <2>3. \A i \in 1..n : IsFiniteSet(upto(i))
      BY <2>1, <2>2, FS_Subset
    <2> QED
      BY <2>1, <2>3
  <1>9. IsFiniteSet(1..n) /\ Cardinality(1..n) = n /\ 1 \in 1..n /\ n \in 1..n
    BY <1>1, FS_Interval
  <1>10. \E z \in T : \A x \in T : z >= x
    <2>1. PICK i \in 1..n : Cardinality(upto(i)) = n
      BY <1>7, <1>9
    <2>2. upto(i) \in SUBSET (1..n)
      BY <1>8
    <2>3. upto(i) = 1..n
      <3> HIDE DEF upto
      <3> QED
        BY <1>9, <2>1, <2>2, FS_Subset
    <2>4. \A j \in 1..n : b[j] <= b[i]
      BY <1>4, <2>3
    <2> QED
      BY <1>3, <1>5, <2>4
  <1>11. \E z \in T : \A x \in T : z <= x
    <2>1. PICK i \in 1..n : Cardinality(upto(i)) = 1
      BY <1>7, <1>9
    <2>2. {i} \in SUBSET upto(i) /\ IsFiniteSet(upto(i)) /\ Cardinality({i}) = 1
      BY <1>8, FS_Singleton
    <2>3. upto(i) = {i}
      <3> HIDE DEF upto
      <3> QED
        BY <2>1, <2>2, FS_Subset
    <2>4. \A j \in 1..n : <<i, j>> \in R
      BY <1>6, <2>3
    <2>5. \A j \in 1..n : b[i] <= b[j]
      BY <1>4, <2>4
    <2> QED
      BY <1>3, <1>5, <2>5
  <1>12. Max(T) \in T /\ \A x \in T : Max(T) >= x
    BY <1>10 DEF Max
  <1>13. Min(T) \in T /\ \A x \in T : Min(T) <= x
    BY <1>11 DEF Min
  <1> QED
    BY <1>12, <1>13

\* Two different elements are more than one.
LEMMA MoreThanOne ==
    ASSUME NEW T, IsFiniteSet(T), NEW x \in T, NEW y \in T, x # y
    PROVE  Cardinality(T) > 1
  <1>1. {x, y} \in SUBSET T
    OBVIOUS
  <1>2. Cardinality({x, y}) = 2
    <2>1. IsFiniteSet({x}) /\ Cardinality({x}) = 1
      BY FS_Singleton
    <2>2. Cardinality({x} \cup {y}) = 2
      BY <2>1, FS_AddElement
    <2>3. {x} \cup {y} = {x, y}
      OBVIOUS
    <2> QED
      BY <2>2, <2>3
  <1>3. Cardinality(T) \in Nat /\ Cardinality({x, y}) <= Cardinality(T)
    BY <1>1, FS_Subset, FS_CardinalityType
  <1> QED
    BY <1>2, <1>3

LEMMA ImageFinite ==
    ASSUME NEW S, IsFiniteSet(S), NEW f
    PROVE  IsFiniteSet({f[x] : x \in S})
  <1> DEFINE g == [x \in S |-> f[x]]
             T == {f[x] : x \in S}
  <1>1. g \in Surjection(S, T)
    BY DEF Surjection
  <1> HIDE DEF g, T
  <1>2. IsFiniteSet(T)
    BY <1>1, FS_Surjection
  <1> QED
    BY <1>2 DEF T

\* The numbers of a finite set can be counted off from the smallest.
LEMMA Counting ==
    ASSUME NEW T \in SUBSET Nat, IsFiniteSet(T)
    PROVE  /\ Cardinality(T) \in Nat
           /\ \A i \in T : Cardinality({j \in T : j <= i}) \in 1..Cardinality(T)
           /\ \A i, k \in T : Cardinality({j \in T : j <= i}) = Cardinality({j \in T : j <= k}) => i = k
           /\ \A n \in 1..Cardinality(T) : \E i \in T : Cardinality({j \in T : j <= i}) = n
  <1> DEFINE upto(i) == {j \in T : j <= i}
             rank == [i \in T |-> Cardinality(upto(i))]
             ranks == 1..Cardinality(T)
  <1>1. Cardinality(T) \in Nat
    BY FS_CardinalityType
  <1>2. ASSUME NEW i \in T
        PROVE  IsFiniteSet(upto(i)) /\ Cardinality(upto(i)) \in ranks
    <2>1. upto(i) \in SUBSET T /\ i \in upto(i)
      OBVIOUS
    <2> HIDE DEF upto
    <2>2. IsFiniteSet(upto(i)) /\ Cardinality(upto(i)) <= Cardinality(T)
      BY <2>1, FS_Subset
    <2>3. Cardinality(upto(i)) \in Nat /\ Cardinality(upto(i)) # 0
      BY <2>1, <2>2, FS_CardinalityType, FS_EmptySet
    <2> QED
      BY <1>1, <2>2, <2>3
  <1>3. ASSUME NEW i \in T, NEW k \in T, i < k
        PROVE  Cardinality(upto(i)) # Cardinality(upto(k))
    <2>0. i \in Nat /\ k \in Nat /\ \A j \in T : j \in Nat
      OBVIOUS
    <2>1. upto(i) \in SUBSET upto(k) /\ k \in upto(k) /\ k \notin upto(i)
      <3>1. \A j \in T : j <= i => j <= k
        BY ONLY <1>3, <2>0
      <3>2. k <= k /\ ~ (k <= i)
        BY ONLY <1>3, <2>0
      <3>3. upto(i) \subseteq upto(k)
        BY ONLY <3>1
      <3>4. k \in upto(k) /\ k \notin upto(i)
        BY <3>2
      <3> QED
        BY ONLY <3>3, <3>4
    <2>2. IsFiniteSet(upto(k))
      BY <1>2
    <2> HIDE DEF upto
    <2> QED
      BY <2>1, <2>2, FS_Subset
  <1>4. \A i, k \in T : Cardinality(upto(i)) = Cardinality(upto(k)) => i = k
    <2> SUFFICES ASSUME NEW i \in T, NEW k \in T, Cardinality(upto(i)) = Cardinality(upto(k)), i # k
                 PROVE  FALSE
      OBVIOUS
    <2>1. i < k \/ k < i
      OBVIOUS
    <2> HIDE DEF upto
    <2> QED
      BY <1>3, <2>1
  <1>5. \A n \in ranks : \E i \in T : Cardinality(upto(i)) = n
    <2>1. rank \in [T -> ranks]
      BY <1>2
    <2>2. IsInjective(rank)
      BY <1>4 DEF IsInjective
    <2>3. rank \in Injection(T, ranks)
      BY <2>1, <2>2 DEF Injection
    <2>4. IsFiniteSet(ranks) /\ Cardinality(ranks) = Cardinality(T)
      BY <1>1, FS_Interval
    <2>5. \A i \in T : rank[i] = Cardinality(upto(i))
      OBVIOUS
    <2> HIDE DEF rank, ranks, upto
    <2>6. rank \in Surjection(T, ranks)
      BY <2>3, <2>4, FS_Injection
    <2> QED
      BY <2>5, <2>6 DEF Surjection
  <1> QED
    BY <1>1, <1>2, <1>4, <1>5

\* Of numbers there is a least.
LEMMA LeastNumber ==
    ASSUME NEW T \in SUBSET Nat, T # {}
    PROVE  \E x \in T : \A y \in T : x <= y
  <1> DEFINE R == OpToRel(<, Nat)
  <1>1. IsWellFoundedOn(R, Nat)
    BY NatLessThanWellFounded, Zenon
  <1>2. \A x, y \in Nat : y < x => <<y, x>> \in R
    BY DEF OpToRel
  <1> HIDE DEF R
  <1>3. PICK x \in T : \A y \in T : ~ (<<y, x>> \in R)
    BY <1>1, WFMin
  <1>4. \A y \in T : x \in Nat /\ y \in Nat /\ ~ (y < x)
    BY <1>2, <1>3
  <1>5. \A y \in T : x <= y
    BY ONLY <1>4
  <1> QED
    BY <1>5

\* So is there among those that a finite set is measured with.
LEMMA LeastMeasure ==
    ASSUME NEW S, IsFiniteSet(S), S # {}, NEW f, \A x \in S : f[x] \in Int
    PROVE  \E x \in S : \A y \in S : f[x] <= f[y]
  <1> DEFINE T == {f[x] : x \in S}
  <1>1. T \in SUBSET Int /\ T # {}
    OBVIOUS
  <1>2. IsFiniteSet(T)
    BY ImageFinite
  <1> HIDE DEF T
  <1>3. Min(T) \in T /\ \A z \in T : Min(T) <= z
    BY <1>1, <1>2, Extremes
  <1> QED
    BY <1>3 DEF T

\* Of a finite number of things one comes last, or some do.
LEMMA SomeComeLast ==
    ASSUME NEW S, IsFiniteSet(S), S # {}, NEW R,
           \A x \in S : <<x, x>> \notin R,
           \A x, y, z \in S : <<x, y>> \in R /\ <<y, z>> \in R => <<x, z>> \in R
    PROVE  \E x \in S : \A y \in S : <<y, x>> \notin R
  <1> DEFINE after(x) == {y \in S : <<y, x>> \in R}
             f == [x \in S |-> Cardinality(after(x))]
  <1>1. ASSUME NEW x \in S
        PROVE  after(x) \in SUBSET S /\ IsFiniteSet(after(x)) /\ Cardinality(after(x)) \in Nat
    <2>1. after(x) \in SUBSET S
      OBVIOUS
    <2> HIDE DEF after
    <2> QED
      BY <2>1, FS_Subset, FS_CardinalityType
  <1>2. PICK x \in S : \A y \in S : f[x] <= f[y]
    <2>1. \A x \in S : f[x] \in Int
      BY <1>1
    <2> HIDE DEF f
    <2> QED
      BY <2>1, LeastMeasure
  <1>3. ASSUME NEW y \in S, <<y, x>> \in R
        PROVE  FALSE
    <2>1. after(y) \in SUBSET after(x) /\ y \in after(x) /\ y \notin after(y)
      BY <1>3
    <2>2. Cardinality(after(x)) <= Cardinality(after(y))
      BY <1>2
    <2> HIDE DEF after
    <2> QED
      BY <1>1, <2>1, <2>2, FS_Subset
  <1> QED
    BY <1>3

=============================================================================
