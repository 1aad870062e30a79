--------------------------- MODULE EnumerationProofs ---------------------------
(* What the operators of Enumeration return. *)
EXTENDS Enumeration, Sequences, FiniteSetTheorems, TLAPS

\* How many elements of S do not exceed i.
Rank(S, i) == Cardinality({j \in S : j <= i})

\* Each element has a rank of its own, and each rank belongs to one element.
LEMMA RankFacts ==
  ASSUME NEW S \in SUBSET Int, IsFiniteSet(S)
  PROVE  /\ Cardinality(S) \in Nat
         /\ \A i \in S : Rank(S, i) \in 1..Cardinality(S)
         /\ \A i, j \in S : i < j => Rank(S, i) < Rank(S, j)
         /\ \A n \in 1..Cardinality(S) : \E i \in S : Rank(S, i) = n
<1>. DEFINE c == Cardinality(S)
            Upto(i) == {j \in S : j <= i}
<1>1. c \in Nat
  BY FS_CardinalityType
<1>2. ASSUME NEW i \in S
      PROVE  /\ IsFiniteSet(Upto(i)) /\ Rank(S, i) \in Nat
             /\ Rank(S, i) <= c /\ Rank(S, i) # 0
  <2>1. IsFiniteSet(Upto(i)) /\ Cardinality(Upto(i)) <= c
    BY FS_Subset
  <2>2. Upto(i) # {}
    BY <1>2
  <2>3. Cardinality(Upto(i)) # 0
    BY <2>1, <2>2, FS_EmptySet
  <2>4. Cardinality(Upto(i)) \in Nat
    BY <2>1, FS_CardinalityType
  <2>. QED  BY <2>1, <2>3, <2>4 DEF Rank
<1>3. ASSUME NEW i \in S
      PROVE  Rank(S, i) \in 1..c
  <2>. HIDE DEF c
  <2>1. Rank(S, i) \in Nat /\ Rank(S, i) <= c /\ Rank(S, i) # 0
    BY <1>2
  <2>. QED  BY <2>1, <1>1
<1>4. ASSUME NEW i \in S, NEW j \in S, i < j
      PROVE  Rank(S, i) < Rank(S, j)
  <2>1. /\ \A x \in S : x <= i => x <= j
        /\ j <= j /\ ~(j <= i)
    <3>1. i \in Int /\ j \in Int /\ \A x \in S : x \in Int
      OBVIOUS
    <3>. QED  BY <3>1, <1>4
  <2>2. Upto(i) \subseteq Upto(j) /\ Upto(i) # Upto(j)
    BY <2>1
  <2>3. /\ Cardinality(Upto(i)) <= Cardinality(Upto(j))
        /\ Cardinality(Upto(j)) # Cardinality(Upto(i))
    BY <2>2, <1>2, FS_Subset
  <2>. QED  BY <2>3, <1>2 DEF Rank
<1>5. \A n \in 1..c : \E i \in S : Rank(S, i) = n
  <2>. DEFINE r == [i \in S |-> Rank(S, i)]
  <2>1. r \in Injection(S, 1..c)
    <3>1. \A i, j \in S : Rank(S, i) = Rank(S, j) => i = j
      <4>1. \A i, j \in S : i < j \/ j < i \/ i = j
        OBVIOUS
      <4>. QED  BY <4>1, <1>4, <1>3
    <3>. QED  BY <1>3, <3>1 DEF Injection, IsInjective
  <2>2. IsFiniteSet(1..c) /\ Cardinality(1..c) = c
    BY <1>1, FS_Interval
  <2>3. r \in Surjection(S, 1..c)
    BY <2>1, <2>2, FS_Injection
  <2>4. \A n \in 1..c : \E i \in S : r[i] = n
    BY <2>3 DEF Surjection
  <2>. QED  BY <2>4
<1>. QED  BY <1>1, <1>3, <1>4, <1>5

\* Ascending goes through all of S, upwards.
LEMMA AscendingFacts ==
  ASSUME NEW S \in SUBSET Int, IsFiniteSet(S)
  PROVE  /\ Cardinality(S) \in Nat
         /\ Ascending(S) \in [1..Cardinality(S) -> S]
         /\ \A n \in 1..Cardinality(S) : Rank(S, Ascending(S)[n]) = n
         /\ \A m, n \in 1..Cardinality(S) : m < n => Ascending(S)[m] < Ascending(S)[n]
         /\ \A i \in S : \E n \in 1..Cardinality(S) : Ascending(S)[n] = i
<1>. DEFINE c == Cardinality(S)
<1>1. ASSUME NEW n \in 1..c
      PROVE  Ascending(S)[n] \in S /\ Rank(S, Ascending(S)[n]) = n
  <2>1. Ascending(S)[n] = CHOOSE i \in S : Rank(S, i) = n
    BY DEF Ascending, Rank
  <2>2. \E i \in S : Rank(S, i) = n
    BY RankFacts
  <2>. QED  BY <2>1, <2>2
<1>2. Ascending(S) \in [1..c -> S]
  <2>1. DOMAIN Ascending(S) = 1..c /\ Ascending(S) = [n \in 1..c |-> Ascending(S)[n]]
    BY DEF Ascending
  <2>. QED  BY <2>1, <1>1
<1>3. \A i, j \in S : i < j \/ j < i \/ i = j
  OBVIOUS
<1>4. ASSUME NEW m \in 1..c, NEW n \in 1..c, m < n
      PROVE  Ascending(S)[m] < Ascending(S)[n]
  <2>. DEFINE a == Ascending(S)[m]
              b == Ascending(S)[n]
  <2>1. a \in S /\ b \in S /\ Rank(S, a) = m /\ Rank(S, b) = n
    BY <1>1
  <2>. HIDE DEF a, b
  <2>2. a # b /\ ~(b < a)
    BY <2>1, <1>4, RankFacts
  <2>3. a < b
    BY <2>1, <2>2, <1>3
  <2>. QED  BY <2>3 DEF a, b
<1>5. ASSUME NEW i \in S
      PROVE  \E n \in 1..c : Ascending(S)[n] = i
  <2>1. Rank(S, i) \in 1..c
    BY RankFacts
  <2>. DEFINE a == Ascending(S)[Rank(S, i)]
  <2>2. a \in S /\ Rank(S, a) = Rank(S, i)
    BY <2>1, <1>1
  <2>. HIDE DEF a
  <2>3. a = i
    BY <2>2, <1>3, RankFacts
  <2>. QED  BY <2>1, <2>3 DEF a
<1>. QED  BY <1>1, <1>2, <1>4, <1>5, RankFacts

\* There is only one way to go through a set upwards.
LEMMA AscendingIsUnique ==
  ASSUME NEW S \in SUBSET Int, NEW n \in Nat, NEW f \in [1..n -> S],
         \A k, m \in 1..n : k < m => f[k] < f[m],
         \A i \in S : \E m \in 1..n : f[m] = i
  PROVE  /\ IsFiniteSet(S) /\ Cardinality(S) = n
         /\ Ascending(S) = f
<1>1. \A k, m \in 1..n : f[k] = f[m] => k = m
  <2>1. \A k, m \in 1..n : k < m \/ m < k \/ k = m
    OBVIOUS
  <2>2. \A k \in 1..n : f[k] \in Int
    OBVIOUS
  <2>. QED  BY <2>1, <2>2
<1>2. f \in Injection(1..n, S) /\ f \in Surjection(1..n, S)
  BY <1>1 DEF Injection, IsInjective, Surjection
<1>3. IsFiniteSet(1..n) /\ Cardinality(1..n) = n
  BY FS_Interval
<1>4. IsFiniteSet(S) /\ Cardinality(S) = n
  BY <1>2, <1>3, FS_Surjection
<1>5. ASSUME NEW m \in 1..n
      PROVE  Rank(S, f[m]) = m
  <2>. DEFINE g == [k \in 1..m |-> f[k]]
              T == {j \in S : j <= f[m]}
  <2>1. \A k \in 1..m : f[k] <= f[m] /\ f[k] \in S
    <3>1. \A k \in 1..m : k \in 1..n /\ (k = m \/ k < m)
      OBVIOUS
    <3>2. \A k \in 1..n : f[k] \in Int
      OBVIOUS
    <3>. QED  BY <3>1, <3>2
  <2>2. \A i \in T : \E k \in 1..m : f[k] = i
    <3>. SUFFICES ASSUME NEW i \in T PROVE \E k \in 1..m : f[k] = i
      OBVIOUS
    <3>1. PICK k \in 1..n : f[k] = i
      OBVIOUS
    <3>2. ~(m < k)
      <4>1. f[k] <= f[m] /\ f[k] \in Int /\ f[m] \in Int
        BY <3>1
      <4>. QED  BY <4>1
    <3>. QED  BY <3>1, <3>2
  <2>3. g \in Injection(1..m, T) /\ g \in Surjection(1..m, T)
    <3>1. g \in [1..m -> T]
      BY <2>1
    <3>2. \A j, k \in 1..m : g[j] = g[k] => j = k
      BY <1>1
    <3>3. \A i \in T : \E k \in 1..m : g[k] = i
      BY <2>2
    <3>. QED  BY <3>1, <3>2, <3>3 DEF Injection, IsInjective, Surjection
  <2>4. IsFiniteSet(1..m) /\ Cardinality(1..m) = m
    BY FS_Interval
  <2>5. Cardinality(T) = m
    BY <2>3, <2>4, FS_Surjection
  <2>. QED  BY <2>5 DEF Rank
<1>6. \A m \in 1..n : Ascending(S)[m] \in S /\ Rank(S, Ascending(S)[m]) = m
  BY <1>4, AscendingFacts
<1>7. ASSUME NEW m \in 1..n
      PROVE  Ascending(S)[m] = f[m]
  <2>. DEFINE a == Ascending(S)[m]
  <2>1. a \in S /\ f[m] \in S /\ Rank(S, a) = Rank(S, f[m])
    BY <1>5, <1>6
  <2>. HIDE DEF a
  <2>2. a \in Int /\ f[m] \in Int
    BY <2>1
  <2>3. /\ \A i, j \in S : i < j => Rank(S, i) < Rank(S, j)
        /\ Rank(S, f[m]) = m
    BY <1>4, <1>5, RankFacts
  <2>4. /\ a < f[m] => Rank(S, a) < Rank(S, f[m])
        /\ f[m] < a => Rank(S, f[m]) < Rank(S, a)
    BY <2>1, <2>3
  <2>5. ~(a < f[m]) /\ ~(f[m] < a)
    BY <2>1, <2>3, <2>4
  <2>6. a = f[m]
    BY <2>2, <2>5
  <2>. QED  BY <2>6 DEF a
<1>. QED  BY <1>4, <1>7, AscendingFacts

\* ItemsAt is a sequence of the elements at I, one for each.
LEMMA ItemsAtFacts ==
  ASSUME NEW T, NEW s \in Seq(T), NEW I \in SUBSET (DOMAIN s)
  PROVE  /\ IsFiniteSet(I) /\ Cardinality(I) \in Nat /\ I \subseteq Int
         /\ ItemsAt(s, I) \in Seq(T)
         /\ Len(ItemsAt(s, I)) = Cardinality(I)
         /\ \A n \in 1..Cardinality(I) :
              Ascending(I)[n] \in I /\ ItemsAt(s, I)[n] = s[Ascending(I)[n]]
         /\ \A i \in I : \E n \in DOMAIN ItemsAt(s, I) : ItemsAt(s, I)[n] = s[i]
<1>1. DOMAIN s = 1..Len(s) /\ Len(s) \in Nat
  OBVIOUS
<1>2. IsFiniteSet(I) /\ I \subseteq Int
  <2>1. IsFiniteSet(1..Len(s))
    BY <1>1, FS_Interval
  <2>. QED  BY <1>1, <2>1, FS_Subset
<1>3. /\ Cardinality(I) \in Nat
      /\ Ascending(I) \in [1..Cardinality(I) -> I]
      /\ \A i \in I : \E n \in 1..Cardinality(I) : Ascending(I)[n] = i
  BY <1>2, AscendingFacts
<1>4. ItemsAt(s, I) = [n \in 1..Cardinality(I) |-> s[Ascending(I)[n]]]
  BY DEF ItemsAt
<1>5. \A i \in I : s[i] \in T
  BY <1>1
<1>. HIDE DEF ItemsAt
<1>6. ItemsAt(s, I) \in [1..Cardinality(I) -> T]
  BY <1>3, <1>4, <1>5
<1>7. ItemsAt(s, I) \in Seq(T) /\ Len(ItemsAt(s, I)) = Cardinality(I)
  BY <1>3, <1>6
<1>8. DOMAIN ItemsAt(s, I) = 1..Cardinality(I)
  BY <1>4
<1>9. ASSUME NEW n \in 1..Cardinality(I)
      PROVE  Ascending(I)[n] \in I /\ ItemsAt(s, I)[n] = s[Ascending(I)[n]]
  BY <1>3, <1>4
<1>10. ASSUME NEW i \in I
       PROVE  \E n \in DOMAIN ItemsAt(s, I) : ItemsAt(s, I)[n] = s[i]
  <2>1. PICK n \in 1..Cardinality(I) : Ascending(I)[n] = i
    BY <1>3
  <2>2. n \in DOMAIN ItemsAt(s, I) /\ ItemsAt(s, I)[n] = s[i]
    BY <2>1, <1>8, <1>9
  <2>. QED  BY <2>2
<1>. QED  BY <1>2, <1>3, <1>7, <1>9, <1>10

\* Every set of natural numbers has a least one: the induction of these proofs.
LEMMA LeastNumber ==
  ASSUME NEW T \in SUBSET Nat, T # {}
  PROVE  \E n \in T : \A m \in T : n <= m
<1>1. PICK k \in T : k \in Nat
  OBVIOUS
<1>. DEFINE S == {i \in T : i <= k}
<1>2. S \subseteq 0..k
  <2>1. \A i \in S : i \in Nat /\ i <= k
    OBVIOUS
  <2>2. \A i \in Nat : i <= k => i \in 0..k
    BY <1>1
  <2>. HIDE DEF S
  <2>. QED  BY <2>1, <2>2
<1>3. IsFiniteSet(S) /\ S \in SUBSET Int
  <2>. HIDE DEF S
  <2>1. IsFiniteSet(0..k) /\ 0..k \subseteq Int
    BY <1>1, FS_Interval
  <2>. QED  BY <1>2, <2>1, FS_Subset
<1>4. k \in S
  BY <1>1
<1>5. 1 \in 1..Cardinality(S)
  <2>1. Cardinality(S) \in Nat /\ Rank(S, k) \in 1..Cardinality(S)
    BY <1>3, <1>4, RankFacts
  <2>. QED  BY <2>1
<1>6. PICK n \in S : Rank(S, n) = 1
  BY <1>3, <1>5, RankFacts
<1>7. ASSUME NEW m \in T, m < n PROVE FALSE
  <2>1. m \in S
    BY <1>1, <1>7
  <2>2. Rank(S, m) \in 1..Cardinality(S) /\ Rank(S, m) < Rank(S, n)
    BY <1>3, <1>6, <1>7, <2>1, RankFacts
  <2>. QED  BY <1>6, <2>2
<1>8. n \in T /\ \A m \in T : m \in Nat /\ n \in Nat
  OBVIOUS
<1>. QED  BY <1>7, <1>8

=============================================================================
