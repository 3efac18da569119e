-------------------------- MODULE ArrangementProofs --------------------------
(***************************************************************************)
(* What counting gives: every element has its own place, the places are    *)
(* all taken, and a sequence that runs through the set in its order is the *)
(* arrangement.                                                            *)
(***************************************************************************)
EXTENDS Arrangement, Integers, FiniteSetTheorems, TLAPS

IsOrder(S, after) ==
    /\ \A i \in S : i \notin after[i]
    /\ \A i, j, k \in S : j \in after[i] /\ k \in after[j] => k \in after[i]
    /\ \A i, j \in S : i = j \/ j \in after[i] \/ i \in after[j]

LEMMA UpToGrows ==
    ASSUME NEW S, IsFiniteSet(S), NEW after, IsOrder(S, after)
    PROVE  /\ \A i \in S : Place(S, after, i) \in 1..Cardinality(S)
           /\ \A i, j \in S : j \in after[i] => Place(S, after, i) < Place(S, after, j)
<1>1. ASSUME NEW i \in S
      PROVE  IsFiniteSet(UpTo(S, after, i)) /\ Place(S, after, i) \in 1..Cardinality(S)
  <2> DEFINE P == UpTo(S, after, i)
  <2>1. P \in SUBSET S /\ P # {}
    BY DEF UpTo
  <2>2. IsFiniteSet(P) /\ Cardinality(P) <= Cardinality(S)
    BY <2>1, FS_Subset
  <2>3. Cardinality(P) \in Nat /\ Cardinality(S) \in Nat /\ Cardinality(P) # 0
    BY <2>1, <2>2, FS_CardinalityType, FS_EmptySet
  <2> HIDE DEF P
  <2>4. QED  BY <2>2, <2>3 DEF Place, P
<1>2. ASSUME NEW i \in S, NEW j \in S, j \in after[i]
      PROVE  Place(S, after, i) < Place(S, after, j)
  <2> DEFINE P == UpTo(S, after, i)  Q == UpTo(S, after, j)
  <2>1. P \in SUBSET Q
    BY <1>2 DEF UpTo, IsOrder
  <2>2. j \in Q /\ j \notin P
    BY <1>2 DEF UpTo, IsOrder
  <2>3. Cardinality(P) <= Cardinality(Q) /\ Cardinality(P) # Cardinality(Q)
    <3>1. IsFiniteSet(Q)
      BY <1>1
    <3> HIDE DEF P, Q
    <3>2. QED  BY <2>1, <2>2, <3>1, FS_Subset
  <2>4. Cardinality(P) \in Nat /\ Cardinality(Q) \in Nat
    BY <1>1 DEF Place
  <2> HIDE DEF P, Q
  <2>5. QED  BY <2>3, <2>4 DEF Place, P, Q
<1>3. QED  BY <1>1, <1>2

LEMMA PlacesAreTaken ==
    ASSUME NEW S, IsFiniteSet(S), NEW after, IsOrder(S, after)
    PROVE  /\ \A i, j \in S : Place(S, after, i) = Place(S, after, j) => i = j
           /\ \A k \in 1..Cardinality(S) : \E i \in S : Place(S, after, i) = k
<1> DEFINE n == Cardinality(S)
           f == [i \in S |-> Place(S, after, i)]
<1>1. n \in Nat
  BY FS_CardinalityType
<1>2. f \in [S -> 1..n]
  BY UpToGrows
<1>3. \A i, j \in S : Place(S, after, i) = Place(S, after, j) => i = j
  <2> SUFFICES ASSUME NEW i \in S, NEW j \in S, i # j
               PROVE  Place(S, after, i) # Place(S, after, j)
    OBVIOUS
  <2>1. j \in after[i] \/ i \in after[j]
    BY DEF IsOrder
  <2>2. Place(S, after, i) < Place(S, after, j) \/ Place(S, after, j) < Place(S, after, i)
    BY <2>1, UpToGrows
  <2>3. Place(S, after, i) \in Nat /\ Place(S, after, j) \in Nat
    BY <1>1, UpToGrows
  <2>4. QED  BY <2>2, <2>3
<1>4. f \in Injection(S, 1..n)
  BY <1>2, <1>3 DEF Injection, IsInjective
<1>5. IsFiniteSet(1..n) /\ Cardinality(1..n) = n
  BY <1>1, FS_Interval
<1>6. f \in Surjection(S, 1..n)
  <2> HIDE DEF f
  <2> QED  BY <1>4, <1>5, FS_Injection
<1>7. \A k \in 1..n : \E i \in S : f[i] = k
  BY <1>6 DEF Surjection
<1>8. QED  BY <1>3, <1>7

(* The arrangement runs through the set in its order.                       *)
LEMMA ArrangedInOrder ==
    ASSUME NEW S, IsFiniteSet(S), NEW after, IsOrder(S, after)
    PROVE  /\ Cardinality(S) \in Nat
           /\ Arranged(S, after) \in [1..Cardinality(S) -> S]
           /\ \A k \in 1..Cardinality(S) : Place(S, after, Arranged(S, after)[k]) = k
           /\ \A i \in S : /\ Place(S, after, i) \in 1..Cardinality(S)
                           /\ Arranged(S, after)[Place(S, after, i)] = i
           /\ \A k, l \in 1..Cardinality(S) :
                 Arranged(S, after)[l] \in after[Arranged(S, after)[k]] <=> k < l
<1> DEFINE n == Cardinality(S)
           f == Arranged(S, after)
<1>1. n \in Nat
  BY FS_CardinalityType
<1>2. \A k \in 1..n : f[k] \in S /\ Place(S, after, f[k]) = k
  BY PlacesAreTaken DEF Arranged
<1>3. \A i \in S : Place(S, after, i) \in 1..n /\ f[Place(S, after, i)] = i
  BY <1>2, UpToGrows, PlacesAreTaken
<1>4. f \in [1..n -> S]
  BY <1>2 DEF Arranged
<1>5. \A k, l \in 1..n : f[l] \in after[f[k]] <=> k < l
  <2> SUFFICES ASSUME NEW k \in 1..n, NEW l \in 1..n
               PROVE  f[l] \in after[f[k]] <=> k < l
    OBVIOUS
  <2>1. f[k] \in S /\ f[l] \in S /\ Place(S, after, f[k]) = k /\ Place(S, after, f[l]) = l
    BY <1>2
  <2> DEFINE x == f[k]  y == f[l]
  <2>2. y \in after[x] => k < l
    BY <2>1, UpToGrows
  <2>3. x \in after[y] => l < k
    BY <2>1, UpToGrows
  <2>4. x = y \/ y \in after[x] \/ x \in after[y]
    BY <2>1 DEF IsOrder
  <2>5. x = y => k = l
    BY <2>1
  <2> HIDE DEF x, y, f
  <2>6. y \in after[x] <=> k < l
    BY <1>1, <2>2, <2>3, <2>4, <2>5
  <2>7. QED  BY <2>6 DEF x, y
<1> HIDE DEF n, f
<1>6. QED  BY <1>1, <1>2, <1>3, <1>4, <1>5 DEF n, f

(* Only the arrangement does.                                               *)
LEMMA OnlyArranged ==
    ASSUME NEW S, NEW after, IsOrder(S, after), NEW m \in Nat, NEW g \in [1..m -> S],
           \A i \in S : \E k \in 1..m : g[k] = i,
           \A k, l \in 1..m : k < l => g[l] \in after[g[k]]
    PROVE  IsFiniteSet(S) /\ Cardinality(S) = m /\ Arranged(S, after) = g
<1>1. \A k, l \in 1..m : g[k] = g[l] => k = l
  <2> SUFFICES ASSUME NEW k \in 1..m, NEW l \in 1..m, g[k] = g[l], k < l
               PROVE  FALSE
    OBVIOUS
  <2>1. g[l] \in after[g[k]]
    OBVIOUS
  <2>2. QED  BY <2>1 DEF IsOrder
<1>2. g \in Bijection(1..m, S)
  BY <1>1 DEF Bijection, Injection, Surjection, IsInjective
<1>3. IsFiniteSet(S) /\ Cardinality(S) = m
  <2>1. ExistsBijection(1..m, S)
    BY <1>2 DEF ExistsBijection
  <2>2. IsFiniteSet(S)
    BY <2>1, FS_NatBijection
  <2>3. QED  BY <2>1, <2>2, FS_CountingElements
<1>4. ASSUME NEW k \in 1..m
      PROVE  Place(S, after, g[k]) = k
  <2> DEFINE h == [i \in 1..k |-> g[i]]
             P == UpTo(S, after, g[k])
  <2>1. \A i \in 1..k : h[i] \in P
    BY DEF UpTo
  <2>2. ASSUME NEW x \in P PROVE \E i \in 1..k : h[i] = x
    <3>1. PICK l \in 1..m : g[l] = x
      BY DEF UpTo
    <3>2. CASE x = g[k]
      BY <3>2
    <3>3. CASE g[k] \in after[g[l]] /\ k < l
      <4>1. g[l] \in after[g[k]] /\ g[k] \in S /\ g[l] \in S
        BY <3>3
      <4>2. QED  BY <3>3, <4>1 DEF IsOrder
    <3>4. CASE l <= k
      BY <3>1, <3>4
    <3>5. QED  BY <3>1, <3>2, <3>3, <3>4 DEF UpTo
  <2>3. h \in Bijection(1..k, P)
    <3>1. h \in [1..k -> P]
      BY <2>1
    <3>2. \A i, j \in 1..k : h[i] = h[j] => i = j
      BY <1>1
    <3> HIDE DEF P, h
    <3>3. QED  BY <2>2, <3>1, <3>2 DEF Bijection, Injection, Surjection, IsInjective
  <2>4. ExistsBijection(1..k, P)
    BY <2>3 DEF ExistsBijection
  <2>5. QED  BY <2>4, FS_CountingElements DEF Place
<1>5. ASSUME NEW k \in 1..m PROVE Arranged(S, after)[k] = g[k]
  <2>1. Arranged(S, after)[k] = CHOOSE i \in S : Place(S, after, i) = k
    BY <1>3 DEF Arranged
  <2>2. g[k] \in S /\ Place(S, after, g[k]) = k
    BY <1>4
  <2>3. \A i \in S : Place(S, after, i) = k => i = g[k]
    BY <1>3, <2>2, PlacesAreTaken
  <2>4. QED  BY <2>1, <2>2, <2>3
<1>6. Arranged(S, after) = g
  BY <1>3, <1>5 DEF Arranged
<1>7. QED  BY <1>3, <1>6

LEMMA AscendingIsOrder == \A S \in SUBSET Int : IsOrder(S, Ascending(S))
  BY DEF IsOrder, Ascending
=============================================================================
