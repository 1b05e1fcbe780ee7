--------------------------- MODULE ScoringProofs ---------------------------
(***************************************************************************)
(* What Scoring promises, for every set of guests and photos, and what     *)
(* Memories promises, for every set of batches and every limit.            *)
(*                                                                         *)
(* That the stored crown and the recap events follow the placing set rests *)
(* on the type invariant and on RowsRefer: a photo that is stored now      *)
(* brings no likes with it, so an upload leaves the placing set alone.     *)
(***************************************************************************)
EXTENDS MCParts, TLAPS, FiniteSetTheorems, SequenceTheorems

-----------------------------------------------------------------------------
(* The placing set depends on the visible photos that are liked.           *)

LEMMA PlacersOfLiked ==
    ASSUME NEW ph, NEW new, NEW lk, Liked(ph, lk) = Liked(new, lk)
    PROVE  Placers(ph, lk) = Placers(new, lk)
<1>1. VisibleLikeCounts(ph, lk) = VisibleLikeCounts(new, lk)
  BY DEF VisibleLikeCounts
<1>2. crowdFavorites(ph, lk) = crowdFavorites(new, lk)
  BY <1>1 DEF crowdFavorites
<1> QED  BY <1>2 DEF Placers

LEMMA NobodyPlaces ==
    ASSUME NEW ph, NEW lk, Liked(ph, lk) = {}
    PROVE  Placers(ph, lk) = {}
<1> DEFINE best == BestPerGuest(VisibleLikeCounts(ph, lk))
<1>1. DOMAIN VisibleLikeCounts(ph, lk) = {}
  BY FS_EmptySet DEF VisibleLikeCounts, Sorted
<1>2. DOMAIN best = {}
  <2> DEFINE rows  == VisibleLikeCounts(ph, lk)
             first == {n \in DOMAIN rows : \A m \in 1 .. n - 1 : Owner[rows[m]] # Owner[rows[n]]}
             at    == Sorted(first, [n \in first |-> {m \in first : m < n}])
  <2>1. first = {}
    BY <1>1
  <2>2. DOMAIN at = {}
    <3> HIDE DEF first
    <3> QED  BY <2>1, FS_EmptySet DEF Sorted
  <2>3. DOMAIN best = DOMAIN at
    BY DEF BestPerGuest
  <2> QED  BY <2>2, <2>3
<1>3. crowdFavorites(ph, lk) = {}
  <2> HIDE DEF best
  <2>1. {n \in DOMAIN best : standardRank([n_1 \in DOMAIN best |-> LikeCount(lk, best[n_1])])[n]
                                <= Len(PlacePoints)} = {}
    BY <1>2
  <2> QED  BY <2>1 DEF crowdFavorites, best
<1> QED  BY <1>3 DEF Placers

-----------------------------------------------------------------------------
(* Sorting.  The number of members in front of each is a bijection between *)
(* a finite set and the places of its list; no induction is needed.        *)

IsOrder(S, inFront) ==
    /\ inFront \in [S -> SUBSET S]
    /\ \A x \in S : x \notin inFront[x]
    /\ \A x, y \in S : x \in inFront[y] => inFront[x] \subseteq inFront[y]
    /\ \A x, y \in S : x # y => x \in inFront[y] \/ y \in inFront[x]

LEMMA InFrontIsFewer ==
    ASSUME NEW S, IsFiniteSet(S), NEW inFront, IsOrder(S, inFront),
           NEW x \in S, NEW y \in S, x \in inFront[y]
    PROVE  Cardinality(inFront[x]) < Cardinality(inFront[y])
<1>1. inFront[x] \subseteq inFront[y] /\ inFront[y] \subseteq S /\ x \notin inFront[x]
  BY DEF IsOrder
<1>2. IsFiniteSet(inFront[y])
  BY <1>1, FS_Subset
<1>3. /\ Cardinality(inFront[x]) <= Cardinality(inFront[y])
      /\ Cardinality(inFront[x]) # Cardinality(inFront[y])
  BY <1>1, <1>2, FS_Subset
<1>4. Cardinality(inFront[x]) \in Nat /\ Cardinality(inFront[y]) \in Nat
  BY <1>1, <1>2, FS_Subset, FS_CardinalityType
<1> QED  BY <1>3, <1>4

LEMMA PlacesOfSorted ==
    ASSUME NEW S, IsFiniteSet(S), NEW inFront, IsOrder(S, inFront)
    PROVE  /\ Cardinality(S) \in Nat
           /\ \A x \in S : Cardinality(inFront[x]) \in 0 .. Cardinality(S) - 1
           /\ \A i \in 1 .. Cardinality(S) : \E x \in S : Cardinality(inFront[x]) = i - 1
<1> DEFINE n     == Cardinality(S)
           place == [x \in S |-> 1 + Cardinality(inFront[x])]
<1>1. n \in Nat
  BY FS_CardinalityType
<1>2. ASSUME NEW x \in S PROVE Cardinality(inFront[x]) \in 0 .. n - 1
  <2>1. inFront[x] \subseteq S /\ x \notin inFront[x]
    BY DEF IsOrder
  <2>2. IsFiniteSet(inFront[x]) /\ Cardinality(inFront[x]) <= n /\ Cardinality(inFront[x]) # n
    BY <2>1, FS_Subset
  <2>3. Cardinality(inFront[x]) \in Nat
    BY <2>2, FS_CardinalityType
  <2> QED  BY <1>1, <2>2, <2>3
<1>3. place \in Injection(S, 1 .. n)
  <2>1. place \in [S -> 1 .. n]
    BY <1>1, <1>2
  <2>2. ASSUME NEW x \in S, NEW y \in S, x # y PROVE place[x] # place[y]
    <3>1. x \in inFront[y] \/ y \in inFront[x]
      BY <2>2 DEF IsOrder
    <3>2. Cardinality(inFront[x]) # Cardinality(inFront[y])
      BY <3>1, <1>2, InFrontIsFewer
    <3> QED  BY <3>2, <1>2
  <2> QED  BY <2>1, <2>2 DEF Injection, IsInjective
<1>4. IsFiniteSet(1 .. n) /\ Cardinality(1 .. n) = n
  BY <1>1, FS_Interval
<1>5. place \in Surjection(S, 1 .. n)
  <2> HIDE DEF place
  <2> QED  BY <1>3, <1>4, FS_Injection
<1>6. ASSUME NEW i \in 1 .. n PROVE \E x \in S : Cardinality(inFront[x]) = i - 1
  <2>1. PICK x \in S : place[x] = i
    BY <1>5 DEF Surjection
  <2> QED  BY <2>1, <1>1, <1>2
<1> QED  BY <1>1, <1>2, <1>6

LEMMA SortedIsInOrder ==
    ASSUME NEW S, IsFiniteSet(S), NEW inFront, IsOrder(S, inFront)
    PROVE  /\ Cardinality(S) \in Nat
           /\ Sorted(S, inFront) \in [1 .. Cardinality(S) -> S]
           /\ \A x \in S : \E i \in 1 .. Cardinality(S) : Sorted(S, inFront)[i] = x
           /\ \A i, j \in 1 .. Cardinality(S) :
                  i < j => Sorted(S, inFront)[i] \in inFront[Sorted(S, inFront)[j]]
<1> DEFINE n == Cardinality(S)
           s == Sorted(S, inFront)
<1>1. n \in Nat
  BY PlacesOfSorted
<1>2. ASSUME NEW i \in 1 .. n PROVE s[i] \in S /\ Cardinality(inFront[s[i]]) = i - 1
  <2>1. s[i] = CHOOSE x \in S : Cardinality(inFront[x]) = i - 1
    BY DEF Sorted
  <2> QED  BY <2>1, PlacesOfSorted
<1>3. s \in [1 .. n -> S]
  BY <1>2 DEF Sorted
<1>4. ASSUME NEW x \in S PROVE \E i \in 1 .. n : s[i] = x
  <2> DEFINE i == Cardinality(inFront[x]) + 1
  <2>1. i \in 1 .. n /\ Cardinality(inFront[x]) = i - 1
    BY PlacesOfSorted
  <2>2. s[i] \in S /\ Cardinality(inFront[s[i]]) = Cardinality(inFront[x])
    BY <2>1, <1>2
  <2>3. s[i] = x
    <3> SUFFICES ASSUME s[i] # x PROVE FALSE
      OBVIOUS
    <3>1. s[i] \in inFront[x] \/ x \in inFront[s[i]]
      BY <2>2 DEF IsOrder
    <3>2. Cardinality(inFront[x]) \in Nat
      BY PlacesOfSorted
    <3>3. Cardinality(inFront[s[i]]) # Cardinality(inFront[x])
      <4> HIDE DEF s, i
      <4>1. CASE s[i] \in inFront[x]
        BY <4>1, <2>2, <3>2, InFrontIsFewer
      <4>2. CASE x \in inFront[s[i]]
        BY <4>2, <2>2, <3>2, InFrontIsFewer
      <4> QED  BY <3>1, <4>1, <4>2
    <3> QED  BY <2>2, <3>3
  <2> QED  BY <2>1, <2>3
<1>5. ASSUME NEW i \in 1 .. n, NEW j \in 1 .. n, i < j PROVE s[i] \in inFront[s[j]]
  <2>1. /\ s[i] \in S /\ Cardinality(inFront[s[i]]) = i - 1
        /\ s[j] \in S /\ Cardinality(inFront[s[j]]) = j - 1
    BY <1>2
  <2> HIDE DEF s
  <2>2. s[i] # s[j]
    BY <2>1, <1>1, <1>5
  <2>3. s[j] \notin inFront[s[i]]
    <3> SUFFICES ASSUME s[j] \in inFront[s[i]] PROVE FALSE
      OBVIOUS
    <3>1. Cardinality(inFront[s[j]]) < Cardinality(inFront[s[i]])
      BY <2>1, InFrontIsFewer
    <3> QED  BY <3>1, <2>1, <1>1, <1>5
  <2> QED  BY <2>1, <2>2, <2>3 DEF IsOrder
<1> QED  BY <1>1, <1>3, <1>4, <1>5

LEMMA NumbersAreOrdered ==
    ASSUME NEW S \in SUBSET Nat
    PROVE  IsOrder(S, [n \in S |-> {m \in S : m < n}])
<1> DEFINE inFront == [n \in S |-> {m \in S : m < n}]
<1>1. inFront \in [S -> SUBSET S]
  OBVIOUS
<1>2. ASSUME NEW m \in S, NEW n \in S PROVE m \in inFront[n] <=> m < n
  OBVIOUS
<1> HIDE DEF inFront
<1>3. \A m \in S : m \notin inFront[m]
  BY <1>2
<1>4. ASSUME NEW m \in S, NEW n \in S, m \in inFront[n] PROVE inFront[m] \subseteq inFront[n]
  <2> SUFFICES ASSUME NEW k \in inFront[m] PROVE k \in inFront[n]
    OBVIOUS
  <2>1. k \in S
    BY <1>1
  <2>2. k < m /\ m < n
    BY <1>2, <1>4, <2>1
  <2>3. k \in Nat /\ m \in Nat /\ n \in Nat
    BY <2>1
  <2>4. k < n
    BY <2>2, <2>3
  <2> QED  BY <1>2, <2>1, <2>4
<1>5. ASSUME NEW m \in S, NEW n \in S, m # n PROVE m \in inFront[n] \/ n \in inFront[m]
  <2>1. m < n \/ n < m
    BY <1>5
  <2> QED  BY <1>2, <2>1
<1>6. IsOrder(S, inFront)
  BY <1>1, <1>3, <1>4, <1>5 DEF IsOrder
<1> QED  BY <1>6 DEF inFront

LEMMA FrontExists ==
    ASSUME NEW S, IsFiniteSet(S), S # {}, NEW inFront, IsOrder(S, inFront)
    PROVE  \E x \in S : inFront[x] = {}
<1>1. Cardinality(S) \in Nat /\ Cardinality(S) # 0
  BY FS_CardinalityType, FS_EmptySet
<1>2. 1 \in 1 .. Cardinality(S)
  BY <1>1
<1>3. PICK x \in S : Cardinality(inFront[x]) = 1 - 1
  BY <1>2, PlacesOfSorted
<1>4. inFront[x] \in SUBSET S
  BY DEF IsOrder
<1>5. IsFiniteSet(inFront[x])
  BY <1>4, FS_Subset
<1>6. inFront[x] = {}
  BY <1>3, <1>5, FS_EmptySet
<1> QED  BY <1>6

LEMMA LeastExists ==
    ASSUME NEW S \in SUBSET Nat, IsFiniteSet(S), S # {}
    PROVE  \E m \in S : \A n \in S : m <= n
<1> DEFINE inFront == [n \in S |-> {m \in S : m < n}]
<1>1. IsOrder(S, inFront)
  BY NumbersAreOrdered
<1>2. PICK m \in S : inFront[m] = {}
  <2> HIDE DEF inFront
  <2> QED  BY <1>1, FrontExists
<1>3. ASSUME NEW n \in S PROVE m <= n
  BY <1>2
<1> QED  BY <1>3

LEMMA MaxIsGreatest ==
    ASSUME NEW S \in SUBSET Nat, IsFiniteSet(S), S # {}
    PROVE  Max(S) \in S /\ \A n \in S : Max(S) >= n
<1> DEFINE inFront == [n \in S |-> {m \in S : m > n}]
<1>1. inFront \in [S -> SUBSET S]
  OBVIOUS
<1>2. ASSUME NEW m \in S, NEW n \in S PROVE m \in inFront[n] <=> m > n
  OBVIOUS
<1>3. IsOrder(S, inFront)
  <2> HIDE DEF inFront
  <2>1. \A m \in S : m \notin inFront[m]
    BY <1>2
  <2>2. ASSUME NEW m \in S, NEW n \in S, m \in inFront[n], NEW k \in inFront[m]
        PROVE  k \in inFront[n]
    <3>1. k \in S
      BY <1>1
    <3>2. k > m /\ m > n
      BY <1>2, <2>2, <3>1
    <3>3. k \in Nat /\ m \in Nat /\ n \in Nat
      BY <3>1
    <3>4. k > n
      BY <3>2, <3>3
    <3> QED  BY <1>2, <3>1, <3>4
  <2>3. \A m, n \in S : m # n => m \in inFront[n] \/ n \in inFront[m]
    BY <1>2
  <2> QED  BY <1>1, <2>1, <2>2, <2>3 DEF IsOrder
<1>4. PICK m \in S : inFront[m] = {}
  <2> HIDE DEF inFront
  <2> QED  BY <1>3, FrontExists
<1>5. \A n \in S : m >= n
  BY <1>2, <1>4
<1> QED  BY <1>5 DEF Max

LEMMA MinIsUnique ==
    ASSUME NEW S \in SUBSET Nat, NEW m \in S, \A n \in S : m <= n
    PROVE  Min(S) = m
<1>1. Min(S) \in S /\ Min(S) <= m
  <2>1. \E x \in S : \A y \in S : x =< y
    OBVIOUS
  <2>2. Min(S) \in S /\ \A y \in S : Min(S) =< y
    BY <2>1 DEF Min
  <2> QED  BY <2>2
<1>2. m <= Min(S) /\ Min(S) \in Nat /\ m \in Nat
  BY <1>1
<1> QED  BY <1>1, <1>2

-----------------------------------------------------------------------------
(* The standard rank of a value is one more than the values above it, so a *)
(* tie shares a rank and leaves a gap below.                               *)

Above(values, i) == {j \in DOMAIN values : values[j] > values[i]}

LEMMA StandardRankCounts ==
    ASSUME NEW values \in Seq(Nat),
           \A i, j \in DOMAIN values : i < j => values[i] >= values[j]
    PROVE  standardRank(values) = [i \in DOMAIN values |-> 1 + Cardinality(Above(values, i))]
<1> DEFINE n         == Len(values)
           IsRank(f) == f = [i \in 1 .. n |-> IF i > 1 /\ values[i] = values[i - 1]
                                              THEN f[i - 1] ELSE i]
           counted   == [i \in 1 .. n |-> 1 + Cardinality(Above(values, i))]
<1>1. n \in Nat /\ DOMAIN values = 1 .. n /\ \A i \in 1 .. n : values[i] \in Nat
  OBVIOUS
<1>a. \A i, j \in 1 .. n : i < j => values[i] >= values[j]
  BY <1>1
<1>2. ASSUME NEW i \in 1 .. n, ~(i > 1 /\ values[i] = values[i - 1])
      PROVE  1 + Cardinality(Above(values, i)) = i
  <2>1. Above(values, i) = 1 .. i - 1
    <3>1. ASSUME NEW j \in 1 .. i - 1 PROVE values[j] > values[i]
      <4>1. j \in 1 .. n /\ i - 1 \in 1 .. n /\ j <= i - 1 /\ i - 1 < i
        BY <1>1
      <4> HIDE DEF n
      <4>2. values[j] >= values[i - 1]
        <5>1. j < i - 1 \/ j = i - 1
          BY <4>1, <1>1
        <5>2. values[i - 1] >= values[i - 1]
          BY <4>1, <1>1
        <5> QED  BY <4>1, <5>1, <5>2, <1>a
      <4>3. values[i - 1] >= values[i]
        BY <4>1, <1>a
      <4>4. values[i - 1] # values[i]
        BY <4>1, <1>1, <1>2
      <4> QED  BY <4>1, <4>2, <4>3, <4>4, <1>1
    <3>2. ASSUME NEW j \in 1 .. n, values[j] > values[i] PROVE j \in 1 .. i - 1
      BY <1>1, <3>2
    <3> QED  BY <1>1, <3>1, <3>2 DEF Above
  <2>2. Cardinality(1 .. i - 1) = i - 1
    <3>1. 1 \in Int /\ i - 1 \in Int /\ i - 1 >= 0
      BY <1>1
    <3>2. Cardinality(1 .. i - 1) = IF 1 > i - 1 THEN 0 ELSE i - 1 - 1 + 1
      BY <3>1, FS_Interval
    <3> QED  BY <3>1, <3>2
  <2> QED  BY <2>1, <2>2, <1>1
<1>3. ASSUME NEW i \in 1 .. n, i > 1, values[i] = values[i - 1]
      PROVE  Above(values, i) = Above(values, i - 1)
  BY <1>3 DEF Above
<1>4. IsRank(counted)
  <2>1. ASSUME NEW i \in 1 .. n
        PROVE  counted[i] = IF i > 1 /\ values[i] = values[i - 1] THEN counted[i - 1] ELSE i
    <3>1. CASE i > 1 /\ values[i] = values[i - 1]
      BY <3>1, <1>1, <1>3
    <3>2. CASE ~(i > 1 /\ values[i] = values[i - 1])
      BY <3>2, <1>2
    <3> QED  BY <3>1, <3>2
  <2> QED  BY <2>1
<1>5. standardRank(values) = CHOOSE f : IsRank(f)
  BY DEF standardRank
<1>6. PICK f : f = standardRank(values) /\ IsRank(f)
  <2> HIDE DEF IsRank, counted
  <2> QED  BY <1>4, <1>5
<1>7. ASSUME NEW i \in 1 .. n PROVE f[i] = counted[i]
  <2> DEFINE wrong == {k \in 1 .. n : f[k] # counted[k]}
  <2> SUFFICES ASSUME wrong # {} PROVE FALSE
    OBVIOUS
  <2>1. wrong \in SUBSET Nat /\ IsFiniteSet(wrong)
    <3>1. wrong \in SUBSET (1 .. n)
      OBVIOUS
    <3>2. IsFiniteSet(1 .. n)
      BY <1>1, FS_Interval
    <3>3. 1 .. n \subseteq Nat
      BY <1>1
    <3> HIDE DEF wrong
    <3> QED  BY <3>1, <3>2, <3>3, FS_Subset
  <2>2. PICK k \in wrong : \A m \in wrong : k <= m
    <3> HIDE DEF wrong
    <3> QED  BY <2>1, LeastExists
  <2>3. k \in 1 .. n /\ f[k] # counted[k]
    OBVIOUS
  <2>4. CASE k > 1 /\ values[k] = values[k - 1]
    <3>1. k - 1 \in 1 .. n /\ k - 1 \notin wrong
      BY <2>2, <2>3, <2>4, <1>1
    <3>2. f[k - 1] = counted[k - 1]
      BY <3>1
    <3>3. f[k] = f[k - 1]
      BY <1>6, <2>3, <2>4
    <3>4. counted[k] = counted[k - 1]
      BY <1>4, <2>3, <2>4
    <3> QED  BY <2>3, <3>2, <3>3, <3>4
  <2>5. CASE ~(k > 1 /\ values[k] = values[k - 1])
    <3>1. f[k] = k
      BY <1>6, <2>3, <2>5
    <3>2. counted[k] = k
      BY <1>4, <2>3, <2>5
    <3> QED  BY <2>3, <3>1, <3>2
  <2> QED  BY <2>4, <2>5
<1>8. f = counted
  BY <1>6, <1>7
<1> QED  BY <1>1, <1>6, <1>8

-----------------------------------------------------------------------------
(* The crowd's favorites: the rows are the liked photos in order, and the  *)
(* best rows are of different guests, each in front of the guest's others. *)

LEMMA CountsAreNumbers ==
    ASSUME NEW lk \in [Photos -> SUBSET Guests], NEW p \in Photos
    PROVE  /\ IsFiniteSet(lk[p]) /\ LikeCount(lk, p) \in Nat
           /\ LikeCount(lk, p) > 0 <=> lk[p] # {}
<1>1. lk[p] \in SUBSET Guests /\ IsFiniteSet(Guests)
  BY ScoringAssumption DEF ScoringAssumption
<1>2. IsFiniteSet(lk[p])
  BY <1>1, FS_Subset
<1>3. Cardinality(lk[p]) \in Nat /\ (Cardinality(lk[p]) = 0 <=> lk[p] = {})
  BY <1>2, FS_CardinalityType, FS_EmptySet
<1> QED  BY <1>2, <1>3 DEF LikeCount

LEMMA PhotosAreOrdered ==
    ASSUME NEW lk \in [Photos -> SUBSET Guests], NEW R \in SUBSET Photos
    PROVE  IsOrder(R, [q \in R |-> {p \in R : Ahead(lk, p, q)}])
<1> DEFINE inFront == [q \in R |-> {p \in R : Ahead(lk, p, q)}]
<1>1. inFront \in [R -> SUBSET R]
  OBVIOUS
<1>2. ASSUME NEW p \in R, NEW q \in R PROVE p \in inFront[q] <=> Ahead(lk, p, q)
  OBVIOUS
<1>3. \A p \in R : p \in Nat /\ LikeCount(lk, p) \in Nat
  BY CountsAreNumbers, ScoringAssumption DEF ScoringAssumption
<1> HIDE DEF inFront
<1>4. \A p \in R : p \notin inFront[p]
  BY <1>2, <1>3 DEF Ahead
<1>5. ASSUME NEW p \in R, NEW q \in R, p \in inFront[q] PROVE inFront[p] \subseteq inFront[q]
  <2> SUFFICES ASSUME NEW k \in inFront[p] PROVE k \in inFront[q]
    OBVIOUS
  <2>1. k \in R
    BY <1>1
  <2>2. Ahead(lk, k, p) /\ Ahead(lk, p, q)
    BY <1>2, <1>5, <2>1
  <2>3. Ahead(lk, k, q)
    BY <1>3, <2>1, <2>2 DEF Ahead
  <2> QED  BY <1>2, <2>1, <2>3
<1>6. \A p, q \in R : p # q => p \in inFront[q] \/ q \in inFront[p]
  BY <1>2, <1>3 DEF Ahead
<1>7. IsOrder(R, inFront)
  BY <1>1, <1>4, <1>5, <1>6 DEF IsOrder
<1> QED  BY <1>7 DEF inFront

LEMMA RowsAreInOrder ==
    ASSUME NEW ph, NEW lk \in [Photos -> SUBSET Guests]
    PROVE  LET rows == VisibleLikeCounts(ph, lk)
               n    == Cardinality(Liked(ph, lk))
           IN  /\ n \in Nat
               /\ rows \in [1 .. n -> Liked(ph, lk)]
               /\ \A p \in Liked(ph, lk) : \E i \in 1 .. n : rows[i] = p
               /\ \A i, j \in 1 .. n : i < j => Ahead(lk, rows[i], rows[j])
<1> DEFINE R       == Liked(ph, lk)
           rows    == VisibleLikeCounts(ph, lk)
           n       == Cardinality(R)
           inFront == [q \in R |-> {p \in R : Ahead(lk, p, q)}]
<1>1. R \in SUBSET Photos
  BY DEF Liked
<1>2. IsFiniteSet(R)
  BY <1>1, FS_Subset, ScoringAssumption DEF ScoringAssumption
<1>3. rows = Sorted(R, inFront)
  BY DEF VisibleLikeCounts
<1>4. \A p, q \in R : p \in inFront[q] => Ahead(lk, p, q)
  OBVIOUS
<1>5. IsOrder(R, inFront)
  BY <1>1, PhotosAreOrdered
<1> HIDE DEF inFront, R, rows
<1>6. /\ n \in Nat /\ rows \in [1 .. n -> R]
      /\ \A p \in R : \E i \in 1 .. n : rows[i] = p
      /\ \A i, j \in 1 .. n : i < j => rows[i] \in inFront[rows[j]]
  BY <1>2, <1>3, <1>5, SortedIsInOrder
<1>7. \A i, j \in 1 .. n : i < j => Ahead(lk, rows[i], rows[j])
  BY <1>4, <1>6
<1> QED  BY <1>6, <1>7 DEF R, rows

LEMMA BestIsOnePerGuest ==
    ASSUME NEW ph, NEW lk \in [Photos -> SUBSET Guests]
    PROVE  \E m \in Nat :
             LET best == BestPerGuest(VisibleLikeCounts(ph, lk))
             IN  /\ best \in [1 .. m -> Liked(ph, lk)]
                 /\ \A i, j \in 1 .. m : i < j => Ahead(lk, best[i], best[j])
                 /\ \A i, j \in 1 .. m : Owner[best[i]] = Owner[best[j]] => i = j
                 /\ \A p \in Liked(ph, lk) : \E i \in 1 .. m :
                        /\ Owner[best[i]] = Owner[p]
                        /\ best[i] = p \/ Ahead(lk, best[i], p)
<1> DEFINE R     == Liked(ph, lk)
           rows  == VisibleLikeCounts(ph, lk)
           n     == Cardinality(R)
           first == {k \in DOMAIN rows : \A j \in 1 .. k - 1 : Owner[rows[j]] # Owner[rows[k]]}
           m     == Cardinality(first)
           at    == Sorted(first, [k \in first |-> {j \in first : j < k}])
           best  == BestPerGuest(rows)
<1>1. /\ n \in Nat /\ rows \in [1 .. n -> R]
      /\ \A p \in R : \E i \in 1 .. n : rows[i] = p
      /\ \A i, j \in 1 .. n : i < j => Ahead(lk, rows[i], rows[j])
  BY RowsAreInOrder
<1>2. best = [i \in DOMAIN at |-> rows[at[i]]]
  BY DEF BestPerGuest
<1> HIDE DEF R, rows, n, best
<1>3. DOMAIN rows = 1 .. n
  BY <1>1
<1>4. first \in SUBSET (1 .. n) /\ first \in SUBSET Nat
  BY <1>1, <1>3
<1>5. IsFiniteSet(first)
  <2> HIDE DEF first
  <2>1. IsFiniteSet(1 .. n)
    BY <1>1, FS_Interval
  <2> QED  BY <1>4, <2>1, FS_Subset
<1>6. /\ m \in Nat /\ at \in [1 .. m -> first]
      /\ \A k \in first : \E i \in 1 .. m : at[i] = k
      /\ \A i, j \in 1 .. m : i < j => at[i] < at[j]
  <2> DEFINE inFront == [k \in first |-> {j \in first : j < k}]
  <2> HIDE DEF first
  <2>1. \A j, k \in first : j \in inFront[k] => j < k
    OBVIOUS
  <2>2. IsOrder(first, inFront)
    BY <1>4, NumbersAreOrdered
  <2>3. at = Sorted(first, inFront)
    OBVIOUS
  <2> HIDE DEF inFront, at
  <2>4. /\ m \in Nat /\ at \in [1 .. m -> first]
        /\ \A k \in first : \E i \in 1 .. m : at[i] = k
        /\ \A i, j \in 1 .. m : i < j => at[i] \in inFront[at[j]]
    BY <1>5, <2>2, <2>3, SortedIsInOrder
  <2> QED  BY <2>1, <2>4
<1>7. \A k \in first : k \in 1 .. n /\ \A j \in 1 .. k - 1 : Owner[rows[j]] # Owner[rows[k]]
  BY <1>3
<1>8. ASSUME NEW k \in 1 .. n
      PROVE  \E l \in first : l <= k /\ Owner[rows[l]] = Owner[rows[k]]
  <2> DEFINE same == {j \in 1 .. k : Owner[rows[j]] = Owner[rows[k]]}
  <2>1. same \in SUBSET (1 .. k) /\ same \in SUBSET Nat /\ k \in same
    BY <1>1
  <2>2. IsFiniteSet(same)
    <3>1. IsFiniteSet(1 .. k)
      BY <1>1, FS_Interval
    <3> HIDE DEF same
    <3> QED  BY <2>1, <3>1, FS_Subset
  <2>3. PICK l \in same : \A j \in same : l <= j
    <3> HIDE DEF same
    <3> QED  BY <2>1, <2>2, LeastExists
  <2>4. l \in 1 .. n /\ l <= k /\ Owner[rows[l]] = Owner[rows[k]]
    BY <1>1
  <2>5. ASSUME NEW j \in 1 .. l - 1 PROVE Owner[rows[j]] # Owner[rows[l]]
    <3>1. j \in 1 .. k /\ ~(l <= j)
      BY <2>4, <1>1
    <3>2. j \notin same
      BY <3>1, <2>3
    <3> QED  BY <3>1, <3>2, <2>4
  <2>6. l \in first
    BY <2>4, <2>5, <1>3
  <2> QED  BY <2>4, <2>6
<1> HIDE DEF first, at, m
<1>9. best = [i \in 1 .. m |-> rows[at[i]]]
  BY <1>2, <1>6
<1>10. \A i \in 1 .. m : at[i] \in first /\ at[i] \in 1 .. n /\ best[i] = rows[at[i]] /\ best[i] \in R
  BY <1>1, <1>4, <1>6, <1>9
<1>11. best \in [1 .. m -> R]
  BY <1>9, <1>10
<1>12. \A i, j \in 1 .. m : i < j => Ahead(lk, best[i], best[j])
  BY <1>1, <1>6, <1>10
<1>13. ASSUME NEW i \in 1 .. m, NEW j \in 1 .. m, Owner[best[i]] = Owner[best[j]] PROVE i = j
  <2>1. \A k \in 1 .. m, l \in 1 .. m : k < l => Owner[best[k]] # Owner[best[l]]
    <3> SUFFICES ASSUME NEW k \in 1 .. m, NEW l \in 1 .. m, k < l
                 PROVE  Owner[rows[at[k]]] # Owner[rows[at[l]]]
      BY <1>10
    <3>1. at[k] < at[l] /\ at[k] \in 1 .. n /\ at[l] \in 1 .. n /\ at[l] \in first
      BY <1>6, <1>10
    <3>2. at[k] \in 1 .. at[l] - 1
      BY <3>1
    <3> QED  BY <3>1, <3>2, <1>7
  <2>2. ~(i < j) /\ ~(j < i)
    BY <1>13, <2>1
  <2> QED  BY <2>2, <1>6
<1>14. ASSUME NEW p \in R
       PROVE  \E i \in 1 .. m : /\ Owner[best[i]] = Owner[p]
                                /\ best[i] = p \/ Ahead(lk, best[i], p)
  <2>1. PICK k \in 1 .. n : rows[k] = p
    BY <1>1
  <2>2. PICK l \in first : l <= k /\ Owner[rows[l]] = Owner[p]
    BY <2>1, <1>8
  <2>3. PICK i \in 1 .. m : at[i] = l
    BY <1>6
  <2>4. best[i] = rows[l] /\ l \in 1 .. n
    BY <1>10, <2>3
  <2>5. rows[l] = p \/ Ahead(lk, rows[l], p)
    <3>1. CASE l = k
      BY <3>1, <2>1
    <3>2. CASE l < k
      BY <3>2, <2>1, <2>4, <1>1
    <3> QED  BY <3>1, <3>2, <2>2, <2>4
  <2> QED  BY <2>2, <2>4, <2>5
<1>15. m \in Nat
  BY <1>6
<1> QED  BY <1>11, <1>12, <1>13, <1>14, <1>15 DEF R, rows, best

-----------------------------------------------------------------------------
(* The reference: each guest's score is the likes of the best visible      *)
(* photo, and a place is one more than the number of guests above.         *)

ScoreOf(ph, lk) == [g \in Guests |-> Max({0} \cup {LikeCount(lk, p) : p \in Shown(ph, g)})]

LEMMA ScoreIsBest ==
    ASSUME NEW ph, NEW lk \in [Photos -> SUBSET Guests], NEW g \in Guests
    PROVE  /\ ScoreOf(ph, lk)[g] \in Nat
           /\ \A p \in Shown(ph, g) : LikeCount(lk, p) <= ScoreOf(ph, lk)[g]
           /\ ScoreOf(ph, lk)[g] > 0 =>
                  \E p \in Shown(ph, g) : LikeCount(lk, p) = ScoreOf(ph, lk)[g]
<1> DEFINE counts == {0} \cup {LikeCount(lk, p) : p \in Shown(ph, g)}
<1>1. \A p \in Shown(ph, g) : p \in Photos
  BY DEF Shown
<1>2. \A p \in Photos : LikeCount(lk, p) \in Nat
  BY CountsAreNumbers
<1>3. counts \in SUBSET Nat /\ counts # {}
  BY <1>1, <1>2
<1>4. Cardinality(Guests) \in Nat
  BY FS_CardinalityType, ScoringAssumption DEF ScoringAssumption
<1>5. ASSUME NEW p \in Photos PROVE LikeCount(lk, p) <= Cardinality(Guests)
  BY FS_Subset, ScoringAssumption DEF ScoringAssumption, LikeCount
<1>6. \A c \in counts : c <= Cardinality(Guests)
  BY <1>1, <1>4, <1>5
<1>7. IsFiniteSet(counts)
  <2> HIDE DEF counts
  <2> QED  BY <1>3, <1>4, <1>6, FS_BoundedSetOfNaturals
<1>8. Max(counts) \in counts /\ \A c \in counts : Max(counts) >= c
  <2> HIDE DEF counts
  <2> QED  BY <1>3, <1>7, MaxIsGreatest
<1>9. ScoreOf(ph, lk)[g] = Max(counts)
  BY DEF ScoreOf
<1>10. \A p \in Shown(ph, g) : LikeCount(lk, p) \in counts
  OBVIOUS
<1>11. Max(counts) \in Nat /\ (Max(counts) > 0 =>
                                  \E p \in Shown(ph, g) : LikeCount(lk, p) = Max(counts))
  BY <1>3, <1>8
<1>12. \A p \in Shown(ph, g) : LikeCount(lk, p) <= Max(counts)
  BY <1>1, <1>2, <1>8, <1>10, <1>11
<1> QED  BY <1>9, <1>11, <1>12

PlaceOf(ph, lk, g) == 1 + Cardinality({h \in Guests : ScoreOf(ph, lk)[h] > ScoreOf(ph, lk)[g]})
OldestOf(ph, lk, g) == Min({p \in Shown(ph, g) : LikeCount(lk, p) = ScoreOf(ph, lk)[g]})

\* What the best rows are to the reference.
Stands(ph, lk, best, m) ==
    /\ m \in Nat /\ best \in [1 .. m -> Liked(ph, lk)]
    /\ \A i \in 1 .. m : /\ Owner[best[i]] \in Guests
                         /\ ScoreOf(ph, lk)[Owner[best[i]]] > 0
                         /\ LikeCount(lk, best[i]) = ScoreOf(ph, lk)[Owner[best[i]]]
                         /\ best[i] = OldestOf(ph, lk, Owner[best[i]])
    /\ \A i, j \in 1 .. m : Owner[best[i]] = Owner[best[j]] => i = j
    /\ \A i, j \in 1 .. m : i < j => LikeCount(lk, best[i]) >= LikeCount(lk, best[j])
    /\ \A g \in Guests : ScoreOf(ph, lk)[g] > 0 => \E i \in 1 .. m : Owner[best[i]] = g

LEMMA BestRowsStand ==
    ASSUME NEW ph, NEW lk \in [Photos -> SUBSET Guests]
    PROVE  \E m \in Nat : Stands(ph, lk, BestPerGuest(VisibleLikeCounts(ph, lk)), m)
<1> DEFINE best == BestPerGuest(VisibleLikeCounts(ph, lk))
           R    == Liked(ph, lk)
<1>1. PICK m \in Nat :
        /\ best \in [1 .. m -> R]
        /\ \A i, j \in 1 .. m : i < j => Ahead(lk, best[i], best[j])
        /\ \A i, j \in 1 .. m : Owner[best[i]] = Owner[best[j]] => i = j
        /\ \A p \in R : \E i \in 1 .. m : /\ Owner[best[i]] = Owner[p]
                                          /\ best[i] = p \/ Ahead(lk, best[i], p)
  BY BestIsOnePerGuest
<1> HIDE DEF best
<1>2. \A p \in R : p \in Photos /\ ph[p] = "shown" /\ lk[p] # {}
  BY DEF Liked
<1>3. \A p \in Photos : p \in Nat /\ Owner[p] \in Guests /\ LikeCount(lk, p) \in Nat
  BY CountsAreNumbers, ScoringAssumption DEF ScoringAssumption
<1>4. ASSUME NEW i \in 1 .. m
      PROVE  /\ Owner[best[i]] \in Guests
             /\ ScoreOf(ph, lk)[Owner[best[i]]] > 0
             /\ LikeCount(lk, best[i]) = ScoreOf(ph, lk)[Owner[best[i]]]
             /\ best[i] = OldestOf(ph, lk, Owner[best[i]])
  <2> DEFINE p == best[i]
             g == Owner[p]
  <2>1. p \in R /\ p \in Photos /\ g \in Guests /\ p \in Shown(ph, g)
    BY <1>1, <1>2, <1>3 DEF Shown
  <2>2. LikeCount(lk, p) > 0
    BY <1>2, <2>1, CountsAreNumbers
  <2>3. ASSUME NEW q \in Shown(ph, g)
        PROVE  q \in Photos /\ (q = p \/ Ahead(lk, p, q))
    <3>1. q \in Photos /\ ph[q] = "shown" /\ Owner[q] = g
      BY DEF Shown
    <3>2. CASE lk[q] = {}
      BY <3>1, <3>2, <2>1, <2>2, <1>3, CountsAreNumbers DEF Ahead
    <3>3. CASE lk[q] # {}
      <4>1. q \in R
        BY <3>1, <3>3 DEF Liked
      <4>2. PICK j \in 1 .. m : Owner[best[j]] = g /\ (best[j] = q \/ Ahead(lk, best[j], q))
        BY <1>1, <3>1, <4>1
      <4>3. j = i
        BY <1>1, <4>2
      <4> QED  BY <3>1, <4>2, <4>3
    <3> QED  BY <3>2, <3>3
  <2>4. LikeCount(lk, p) = ScoreOf(ph, lk)[g]
    <3>1. ScoreOf(ph, lk)[g] \in Nat /\ LikeCount(lk, p) <= ScoreOf(ph, lk)[g]
      BY <2>1, ScoreIsBest
    <3>2. PICK q \in Shown(ph, g) : LikeCount(lk, q) = ScoreOf(ph, lk)[g]
      BY <2>1, <2>2, <3>1, <1>3, ScoreIsBest
    <3>3. LikeCount(lk, q) <= LikeCount(lk, p)
      BY <2>1, <2>3, <1>3 DEF Ahead
    <3> QED  BY <2>1, <3>1, <3>2, <3>3, <1>3
  <2>5. p = OldestOf(ph, lk, g)
    <3> DEFINE those == {q \in Shown(ph, g) : LikeCount(lk, q) = ScoreOf(ph, lk)[g]}
    <3>1. p \in those
      BY <2>1, <2>4
    <3>2. those \in SUBSET Nat
      BY <1>3 DEF Shown
    <3>3. ASSUME NEW q \in those PROVE p <= q
      BY <2>1, <2>3, <2>4, <1>3 DEF Ahead
    <3>4. Min(those) = p
      <4> HIDE DEF those, p
      <4> QED  BY <3>1, <3>2, <3>3, MinIsUnique
    <3> QED  BY <3>4 DEF OldestOf
  <2> QED  BY <2>1, <2>2, <2>4, <2>5
<1>5. ASSUME NEW i \in 1 .. m, NEW j \in 1 .. m, i < j
      PROVE  LikeCount(lk, best[i]) >= LikeCount(lk, best[j])
  <2>1. best[i] \in Photos /\ best[j] \in Photos
    BY <1>1, <1>2
  <2>2. Ahead(lk, best[i], best[j])
    BY <1>1, <1>5
  <2> QED  BY <2>1, <2>2, <1>3 DEF Ahead
<1>6. ASSUME NEW g \in Guests, ScoreOf(ph, lk)[g] > 0 PROVE \E i \in 1 .. m : Owner[best[i]] = g
  <2>1. PICK p \in Shown(ph, g) : LikeCount(lk, p) = ScoreOf(ph, lk)[g]
    BY <1>6, ScoreIsBest
  <2>2. p \in R /\ Owner[p] = g
    BY <1>6, <2>1, CountsAreNumbers DEF Shown, Liked
  <2> QED  BY <1>1, <2>2
<1>7. Stands(ph, lk, best, m)
  <2>1. \A i, j \in 1 .. m : Owner[best[i]] = Owner[best[j]] => i = j
    BY <1>1
  <2>2. best \in [1 .. m -> Liked(ph, lk)]
    BY <1>1
  <2> QED  BY <2>1, <2>2, <1>4, <1>5, <1>6 DEF Stands
<1> QED  BY <1>7 DEF best

LEMMA RanksArePlaces ==
    ASSUME NEW ph, NEW lk \in [Photos -> SUBSET Guests], NEW best, NEW m,
           Stands(ph, lk, best, m)
    PROVE  /\ DOMAIN best = 1 .. m
           /\ standardRank([n \in DOMAIN best |-> LikeCount(lk, best[n])])
                = [i \in 1 .. m |-> PlaceOf(ph, lk, Owner[best[i]])]
<1> DEFINE sc     == ScoreOf(ph, lk)
           values == [n \in DOMAIN best |-> LikeCount(lk, best[n])]
           own(i) == Owner[best[i]]
<1>1. m \in Nat /\ DOMAIN best = 1 .. m
  BY DEF Stands
<1>2. \A i \in 1 .. m : own(i) \in Guests /\ values[i] = sc[own(i)] /\ sc[own(i)] \in Nat
                         /\ sc[own(i)] > 0
  BY <1>1, ScoreIsBest DEF Stands
<1>3. values \in [1 .. m -> Nat]
  BY <1>1, <1>2
<1>4. values \in Seq(Nat) /\ DOMAIN values = 1 .. m
  BY <1>1, <1>3
<1>5. \A i, j \in 1 .. m : i < j => values[i] >= values[j]
  BY <1>1 DEF Stands
<1>6. \A i, j \in 1 .. m : own(i) = own(j) => i = j
  BY DEF Stands
<1>7. \A g \in Guests : sc[g] > 0 => \E i \in 1 .. m : own(i) = g
  BY DEF Stands
<1> HIDE DEF values, own, sc
<1>8. standardRank(values) = [i \in 1 .. m |-> 1 + Cardinality(Above(values, i))]
  BY <1>4, <1>5, StandardRankCounts
<1>9. ASSUME NEW i \in 1 .. m PROVE 1 + Cardinality(Above(values, i)) = PlaceOf(ph, lk, own(i))
  <2> DEFINE higher == {h \in Guests : sc[h] > sc[own(i)]}
             f      == [j \in Above(values, i) |-> own(j)]
  <2>1. Above(values, i) = {j \in 1 .. m : values[j] > values[i]}
    BY <1>4 DEF Above
  <2>2. IsFiniteSet(Above(values, i))
    <3>1. IsFiniteSet(1 .. m)
      BY <1>1, FS_Interval
    <3>2. Above(values, i) \in SUBSET (1 .. m)
      BY <2>1
    <3> QED  BY <3>1, <3>2, FS_Subset
  <2>3. f \in Bijection(Above(values, i), higher)
    <3>1. f \in [Above(values, i) -> higher]
      BY <2>1, <1>2
    <3>2. \A j, k \in Above(values, i) : f[j] = f[k] => j = k
      BY <2>1, <1>6
    <3>3. ASSUME NEW h \in higher PROVE \E j \in Above(values, i) : f[j] = h
      <4>1. sc[h] \in Nat /\ sc[h] > sc[own(i)]
        BY ScoreIsBest DEF sc
      <4>2. PICK j \in 1 .. m : own(j) = h
        BY <4>1, <1>2, <1>7
      <4>3. j \in Above(values, i)
        BY <4>1, <4>2, <2>1, <1>2
      <4> QED  BY <4>2, <4>3
    <3> HIDE DEF f, higher
    <3> QED  BY <3>1, <3>2, <3>3 DEF Bijection, Injection, Surjection, IsInjective
  <2>4. Cardinality(higher) = Cardinality(Above(values, i))
    <3> HIDE DEF f, higher
    <3> QED  BY <2>2, <2>3, FS_Bijection DEF ExistsBijection
  <2> QED  BY <2>4 DEF PlaceOf, sc
<1>10. standardRank(values) = [i \in 1 .. m |-> PlaceOf(ph, lk, own(i))]
  BY <1>8, <1>9
<1> QED  BY <1>1, <1>10 DEF values, own

LEMMA FavoritesAreTheReference ==
    ASSUME NEW ph, NEW lk \in [Photos -> SUBSET Guests]
    PROVE  crowdFavorites(ph, lk) =
               {[guest |-> g, photo |-> OldestOf(ph, lk, g), rank |-> PlaceOf(ph, lk, g)] :
                   g \in {g \in Guests : /\ ScoreOf(ph, lk)[g] > 0
                                         /\ PlaceOf(ph, lk, g) <= Len(PlacePoints)}}
<1> DEFINE best == BestPerGuest(VisibleLikeCounts(ph, lk))
           rank == standardRank([n \in DOMAIN best |-> LikeCount(lk, best[n])])
           ours == {[guest |-> Owner[best[n]], photo |-> best[n], rank |-> rank[n]] :
                       n \in {n \in DOMAIN best : rank[n] <= Len(PlacePoints)}}
           wins == {g \in Guests : ScoreOf(ph, lk)[g] > 0 /\ PlaceOf(ph, lk, g) <= Len(PlacePoints)}
           row(g) == [guest |-> g, photo |-> OldestOf(ph, lk, g), rank |-> PlaceOf(ph, lk, g)]
<1>1. PICK m \in Nat : Stands(ph, lk, best, m)
  BY BestRowsStand
<1>2. crowdFavorites(ph, lk) = ours
  BY DEF crowdFavorites
<1>3. DOMAIN best = 1 .. m /\ rank = [i \in 1 .. m |-> PlaceOf(ph, lk, Owner[best[i]])]
  BY <1>1, RanksArePlaces
<1> HIDE DEF best, rank
<1>4. ASSUME NEW i \in 1 .. m
      PROVE  /\ Owner[best[i]] \in Guests /\ ScoreOf(ph, lk)[Owner[best[i]]] > 0
             /\ best[i] = OldestOf(ph, lk, Owner[best[i]])
             /\ rank[i] = PlaceOf(ph, lk, Owner[best[i]])
  BY <1>1, <1>3 DEF Stands
<1>5. ASSUME NEW c \in ours PROVE \E g \in wins : c = row(g)
  <2>1. PICK n \in 1 .. m : /\ rank[n] <= Len(PlacePoints)
                            /\ c = [guest |-> Owner[best[n]], photo |-> best[n], rank |-> rank[n]]
    BY <1>3
  <2>2. Owner[best[n]] \in wins /\ c = row(Owner[best[n]])
    BY <2>1, <1>4
  <2> QED  BY <2>2
<1>6. ASSUME NEW g \in wins PROVE row(g) \in ours
  <2>1. PICK i \in 1 .. m : Owner[best[i]] = g
    BY <1>1 DEF Stands
  <2>2. rank[i] <= Len(PlacePoints)
    BY <2>1, <1>4
  <2>3. row(g) = [guest |-> Owner[best[i]], photo |-> best[i], rank |-> rank[i]]
    BY <2>1, <1>4
  <2> QED  BY <2>2, <2>3, <1>3
<1>7. ours = {row(g) : g \in wins}
  <2> HIDE DEF ours, wins, row
  <2> QED  BY <1>5, <1>6
<1> QED  BY <1>2, <1>7

-----------------------------------------------------------------------------
(* The type invariant.                                                     *)

TInv == TypeOK /\ RowsRefer

LEMMA RecountedType ==
    ASSUME NEW ph, NEW av, NEW who, NEW all, milestone \subseteq all, who \subseteq all
    PROVE  Recounted(ph, av, who) \subseteq all
  BY DEF Recounted

LEMMA PlacersType ==
    ASSUME NEW ph, NEW lk \in [Photos -> SUBSET Guests]
    PROVE  Placers(ph, lk) \subseteq Guests
  BY FavoritesAreTheReference DEF Placers

LEMMA InitType == Init => TInv
<1> SUFFICES ASSUME Init PROVE TInv
  OBVIOUS
<1>1. MaxBonus \in Nat
  BY ScoringAssumption DEF ScoringAssumption
<1>2. TypeOK
  <2>1. /\ photo \in [Photos -> {"none", "shown", "hidden", "gone"}]
        /\ likes \in [Photos -> SUBSET guests]
    BY DEF Init
  <2>2. extra \in [Guests -> 0 .. MaxBonus]
    BY <1>1 DEF Init
  <2> QED  BY <2>1, <2>2 DEF Init, TypeOK
<1>3. RowsRefer
  BY DEF Init, RowsRefer
<1> QED  BY <1>2, <1>3 DEF TInv

LEMMA NextType == TInv /\ [Next]_vars => TInv'
<1> SUFFICES ASSUME TInv, [Next]_vars PROVE TInv'
  OBVIOUS
<1> USE DEF TInv, TypeOK, RowsRefer
<1>1. Owner \in [Photos -> Guests] /\ Stars \subseteq Guests /\ MaxBonus \in Nat
  BY ScoringAssumption DEF ScoringAssumption
<1>2. ASSUME NEW ph, NEW lk \in [Photos -> SUBSET Guests] PROVE Placers(ph, lk) \subseteq Guests
  BY PlacersType
<1>3. likes \in [Photos -> SUBSET Guests]
  OBVIOUS
<1>4. ASSUME NEW p \in Photos, Upload(p) PROVE TInv'
  <2>1. photo' \in [Photos -> {"none", "shown", "hidden", "gone"}] /\ guests' = guests
    BY <1>4 DEF Upload
  <2>2. milestone' \subseteq guests
    BY <1>4 DEF Upload, Recounted
  <2>3. crown' \subseteq Guests /\ behind' \in BOOLEAN
    BY <1>3, <1>4, PlacersType DEF Upload, recomputeTransferableBadges
  <2>4. award' \subseteq {q \in Photos : photo'[q] \in {"shown", "hidden"}}
    BY <1>4 DEF Upload
  <2>5. \A q \in Photos : photo'[q] \in {"none", "gone"} => likes'[q] = {}
    BY <1>4 DEF Upload
  <2> QED  BY <1>4, <2>1, <2>2, <2>3, <2>4, <2>5 DEF Upload
<1>5. ASSUME NEW p \in Photos, NEW from \in {"shown", "hidden"}, NEW to \in {"shown", "hidden"},
             SetTakenDown(p, from, to)
      PROVE  TInv'
  <2>1. photo' \in [Photos -> {"none", "shown", "hidden", "gone"}] /\ guests' = guests
    BY <1>5 DEF SetTakenDown
  <2>2. milestone' \subseteq guests
    BY <1>5 DEF SetTakenDown, Recounted
  <2>3. crown' \subseteq Guests /\ behind' \in BOOLEAN /\ told' \subseteq Guests /\ unheard' \subseteq Guests
    BY <1>3, <1>5, PlacersType
       DEF SetTakenDown, recomputeTransferableBadges, recordCrowdFavoriteChanges
  <2>4. award' \subseteq {q \in Photos : photo'[q] \in {"shown", "hidden"}}
    BY <1>5 DEF SetTakenDown
  <2>5. RowsRefer'
    BY <1>5 DEF SetTakenDown
  <2> QED  BY <1>5, <2>1, <2>2, <2>3, <2>4, <2>5 DEF SetTakenDown
<1>6. ASSUME NEW g \in Guests, NEW p \in Photos, g \in guests
      PROVE  Toggled(g, p) \in [Photos -> SUBSET guests]
  BY <1>6 DEF Toggled
<1>7. ASSUME NEW g \in Guests, NEW p \in Photos, Like(g, p) PROVE TInv'
  <2>1. likes' \in [Photos -> SUBSET guests] /\ guests' = guests
    BY <1>6, <1>7 DEF Like
  <2>2. Toggled(g, p) \in [Photos -> SUBSET Guests]
    BY <1>6, <1>7 DEF Like
  <2>3. /\ crown' \subseteq Guests /\ behind' \in BOOLEAN
        /\ told' \subseteq Guests /\ unheard' \subseteq Guests
    BY <1>7, <2>2, PlacersType DEF Like, recomputeTransferableBadges, recordCrowdFavoriteChanges
  <2>4. RowsRefer'
    BY <1>7 DEF Like, Toggled
  <2> QED  BY <1>7, <2>1, <2>3, <2>4 DEF Like
<1>8. ASSUME NEW g \in Guests, NEW p \in Photos, LikeInterrupted(g, p) PROVE TInv'
  <2>1. likes' \in [Photos -> SUBSET guests] /\ guests' = guests
    BY <1>6, <1>8 DEF LikeInterrupted
  <2>2. Toggled(g, p) \in [Photos -> SUBSET Guests] /\ likes' = Toggled(g, p)
    BY <1>6, <1>8 DEF LikeInterrupted
  <2>3. told' \subseteq Guests /\ unheard' \subseteq Guests
    BY <1>3, <1>8, <2>2, PlacersType DEF LikeInterrupted, NoEvent, Moved
  <2>4. RowsRefer'
    BY <1>8 DEF LikeInterrupted, Toggled
  <2> QED  BY <1>8, <2>1, <2>3, <2>4 DEF LikeInterrupted
<1>9. ASSUME NEW g \in Guests, DeleteGuest(g) PROVE TInv'
  <2>1. /\ photo' \in [Photos -> {"none", "shown", "hidden", "gone"}]
        /\ likes' \in [Photos -> SUBSET guests'] /\ likes' \in [Photos -> SUBSET Guests]
    BY <1>9 DEF DeleteGuest
  <2>2. extra' \in [Guests -> 0 .. MaxBonus]
    BY <1>1, <1>9 DEF DeleteGuest
  <2>3. /\ crown' \subseteq Guests /\ behind' \in BOOLEAN
        /\ told' \subseteq Guests /\ unheard' \subseteq Guests
    <3>1. Placers(photo, likes) \subseteq Guests /\ Placers(photo', likes') \subseteq Guests
      BY <1>3, <2>1, PlacersType
    <3> QED  BY <1>9, <3>1 DEF DeleteGuest, recomputeTransferableBadges, NoEvent, Moved
  <2>4. award' \subseteq {q \in Photos : photo'[q] \in {"shown", "hidden"}}
    BY <1>9 DEF DeleteGuest
  <2>5. RowsRefer'
    BY <1>9 DEF DeleteGuest
  <2> QED  BY <1>9, <2>1, <2>2, <2>3, <2>4, <2>5 DEF DeleteGuest
<1>10. ASSUME NEW t \in Tasks, DeleteTask(t) PROVE TInv'
  <2>1. /\ photo' \in [Photos -> {"none", "shown", "hidden", "gone"}] /\ guests' = guests
        /\ likes' \in [Photos -> SUBSET guests] /\ likes' \in [Photos -> SUBSET Guests]
    BY <1>10 DEF DeleteTask
  <2>2. milestone' \subseteq guests
    BY <1>10 DEF DeleteTask, Recounted
  <2>3. /\ crown' \subseteq Guests /\ behind' \in BOOLEAN
        /\ told' \subseteq Guests /\ unheard' \subseteq Guests
    BY <1>3, <1>10, <2>1, PlacersType DEF DeleteTask, recomputeTransferableBadges, NoEvent, Moved
  <2>4. award' \subseteq {q \in Photos : photo'[q] \in {"shown", "hidden"}}
    BY <1>10 DEF DeleteTask
  <2>5. RowsRefer'
    BY <1>10 DEF DeleteTask
  <2> QED  BY <1>10, <2>1, <2>2, <2>3, <2>4, <2>5 DEF DeleteTask
<1>11. ASSUME NEW t \in Tasks, NEW picked \in SUBSET {p \in Photos : Task[p] = t},
              releaseRanking(t, picked)
       PROVE  TInv'
  BY <1>11 DEF releaseRanking
<1>12. ASSUME NEW g \in Guests, SetAvatar(g) PROVE TInv'
  BY <1>12 DEF SetAvatar, Recounted
<1>13. ASSUME NEW g \in Guests, SetCouple(g) PROVE TInv'
  BY <1>13 DEF SetCouple
<1>14. ASSUME NEW g \in Guests, NEW d \in {-2, 1}, addBonusPoints(g, d) PROVE TInv'
  <2>1. extra' \in [Guests -> 0 .. MaxBonus]
    <3>1. extra[g] \in 0 .. MaxBonus /\ extra[g] + d \in Int /\ extra[g] + d <= MaxBonus
      BY <1>14 DEF addBonusPoints
    <3>2. Max({0, extra[g] + d}) \in 0 .. MaxBonus
      <4>1. \E x \in {0, extra[g] + d} : \A y \in {0, extra[g] + d} : x >= y
        BY <3>1
      <4>2. Max({0, extra[g] + d}) \in {0, extra[g] + d} /\ Max({0, extra[g] + d}) >= 0
        BY <4>1 DEF Max
      <4> QED  BY <3>1, <4>2, <1>1
    <3> QED  BY <1>14, <3>2 DEF addBonusPoints
  <2> QED  BY <1>14, <2>1 DEF addBonusPoints
<1>15. CASE UNCHANGED vars
  BY <1>15 DEF vars
<1> QED
  BY <1>1, <1>4, <1>5, <1>7, <1>8, <1>9, <1>10, <1>11, <1>12, <1>13, <1>14, <1>15 DEF Next

\* Tables hold what they can hold, and rows refer to rows that exist.
THEOREM TypeCorrect == Spec => []TInv
<1>1. Init => TInv
  BY InitType
<1>2. TInv /\ [Next]_vars => TInv'
  BY NextType
<1> QED  BY <1>1, <1>2, PTL DEF Spec

-----------------------------------------------------------------------------
(* What is stored follows what is derived.                                 *)

LEMMA PlacersPrimed == Placers(photo, likes)' = Placers(photo', likes')
  BY DEF Placers, crowdFavorites, standardRank, BestPerGuest, VisibleLikeCounts, Sorted,
         Liked, Ahead, LikeCount

LEMMA NextStandings == TInv /\ StandingsAreKept /\ [Next]_vars => StandingsAreKept'
<1> SUFFICES ASSUME TInv, StandingsAreKept, [Next]_vars PROVE StandingsAreKept'
  OBVIOUS
<1> DEFINE before == Placers(photo, likes)
           after  == Placers(photo', likes')
<1>1. /\ ~behind => crown = before
      /\ \A g \in guests : (g \in told) <=> ~((g \in before) <=> (g \in unheard))
  BY DEF StandingsAreKept, CrownFollowsLikes, TrailMatchesStandings
<1>2. ASSUME ~behind' => crown' = after,
             \A g \in guests' : (g \in told') <=> ~((g \in after) <=> (g \in unheard'))
      PROVE  StandingsAreKept'
  BY <1>2, PlacersPrimed DEF StandingsAreKept, CrownFollowsLikes, TrailMatchesStandings
<1>3. ASSUME UNCHANGED <<guests, photo, likes, crown, told, unheard, behind>>
      PROVE  StandingsAreKept'
  BY <1>1, <1>2, <1>3
<1> HIDE DEF before, after
<1>4. ASSUME recomputeTransferableBadges(after), recordCrowdFavoriteChanges(before, after),
             guests' = guests
      PROVE  StandingsAreKept'
  BY <1>1, <1>2, <1>4 DEF recomputeTransferableBadges, recordCrowdFavoriteChanges, Moved
<1>5. ASSUME NEW left, NoEvent(before, after, left), guests' = guests \ left,
             behind' \/ recomputeTransferableBadges(after)
      PROVE  StandingsAreKept'
  BY <1>1, <1>2, <1>5 DEF recomputeTransferableBadges, NoEvent, Moved
<1>6. ASSUME NEW p \in Photos, Upload(p) PROVE StandingsAreKept'
  <2>1. Liked(photo, likes) = Liked(photo', likes)
    BY <1>6 DEF Upload, Liked, TInv, TypeOK, RowsRefer
  <2>2. after = before
    BY <1>6, <2>1, PlacersOfLiked DEF Upload, before, after
  <2> QED  BY <1>1, <1>2, <1>6, <2>2 DEF Upload, recomputeTransferableBadges, after
<1>7. ASSUME NEW p \in Photos, NEW from, NEW to, SetTakenDown(p, from, to) PROVE StandingsAreKept'
  BY <1>4, <1>7 DEF SetTakenDown, before, after
<1>8. ASSUME NEW g \in Guests, NEW p \in Photos, Like(g, p) PROVE StandingsAreKept'
  BY <1>4, <1>8 DEF Like, before, after
<1>9. ASSUME NEW g \in Guests, NEW p \in Photos, LikeInterrupted(g, p) PROVE StandingsAreKept'
  BY <1>5, <1>9 DEF LikeInterrupted, before, after
<1>10. ASSUME NEW g \in Guests, DeleteGuest(g) PROVE StandingsAreKept'
  BY <1>5, <1>10 DEF DeleteGuest, before, after
<1>11. ASSUME NEW t \in Tasks, DeleteTask(t) PROVE StandingsAreKept'
  BY <1>5, <1>11 DEF DeleteTask, before, after
<1>12. ASSUME NEW t \in Tasks, NEW picked, releaseRanking(t, picked) PROVE StandingsAreKept'
  BY <1>3, <1>12 DEF releaseRanking
<1>13. ASSUME NEW g \in Guests, NEW d \in {-2, 1}, SetAvatar(g) \/ SetCouple(g) \/ addBonusPoints(g, d)
       PROVE  StandingsAreKept'
  BY <1>3, <1>13 DEF SetAvatar, SetCouple, addBonusPoints
<1>14. CASE UNCHANGED vars
  BY <1>3, <1>14 DEF vars
<1>15. Stars \subseteq Guests
  BY ScoringAssumption DEF ScoringAssumption
<1> QED  BY <1>6, <1>7, <1>8, <1>9, <1>10, <1>11, <1>12, <1>13, <1>14, <1>15 DEF Next

\* Whatever is liked, hidden, restored or deleted, the stored crown is held by
\* exactly the guests who place unless a like was cut off before its recompute,
\* and the last event sent to a guest says where the guest stands unless the
\* place moved by a deletion or a like cut off (community.js, admin.js).
THEOREM StandingsFollowLikes == Spec => []StandingsAreKept
<1>1. Init => StandingsAreKept
  <2> SUFFICES ASSUME Init PROVE StandingsAreKept
    OBVIOUS
  <2>1. Liked(photo, likes) = {}
    BY DEF Init, Liked
  <2>2. Placers(photo, likes) = {}
    BY <2>1, NobodyPlaces
  <2>3. crown = {} /\ told = {} /\ unheard = {}
    BY DEF Init
  <2>4. CrownFollowsLikes
    BY <2>2, <2>3 DEF CrownFollowsLikes
  <2>5. TrailMatchesStandings
    BY <2>2, <2>3 DEF TrailMatchesStandings
  <2> QED  BY <2>4, <2>5 DEF StandingsAreKept
<1>2. TInv /\ StandingsAreKept /\ [Next]_vars => StandingsAreKept'
  BY NextStandings
<1> QED  BY <1>1, <1>2, TypeCorrect, PTL DEF Spec

-----------------------------------------------------------------------------
\* The placing set computed by sorting the liked photos, keeping each guest's
\* first and ranking what is left is the one the game describes, for every
\* number of guests, photos, likes and paying places (crowd-favorites.js, rank.js).
THEOREM PlacesAreTheReference == Spec => []PlacesMatchReference
<1>1. TInv => PlacesMatchReference
  <2> SUFFICES ASSUME TInv PROVE PlacesMatchReference
    OBVIOUS
  <2>1. likes \in [Photos -> SUBSET Guests]
    BY DEF TInv, TypeOK
  <2> DEFINE best      == [g \in Guests |-> Max({0} \cup {LikeCount(likes, p) : p \in Shown(photo, g)})]
             place     == [g \in Guests |-> 1 + Cardinality({h \in Guests : best[h] > best[g]})]
             oldest(g) == Min({p \in Shown(photo, g) : LikeCount(likes, p) = best[g]})
             winners   == {g \in Guests : best[g] > 0 /\ place[g] <= Len(PlacePoints)}
             rows      == {[guest |-> g, photo |-> oldest(g), rank |-> place[g]] : g \in winners}
  <2>2. best = ScoreOf(photo, likes)
    BY DEF ScoreOf
  <2>3. PlacesMatchReference <=> crowdFavorites(photo, likes) = rows
    BY DEF PlacesMatchReference
  <2> HIDE DEF best
  <2>4. \A g \in Guests : place[g] = PlaceOf(photo, likes, g) /\ oldest(g) = OldestOf(photo, likes, g)
    BY <2>2 DEF PlaceOf, OldestOf
  <2> HIDE DEF place, oldest
  <2> DEFINE theirs == {g \in Guests : /\ ScoreOf(photo, likes)[g] > 0
                                       /\ PlaceOf(photo, likes, g) <= Len(PlacePoints)}
             row(g) == [guest |-> g, photo |-> OldestOf(photo, likes, g), rank |-> PlaceOf(photo, likes, g)]
  <2>5. winners = theirs
    BY <2>2, <2>4
  <2>6. rows = {row(g) : g \in theirs}
    BY <2>4, <2>5
  <2>7. crowdFavorites(photo, likes) = {row(g) : g \in theirs}
    BY <2>1, FavoritesAreTheReference
  <2> QED  BY <2>3, <2>6, <2>7
<1> QED  BY <1>1, TypeCorrect, PTL

-----------------------------------------------------------------------------
(* The golden crown.                                                       *)

\* A photo nobody else comes up to.
Champion(p) ==
    /\ LikeCount(likes, p) > 0
    /\ \A q \in VisiblePhotos \ {p} :
         \/ LikeCount(likes, q) < LikeCount(likes, p)
         \/ Owner[q] = Owner[p] /\ LikeCount(likes, q) = LikeCount(likes, p) /\ p < q

\* The guests who share the first place are those nobody is above.
LEMMA FirstPlace ==
    ASSUME NEW ph, NEW lk \in [Photos -> SUBSET Guests], NEW g \in Guests
    PROVE  PlaceOf(ph, lk, g) = 1 <=> \A h \in Guests : ScoreOf(ph, lk)[h] <= ScoreOf(ph, lk)[g]
<1> DEFINE higher == {h \in Guests : ScoreOf(ph, lk)[h] > ScoreOf(ph, lk)[g]}
<1>1. IsFiniteSet(higher) /\ Cardinality(higher) \in Nat
  BY ScoringAssumption, FS_Subset, FS_CardinalityType DEF ScoringAssumption
<1>2. PlaceOf(ph, lk, g) = 1 + Cardinality(higher)
  BY DEF PlaceOf
<1>3. \A h \in Guests : ScoreOf(ph, lk)[h] \in Nat
  BY ScoreIsBest
<1>4. higher = {} <=> \A h \in Guests : ScoreOf(ph, lk)[h] <= ScoreOf(ph, lk)[g]
  BY <1>3
<1> HIDE DEF higher
<1>5. Cardinality(higher) = 0 <=> higher = {}
  BY <1>1, FS_EmptySet
<1> QED  BY <1>1, <1>2, <1>4, <1>5

LEMMA OldestStands ==
    ASSUME NEW ph, NEW lk \in [Photos -> SUBSET Guests], NEW g \in Guests, ScoreOf(ph, lk)[g] > 0
    PROVE  /\ OldestOf(ph, lk, g) \in Shown(ph, g)
           /\ LikeCount(lk, OldestOf(ph, lk, g)) = ScoreOf(ph, lk)[g]
           /\ \A p \in Shown(ph, g) : LikeCount(lk, p) = ScoreOf(ph, lk)[g] => OldestOf(ph, lk, g) <= p
<1> DEFINE S == {p \in Shown(ph, g) : LikeCount(lk, p) = ScoreOf(ph, lk)[g]}
<1>1. S # {}
  BY ScoreIsBest
<1>2. S \in SUBSET Nat /\ IsFiniteSet(S)
  <2>1. S \subseteq Photos /\ Photos \subseteq Nat /\ IsFiniteSet(Photos)
    BY ScoringAssumption DEF ScoringAssumption, Shown
  <2> HIDE DEF S
  <2> QED  BY <2>1, FS_Subset
<1>3. PICK m \in S : \A n \in S : m <= n
  <2> HIDE DEF S
  <2> QED  BY <1>1, <1>2, LeastExists
<1>4. Min(S) = m
  <2> HIDE DEF S
  <2> QED  BY <1>2, <1>3, MinIsUnique
<1>5. OldestOf(ph, lk, g) = m
  BY <1>4 DEF OldestOf
<1> QED  BY <1>3, <1>5

\* The golden crown is worn by a photo that is ahead of every photo of every
\* other guest, and, when some photo is, by the oldest of its guest's best
\* (crownRankState in routes/community.js).
THEOREM GoldIsAlwaysTheChampion == Spec => []GoldIsTheChampion
<1>1. TInv => GoldIsTheChampion
  <2> SUFFICES ASSUME TInv PROVE GoldIsTheChampion
    OBVIOUS
  <2> DEFINE sc    == ScoreOf(photo, likes)
             old(g) == OldestOf(photo, likes, g)
             won   == {g \in Guests : sc[g] > 0 /\ \A h \in Guests : sc[h] <= sc[g]}
             first == {c.photo : c \in {c \in crowdFavorites(photo, likes) : c.rank = 1}}
  <2>1. likes \in [Photos -> SUBSET Guests] /\ Photos \subseteq Nat /\ Owner \in [Photos -> Guests]
    BY ScoringAssumption DEF TInv, TypeOK, ScoringAssumption
  <2>2. Len(PlacePoints) \in Nat /\ 1 <= Len(PlacePoints)
    <3>1. PlacePoints \in Seq(Nat) /\ PlacePoints # << >>
      BY ScoringAssumption DEF ScoringAssumption
    <3> QED  BY <3>1
  <2>3. first = {old(g) : g \in won}
    <3> DEFINE row(g) == [guest |-> g, photo |-> old(g), rank |-> PlaceOf(photo, likes, g)]
               wins == {g \in Guests : sc[g] > 0 /\ PlaceOf(photo, likes, g) <= Len(PlacePoints)}
    <3>1. crowdFavorites(photo, likes) = {row(g) : g \in wins}
      BY <2>1, FavoritesAreTheReference
    <3>2. \A g \in Guests : PlaceOf(photo, likes, g) = 1 <=> \A h \in Guests : sc[h] <= sc[g]
      BY <2>1, FirstPlace
    <3>3. \A g : row(g).photo = old(g) /\ row(g).rank = PlaceOf(photo, likes, g)
      OBVIOUS
    <3> HIDE DEF row
    <3>4. \A c \in crowdFavorites(photo, likes) : c.rank = 1 => \E g \in won : c.photo = old(g)
      BY <3>1, <3>2, <3>3
    <3>5. \A g \in won : row(g) \in crowdFavorites(photo, likes) /\ row(g).rank = 1 /\ row(g).photo = old(g)
      BY <2>2, <3>1, <3>2, <3>3
    <3> HIDE DEF won
    <3> QED  BY <3>4, <3>5
  <2>4. ASSUME NEW g \in Guests
        PROVE  /\ sc[g] \in Nat
               /\ \A p \in Shown(photo, g) : LikeCount(likes, p) <= sc[g]
               /\ sc[g] > 0 => /\ old(g) \in Shown(photo, g) /\ LikeCount(likes, old(g)) = sc[g]
                               /\ \A p \in Shown(photo, g) : LikeCount(likes, p) = sc[g] => old(g) <= p
    BY <2>1, ScoreIsBest, OldestStands
  <2> HIDE DEF sc, old
  <2>5. \A p : p \in VisiblePhotos <=> p \in Photos /\ photo[p] = "shown"
    BY DEF VisiblePhotos
  <2>6. \A p \in VisiblePhotos : Owner[p] \in Guests /\ p \in Shown(photo, Owner[p]) /\ p \in Nat
                                 /\ LikeCount(likes, p) \in Nat
    BY <2>1, <2>5, CountsAreNumbers DEF Shown
  <2>7. \A g \in Guests : \A p \in Shown(photo, g) : p \in VisiblePhotos /\ Owner[p] = g
    BY <2>5 DEF Shown
  <2>8. ASSUME NEW p \in VisiblePhotos, Champion(p) PROVE first = {p}
    <3> DEFINE g == Owner[p]
    <3>1. sc[g] = LikeCount(likes, p)
      <4>1. LikeCount(likes, p) <= sc[g] /\ sc[g] \in Nat /\ LikeCount(likes, p) \in Nat /\ sc[g] > 0
        BY <2>4, <2>6, <2>8 DEF Champion
      <4>2. LikeCount(likes, old(g)) = sc[g] /\ old(g) \in VisiblePhotos
        BY <2>4, <2>6, <2>7, <4>1
      <4>3. old(g) = p \/ LikeCount(likes, old(g)) <= LikeCount(likes, p)
        BY <2>8, <4>1, <4>2 DEF Champion
      <4> QED  BY <4>1, <4>2, <4>3
    <3>2. ASSUME NEW h \in Guests, h # g PROVE sc[h] < sc[g]
      <4>1. sc[g] > 0 /\ sc[g] \in Nat /\ sc[h] \in Nat
        BY <2>4, <2>6, <2>8, <3>1 DEF Champion
      <4>2. CASE sc[h] > 0
        <5>1. old(h) \in VisiblePhotos /\ Owner[old(h)] = h /\ LikeCount(likes, old(h)) = sc[h]
          BY <2>4, <2>7, <4>2
        <5>2. old(h) \in VisiblePhotos \ {p}
          BY <3>2, <5>1
        <5> QED  BY <2>8, <3>1, <3>2, <5>1, <5>2 DEF Champion
      <4> QED  BY <4>1, <4>2
    <3>3. old(g) = p
      <4>1. old(g) \in VisiblePhotos /\ LikeCount(likes, old(g)) = LikeCount(likes, p) /\ old(g) <= p
        BY <2>4, <2>6, <2>7, <2>8, <3>1 DEF Champion
      <4>2. old(g) \in Nat /\ p \in Nat
        BY <2>6, <4>1
      <4>3. ~(old(g) # p)
        <5> SUFFICES ASSUME old(g) # p PROVE FALSE
          OBVIOUS
        <5>1. ~(LikeCount(likes, old(g)) < LikeCount(likes, p))
          BY <2>6, <4>1
        <5>2. p < old(g)
          BY <2>8, <4>1, <5>1 DEF Champion
        <5> QED  BY <4>1, <4>2, <5>2
      <4> QED  BY <4>3
    <3>4. won = {g}
      <4>1. g \in Guests /\ sc[g] > 0
        BY <2>6, <2>8, <3>1 DEF Champion
      <4>2. \A h \in Guests : sc[h] <= sc[g]
        BY <2>4, <3>2, <4>1
      <4>3. \A h \in won : h = g
        <5> SUFFICES ASSUME NEW h \in won, h # g PROVE FALSE
          OBVIOUS
        <5>1. sc[g] <= sc[h] /\ sc[h] < sc[g] /\ sc[g] \in Nat /\ sc[h] \in Nat
          BY <2>4, <3>2, <4>1
        <5> QED  BY <5>1
      <4> QED  BY <4>1, <4>2, <4>3
    <3> HIDE DEF g
    <3> QED  BY <2>3, <3>3, <3>4
  <2>9. ASSUME NEW p, first = {p} PROVE p \in VisiblePhotos /\ Champion(p)
    <3>1. PICK g \in won : old(g) = p
      BY <2>3, <2>9
    <3>2. g \in Guests /\ sc[g] > 0 /\ sc[g] \in Nat /\ \A h \in Guests : sc[h] <= sc[g]
      BY <2>4
    <3>3. p \in VisiblePhotos /\ Owner[p] = g /\ LikeCount(likes, p) = sc[g]
      BY <2>4, <2>7, <3>1, <3>2
    <3>4. ASSUME NEW q \in VisiblePhotos \ {p}
          PROVE  \/ LikeCount(likes, q) < LikeCount(likes, p)
                 \/ Owner[q] = Owner[p] /\ LikeCount(likes, q) = LikeCount(likes, p) /\ p < q
      <4> DEFINE h == Owner[q]
      <4>1. h \in Guests /\ q \in Shown(photo, h) /\ LikeCount(likes, q) \in Nat /\ q \in Nat /\ p \in Nat
        BY <2>6, <3>3
      <4>2. LikeCount(likes, q) <= sc[h] /\ sc[h] <= sc[g] /\ sc[h] \in Nat
        BY <2>4, <3>2, <4>1
      <4>3. CASE LikeCount(likes, q) < sc[g]
        BY <3>3, <4>3
      <4>4. CASE ~(LikeCount(likes, q) < sc[g])
        <5>1. LikeCount(likes, q) = sc[g] /\ sc[h] = sc[g]
          BY <3>2, <4>1, <4>2, <4>4
        <5>2. h \in won
          BY <3>2, <4>1, <5>1
        <5>3. old(h) = p
          BY <2>3, <2>9, <5>2
        <5>4. h = g
          BY <2>4, <2>7, <3>2, <3>3, <4>1, <5>1, <5>3
        <5>5. p <= q
          BY <2>4, <3>1, <3>2, <4>1, <5>1, <5>4
        <5> QED  BY <3>3, <4>1, <5>1, <5>4, <5>5
      <4> QED  BY <4>3, <4>4
    <3>5. LikeCount(likes, p) > 0
      BY <3>2, <3>3
    <3> QED  BY <3>3, <3>4, <3>5 DEF Champion
  <2>10. crownGold(photo, likes) = IF \E p : first = {p} THEN CHOOSE p \in first : TRUE ELSE NoPhoto
    <3>1. IsFiniteSet(first)
      <4>1. \A g \in won : old(g) \in Photos
        <5> SUFFICES ASSUME NEW g \in Guests, sc[g] > 0 PROVE old(g) \in Photos
          OBVIOUS
        <5>1. old(g) \in Shown(photo, g)
          BY <2>4
        <5> QED  BY <2>5, <2>7, <5>1
      <4>2. IsFiniteSet(Photos) /\ first \subseteq Photos
        <5> HIDE DEF won, first
        <5> QED  BY <2>3, <4>1, ScoringAssumption DEF ScoringAssumption
      <4> HIDE DEF first
      <4> QED  BY <4>2, FS_Subset
    <3>2. Cardinality(first) = 1 <=> \E p : first = {p}
      <4> HIDE DEF first
      <4> QED  BY <3>1, FS_Singleton
    <3> QED  BY <3>2 DEF crownGold
  <2> HIDE DEF first
  <2>11. GoldIsTheChampion <=>
            crownGold(photo, likes) = IF \E p \in VisiblePhotos : Champion(p)
                                      THEN CHOOSE p \in VisiblePhotos : Champion(p) ELSE NoPhoto
    BY DEF GoldIsTheChampion, Champion
  <2>12. CASE \E p \in VisiblePhotos : Champion(p)
    <3>1. PICK p \in VisiblePhotos : Champion(p)
      BY <2>12
    <3>2. first = {p} /\ \A q \in VisiblePhotos : Champion(q) => q = p
      BY <2>8, <3>1
    <3>3. (CHOOSE q \in first : TRUE) = p /\ (CHOOSE q \in VisiblePhotos : Champion(q)) = p
      BY <3>1, <3>2
    <3> QED  BY <2>10, <2>11, <2>12, <3>2, <3>3
  <2>13. CASE ~\E p \in VisiblePhotos : Champion(p)
    <3>1. ~\E p : first = {p}
      BY <2>9, <2>13
    <3> QED  BY <2>10, <2>11, <2>13, <3>1
  <2> QED  BY <2>12, <2>13
<1> QED  BY <1>1, TypeCorrect, PTL

-----------------------------------------------------------------------------
\* Whichever part runs, the scoring is Scoring's: what is proved of it holds of
\* the parts together (the photo tasks, the memories and the feed share no row
\* with it but through the requests it models).
THEOREM PartsIsScoring == PartsSpec => Spec
<1>1. PartsInit => Init
  BY DEF PartsInit
<1>2. [PartsNext]_<<part, vars, feedVars, memoryVars, uploadVars>> => [Next]_vars
  BY DEF PartsNext
<1> QED  BY <1>1, <1>2, PTL DEF PartsSpec, Spec

-----------------------------------------------------------------------------
(* Sums.  Total is a recursion over the subsets of a finite set; SumBy is  *)
(* its one induction, by a smallest counterexample: what starts at zero    *)
(* and grows with each member by what the member is worth, is the sum.     *)

IsSum(S, f, it) ==
    it = [s \in SUBSET S |-> IF s = {} THEN 0
                             ELSE f[CHOOSE x \in s : TRUE] + it[s \ {CHOOSE x \in s : TRUE}]]

Counts(S, f) == \A x \in S : f[x] \in Nat

\* G grows with each member by what f says it is worth.
Grows(S, f, G) ==
    /\ G \in [SUBSET S -> Nat] /\ G[{}] = 0
    /\ \A s \in SUBSET S : \A x \in s : G[s] = f[x] + G[s \ {x}]

\* f is what a and b say together; what S has beyond T is worth nothing; f
\* counts the members of T by where h sends them.
Adds(S, f, a, b) == \A x \in S : a[x] \in Nat /\ b[x] \in Nat /\ f[x] = a[x] + b[x]

Rests(S, f, T, h) == (\A x \in T : h[x] \in Nat /\ f[x] = h[x]) /\ \A x \in S \ T : f[x] = 0

Groups(S, f, T, h) ==
    (\A t \in T : h[t] \in S) /\ \A x \in S : f[x] = Cardinality({t \in T : h[t] = x})

LEMMA TotalUnfolds ==
    ASSUME NEW S, NEW f
    PROVE  Total(S, f) = (CHOOSE it : IsSum(S, f, it))[S]
<1> QED  BY Zenon DEF IsSum, Total, SumFunctionOnSet, FoldFunctionOnSet, MapThenFoldSet

LEMMA SumBy ==
    ASSUME NEW S, IsFiniteSet(S), NEW f, NEW G, Grows(S, f, G)
    PROVE  Total(S, f) = G[S]
<1> DEFINE first(s) == CHOOSE x \in s : TRUE
           it == CHOOSE any : IsSum(S, f, any)
<1> USE DEF Grows
<1>1. \A s : s # {} => first(s) \in s
  OBVIOUS
<1>2. IsSum(S, f, G)
  <2>1. ASSUME NEW s \in SUBSET S PROVE G[s] = IF s = {} THEN 0 ELSE f[first(s)] + G[s \ {first(s)}]
    <3>1. CASE s = {}
      BY <3>1
    <3>2. CASE s # {}
      <4> HIDE DEF first
      <4> QED  BY <1>1, <3>2
    <3> QED  BY <3>1, <3>2
  <2> QED  BY <2>1 DEF IsSum
<1>3. IsSum(S, f, it)
  <2> HIDE DEF first
  <2> QED  BY <1>2
<1> HIDE DEF it
<1>4. \A s \in SUBSET S : it[s] = IF s = {} THEN 0 ELSE f[first(s)] + it[s \ {first(s)}]
  BY <1>3 DEF IsSum
<1> HIDE DEF first
<1>5. it[S] = G[S]
  <2> DEFINE wrong == {s \in SUBSET S : it[s] # G[s]}
             sizes == {Cardinality(s) : s \in wrong}
  <2> SUFFICES ASSUME wrong # {} PROVE FALSE
    OBVIOUS
  <2>1. \A s \in SUBSET S : /\ IsFiniteSet(s) /\ Cardinality(s) \in Nat /\ Cardinality(s) <= Cardinality(S)
    BY FS_Subset, FS_CardinalityType
  <2>2. Cardinality(S) \in Nat
    BY FS_CardinalityType
  <2>3. sizes \in SUBSET Nat /\ sizes # {} /\ \A n \in sizes : n <= Cardinality(S)
    BY <2>1
  <2>4. IsFiniteSet(sizes)
    <3> HIDE DEF sizes
    <3> QED  BY <2>2, <2>3, FS_BoundedSetOfNaturals
  <2>5. PICK n \in sizes : \A m \in sizes : n <= m
    <3> HIDE DEF sizes
    <3> QED  BY <2>3, <2>4, LeastExists
  <2>6. PICK s \in wrong : Cardinality(s) = n
    OBVIOUS
  <2>7. s \in SUBSET S /\ it[s] # G[s]
    OBVIOUS
  <2>8. s # {}
    BY <1>4, <2>7
  <2> DEFINE x == first(s)
             r == s \ {x}
  <2>9. x \in s /\ r \in SUBSET S
    BY <1>1, <2>7, <2>8
  <2>10. it[s] = f[x] + it[r] /\ G[s] = f[x] + G[r]
    BY <1>4, <2>7, <2>8, <2>9
  <2>11. r \in wrong
    BY <2>7, <2>9, <2>10
  <2>12. Cardinality(r) \in sizes /\ Cardinality(r) = n - 1 /\ n \in Nat
    <3>1. Cardinality(r) \in sizes
      BY <2>11
    <3>2. IsFiniteSet(s) /\ n \in Nat
      BY <2>1, <2>6, <2>7
    <3> HIDE DEF sizes, wrong, x
    <3>3. Cardinality(s \ {x}) = Cardinality(s) - 1
      BY <2>9, <3>2, FS_RemoveElement
    <3> QED  BY <2>6, <3>1, <3>2, <3>3
  <2>13. n <= n - 1
    BY <2>5, <2>12
  <2> QED  BY <2>12, <2>13
<1> QED  BY <1>5, TotalUnfolds DEF it

\* There is such a count: of as many things for each member as it is worth.
LEMMA SumExists ==
    ASSUME NEW S, IsFiniteSet(S), NEW f, Counts(S, f)
    PROVE  \E G : Grows(S, f, G)
<1> USE DEF Counts
<1> DEFINE vals == {0} \cup {f[x] : x \in S}
           M == Max(vals)
<1>1. vals \in SUBSET Nat /\ vals # {} /\ IsFiniteSet(vals)
  <2> DEFINE g == [x \in S |-> f[x]]
             T == {f[x] : x \in S}
  <2>1. g \in Surjection(S, T)
    BY DEF Surjection
  <2>2. IsFiniteSet(T)
    <3> HIDE DEF g, T
    <3> QED  BY <2>1, FS_Surjection
  <2>3. IsFiniteSet({0} \cup T)
    <3> HIDE DEF T
    <3> QED  BY <2>2, FS_Union, FS_Singleton
  <2> QED  BY <2>3
<1>2. M \in Nat /\ \A x \in S : f[x] <= M
  <2>1. M \in vals /\ \A v \in vals : M >= v
    <3> HIDE DEF vals
    <3> QED  BY <1>1, MaxIsGreatest
  <2>2. \A x \in S : f[x] \in vals
    OBVIOUS
  <2> QED  BY <1>1, <2>1, <2>2
<1> HIDE DEF M
<1> DEFINE Heap(s) == {c \in s \X (0 .. M) : c[2] < f[c[1]]}
           G == [s \in SUBSET S |-> Cardinality(Heap(s))]
<1>3. ASSUME NEW s \in SUBSET S PROVE IsFiniteSet(Heap(s)) /\ Cardinality(Heap(s)) \in Nat
  <2>1. IsFiniteSet(s) /\ IsFiniteSet(0 .. M)
    BY <1>2, FS_Subset, FS_Interval
  <2>2. IsFiniteSet(s \X (0 .. M))
    BY <2>1, FS_Product
  <2> QED  BY <2>2, FS_Subset, FS_CardinalityType
<1>4. G[{}] = 0
  <2>1. Heap({}) = {}
    OBVIOUS
  <2> HIDE DEF Heap
  <2> QED  BY <2>1, FS_EmptySet
<1>5. ASSUME NEW s \in SUBSET S, NEW x \in s PROVE G[s] = f[x] + G[s \ {x}]
  <2> DEFINE pile == {x} \X (0 .. f[x] - 1)
             rest == Heap(s \ {x})
  <2>1. f[x] \in Nat /\ f[x] <= M /\ s \ {x} \in SUBSET S
    BY <1>2
  <2>2. Heap(s) = pile \cup rest /\ pile \cap rest = {}
    <3>1. \A n : n \in 0 .. f[x] - 1 <=> n \in 0 .. M /\ n < f[x]
      BY <1>2, <2>1
    <3>2. ASSUME NEW c \in Heap(s) PROVE c \in pile \cup rest
      <4>1. c = <<c[1], c[2]>> /\ c[1] \in s /\ c[2] \in 0 .. M /\ c[2] < f[c[1]]
        OBVIOUS
      <4> QED  BY <3>1, <4>1
    <3>3. ASSUME NEW c \in pile PROVE c \in Heap(s) /\ c \notin rest
      <4>1. c = <<c[1], c[2]>> /\ c[1] = x /\ c[2] \in 0 .. M /\ c[2] < f[x]
        BY <3>1
      <4> QED  BY <4>1
    <3>4. \A c \in rest : c \in Heap(s)
      OBVIOUS
    <3> HIDE DEF Heap, pile, rest
    <3> QED  BY <3>2, <3>3, <3>4
  <2>3. IsFiniteSet(pile) /\ Cardinality(pile) = f[x]
    <3>1. IsFiniteSet(0 .. f[x] - 1) /\ Cardinality(0 .. f[x] - 1) = f[x]
      <4>1. 0 \in Int /\ f[x] - 1 \in Int
        BY <2>1
      <4>2. Cardinality(0 .. f[x] - 1) = IF 0 > f[x] - 1 THEN 0 ELSE f[x] - 1 - 0 + 1
        BY <4>1, FS_Interval
      <4> QED  BY <2>1, <4>1, <4>2, FS_Interval
    <3>2. IsFiniteSet({x}) /\ Cardinality({x}) = 1
      BY FS_Singleton
    <3>3. Cardinality(pile) = Cardinality({x}) * Cardinality(0 .. f[x] - 1) /\ IsFiniteSet(pile)
      BY <3>1, <3>2, FS_Product
    <3> QED  BY <2>1, <3>1, <3>2, <3>3
  <2>4. IsFiniteSet(rest) /\ Cardinality(rest) \in Nat
    BY <1>3, <2>1
  <2>5. G[s] = Cardinality(Heap(s)) /\ G[s \ {x}] = Cardinality(rest)
    BY <2>1
  <2> HIDE DEF pile, rest, Heap, G
  <2>6. Cardinality(pile \cup rest) = Cardinality(pile) + Cardinality(rest)
    <3>1. Cardinality(pile \cup rest) = Cardinality(pile) + Cardinality(rest) - Cardinality(pile \cap rest)
      BY <2>3, <2>4, FS_Union
    <3> QED  BY <2>1, <2>2, <2>3, <2>4, <3>1, FS_EmptySet
  <2> QED  BY <2>2, <2>3, <2>5, <2>6
<1>6. G \in [SUBSET S -> Nat]
  BY <1>3
<1> HIDE DEF G
<1> QED  BY <1>4, <1>5, <1>6 DEF Grows

LEMMA SumSteps ==
    ASSUME NEW S, IsFiniteSet(S), NEW f, Counts(S, f)
    PROVE  \A T \in SUBSET S : /\ Total(T, f) \in Nat /\ (T = {} => Total(T, f) = 0)
                               /\ \A x \in T : Total(T, f) = f[x] + Total(T \ {x}, f)
<1>0. PICK G : Grows(S, f, G)
  BY SumExists
<1>1. /\ G \in [SUBSET S -> Nat] /\ G[{}] = 0
      /\ \A s \in SUBSET S : \A x \in s : G[s] = f[x] + G[s \ {x}]
  BY <1>0 DEF Grows
<1>2. ASSUME NEW T \in SUBSET S PROVE Total(T, f) = G[T]
  <2> DEFINE H == [s \in SUBSET T |-> G[s]]
  <2>1. IsFiniteSet(T)
    BY FS_Subset
  <2>2. H[{}] = 0 /\ H[T] = G[T] /\ H \in [SUBSET T -> Nat]
    BY <1>1
  <2>3. \A s \in SUBSET T : \A x \in s : H[s] = f[x] + H[s \ {x}]
    <3> TAKE s \in SUBSET T
    <3> TAKE x \in s
    <3>1. s \ {x} \in SUBSET T /\ s \in SUBSET S
      OBVIOUS
    <3> QED  BY <1>1, <3>1
  <2> HIDE DEF H
  <2>4. Grows(T, f, H)
    BY <2>2, <2>3 DEF Grows
  <2> QED  BY <2>1, <2>2, <2>4, SumBy
<1>3. ASSUME NEW T \in SUBSET S, NEW x \in T PROVE Total(T, f) = f[x] + Total(T \ {x}, f)
  BY <1>1, <1>2
<1> QED  BY <1>1, <1>2, <1>3

LEMMA SumOfBoth ==
    ASSUME NEW S, IsFiniteSet(S), NEW a, NEW b, NEW f, Adds(S, f, a, b)
    PROVE  Total(S, f) = Total(S, a) + Total(S, b)
<1> USE DEF Adds
<1> DEFINE G == [s \in SUBSET S |-> Total(s, a) + Total(s, b)]
<1>1. \A T \in SUBSET S : /\ Total(T, a) \in Nat /\ (T = {} => Total(T, a) = 0)
                          /\ \A x \in T : Total(T, a) = a[x] + Total(T \ {x}, a)
  BY SumSteps DEF Counts
<1>2. \A T \in SUBSET S : /\ Total(T, b) \in Nat /\ (T = {} => Total(T, b) = 0)
                          /\ \A x \in T : Total(T, b) = b[x] + Total(T \ {x}, b)
  BY SumSteps DEF Counts
<1>3. G[{}] = 0 /\ G \in [SUBSET S -> Nat] /\ G[S] = Total(S, a) + Total(S, b)
  BY <1>1, <1>2
<1>4. ASSUME NEW s \in SUBSET S, NEW x \in s PROVE G[s] = f[x] + G[s \ {x}]
  <2>1. s \ {x} \in SUBSET S /\ x \in S
    OBVIOUS
  <2>2. G[s] = Total(s, a) + Total(s, b) /\ G[s \ {x}] = Total(s \ {x}, a) + Total(s \ {x}, b)
    BY <2>1
  <2>3. Total(s, a) = a[x] + Total(s \ {x}, a) /\ Total(s, b) = b[x] + Total(s \ {x}, b)
    BY <1>1, <1>2
  <2>4. a[x] \in Nat /\ b[x] \in Nat /\ f[x] = a[x] + b[x] /\ Total(s \ {x}, a) \in Nat /\ Total(s \ {x}, b) \in Nat
    BY <1>1, <1>2, <2>1
  <2> HIDE DEF G
  <2> QED  BY <2>2, <2>3, <2>4
<1> HIDE DEF G
<1>5. Total(S, f) = G[S]
  <2>1. Grows(S, f, G)
    BY <1>3, <1>4 DEF Grows
  <2> QED  BY <2>1, SumBy
<1> QED  BY <1>3, <1>5

\* Members worth nothing may be left out.
LEMMA SumOfPart ==
    ASSUME NEW S, IsFiniteSet(S), NEW T \in SUBSET S, NEW f, NEW h, Rests(S, f, T, h)
    PROVE  Total(S, f) = Total(T, h)
<1> USE DEF Rests
<1> DEFINE G == [s \in SUBSET S |-> Total(s \cap T, h)]
<1>1. IsFiniteSet(T)
  BY FS_Subset
<1>2. \A s \in SUBSET T : /\ Total(s, h) \in Nat /\ (s = {} => Total(s, h) = 0)
                          /\ \A x \in s : Total(s, h) = h[x] + Total(s \ {x}, h)
  BY <1>1, SumSteps DEF Counts
<1>3. G[{}] = 0 /\ G \in [SUBSET S -> Nat] /\ G[S] = Total(T, h)
  <2>1. {} \cap T = {} /\ S \cap T = T /\ {} \in SUBSET T /\ \A s : s \cap T \in SUBSET T
    OBVIOUS
  <2>2. Total({}, h) = 0 /\ \A s : Total(s \cap T, h) \in Nat
    BY <1>2, <2>1
  <2>3. G[{}] = Total({} \cap T, h) /\ G[S] = Total(S \cap T, h)
    OBVIOUS
  <2> QED  BY <2>1, <2>2, <2>3
<1>4. ASSUME NEW s \in SUBSET S, NEW x \in s PROVE G[s] = f[x] + G[s \ {x}]
  <2>1. s \ {x} \in SUBSET S /\ s \cap T \in SUBSET T /\ (s \ {x}) \cap T \in SUBSET T
    OBVIOUS
  <2>2. G[s] = Total(s \cap T, h) /\ G[s \ {x}] = Total((s \ {x}) \cap T, h)
    BY <2>1
  <2>3. CASE x \in T
    <3>1. (s \ {x}) \cap T = (s \cap T) \ {x} /\ x \in s \cap T
      BY <2>3
    <3> QED  BY <1>2, <2>1, <2>2, <2>3, <3>1
  <2>4. CASE x \notin T
    <3>1. (s \ {x}) \cap T = s \cap T /\ f[x] = 0
      BY <2>4
    <3>2. Total(s \cap T, h) \in Nat
      BY <1>2, <2>1
    <3> QED  BY <2>2, <3>1, <3>2
  <2> QED  BY <2>3, <2>4
<1> HIDE DEF G
<1>5. Total(S, f) = G[S]
  <2>1. Grows(S, f, G)
    BY <1>3, <1>4 DEF Grows
  <2> QED  BY <2>1, SumBy
<1> QED  BY <1>3, <1>5

\* What is counted group by group is counted.
LEMMA SumOfGroups ==
    ASSUME NEW S, IsFiniteSet(S), NEW T, IsFiniteSet(T), NEW h, NEW f, Groups(S, f, T, h)
    PROVE  Total(S, f) = Cardinality(T)
<1> USE DEF Groups
<1> DEFINE in(s) == {t \in T : h[t] \in s}
           G == [s \in SUBSET S |-> Cardinality(in(s))]
<1>1. G[{}] = 0 /\ G \in [SUBSET S -> Nat] /\ G[S] = Cardinality(T)
  <2>0. ASSUME NEW s \in SUBSET S PROVE Cardinality(in(s)) \in Nat
    BY FS_Subset, FS_CardinalityType
  <2>1. in({}) = {} /\ in(S) = T
    OBVIOUS
  <2>2. G[{}] = Cardinality(in({})) /\ G[S] = Cardinality(in(S))
    OBVIOUS
  <2>3. G[{}] = 0 /\ G[S] = Cardinality(T)
    <3> HIDE DEF in, G
    <3> QED  BY <2>1, <2>2, FS_EmptySet
  <2> QED  BY <2>0, <2>3
<1>2. ASSUME NEW s \in SUBSET S, NEW x \in s PROVE G[s] = f[x] + G[s \ {x}]
  <2> DEFINE at == {t \in T : h[t] = x}
             rest == in(s \ {x})
  <2>1. in(s) = at \cup rest /\ at \cap rest = {} /\ at \in SUBSET T /\ rest \in SUBSET T
    OBVIOUS
  <2>2. G[s] = Cardinality(in(s)) /\ G[s \ {x}] = Cardinality(rest) /\ f[x] = Cardinality(at)
    OBVIOUS
  <2> HIDE DEF in, at, rest, G
  <2>3. IsFiniteSet(at) /\ IsFiniteSet(rest) /\ Cardinality(at) \in Nat /\ Cardinality(rest) \in Nat
    BY <2>1, FS_Subset, FS_CardinalityType
  <2>4. Cardinality(at \cup rest) = Cardinality(at) + Cardinality(rest) - Cardinality(at \cap rest)
    BY <2>3, FS_Union
  <2>5. Cardinality(at \cap rest) = 0
    BY <2>1, FS_EmptySet
  <2> QED  BY <2>1, <2>2, <2>3, <2>4, <2>5
<1> HIDE DEF G
<1>3. Total(S, f) = G[S]
  <2>1. Grows(S, f, G)
    BY <1>1, <1>2 DEF Grows
  <2> QED  BY <2>1, SumBy
<1> QED  BY <1>1, <1>3

LEMMA SumOfOne ==
    ASSUME NEW x, NEW f, f[x] \in Nat
    PROVE  Total({x}, f) = f[x]
<1>1. IsFiniteSet({x})
  BY FS_Singleton
<1>2. \A T \in SUBSET {x} : /\ Total(T, f) \in Nat /\ (T = {} => Total(T, f) = 0)
                            /\ \A y \in T : Total(T, f) = f[y] + Total(T \ {y}, f)
  BY <1>1, SumSteps DEF Counts
<1>3. {x} \ {x} = {} /\ {} \in SUBSET {x} /\ {x} \in SUBSET {x} /\ x \in {x}
  OBVIOUS
<1>4. Total({x}, f) = f[x] + Total({}, f) /\ Total({}, f) = 0
  BY <1>2, <1>3
<1> QED  BY <1>4

-----------------------------------------------------------------------------
(* The profile's sums and the leaderboard's are the same, term by term.    *)

LEMMA ScoringKnows ==
    /\ Guests \subseteq Nat /\ Photos \subseteq Nat /\ IsFiniteSet(Guests) /\ IsFiniteSet(Photos)
    /\ Owner \in [Photos -> Guests] /\ Task \in [Photos -> Tasks \cup {Memory}] /\ Memory \notin Tasks
    /\ Worth \in [Tasks -> Nat] /\ Bonus \in [Photos -> Nat] /\ Day \in [Photos -> Nat]
    /\ PlacePoints \in Seq(Nat)
    /\ StarterPoint \in Nat /\ AwardPoints \in Nat /\ BadgePoints \in Nat
    /\ MemoryCap \in Nat /\ MaxBonus \in Nat
  BY ScoringAssumption DEF ScoringAssumption

LEMMA SumIsANumber ==
    ASSUME NEW S, IsFiniteSet(S), NEW f, Counts(S, f)
    PROVE  Total(S, f) \in Nat /\ (S = {} => Total(S, f) = 0)
  BY SumSteps

\* f counts, for each photo, those of K who like it.
Joins(S, f, K, lk) == \A p \in S : f[p] = Cardinality(lk[p] \cap K)

\* A photo's hearts beside a photo's hearts are the joined rows of the two.
LEMMA PairsAreCounted ==
    ASSUME NEW S, IsFiniteSet(S), NEW K, IsFiniteSet(K), NEW lk,
           NEW f, Joins(S, f, K, lk)
    PROVE  /\ Total(S, f) = Cardinality({row \in S \X K : row[2] \in lk[row[1]]})
           /\ Total(S, f) \in Nat
<1> USE DEF Joins
<1> DEFINE T == {row \in S \X K : row[2] \in lk[row[1]]}
           h == [row \in T |-> row[1]]
<1>1. IsFiniteSet(T)
  <2>1. IsFiniteSet(S \X K)
    BY FS_Product
  <2> QED  BY <2>1, FS_Subset
<1>2. ASSUME NEW p \in S PROVE f[p] = Cardinality({row \in T : h[row] = p})
  <2>1. {row \in T : h[row] = p} = {p} \X (lk[p] \cap K)
    <3>1. ASSUME NEW row \in T, h[row] = p PROVE row \in {p} \X (lk[p] \cap K)
      <4>1. row = <<row[1], row[2]>> /\ row[1] = p /\ row[2] \in K /\ row[2] \in lk[p]
        BY <3>1
      <4> QED  BY <4>1
    <3>2. ASSUME NEW row \in {p} \X (lk[p] \cap K) PROVE row \in T /\ h[row] = p
      <4>1. row = <<row[1], row[2]>> /\ row[1] = p /\ row[2] \in K /\ row[2] \in lk[p]
        OBVIOUS
      <4>2. row \in T
        BY <4>1
      <4> QED  BY <4>1, <4>2
    <3> HIDE DEF T, h
    <3> QED  BY <3>1, <3>2
  <2> DEFINE A == lk[p] \cap K
  <2>2. IsFiniteSet(A) /\ Cardinality(A) \in Nat
    BY FS_Subset, FS_CardinalityType
  <2>3. IsFiniteSet({p}) /\ Cardinality({p}) = 1
    BY FS_Singleton
  <2>4. Cardinality({p} \X A) = Cardinality(A)
    <3> HIDE DEF A
    <3>1. Cardinality({p} \X A) = Cardinality({p}) * Cardinality(A)
      BY <2>2, <2>3, FS_Product
    <3> QED  BY <2>2, <2>3, <3>1
  <2> QED  BY <2>1, <2>4
<1>3. \A row \in T : h[row] \in S
  OBVIOUS
<1>4. Total(S, f) = Cardinality(T)
  <2> HIDE DEF T, h
  <2>1. Groups(S, f, T, h)
    BY <1>2, <1>3 DEF Groups
  <2> QED  BY <1>1, <2>1, SumOfGroups
<1> QED  BY <1>1, <1>4, FS_CardinalityType

LEMMA LesserOf ==
    ASSUME NEW a \in Nat, NEW b \in Nat
    PROVE  Min({a, b}) \in Nat /\ (b = 0 => Min({a, b}) = 0)
<1>1. {a, b} \in SUBSET Nat
  OBVIOUS
<1>2. CASE a <= b
  <2>1. \A n \in {a, b} : a <= n
    BY <1>2
  <2>2. Min({a, b}) = a
    BY <1>1, <2>1, MinIsUnique
  <2> QED  BY <1>2, <2>2
<1>3. CASE b <= a
  <2>1. \A n \in {a, b} : b <= n
    BY <1>3
  <2>2. Min({a, b}) = b
    BY <1>1, <2>1, MinIsUnique
  <2> QED  BY <2>2
<1> QED  BY <1>2, <1>3

LEMMA PhotosPayTheSame ==
    ASSUME NEW S \in SUBSET Photos
    PROVE  LET tasks == {p \in S : Task[p] # Memory}
               paid  == Total(tasks, [p \in Photos |-> Worth[Task[p]]])
           IN  /\ Total(S, [p \in Photos |-> (IF Task[p] = Memory THEN 0 ELSE Worth[Task[p]]) + Bonus[p]])
                      = paid + Total(S, Bonus)
               /\ paid \in Nat /\ Total(S, Bonus) \in Nat
<1> DEFINE tasks == {p \in S : Task[p] # Memory}
           worth == [p \in Photos |-> Worth[Task[p]]]
           a     == [p \in Photos |-> IF Task[p] = Memory THEN 0 ELSE Worth[Task[p]]]
           both  == [p \in Photos |-> (IF Task[p] = Memory THEN 0 ELSE Worth[Task[p]]) + Bonus[p]]
<1>1. \A p \in Photos : Task[p] # Memory => Worth[Task[p]] \in Nat
  BY ScoringKnows
<1>2. \A p \in S : a[p] \in Nat /\ Bonus[p] \in Nat /\ both[p] = a[p] + Bonus[p]
  <2> TAKE p \in S
  <2>1. p \in Photos /\ Bonus[p] \in Nat
    BY ScoringKnows
  <2> QED  BY <1>1, <2>1
<1>3. (\A p \in tasks : worth[p] \in Nat /\ a[p] = worth[p]) /\ \A p \in S \ tasks : a[p] = 0
  BY <1>1
<1>4. IsFiniteSet(S) /\ tasks \in SUBSET S
  BY ScoringKnows, FS_Subset
<1>5. IsFiniteSet(tasks)
  BY <1>4, FS_Subset
<1> HIDE DEF tasks, worth, a, both
<1>6. Total(S, both) = Total(S, a) + Total(S, Bonus)
  <2>1. Adds(S, both, a, Bonus)
    BY <1>2 DEF Adds
  <2> QED  BY <1>4, <2>1, SumOfBoth
<1>7. Total(S, a) = Total(tasks, worth)
  <2>1. Rests(S, a, tasks, worth)
    BY <1>3 DEF Rests
  <2> QED  BY <1>4, <2>1, SumOfPart
<1>8. Total(tasks, worth) \in Nat /\ Total(S, Bonus) \in Nat
  <2>1. Counts(tasks, worth) /\ Counts(S, Bonus)
    BY <1>2, <1>3 DEF Counts
  <2> QED  BY <1>4, <1>5, <2>1, SumIsANumber
<1> QED  BY <1>6, <1>7, <1>8 DEF tasks, worth, both

\* The days of a guest's memories are among the days of all photos, and the
\* other days hold none of the guest's.
LEMMA MemoriesPayTheSame ==
    ASSUME NEW S \in SUBSET Photos
    PROVE  LET mine  == {p \in S : Task[p] = Memory}
               each  == [d \in Nat |-> Min({MemoryCap, Cardinality({p \in mine : Day[p] = d})})]
               group(day) == {p \in S : Task[p] = Memory /\ Day[p] = day}
           IN  /\ Total({Day[p] : p \in Photos}, [d \in Nat |-> Min({MemoryCap, Cardinality(group(d))})])
                      = Total({Day[p] : p \in mine}, each)
               /\ Total({Day[p] : p \in mine}, each) \in Nat
<1> DEFINE mine == {p \in S : Task[p] = Memory}
           on(d) == {p \in mine : Day[p] = d}
           each == [d \in Nat |-> Min({MemoryCap, Cardinality(on(d))})]
           group(day) == {p \in S : Task[p] = Memory /\ Day[p] = day}
           board == [d \in Nat |-> Min({MemoryCap, Cardinality(group(d))})]
           days == {Day[p] : p \in mine}
           all == {Day[p] : p \in Photos}
<1>1. \A d : group(d) = on(d)
  OBVIOUS
<1>2. IsFiniteSet(all) /\ all \in SUBSET Nat /\ days \in SUBSET all
  <2> DEFINE g == [p \in Photos |-> Day[p]]
  <2>1. g \in Surjection(Photos, all)
    BY DEF Surjection
  <2>2. IsFiniteSet(all)
    <3> HIDE DEF g, all
    <3> QED  BY <2>1, ScoringKnows, FS_Surjection
  <2>3. all \in SUBSET Nat
    <3>1. \A p \in Photos : Day[p] \in Nat
      BY ScoringKnows
    <3> QED  BY <3>1
  <2>4. days \in SUBSET all
    OBVIOUS
  <2> QED  BY <2>2, <2>3, <2>4
<1>3. ASSUME NEW d \in Nat
      PROVE  /\ each[d] \in Nat /\ board[d] = each[d]
             /\ d \notin days => board[d] = 0
  <2>1. IsFiniteSet(on(d)) /\ Cardinality(on(d)) \in Nat
    BY ScoringKnows, FS_Subset, FS_CardinalityType
  <2>2. each[d] = Min({MemoryCap, Cardinality(on(d))}) /\ board[d] = Min({MemoryCap, Cardinality(group(d))})
    OBVIOUS
  <2>3. d \notin days => on(d) = {}
    OBVIOUS
  <2>4. group(d) = on(d)
    BY <1>1
  <2> HIDE DEF on, group, each, board, days
  <2>5. d \notin days => Cardinality(on(d)) = 0
    BY <2>3, FS_EmptySet
  <2>6. MemoryCap \in Nat
    BY ScoringKnows
  <2> QED  BY <2>1, <2>2, <2>4, <2>5, <2>6, LesserOf
<1>4. Total(all, board) = Total(days, each)
  <2>1. Rests(all, board, days, each)
    <3> HIDE DEF all, days, each, board
    <3> QED  BY <1>2, <1>3 DEF Rests
  <2>2. IsFiniteSet(all) /\ days \in SUBSET all
    <3> HIDE DEF all, days
    <3> QED  BY <1>2
  <2> HIDE DEF all, days, each, board
  <2> QED  BY <2>1, <2>2, SumOfPart
<1>5. Total(days, each) \in Nat
  <2>1. Counts(days, each)
    <3> HIDE DEF all, days, each, board
    <3> QED  BY <1>2, <1>3 DEF Counts
  <2>2. IsFiniteSet(days)
    <3> HIDE DEF all, days
    <3> QED  BY <1>2, FS_Subset
  <2> HIDE DEF all, days, each, board
  <2> QED  BY <2>1, <2>2, SumIsANumber
<1> QED  BY <1>4, <1>5

\* A guest is in the placing set once at most.
LEMMA CrowdPaysTheSame ==
    ASSUME likes \in [Photos -> SUBSET Guests], NEW g \in Guests
    PROVE  LET place == {c.rank : c \in {c \in crowdFavorites(photo, likes) : c.guest = g}}
           IN  /\ crowdPoints(g) = IF place = {} THEN 0 ELSE PlacePoints[CHOOSE r \in place : TRUE]
               /\ crowdPoints(g) \in Nat
<1> DEFINE place == {c.rank : c \in {c \in crowdFavorites(photo, likes) : c.guest = g}}
           row(h) == [guest |-> h, photo |-> OldestOf(photo, likes, h), rank |-> PlaceOf(photo, likes, h)]
           wins   == {h \in Guests : /\ ScoreOf(photo, likes)[h] > 0
                                     /\ PlaceOf(photo, likes, h) <= Len(PlacePoints)}
           r      == PlaceOf(photo, likes, g)
<1>1. crowdFavorites(photo, likes) = {row(h) : h \in wins}
  BY FavoritesAreTheReference
<1>2. ASSUME NEW n \in place PROVE g \in wins /\ n = r
  <2>1. PICK h \in wins : row(h).guest = g /\ row(h).rank = n
    BY <1>1
  <2>2. row(h).guest = h /\ row(h).rank = PlaceOf(photo, likes, h)
    OBVIOUS
  <2> QED  BY <2>1, <2>2
<1>3. crowdPoints(g) = Total(place, PlacePoints)
  BY DEF crowdPoints
<1> SUFFICES /\ crowdPoints(g) = IF place = {} THEN 0 ELSE PlacePoints[CHOOSE n \in place : TRUE]
             /\ crowdPoints(g) \in Nat
  OBVIOUS
<1> HIDE DEF place
<1>4. CASE place = {}
  <2>1. Total({}, PlacePoints) = 0
    <3>1. IsFiniteSet({}) /\ Counts({}, PlacePoints)
      BY FS_EmptySet DEF Counts
    <3> QED  BY <3>1, SumIsANumber
  <2> QED  BY <1>3, <1>4, <2>1
<1>5. CASE place # {}
  <2>1. g \in wins /\ place = {r}
    BY <1>2, <1>5
  <2>2. PlacePoints[r] \in Nat
    <3>1. r \in Nat \ {0}
      <4> DEFINE higher == {h \in Guests : ScoreOf(photo, likes)[h] > ScoreOf(photo, likes)[g]}
      <4>1. Cardinality(higher) \in Nat
        BY ScoringKnows, FS_Subset, FS_CardinalityType
      <4>2. r = 1 + Cardinality(higher)
        BY DEF PlaceOf
      <4> HIDE DEF higher, r
      <4> QED  BY <4>1, <4>2
    <3>2. r <= Len(PlacePoints) /\ PlacePoints \in Seq(Nat)
      BY <2>1, ScoringKnows
    <3> HIDE DEF r
    <3>3. r \in DOMAIN PlacePoints
      BY <3>1, <3>2
    <3> QED  BY <3>2, <3>3
  <2>3. Total({r}, PlacePoints) = PlacePoints[r]
    <3> HIDE DEF r
    <3> QED  BY <2>2, SumOfOne
  <2>4. (CHOOSE n \in place : TRUE) = r
    BY <2>1
  <2> HIDE DEF r
  <2> QED  BY <1>3, <1>5, <2>1, <2>2, <2>3, <2>4
<1> QED  BY <1>4, <1>5

\* The leaderboard's query and the profile's sums pay a guest the same.
LEMMA BoardIsTheProfile ==
    ASSUME TInv
    PROVE  \A g \in guests : /\ boardPoints(g, crowdFavorites(photo, likes)) = getPoints(g)
                             /\ getPoints(g) \in Nat
<1> SUFFICES ASSUME NEW g \in guests
             PROVE  boardPoints(g, crowdFavorites(photo, likes)) = getPoints(g) /\ getPoints(g) \in Nat
  OBVIOUS
<1> DEFINE S      == Shown(photo, g)
           joined == {p \in Photos : Owner[p] = g /\ photo[p] = "shown"}
           tasks  == {p \in S : Task[p] # Memory}
           mine   == {p \in S : Task[p] = Memory}
           perRow == Total(joined, [p \in Photos |-> (IF Task[p] = Memory THEN 0 ELSE Worth[Task[p]]) + Bonus[p]])
           worth  == Total(tasks, [p \in Photos |-> Worth[Task[p]]])
           bonus  == Total(S, Bonus)
           start  == IF g \in avatar THEN StarterPoint ELSE 0
           shownOf == award \cap S
           boardOf == {p \in award : Owner[p] = g /\ photo[p] # "hidden"}
           mile   == IF g \in milestone THEN BadgePoints ELSE 0
           group(day) == {p \in joined : Task[p] = Memory /\ Day[p] = day}
           memories == Total({Day[p] : p \in Photos}, [d \in Nat |-> Min({MemoryCap, Cardinality(group(d))})])
           place  == {c.rank : c \in {c \in crowdFavorites(photo, likes) : c.guest = g}}
           crowd  == IF place = {} THEN 0 ELSE PlacePoints[CHOOSE r \in place : TRUE]
           hearts == Cardinality({row \in joined \X couple : row[2] \in likes[row[1]]})
<1>0. /\ g \in Guests /\ couple \subseteq Guests /\ likes \in [Photos -> SUBSET Guests]
      /\ extra[g] \in Nat
  <2>1. extra \in [Guests -> 0 .. MaxBonus] /\ g \in Guests
    BY DEF TInv, TypeOK
  <2>2. extra[g] \in 0 .. MaxBonus
    BY <2>1
  <2>3. guests \subseteq Guests /\ couple \subseteq guests /\ likes \in [Photos -> SUBSET guests]
    BY DEF TInv, TypeOK
  <2>4. likes \in [Photos -> SUBSET Guests]
    BY <2>3
  <2> QED  BY <2>1, <2>2, <2>3, <2>4, ScoringKnows
<1>1. joined = S /\ S \in SUBSET Photos /\ IsFiniteSet(S)
  <2>1. joined = S /\ S \in SUBSET Photos
    BY DEF Shown
  <2> HIDE DEF joined, S
  <2> QED  BY <2>1, ScoringKnows, FS_Subset
<1>2. perRow = worth + bonus /\ worth \in Nat /\ bonus \in Nat
  <2> HIDE DEF S, joined
  <2> QED  BY <1>1, PhotosPayTheSame
<1>3. mile + AwardPoints * Cardinality(boardOf) = awardPoints(g) /\ awardPoints(g) \in Nat
  <2>1. boardOf = shownOf
    BY DEF TInv, TypeOK, Shown
  <2>2. Cardinality(shownOf) \in Nat
    <3>1. shownOf \in SUBSET S
      OBVIOUS
    <3> HIDE DEF shownOf, S
    <3> QED  BY <1>1, <3>1, FS_Subset, FS_CardinalityType
  <2>3. mile \in Nat
    BY ScoringKnows
  <2>4. awardPoints(g) = mile + AwardPoints * Cardinality(shownOf)
    BY DEF awardPoints
  <2>5. AwardPoints * Cardinality(shownOf) \in Nat
    <3> HIDE DEF shownOf
    <3> QED  BY <2>2, ScoringKnows
  <2> HIDE DEF shownOf, boardOf, mile
  <2> QED  BY <2>1, <2>3, <2>4, <2>5
<1>4. memories = memoryPoints(g) /\ memoryPoints(g) \in Nat
  <2>1. memoryPoints(g) = Total({Day[p] : p \in mine},
              [d \in Nat |-> Min({MemoryCap, Cardinality({p \in mine : Day[p] = d})})])
    BY DEF memoryPoints
  <2> HIDE DEF S, joined
  <2> QED  BY <1>1, <2>1, MemoriesPayTheSame
<1>5. crowd = crowdPoints(g) /\ crowdPoints(g) \in Nat
  BY <1>0, CrowdPaysTheSame
<1>6. hearts = couplePoints(g) /\ couplePoints(g) \in Nat
  <2> DEFINE f == [p \in Photos |-> Cardinality(likes[p] \cap couple)]
  <2>1. Joins(S, f, couple, likes)
    BY <1>1 DEF Joins
  <2>2. couplePoints(g) = Total(S, f)
    BY DEF couplePoints
  <2>3. IsFiniteSet(couple)
    BY <1>0, ScoringKnows, FS_Subset
  <2> HIDE DEF S, f, joined
  <2> QED  BY <1>1, <2>1, <2>2, <2>3, PairsAreCounted
<1>7. boardPoints(g, crowdFavorites(photo, likes))
          = perRow + extra[g] + start + (mile + AwardPoints * Cardinality(boardOf)) + memories + crowd + hearts
  BY DEF boardPoints
<1>8. getPoints(g)
          = worth + bonus + extra[g] + start + awardPoints(g) + memoryPoints(g) + crowdPoints(g) + couplePoints(g)
  BY DEF getPoints
<1>9. start \in Nat
  BY ScoringKnows
<1> HIDE DEF S, joined, tasks, mine, perRow, worth, bonus, start, shownOf, boardOf, mile, group, memories, place, crowd, hearts
<1> QED  BY <1>0, <1>2, <1>3, <1>4, <1>5, <1>6, <1>7, <1>8, <1>9

-----------------------------------------------------------------------------
(* The dense rank of a value is one more than the distinct values above    *)
(* it, so a tie shares a rank and leaves no gap: the podium's medals.      *)

Higher(values, i) == {values[j] : j \in {j \in DOMAIN values : values[j] > values[i]}}

LEMMA DenseRankCounts ==
    ASSUME NEW values \in Seq(Nat),
           \A i, j \in DOMAIN values : i < j => values[i] >= values[j]
    PROVE  /\ denseRank(values) = [i \in DOMAIN values |-> 1 + Cardinality(Higher(values, i))]
           /\ \A i \in DOMAIN values : Cardinality(Higher(values, i)) \in Nat
<1> DEFINE n         == Len(values)
           IsRank(f) == f = [i \in 1 .. n |->
                               IF i = 1 THEN 1
                               ELSE IF values[i] = values[i - 1] THEN f[i - 1] ELSE f[i - 1] + 1]
           counted   == [i \in 1 .. n |-> 1 + Cardinality(Higher(values, i))]
           all       == {values[j] : j \in 1 .. n}
<1>1. n \in Nat /\ DOMAIN values = 1 .. n /\ \A i \in 1 .. n : values[i] \in Nat
  OBVIOUS
<1>a. \A i, j \in 1 .. n : i < j => values[i] >= values[j]
  BY <1>1
<1>b. IsFiniteSet(all)
  <2> DEFINE g == [j \in 1 .. n |-> values[j]]
  <2>1. g \in Surjection(1 .. n, all)
    BY DEF Surjection
  <2>2. IsFiniteSet(1 .. n)
    BY <1>1, FS_Interval
  <2> HIDE DEF g, all, n
  <2> QED  BY <2>1, <2>2, FS_Surjection
<1>c. ASSUME NEW i \in 1 .. n PROVE IsFiniteSet(Higher(values, i)) /\ Cardinality(Higher(values, i)) \in Nat
  <2>1. Higher(values, i) \in SUBSET all
    BY <1>1 DEF Higher
  <2> HIDE DEF all, n
  <2> QED  BY <1>b, <2>1, FS_Subset, FS_CardinalityType
<1>2. ASSUME NEW i \in 1 .. n, i = 1 PROVE Cardinality(Higher(values, i)) = 0
  <2>1. \A j \in 1 .. n : values[j] <= values[1]
    <3> TAKE j \in 1 .. n
    <3>1. 1 \in 1 .. n /\ (j = 1 \/ 1 < j)
      BY <1>1
    <3>2. CASE j = 1
      BY <3>2, <1>1
    <3>3. CASE 1 < j
      <4>1. values[1] >= values[j] /\ values[1] \in Nat /\ values[j] \in Nat
        BY <1>1, <1>a, <3>1, <3>3
      <4> QED  BY <4>1
    <3> QED  BY <3>1, <3>2, <3>3
  <2>2. Higher(values, i) = {}
    BY <1>1, <1>2, <2>1 DEF Higher
  <2> QED  BY <2>2, FS_EmptySet
<1>3. ASSUME NEW i \in 1 .. n, i # 1
      PROVE  /\ i - 1 \in 1 .. n
             /\ Cardinality(Higher(values, i)) = IF values[i] = values[i - 1]
                                                 THEN Cardinality(Higher(values, i - 1))
                                                 ELSE Cardinality(Higher(values, i - 1)) + 1
  <2>1. i - 1 \in 1 .. n /\ i - 1 < i
    BY <1>1, <1>3
  <2> DEFINE k == i - 1
  <2>2. CASE values[i] = values[k]
    <3>1. Higher(values, i) = Higher(values, k)
      BY <2>2 DEF Higher
    <3> QED  BY <2>1, <2>2, <3>1
  <2>3. CASE values[i] # values[k]
    <3>1. values[k] > values[i] /\ values[k] \in Nat /\ values[i] \in Nat
      <4>1. values[k] >= values[i]
        BY <1>a, <2>1
      <4> QED  BY <4>1, <1>1, <2>1, <2>3
    <3>2. ASSUME NEW j \in 1 .. n PROVE values[j] > values[i] <=> (values[j] > values[k] \/ values[j] = values[k])
      <4>1. values[j] \in Nat /\ j \in Nat /\ i \in Nat
        BY <1>1
      <4>2. CASE j < i
        <5>1. j = k \/ j < k
          BY <4>1, <4>2
        <5>2. values[j] >= values[k]
          <6>1. CASE j = k
            BY <6>1, <4>1
          <6>2. CASE j < k
            BY <6>2, <1>a, <2>1
          <6> QED  BY <5>1, <6>1, <6>2
        <5> QED  BY <5>2, <4>1, <3>1
      <4>3. CASE j >= i
        <5>1. values[i] >= values[j]
          <6>1. CASE j = i
            BY <6>1, <4>1
          <6>2. CASE i < j
            BY <6>2, <1>a
          <6> QED  BY <4>1, <4>3, <6>1, <6>2
        <5> QED  BY <5>1, <4>1, <3>1
      <4> QED  BY <4>1, <4>2, <4>3
    <3> HIDE DEF k
    <3>3. Higher(values, i) = Higher(values, k) \cup {values[k]}
      BY <1>1, <2>1, <3>2 DEF Higher, k
    <3>4. values[k] \notin Higher(values, k)
      BY <1>1, <3>1 DEF Higher
    <3>5. Cardinality(Higher(values, k) \cup {values[k]}) = Cardinality(Higher(values, k)) + 1
      BY <1>c, <2>1, <3>4, FS_AddElement DEF k
    <3> QED  BY <2>1, <2>3, <3>3, <3>5 DEF k
  <2> QED  BY <2>2, <2>3
<1>4. IsRank(counted)
  <2>1. ASSUME NEW i \in 1 .. n
        PROVE  counted[i] = IF i = 1 THEN 1
                            ELSE IF values[i] = values[i - 1] THEN counted[i - 1] ELSE counted[i - 1] + 1
    <3>1. CASE i = 1
      <4>1. Cardinality(Higher(values, i)) = 0 /\ counted[i] = 1 + Cardinality(Higher(values, i))
        BY <3>1, <1>2
      <4> QED  BY <3>1, <4>1
    <3>2. CASE i # 1
      <4>1. /\ i - 1 \in 1 .. n
            /\ Cardinality(Higher(values, i)) = IF values[i] = values[i - 1]
                                                THEN Cardinality(Higher(values, i - 1))
                                                ELSE Cardinality(Higher(values, i - 1)) + 1
        BY <3>2, <1>3
      <4>2. /\ counted[i] = 1 + Cardinality(Higher(values, i))
            /\ counted[i - 1] = 1 + Cardinality(Higher(values, i - 1))
        BY <4>1
      <4>3. Cardinality(Higher(values, i - 1)) \in Nat
        BY <4>1, <1>c
      <4> HIDE DEF counted, n
      <4>4. CASE values[i] = values[i - 1]
        BY <3>2, <4>1, <4>2, <4>3, <4>4
      <4>5. CASE values[i] # values[i - 1]
        BY <3>2, <4>1, <4>2, <4>3, <4>5
      <4> QED  BY <4>4, <4>5
    <3> QED  BY <3>1, <3>2
  <2> QED  BY <2>1
<1>5. denseRank(values) = CHOOSE f : IsRank(f)
  BY DEF denseRank
<1>6. PICK f : f = denseRank(values) /\ IsRank(f)
  <2> HIDE DEF IsRank, counted
  <2> QED  BY <1>4, <1>5
<1>7. ASSUME NEW i \in 1 .. n PROVE f[i] = counted[i]
  <2> DEFINE wrong == {k \in 1 .. n : f[k] # counted[k]}
  <2> SUFFICES ASSUME wrong # {} PROVE FALSE
    OBVIOUS
  <2>1. wrong \in SUBSET Nat /\ IsFiniteSet(wrong)
    <3>1. wrong \in SUBSET (1 .. n)
      OBVIOUS
    <3>2. IsFiniteSet(1 .. n)
      BY <1>1, FS_Interval
    <3>3. 1 .. n \subseteq Nat
      BY <1>1
    <3> HIDE DEF wrong
    <3> QED  BY <3>1, <3>2, <3>3, FS_Subset
  <2>2. PICK k \in wrong : \A m \in wrong : k <= m
    <3> HIDE DEF wrong
    <3> QED  BY <2>1, LeastExists
  <2>3. k \in 1 .. n /\ f[k] # counted[k]
    OBVIOUS
  <2>4. CASE k # 1
    <3>1. k - 1 \in 1 .. n /\ k - 1 \notin wrong
      BY <2>2, <2>3, <2>4, <1>1
    <3>2. f[k - 1] = counted[k - 1]
      BY <3>1
    <3>3. f[k] = IF values[k] = values[k - 1] THEN f[k - 1] ELSE f[k - 1] + 1
      BY <1>6, <2>3, <2>4
    <3>4. counted[k] = IF values[k] = values[k - 1] THEN counted[k - 1] ELSE counted[k - 1] + 1
      BY <1>4, <2>3, <2>4
    <3> QED  BY <2>3, <3>2, <3>3, <3>4
  <2>5. CASE k = 1
    <3>1. f[k] = 1
      BY <1>6, <2>3, <2>5
    <3>2. counted[k] = 1
      BY <1>4, <2>3, <2>5
    <3> QED  BY <2>3, <3>1, <3>2
  <2> QED  BY <2>4, <2>5
<1>8. f = counted
  BY <1>6, <1>7
<1> QED  BY <1>1, <1>6, <1>8, <1>c

\* A board of n rows, most points first.
Descends(board, n) ==
    /\ n \in Nat /\ DOMAIN board = 1 .. n
    /\ \A i \in 1 .. n : board[i].points \in Nat
    /\ \A i, j \in 1 .. n : i < j => board[i].points >= board[j].points

\* To each medal, the guests who have that many distinct scores above theirs.
Medals(scores) ==
    LET ahead(s) == {t[2] : t \in {t \in scores : t[2] > s[2]}}
        medal(r) == {s[1] : s \in {s \in scores : Cardinality(ahead(s)) = r - 1}}
    IN  {<<r, medal(r)>> : r \in 1 .. 3}

\* The podium of such a board gives the medals.
LEMMA PodiumIsTheBest ==
    ASSUME NEW board, NEW n, Descends(board, n)
    PROVE  Podium(board) = Medals({<<board[i].id, board[i].points>> : i \in 1 .. n})
<1> DEFINE scores == {<<board[i].id, board[i].points>> : i \in 1 .. n}
           ahead(s) == {t[2] : t \in {t \in scores : t[2] > s[2]}}
           medal(r) == {s[1] : s \in {s \in scores : Cardinality(ahead(s)) = r - 1}}
           values == [i \in DOMAIN board |-> board[i].points]
           rank == denseRank(values)
           won(r) == {board[i].id : i \in {i \in DOMAIN board : rank[i] = r}}
           score(i) == <<board[i].id, board[i].points>>
<1>1. /\ n \in Nat /\ DOMAIN board = 1 .. n
      /\ \A i \in 1 .. n : board[i].points \in Nat
      /\ \A i, j \in 1 .. n : i < j => board[i].points >= board[j].points
  BY DEF Descends
<1>2. /\ values \in Seq(Nat) /\ DOMAIN values = 1 .. n
      /\ \A i \in 1 .. n : values[i] = board[i].points
  BY <1>1
<1>3. \A i, j \in DOMAIN values : i < j => values[i] >= values[j]
  BY <1>1, <1>2
<1>4. /\ rank = [i \in DOMAIN values |-> 1 + Cardinality(Higher(values, i))]
      /\ \A i \in DOMAIN values : Cardinality(Higher(values, i)) \in Nat
  <2> HIDE DEF values
  <2> QED  BY <1>2, <1>3, DenseRankCounts
<1>5. ASSUME NEW i \in 1 .. n PROVE ahead(score(i)) = Higher(values, i)
  <2>1. score(i)[2] = values[i]
    BY <1>2
  <2>2. ASSUME NEW v PROVE v \in ahead(score(i)) <=> \E j \in 1 .. n : v = values[j] /\ values[j] > values[i]
    <3>1. v \in ahead(score(i)) <=> \E t \in scores : t[2] > score(i)[2] /\ v = t[2]
      OBVIOUS
    <3>2. (\E t \in scores : t[2] > score(i)[2] /\ v = t[2])
            <=> \E j \in 1 .. n : board[j].points > score(i)[2] /\ v = board[j].points
      <4>1. \A j : score(j)[2] = board[j].points
        OBVIOUS
      <4>2. scores = {score(j) : j \in 1 .. n}
        OBVIOUS
      <4> HIDE DEF score
      <4>3. \A t : t \in scores <=> \E j \in 1 .. n : t = score(j)
        BY <4>2
      <4> QED  BY <4>1, <4>3
    <3> QED  BY <1>2, <2>1, <3>1, <3>2
  <2>3. ASSUME NEW v PROVE v \in Higher(values, i) <=> \E j \in 1 .. n : v = values[j] /\ values[j] > values[i]
    BY <1>2 DEF Higher
  <2> HIDE DEF ahead, score, values
  <2> QED  BY <2>2, <2>3
<1>6. ASSUME NEW r \in 1 .. 3 PROVE won(r) = medal(r)
  <2>1. ASSUME NEW i \in 1 .. n PROVE rank[i] = r <=> Cardinality(ahead(score(i))) = r - 1
    <3>1. rank[i] = 1 + Cardinality(Higher(values, i)) /\ Cardinality(Higher(values, i)) \in Nat
      BY <1>2, <1>4
    <3> HIDE DEF rank, values, ahead, score
    <3> QED  BY <1>5, <3>1
  <2>2. \A g : g \in won(r) <=> \E i \in 1 .. n : rank[i] = r /\ g = board[i].id
    BY <1>1
  <2>3. \A g : g \in medal(r) <=> \E i \in 1 .. n : Cardinality(ahead(score(i))) = r - 1 /\ g = board[i].id
    <3>1. \A g : g \in medal(r) <=> \E s \in scores : Cardinality(ahead(s)) = r - 1 /\ g = s[1]
      OBVIOUS
    <3>2. scores = {score(i) : i \in 1 .. n} /\ \A i : score(i)[1] = board[i].id
      OBVIOUS
    <3> HIDE DEF ahead, score, medal
    <3> QED  BY <3>1, <3>2
  <2> HIDE DEF won, medal, ahead, score, rank
  <2> QED  BY <2>1, <2>2, <2>3
<1>7. Podium(board) = {<<r, won(r)>> : r \in 1 .. 3}
  BY DEF Podium
<1> HIDE DEF won, medal
<1>8. Podium(board) = {<<r, medal(r)>> : r \in 1 .. 3}
  BY <1>6, <1>7
<1> QED  BY <1>8 DEF medal, Medals

Leads(a, b) ==
    \/ a.points > b.points
    \/ /\ a.points = b.points
       /\ a.last < b.last \/ (a.last = b.last /\ a.id < b.id)

\* Rows of different guests, with numbers to compare.
Rows(S) ==
    /\ IsFiniteSet(S)
    /\ \A a \in S : a.id \in Nat /\ a.points \in Nat /\ a.last \in Nat
    /\ \A a, b \in S : a.id = b.id => a = b

LEMMA BoardIsSorted ==
    ASSUME NEW S, Rows(S)
    PROVE  /\ Descends(SortBoard(S), Cardinality(S))
           /\ {SortBoard(S)[i] : i \in 1 .. Cardinality(S)} = S
<1> DEFINE inFront == [b \in S |-> {a \in S : Leads(a, b)}]
           n == Cardinality(S)
           board == SortBoard(S)
<1>1. inFront \in [S -> SUBSET S]
  OBVIOUS
<1>2. \A a, b \in S : a \in inFront[b] <=> Leads(a, b)
  OBVIOUS
<1>3. \A a \in S : a.id \in Nat /\ a.points \in Nat /\ a.last \in Nat
  BY DEF Rows
<1>4. IsOrder(S, inFront)
  <2>1. ASSUME NEW a \in S PROVE ~Leads(a, a)
    BY <1>3 DEF Leads
  <2>2. ASSUME NEW a \in S, NEW b \in S, NEW c \in S, Leads(a, b), Leads(b, c) PROVE Leads(a, c)
    BY <1>3, <2>2 DEF Leads
  <2>3. ASSUME NEW a \in S, NEW b \in S, a # b PROVE Leads(a, b) \/ Leads(b, a)
    <3>1. a.id # b.id
      BY <2>3 DEF Rows
    <3> QED  BY <1>3, <3>1 DEF Leads
  <2> HIDE DEF inFront
  <2>4. \A a \in S : a \notin inFront[a]
    BY <1>2, <2>1
  <2>5. ASSUME NEW a \in S, NEW b \in S, a \in inFront[b] PROVE inFront[a] \subseteq inFront[b]
    <3> SUFFICES ASSUME NEW c \in inFront[a] PROVE c \in inFront[b]
      OBVIOUS
    <3>1. c \in S
      BY <1>1
    <3> QED  BY <1>2, <2>2, <2>5, <3>1
  <2>6. \A a, b \in S : a # b => a \in inFront[b] \/ b \in inFront[a]
    BY <1>2, <2>3
  <2> QED  BY <1>1, <2>4, <2>5, <2>6 DEF IsOrder
<1>5. board = Sorted(S, inFront)
  BY DEF SortBoard, Leads
<1> HIDE DEF inFront, board
<1>6. /\ n \in Nat /\ board \in [1 .. n -> S]
      /\ \A a \in S : \E i \in 1 .. n : board[i] = a
      /\ \A i, j \in 1 .. n : i < j => board[i] \in inFront[board[j]]
  <2>1. IsFiniteSet(S)
    BY DEF Rows
  <2> HIDE DEF n
  <2> QED  BY <1>4, <1>5, <2>1, SortedIsInOrder DEF n
<1>7. ASSUME NEW i \in 1 .. n, NEW j \in 1 .. n, i < j PROVE board[i].points >= board[j].points
  <2>1. board[i] \in S /\ board[j] \in S /\ Leads(board[i], board[j])
    BY <1>2, <1>6, <1>7
  <2> QED  BY <1>3, <2>1 DEF Leads
<1>8. Descends(board, n)
  <2>1. \A i \in 1 .. n : board[i].points \in Nat
    BY <1>3, <1>6
  <2>2. DOMAIN board = 1 .. n
    BY <1>6
  <2> HIDE DEF n
  <2> QED  BY <1>6, <1>7, <2>1, <2>2 DEF Descends
<1>9. {board[i] : i \in 1 .. n} = S
  BY <1>6
<1> QED  BY <1>8, <1>9 DEF board

RowsOf(S, pts, lst) == {[id |-> g, points |-> pts[g], last |-> lst[g]] : g \in S}
Comparable(S, pts, lst) == \A g \in S : pts[g] \in Nat /\ lst[g] \in Nat

LEMMA RowsAreComparable ==
    ASSUME NEW S, IsFiniteSet(S), S \subseteq Nat, NEW pts, NEW lst, Comparable(S, pts, lst)
    PROVE  Rows(RowsOf(S, pts, lst))
<1> DEFINE row(g) == [id |-> g, points |-> pts[g], last |-> lst[g]]
           R == {row(g) : g \in S}
           f == [g \in S |-> row(g)]
<1>1. IsFiniteSet(R)
  <2>1. f \in Surjection(S, R)
    BY DEF Surjection
  <2> HIDE DEF f, R
  <2> QED  BY <2>1, FS_Surjection
<1>2. \A g : row(g).id = g /\ row(g).points = pts[g] /\ row(g).last = lst[g]
  OBVIOUS
<1>3. \A a \in R : \E g \in S : a = row(g)
  OBVIOUS
<1> HIDE DEF row, R
<1>4. \A a \in R : a.id \in Nat /\ a.points \in Nat /\ a.last \in Nat
  BY <1>2, <1>3 DEF Comparable
<1>5. \A a, b \in R : a.id = b.id => a = b
  BY <1>2, <1>3
<1>6. Rows(R)
  BY <1>1, <1>4, <1>5 DEF Rows
<1> QED  BY <1>6 DEF R, row, RowsOf

\* The leaderboard has the guests' own scores, and its podium is the three best.
LEMMA BoardMeans == TInv => BoardMatchesProfile
<1> SUFFICES ASSUME TInv PROVE BoardMatchesProfile
  OBVIOUS
<1> DEFINE favorites == crowdFavorites(photo, likes)
           last(g) == IF Shown(photo, g) = {} THEN Max({0} \cup Photos) + 1 ELSE Max(Shown(photo, g))
           pts == [g \in guests |-> getPoints(g)]
           lst == [g \in guests |-> last(g)]
           R == RowsOf(guests, pts, lst)
           n == Cardinality(R)
           board == leaderboard
           scores == {<<g, getPoints(g)>> : g \in guests}
<1>1. IsFiniteSet(guests) /\ guests \subseteq Nat
  BY ScoringKnows, FS_Subset DEF TInv, TypeOK
<1>2. ASSUME NEW g \in guests PROVE last(g) \in Nat
  <2>0. IsFiniteSet({0} \cup Photos)
    BY ScoringKnows, FS_Union, FS_Singleton
  <2>1. IsFiniteSet({0} \cup Photos) /\ ({0} \cup Photos) \in SUBSET Nat /\ {0} \cup Photos # {}
    BY ScoringKnows, <2>0
  <2>2. Max({0} \cup Photos) \in Nat
    BY <2>1, MaxIsGreatest
  <2>3. Shown(photo, g) \in SUBSET Nat /\ IsFiniteSet(Shown(photo, g))
    <3>1. Shown(photo, g) \in SUBSET Photos
      BY DEF Shown
    <3> QED  BY <3>1, ScoringKnows, FS_Subset
  <2>4. CASE Shown(photo, g) = {}
    BY <2>2, <2>4
  <2>5. CASE Shown(photo, g) # {}
    <3>1. Max(Shown(photo, g)) \in Nat
      BY <2>3, <2>5, MaxIsGreatest
    <3> QED  BY <2>5, <3>1
  <2> QED  BY <2>4, <2>5
<1>3. \A g \in guests : pts[g] = boardPoints(g, favorites) /\ pts[g] \in Nat /\ lst[g] \in Nat /\ lst[g] = last(g)
  <2> HIDE DEF last
  <2> QED  BY <1>2, BoardIsTheProfile
<1>4. board = SortBoard(R)
  <2>1. board = SortBoard({[id |-> g, points |-> boardPoints(g, favorites), last |-> last(g)] : g \in guests})
    BY DEF leaderboard
  <2> HIDE DEF last, favorites, pts, lst, board
  <2>2. {[id |-> g, points |-> boardPoints(g, favorites), last |-> last(g)] : g \in guests} = R
    BY <1>3 DEF RowsOf
  <2> QED  BY <2>1, <2>2
<1>5. Rows(R)
  <2>1. Comparable(guests, pts, lst)
    BY <1>3 DEF Comparable
  <2> HIDE DEF pts, lst, last
  <2> QED  BY <1>1, <2>1, RowsAreComparable
<1>6. Descends(board, n) /\ {board[i] : i \in 1 .. n} = R
  <2> HIDE DEF R, board
  <2> QED  BY <1>4, <1>5, BoardIsSorted
<1>7. DOMAIN board = 1 .. n
  BY <1>6 DEF Descends
<1>8. scores = {<<board[i].id, board[i].points>> : i \in 1 .. n}
  <2> DEFINE row(g) == [id |-> g, points |-> pts[g], last |-> lst[g]]
  <2>1. \A g \in guests : row(g).id = g /\ row(g).points = getPoints(g)
    OBVIOUS
  <2>2. R = {row(g) : g \in guests}
    BY DEF RowsOf
  <2> HIDE DEF row, R, n, board, pts, lst
  <2>3. ASSUME NEW g \in guests PROVE \E i \in 1 .. n : <<board[i].id, board[i].points>> = <<g, getPoints(g)>>
    <3>1. row(g) \in R
      BY <2>2
    <3>2. PICK i \in 1 .. n : board[i] = row(g)
      BY <1>6, <3>1
    <3> QED  BY <2>1, <3>2
  <2>4. ASSUME NEW i \in 1 .. n PROVE \E g \in guests : <<board[i].id, board[i].points>> = <<g, getPoints(g)>>
    <3>1. board[i] \in R
      BY <1>6
    <3>2. PICK g \in guests : board[i] = row(g)
      BY <2>2, <3>1
    <3> QED  BY <2>1, <3>2
  <2> QED  BY <2>3, <2>4
<1> HIDE DEF R, n, board, scores
<1>9. Podium(board) = Medals(scores)
  BY <1>6, <1>8, PodiumIsTheBest
<1>10. scores = {<<board[i].id, board[i].points>> : i \in DOMAIN board}
  BY <1>7, <1>8
<1> QED  BY <1>9, <1>10 DEF BoardMatchesProfile, Medals, scores, board

-----------------------------------------------------------------------------
(* The host's statistics count rows that the scores count too.             *)

LEMMA PhotosAreFinite ==
    /\ IsFiniteSet(VisiblePhotos) /\ VisiblePhotos \in SUBSET Photos
    /\ \A T \in SUBSET Photos : IsFiniteSet(T)
<1>1. VisiblePhotos \in SUBSET Photos
  BY DEF VisiblePhotos
<1> QED  BY <1>1, ScoringKnows, FS_Subset

LEMMA HeartsAreCounted ==
    ASSUME TInv, NEW g \in guests
    PROVE  couplePoints(g) = Cardinality({ph \in Shown(photo, g) \X couple : ph[2] \in coupleLikersFor(ph[1])})
<1> DEFINE S == Shown(photo, g)
           f == [p \in Photos |-> Cardinality(likes[p] \cap couple)]
           rows == {row \in S \X couple : row[2] \in likes[row[1]]}
<1>1. S \in SUBSET Photos /\ couple \in SUBSET Guests
  BY DEF Shown, TInv, TypeOK
<1>2. IsFiniteSet(S) /\ IsFiniteSet(couple)
  <2> HIDE DEF S
  <2> QED  BY <1>1, ScoringKnows, FS_Subset
<1>3. Joins(S, f, couple, likes)
  BY <1>1 DEF Joins
<1>4. couplePoints(g) = Total(S, f)
  BY DEF couplePoints
<1>5. Total(S, f) = Cardinality(rows)
  <2> HIDE DEF S, f
  <2> QED  BY <1>2, <1>3, PairsAreCounted
<1>6. {ph \in S \X couple : ph[2] \in coupleLikersFor(ph[1])} = rows
  <2> HIDE DEF S
  <2>1. \A ph \in S \X couple : ph[2] \in couple
    OBVIOUS
  <2> QED  BY <2>1 DEF coupleLikersFor
<1> HIDE DEF rows, f
<1> QED  BY <1>4, <1>5, <1>6

LEMMA ShownHaveOwners ==
    ASSUME TInv
    PROVE  \A p \in Photos : photo[p] \in {"shown", "hidden"} => Owner[p] \in guests
<1> SUFFICES ASSUME NEW p \in Photos, photo[p] \in {"shown", "hidden"} PROVE Owner[p] \in guests
  OBVIOUS
<1>1. photo[p] \notin {"none", "gone"}
  OBVIOUS
<1> QED  BY <1>1 DEF TInv, RowsRefer

\* Photos counted guest by guest.
LEMMA OwnersCount ==
    ASSUME TInv, NEW T \in SUBSET VisiblePhotos, NEW f,
           \A g \in guests : f[g] = Cardinality({p \in T : Owner[p] = g})
    PROVE  Total(guests, f) = Cardinality(T)
<1>1. \A p \in T : Owner[p] \in guests
  BY ShownHaveOwners DEF VisiblePhotos
<1>2. Groups(guests, f, T, Owner)
  BY <1>1 DEF Groups
<1>3. IsFiniteSet(guests) /\ IsFiniteSet(T)
  BY ScoringKnows, FS_Subset, PhotosAreFinite DEF TInv, TypeOK
<1> QED  BY <1>2, <1>3, SumOfGroups

LEMMA TasksAreCounted ==
    ASSUME TInv
    PROVE  Total(perTaskCompletion, [c \in perTaskCompletion |-> c.count])
               = Total(guests, [g \in guests |-> completed(photo, {}, g)])
<1> DEFINE T == {p \in VisiblePhotos : Task[p] # Memory}
           its(t) == {p \in VisiblePhotos : Task[p] = t}
           row(t) == [task |-> t, count |-> Cardinality(its(t))]
           S == perTaskCompletion
           f == [c \in S |-> c.count]
           h == [p \in T |-> row(Task[p])]
           g2 == [g \in guests |-> completed(photo, {}, g)]
<1>1. T \in SUBSET VisiblePhotos /\ T \in SUBSET Photos /\ IsFiniteSet(T)
  <2>1. T \in SUBSET VisiblePhotos /\ T \in SUBSET Photos
    BY DEF VisiblePhotos
  <2> HIDE DEF T
  <2> QED  BY <2>1, PhotosAreFinite
<1>2. \A c : c \in S <=> \E p \in T : c = row(Task[p])
  BY DEF perTaskCompletion
<1>3. IsFiniteSet(S)
  <2>1. h \in Surjection(T, S)
    <3>1. \A p \in T : h[p] \in S
      BY <1>2
    <3>2. \A c \in S : \E p \in T : h[p] = c
      BY <1>2
    <3>3. h = [p \in T |-> h[p]]
      OBVIOUS
    <3> HIDE DEF h, S, T
    <3> QED  BY <3>1, <3>2, <3>3 DEF Surjection
  <2> HIDE DEF h, S, T
  <2> QED  BY <1>1, <2>1, FS_Surjection
<1>4. Groups(S, f, T, h)
  <2>1. \A p \in T : h[p] \in S
    BY <1>2
  <2>2. ASSUME NEW c \in S PROVE f[c] = Cardinality({p \in T : h[p] = c})
    <3>1. PICK q \in T : c = row(Task[q])
      BY <1>2
    <3>2. f[c] = Cardinality(its(Task[q]))
      BY <3>1
    <3>3. Task[q] # Memory /\ \A p \in T : h[p].task = Task[p] /\ h[p] = row(Task[p])
      OBVIOUS
    <3>4. \A p : p \in its(Task[q]) <=> p \in T /\ h[p] = c
      <4>1. \A p : p \in its(Task[q]) <=> p \in T /\ Task[p] = Task[q]
        BY <3>3
      <4>2. \A p \in T : h[p] = c => Task[p] = Task[q]
        <5>1. c.task = Task[q]
          BY <3>1
        <5> QED  BY <3>3, <5>1
      <4>3. \A p \in T : Task[p] = Task[q] => h[p] = c
        BY <3>1, <3>3
      <4> HIDE DEF its, T, h
      <4> QED  BY <4>1, <4>2, <4>3
    <3>5. its(Task[q]) = {p \in T : h[p] = c}
      <4> HIDE DEF its, T, h
      <4> QED  BY <3>4
    <3> QED  BY <3>2, <3>5
  <2> HIDE DEF S, f, T, h
  <2> QED  BY <2>1, <2>2 DEF Groups
<1>5. Total(S, f) = Cardinality(T)
  <2> HIDE DEF S, f, T, h
  <2> QED  BY <1>1, <1>3, <1>4, SumOfGroups
<1>6. Total(guests, g2) = Cardinality(T)
  <2>1. ASSUME NEW g \in guests PROVE g2[g] = Cardinality({p \in T : Owner[p] = g})
    <3> DEFINE mine == {p \in Shown(photo, g) : Task[p] # Memory}
    <3>1. mine = {p \in T : Owner[p] = g}
      BY DEF Shown, VisiblePhotos
    <3>2. Cardinality(mine) \in Nat
      <4>1. mine \in SUBSET Photos
        BY DEF Shown
      <4> HIDE DEF mine
      <4> QED  BY <4>1, PhotosAreFinite, FS_CardinalityType
    <3>3. g2[g] = Cardinality(mine) + 0
      BY DEF completed
    <3> HIDE DEF mine, g2
    <3> QED  BY <3>1, <3>2, <3>3
  <2> HIDE DEF g2, T
  <2> QED  BY <1>1, <2>1, OwnersCount
<1> QED  BY <1>5, <1>6

LEMMA LikesAreCounted ==
    ASSUME TInv
    PROVE  likesTotal = Total(VisiblePhotos, [p \in Photos |-> LikeCount(likes, p)])
<1> DEFINE V == VisiblePhotos
           T == {like \in Guests \X V : like[1] \in likes[like[2]]}
           h == [like \in T |-> like[2]]
           f == [p \in Photos |-> LikeCount(likes, p)]
<1>1. IsFiniteSet(V) /\ V \in SUBSET Photos /\ IsFiniteSet(Guests) /\ likes \in [Photos -> SUBSET Guests]
  <2>1. guests \subseteq Guests /\ likes \in [Photos -> SUBSET guests]
    BY DEF TInv, TypeOK
  <2>2. likes \in [Photos -> SUBSET Guests]
    BY <2>1
  <2> QED  BY <2>2, ScoringKnows, PhotosAreFinite
<1> HIDE DEF V
<1>2. IsFiniteSet(T)
  <2>1. IsFiniteSet(Guests \X V)
    BY <1>1, FS_Product
  <2> QED  BY <2>1, FS_Subset
<1>3. ASSUME NEW p \in V PROVE f[p] = Cardinality({like \in T : h[like] = p})
  <2>1. likes[p] \in SUBSET Guests /\ p \in Photos
    BY <1>1
  <2>2. {like \in T : h[like] = p} = likes[p] \X {p}
    <3>1. ASSUME NEW l \in T, h[l] = p PROVE l \in likes[p] \X {p}
      <4>1. l = <<l[1], l[2]>> /\ l[2] = p /\ l[1] \in likes[p]
        BY <3>1
      <4> QED  BY <4>1
    <3>2. ASSUME NEW l \in likes[p] \X {p} PROVE l \in T /\ h[l] = p
      <4>1. l = <<l[1], l[2]>> /\ l[2] = p /\ l[1] \in likes[p] /\ l[1] \in Guests
        BY <2>1
      <4>2. l \in T
        BY <4>1
      <4> QED  BY <4>1, <4>2
    <3> HIDE DEF T, h
    <3> QED  BY <3>1, <3>2
  <2>3. IsFiniteSet(likes[p]) /\ Cardinality(likes[p]) \in Nat
    BY <1>1, <2>1, FS_Subset, FS_CardinalityType
  <2>4. IsFiniteSet({p}) /\ Cardinality({p}) = 1
    BY FS_Singleton
  <2>5. Cardinality(likes[p] \X {p}) = Cardinality(likes[p])
    <3>1. Cardinality(likes[p] \X {p}) = Cardinality(likes[p]) * Cardinality({p})
      BY <2>3, <2>4, FS_Product
    <3> QED  BY <2>3, <2>4, <3>1
  <2>6. f[p] = Cardinality(likes[p])
    BY <2>1 DEF LikeCount
  <2> HIDE DEF T, h, f
  <2> QED  BY <2>2, <2>5, <2>6
<1>4. \A like \in T : h[like] \in V
  OBVIOUS
<1>5. Total(V, f) = Cardinality(T)
  <2> HIDE DEF T, h, f
  <2>1. Groups(V, f, T, h)
    BY <1>3, <1>4 DEF Groups
  <2> QED  BY <1>1, <1>2, <2>1, SumOfGroups
<1>6. likesTotal = Cardinality(T)
  BY DEF likesTotal, V
<1> HIDE DEF T, h, f
<1> QED  BY <1>5, <1>6 DEF f, V

LEMMA BandsAreCounted ==
    ASSUME TInv
    PROVE  participationBands.idle = Cardinality({g \in guests : /\ \A p \in Uploaded : Owner[p] # g
                                                                 /\ \A p \in Photos : g \notin likes[p]})
<1> DEFINE posters == {Owner[p] : p \in Uploaded}
           engaged == UNION {likes[p] : p \in Uploaded}
           idle == {g \in guests : /\ \A p \in Uploaded : Owner[p] # g
                                   /\ \A p \in Photos : g \notin likes[p]}
           fans == engaged \ posters
<1>1. posters \subseteq guests
  BY ShownHaveOwners DEF Uploaded
<1>2. engaged \subseteq guests
  BY DEF TInv, TypeOK, Uploaded
<1>3. \A p \in Photos : p \notin Uploaded => likes[p] = {}
  BY DEF TInv, TypeOK, RowsRefer, Uploaded
<1>4. idle = (guests \ posters) \ fans
  <2>1. \A g : g \in engaged <=> \E p \in Photos : g \in likes[p]
    BY <1>3 DEF Uploaded
  <2>2. \A g : g \in posters <=> \E p \in Uploaded : Owner[p] = g
    OBVIOUS
  <2> HIDE DEF posters, engaged
  <2> QED  BY <2>1, <2>2
<1>5. participationBands.idle = Cardinality(guests) - Cardinality(posters) - Cardinality(fans)
  BY DEF participationBands
<1>6. IsFiniteSet(guests)
  BY ScoringKnows, FS_Subset DEF TInv, TypeOK
<1> HIDE DEF posters, engaged, idle
<1>7. fans \subseteq guests \ posters
  BY <1>2
<1> HIDE DEF fans
<1>8. Cardinality(guests \ posters) = Cardinality(guests) - Cardinality(posters) /\ IsFiniteSet(guests \ posters)
  <2>1. guests \cap posters = posters
    BY <1>1
  <2> QED  BY <1>6, <2>1, FS_Difference
<1>9. Cardinality((guests \ posters) \ fans) = Cardinality(guests \ posters) - Cardinality(fans)
  <2>1. (guests \ posters) \cap fans = fans
    BY <1>7
  <2> QED  BY <1>8, <2>1, FS_Difference
<1> QED  BY <1>4, <1>5, <1>8, <1>9 DEF idle

LEMMA StatisticsMean == TInv => StatisticsAreTheScores
<1> SUFFICES ASSUME TInv PROVE StatisticsAreTheScores
  OBVIOUS
<1>1. totalVisiblePhotoCount = Total(guests, [g \in guests |-> Cardinality(Shown(photo, g))])
  <2> DEFINE f == [g \in guests |-> Cardinality(Shown(photo, g))]
  <2>1. ASSUME NEW g \in guests PROVE f[g] = Cardinality({p \in VisiblePhotos : Owner[p] = g})
    <3>1. Shown(photo, g) = {p \in VisiblePhotos : Owner[p] = g}
      BY DEF Shown, VisiblePhotos
    <3> QED  BY <3>1
  <2> HIDE DEF f
  <2>2. Total(guests, f) = Cardinality(VisiblePhotos)
    BY <2>1, OwnersCount
  <2> QED  BY <2>2 DEF totalVisiblePhotoCount, f
<1>2. \A g \in guests :
        couplePoints(g) = Cardinality({ph \in Shown(photo, g) \X couple : ph[2] \in coupleLikersFor(ph[1])})
  BY HeartsAreCounted
<1> QED  BY <1>1, <1>2, TasksAreCounted, LikesAreCounted, BandsAreCounted DEF StatisticsAreTheScores

\* What is derived on every read comes out the same however it is derived: the
\* placing set, the profile's points, the leaderboard's and the statistics'
\* (services/scoring, services/event-stats.js, routes/community.js).
THEOREM ScoresAlwaysAgree == PartsSpec => []ScoresAgree
<1>1. TInv => BoardMatchesProfile /\ StatisticsAreTheScores
  BY BoardMeans, StatisticsMean
<1>2. PlacesMatchReference /\ GoldIsTheChampion /\ BoardMatchesProfile /\ StatisticsAreTheScores => ScoresAgree
  BY DEF ScoresAgree
<1> QED  BY <1>1, <1>2, PartsIsScoring, TypeCorrect, PlacesAreTheReference, GoldIsAlwaysTheChampion, PTL

LEMMA PlacesAreTaken ==
    ASSUME NEW m \in Nat, NEW kept \in SUBSET (1 .. m),
           NEW place, place = [i \in kept |-> Cardinality({j \in kept : j <= i})]
    PROVE  /\ IsFiniteSet(kept) /\ Cardinality(kept) \in Nat
           /\ \A i \in kept : place[i] \in 1 .. Cardinality(kept)
           /\ \A i, j \in kept : i < j => place[i] < place[j]
           /\ \A n \in 1 .. Cardinality(kept) : \E i \in kept : place[i] = n
<1> DEFINE upto(i) == {j \in kept : j <= i}
<1>1. IsFiniteSet(kept) /\ Cardinality(kept) \in Nat
  <2>1. IsFiniteSet(1 .. m)
    BY FS_Interval
  <2> QED  BY <2>1, FS_Subset, FS_CardinalityType
<1>2. ASSUME NEW i \in kept
      PROVE  /\ IsFiniteSet(upto(i)) /\ Cardinality(upto(i)) \in Nat /\ Cardinality(upto(i)) >= 1
             /\ Cardinality(upto(i)) <= Cardinality(kept)
  <2>1. IsFiniteSet(upto(i)) /\ Cardinality(upto(i)) <= Cardinality(kept)
    BY <1>1, FS_Subset
  <2>2. i \in upto(i)
    OBVIOUS
  <2>3. Cardinality(upto(i)) \in Nat /\ Cardinality(upto(i)) # 0
    BY <2>1, <2>2, FS_CardinalityType, FS_EmptySet
  <2> QED  BY <2>1, <2>3
<1>3. \A i \in kept : place[i] \in 1 .. Cardinality(kept)
  BY <1>1, <1>2
<1>4. ASSUME NEW i \in kept, NEW j \in kept, i < j PROVE place[i] < place[j]
  <2>1. upto(i) \subseteq upto(j) /\ j \in upto(j) /\ j \notin upto(i)
    <3>1. \A k \in kept : k \in Int
      OBVIOUS
    <3>2. \A k \in kept : k <= i => k <= j
      BY <1>4, <3>1
    <3>3. j <= j /\ ~(j <= i)
      BY <1>4, <3>1
    <3> QED  BY <3>2, <3>3
  <2>2. Cardinality(upto(i)) < Cardinality(upto(j))
    <3>1. upto(i) \subseteq upto(j) \ {j} /\ Cardinality(upto(j) \ {j}) = Cardinality(upto(j)) - 1
      BY <1>2, <2>1, FS_RemoveElement
    <3>2. IsFiniteSet(upto(j) \ {j})
      BY <1>2, FS_Subset
    <3>3. Cardinality(upto(i)) <= Cardinality(upto(j) \ {j})
      BY <3>1, <3>2, FS_Subset
    <3> QED  BY <1>2, <3>1, <3>3
  <2> QED  BY <2>2
<1>5. place \in Bijection(kept, 1 .. Cardinality(kept))
  <2>1. place \in [kept -> 1 .. Cardinality(kept)]
    BY <1>3
  <2>2. \A i, j \in kept : place[i] = place[j] => i = j
    <3> SUFFICES ASSUME NEW i \in kept, NEW j \in kept, place[i] = place[j] PROVE i = j
      OBVIOUS
    <3>1. place[i] \in Nat /\ place[j] \in Nat /\ i \in Nat /\ j \in Nat
      BY <1>1, <1>3
    <3> QED  BY <1>4, <3>1
  <2>3. place \in Injection(kept, 1 .. Cardinality(kept))
    BY <2>1, <2>2 DEF Injection, IsInjective
  <2>4. IsFiniteSet(1 .. Cardinality(kept)) /\ Cardinality(1 .. Cardinality(kept)) = Cardinality(kept)
    BY <1>1, FS_Interval
  <2>5. place \in Surjection(kept, 1 .. Cardinality(kept))
    BY <1>1, <2>3, <2>4, FS_Injection
  <2> QED  BY <2>3, <2>5 DEF Bijection
<1>6. \A n \in 1 .. Cardinality(kept) : \E i \in kept : place[i] = n
  BY <1>5 DEF Bijection, Surjection
<1> QED  BY <1>1, <1>3, <1>4, <1>6


-----------------------------------------------------------------------------
(* Memories: a batch, its files and its rows.                              *)

Main(kind) == IF Memories!IsHeic(kind) THEN "converted" ELSE "original"

\* Of one place of a batch there are exactly these files.
Just(b, i, d, kinds) == \A k : <<b, i, k>> \in d <=> k \in kinds

Terminal == {"done", "error", "lost"}
Early == {"away", "resolve", "queued", "decoding", "admit", "space", "waiting"}

BatchType(x) ==
    x \in [files : Seq(Memories!Kinds), pc : Early \cup {"thumbs"} \cup Terminal, at : Nat \ {0},
           made : SUBSET Nat, failed : SUBSET Nat]

\* What the record of a batch says of its files d and of its rows r.
Sound(b, x, d, r) ==
    /\ BatchType(x)
    /\ \A i, k : <<b, i, k>> \in d => i \in 1 .. Len(x.files)
    /\ \A i : <<b, i>> \in r => x.pc = "done" /\ i \in x.made
    /\ x.pc \in Early => x.made = {} /\ x.failed = {}
    /\ x.pc = "away" => x.files = <<>> /\ x.at = 1
    /\ x.pc \in {"resolve", "queued", "decoding"} =>
          /\ x.at \in 1 .. Len(x.files)
          /\ \A i \in 1 .. Len(x.files) : Just(b, i, d, {IF i < x.at THEN Main(x.files[i]) ELSE "original"})
          /\ x.pc # "resolve" => Memories!IsHeic(x.files[x.at])
    /\ x.pc \in {"admit", "space", "waiting"} =>
          \A i \in 1 .. Len(x.files) : Just(b, i, d, {Main(x.files[i])})
    /\ x.pc = "thumbs" =>
          /\ x.at \in 1 .. Len(x.files) + 1 /\ x.made \cup x.failed = 1 .. x.at - 1 /\ x.made \cap x.failed = {}
          /\ \A i \in 1 .. Len(x.files) :
                Just(b, i, d, IF i \in x.made THEN {Main(x.files[i]), "thumb"}
                              ELSE IF i \in x.failed THEN {} ELSE {Main(x.files[i])})
    /\ x.pc = "done" =>
          /\ x.made # {} => x.made \cup x.failed = 1 .. Len(x.files)
          /\ \A i \in x.made : /\ <<b, i>> \in r /\ i \in 1 .. Len(x.files)
                               /\ Just(b, i, d, {Main(x.files[i]), "thumb"})
          /\ \A i, k : <<b, i, k>> \in d /\ i \notin x.made => k = "partial"

FilesInv ==
    /\ batch = [b \in Batches |-> batch[b]]
    /\ \A f \in disk : f = <<f[1], f[2], f[3]>> /\ f[1] \in Batches
    /\ \A r \in stored : r = <<r[1], r[2]>> /\ r[1] \in Batches
    /\ \A b \in Batches : Sound(b, batch[b], disk, stored)
    /\ \A f \in leaked : f[1] \in Batches /\ (batch[f[1]].pc \in {"error", "lost"} \/ f[3] = "partial")

HeicIs == heic = [attempts |-> heic.attempts, slot |-> heic.slot, queue |-> heic.queue]

SlotInv ==
    /\ HeicIs
    /\ Memories!SlotFollowsDecode
    /\ IsFiniteSet(heic.queue) /\ heic.slot \in Batches \cup {0}

\* The attempts that still count and the history agree on every stretch that
\* may still be asked about.
Over(s, u) == Cardinality({i \in DOMAIN s : s[i] > u})

Accounted(attempts, allowed, window, n) ==
    /\ attempts \in Seq(0 .. n) /\ allowed \in Seq(0 .. n)
    /\ \A u \in Int : u >= n - window => Over(attempts, u) = Over(allowed, u)

WindowsInv ==
    /\ now \in Nat
    /\ admitted = [memory |-> admitted.memory, heic |-> admitted.heic, wronged |-> admitted.wronged]
    /\ Accounted(memory, admitted.memory, MEMORY_RATE_WINDOW_MS, now)
    /\ Accounted(heic.attempts, admitted.heic, HEIC_DECODE_RATE_WINDOW_MS, now)
    /\ Memories!WindowsAreExact

MemoriesInv == FilesInv /\ SlotInv /\ WindowsInv

-----------------------------------------------------------------------------
(* Memories: the sliding windows.                                          *)

LEMMA MemoriesCardinality ==
    \A S : Memories!Cardinality(S) = Cardinality(S)
<1> QED  BY DEF Memories!Cardinality, Cardinality

LEMMA MemoriesLimits ==
    /\ MEMORY_RATE_MAX \in Nat /\ MEMORY_RATE_WINDOW_MS \in Nat /\ HEIC_DECODE_RATE_MAX \in Nat
    /\ HEIC_DECODE_RATE_WINDOW_MS \in Nat /\ MAX_PENDING_HEIC_DECODES \in Nat
<1> QED  BY PartsAssumption DEF PartsAssumption

LEMMA OverIsANumber ==
    ASSUME NEW S, NEW s \in Seq(S), NEW u
    PROVE  Over(s, u) \in Nat /\ IsFiniteSet({i \in DOMAIN s : s[i] > u})
<1>1. IsFiniteSet(1 .. Len(s)) /\ DOMAIN s = 1 .. Len(s)
  BY FS_Interval
<1> QED  BY <1>1, FS_Subset, FS_CardinalityType DEF Over

LEMMA OverOneMore ==
    ASSUME NEW S \in SUBSET Int, NEW s \in Seq(S), NEW m \in S, NEW u \in Int
    PROVE  Over(Append(s, m), u) = Over(s, u) + (IF m > u THEN 1 ELSE 0)
<1> DEFINE t == Append(s, m)
           n == Len(s)
           before == {i \in DOMAIN s : s[i] > u}
           after == {i \in DOMAIN t : t[i] > u}
<1>1. /\ n \in Nat /\ DOMAIN s = 1 .. n /\ DOMAIN t = 1 .. n + 1 /\ t[n + 1] = m
      /\ \A i \in 1 .. n : t[i] = s[i]
  OBVIOUS
<1>2. after = IF m > u THEN before \cup {n + 1} ELSE before
  <2> HIDE DEF t, n
  <2>1. \A i : i \in 1 .. n + 1 <=> i \in 1 .. n \/ i = n + 1
    BY <1>1
  <2>2. \A i : i \in after <=> i \in before \/ (i = n + 1 /\ m > u)
    BY <1>1, <2>1
  <2> QED  BY <2>2
<1>3. n + 1 \notin before
  BY <1>1
<1>4. IsFiniteSet(before) /\ Cardinality(before) \in Nat
  BY OverIsANumber DEF Over
<1> HIDE DEF before, after, n, t
<1>5. Cardinality(before \cup {n + 1}) = Cardinality(before) + 1
  BY <1>3, <1>4, FS_AddElement
<1>6. Over(s, u) = Cardinality(before) /\ Over(t, u) = Cardinality(after)
  BY DEF Over, before, after
<1> QED  BY <1>2, <1>4, <1>5, <1>6 DEF t

\* Live keeps what is younger than the window.
LEMMA LiveKeeps ==
    ASSUME NEW n \in Nat, NEW s \in Seq(0 .. n), NEW w \in Nat, now \in Nat
    PROVE  LET live == Memories!Live(s, w)
           IN  /\ live \in Seq(0 .. n) /\ Len(live) = Over(s, now - w)
               /\ \A u \in Int : u >= now - w => Over(live, u) = Over(s, u)
<1> DEFINE kept == {i \in DOMAIN s : s[i] > now - w}
           place == [i \in kept |-> Cardinality({j \in kept : j <= i})]
           at(k) == CHOOSE i \in kept : place[i] = k
           live == Memories!Live(s, w)
<1>1. Len(s) \in Nat /\ DOMAIN s = 1 .. Len(s) /\ kept \in SUBSET (1 .. Len(s)) /\ \A i \in 1 .. Len(s) : s[i] \in 0 .. n
  OBVIOUS
<1>2. /\ IsFiniteSet(kept) /\ Cardinality(kept) \in Nat
      /\ \A i \in kept : place[i] \in 1 .. Cardinality(kept)
      /\ \A i, j \in kept : i < j => place[i] < place[j]
      /\ \A k \in 1 .. Cardinality(kept) : \E i \in kept : place[i] = k
  <2> HIDE DEF kept
  <2> QED  BY <1>1, PlacesAreTaken
<1>3. live = [k \in 1 .. Cardinality(kept) |-> s[at(k)]]
  <2> DEFINE there == [i \in kept |-> Memories!Cardinality({j \in kept : j <= i})]
  <2>1. there = place
    BY MemoriesCardinality
  <2>2. live = [k \in 1 .. Memories!Cardinality(kept) |-> s[CHOOSE i \in kept : there[i] = k]]
    BY DEF Memories!Live, Memories!filter
  <2> HIDE DEF there, place, kept, live
  <2> QED  BY <2>1, <2>2, MemoriesCardinality
<1>4. \A k \in 1 .. Cardinality(kept) : at(k) \in kept /\ place[at(k)] = k
  <2> HIDE DEF kept, place
  <2> QED  BY <1>2
<1>5. ASSUME NEW i \in kept PROVE at(place[i]) = i
  <2> HIDE DEF kept, place
  <2>1. at(place[i]) \in kept /\ place[at(place[i])] = place[i] /\ place[i] \in Nat
    BY <1>2, <1>4, <1>5
  <2>2. \A j \in kept : j \in Nat
    BY <1>1
  <2> HIDE DEF at
  <2>3. ~(at(place[i]) < i) /\ ~(i < at(place[i]))
    BY <1>2, <2>1
  <2> QED  BY <2>1, <2>2, <2>3
<1> HIDE DEF place, at, live
<1>6. live \in Seq(0 .. n) /\ Len(live) = Cardinality(kept) /\ DOMAIN live = 1 .. Cardinality(kept)
  <2>1. \A k \in 1 .. Cardinality(kept) : s[at(k)] \in 0 .. n
    BY <1>1, <1>4
  <2>2. live \in [1 .. Cardinality(kept) -> 0 .. n]
    BY <1>3, <2>1
  <2>3. DOMAIN live = 1 .. Cardinality(kept)
    BY <1>3
  <2> HIDE DEF kept
  <2> QED  BY <1>2, <2>2, <2>3
<1>7. ASSUME NEW u \in Int, u >= now - w PROVE Over(live, u) = Over(s, u)
  <2> DEFINE here == {i \in DOMAIN s : s[i] > u}
             there == {k \in DOMAIN live : live[k] > u}
             f == [i \in here |-> place[i]]
  <2>1. here \subseteq kept
    <3>1. \A i \in 1 .. Len(s) : s[i] \in Int /\ now - w \in Int
      BY <1>1
    <3> QED  BY <1>1, <1>7, <3>1
  <2>2. \A i \in kept : place[i] \in 1 .. Cardinality(kept) /\ live[place[i]] = s[i]
    BY <1>2, <1>3, <1>5
  <2>3. f \in [here -> there]
    BY <1>6, <2>1, <2>2
  <2>4. \A i, j \in here : f[i] = f[j] => i = j
    BY <1>5, <2>1
  <2>5. \A k \in there : \E i \in here : f[i] = k
    <3> SUFFICES ASSUME NEW k \in there PROVE \E i \in here : f[i] = k
      OBVIOUS
    <3>1. k \in 1 .. Cardinality(kept) /\ live[k] > u
      BY <1>6
    <3>2. at(k) \in kept /\ place[at(k)] = k /\ live[k] = s[at(k)]
      BY <1>3, <1>4, <3>1
    <3>3. at(k) \in here
      BY <3>1, <3>2
    <3> QED  BY <3>2, <3>3
  <2>6. IsFiniteSet(here)
    BY OverIsANumber
  <2> HIDE DEF here, there, f
  <2>7. f \in Bijection(here, there)
    BY <2>3, <2>4, <2>5 DEF Bijection, Injection, Surjection, IsInjective
  <2>8. Cardinality(here) = Cardinality(there)
    BY <2>6, <2>7, FS_Bijection DEF ExistsBijection
  <2>9. Over(s, u) = Cardinality(here) /\ Over(live, u) = Cardinality(there)
    BY DEF Over, here, there
  <2> QED  BY <2>8, <2>9
<1>8. Len(live) = Over(s, now - w)
  BY <1>6 DEF Over
<1> QED  BY <1>6, <1>7, <1>8 DEF live

LEMMA WithinIsOver ==
    ASSUME NEW n \in Nat, NEW s \in Seq(0 .. n), NEW w \in Nat
    PROVE  Memories!Within(s, w, n) = Over(s, n - w)
<1>1. \A i \in DOMAIN s : s[i] <= n
  OBVIOUS
<1>2. {i \in DOMAIN s : s[i] > n - w /\ s[i] <= n} = {i \in DOMAIN s : s[i] > n - w}
  BY <1>1
<1> QED  BY <1>2, MemoriesCardinality DEF Memories!Within, Over

LEMMA WithinBefore ==
    ASSUME NEW n \in Nat, NEW s \in Seq(0 .. n), NEW w \in Nat, NEW t \in 0 .. n - 1
    PROVE  Memories!Within(Append(s, n), w, t) = Memories!Within(s, w, t)
<1> DEFINE a == Append(s, n)
<1>1. /\ Len(s) \in Nat /\ DOMAIN s = 1 .. Len(s) /\ DOMAIN a = 1 .. Len(s) + 1 /\ a[Len(s) + 1] = n
      /\ \A i \in 1 .. Len(s) : a[i] = s[i]
  OBVIOUS
<1> HIDE DEF a
<1>2. \A i : i \in 1 .. Len(s) + 1 <=> i \in 1 .. Len(s) \/ i = Len(s) + 1
  BY <1>1
<1>3. ~(n <= t)
  OBVIOUS
<1>4. {i \in DOMAIN a : a[i] > t - w /\ a[i] <= t} = {i \in DOMAIN s : s[i] > t - w /\ s[i] <= t}
  BY <1>1, <1>2, <1>3
<1> QED  BY <1>4 DEF Memories!Within, a

LEMMA WithinLater ==
    ASSUME NEW n \in Nat, NEW s \in Seq(0 .. n), NEW w \in Nat
    PROVE  Memories!Within(s, w, n + 1) <= Memories!Within(s, w, n) /\ Memories!Within(s, w, n) \in Nat
<1> DEFINE old == {i \in DOMAIN s : s[i] > n - w}
           new == {i \in DOMAIN s : s[i] > n + 1 - w /\ s[i] <= n + 1}
<1>1. \A i \in DOMAIN s : s[i] \in Int
  OBVIOUS
<1>2. new \subseteq old
  BY <1>1
<1>3. IsFiniteSet(old) /\ Cardinality(old) \in Nat
  BY OverIsANumber DEF Over
<1>4. Cardinality(new) <= Cardinality(old)
  <2> HIDE DEF old, new
  <2> QED  BY <1>2, <1>3, FS_Subset
<1>5. Memories!Within(s, w, n + 1) = Cardinality(new) /\ Memories!Within(s, w, n) = Cardinality(old)
  <2>1. Memories!Within(s, w, n) = Over(s, n - w)
    BY WithinIsOver
  <2> QED  BY <2>1, MemoriesCardinality DEF Memories!Within, Over
<1> QED  BY <1>3, <1>4, <1>5

\* What Accounted says of a count that is refused, let through, or forgotten.
LEMMA RefusedRight ==
    ASSUME NEW attempts, NEW allowed, NEW w \in Nat, NEW max \in Nat, now \in Nat,
           Accounted(attempts, allowed, w, now),
           Len(Memories!Live(attempts, w)) >= max
    PROVE  ~Memories!Wronged(allowed, w, max) /\ Accounted(Memories!Live(attempts, w), allowed, w, now)
<1> DEFINE live == Memories!Live(attempts, w)
<1>1. attempts \in Seq(0 .. now) /\ allowed \in Seq(0 .. now)
      /\ \A u \in Int : u >= now - w => Over(attempts, u) = Over(allowed, u)
  BY DEF Accounted
<1>2. /\ live \in Seq(0 .. now) /\ Len(live) = Over(attempts, now - w)
      /\ \A u \in Int : u >= now - w => Over(live, u) = Over(attempts, u)
  BY <1>1, LiveKeeps
<1> HIDE DEF live
<1>3. Memories!Within(allowed, w, now) = Over(allowed, now - w)
  BY <1>1, WithinIsOver
<1>4. now - w \in Int /\ now - w >= now - w
  OBVIOUS
<1>5. Over(allowed, now - w) = Len(live) /\ Len(live) \in Nat
  BY <1>1, <1>2, <1>4
<1>6. Len(live) >= max
  BY DEF live
<1>7. ~Memories!Wronged(allowed, w, max)
  BY <1>3, <1>5, <1>6 DEF Memories!Wronged
<1> QED  BY <1>1, <1>2, <1>7 DEF Accounted, live

LEMMA LetThrough ==
    ASSUME NEW attempts, NEW allowed, NEW w \in Nat, NEW max \in Nat, now \in Nat,
           Accounted(attempts, allowed, w, now),
           \A t \in 0 .. now : Memories!Within(allowed, w, t) <= max,
           Len(Memories!Live(attempts, w)) < max
    PROVE  /\ Accounted(Append(Memories!Live(attempts, w), now), Append(allowed, now), w, now)
           /\ \A t \in 0 .. now : Memories!Within(Append(allowed, now), w, t) <= max
<1> DEFINE live == Memories!Live(attempts, w)
           a == Append(allowed, now)
<1>1. attempts \in Seq(0 .. now) /\ allowed \in Seq(0 .. now)
      /\ \A u \in Int : u >= now - w => Over(attempts, u) = Over(allowed, u)
  BY DEF Accounted
<1>2. /\ live \in Seq(0 .. now) /\ Len(live) = Over(attempts, now - w)
      /\ \A u \in Int : u >= now - w => Over(live, u) = Over(attempts, u)
  BY <1>1, LiveKeeps
<1>3. Len(live) < max /\ Len(live) \in Nat
  BY <1>2
<1> HIDE DEF live
<1>4. now \in 0 .. now /\ (0 .. now) \in SUBSET Int /\ now - w \in Int /\ now - w >= now - w
  OBVIOUS
<1>5. a \in Seq(0 .. now) /\ Append(live, now) \in Seq(0 .. now)
  BY <1>1, <1>2, <1>4
<1>6. ASSUME NEW u \in Int, u >= now - w PROVE Over(Append(live, now), u) = Over(a, u)
  <2>1. Over(Append(live, now), u) = Over(live, u) + (IF now > u THEN 1 ELSE 0)
    BY <1>2, <1>4, OverOneMore
  <2>2. Over(a, u) = Over(allowed, u) + (IF now > u THEN 1 ELSE 0)
    BY <1>1, <1>4, OverOneMore
  <2> QED  BY <1>1, <1>2, <1>6, <2>1, <2>2
<1>7. ASSUME NEW t \in 0 .. now PROVE Memories!Within(a, w, t) <= max
  <2>1. CASE t = now
    <3>1. Memories!Within(a, w, now) = Over(a, now - w)
      BY <1>5, WithinIsOver
    <3>2. Over(a, now - w) = Over(allowed, now - w) + (IF now > now - w THEN 1 ELSE 0)
      BY <1>1, <1>4, OverOneMore
    <3>3. Over(allowed, now - w) = Len(live)
      BY <1>1, <1>2, <1>4
    <3> QED  BY <1>3, <2>1, <3>1, <3>2, <3>3
  <2>2. CASE t # now
    <3>1. t \in 0 .. now - 1
      BY <2>2
    <3> QED  BY <1>1, <3>1, WithinBefore
  <2> QED  BY <2>1, <2>2
<1> QED  BY <1>5, <1>6, <1>7 DEF Accounted, live

LEMMA TimePasses ==
    ASSUME NEW attempts, NEW allowed, NEW w \in Nat, NEW max \in Nat, now \in Nat,
           Accounted(attempts, allowed, w, now),
           \A t \in 0 .. now : Memories!Within(allowed, w, t) <= max
    PROVE  /\ Accounted(attempts, allowed, w, now + 1)
           /\ \A t \in 0 .. now + 1 : Memories!Within(allowed, w, t) <= max
<1>1. attempts \in Seq(0 .. now) /\ allowed \in Seq(0 .. now)
      /\ \A u \in Int : u >= now - w => Over(attempts, u) = Over(allowed, u)
  BY DEF Accounted
<1>2. \A s \in Seq(0 .. now) : s \in Seq(0 .. now + 1)
  <2>1. (0 .. now) \subseteq (0 .. now + 1)
    OBVIOUS
  <2> QED  BY <2>1
<1>3. Memories!Within(allowed, w, now + 1) <= max
  <2>1. /\ Memories!Within(allowed, w, now + 1) <= Memories!Within(allowed, w, now)
        /\ Memories!Within(allowed, w, now) \in Nat /\ now \in 0 .. now
    BY <1>1, WithinLater
  <2>2. Memories!Within(allowed, w, now + 1) \in Int
    <3>1. IsFiniteSet({i \in DOMAIN allowed : allowed[i] > now + 1 - w /\ allowed[i] <= now + 1})
      <4>1. IsFiniteSet(1 .. Len(allowed)) /\ DOMAIN allowed = 1 .. Len(allowed)
        BY <1>1, FS_Interval
      <4> QED  BY <4>1, FS_Subset
    <3> QED  BY <3>1, FS_CardinalityType, MemoriesCardinality DEF Memories!Within
  <2> QED  BY <2>1, <2>2
<1>4. \A t \in 0 .. now + 1 : t \in 0 .. now \/ t = now + 1
  OBVIOUS
<1>5. \A u \in Int : u >= now + 1 - w => u >= now - w
  OBVIOUS
<1> QED  BY <1>1, <1>2, <1>3, <1>4, <1>5 DEF Accounted

LEMMA NothingYet ==
    ASSUME NEW w \in Nat, NEW n \in Nat
    PROVE  /\ Accounted(<< >>, << >>, w, n)
           /\ \A t \in 0 .. n : Memories!Within(<< >>, w, t) = 0
<1>1. \A u : Over(<< >>, u) = Over(<< >>, u)
  OBVIOUS
<1>2. ASSUME NEW t \in 0 .. n PROVE Memories!Within(<< >>, w, t) = 0
  <2> DEFINE s == << >>
  <2>1. {i \in DOMAIN s : s[i] > t - w /\ s[i] <= t} = {}
    OBVIOUS
  <2>2. Memories!Within(s, w, t) = Memories!Cardinality({i \in DOMAIN s : s[i] > t - w /\ s[i] <= t})
    BY DEF Memories!Within
  <2> QED  BY <2>1, <2>2, MemoriesCardinality, FS_EmptySet
<1> QED  BY <1>1, <1>2 DEF Accounted

-----------------------------------------------------------------------------
(* Memories: the steps of one batch.                                       *)

Partly(b, f) == f[1] = b /\ f[3] = "partial"

LEMMA OneBatchMoves ==
    ASSUME NEW b \in Batches, NEW x, FilesInv, batch[b].pc \notin Terminal,
           batch' = [batch EXCEPT ![b] = x],
           \A f \in disk' : f \in disk \/ f = <<b, f[2], f[3]>>,
           \A f \in disk : f \in disk' \/ f[1] = b,
           \A r \in stored' : r \in stored \/ r = <<b, r[2]>>,
           stored \subseteq stored',
           Sound(b, x, disk', stored'),
           \A f \in leaked' : f \in leaked \/ (f[1] = b /\ (x.pc \in {"error", "lost"} \/ f[3] = "partial"))
    PROVE  FilesInv'
<1>1. /\ \A c \in Batches : batch'[c] = IF c = b THEN x ELSE batch[c]
      /\ batch' = [c \in Batches |-> batch'[c]]
  BY DEF FilesInv
<1>2. \A f \in disk' : f = <<f[1], f[2], f[3]>> /\ f[1] \in Batches
  BY DEF FilesInv
<1>3. \A r \in stored' : r = <<r[1], r[2]>> /\ r[1] \in Batches
  BY DEF FilesInv
<1>4. ASSUME NEW c \in Batches PROVE Sound(c, batch'[c], disk', stored')
  <2>1. CASE c = b
    BY <1>1, <2>1
  <2>2. CASE c # b
    <3>1. batch'[c] = batch[c] /\ Sound(c, batch[c], disk, stored)
      BY <1>1, <2>2 DEF FilesInv
    <3>2. \A i, k : <<c, i, k>> \in disk' <=> <<c, i, k>> \in disk
      BY <2>2
    <3>3. \A i : <<c, i>> \in stored' <=> <<c, i>> \in stored
      BY <2>2
    <3> QED  BY <3>1, <3>2, <3>3 DEF Sound, Just
  <2> QED  BY <2>1, <2>2
<1>5. ASSUME NEW f \in leaked'
      PROVE  f[1] \in Batches /\ (batch'[f[1]].pc \in {"error", "lost"} \/ f[3] = "partial")
  <2>1. CASE f \in leaked /\ f[1] # b
    BY <1>1, <2>1 DEF FilesInv
  <2>2. CASE f \in leaked /\ f[1] = b
    BY <2>2 DEF FilesInv, Terminal
  <2>3. CASE f \notin leaked
    BY <1>1, <2>3
  <2> QED  BY <2>1, <2>2, <2>3
<1> QED  BY <1>1, <1>2, <1>3, <1>4, <1>5 DEF FilesInv

\* A batch that is refused early has only originals and converted photos.
LEMMA EarlyFiles ==
    ASSUME NEW b \in Batches, FilesInv, batch[b].pc \in Early
    PROVE  /\ \A f \in disk : f[1] = b => f[3] \in {"original", "converted"}
           /\ batch[b].made = {} /\ batch[b].failed = {} /\ BatchType(batch[b])
           /\ \A i : <<b, i>> \notin stored
<1>1. Sound(b, batch[b], disk, stored)
  BY DEF FilesInv
<1>2. batch[b].pc # "done" /\ batch[b].pc # "thumbs"
  BY DEF Early
<1>3. BatchType(batch[b]) /\ batch[b].made = {} /\ batch[b].failed = {} /\ \A i : <<b, i>> \notin stored
  BY <1>1, <1>2 DEF Sound
<1>4. ASSUME NEW f \in disk, f[1] = b PROVE f[3] \in {"original", "converted"}
  <2>1. f = <<b, f[2], f[3]>> /\ f[2] \in 1 .. Len(batch[b].files)
    BY <1>1, <1>4 DEF Sound, FilesInv
  <2>2. \A kind : Main(kind) \in {"original", "converted"}
    BY DEF Main
  <2>3. CASE batch[b].pc \in {"resolve", "queued", "decoding"}
    BY <1>1, <2>1, <2>2, <2>3 DEF Sound, Just
  <2>4. CASE batch[b].pc \in {"admit", "space", "waiting"}
    BY <1>1, <2>1, <2>2, <2>4 DEF Sound, Just
  <2>5. CASE batch[b].pc = "away"
    BY <1>1, <2>1, <2>5 DEF Sound
  <2> QED  BY <2>3, <2>4, <2>5 DEF Early
<1> QED  BY <1>3, <1>4

LEMMA RefusedFiles ==
    ASSUME NEW b \in Batches, FilesInv, batch[b].pc \in Early, Memories!Refuse(b), stored' = stored
    PROVE  FilesInv'
<1> DEFINE x == [batch[b] EXCEPT !.pc = "done"]
<1>1. /\ batch' = [batch EXCEPT ![b] = x] /\ disk' = disk \ Memories!Originals(b)
      /\ leaked' = leaked \cup Memories!Left(b, disk', stored)
  BY DEF Memories!Refuse, Memories!End, Memories!Goto
<1>2. /\ \A f \in disk : f[1] = b => f[3] \in {"original", "converted"}
      /\ batch[b].made = {} /\ batch[b].failed = {} /\ BatchType(batch[b])
      /\ \A i : <<b, i>> \notin stored
  BY EarlyFiles
<1>3. \A f \in disk' : f \in disk /\ f[1] # b
  BY <1>1, <1>2 DEF Memories!Originals
<1>4. \A f \in disk : f \in disk' \/ f[1] = b
  BY <1>1 DEF Memories!Originals
<1>5. leaked' = leaked
  BY <1>1, <1>3 DEF Memories!Left
<1>6. x.pc = "done" /\ x.made = {} /\ x.failed = {} /\ BatchType(x)
  BY <1>2 DEF BatchType, Terminal
<1> HIDE DEF x
<1>7. Sound(b, x, disk', stored')
  <2>1. \A i, k : <<b, i, k>> \notin disk'
    BY <1>3
  <2> QED  BY <1>2, <1>6, <2>1 DEF Sound, Early
<1>8. batch[b].pc \notin Terminal
  BY DEF Early, Terminal
<1> QED  BY <1>1, <1>3, <1>4, <1>5, <1>7, <1>8, OneBatchMoves

LEMMA SlotMoves ==
    ASSUME NEW b \in Batches, NEW x, SlotInv, batch = [c \in Batches |-> batch[c]],
           batch' = [batch EXCEPT ![b] = x],
           HeicIs', heic'.queue = (heic.queue \ {b}) \cup (IF x.pc = "queued" THEN {b} ELSE {}),
           heic'.slot = IF x.pc = "decoding" THEN b ELSE IF heic.slot = b THEN 0 ELSE heic.slot,
           x.pc = "decoding" => batch[b].pc = "decoding" \/ (batch[b].pc = "queued" /\ heic.slot = 0),
           x.pc = "queued" => batch[b].pc \notin {"queued", "decoding"} /\ Memories!Occupancy < MAX_PENDING_HEIC_DECODES
    PROVE  SlotInv'
<1>1. /\ \A c \in Batches : batch'[c] = IF c = b THEN x ELSE batch[c]
      /\ \A c \in Batches : heic.slot = c <=> batch[c].pc = "decoding"
      /\ heic.queue = {c \in Batches : batch[c].pc = "queued"}
      /\ Memories!Occupancy <= MAX_PENDING_HEIC_DECODES
      /\ IsFiniteSet(heic.queue) /\ heic.slot \in Batches \cup {0} /\ 0 \notin Batches
      /\ MAX_PENDING_HEIC_DECODES \in Nat
  BY PartsAssumption, MemoriesLimits DEF SlotInv, Memories!SlotFollowsDecode, PartsAssumption
<1>2. \A c \in Batches : heic'.slot = c <=> batch'[c].pc = "decoding"
  BY <1>1
<1>3. heic'.queue = {c \in Batches : batch'[c].pc = "queued"}
  BY <1>1
<1>4. IsFiniteSet(heic.queue \ {b}) /\ IsFiniteSet({b})
  <2>1. IsFiniteSet(heic.queue) /\ heic.queue \ {b} \subseteq heic.queue
    BY <1>1
  <2>2. IsFiniteSet(heic.queue \ {b})
    BY <2>1, FS_Subset
  <2> QED  BY <2>2, FS_Singleton
<1>5. IsFiniteSet(heic'.queue)
  <2>1. heic'.queue = heic.queue \ {b} \/ heic'.queue = (heic.queue \ {b}) \cup {b}
    OBVIOUS
  <2>2. IsFiniteSet((heic.queue \ {b}) \cup {b})
    BY <1>4, FS_Union
  <2> QED  BY <1>4, <2>1, <2>2
<1> DEFINE q == Cardinality(heic.queue)
           r == Cardinality(heic.queue \ {b})
<1>6. q \in Nat /\ r \in Nat /\ r <= q /\ (b \in heic.queue => r = q - 1) /\ (b \notin heic.queue => r = q)
  BY <1>1, FS_CardinalityType, FS_RemoveElement, FS_Subset
<1>7. Cardinality(heic'.queue) = IF x.pc = "queued" THEN r + 1 ELSE r
  <2>1. CASE x.pc = "queued"
    <3>1. b \notin heic.queue \ {b} /\ heic'.queue = (heic.queue \ {b}) \cup {b}
      BY <2>1
    <3> QED  BY <1>4, <2>1, <3>1, FS_AddElement
  <2>2. CASE x.pc # "queued"
    BY <2>2
  <2> QED  BY <2>1, <2>2
<1>8. Memories!Occupancy = q + (IF heic.slot = 0 THEN 0 ELSE 1)
  BY MemoriesCardinality DEF Memories!Occupancy, Memories!Nobody
<1>9. Memories!Occupancy' = Cardinality(heic'.queue) + (IF heic'.slot = 0 THEN 0 ELSE 1)
  BY MemoriesCardinality DEF Memories!Occupancy, Memories!Nobody
<1>10. b \in heic.queue <=> batch[b].pc = "queued"
  BY <1>1
<1> HIDE DEF q, r
<1>11. Memories!Occupancy' <= MAX_PENDING_HEIC_DECODES
  <2>1. CASE x.pc = "queued"
    <3>1. heic'.slot = heic.slot /\ r = q
      BY <1>1, <1>6, <1>10, <2>1
    <3> QED  BY <1>1, <1>6, <1>7, <1>8, <1>9, <2>1, <3>1
  <2>2. CASE x.pc = "decoding"
    BY <1>1, <1>6, <1>7, <1>8, <1>9, <1>10, <2>2
  <2>3. CASE x.pc \notin {"queued", "decoding"}
    <3>1. heic'.slot = 0 \/ heic'.slot = heic.slot
      BY <2>3
    <3> QED  BY <1>1, <1>6, <1>7, <1>8, <1>9, <2>3, <3>1
  <2> QED  BY <2>1, <2>2, <2>3
<1>12. heic'.slot \in Batches \cup {0}
  BY <1>1
<1> QED  BY <1>2, <1>3, <1>5, <1>11, <1>12 DEF SlotInv, Memories!SlotFollowsDecode

-----------------------------------------------------------------------------
(* Memories: every action keeps the files with their batches.              *)

KeepsFiles == FilesInv /\ SlotInv

\* A refused batch decodes no more and waits for no decode.
LEMMA RefusedSlot ==
    ASSUME NEW b \in Batches, KeepsFiles, Memories!Refuse(b), HeicIs',
           heic'.queue = heic.queue \ {b}, heic'.slot = IF heic.slot = b THEN 0 ELSE heic.slot
    PROVE  SlotInv'
<1> DEFINE x == [batch[b] EXCEPT !.pc = "done"]
<1>1. batch' = [batch EXCEPT ![b] = x]
  BY DEF Memories!Refuse, Memories!End, Memories!Goto
<1>2. x.pc = "done"
  <2>1. BatchType(batch[b])
    BY DEF KeepsFiles, FilesInv, Sound
  <2> QED  BY <2>1 DEF BatchType
<1> HIDE DEF x
<1>3. heic'.queue = (heic.queue \ {b}) \cup (IF x.pc = "queued" THEN {b} ELSE {})
  BY <1>2
<1>4. heic'.slot = IF x.pc = "decoding" THEN b ELSE IF heic.slot = b THEN 0 ELSE heic.slot
  BY <1>2
<1> QED  BY <1>1, <1>2, <1>3, <1>4, SlotMoves DEF KeepsFiles, FilesInv

LEMMA RefusedElsewhere ==
    ASSUME NEW b \in Batches, KeepsFiles, Memories!Refuse(b), stored' = stored, HeicIs',
           batch[b].pc \in {"resolve", "admit", "space"}, heic'.queue = heic.queue, heic'.slot = heic.slot
    PROVE  KeepsFiles'
<1>1. heic'.queue = heic.queue \ {b} /\ heic'.slot = IF heic.slot = b THEN 0 ELSE heic.slot
  BY DEF KeepsFiles, SlotInv, Memories!SlotFollowsDecode
<1>2. batch[b].pc \in Early
  BY DEF Early
<1> QED  BY <1>1, <1>2, RefusedFiles, RefusedSlot DEF KeepsFiles

LEMMA RefusedWaiting ==
    ASSUME NEW b \in Batches, KeepsFiles, Memories!Refuse(b), stored' = stored, HeicIs',
           batch[b].pc = "queued", heic'.queue = heic.queue \ {b}, heic'.slot = heic.slot
    PROVE  KeepsFiles'
<1>1. heic'.slot = IF heic.slot = b THEN 0 ELSE heic.slot
  BY DEF KeepsFiles, SlotInv, Memories!SlotFollowsDecode
<1>2. batch[b].pc \in Early
  BY DEF Early
<1> QED  BY <1>1, <1>2, RefusedFiles, RefusedSlot DEF KeepsFiles

\* A batch that moves on outside the decodes.
LEMMA SlotIsLeft ==
    ASSUME NEW b \in Batches, NEW x, KeepsFiles, batch' = [batch EXCEPT ![b] = x], heic' = heic,
           x.pc \notin {"queued", "decoding"}, batch[b].pc \notin {"queued", "decoding"}
    PROVE  SlotInv'
<1>1. heic'.queue = (heic.queue \ {b}) \cup (IF x.pc = "queued" THEN {b} ELSE {})
  BY DEF KeepsFiles, SlotInv, Memories!SlotFollowsDecode
<1>2. heic'.slot = IF x.pc = "decoding" THEN b ELSE IF heic.slot = b THEN 0 ELSE heic.slot
  BY DEF KeepsFiles, SlotInv, Memories!SlotFollowsDecode
<1>3. HeicIs'
  BY DEF KeepsFiles, SlotInv, HeicIs
<1> QED  BY <1>1, <1>2, <1>3, SlotMoves DEF KeepsFiles, FilesInv

\* One file is as it should be: the next is looked at, or the batch is ready.
LEMMA NextFileIsSound ==
    ASSUME NEW b \in Batches, FilesInv, batch[b].pc \in {"resolve", "decoding"},
           Memories!NextFile(b), stored' = stored, leaked' = leaked,
           \A f \in disk' : f \in disk \/ f = <<b, f[2], f[3]>>,
           \A f \in disk : f \in disk' \/ f[1] = b,
           \A i, k : <<b, i, k>> \in disk' <=>
                        \/ i = batch[b].at /\ k = Main(batch[b].files[i])
                        \/ i # batch[b].at /\ <<b, i, k>> \in disk,
           \A i, k : <<b, i, k>> \in disk' => i \in 1 .. Len(batch[b].files)
    PROVE  /\ FilesInv'
           /\ \E x : batch' = [batch EXCEPT ![b] = x] /\ x.pc \in {"resolve", "admit"}
<1> DEFINE y == batch[b]
           x == IF y.at = Len(y.files) THEN [y EXCEPT !.pc = "admit"] ELSE [y EXCEPT !.at = @ + 1, !.pc = "resolve"]
<1>1. batch' = [batch EXCEPT ![b] = x]
  <2>1. batch = [c \in Batches |-> batch[c]]
    BY DEF FilesInv
  <2>2. CASE y.at = Len(y.files)
    BY <2>1, <2>2 DEF Memories!NextFile
  <2>3. CASE y.at # Len(y.files)
    BY <2>1, <2>3 DEF Memories!NextFile
  <2> QED  BY <2>2, <2>3
<1>2. Sound(b, y, disk, stored)
  BY DEF FilesInv
<1>3. /\ y.at \in 1 .. Len(y.files) /\ y.made = {} /\ y.failed = {} /\ BatchType(y)
      /\ \A i \in 1 .. Len(y.files) : Just(b, i, disk, {IF i < y.at THEN Main(y.files[i]) ELSE "original"})
      /\ \A i : <<b, i>> \notin stored
  BY <1>2 DEF Sound, Early
<1>4. \A i \in 1 .. Len(y.files) :
          Just(b, i, disk', {IF i <= y.at THEN Main(y.files[i]) ELSE "original"})
  <2> TAKE i \in 1 .. Len(y.files)
  <2>1. CASE i = y.at
    BY <1>3, <2>1 DEF Just
  <2>2. CASE i # y.at
    <3>1. i < y.at <=> i <= y.at
      BY <1>3, <2>2 DEF BatchType
    <3>2. Just(b, i, disk, {IF i < y.at THEN Main(y.files[i]) ELSE "original"})
      BY <1>3
    <3> QED  BY <2>2, <3>1, <3>2 DEF Just
  <2> QED  BY <2>1, <2>2
<1>5. Len(y.files) \in Nat /\ y.at \in Nat
  BY <1>3 DEF BatchType
<1> HIDE DEF y
<1>6. Sound(b, x, disk', stored') /\ x.pc \in {"resolve", "admit"}
  <2>1. CASE y.at = Len(y.files)
    <3>1. /\ x.pc = "admit" /\ x.files = y.files /\ x.at = y.at /\ x.made = {} /\ x.failed = {} /\ BatchType(x)
      BY <1>3, <2>1 DEF BatchType, Early
    <3>2. \A i \in 1 .. Len(x.files) : Just(b, i, disk', {Main(x.files[i])})
      <4> TAKE i \in 1 .. Len(x.files)
      <4>1. i <= y.at
        BY <1>5, <2>1, <3>1
      <4> QED  BY <1>4, <3>1, <4>1
    <3>3. \A i, k : <<b, i, k>> \in disk' => i \in 1 .. Len(x.files)
      BY <3>1 DEF y
    <3> HIDE DEF x
    <3> QED  BY <1>3, <3>1, <3>2, <3>3 DEF Sound, Early
  <2>2. CASE y.at # Len(y.files)
    <3>1. /\ x.pc = "resolve" /\ x.files = y.files /\ x.at = y.at + 1 /\ x.made = {} /\ x.failed = {} /\ BatchType(x)
      <4>1. x = [y EXCEPT !.at = y.at + 1, !.pc = "resolve"] /\ y.at + 1 \in Nat \ {0}
        BY <1>5, <2>2
      <4> HIDE DEF x
      <4> QED  BY <1>3, <4>1 DEF BatchType, Early
    <3>2. \A i \in 1 .. Len(x.files) : Just(b, i, disk', {IF i < x.at THEN Main(x.files[i]) ELSE "original"})
      <4> TAKE i \in 1 .. Len(x.files)
      <4>1. i <= y.at <=> i < x.at
        BY <1>5, <3>1
      <4> QED  BY <1>4, <3>1, <4>1
    <3>3. \A i, k : <<b, i, k>> \in disk' => i \in 1 .. Len(x.files)
      BY <3>1 DEF y
    <3>4. x.at \in 1 .. Len(x.files)
      BY <1>3, <1>5, <2>2, <3>1
    <3> HIDE DEF x
    <3> QED  BY <1>3, <3>1, <3>2, <3>3, <3>4 DEF Sound, Early
  <2> QED  BY <2>1, <2>2
<1>7. batch[b].pc \notin Terminal
  BY DEF Terminal
<1> HIDE DEF x
<1>8. FilesInv'
  BY <1>1, <1>6, <1>7, OneBatchMoves
<1> QED  BY <1>1, <1>6, <1>8

LEMMA UploadKeeps ==
    ASSUME NEW b \in Batches, KeepsFiles, Memories!Upload(b) PROVE KeepsFiles'
<1>1. PICK files \in Uploads :
          /\ batch' = [batch EXCEPT ![b].files = files, ![b].pc = "resolve"]
          /\ disk' = disk \cup {<<b, i, "original">> : i \in DOMAIN files}
          /\ stored' = stored /\ leaked' = leaked /\ heic' = heic /\ batch[b].pc = "away"
  BY DEF Memories!Upload
<1> DEFINE x == [batch[b] EXCEPT !.files = files, !.pc = "resolve"]
<1>2. Len(files) \in Nat /\ DOMAIN files = 1 .. Len(files) /\ files # << >> /\ files \in Seq(Memories!Kinds)
  BY PartsAssumption DEF PartsAssumption, Memories!Kinds
<1>3. Sound(b, batch[b], disk, stored) /\ batch = [c \in Batches |-> batch[c]]
  BY DEF KeepsFiles, FilesInv
<1>4. /\ batch[b].at = 1 /\ batch[b].made = {} /\ batch[b].failed = {} /\ BatchType(batch[b])
      /\ batch[b].files = << >> /\ \A i, k : <<b, i, k>> \notin disk
      /\ \A i : <<b, i>> \notin stored
  <2>1. batch[b].files = << >> /\ batch[b].at = 1 /\ batch[b].made = {} /\ batch[b].failed = {} /\ BatchType(batch[b])
    BY <1>1, <1>3 DEF Sound, Early
  <2>2. \A i : i \notin 1 .. Len(<< >>)
    OBVIOUS
  <2> QED  BY <1>1, <1>3, <2>1, <2>2 DEF Sound
<1>5. x.files = files /\ x.pc = "resolve" /\ x.at = 1 /\ x.made = {} /\ x.failed = {} /\ BatchType(x)
  BY <1>2, <1>4 DEF BatchType, Early
<1>6. batch' = [batch EXCEPT ![b] = x]
  BY <1>1, <1>3
<1> HIDE DEF x
<1>7. \A i, k : <<b, i, k>> \in disk' <=> i \in 1 .. Len(files) /\ k = "original"
  BY <1>1, <1>2, <1>4
<1>8. Sound(b, x, disk', stored')
  <2>1. 1 \in 1 .. Len(files)
    BY <1>2
  <2>2. \A i \in 1 .. Len(files) : Just(b, i, disk', {IF i < 1 THEN Main(files[i]) ELSE "original"})
    BY <1>7 DEF Just
  <2> QED  BY <1>1, <1>4, <1>5, <1>7, <2>1, <2>2 DEF Sound, Early
<1>9. \A f \in disk' : f \in disk \/ f = <<b, f[2], f[3]>>
  BY <1>1
<1>10. FilesInv'
  BY <1>1, <1>6, <1>8, <1>9, OneBatchMoves DEF KeepsFiles, Terminal
<1>11. SlotInv'
  BY <1>1, <1>5, <1>6, SlotIsLeft
<1> QED  BY <1>10, <1>11 DEF KeepsFiles

LEMMA ResolveAsIsKeeps ==
    ASSUME NEW b \in Batches, KeepsFiles, Memories!ResolveAsIs(b) PROVE KeepsFiles'
<1>1. /\ batch[b].pc = "resolve" /\ Memories!Kind(b) \in {"jpeg", "misnamed"} /\ Memories!NextFile(b)
      /\ disk' = disk /\ stored' = stored /\ leaked' = leaked /\ heic' = heic
  BY DEF Memories!ResolveAsIs
<1>2. Sound(b, batch[b], disk, stored)
  BY DEF KeepsFiles, FilesInv
<1>3. Main(batch[b].files[batch[b].at]) = "original"
  BY <1>1 DEF Main, Memories!IsHeic, Memories!Kind
<1>4. /\ batch[b].at \in 1 .. Len(batch[b].files) /\ ~(batch[b].at < batch[b].at)
      /\ Just(b, batch[b].at, disk, {"original"})
  BY <1>1, <1>2 DEF Sound
<1>5. \A i, k : <<b, i, k>> \in disk => i \in 1 .. Len(batch[b].files)
  BY <1>2 DEF Sound
<1>6. \A i, k : <<b, i, k>> \in disk' <=> \/ i = batch[b].at /\ k = Main(batch[b].files[i])
                                          \/ i # batch[b].at /\ <<b, i, k>> \in disk
  BY <1>1, <1>3, <1>4 DEF Just
<1>7. FilesInv' /\ \E x : batch' = [batch EXCEPT ![b] = x] /\ x.pc \in {"resolve", "admit"}
  BY <1>1, <1>5, <1>6, NextFileIsSound DEF KeepsFiles
<1>8. PICK x : batch' = [batch EXCEPT ![b] = x] /\ x.pc \in {"resolve", "admit"}
  BY <1>7
<1>9. SlotInv'
  BY <1>1, <1>8, SlotIsLeft
<1> QED  BY <1>7, <1>9 DEF KeepsFiles

LEMMA AskForDecodeKeeps ==
    ASSUME NEW b \in Batches, KeepsFiles, Memories!AskForDecode(b) PROVE KeepsFiles'
<1>1. /\ batch[b].pc = "resolve" /\ Memories!IsHeic(Memories!Kind(b)) /\ stored' = stored /\ HeicIs'
      /\ \/ heic'.queue = heic.queue /\ heic'.slot = heic.slot /\ Memories!Refuse(b)
         \/ /\ heic'.queue = heic.queue \cup {b} /\ heic'.slot = heic.slot
            /\ ~(Memories!Occupancy >= MAX_PENDING_HEIC_DECODES)
            /\ batch' = [batch EXCEPT ![b].pc = "queued"] /\ disk' = disk /\ leaked' = leaked
  BY DEF Memories!AskForDecode, Memories!Goto, KeepsFiles, SlotInv, HeicIs
<1>2. CASE Memories!Refuse(b) /\ heic'.queue = heic.queue /\ heic'.slot = heic.slot
  BY <1>1, <1>2, RefusedElsewhere
<1>3. CASE /\ heic'.queue = heic.queue \cup {b} /\ heic'.slot = heic.slot
           /\ ~(Memories!Occupancy >= MAX_PENDING_HEIC_DECODES)
           /\ batch' = [batch EXCEPT ![b].pc = "queued"] /\ disk' = disk /\ leaked' = leaked
  <2> DEFINE x == [batch[b] EXCEPT !.pc = "queued"]
  <2>1. Sound(b, batch[b], disk, stored) /\ batch = [c \in Batches |-> batch[c]]
    BY DEF KeepsFiles, FilesInv
  <2>2. batch' = [batch EXCEPT ![b] = x]
    BY <1>3, <2>1
  <2>3. /\ x.pc = "queued" /\ x.at = batch[b].at /\ x.files = batch[b].files
        /\ x.made = batch[b].made /\ x.failed = batch[b].failed /\ BatchType(x)
    BY <2>1 DEF Sound, BatchType, Early
  <2> HIDE DEF x
  <2>4. Sound(b, x, disk', stored')
    BY <1>1, <1>3, <2>1, <2>3 DEF Sound, Early, Memories!Kind
  <2>5. FilesInv'
    BY <1>1, <1>3, <2>2, <2>4, OneBatchMoves DEF KeepsFiles, Terminal
  <2>6. heic'.queue = (heic.queue \ {b}) \cup (IF x.pc = "queued" THEN {b} ELSE {})
    BY <1>3, <2>3
  <2>7. heic'.slot = IF x.pc = "decoding" THEN b ELSE IF heic.slot = b THEN 0 ELSE heic.slot
    BY <1>1, <1>3, <2>3 DEF KeepsFiles, SlotInv, Memories!SlotFollowsDecode
  <2>8. Memories!Occupancy < MAX_PENDING_HEIC_DECODES
    <3>1. Memories!Occupancy \in Nat
      BY FS_CardinalityType, MemoriesCardinality DEF KeepsFiles, SlotInv, Memories!Occupancy
    <3> QED  BY <1>3, <3>1, MemoriesLimits
  <2>9. SlotInv'
    BY <1>1, <2>1, <2>2, <2>3, <2>6, <2>7, <2>8, SlotMoves DEF KeepsFiles
  <2> QED  BY <2>5, <2>9 DEF KeepsFiles
<1> QED  BY <1>1, <1>2, <1>3

LEMMA StartDecodeKeeps ==
    ASSUME NEW b \in Batches, KeepsFiles, Memories!StartDecode(b) PROVE KeepsFiles'
<1>1. /\ batch[b].pc = "queued" /\ heic.slot = 0 /\ stored' = stored /\ HeicIs'
      /\ \/ heic'.queue = heic.queue \ {b} /\ heic'.slot = heic.slot /\ Memories!Refuse(b)
         \/ /\ heic'.queue = heic.queue \ {b} /\ heic'.slot = b
            /\ batch' = [batch EXCEPT ![b].pc = "decoding"] /\ disk' = disk /\ leaked' = leaked
  BY DEF Memories!StartDecode, Memories!Goto, Memories!Nobody, KeepsFiles, SlotInv, HeicIs
<1>2. CASE heic'.queue = heic.queue \ {b} /\ heic'.slot = heic.slot /\ Memories!Refuse(b)
  BY <1>1, <1>2, RefusedWaiting
<1>3. CASE /\ heic'.queue = heic.queue \ {b} /\ heic'.slot = b
           /\ batch' = [batch EXCEPT ![b].pc = "decoding"] /\ disk' = disk /\ leaked' = leaked
  <2> DEFINE x == [batch[b] EXCEPT !.pc = "decoding"]
  <2>1. Sound(b, batch[b], disk, stored) /\ batch = [c \in Batches |-> batch[c]]
    BY DEF KeepsFiles, FilesInv
  <2>2. batch' = [batch EXCEPT ![b] = x]
    BY <1>3, <2>1
  <2>3. /\ x.pc = "decoding" /\ x.at = batch[b].at /\ x.files = batch[b].files
        /\ x.made = batch[b].made /\ x.failed = batch[b].failed /\ BatchType(x)
    BY <2>1 DEF Sound, BatchType, Early
  <2> HIDE DEF x
  <2>4. Sound(b, x, disk', stored')
    BY <1>1, <1>3, <2>1, <2>3 DEF Sound, Early
  <2>5. FilesInv'
    BY <1>1, <1>3, <2>2, <2>4, OneBatchMoves DEF KeepsFiles, Terminal
  <2>6. heic'.queue = (heic.queue \ {b}) \cup (IF x.pc = "queued" THEN {b} ELSE {})
    BY <1>3, <2>3
  <2>7. heic'.slot = IF x.pc = "decoding" THEN b ELSE IF heic.slot = b THEN 0 ELSE heic.slot
    BY <1>3, <2>3
  <2>8. SlotInv'
    BY <1>1, <2>1, <2>2, <2>3, <2>6, <2>7, SlotMoves DEF KeepsFiles
  <2> QED  BY <2>5, <2>8 DEF KeepsFiles
<1> QED  BY <1>1, <1>2, <1>3

\* settle gives the slot back, whatever became of the decode.
LEMMA SlotIsFreed ==
    ASSUME NEW b \in Batches, NEW x, KeepsFiles, batch[b].pc = "decoding",
           batch' = [batch EXCEPT ![b] = x], x.pc \notin {"queued", "decoding"},
           heic' = [heic EXCEPT !.slot = Memories!Nobody]
    PROVE  SlotInv' /\ heic'.queue = heic.queue \ {b} /\ heic.slot = b /\ heic'.slot = 0
<1>1. heic'.queue = heic.queue /\ heic'.slot = 0 /\ heic.slot = b /\ b \notin heic.queue /\ HeicIs'
  BY DEF KeepsFiles, SlotInv, HeicIs, Memories!SlotFollowsDecode, Memories!Nobody
<1>2. heic'.queue = (heic.queue \ {b}) \cup (IF x.pc = "queued" THEN {b} ELSE {})
  BY <1>1
<1>3. heic'.slot = IF x.pc = "decoding" THEN b ELSE IF heic.slot = b THEN 0 ELSE heic.slot
  BY <1>1
<1> QED  BY <1>1, <1>2, <1>3, SlotMoves DEF KeepsFiles, FilesInv

LEMMA DecodedKeeps ==
    ASSUME NEW b \in Batches, KeepsFiles, Memories!Decoded(b) PROVE KeepsFiles'
<1> DEFINE y == batch[b]
<1>1. /\ y.pc = "decoding" /\ heic' = [heic EXCEPT !.slot = Memories!Nobody] /\ Memories!NextFile(b)
      /\ disk' = (disk \ {<<b, y.at, "original">>}) \cup {<<b, y.at, "converted">>}
      /\ stored' = stored /\ leaked' = leaked
  BY DEF Memories!Decoded, Memories!Settled, Memories!File
<1>2. Sound(b, y, disk, stored)
  BY DEF KeepsFiles, FilesInv
<1>3. /\ y.at \in 1 .. Len(y.files) /\ ~(y.at < y.at) /\ Just(b, y.at, disk, {"original"})
      /\ Main(y.files[y.at]) = "converted"
  BY <1>1, <1>2 DEF Sound, Main
<1>4. \A i, k : <<b, i, k>> \in disk' <=> \/ i = y.at /\ k = Main(y.files[i])
                                          \/ i # y.at /\ <<b, i, k>> \in disk
  BY <1>1, <1>3 DEF Just
<1>5. \A i, k : <<b, i, k>> \in disk' => i \in 1 .. Len(y.files)
  BY <1>1, <1>2, <1>3 DEF Sound
<1>6. /\ \A f \in disk' : f \in disk \/ f = <<b, f[2], f[3]>>
      /\ \A f \in disk : f \in disk' \/ f[1] = b
  BY <1>1
<1>7. FilesInv' /\ \E x : batch' = [batch EXCEPT ![b] = x] /\ x.pc \in {"resolve", "admit"}
  BY <1>1, <1>4, <1>5, <1>6, NextFileIsSound DEF KeepsFiles
<1>8. PICK x : batch' = [batch EXCEPT ![b] = x] /\ x.pc \in {"resolve", "admit"}
  BY <1>7
<1>9. SlotInv'
  BY <1>1, <1>8, SlotIsFreed
<1> QED  BY <1>7, <1>9 DEF KeepsFiles

LEMMA DecodeFailsKeeps ==
    ASSUME NEW b \in Batches, KeepsFiles, Memories!DecodeFails(b) PROVE KeepsFiles'
<1>1. /\ batch[b].pc = "decoding" /\ heic' = [heic EXCEPT !.slot = Memories!Nobody] /\ Memories!Refuse(b)
      /\ stored' = stored
  BY DEF Memories!DecodeFails, Memories!Settled
<1>2. heic'.queue = heic.queue \ {b} /\ HeicIs' /\ heic'.slot = IF heic.slot = b THEN 0 ELSE heic.slot
  BY <1>1 DEF KeepsFiles, SlotInv, HeicIs, Memories!SlotFollowsDecode, Memories!Nobody
<1>3. batch[b].pc \in Early
  BY <1>1 DEF Early
<1> QED  BY <1>1, <1>2, <1>3, RefusedFiles, RefusedSlot DEF KeepsFiles

LEMMA DecodedUnwritableKeeps ==
    ASSUME NEW b \in Batches, KeepsFiles, Memories!DecodedUnwritable(b) PROVE KeepsFiles'
<1> DEFINE y == batch[b]
           x == [y EXCEPT !.pc = "done"]
<1>1. /\ y.pc = "decoding" /\ heic' = [heic EXCEPT !.slot = Memories!Nobody]
      /\ batch' = [batch EXCEPT ![b].pc = "done"]
      /\ disk' = (disk \ Memories!Originals(b)) \cup {<<b, y.at, "partial">>}
      /\ leaked' = leaked \cup Memories!Left(b, disk', stored) /\ stored' = stored
  BY DEF Memories!DecodedUnwritable, Memories!Settled, Memories!End, Memories!Goto
<1>2. Sound(b, y, disk, stored) /\ batch = [c \in Batches |-> batch[c]]
  BY DEF KeepsFiles, FilesInv
<1>3. batch' = [batch EXCEPT ![b] = x]
  BY <1>1, <1>2
<1>4. /\ \A f \in disk : f[1] = b => f[3] \in {"original", "converted"}
      /\ y.made = {} /\ y.failed = {} /\ BatchType(y) /\ \A i : <<b, i>> \notin stored
  BY <1>1, EarlyFiles DEF KeepsFiles, Early
<1>5. x.pc = "done" /\ x.files = y.files /\ x.made = {} /\ x.failed = {} /\ BatchType(x)
  BY <1>4 DEF BatchType, Terminal
<1>6. y.at \in 1 .. Len(y.files)
  BY <1>1, <1>2 DEF Sound
<1>7. \A f \in disk' : (f \in disk /\ f[1] # b) \/ f = <<b, y.at, "partial">>
  BY <1>1, <1>4 DEF Memories!Originals
<1>8. \A f \in disk : f \in disk' \/ f[1] = b
  BY <1>1 DEF Memories!Originals
<1>9. \A f \in leaked' : f \in leaked \/ (f[1] = b /\ f[3] = "partial")
  BY <1>1, <1>7 DEF Memories!Left
<1> HIDE DEF x
<1>10. Sound(b, x, disk', stored')
  <2>1. \A i, k : <<b, i, k>> \in disk' => i = y.at /\ k = "partial"
    BY <1>7
  <2> HIDE DEF y
  <2> QED  BY <1>1, <1>4, <1>5, <1>6, <2>1 DEF Sound, Early
<1>11. FilesInv'
  <2>1. \A f \in disk' : f \in disk \/ f = <<b, f[2], f[3]>>
    BY <1>7
  <2>2. \A f \in leaked' : f \in leaked \/ (f[1] = b /\ (x.pc \in {"error", "lost"} \/ f[3] = "partial"))
    BY <1>9
  <2>3. FilesInv /\ batch[b].pc \notin Terminal /\ stored \subseteq stored' /\ \A r \in stored' : r \in stored
    BY <1>1 DEF KeepsFiles, Terminal
  <2> QED  BY <1>3, <1>8, <1>10, <2>1, <2>2, <2>3, OneBatchMoves
<1>12. SlotInv'
  BY <1>1, <1>3, <1>5, SlotIsFreed
<1> QED  BY <1>11, <1>12 DEF KeepsFiles

LEMMA CsrfRefusedKeeps ==
    ASSUME NEW b \in Batches, KeepsFiles, Memories!CsrfRefused(b) PROVE KeepsFiles'
<1> QED  BY RefusedElsewhere DEF Memories!CsrfRefused, KeepsFiles, SlotInv, HeicIs

LEMMA NoSpaceKeeps ==
    ASSUME NEW b \in Batches, KeepsFiles, Memories!NoSpace(b) PROVE KeepsFiles'
<1> QED  BY RefusedElsewhere DEF Memories!NoSpace, KeepsFiles, SlotInv, HeicIs

LEMMA RateLimitedKeeps ==
    ASSUME NEW b \in Batches, KeepsFiles, Memories!RateLimited(b) PROVE KeepsFiles'
<1> QED  BY RefusedElsewhere DEF Memories!RateLimited, KeepsFiles, SlotInv, HeicIs

LEMMA ResolveJunkKeeps ==
    ASSUME NEW b \in Batches, KeepsFiles, Memories!ResolveJunk(b) PROVE KeepsFiles'
<1> QED  BY RefusedElsewhere DEF Memories!ResolveJunk, KeepsFiles, SlotInv, HeicIs

LEMMA DecodeRateLimitedKeeps ==
    ASSUME NEW b \in Batches, KeepsFiles, Memories!DecodeRateLimited(b) PROVE KeepsFiles'
<1>1. Memories!Refuse(b) /\ stored' = stored /\ batch[b].pc = "resolve"
      /\ heic' = [heic EXCEPT !.attempts = Memories!Live(heic.attempts, HEIC_DECODE_RATE_WINDOW_MS)]
  BY DEF Memories!DecodeRateLimited
<1>2. heic'.queue = heic.queue /\ heic'.slot = heic.slot /\ HeicIs'
  BY <1>1 DEF KeepsFiles, SlotInv, HeicIs
<1> QED  BY <1>1, <1>2, RefusedElsewhere

LEMMA QueueTimeoutKeeps ==
    ASSUME NEW b \in Batches, KeepsFiles, Memories!QueueTimeout(b) PROVE KeepsFiles'
<1>1. Memories!Refuse(b) /\ stored' = stored /\ batch[b].pc = "queued"
      /\ heic'.queue = heic.queue \ {b} /\ heic'.slot = heic.slot /\ HeicIs'
  BY DEF Memories!QueueTimeout, KeepsFiles, SlotInv, HeicIs
<1> QED  BY <1>1, RefusedWaiting

\* A batch that was let through waits for room, and for its turn.
LEMMA BatchWaits ==
    ASSUME NEW b \in Batches, NEW pc \in {"space", "waiting"}, KeepsFiles, batch[b].pc \in {"admit", "space"},
           batch' = [batch EXCEPT ![b].pc = pc],
           disk' = disk, stored' = stored, leaked' = leaked, heic' = heic
    PROVE  KeepsFiles'
<1> DEFINE x == [batch[b] EXCEPT !.pc = pc]
<1>1. Sound(b, batch[b], disk, stored) /\ batch = [c \in Batches |-> batch[c]]
  BY DEF KeepsFiles, FilesInv
<1>2. batch' = [batch EXCEPT ![b] = x]
  BY <1>1
<1>3. /\ x.pc = pc /\ x.at = batch[b].at /\ x.files = batch[b].files
      /\ x.made = batch[b].made /\ x.failed = batch[b].failed /\ BatchType(x)
  BY <1>1 DEF Sound, BatchType, Early
<1> HIDE DEF x
<1>4. Sound(b, x, disk', stored')
  BY <1>1, <1>3 DEF Sound, Early
<1>5. FilesInv'
  BY <1>2, <1>4, OneBatchMoves DEF KeepsFiles, Terminal
<1>6. SlotInv'
  BY <1>2, <1>3, SlotIsLeft
<1> QED  BY <1>5, <1>6 DEF KeepsFiles

LEMMA AdmitKeeps ==
    ASSUME NEW b \in Batches, KeepsFiles, Memories!Admit(b) PROVE KeepsFiles'
<1> QED  BY BatchWaits DEF Memories!Admit, Memories!Goto

LEMMA HasSpaceKeeps ==
    ASSUME NEW b \in Batches, KeepsFiles, Memories!HasSpace(b) PROVE KeepsFiles'
<1> QED  BY BatchWaits DEF Memories!HasSpace, Memories!Goto

LEMMA EnterSlotKeeps ==
    ASSUME NEW b \in Batches, KeepsFiles, Memories!EnterSlot(b) PROVE KeepsFiles'
<1> DEFINE x == [batch[b] EXCEPT !.pc = "thumbs", !.at = 1]
<1>1. /\ batch[b].pc = "waiting" /\ batch' = [batch EXCEPT ![b].pc = "thumbs", ![b].at = 1]
      /\ disk' = disk /\ stored' = stored /\ leaked' = leaked /\ heic' = heic
  BY DEF Memories!EnterSlot
<1>2. Sound(b, batch[b], disk, stored) /\ batch = [c \in Batches |-> batch[c]]
  BY DEF KeepsFiles, FilesInv
<1>3. batch' = [batch EXCEPT ![b] = x]
  BY <1>1, <1>2
<1>4. /\ BatchType(batch[b]) /\ batch[b].made = {} /\ batch[b].failed = {}
      /\ \A i : <<b, i>> \notin stored
      /\ \A i, k : <<b, i, k>> \in disk => i \in 1 .. Len(batch[b].files)
      /\ \A i \in 1 .. Len(batch[b].files) : Just(b, i, disk, {Main(batch[b].files[i])})
  BY <1>1, <1>2 DEF Sound, Early
<1>5. x.pc = "thumbs" /\ x.at = 1 /\ x.files = batch[b].files /\ x.made = {} /\ x.failed = {} /\ BatchType(x)
  <2>1. 1 \in Nat \ {0} /\ "thumbs" \in Early \cup {"thumbs"} \cup Terminal
    OBVIOUS
  <2>2. BatchType(x)
    BY <1>4, <2>1 DEF BatchType
  <2> QED  BY <1>4, <2>2 DEF BatchType
<1>6. Len(batch[b].files) \in Nat
  BY <1>4 DEF BatchType
<1> HIDE DEF x
<1>7. Sound(b, x, disk', stored')
  <2>1. 1 \in 1 .. Len(x.files) + 1 /\ {} = 1 .. 1 - 1
    BY <1>5, <1>6
  <2> QED  BY <1>1, <1>4, <1>5, <2>1 DEF Sound, Early
<1>8. FilesInv'
  BY <1>1, <1>3, <1>7, OneBatchMoves DEF KeepsFiles, Terminal
<1>9. SlotInv'
  BY <1>1, <1>3, <1>5, SlotIsLeft
<1> QED  BY <1>8, <1>9 DEF KeepsFiles

\* One more place of the batch is dealt with: it has a thumbnail, or nothing.
LEMMA ThumbIsDealtWith ==
    ASSUME NEW b \in Batches, NEW x, KeepsFiles, Memories!Unmade(b), batch' = [batch EXCEPT ![b] = x],
           x.pc = "thumbs", x.at = batch[b].at + 1, x.files = batch[b].files, BatchType(x),
           \/ x.made = batch[b].made \cup {batch[b].at} /\ x.failed = batch[b].failed
           \/ x.failed = batch[b].failed \cup {batch[b].at} /\ x.made = batch[b].made,
           stored' = stored, leaked' = leaked, heic' = heic,
           \A f \in disk' : f \in disk \/ f = <<b, f[2], f[3]>>,
           \A f \in disk : f \in disk' \/ f[1] = b,
           \A i, k : i # batch[b].at => (<<b, i, k>> \in disk' <=> <<b, i, k>> \in disk),
           Just(b, batch[b].at, disk', IF batch[b].at \in x.made THEN {Main(batch[b].files[batch[b].at]), "thumb"} ELSE {})
    PROVE  KeepsFiles'
<1> DEFINE y == batch[b]
<1>1. Sound(b, y, disk, stored) /\ y.pc = "thumbs" /\ y.at <= Len(y.files)
  BY DEF KeepsFiles, FilesInv, Memories!Unmade
<1>2. /\ y.at \in 1 .. Len(y.files) + 1 /\ y.made \cup y.failed = 1 .. y.at - 1 /\ y.made \cap y.failed = {}
      /\ BatchType(y)
      /\ \A i \in 1 .. Len(y.files) :
            Just(b, i, disk, IF i \in y.made THEN {Main(y.files[i]), "thumb"}
                             ELSE IF i \in y.failed THEN {} ELSE {Main(y.files[i])})
  BY <1>1 DEF Sound
<1>3. Len(y.files) \in Nat /\ y.at \in Nat /\ y.at \in 1 .. Len(y.files)
  BY <1>1, <1>2 DEF BatchType
<1>4. x.at \in 1 .. Len(x.files) + 1
  BY <1>3
<1>5. y.at \notin y.made /\ y.at \notin y.failed
  BY <1>2, <1>3
<1>6. x.made \cup x.failed = 1 .. x.at - 1 /\ x.made \cap x.failed = {}
  <2>1. 1 .. x.at - 1 = (1 .. y.at - 1) \cup {y.at}
    BY <1>3
  <2> QED  BY <1>2, <1>5, <2>1
<1>7. ASSUME NEW i \in 1 .. Len(x.files)
      PROVE  Just(b, i, disk', IF i \in x.made THEN {Main(x.files[i]), "thumb"}
                               ELSE IF i \in x.failed THEN {} ELSE {Main(x.files[i])})
  <2>1. CASE i = y.at
    <3>1. i \notin x.made => i \in x.failed
      BY <2>1
    <3> QED  BY <2>1, <3>1
  <2>2. CASE i # y.at
    <3>1. (i \in x.made <=> i \in y.made) /\ (i \in x.failed <=> i \in y.failed)
      BY <2>2
    <3>2. Just(b, i, disk, IF i \in y.made THEN {Main(y.files[i]), "thumb"}
                           ELSE IF i \in y.failed THEN {} ELSE {Main(y.files[i])})
      BY <1>2
    <3> QED  BY <2>2, <3>1, <3>2 DEF Just
  <2> QED  BY <2>1, <2>2
<1>8. \A i, k : <<b, i, k>> \in disk' => i \in 1 .. Len(x.files)
  <2> SUFFICES ASSUME NEW i, NEW k, <<b, i, k>> \in disk' PROVE i \in 1 .. Len(y.files)
    OBVIOUS
  <2>1. CASE i = y.at
    BY <1>3, <2>1
  <2>2. CASE i # y.at
    BY <1>1, <2>2 DEF Sound
  <2> QED  BY <2>1, <2>2
<1>9. \A i : <<b, i>> \notin stored'
  BY <1>1 DEF Sound
<1>10. Sound(b, x, disk', stored')
  <2> HIDE DEF y
  <2> QED  BY <1>4, <1>6, <1>7, <1>8, <1>9 DEF Sound, Early
<1>11. FilesInv'
  BY <1>1, <1>10, OneBatchMoves DEF KeepsFiles, Terminal
<1>12. SlotInv'
  BY <1>1, SlotIsLeft
<1> QED  BY <1>11, <1>12 DEF KeepsFiles

LEMMA MakeThumbKeeps ==
    ASSUME NEW b \in Batches, KeepsFiles, Memories!MakeThumb(b) PROVE KeepsFiles'
<1> DEFINE y == batch[b]
           x == [y EXCEPT !.at = y.at + 1, !.made = y.made \cup {y.at}]
<1>1. /\ Memories!Unmade(b) /\ disk' = disk \cup {<<b, y.at, "thumb">>}
      /\ batch' = [batch EXCEPT ![b].at = batch[b].at + 1, ![b].made = batch[b].made \cup {y.at}]
      /\ stored' = stored /\ leaked' = leaked /\ heic' = heic
  BY DEF Memories!MakeThumb, Memories!Here
<1>2. Sound(b, y, disk, stored) /\ y.pc = "thumbs" /\ batch = [c \in Batches |-> batch[c]] /\ y.at <= Len(y.files)
  BY <1>1 DEF KeepsFiles, FilesInv, Memories!Unmade
<1>3. batch' = [batch EXCEPT ![b] = x]
  BY <1>1, <1>2
<1>4. /\ BatchType(y) /\ y.at \in Nat /\ y.at \in 1 .. Len(y.files) + 1 /\ y.made \cup y.failed = 1 .. y.at - 1
      /\ \A i \in 1 .. Len(y.files) :
            Just(b, i, disk, IF i \in y.made THEN {Main(y.files[i]), "thumb"}
                             ELSE IF i \in y.failed THEN {} ELSE {Main(y.files[i])})
  BY <1>2 DEF Sound, BatchType
<1>5. x.pc = "thumbs" /\ x.at = y.at + 1 /\ x.files = y.files /\ x.made = y.made \cup {y.at} /\ x.failed = y.failed
  BY <1>2, <1>4 DEF BatchType
<1>6. BatchType(x)
  <2>1. y.at + 1 \in Nat \ {0} /\ y.made \cup {y.at} \in SUBSET Nat
    BY <1>4 DEF BatchType
  <2> QED  BY <1>4, <2>1 DEF BatchType
<1>7. y.at \in 1 .. Len(y.files) /\ y.at \notin y.made /\ y.at \notin y.failed
  <2>1. Len(y.files) \in Nat /\ y.at \notin 1 .. y.at - 1
    BY <1>4 DEF BatchType
  <2> QED  BY <1>2, <1>4, <2>1
<1>8. Just(b, y.at, disk, {Main(y.files[y.at])})
  BY <1>4, <1>7
<1>9. Just(b, y.at, disk', {Main(y.files[y.at]), "thumb"})
  BY <1>1, <1>8 DEF Just
<1>10. Just(b, y.at, disk', IF y.at \in x.made THEN {Main(y.files[y.at]), "thumb"} ELSE {})
  BY <1>5, <1>9
<1>11. /\ \A f \in disk' : f \in disk \/ f = <<b, f[2], f[3]>>
       /\ \A f \in disk : f \in disk' \/ f[1] = b
       /\ \A i, k : i # y.at => (<<b, i, k>> \in disk' <=> <<b, i, k>> \in disk)
  BY <1>1
<1> HIDE DEF x
<1> QED  BY <1>1, <1>3, <1>5, <1>6, <1>10, <1>11, ThumbIsDealtWith

LEMMA ThumbFailsKeeps ==
    ASSUME NEW b \in Batches, KeepsFiles, Memories!ThumbFails(b) PROVE KeepsFiles'
<1> DEFINE y == batch[b]
           x == [y EXCEPT !.at = y.at + 1, !.failed = y.failed \cup {y.at}]
<1>1. /\ Memories!Unmade(b) /\ disk' = disk \ {f \in Memories!Originals(b) : f[2] = y.at}
      /\ batch' = [batch EXCEPT ![b].at = batch[b].at + 1, ![b].failed = batch[b].failed \cup {y.at}]
      /\ stored' = stored /\ leaked' = leaked /\ heic' = heic
  BY DEF Memories!ThumbFails, Memories!Here, Memories!Spoiled
<1>2. Sound(b, y, disk, stored) /\ y.pc = "thumbs" /\ batch = [c \in Batches |-> batch[c]] /\ y.at <= Len(y.files)
  BY <1>1 DEF KeepsFiles, FilesInv, Memories!Unmade
<1>3. batch' = [batch EXCEPT ![b] = x]
  BY <1>1, <1>2
<1>4. /\ BatchType(y) /\ y.at \in Nat /\ y.at \in 1 .. Len(y.files) + 1 /\ y.made \cup y.failed = 1 .. y.at - 1
      /\ \A i \in 1 .. Len(y.files) :
            Just(b, i, disk, IF i \in y.made THEN {Main(y.files[i]), "thumb"}
                             ELSE IF i \in y.failed THEN {} ELSE {Main(y.files[i])})
  BY <1>2 DEF Sound, BatchType
<1>5. x.pc = "thumbs" /\ x.at = y.at + 1 /\ x.files = y.files /\ x.failed = y.failed \cup {y.at} /\ x.made = y.made
  BY <1>2, <1>4 DEF BatchType
<1>6. BatchType(x)
  <2>1. y.at + 1 \in Nat \ {0} /\ y.failed \cup {y.at} \in SUBSET Nat
    BY <1>4 DEF BatchType
  <2> QED  BY <1>4, <2>1 DEF BatchType
<1>7. y.at \in 1 .. Len(y.files) /\ y.at \notin y.made /\ y.at \notin y.failed
  <2>1. Len(y.files) \in Nat /\ y.at \notin 1 .. y.at - 1
    BY <1>4 DEF BatchType
  <2> QED  BY <1>2, <1>4, <2>1
<1>8. Just(b, y.at, disk, {Main(y.files[y.at])})
  BY <1>4, <1>7
<1>9. Just(b, y.at, disk', {})
  BY <1>1, <1>8 DEF Just, Main, Memories!Originals
<1>10. Just(b, y.at, disk', IF y.at \in x.made THEN {Main(y.files[y.at]), "thumb"} ELSE {})
  BY <1>5, <1>7, <1>9
<1>11. /\ \A f \in disk' : f \in disk \/ f = <<b, f[2], f[3]>>
       /\ \A f \in disk : f \in disk' \/ f[1] = b
       /\ \A i, k : i # y.at => (<<b, i, k>> \in disk' <=> <<b, i, k>> \in disk)
  BY <1>1 DEF Memories!Originals
<1> HIDE DEF x
<1> QED  BY <1>1, <1>3, <1>5, <1>6, <1>10, <1>11, ThumbIsDealtWith

LEMMA InsertRowsKeeps ==
    ASSUME NEW b \in Batches, KeepsFiles, Memories!InsertRows(b) PROVE KeepsFiles'
<1> DEFINE y == batch[b]
           x == [y EXCEPT !.pc = "done"]
<1>1. /\ y.pc = "thumbs" /\ ~(y.at <= Len(y.files)) /\ stored' = stored \cup {<<b, i>> : i \in y.made}
      /\ batch' = [batch EXCEPT ![b].pc = "done"] /\ disk' = disk
      /\ leaked' = leaked \cup Memories!Left(b, disk, stored') /\ heic' = heic
  BY DEF Memories!InsertRows, Memories!End, Memories!Goto, Memories!Unmade
<1>2. Sound(b, y, disk, stored) /\ batch = [c \in Batches |-> batch[c]]
  BY DEF KeepsFiles, FilesInv
<1>3. batch' = [batch EXCEPT ![b] = x]
  BY <1>1, <1>2
<1>4. /\ BatchType(y) /\ y.at \in 1 .. Len(y.files) + 1 /\ y.made \cup y.failed = 1 .. y.at - 1
      /\ \A i, k : <<b, i, k>> \in disk => i \in 1 .. Len(y.files)
      /\ \A i : <<b, i>> \notin stored
      /\ \A i \in 1 .. Len(y.files) :
            Just(b, i, disk, IF i \in y.made THEN {Main(y.files[i]), "thumb"}
                             ELSE IF i \in y.failed THEN {} ELSE {Main(y.files[i])})
  BY <1>1, <1>2 DEF Sound
<1>5. y.made \cup y.failed = 1 .. Len(y.files)
  <2>1. Len(y.files) \in Nat /\ y.at \in Nat
    BY <1>4 DEF BatchType
  <2>2. y.at - 1 = Len(y.files)
    BY <1>1, <1>4, <2>1
  <2> QED  BY <1>4, <2>2
<1>6. x.pc = "done" /\ x.files = y.files /\ x.made = y.made /\ x.failed = y.failed /\ BatchType(x)
  BY <1>4 DEF BatchType, Terminal
<1> HIDE DEF x
<1>7. \A i : <<b, i>> \in stored' <=> i \in y.made
  BY <1>1, <1>4
<1>8. \A i, k : <<b, i, k>> \in disk => i \in y.made
  <2> SUFFICES ASSUME NEW i, NEW k, <<b, i, k>> \in disk, i \notin y.made PROVE FALSE
    OBVIOUS
  <2>1. i \in 1 .. Len(y.files) /\ i \in y.failed
    BY <1>4, <1>5
  <2> QED  BY <1>4, <2>1 DEF Just
<1>9. ASSUME NEW i \in y.made PROVE i \in 1 .. Len(y.files) /\ Just(b, i, disk, {Main(y.files[i]), "thumb"})
  <2>1. i \in 1 .. Len(y.files)
    BY <1>5
  <2> QED  BY <1>4, <2>1
<1>10. Sound(b, x, disk', stored')
  <2> HIDE DEF y
  <2> QED  BY <1>1, <1>4, <1>5, <1>6, <1>7, <1>8, <1>9 DEF Sound, Early
<1>11. leaked' = leaked
  <2>1. Memories!Left(b, disk, stored') = {}
    <3> SUFFICES ASSUME NEW f \in disk, f[1] = b PROVE <<b, f[2]>> \in stored'
      BY DEF Memories!Left
    <3>1. f = <<b, f[2], f[3]>>
      BY DEF KeepsFiles, FilesInv
    <3> QED  BY <1>7, <1>8, <3>1
  <2> QED  BY <1>1, <2>1
<1>12. FilesInv'
  <2>1. /\ FilesInv /\ batch[b].pc \notin Terminal /\ stored \subseteq stored' /\ disk' = disk
        /\ \A r \in stored' : r \in stored \/ r = <<b, r[2]>>
    BY <1>1 DEF KeepsFiles, Terminal
  <2> QED  BY <1>3, <1>10, <1>11, <2>1, OneBatchMoves
<1>13. SlotInv'
  BY <1>1, <1>3, <1>6, SlotIsLeft
<1> QED  BY <1>12, <1>13 DEF KeepsFiles

LEMMA InsertFailsKeeps ==
    ASSUME NEW b \in Batches, KeepsFiles, Memories!InsertFails(b) PROVE KeepsFiles'
<1> DEFINE y == batch[b]
           x == [y EXCEPT !.pc = "error"]
<1>1. /\ y.pc = "thumbs" /\ batch' = [batch EXCEPT ![b].pc = "error"] /\ disk' = disk /\ stored' = stored
      /\ leaked' = leaked \cup Memories!Left(b, disk, stored) /\ heic' = heic
  BY DEF Memories!InsertFails
<1>2. Sound(b, y, disk, stored) /\ batch = [c \in Batches |-> batch[c]]
  BY DEF KeepsFiles, FilesInv
<1>3. batch' = [batch EXCEPT ![b] = x]
  BY <1>1, <1>2
<1>4. /\ BatchType(y) /\ \A i, k : <<b, i, k>> \in disk => i \in 1 .. Len(y.files)
      /\ \A i : <<b, i>> \notin stored
  BY <1>1, <1>2 DEF Sound
<1>5. x.pc = "error" /\ x.files = y.files /\ BatchType(x)
  BY <1>4 DEF BatchType, Terminal
<1> HIDE DEF x
<1>6. Sound(b, x, disk', stored')
  BY <1>1, <1>4, <1>5 DEF Sound, Early
<1>7. \A f \in leaked' : f \in leaked \/ (f[1] = b /\ x.pc \in {"error", "lost"})
  BY <1>1, <1>5 DEF Memories!Left
<1>8. FilesInv'
  <2>1. FilesInv /\ batch[b].pc \notin Terminal /\ stored' = stored /\ disk' = disk
    BY <1>1 DEF KeepsFiles, Terminal
  <2> QED  BY <1>3, <1>6, <1>7, <2>1, OneBatchMoves
<1>9. SlotInv'
  BY <1>1, <1>3, <1>5, SlotIsLeft
<1> QED  BY <1>8, <1>9 DEF KeepsFiles

\* After a crash no request goes on, and none decodes.
LEMMA CrashKeeps ==
    ASSUME KeepsFiles, Memories!Crash PROVE KeepsFiles'
<1> DEFINE ended == {"away", "done", "error"}
<1>1. /\ batch' = [b \in Batches |-> IF batch[b].pc \in ended THEN batch[b] ELSE [batch[b] EXCEPT !.pc = "lost"]]
      /\ leaked' = leaked \cup UNION {Memories!Left(b, disk, stored) : b \in Batches}
      /\ heic' = [attempts |-> <<>>, slot |-> 0, queue |-> {}] /\ disk' = disk /\ stored' = stored
  BY DEF Memories!Crash, Memories!Nobody
<1>2. /\ batch = [b \in Batches |-> batch[b]]
      /\ \A f \in disk : f = <<f[1], f[2], f[3]>> /\ f[1] \in Batches
      /\ \A r \in stored : r = <<r[1], r[2]>> /\ r[1] \in Batches
      /\ \A b \in Batches : Sound(b, batch[b], disk, stored)
      /\ \A f \in leaked : f[1] \in Batches /\ (batch[f[1]].pc \in {"error", "lost"} \/ f[3] = "partial")
  BY DEF KeepsFiles, FilesInv
<1>3. ASSUME NEW b \in Batches
      PROVE  /\ Sound(b, batch'[b], disk, stored) /\ batch'[b].pc \notin {"queued", "decoding"}
             /\ batch[b].pc \notin ended => batch'[b].pc = "lost"
             /\ batch[b].pc \in ended => batch'[b] = batch[b]
  <2>1. CASE batch[b].pc \in ended
    BY <1>1, <1>2, <2>1
  <2>2. CASE batch[b].pc \notin ended
    <3> DEFINE x == [batch[b] EXCEPT !.pc = "lost"]
    <3>1. Sound(b, batch[b], disk, stored) /\ batch'[b] = x
      BY <1>1, <1>2, <2>2
    <3>2. /\ BatchType(batch[b]) /\ \A i, k : <<b, i, k>> \in disk => i \in 1 .. Len(batch[b].files)
          /\ \A i : <<b, i>> \notin stored
      BY <2>2, <3>1 DEF Sound
    <3>3. x.pc = "lost" /\ x.files = batch[b].files /\ BatchType(x)
      BY <3>2 DEF BatchType, Terminal
    <3> HIDE DEF x
    <3>4. Sound(b, x, disk, stored)
      BY <3>2, <3>3 DEF Sound, Early
    <3> QED  BY <2>2, <3>1, <3>3, <3>4
  <2> QED  BY <2>1, <2>2
<1>4. ASSUME NEW f \in leaked'
      PROVE  f[1] \in Batches /\ (batch'[f[1]].pc \in {"error", "lost"} \/ f[3] = "partial")
  <2>1. CASE f \in leaked
    <3>1. f[1] \in Batches /\ (batch[f[1]].pc \in {"error", "lost"} \/ f[3] = "partial")
      BY <1>2, <2>1
    <3> QED  BY <1>3, <3>1
  <2>2. CASE f \notin leaked
    <3>1. PICK b \in Batches : f \in Memories!Left(b, disk, stored)
      BY <1>1, <2>2
    <3>2. f \in disk /\ f[1] = b /\ <<b, f[2]>> \notin stored /\ f = <<b, f[2], f[3]>>
      BY <1>2, <3>1 DEF Memories!Left
    <3>3. CASE batch[b].pc \notin {"away", "done"}
      BY <1>3, <3>2, <3>3
    <3>4. CASE batch[b].pc = "away"
      <4>1. batch[b].files = << >> /\ f[2] \in 1 .. Len(batch[b].files)
        BY <1>2, <3>2, <3>4 DEF Sound
      <4> QED  BY <4>1
    <3>5. CASE batch[b].pc = "done"
      <4>1. \A i \in batch[b].made : <<b, i>> \in stored
        BY <1>2, <3>5 DEF Sound
      <4>2. \A i, k : <<b, i, k>> \in disk /\ i \notin batch[b].made => k = "partial"
        BY <1>2, <3>5 DEF Sound
      <4> QED  BY <3>2, <4>1, <4>2
    <3> QED  BY <3>3, <3>4, <3>5
  <2> QED  BY <2>1, <2>2
<1>5. batch' = [b \in Batches |-> batch'[b]]
  BY <1>1
<1>6. FilesInv'
  BY <1>1, <1>2, <1>3, <1>4, <1>5 DEF FilesInv
<1>7. SlotInv'
  <2>1. 0 \notin Batches /\ MAX_PENDING_HEIC_DECODES \in Nat
    BY PartsAssumption, MemoriesLimits DEF PartsAssumption
  <2>2. heic'.slot = 0 /\ heic'.queue = {} /\ HeicIs'
    BY <1>1 DEF HeicIs
  <2>3. Memories!Occupancy' = 0
    BY <2>2, MemoriesCardinality, FS_EmptySet DEF Memories!Occupancy, Memories!Nobody
  <2>4. Memories!SlotFollowsDecode'
    BY <1>3, <2>1, <2>2, <2>3 DEF Memories!SlotFollowsDecode
  <2> QED  BY <2>2, <2>4, FS_EmptySet DEF SlotInv
<1> QED  BY <1>6, <1>7 DEF KeepsFiles

-----------------------------------------------------------------------------
(* Memories: every action counts in the windows as it should.              *)

MemoryWindow == /\ Accounted(memory, admitted.memory, MEMORY_RATE_WINDOW_MS, now)
                /\ \A t \in 0 .. now : Memories!Within(admitted.memory, MEMORY_RATE_WINDOW_MS, t) <= MEMORY_RATE_MAX

HeicWindow == /\ Accounted(heic.attempts, admitted.heic, HEIC_DECODE_RATE_WINDOW_MS, now)
              /\ \A t \in 0 .. now : Memories!Within(admitted.heic, HEIC_DECODE_RATE_WINDOW_MS, t) <= HEIC_DECODE_RATE_MAX

AdmittedIs == admitted = [memory |-> admitted.memory, heic |-> admitted.heic, wronged |-> admitted.wronged]

LEMMA WindowsAreTwo ==
    WindowsInv <=> now \in Nat /\ AdmittedIs /\ MemoryWindow /\ HeicWindow /\ ~admitted.wronged
<1> QED  BY DEF WindowsInv, AdmittedIs, MemoryWindow, HeicWindow, Memories!WindowsAreExact

LEMMA WindowsThen ==
    ASSUME (now \in Nat)', AdmittedIs', MemoryWindow', HeicWindow', ~admitted'.wronged
    PROVE  WindowsInv'
<1> QED  BY DEF WindowsInv, AdmittedIs, MemoryWindow, HeicWindow, Memories!WindowsAreExact

LEMMA WindowsStay ==
    ASSUME WindowsInv, now' = now, memory' = memory, admitted' = admitted, heic'.attempts = heic.attempts
    PROVE  WindowsInv'
<1> QED  BY DEF WindowsInv, Accounted, Over, Memories!WindowsAreExact, Memories!Within

LEMMA MemoryWindowStays ==
    ASSUME MemoryWindow, now' = now, memory' = memory, admitted'.memory = admitted.memory
    PROVE  MemoryWindow'
<1> QED  BY DEF MemoryWindow

LEMMA HeicWindowStays ==
    ASSUME HeicWindow, now' = now, heic'.attempts = heic.attempts, admitted'.heic = admitted.heic
    PROVE  HeicWindow'
<1> QED  BY DEF HeicWindow

LEMMA TickCounts ==
    ASSUME WindowsInv, Memories!Tick PROVE WindowsInv'
<1>1. /\ now' = now + 1 /\ memory' = memory /\ admitted' = admitted /\ heic' = heic
  BY DEF Memories!Tick
<1>2. now \in Nat /\ AdmittedIs /\ MemoryWindow /\ HeicWindow /\ ~admitted.wronged
  BY WindowsAreTwo
<1>3. MemoryWindow'
  <2>1. /\ Accounted(memory, admitted.memory, MEMORY_RATE_WINDOW_MS, now + 1)
        /\ \A t \in 0 .. now + 1 : Memories!Within(admitted.memory, MEMORY_RATE_WINDOW_MS, t) <= MEMORY_RATE_MAX
    BY <1>2, TimePasses, MemoriesLimits DEF MemoryWindow
  <2> QED  BY <1>1, <2>1 DEF MemoryWindow
<1>4. HeicWindow'
  <2>1. /\ Accounted(heic.attempts, admitted.heic, HEIC_DECODE_RATE_WINDOW_MS, now + 1)
        /\ \A t \in 0 .. now + 1 : Memories!Within(admitted.heic, HEIC_DECODE_RATE_WINDOW_MS, t) <= HEIC_DECODE_RATE_MAX
    BY <1>2, TimePasses, MemoriesLimits DEF HeicWindow
  <2> QED  BY <1>1, <2>1 DEF HeicWindow
<1>5. AdmittedIs' /\ (now \in Nat)' /\ ~admitted'.wronged
  BY <1>1, <1>2 DEF AdmittedIs
<1> QED  BY <1>3, <1>4, <1>5, WindowsThen

LEMMA CrashCounts ==
    ASSUME WindowsInv, Memories!Crash PROVE WindowsInv'
<1>1. /\ now' = now /\ memory' = << >> /\ heic'.attempts = << >>
      /\ admitted' = [admitted EXCEPT !.memory = << >>, !.heic = << >>]
  BY DEF Memories!Crash
<1>2. now \in Nat /\ AdmittedIs /\ ~admitted.wronged
  BY WindowsAreTwo
<1>3. AdmittedIs' /\ admitted'.memory = << >> /\ admitted'.heic = << >> /\ ~admitted'.wronged
  BY <1>1, <1>2 DEF AdmittedIs
<1>4. MemoryWindow'
  BY <1>1, <1>2, <1>3, NothingYet, MemoriesLimits DEF MemoryWindow
<1>5. HeicWindow'
  BY <1>1, <1>2, <1>3, NothingYet, MemoriesLimits DEF HeicWindow
<1>6. (now \in Nat)'
  BY <1>1, <1>2
<1> QED  BY <1>3, <1>4, <1>5, <1>6, WindowsThen

LEMMA RateLimitedCounts ==
    ASSUME NEW b \in Batches, WindowsInv, Memories!RateLimited(b) PROVE WindowsInv'
<1> DEFINE live == Memories!Live(memory, MEMORY_RATE_WINDOW_MS)
           wrong == Memories!Wronged(admitted.memory, MEMORY_RATE_WINDOW_MS, MEMORY_RATE_MAX)
<1>1. /\ now' = now /\ memory' = live /\ heic' = heic /\ Len(live) >= MEMORY_RATE_MAX
      /\ admitted' = [admitted EXCEPT !.wronged = admitted.wronged \/ wrong]
  BY DEF Memories!RateLimited
<1>2. now \in Nat /\ AdmittedIs /\ MemoryWindow /\ HeicWindow /\ ~admitted.wronged
  BY WindowsAreTwo
<1>3. ~wrong /\ Accounted(live, admitted.memory, MEMORY_RATE_WINDOW_MS, now)
  BY <1>1, <1>2, RefusedRight, MemoriesLimits DEF MemoryWindow
<1> HIDE DEF live, wrong
<1>4. AdmittedIs' /\ admitted'.memory = admitted.memory /\ admitted'.heic = admitted.heic
  BY <1>1, <1>2 DEF AdmittedIs
<1>5. ~admitted'.wronged
  BY <1>1, <1>2, <1>3 DEF AdmittedIs
<1>6. MemoryWindow'
  BY <1>1, <1>2, <1>3, <1>4 DEF MemoryWindow
<1>7. HeicWindow'
  BY <1>1, <1>2, <1>4, HeicWindowStays
<1>8. (now \in Nat)'
  BY <1>1, <1>2
<1> QED  BY <1>4, <1>5, <1>6, <1>7, <1>8, WindowsThen

LEMMA AdmitCounts ==
    ASSUME NEW b \in Batches, WindowsInv, Memories!Admit(b) PROVE WindowsInv'
<1> DEFINE live == Memories!Live(memory, MEMORY_RATE_WINDOW_MS)
<1>1. /\ now' = now /\ memory' = Append(live, now) /\ heic' = heic /\ Len(live) < MEMORY_RATE_MAX
      /\ admitted' = [admitted EXCEPT !.memory = Append(admitted.memory, now)]
  BY DEF Memories!Admit
<1>2. now \in Nat /\ AdmittedIs /\ MemoryWindow /\ HeicWindow /\ ~admitted.wronged
  BY WindowsAreTwo
<1>3. /\ Accounted(Append(live, now), Append(admitted.memory, now), MEMORY_RATE_WINDOW_MS, now)
      /\ \A t \in 0 .. now : Memories!Within(Append(admitted.memory, now), MEMORY_RATE_WINDOW_MS, t) <= MEMORY_RATE_MAX
  BY <1>1, <1>2, LetThrough, MemoriesLimits DEF MemoryWindow
<1> HIDE DEF live
<1>4. AdmittedIs' /\ admitted'.memory = Append(admitted.memory, now) /\ admitted'.heic = admitted.heic
      /\ ~admitted'.wronged
  BY <1>1, <1>2 DEF AdmittedIs
<1>5. MemoryWindow'
  BY <1>1, <1>3, <1>4 DEF MemoryWindow
<1>6. HeicWindow'
  BY <1>1, <1>2, <1>4, HeicWindowStays
<1>7. (now \in Nat)'
  BY <1>1, <1>2
<1> QED  BY <1>4, <1>5, <1>6, <1>7, WindowsThen

LEMMA DecodeRateLimitedCounts ==
    ASSUME NEW b \in Batches, HeicIs, WindowsInv, Memories!DecodeRateLimited(b) PROVE WindowsInv'
<1> DEFINE live == Memories!Live(heic.attempts, HEIC_DECODE_RATE_WINDOW_MS)
           wrong == Memories!Wronged(admitted.heic, HEIC_DECODE_RATE_WINDOW_MS, HEIC_DECODE_RATE_MAX)
<1>1. /\ now' = now /\ memory' = memory /\ heic' = [heic EXCEPT !.attempts = live] /\ Len(live) >= HEIC_DECODE_RATE_MAX
      /\ admitted' = [admitted EXCEPT !.wronged = admitted.wronged \/ wrong]
  BY DEF Memories!DecodeRateLimited
<1>2. now \in Nat /\ AdmittedIs /\ MemoryWindow /\ HeicWindow /\ ~admitted.wronged
  BY WindowsAreTwo
<1>3. ~wrong /\ Accounted(live, admitted.heic, HEIC_DECODE_RATE_WINDOW_MS, now)
  BY <1>1, <1>2, RefusedRight, MemoriesLimits DEF HeicWindow
<1> HIDE DEF live, wrong
<1>4. AdmittedIs' /\ admitted'.memory = admitted.memory /\ admitted'.heic = admitted.heic
  BY <1>1, <1>2 DEF AdmittedIs
<1>5. ~admitted'.wronged /\ heic'.attempts = live
  BY <1>1, <1>2, <1>3 DEF AdmittedIs, HeicIs
<1>6. HeicWindow'
  BY <1>1, <1>2, <1>3, <1>4, <1>5 DEF HeicWindow
<1>7. MemoryWindow'
  BY <1>1, <1>2, <1>4, MemoryWindowStays
<1>8. (now \in Nat)'
  BY <1>1, <1>2
<1> QED  BY <1>4, <1>5, <1>6, <1>7, <1>8, WindowsThen

LEMMA AskForDecodeCounts ==
    ASSUME NEW b \in Batches, HeicIs, WindowsInv, Memories!AskForDecode(b) PROVE WindowsInv'
<1> DEFINE young == Memories!Live(heic.attempts, HEIC_DECODE_RATE_WINDOW_MS)
<1>1. /\ now' = now /\ memory' = memory /\ heic'.attempts = Append(young, now)
      /\ Len(Append(young, now)) <= HEIC_DECODE_RATE_MAX
      /\ admitted' = [admitted EXCEPT !.heic = Append(admitted.heic, now)]
  BY DEF Memories!AskForDecode, HeicIs
<1>2. now \in Nat /\ AdmittedIs /\ MemoryWindow /\ HeicWindow /\ ~admitted.wronged
  BY WindowsAreTwo
<1>3. young \in Seq(0 .. now) /\ Len(young) \in Nat
  <2>1. heic.attempts \in Seq(0 .. now) /\ HEIC_DECODE_RATE_WINDOW_MS \in Nat
    BY <1>2, MemoriesLimits DEF HeicWindow, Accounted
  <2>2. Memories!Live(heic.attempts, HEIC_DECODE_RATE_WINDOW_MS) \in Seq(0 .. now)
    BY <1>2, <2>1, LiveKeeps
  <2>3. young \in Seq(0 .. now)
    BY <2>2
  <2> HIDE DEF young
  <2> QED  BY <2>3
<1> HIDE DEF young
<1>4. Len(young) < HEIC_DECODE_RATE_MAX
  <2>1. Len(Append(young, now)) = Len(young) + 1
    BY <1>2, <1>3
  <2> QED  BY <1>1, <1>3, <2>1, MemoriesLimits
<1>5. /\ Accounted(Append(young, now), Append(admitted.heic, now), HEIC_DECODE_RATE_WINDOW_MS, now)
      /\ \A t \in 0 .. now : Memories!Within(Append(admitted.heic, now), HEIC_DECODE_RATE_WINDOW_MS, t) <= HEIC_DECODE_RATE_MAX
  BY <1>2, <1>4, LetThrough, MemoriesLimits DEF HeicWindow, young
<1>6. AdmittedIs' /\ admitted'.heic = Append(admitted.heic, now) /\ admitted'.memory = admitted.memory
      /\ ~admitted'.wronged
  BY <1>1, <1>2 DEF AdmittedIs
<1>7. HeicWindow'
  BY <1>1, <1>5, <1>6 DEF HeicWindow
<1>8. MemoryWindow'
  BY <1>1, <1>2, <1>6, MemoryWindowStays
<1>9. (now \in Nat)'
  BY <1>1, <1>2
<1> QED  BY <1>6, <1>7, <1>8, <1>9, WindowsThen

-----------------------------------------------------------------------------
(* Memories: the theorem.                                                  *)

LEMMA MemoriesMeans ==
    ASSUME MemoriesInv
    PROVE  /\ Memories!FilesBelongToRows /\ Memories!BatchIsAccounted
           /\ Memories!SlotFollowsDecode /\ Memories!WindowsAreExact
<1>1. /\ \A f \in disk : f = <<f[1], f[2], f[3]>> /\ f[1] \in Batches
      /\ \A r \in stored : r = <<r[1], r[2]>> /\ r[1] \in Batches
      /\ \A b \in Batches : Sound(b, batch[b], disk, stored)
      /\ \A f \in leaked : f[1] \in Batches /\ (batch[f[1]].pc \in {"error", "lost"} \/ f[3] = "partial")
  BY DEF MemoriesInv, FilesInv
<1>2. ASSUME NEW b \in Batches, batch[b].pc = "done"
      PROVE  /\ batch[b].made # {} => batch[b].made \cup batch[b].failed = 1 .. Len(batch[b].files)
             /\ \A i : <<b, i>> \in stored <=> i \in batch[b].made
             /\ \A i \in batch[b].made : /\ i \in 1 .. Len(batch[b].files)
                                         /\ Just(b, i, disk, {Main(batch[b].files[i]), "thumb"})
             /\ DOMAIN batch[b].files = 1 .. Len(batch[b].files)
  <2>1. Sound(b, batch[b], disk, stored)
    BY <1>1
  <2>2. BatchType(batch[b]) /\ \A i : <<b, i>> \in stored => i \in batch[b].made
    BY <2>1 DEF Sound
  <2>3. /\ batch[b].made # {} => batch[b].made \cup batch[b].failed = 1 .. Len(batch[b].files)
        /\ \A i \in batch[b].made : /\ <<b, i>> \in stored /\ i \in 1 .. Len(batch[b].files)
                                    /\ Just(b, i, disk, {Main(batch[b].files[i]), "thumb"})
    BY <1>2, <2>1 DEF Sound
  <2>4. DOMAIN batch[b].files = 1 .. Len(batch[b].files)
    BY <2>2 DEF BatchType
  <2> QED  BY <2>2, <2>3, <2>4
<1>3. Memories!FilesBelongToRows
  <2>1. ASSUME NEW r \in stored
        PROVE  {f[3] : f \in {f \in disk : <<f[1], f[2]>> = r}}
                   = {"thumb", IF Memories!IsHeic(batch[r[1]].files[r[2]]) THEN "converted" ELSE "original"}
    <3> DEFINE kept == {f[3] : f \in {f \in disk : <<f[1], f[2]>> = r}}
               m == Main(batch[r[1]].files[r[2]])
    <3>1. PICK b, i : r = <<b, i>> /\ b \in Batches
      BY <1>1
    <3>2. batch[b].pc = "done" /\ i \in batch[b].made
      <4>1. Sound(b, batch[b], disk, stored) /\ <<b, i>> \in stored
        BY <1>1, <3>1
      <4> QED  BY <4>1 DEF Sound
    <3>3. Just(b, i, disk, {Main(batch[b].files[i]), "thumb"})
      BY <1>2, <3>1, <3>2
    <3>4. \A k : <<b, i, k>> \in disk <=> k = m \/ k = "thumb"
      BY <3>1, <3>3 DEF Just
    <3>5. \A f \in disk : <<f[1], f[2]>> = r <=> f = <<b, i, f[3]>>
      BY <1>1, <3>1
    <3> HIDE DEF m
    <3>6. ASSUME NEW k \in kept PROVE k = m \/ k = "thumb"
      <4>1. PICK f \in disk : f[3] = k /\ <<f[1], f[2]>> = r
        OBVIOUS
      <4> QED  BY <3>4, <3>5, <4>1
    <3>7. ASSUME NEW k, k = m \/ k = "thumb" PROVE k \in kept
      <4>1. <<b, i, k>> \in disk
        BY <3>4, <3>7
      <4>2. <<b, i, k>>[1] = b /\ <<b, i, k>>[2] = i /\ <<b, i, k>>[3] = k
        OBVIOUS
      <4> QED  BY <3>1, <4>1, <4>2
    <3>8. kept = {"thumb", m}
      <4> HIDE DEF kept
      <4> QED  BY <3>6, <3>7
    <3> QED  BY <3>8 DEF m, Main
  <2>2. \A f \in leaked : batch[f[1]].pc \in {"error", "lost"} \/ f[3] = "partial"
    BY <1>1
  <2> QED  BY <2>1, <2>2 DEF Memories!FilesBelongToRows
<1>4. Memories!BatchIsAccounted
  <2>1. ASSUME NEW b \in Batches, batch[b].pc = "done"
        PROVE  /\ {i \in DOMAIN batch[b].files : <<b, i>> \in stored} = batch[b].made
               /\ batch[b].made # {} => batch[b].made \cup batch[b].failed = DOMAIN batch[b].files
    BY <1>2, <2>1
  <2> QED  BY <2>1 DEF Memories!BatchIsAccounted, Memories!Places
<1>5. Memories!SlotFollowsDecode /\ Memories!WindowsAreExact
  BY DEF MemoriesInv, SlotInv, WindowsInv
<1> QED  BY <1>3, <1>4, <1>5

LEMMA MemoriesStart ==
    ASSUME Memories!MemoriesInit PROVE MemoriesInv
<1> DEFINE away == [files |-> << >>, pc |-> "away", at |-> 1, made |-> {}, failed |-> {}]
<1>1. /\ batch = [b \in Batches |-> away] /\ disk = {} /\ stored = {} /\ leaked = {} /\ memory = << >> /\ now = 0
      /\ heic = [attempts |-> << >>, slot |-> 0, queue |-> {}]
      /\ admitted = [memory |-> << >>, heic |-> << >>, wronged |-> FALSE]
  BY DEF Memories!MemoriesInit, Memories!Nobody
<1>2. /\ away.pc = "away" /\ away.files = << >> /\ away.at = 1 /\ away.made = {} /\ away.failed = {}
      /\ BatchType(away)
  BY DEF BatchType, Early, Terminal
<1>3. \A b \in Batches : batch[b] = away
  BY <1>1
<1> HIDE DEF away
<1>4. FilesInv
  <2>1. \A b \in Batches : Sound(b, away, {}, {})
    BY <1>2 DEF Sound, Early
  <2>2. batch = [b \in Batches |-> batch[b]]
    BY <1>1
  <2> QED  BY <1>1, <1>3, <2>1, <2>2 DEF FilesInv
<1>5. SlotInv
  <2>1. 0 \notin Batches /\ MAX_PENDING_HEIC_DECODES \in Nat
    BY PartsAssumption, MemoriesLimits DEF PartsAssumption
  <2>2. heic.slot = 0 /\ heic.queue = {} /\ HeicIs
    BY <1>1 DEF HeicIs
  <2>3. Memories!Occupancy = 0
    BY <2>2, MemoriesCardinality, FS_EmptySet DEF Memories!Occupancy, Memories!Nobody
  <2>4. Memories!SlotFollowsDecode
    BY <1>2, <1>3, <2>1, <2>2, <2>3 DEF Memories!SlotFollowsDecode
  <2> QED  BY <2>2, <2>4, FS_EmptySet DEF SlotInv
<1>6. WindowsInv
  <2>1. now \in Nat /\ AdmittedIs /\ ~admitted.wronged
    BY <1>1 DEF AdmittedIs
  <2>2. MemoryWindow /\ HeicWindow
    BY <1>1, <2>1, NothingYet, MemoriesLimits DEF MemoryWindow, HeicWindow
  <2> QED  BY <2>1, <2>2, WindowsAreTwo
<1> QED  BY <1>4, <1>5, <1>6 DEF MemoriesInv

LEMMA MemoriesStep ==
    ASSUME MemoriesInv, Memories!MemoriesNext PROVE MemoriesInv'
<1> USE DEF MemoriesInv
<1>1. KeepsFiles /\ WindowsInv /\ HeicIs
  BY DEF KeepsFiles, SlotInv
<1>2. ASSUME KeepsFiles', WindowsInv' PROVE MemoriesInv'
  BY <1>2 DEF KeepsFiles
<1>3. CASE Memories!Tick
  <2>1. batch' = batch /\ disk' = disk /\ stored' = stored /\ leaked' = leaked /\ heic' = heic
    BY <1>3 DEF Memories!Tick
  <2>2. FilesInv'
    BY <1>1, <2>1 DEF KeepsFiles, FilesInv
  <2>3. SlotInv'
    BY <1>1, <2>1 DEF KeepsFiles, SlotInv, HeicIs, Memories!SlotFollowsDecode, Memories!Occupancy
  <2> QED  BY <1>1, <1>2, <1>3, <2>2, <2>3, TickCounts DEF KeepsFiles
<1>4. CASE Memories!Crash
  BY <1>1, <1>2, <1>4, CrashKeeps, CrashCounts
<1>5. ASSUME NEW b \in Batches,
             \/ Memories!Upload(b) \/ Memories!ResolveAsIs(b) \/ Memories!ResolveJunk(b)
             \/ Memories!StartDecode(b) \/ Memories!QueueTimeout(b) \/ Memories!Decoded(b)
             \/ Memories!DecodedUnwritable(b) \/ Memories!DecodeFails(b) \/ Memories!CsrfRefused(b)
             \/ Memories!HasSpace(b) \/ Memories!NoSpace(b) \/ Memories!EnterSlot(b) \/ Memories!MakeThumb(b)
             \/ Memories!ThumbFails(b) \/ Memories!InsertRows(b) \/ Memories!InsertFails(b)
      PROVE  MemoriesInv'
  <2>1. KeepsFiles'
    BY <1>1, <1>5, UploadKeeps, ResolveAsIsKeeps, ResolveJunkKeeps, StartDecodeKeeps, QueueTimeoutKeeps,
       DecodedKeeps, DecodedUnwritableKeeps, DecodeFailsKeeps, CsrfRefusedKeeps, HasSpaceKeeps, NoSpaceKeeps,
       EnterSlotKeeps, MakeThumbKeeps, ThumbFailsKeeps, InsertRowsKeeps, InsertFailsKeeps
  <2>2. now' = now /\ memory' = memory /\ admitted' = admitted
    BY <1>5 DEF Memories!Upload, Memories!ResolveAsIs, Memories!ResolveJunk, Memories!StartDecode,
       Memories!QueueTimeout, Memories!Decoded, Memories!DecodedUnwritable, Memories!DecodeFails,
       Memories!CsrfRefused, Memories!HasSpace, Memories!NoSpace, Memories!EnterSlot, Memories!MakeThumb,
       Memories!ThumbFails, Memories!InsertRows, Memories!InsertFails
  <2>3. heic'.attempts = heic.attempts
    <3>1. \/ heic' = heic \/ heic' = [heic EXCEPT !.queue = heic.queue \ {b}]
          \/ heic' = [heic EXCEPT !.queue = heic.queue \ {b}, !.slot = b]
          \/ heic' = [heic EXCEPT !.slot = Memories!Nobody]
      BY <1>5 DEF Memories!Upload, Memories!ResolveAsIs, Memories!ResolveJunk, Memories!StartDecode,
         Memories!QueueTimeout, Memories!Decoded, Memories!DecodedUnwritable, Memories!DecodeFails,
         Memories!CsrfRefused, Memories!HasSpace, Memories!NoSpace, Memories!EnterSlot, Memories!MakeThumb,
         Memories!ThumbFails, Memories!InsertRows, Memories!InsertFails, Memories!Settled
    <3> QED  BY <1>1, <3>1 DEF HeicIs
  <2> QED  BY <1>1, <1>2, <2>1, <2>2, <2>3, WindowsStay
<1>6. ASSUME NEW b \in Batches, Memories!DecodeRateLimited(b) PROVE MemoriesInv'
  BY <1>1, <1>2, <1>6, DecodeRateLimitedKeeps, DecodeRateLimitedCounts
<1>7. ASSUME NEW b \in Batches, Memories!AskForDecode(b) PROVE MemoriesInv'
  BY <1>1, <1>2, <1>7, AskForDecodeKeeps, AskForDecodeCounts
<1>8. ASSUME NEW b \in Batches, Memories!RateLimited(b) PROVE MemoriesInv'
  BY <1>1, <1>2, <1>8, RateLimitedKeeps, RateLimitedCounts
<1>9. ASSUME NEW b \in Batches, Memories!Admit(b) PROVE MemoriesInv'
  BY <1>1, <1>2, <1>9, AdmitKeeps, AdmitCounts
<1> QED  BY <1>3, <1>4, <1>5, <1>6, <1>7, <1>8, <1>9 DEF Memories!MemoriesNext

\* A batch of memories leaves files exactly for its rows, is answered with what
\* became of each of its files, holds the decode slot only while it decodes, and
\* is counted in the rate windows exactly (memories.js, intake.js, heic.js): for
\* any batches, limits and windows, however the batches meet, decodes and
\* thumbnails fail, and the server is killed.
THEOREM BatchesAreAlwaysWhole == PartsSpec => []BatchesAreWhole
<1> DEFINE Inv == part = "memories" => MemoriesInv
<1>1. PartsInit => Inv
  BY MemoriesStart DEF PartsInit
<1>2. Inv /\ [PartsNext]_<<part, vars, feedVars, memoryVars, uploadVars>> => Inv'
  <2> SUFFICES ASSUME Inv, [PartsNext]_<<part, vars, feedVars, memoryVars, uploadVars>>, part' = "memories"
               PROVE  MemoriesInv'
    OBVIOUS
  <2>1. part = "memories"
    BY DEF PartsNext
  <2>2. CASE Memories!MemoriesNext
    BY <2>1, <2>2, MemoriesStep
  <2>3. CASE UNCHANGED memoryVars
    <3>1. /\ batch' = batch /\ disk' = disk /\ stored' = stored /\ leaked' = leaked /\ heic' = heic
          /\ memory' = memory /\ now' = now /\ admitted' = admitted
      BY <2>3 DEF memoryVars
    <3>2. FilesInv /\ SlotInv /\ WindowsInv
      BY <2>1 DEF MemoriesInv
    <3>3. FilesInv'
      BY <3>1, <3>2 DEF FilesInv
    <3>4. SlotInv'
      BY <3>1, <3>2 DEF SlotInv, HeicIs, Memories!SlotFollowsDecode, Memories!Occupancy
    <3>5. WindowsInv'
      BY <3>1, <3>2, WindowsStay
    <3> QED  BY <3>3, <3>4, <3>5 DEF MemoriesInv
  <2> QED  BY <2>1, <2>2, <2>3 DEF PartsNext
<1>3. Inv => BatchesAreWhole
  BY MemoriesMeans DEF BatchesAreWhole
<1> QED  BY <1>1, <1>2, <1>3, PTL DEF PartsSpec
=============================================================================
