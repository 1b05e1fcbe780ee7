---------------------------- MODULE AccessProofs ----------------------------
(***************************************************************************)
(* What Access promises, for every number of guests, addresses, contacts   *)
(* and every limit, and what Csrf does for every width of a token.  Then   *)
(* what the operator's scripts promise, Lifecycle and Backup, for every    *)
(* limit, window and timeout, and any number of photos and connections.    *)
(* What a start leaves of the database it finds (Boot), for every database *)
(* that comes from the app and any number of starts.  Last what the        *)
(* keepsake holds (Export), for any rows and whatever is done meanwhile.   *)
(***************************************************************************)
EXTENDS MCServer, TLAPS, FiniteSetTheorems, SequenceTheorems, WellFoundedInduction

-----------------------------------------------------------------------------
(* The CSRF check.                                                         *)

LEMMA XorTwice ==
    ASSUME NEW mask \in Tokens, NEW token \in Tokens
    PROVE  /\ xor(token, mask) \in Tokens
           /\ xor(mask, xor(token, mask)) = token
           /\ xor(xor(mask, token), mask) = token
<1>1. \A i \in 1 .. Width : mask[i] \in {0, 1} /\ token[i] \in {0, 1}
  BY DEF Tokens, Words
<1>2. \A a, b \in {0, 1} : (a + b) % 2 \in {0, 1} /\ (a + ((b + a) % 2)) % 2 = b
                           /\ (((a + b) % 2) + a) % 2 = b
  OBVIOUS
<1>3. xor(token, mask) \in Tokens /\ xor(mask, token) \in Tokens
  BY <1>1, <1>2 DEF Tokens, Words, xor
<1>4. \A i \in 1 .. Width : /\ xor(mask, xor(token, mask))[i] = token[i]
                           /\ xor(xor(mask, token), mask)[i] = token[i]
  BY <1>1, <1>2 DEF xor
<1>5. /\ DOMAIN xor(mask, xor(token, mask)) = 1 .. Width
      /\ DOMAIN xor(xor(mask, token), mask) = 1 .. Width
  BY DEF xor
<1>6. /\ xor(mask, xor(token, mask)) = [i \in 1 .. Width |-> xor(mask, xor(token, mask))[i]]
      /\ xor(xor(mask, token), mask) = [i \in 1 .. Width |-> xor(xor(mask, token), mask)[i]]
  BY DEF xor
<1>7. token = [i \in 1 .. Width |-> token[i]]
  BY DEF Tokens, Words
<1> QED  BY <1>3, <1>4, <1>6, <1>7

LEMMA XorThrice ==
    ASSUME NEW a \in Tokens, NEW b \in Tokens
    PROVE  xor(xor(a, b), a) = b
BY XorTwice

\* One word after another.
LEMMA TwoWords ==
    ASSUME NEW a \in Tokens, NEW b \in Tokens
    PROVE  /\ a \o b \in Seq({0, 1}) /\ Len(a \o b) = 2 * Width
           /\ \A i \in 1 .. Width : (a \o b)[i] = a[i] /\ (a \o b)[Width + i] = b[i]
<1>0. Width \in Nat \ {0}
  BY CsrfAssumption
<1>1. /\ a \in Seq({0, 1}) /\ Len(a) = Width
      /\ b \in Seq({0, 1}) /\ Len(b) = Width
  BY <1>0 DEF Tokens, Words
<1> DEFINE both == a \o b
<1>2. /\ both \in Seq({0, 1}) /\ Len(both) = Len(a) + Len(b)
      /\ \A i \in 1 .. Len(a) + Len(b) : both[i] = IF i <= Len(a) THEN a[i] ELSE b[i - Len(a)]
  BY <1>1, ConcatProperties
<1> HIDE DEF both
<1>3. ASSUME NEW i \in 1 .. Width
      PROVE  both[i] = a[i] /\ both[Width + i] = b[i]
  <2>1. i \in 1 .. Len(a) + Len(b) /\ i <= Len(a)
    BY <1>0, <1>1
  <2>2. Width + i \in 1 .. Len(a) + Len(b) /\ ~(Width + i <= Len(a)) /\ Width + i - Len(a) = i
    BY <1>0, <1>1
  <2>3. both[i] = a[i]
    BY <1>0, <1>1, <1>2, <2>1
  <2>4. both[Width + i] = b[Width + i - Len(a)]
    BY <1>0, <1>1, <1>2, <2>2
  <2>5. Width + i - Len(a) = i
    BY <2>2
  <2> QED  BY <2>3, <2>4, <2>5
<1>4. Len(both) = 2 * Width
  BY <1>0, <1>1, <1>2
<1> QED  BY <1>2, <1>3, <1>4 DEF both

LEMMA UnmaskTwoWords ==
    ASSUME NEW value, Len(value) = 2 * Width
    PROVE  unmaskToken(value) = xor(SubSeq(value, 1, Width), SubSeq(value, Width + 1, 2 * Width))
BY DEF unmaskToken

\* What a page carries is two words: its mask, and the token under it.
LEMMA MaskThenUnmask ==
    ASSUME NEW token \in Tokens, NEW mask \in Tokens
    PROVE  /\ Len(maskToken(token, mask)) = 2 * Width
           /\ unmaskToken(maskToken(token, mask)) = token
<1> DEFINE value == maskToken(token, mask)
           high == SubSeq(value, 1, Width)
           low == SubSeq(value, Width + 1, 2 * Width)
<1>0. Width \in Nat \ {0}
  BY CsrfAssumption
<1>1. xor(token, mask) \in Tokens /\ xor(mask, xor(token, mask)) = token
  BY XorTwice
<1>3. /\ value \in Seq({0, 1}) /\ Len(value) = 2 * Width
      /\ \A i \in 1 .. Width : value[i] = mask[i] /\ value[Width + i] = xor(token, mask)[i]
  BY <1>1, TwoWords DEF maskToken
<1>4. \A i \in 1 .. 2 * Width : value[i] \in {0, 1}
  <2> HIDE DEF value
  <2> QED  BY <1>0, <1>3, LenProperties
<1>5. /\ high \in Seq({0, 1}) /\ Len(high) = Width
      /\ \A i \in 1 .. Width : high[i] = value[i]
  <2>1. \A i \in 1 .. Width : value[i] \in {0, 1}
    BY <1>0, <1>4
  <2> HIDE DEF value
  <2>2. /\ high \in Seq({0, 1}) /\ Len(high) = IF 1 <= Width THEN Width - 1 + 1 ELSE 0
        /\ \A i \in 1 .. Width - 1 + 1 : high[i] = value[1 + i - 1]
    BY <1>0, <2>1, SubSeqProperties
  <2> HIDE DEF high
  <2> QED  BY <1>0, <2>2
<1>6. /\ low \in Seq({0, 1}) /\ Len(low) = Width
      /\ \A i \in 1 .. Width : low[i] = value[Width + i]
  <2>1. \A i \in Width + 1 .. 2 * Width : value[i] \in {0, 1}
    BY <1>0, <1>4
  <2> HIDE DEF value
  <2>2. /\ low \in Seq({0, 1})
        /\ Len(low) = IF Width + 1 <= 2 * Width THEN 2 * Width - (Width + 1) + 1 ELSE 0
        /\ \A i \in 1 .. 2 * Width - (Width + 1) + 1 : low[i] = value[Width + 1 + i - 1]
    BY <1>0, <2>1, SubSeqProperties
  <2> HIDE DEF low
  <2> QED  BY <1>0, <2>2
<1>7. \A i \in 1 .. Width : high[i] = mask[i] /\ low[i] = xor(token, mask)[i]
  <2> HIDE DEF value, high, low
  <2> QED  BY <1>0, <1>3, <1>5, <1>6
<1>8. xor(high, low) = xor(mask, xor(token, mask))
  <2> HIDE DEF value, high, low
  <2> QED  BY <1>7 DEF xor
<1>9. Len(value) = 2 * Width
  <2> HIDE DEF value
  <2> QED  BY <1>0, <1>3
<1> QED  BY <1>1, <1>8, <1>9, UnmaskTwoWords

\* And two words that unmask to the token are a mask and the token under it.
LEMMA UnmaskThenMask ==
    ASSUME NEW token \in Tokens, NEW value \in Words(2 * Width), unmaskToken(value) = token
    PROVE  \E mask \in Tokens : value = maskToken(token, mask)
<1> DEFINE high == SubSeq(value, 1, Width)
           low == SubSeq(value, Width + 1, 2 * Width)
<1>0. Width \in Nat \ {0}
  BY CsrfAssumption
<1>1. value \in Seq({0, 1}) /\ Len(value) = 2 * Width /\ value \in [1 .. 2 * Width -> {0, 1}]
  BY <1>0 DEF Words
<1>2. \A i \in 1 .. 2 * Width : value[i] \in {0, 1}
  BY <1>1
<1>3. /\ high \in Seq({0, 1}) /\ Len(high) = Width
      /\ \A i \in 1 .. Width : high[i] = value[i]
  <2>1. \A i \in 1 .. Width : value[i] \in {0, 1}
    BY <1>0, <1>2
  <2>2. /\ high \in Seq({0, 1}) /\ Len(high) = IF 1 <= Width THEN Width - 1 + 1 ELSE 0
        /\ \A i \in 1 .. Width - 1 + 1 : high[i] = value[1 + i - 1]
    BY <1>0, <2>1, SubSeqProperties
  <2> HIDE DEF high
  <2> QED  BY <1>0, <2>2
<1>4. /\ low \in Seq({0, 1}) /\ Len(low) = Width
      /\ \A i \in 1 .. Width : low[i] = value[Width + i]
  <2>1. \A i \in Width + 1 .. 2 * Width : value[i] \in {0, 1}
    BY <1>0, <1>2
  <2>2. /\ low \in Seq({0, 1})
        /\ Len(low) = IF Width + 1 <= 2 * Width THEN 2 * Width - (Width + 1) + 1 ELSE 0
        /\ \A i \in 1 .. 2 * Width - (Width + 1) + 1 : low[i] = value[Width + 1 + i - 1]
    BY <1>0, <2>1, SubSeqProperties
  <2> HIDE DEF low
  <2> QED  BY <1>0, <2>2
<1>5. high \in Tokens /\ low \in Tokens
  <2> HIDE DEF high, low
  <2>1. high \in [1 .. Width -> {0, 1}] /\ low \in [1 .. Width -> {0, 1}]
    BY <1>3, <1>4, LenProperties
  <2> QED  BY <2>1 DEF Tokens, Words
<1>6. token = xor(high, low)
  BY <1>1, UnmaskTwoWords
<1> HIDE DEF high, low
<1>7. xor(token, high) = low
  BY <1>5, <1>6, XorThrice
<1>8. /\ high \o low \in Seq({0, 1}) /\ Len(high \o low) = 2 * Width
      /\ \A i \in 1 .. Width : (high \o low)[i] = high[i] /\ (high \o low)[Width + i] = low[i]
  BY <1>5, TwoWords
<1> DEFINE both == high \o low
<1> HIDE DEF both
<1>9. both \in [1 .. 2 * Width -> {0, 1}]
  <2>1. both \in Seq({0, 1}) /\ Len(both) = 2 * Width
    BY <1>8 DEF both
  <2> QED  BY <2>1, LenProperties
<1>10. ASSUME NEW i \in 1 .. 2 * Width PROVE both[i] = value[i]
  <2>1. CASE i \in 1 .. Width
    BY <1>3, <1>8, <2>1 DEF both
  <2>2. CASE i \notin 1 .. Width
    <3>1. i - Width \in 1 .. Width /\ Width + (i - Width) = i
      BY <1>0, <2>2
    <3> QED  BY <1>4, <1>8, <3>1 DEF both
  <2> QED  BY <2>1, <2>2
<1>11. both = value
  BY <1>1, <1>9, <1>10
<1>12. value = maskToken(token, high)
  BY <1>7, <1>11 DEF maskToken, both
<1> QED  BY <1>5, <1>12

\* A submitted value that is taken for the token shows it.
LEMMA MatchShows ==
    ASSUME NEW token \in Tokens, NEW value \in {Nothing} \cup Words(Width) \cup Words(2 * Width),
           submittedMatches(value, token)
    PROVE  Shows(value, token)
<1>1. CASE Equal(value, token)
  BY <1>1 DEF Equal, Shows
<1>2. CASE Equal(unmaskToken(value), token)
  <2>0. Width \in Nat \ {0}
    BY CsrfAssumption
  <2>1. Len(value) = 2 * Width
    BY <1>2 DEF Equal, unmaskToken
  <2>2. value \in Words(2 * Width)
    <3>1. CASE value = Nothing
      BY <2>0, <2>1, <3>1 DEF Nothing
    <3>2. CASE value \in Words(Width)
      <4>1. Len(value) = Width
        BY <2>0, <3>2 DEF Words
      <4> QED  BY <2>0, <2>1, <4>1
    <3> QED  BY <3>1, <3>2
  <2> QED  BY <1>2, <2>2, UnmaskThenMask DEF Equal, Shows
<1> QED  BY <1>1, <1>2 DEF submittedMatches

LEMMA TokenIsSomething == ASSUME NEW token \in Tokens PROVE token # Nothing
<1>1. Width \in Nat \ {0}
  BY CsrfAssumption
<1>2. 1 \in DOMAIN token
  BY <1>1 DEF Tokens, Words
<1> QED  BY <1>2 DEF Nothing

\* Every write of the app's own pages passes, and no other, for every width of
\* the token.
THEOREM OwnPagesPass == OwnPagesActAlone
<1>1. ASSUME NEW cookie \in Tokens, NEW w \in OwnWrites(cookie)
      PROVE  csrfMiddleware(w, cookie)
  <2>1. ASSUME NEW mask \in Tokens
        PROVE  submittedMatches(maskToken(cookie, mask), cookie)
    BY MaskThenUnmask, TokenIsSomething DEF submittedMatches, Equal
  <2>2. ASSUME NEW mask \in Tokens PROVE maskToken(cookie, mask) # Nothing
    <3>1. Len(maskToken(cookie, mask)) = 2 * Width /\ Len(<<>>) = 0 /\ Width \in Nat \ {0}
      BY MaskThenUnmask, CsrfAssumption, EmptySeq
    <3> QED  BY <3>1 DEF Nothing
  <2>3. CASE \E mask \in Tokens : w.header = maskToken(cookie, mask)
    BY <2>1, <2>2, <2>3 DEF csrfMiddleware, assertCsrf, Decodable
  <2>4. CASE /\ \E mask \in Tokens : w.field = maskToken(cookie, mask)
             /\ w.header = Nothing /\ (w.multipart => w.upload)
    <3>1. w.multipart \in BOOLEAN /\ w.upload \in BOOLEAN
      BY DEF OwnWrites, Writes
    <3>2. w.field # Nothing /\ submittedMatches(w.field, cookie)
      BY <2>1, <2>2, <2>4
    <3> QED  BY <2>4, <3>1, <3>2 DEF csrfMiddleware, assertCsrf, Decodable
  <2> QED  BY <2>3, <2>4 DEF OwnWrites
<1>2. ASSUME NEW cookie \in Tokens \cup {Nothing}, NEW w \in Writes, csrfMiddleware(w, cookie)
      PROVE  cookie # Nothing /\ (Shows(w.header, cookie) \/ Shows(w.field, cookie))
  <2>1. /\ w.header \in {Nothing} \cup Words(Width) \cup Words(2 * Width)
        /\ w.field \in {Nothing} \cup Words(Width) \cup Words(2 * Width)
    BY DEF Writes
  <2>2. ASSUME NEW value, submittedMatches(value, cookie) PROVE cookie # Nothing
    BY <2>2 DEF submittedMatches, Equal
  <2>3. ~submittedMatches(Nothing, cookie)
    <3>1. unmaskToken(Nothing) = Nothing
      BY CsrfAssumption, EmptySeq DEF unmaskToken, Nothing
    <3> QED  BY <3>1 DEF submittedMatches, Equal
  <2>4. submittedMatches(w.header, cookie) \/ submittedMatches(w.field, cookie)
    BY <1>2, <2>3 DEF csrfMiddleware, assertCsrf
  <2> QED  BY <2>1, <2>2, <2>4, MatchShows
<1> QED  BY <1>1, <1>2, TokenIsSomething DEF OwnPagesActAlone

THEOREM OnlyOwnPagesAreLetThrough == Spec => []OnlyOwnPagesAct
<1>1. OnlyOwnPagesAct
  BY OwnPagesPass DEF OnlyOwnPagesAct
<1> QED  BY <1>1, PTL
-----------------------------------------------------------------------------
(* The least of a set of numbers, finite or not: the sets of its elements  *)
(* up to each are finite, so one of them has no smaller one within.        *)

LEMMA Least ==
    ASSUME NEW S \in SUBSET Nat, S # {}
    PROVE  Min(S) \in S /\ \A n \in S : Min(S) <= n
<1> DEFINE upTo(k) == {n \in S : n <= k}
           T == {upTo(k) : k \in S}
<1>1. \A k \in S : upTo(k) \in FiniteSubsetsOf(Nat)
  <2>1. ASSUME NEW k \in S PROVE upTo(k) \in SUBSET Nat /\ IsFiniteSet(upTo(k))
    <3>1. k \in Nat /\ upTo(k) \in SUBSET Nat /\ \A n \in upTo(k) : n <= k
      OBVIOUS
    <3> QED  BY <3>1, FS_BoundedSetOfNaturals
  <2> QED  BY <2>1 DEF FiniteSubsetsOf
<1>2. T \subseteq FiniteSubsetsOf(Nat) /\ T # {}
  BY <1>1
<1>3. PICK x \in T : \A y \in T : <<y, x>> \notin StrictSubsetOrdering(Nat)
  <2> HIDE DEF T
  <2> QED  BY <1>2, FS_StrictSubsetOrderingWellFounded, WFMin
<1>4. PICK k \in S : x = upTo(k)
  OBVIOUS
<1>5. ASSUME NEW n \in S PROVE k <= n
  <2>1. SUFFICES ASSUME n < k PROVE FALSE
    OBVIOUS
  <2>2. k \in Nat /\ n \in Nat
    OBVIOUS
  <2>3. upTo(n) \subseteq upTo(k) /\ k \in upTo(k) /\ k \notin upTo(n)
    <3>1. ASSUME NEW m \in upTo(n) PROVE m \in upTo(k)
      <4>1. m \in S /\ m \in Nat /\ m <= n
        OBVIOUS
      <4>2. m <= k
        BY <2>1, <2>2, <4>1
      <4> QED  BY <4>1, <4>2
    <3>2. k <= k /\ ~(k <= n)
      BY <2>1, <2>2
    <3> QED  BY <3>1, <3>2
  <2>4. upTo(n) \in SUBSET Nat /\ upTo(k) \in SUBSET Nat
    OBVIOUS
  <2>5. upTo(n) # upTo(k)
    BY <2>3
  <2>6. <<upTo(n), upTo(k)>> \in StrictSubsetOrdering(Nat)
    <3> HIDE DEF upTo
    <3> QED  BY <2>3, <2>4, <2>5 DEF StrictSubsetOrdering
  <2>7. upTo(n) \in T
    OBVIOUS
  <2> QED  BY <1>3, <1>4, <2>6, <2>7
<1> QED  BY <1>5 DEF Min

-----------------------------------------------------------------------------
(* Histories.                                                              *)

LEMMA CountUpTo ==
    ASSUME NEW n \in Nat
    PROVE  IsFiniteSet(1 .. n) /\ Cardinality(1 .. n) = n
<1>1. IsFiniteSet(1 .. n) /\ Cardinality(1 .. n) = IF 1 > n THEN 0 ELSE n - 1 + 1
  BY FS_Interval
<1> QED  BY <1>1

\* The part of a history that is still in its window is its end.
LEMMA RecentIsTheEnd ==
    ASSUME NEW times \in Seq(Nat), NEW t \in Nat, NEW w \in Nat, NEW t0 \in Nat, t0 <= t,
           History(times, w, t0)
    PROVE  /\ Recent(times, t, w) \in Seq(Nat)
           /\ \E p \in 0 .. Len(times) :
                /\ Len(Recent(times, t, w)) = Len(times) - p
                /\ \A i \in 1 .. Len(times) - p :
                      Recent(times, t, w)[i] = times[p + i] /\ times[p + i] > t - w
<1> DEFINE older == {i \in DOMAIN times : times[i] <= t - w}
           p == Cardinality(older)
           N == Len(times)
           R == SubSeq(times, p + 1, N)
<1>1. N \in Nat /\ DOMAIN times = 1 .. N /\ \A i \in 1 .. N : times[i] \in Nat
  BY LenProperties
<1>2. IsFiniteSet(older) /\ p \in Nat /\ p <= N
  <2>1. IsFiniteSet(1 .. N) /\ Cardinality(1 .. N) = N
    BY <1>1, CountUpTo
  <2>2. older \in SUBSET (1 .. N)
    BY <1>1
  <2> HIDE DEF older
  <2> QED  BY <2>1, <2>2, FS_Subset, FS_CardinalityType
<1>3. ASSUME NEW k \in older PROVE k \in 1 .. p
  <2>1. 1 .. k \in SUBSET older
    <3>1. ASSUME NEW i \in 1 .. k PROVE i \in older
      <4>1. i \in 1 .. N /\ k \in 1 .. N /\ i <= k
        BY <1>1
      <4>2. times[i] <= times[k] /\ times[k] <= t - w /\ times[i] \in Nat /\ times[k] \in Nat
        BY <1>1, <4>1 DEF History
      <4> QED  BY <1>1, <4>1, <4>2
    <3> QED  BY <3>1
  <2>2. k \in Nat \ {0}
    BY <1>1
  <2>3. IsFiniteSet(1 .. k) /\ Cardinality(1 .. k) = k
    BY <2>2, CountUpTo
  <2> HIDE DEF older
  <2>4. Cardinality(1 .. k) <= Cardinality(older)
    BY <1>2, <2>1, FS_Subset
  <2>5. k <= p
    BY <2>3, <2>4
  <2> QED  BY <1>2, <2>2, <2>5
<1>4. older = 1 .. p
  <2> HIDE DEF older
  <2>1. older \in SUBSET (1 .. p)
    BY <1>3
  <2>2. IsFiniteSet(1 .. p) /\ Cardinality(1 .. p) = p
    BY <1>2, CountUpTo
  <2> QED  BY <2>1, <2>2, FS_Subset
<1>5. \A i \in p + 1 .. N : times[i] \in Nat /\ times[i] > t - w
  <2>1. ASSUME NEW i \in p + 1 .. N PROVE times[i] \in Nat /\ times[i] > t - w
    <3>1. i \in 1 .. N /\ i \notin 1 .. p
      <4> HIDE DEF p
      <4> QED  BY <1>1, <1>2
    <3>2. i \notin older
      BY <1>4, <3>1
    <3> QED  BY <1>1, <3>1, <3>2
  <2> QED  BY <2>1
<1> HIDE DEF p, N
<1>6. /\ R \in Seq(Nat) /\ Len(R) = N - p
      /\ \A i \in 1 .. N - p : R[i] = times[p + i]
  <2>1. /\ R \in Seq(Nat) /\ Len(R) = IF p + 1 <= N THEN N - (p + 1) + 1 ELSE 0
        /\ \A i \in 1 .. N - (p + 1) + 1 : R[i] = times[p + 1 + i - 1]
    BY <1>1, <1>2, <1>5, SubSeqProperties
  <2> HIDE DEF R
  <2> QED  BY <1>1, <1>2, <2>1
<1>7. Recent(times, t, w) = R
  BY DEF Recent, p, N
<1>8. \A i \in 1 .. N - p : p + i \in p + 1 .. N
  BY <1>1, <1>2
<1>9. p \in 0 .. Len(times) /\ N = Len(times)
  BY <1>1, <1>2 DEF N
<1> HIDE DEF R
<1> QED  BY <1>5, <1>6, <1>7, <1>8, <1>9

\* So it is a history itself, at the later time.
LEMMA RecentIsAHistory ==
    ASSUME NEW times \in Seq(Nat), NEW t \in Nat, NEW w \in Nat, NEW t0 \in Nat, t0 <= t,
           History(times, w, t0)
    PROVE  /\ Recent(times, t, w) \in Seq(Nat)
           /\ History(Recent(times, t, w), w, t)
           /\ Len(Recent(times, t, w)) <= Len(times)
           /\ \A i \in DOMAIN Recent(times, t, w) :
                \E j \in DOMAIN times : Recent(times, t, w)[i] = times[j]
<1> DEFINE R == Recent(times, t, w)
<1>1. R \in Seq(Nat)
  BY RecentIsTheEnd
<1>2. PICK p \in 0 .. Len(times) :
        /\ Len(R) = Len(times) - p
        /\ \A i \in 1 .. Len(times) - p : R[i] = times[p + i] /\ times[p + i] > t - w
  BY RecentIsTheEnd
<1> HIDE DEF R
<1>3. /\ Len(times) \in Nat /\ DOMAIN times = 1 .. Len(times)
      /\ \A i \in 1 .. Len(times) : times[i] \in Nat
      /\ DOMAIN R = 1 .. Len(times) - p
  BY <1>1, <1>2, LenProperties
<1>4. \A i \in 1 .. Len(times) - p : p + i \in 1 .. Len(times)
  BY <1>3
<1>5. \A i, j \in DOMAIN R : i <= j => R[i] <= R[j]
  <2>1. ASSUME NEW i \in DOMAIN R, NEW j \in DOMAIN R, i <= j PROVE R[i] <= R[j]
    <3>1. p + i \in DOMAIN times /\ p + j \in DOMAIN times /\ p + i <= p + j
      BY <1>3, <1>4, <2>1
    <3>2. times[p + i] <= times[p + j]
      BY <3>1 DEF History
    <3>3. R[i] = times[p + i] /\ R[j] = times[p + j]
      BY <1>2, <1>3
    <3> QED  BY <3>2, <3>3
  <2> QED  BY <2>1
<1>6. ASSUME NEW i \in DOMAIN R
      PROVE  R[i] <= t /\ R[i] > t - w /\ R[i] = times[p + i] /\ p + i \in DOMAIN times
  <2>1. p + i \in DOMAIN times /\ R[i] = times[p + i] /\ times[p + i] > t - w
    BY <1>2, <1>3, <1>4
  <2>2. times[p + i] <= t0 /\ times[p + i] \in Nat
    BY <1>3, <2>1 DEF History, Until
  <2> QED  BY <2>1, <2>2
<1>7. History(R, w, t)
  BY <1>3, <1>5, <1>6 DEF History, Until
<1>8. Len(R) <= Len(times)
  BY <1>2, <1>3
<1> QED  BY <1>1, <1>6, <1>7, <1>8 DEF R

\* And one more, at its time, makes it longer by one.
LEMMA HistoryGrows ==
    ASSUME NEW times \in Seq(Nat), NEW t \in Nat, NEW w \in Nat \ {0}, History(times, w, t)
    PROVE  /\ Append(times, t) \in Seq(Nat)
           /\ History(Append(times, t), w, t)
           /\ Len(Append(times, t)) = Len(times) + 1
           /\ \A i \in 1 .. Len(times) : Append(times, t)[i] = times[i]
<1> DEFINE A == Append(times, t)
           N == Len(times)
<1>1. /\ A \in Seq(Nat) /\ Len(A) = N + 1 /\ A[N + 1] = t
      /\ \A i \in 1 .. N : A[i] = times[i]
  BY AppendProperties
<1> HIDE DEF A
<1>2. /\ N \in Nat /\ DOMAIN times = 1 .. N /\ \A i \in 1 .. N : times[i] \in Nat
      /\ DOMAIN A = 1 .. N + 1
  BY <1>1, LenProperties
<1> HIDE DEF N
<1>3. ASSUME NEW i \in 1 .. N + 1
      PROVE  \/ i \in 1 .. N /\ A[i] = times[i]
             \/ i = N + 1 /\ A[i] = t
  BY <1>1, <1>2
<1>4. \A i \in 1 .. N : times[i] <= t /\ t - w < times[i]
  BY <1>2 DEF History, Until
<1>5. \A i, j \in 1 .. N : i <= j => times[i] <= times[j]
  BY <1>2 DEF History
<1>6. ASSUME NEW i \in DOMAIN A, NEW j \in DOMAIN A, i <= j PROVE A[i] <= A[j]
  <2>1. CASE j \in 1 .. N
    <3>1. i \in 1 .. N
      BY <1>2, <1>6, <2>1
    <3> QED  BY <1>1, <1>5, <1>6, <2>1, <3>1
  <2>2. CASE j = N + 1
    <3>1. A[j] = t
      BY <1>1, <2>2
    <3>2. A[i] <= t
      BY <1>2, <1>3, <1>4
    <3> QED  BY <3>1, <3>2
  <2> QED  BY <1>2, <2>1, <2>2
<1>7. ASSUME NEW i \in DOMAIN A PROVE A[i] <= t /\ t - w < A[i]
  BY <1>2, <1>3, <1>4
<1>8. History(A, w, t)
  BY <1>6, <1>7 DEF History, Until
<1> QED  BY <1>1, <1>8 DEF A, N

LEMMA NoHistory ==
    ASSUME NEW t, NEW w
    PROVE  <<>> \in Seq(Nat) /\ Len(<<>>) = 0 /\ DOMAIN <<>> = {} /\ History(<<>>, w, t)
<1>1. <<>> \in Seq(Nat) /\ Len(<<>>) = 0 /\ DOMAIN <<>> = 1 .. 0
  BY EmptySeq, LenProperties
<1>2. DOMAIN <<>> = {}
  BY <1>1
<1> QED  BY <1>1, <1>2 DEF History, Until

LEMMA Limits ==
    /\ Window \in Nat \ {0} /\ IpMax \in Nat \ {0} /\ BucketsMax \in Nat \ {0}
    /\ Lockout \in Nat \ {0} /\ GuestAttempts \in Nat \ {0} /\ AdminAttempts \in Nat \ {0}
    /\ TrackedMax \in Nat \ {0} /\ Horizon \in Nat /\ MaxRequests \in Nat
BY AccessAssumption

\* Time takes nothing from a lockout's account: when it lifts, all it counted
\* has left the window.
LEMMA AccountedLater ==
    ASSUME NEW times \in Seq(Nat), NEW t0 \in Nat, NEW t \in Nat, t0 <= t,
           NEW fails \in Nat, NEW until \in Nat, NEW limit \in Nat,
           History(times, Lockout, t0), Accounted(times, fails, until, limit, t0)
    PROVE  Accounted(Recent(times, t, Lockout), fails, until, limit, t)
<1> DEFINE R == Recent(times, t, Lockout)
<1>0. Lockout \in Nat \ {0}
  BY Limits
<1>1. /\ R \in Seq(Nat) /\ History(R, Lockout, t) /\ Len(R) <= Len(times)
      /\ \A i \in DOMAIN R : \E j \in DOMAIN times : R[i] = times[j]
  BY <1>0, RecentIsAHistory
<1> HIDE DEF R
<1>2. /\ Len(R) \in Nat /\ DOMAIN R = 1 .. Len(R) /\ \A i \in DOMAIN R : R[i] \in Nat
      /\ Len(times) \in Nat
  BY <1>1, LenProperties
<1>3. fails < limit
  BY DEF Accounted
<1>4. ASSUME t0 < until PROVE Len(R) <= limit /\ Until(R, until - Lockout)
  <2>1. Len(times) <= limit /\ Until(times, until - Lockout)
    BY <1>4 DEF Accounted
  <2>2. Until(R, until - Lockout)
    BY <1>1, <2>1 DEF Until
  <2> QED  BY <1>1, <1>2, <2>1, <2>2
<1>5. CASE t < until
  BY <1>3, <1>4, <1>5 DEF Accounted, R
<1>6. CASE ~(t < until) /\ t0 < until
  <2>1. DOMAIN R = {}
    <3>1. ASSUME NEW i \in DOMAIN R PROVE FALSE
      <4>1. R[i] <= until - Lockout
        BY <1>4, <1>6 DEF Until
      <4>2. t - Lockout < R[i]
        BY <1>1 DEF History
      <4> QED  BY <1>0, <1>2, <1>6, <4>1, <4>2
    <3> QED  BY <3>1
  <2>2. Len(R) = 0
    BY <1>2, <2>1
  <2> QED  BY <1>3, <1>6, <2>2 DEF Accounted, R
<1>7. CASE ~(t < until) /\ ~(t0 < until)
  <2>1. Len(times) <= fails
    BY <1>7 DEF Accounted
  <2>2. Len(R) <= fails
    BY <1>1, <1>2, <2>1
  <2> QED  BY <1>3, <1>7, <2>2 DEF Accounted, R
<1> QED  BY <1>5, <1>6, <1>7

\* A counted failure keeps it, whether it only counts or engages the lockout.
LEMMA AccountedFailure ==
    ASSUME NEW times \in Seq(Nat), NEW t \in Nat,
           NEW fails \in Nat, NEW until \in Nat, NEW limit \in Nat,
           History(times, Lockout, t), Accounted(times, fails, until, limit, t), ~(t < until)
    PROVE  /\ \A f \in Nat : f < limit => Accounted(Append(times, t), f, t + Lockout, limit, t)
           /\ fails + 1 < limit => Accounted(Append(times, t), fails + 1, until, limit, t)
<1> DEFINE A == Append(times, t)
<1>0. Lockout \in Nat \ {0}
  BY Limits
<1>1. /\ A \in Seq(Nat) /\ History(A, Lockout, t) /\ Len(A) = Len(times) + 1
  BY <1>0, HistoryGrows
<1>2. Len(times) \in Nat /\ Len(times) <= fails /\ fails < limit
  BY LenProperties DEF Accounted
<1>3. t < t + Lockout /\ t + Lockout - Lockout = t
  BY <1>0
<1>4. Until(A, t)
  BY <1>1 DEF History
<1>5. Len(A) <= fails + 1 /\ Len(A) <= limit
  BY <1>1, <1>2
<1> HIDE DEF A
<1> DEFINE u == t + Lockout
<1>8. t < u /\ u - Lockout = t
  BY <1>0
<1>9. t < u /\ Until(A, u - Lockout)
  BY <1>4, <1>8, Zenon
<1> HIDE DEF u
<1>6. ASSUME NEW f \in Nat, f < limit PROVE Accounted(A, f, u, limit, t)
  BY <1>5, <1>6, <1>9 DEF Accounted
<1>7. ASSUME fails + 1 < limit PROVE Accounted(A, fails + 1, until, limit, t)
  BY <1>5, <1>7 DEF Accounted
<1> QED  BY <1>6, <1>7 DEF A, u

LEMMA AccountedNothing ==
    ASSUME NEW t \in Nat, NEW fails \in Nat, NEW until \in Nat, NEW limit \in Nat, fails < limit
    PROVE  Accounted(<<>>, fails, until, limit, t)
BY NoHistory DEF Accounted, Until

-----------------------------------------------------------------------------
(* The fixed windows.                                                      *)

LEMMA BucketFields ==
    ASSUME NEW b \in Buckets, b.present
    PROVE  /\ b \in [present : {TRUE}, count : Nat, resetAt : Nat]
           /\ b.count \in Nat /\ b.resetAt \in Nat
<1>1. b # Absent
  BY DEF Absent
<1>2. b \in [present : {TRUE}, count : Nat, resetAt : Nat]
  BY <1>1 DEF Buckets
<1> QED  BY <1>2

LEMMA AdmittedLater ==
    ASSUME NEW times \in Seq(Nat), NEW t0 \in Nat, NEW t \in Nat, t0 <= t,
           NEW b \in Buckets, b.present,
           History(times, Window, t0), Admitted(times, b, t0)
    PROVE  Admitted(Recent(times, t, Window), b, t)
<1> DEFINE R == Recent(times, t, Window)
<1>0. Window \in Nat \ {0} /\ IpMax \in Nat /\ b.count \in Nat /\ b.resetAt \in Nat
  BY Limits, BucketFields
<1>1. /\ R \in Seq(Nat)
      /\ \A i \in DOMAIN R : \E j \in DOMAIN times : R[i] = times[j]
  BY <1>0, RecentIsAHistory
<1>2. PICK p \in 0 .. Len(times) :
        /\ Len(R) = Len(times) - p
        /\ \A i \in 1 .. Len(times) - p : R[i] = times[p + i] /\ times[p + i] > t - Window
  BY <1>0, RecentIsTheEnd
<1>3. PICK m \in 0 .. IpMax :
        /\ m <= Len(times) /\ Len(times) - m <= b.count
        /\ \A i \in 1 .. m : times[i] < b.resetAt - Window
  BY DEF Admitted
<1> HIDE DEF R
<1>4. Len(times) \in Nat /\ Len(R) \in Nat
  BY <1>1, LenProperties
<1>5. Until(R, b.resetAt - 1)
  BY <1>1 DEF Admitted, Until
<1>6. b.count <= IpMax /\ b.resetAt <= t + Window
  BY <1>0 DEF Admitted
<1> DEFINE n == IF m >= p THEN m - p ELSE 0
<1>7. n \in 0 .. IpMax /\ n <= Len(R) /\ Len(R) - n <= b.count
  BY <1>0, <1>2, <1>3, <1>4
<1>8. ASSUME NEW i \in 1 .. n PROVE R[i] < b.resetAt - Window
  <2>1. p + i \in 1 .. m /\ i \in 1 .. Len(times) - p
    BY <1>0, <1>2, <1>3, <1>4
  <2>2. R[i] = times[p + i] /\ times[p + i] < b.resetAt - Window
    BY <1>2, <1>3, <2>1
  <2> QED  BY <2>2
<1> HIDE DEF n
<1> QED  BY <1>5, <1>6, <1>7, <1>8 DEF Admitted, R

LEMMA AdmittedOneMore ==
    ASSUME NEW times \in Seq(Nat), NEW t \in Nat, NEW b \in Buckets, b.present,
           History(times, Window, t), Admitted(times, b, t), t < b.resetAt, b.count < IpMax
    PROVE  Admitted(Append(times, t), [b EXCEPT !.count = @ + 1], t)
<1> DEFINE A == Append(times, t)
           c == [b EXCEPT !.count = @ + 1]
<1>0. /\ Window \in Nat \ {0} /\ IpMax \in Nat /\ b.count \in Nat /\ b.resetAt \in Nat
      /\ c.count = b.count + 1 /\ c.resetAt = b.resetAt
  BY Limits, BucketFields
<1>1. /\ A \in Seq(Nat) /\ History(A, Window, t) /\ Len(A) = Len(times) + 1
      /\ \A i \in 1 .. Len(times) : A[i] = times[i]
  BY <1>0, HistoryGrows
<1>2. PICK m \in 0 .. IpMax :
        /\ m <= Len(times) /\ Len(times) - m <= b.count
        /\ \A i \in 1 .. m : times[i] < b.resetAt - Window
  BY DEF Admitted
<1>3. Len(times) \in Nat
  BY LenProperties
<1> HIDE DEF A, c
<1>4. c.count <= IpMax /\ c.resetAt <= t + Window
  BY <1>0 DEF Admitted
<1>5. Until(A, c.resetAt - 1)
  <2>1. \A i \in DOMAIN A : A[i] \in Nat /\ A[i] <= t
    BY <1>1, LenProperties DEF History, Until
  <2>2. \A i \in DOMAIN A : A[i] <= b.resetAt - 1
    BY <1>0, <2>1
  <2> QED  BY <1>0, <2>2 DEF Until
<1>6. m <= Len(A) /\ Len(A) - m <= c.count
  BY <1>0, <1>1, <1>2, <1>3
<1>7. ASSUME NEW i \in 1 .. m PROVE A[i] < c.resetAt - Window
  <2>1. i \in 1 .. Len(times)
    BY <1>0, <1>2, <1>3
  <2> QED  BY <1>0, <1>1, <1>2, <2>1
<1> QED  BY <1>4, <1>5, <1>6, <1>7 DEF Admitted, A, c

\* A window that starts finds no more than a window's worth before it.
LEMMA AdmittedAnew ==
    ASSUME NEW times \in Seq(Nat), NEW t \in Nat, History(times, Window, t),
           NEW b \in Buckets, b.present, b.count = 1, b.resetAt = t + Window,
           Len(times) <= IpMax, \A i \in DOMAIN times : times[i] < t
    PROVE  Admitted(Append(times, t), b, t)
<1> DEFINE A == Append(times, t)
           m == Len(times)
<1>0. Window \in Nat \ {0} /\ IpMax \in Nat \ {0} /\ b.resetAt - Window = t
  BY Limits
<1>1. /\ A \in Seq(Nat) /\ History(A, Window, t) /\ Len(A) = m + 1
      /\ \A i \in 1 .. m : A[i] = times[i]
  BY <1>0, HistoryGrows
<1>2. m \in Nat /\ DOMAIN times = 1 .. m
  BY LenProperties
<1> HIDE DEF A, m
<1>3. m \in 0 .. IpMax
  BY <1>0, <1>2 DEF m
<1>4. Until(A, b.resetAt - 1)
  <2>1. \A i \in DOMAIN A : A[i] \in Nat /\ A[i] <= t
    BY <1>1, LenProperties DEF History, Until
  <2>2. t <= b.resetAt - 1
    BY <1>0
  <2>3. b.resetAt - 1 \in Int
    BY <1>0
  <2>4. \A i \in DOMAIN A : A[i] <= b.resetAt - 1
    BY <2>1, <2>2, <2>3
  <2> QED  BY <2>4 DEF Until
<1>5. m <= Len(A) /\ Len(A) - m <= b.count
  BY <1>1, <1>2
<1>6. \A i \in 1 .. m : A[i] < b.resetAt - Window
  BY <1>0, <1>1, <1>2
<1>7. b.count <= IpMax /\ b.resetAt <= t + Window
  BY <1>0
<1> QED  BY <1>3, <1>4, <1>5, <1>6, <1>7 DEF Admitted, A

\* At the end of its window a bucket's history is what its count accounts for.
LEMMA AdmittedAtReset ==
    ASSUME NEW times \in Seq(Nat), NEW t \in Nat, NEW b \in Buckets, b.present,
           History(times, Window, t), Admitted(times, b, t), t >= b.resetAt
    PROVE  Len(times) <= IpMax /\ \A i \in DOMAIN times : times[i] < t
<1>0. Window \in Nat \ {0} /\ IpMax \in Nat /\ b.count \in Nat /\ b.resetAt \in Nat
  BY Limits, BucketFields
<1>1. Len(times) \in Nat /\ DOMAIN times = 1 .. Len(times) /\ \A i \in DOMAIN times : times[i] \in Nat
  BY LenProperties
<1>2. PICK m \in 0 .. IpMax :
        /\ m <= Len(times) /\ Len(times) - m <= b.count
        /\ \A i \in 1 .. m : times[i] < b.resetAt - Window
  BY DEF Admitted
<1>3. b.count <= IpMax /\ \A i \in DOMAIN times : times[i] <= b.resetAt - 1
  BY DEF Admitted, Until
<1>4. m = 0
  <2>1. SUFFICES ASSUME m # 0 PROVE FALSE
    OBVIOUS
  <2>2. 1 \in 1 .. m /\ 1 \in DOMAIN times
    BY <1>0, <1>1, <1>2, <2>1
  <2>3. times[1] < b.resetAt - Window /\ t - Window < times[1] /\ times[1] \in Nat
    BY <1>1, <1>2, <2>2 DEF History
  <2> QED  BY <1>0, <2>3
<1> QED  BY <1>0, <1>1, <1>2, <1>3, <1>4

-----------------------------------------------------------------------------
(* The maps under their caps.                                              *)

LEMMA OneMore ==
    ASSUME NEW S, IsFiniteSet(S), NEW n \in Nat, Cardinality(S) < n, NEW x,
           NEW T, T \subseteq S \cup {x}
    PROVE  IsFiniteSet(T) /\ Cardinality(T) <= n
<1>1. /\ IsFiniteSet(S \cup {x}) /\ Cardinality(S) \in Nat
      /\ Cardinality(S \cup {x}) = IF x \in S THEN Cardinality(S) ELSE Cardinality(S) + 1
  BY FS_AddElement, FS_CardinalityType
<1>2. IsFiniteSet(T) /\ Cardinality(T) <= Cardinality(S \cup {x}) /\ Cardinality(T) \in Nat
  BY <1>1, FS_Subset, FS_CardinalityType
<1>3. Cardinality(S \cup {x}) <= n /\ Cardinality(S \cup {x}) \in Nat
  BY <1>1
<1> QED  BY <1>2, <1>3

LEMMA OneLess ==
    ASSUME NEW S, IsFiniteSet(S), NEW n \in Nat, Cardinality(S) <= n, NEW x \in S,
           NEW T, T \subseteq S \ {x}
    PROVE  IsFiniteSet(T) /\ Cardinality(T) < n
<1>1. /\ IsFiniteSet(S \ {x}) /\ Cardinality(S) \in Nat
      /\ Cardinality(S \ {x}) = Cardinality(S) - 1
  BY FS_RemoveElement, FS_CardinalityType
<1>2. IsFiniteSet(T) /\ Cardinality(T) <= Cardinality(S \ {x}) /\ Cardinality(T) \in Nat
  BY <1>1, FS_Subset, FS_CardinalityType
<1> QED  BY <1>1, <1>2

LEMMA Smaller ==
    ASSUME NEW S, IsFiniteSet(S), NEW T, T \subseteq S
    PROVE  /\ IsFiniteSet(T) /\ Cardinality(T) \in Nat /\ Cardinality(S) \in Nat
           /\ Cardinality(T) <= Cardinality(S)
           /\ Cardinality(S) = Cardinality(T) => S = T
BY FS_Subset, FS_CardinalityType

\* Making room in a limiter leaves room, and forgets without changing.
LEMMA SweepMakesRoom ==
    ASSUME TypeOK, MapsFit, NEW l \in Limiters, NEW map \in sweepAndEvictUnderCap(bucket[l])
    PROVE  /\ map \in [Devices -> Buckets]
           /\ IsFiniteSet(Present(map)) /\ Cardinality(Present(map)) < BucketsMax
           /\ \A k \in Devices : map[k].present => map[k] = bucket[l][k]
<1> DEFINE old == bucket[l]
           swept == [k \in DOMAIN old |->
                        IF old[k].present /\ now >= old[k].resetAt THEN Absent ELSE old[k]]
           full(m) == Cardinality(Present(m)) >= BucketsMax
           soonest == {k \in Present(swept) : \A j \in Present(swept) : swept[k].resetAt <= swept[j].resetAt}
<1>1. old \in [Devices -> Buckets]
  BY DEF TypeOK
<1>2. IsFiniteSet(Present(old)) /\ Cardinality(Present(old)) <= BucketsMax
  BY DEF MapsFit, Fits
<1>3. BucketsMax \in Nat
  BY Limits
<1>4. Absent \in Buckets /\ Absent.present = FALSE
  BY DEF Buckets, Absent
<1>5. /\ swept \in [Devices -> Buckets]
      /\ \A k \in Devices : swept[k].present => swept[k] = old[k]
  BY <1>1, <1>4
<1>6. map \in IF ~full(old) THEN {old}
              ELSE IF ~full(swept) THEN {swept}
              ELSE {[swept EXCEPT ![k] = Absent] : k \in soonest}
  BY DEF sweepAndEvictUnderCap
<1> HIDE DEF old, swept
<1>7. Present(swept) \subseteq Present(old)
  BY <1>1, <1>5 DEF Present
<1>8. /\ IsFiniteSet(Present(swept)) /\ Cardinality(Present(swept)) \in Nat
      /\ Cardinality(Present(swept)) <= BucketsMax /\ Cardinality(Present(old)) \in Nat
  BY <1>2, <1>3, <1>7, Smaller
<1>9. CASE map = old /\ ~full(old)
  BY <1>1, <1>2, <1>3, <1>8, <1>9 DEF old
<1>10. CASE map = swept /\ ~full(swept)
  BY <1>3, <1>5, <1>8, <1>10 DEF old
<1>11. ASSUME NEW k \in soonest, map = [swept EXCEPT ![k] = Absent]
       PROVE  /\ map \in [Devices -> Buckets]
              /\ IsFiniteSet(Present(map)) /\ Cardinality(Present(map)) < BucketsMax
              /\ \A j \in Devices : map[j].present => map[j] = old[j]
  <2>1. k \in Present(swept) /\ k \in Devices
    BY <1>5 DEF Present
  <2>2. map \in [Devices -> Buckets] /\ map[k] = Absent /\ \A j \in Devices \ {k} : map[j] = swept[j]
    BY <1>4, <1>5, <1>11, <2>1
  <2>3. Present(map) \subseteq Present(swept) \ {k}
    BY <1>4, <1>5, <2>2 DEF Present
  <2>4. \A j \in Devices : map[j].present => map[j] = old[j]
    BY <1>4, <1>5, <2>2
  <2> QED  BY <1>3, <1>8, <2>1, <2>2, <2>3, <2>4, OneLess
<1> QED  BY <1>6, <1>9, <1>10, <1>11 DEF old

\* Making room for a contact leaves room, and forgets without changing; a
\* lockout that is on only when all are on, and of these the one that ends
\* first.
LEMMA RoomIsMade ==
    ASSUME TypeOK, MapsFit, NEW c \in Contacts, NEW map \in roomFor(c)
    PROVE  /\ map \in [Contacts -> Entries]
           /\ \A T : T \subseteq Present(map) \cup {c} => IsFiniteSet(T) /\ Cardinality(T) <= TrackedMax
           /\ \A k \in Contacts : map[k].present => map[k] = entry[k]
           /\ \A k \in Contacts : Locked(entry[k], now) /\ map[k] # entry[k] =>
                /\ map[k] = Absent
                /\ \A j \in Present(entry) : Locked(entry[j], now) /\ entry[k].until <= entry[j].until
<1> DEFINE swept == sweepExpiredGuestLockouts(entry)
<1>1. entry \in [Contacts -> Entries] /\ now \in Nat
  BY DEF TypeOK
<1>2. IsFiniteSet(Present(entry)) /\ Cardinality(Present(entry)) <= TrackedMax
  BY DEF MapsFit, Fits
<1>3. TrackedMax \in Nat
  BY Limits
<1>4. Absent \in Entries /\ Absent.present = FALSE
  BY DEF Entries, Absent
<1>5. /\ swept \in [Contacts -> Entries]
      /\ \A k \in Contacts : /\ swept[k].present => swept[k] = entry[k]
                             /\ swept[k] # entry[k] => now >= entry[k].until
  BY <1>1, <1>4 DEF sweepExpiredGuestLockouts
<1>6. ASSUME NEW k \in Contacts, Locked(entry[k], now)
      PROVE  swept[k] = entry[k]
  <2>1. entry[k].present /\ now < entry[k].until /\ entry[k] \in Entries
    BY <1>1, <1>6 DEF Locked
  <2>2. entry[k].until \in Nat
    BY <1>4, <2>1 DEF Entries
  <2>3. ~(now >= entry[k].until)
    BY <1>1, <2>1, <2>2
  <2> HIDE DEF swept
  <2> QED  BY <1>5, <2>3
<1>7. map \in IF entry[c].present THEN {entry}
              ELSE IF Cardinality(Present(swept)) < TrackedMax THEN {swept}
              ELSE {[swept EXCEPT ![k] = Absent] : k \in evictOneGuestEntry(swept)}
  BY DEF roomFor
<1> HIDE DEF swept
<1>8. Present(swept) \subseteq Present(entry)
  BY <1>1, <1>5 DEF Present
<1>9. /\ IsFiniteSet(Present(swept)) /\ Cardinality(Present(swept)) \in Nat
      /\ Cardinality(Present(swept)) <= TrackedMax /\ Cardinality(Present(entry)) \in Nat
  BY <1>2, <1>3, <1>8, Smaller
<1>10. CASE map = entry /\ entry[c].present
  <2>1. Present(map) \cup {c} = Present(entry)
    BY <1>1, <1>10 DEF Present
  <2>2. ASSUME NEW T, T \subseteq Present(map) \cup {c}
        PROVE  IsFiniteSet(T) /\ Cardinality(T) <= TrackedMax
    <3>1. IsFiniteSet(T) /\ Cardinality(T) \in Nat /\ Cardinality(T) <= Cardinality(Present(entry))
      BY <1>2, <2>1, <2>2, Smaller
    <3> QED  BY <1>2, <1>3, <1>9, <3>1
  <2> QED  BY <1>1, <1>10, <2>2
<1>11. CASE map = swept /\ Cardinality(Present(swept)) < TrackedMax
  <2>1. ASSUME NEW T, T \subseteq Present(map) \cup {c}
        PROVE  IsFiniteSet(T) /\ Cardinality(T) <= TrackedMax
    BY <1>3, <1>9, <1>11, <2>1, OneMore
  <2> QED  BY <1>5, <1>6, <1>11, <2>1
<1>12. ASSUME NEW e \in evictOneGuestEntry(swept), map = [swept EXCEPT ![e] = Absent],
              ~(Cardinality(Present(swept)) < TrackedMax)
       PROVE  /\ map \in [Contacts -> Entries]
              /\ \A T : T \subseteq Present(map) \cup {c} => IsFiniteSet(T) /\ Cardinality(T) <= TrackedMax
              /\ \A k \in Contacts : map[k].present => map[k] = entry[k]
              /\ \A k \in Contacts : Locked(entry[k], now) /\ map[k] # entry[k] =>
                   /\ map[k] = Absent
                   /\ \A j \in Present(entry) : Locked(entry[j], now) /\ entry[k].until <= entry[j].until
  <2>1. e \in Present(swept) /\ e \in Contacts
    BY <1>5 DEF evictOneGuestEntry, Present
  <2>2. map \in [Contacts -> Entries] /\ map[e] = Absent /\ \A j \in Contacts \ {e} : map[j] = swept[j]
    BY <1>4, <1>5, <1>12, <2>1
  <2>3. Present(map) \subseteq Present(swept) \ {e}
    BY <1>4, <1>5, <2>2 DEF Present
  <2>4. IsFiniteSet(Present(map)) /\ Cardinality(Present(map)) < TrackedMax
    BY <1>3, <1>9, <2>1, <2>3, OneLess
  <2>5. \A T : T \subseteq Present(map) \cup {c} => IsFiniteSet(T) /\ Cardinality(T) <= TrackedMax
    BY <1>3, <2>4, OneMore
  <2>6. \A k \in Contacts : map[k].present => map[k] = entry[k]
    BY <1>4, <1>5, <2>2
  <2>7. Present(swept) = Present(entry)
    <3>1. Cardinality(Present(swept)) <= Cardinality(Present(entry))
      BY <1>2, <1>8, Smaller
    <3>2. Cardinality(Present(swept)) = Cardinality(Present(entry))
      BY <1>2, <1>3, <1>9, <1>12, <3>1
    <3> QED  BY <1>2, <1>8, <3>2, Smaller
  <2>8. ASSUME NEW k \in Contacts, Locked(entry[k], now), map[k] # entry[k]
        PROVE  /\ map[k] = Absent
               /\ \A j \in Present(entry) : Locked(entry[j], now) /\ entry[k].until <= entry[j].until
    <3>1. k = e
      BY <1>6, <2>2, <2>8
    <3>2. \A j \in Present(entry) : j \in Contacts /\ swept[j] = entry[j]
      BY <1>1, <1>5, <2>7 DEF Present
    <3>3. Locked(swept[e], now)
      BY <2>1, <2>7, <2>8, <3>1, <3>2
    <3>4. e \notin {j \in Present(swept) : ~Locked(swept[j], now)}
      BY <3>3
    <3>5. /\ {j \in Present(swept) : ~Locked(swept[j], now)} = {}
          /\ \A j \in Present(swept) : swept[e].until <= swept[j].until
      BY <3>4 DEF evictOneGuestEntry
    <3> QED  BY <2>1, <2>2, <2>7, <3>1, <3>2, <3>5
  <2> QED  BY <2>2, <2>5, <2>6, <2>8
<1> QED
  <2>1. \/ map = entry /\ entry[c].present
        \/ map = swept /\ Cardinality(Present(swept)) < TrackedMax
        \/ /\ ~(Cardinality(Present(swept)) < TrackedMax)
           /\ \E e \in evictOneGuestEntry(swept) : map = [swept EXCEPT ![e] = Absent]
    BY <1>7
  <2> QED  BY <1>10, <1>11, <1>12, <2>1

-----------------------------------------------------------------------------
(* The two helpers that change a map.                                      *)

BucketsType == bucket \in [Limiters -> [Devices -> Buckets]] /\ admitted \in [Limiters -> [Devices -> Seq(Nat)]]
BucketsFit == \A l \in Limiters : Fits(bucket[l], BucketsMax)

\* Whatever a limiter decides, its counts still account for what it let
\* through.
LEMMA LimiterKeeps ==
    ASSUME AccessInv, now' = now,
           NEW l \in Limiters, NEW d \in Devices, NEW ok \in BOOLEAN, rateLimiter(l, d, ok)
    PROVE  BucketsType' /\ AdmittedKept' /\ BucketsFit'
<1> DEFINE old == bucket[l][d]
           fresh == [present |-> TRUE, count |-> 0, resetAt |-> now + Window]
           b == IF ~old.present \/ now >= old.resetAt THEN fresh ELSE old
           new == IF ok THEN [b EXCEPT !.count = @ + 1] ELSE b
           R(k) == Recent(admitted[l][k], now, Window)
<1>0. /\ Window \in Nat \ {0} /\ IpMax \in Nat \ {0} /\ BucketsMax \in Nat /\ now \in Nat
      /\ Absent \in Buckets /\ Absent.present = FALSE
  BY Limits DEF AccessInv, TypeOK, Buckets, Absent
<1>1. /\ bucket \in [Limiters -> [Devices -> Buckets]]
      /\ admitted \in [Limiters -> [Devices -> Seq(Nat)]]
  BY DEF AccessInv, TypeOK
<1>2. PICK map \in IF old.present THEN {bucket[l]} ELSE sweepAndEvictUnderCap(bucket[l]) :
        /\ ok = (b.count < IpMax)
        /\ bucket' = [bucket EXCEPT ![l] = [map EXCEPT ![d] = new]]
        /\ admitted' = [admitted EXCEPT ![l] =
                [k \in Devices |-> IF k # d THEN (IF map[k].present THEN R(k) ELSE <<>>)
                                   ELSE IF ok THEN Append(R(k), now) ELSE R(k)]]
  <2>1. \E map \in IF old.present THEN {bucket[l]} ELSE sweepAndEvictUnderCap(bucket[l]) :
          /\ ok = (b.count < IpMax)
          /\ bucket' = [bucket EXCEPT ![l] = [map EXCEPT ![d] = new]]
          /\ admitted' = [admitted EXCEPT ![l] =
                [k \in Devices |-> IF k # d THEN (IF map[k].present THEN R(k) ELSE <<>>)
                                   ELSE IF ok THEN Append(Recent(@[k], now, Window), now)
                                   ELSE Recent(@[k], now, Window)]]
    BY DEF rateLimiter
  <2> QED  BY <1>1, <2>1
<1>3. \A k \in Devices : /\ History(admitted[l][k], Window, now)
                         /\ bucket[l][k].present => Admitted(admitted[l][k], bucket[l][k], now)
                         /\ ~bucket[l][k].present => admitted[l][k] = <<>>
  BY DEF AccessInv, AdmittedKept
<1>4. ASSUME NEW k \in Devices
      PROVE  /\ admitted[l][k] \in Seq(Nat)
             /\ R(k) \in Seq(Nat) /\ History(R(k), Window, now)
             /\ Len(R(k)) <= Len(admitted[l][k])
             /\ bucket[l][k].present => Admitted(R(k), bucket[l][k], now)
  <2>1. admitted[l][k] \in Seq(Nat) /\ bucket[l][k] \in Buckets
    BY <1>1
  <2>2. /\ R(k) \in Seq(Nat) /\ History(R(k), Window, now)
        /\ Len(R(k)) <= Len(admitted[l][k])
    BY <1>0, <1>3, <2>1, RecentIsAHistory
  <2>3. bucket[l][k].present => Admitted(R(k), bucket[l][k], now)
    BY <1>0, <1>3, <2>1, AdmittedLater
  <2> QED  BY <2>1, <2>2, <2>3
<1>5. /\ map \in [Devices -> Buckets]
      /\ \A k \in Devices : map[k].present => map[k] = bucket[l][k]
      /\ \A T : T \subseteq Present(map) \cup {d} => IsFiniteSet(T) /\ Cardinality(T) <= BucketsMax
  <2>1. CASE old.present
    <3>1. map = bucket[l] /\ Present(map) \cup {d} = Present(bucket[l])
      BY <1>1, <1>2, <2>1 DEF Present
    <3>2. IsFiniteSet(Present(bucket[l])) /\ Cardinality(Present(bucket[l])) <= BucketsMax
      BY DEF AccessInv, MapsFit, Fits
    <3>3. ASSUME NEW T, T \subseteq Present(map) \cup {d}
          PROVE  IsFiniteSet(T) /\ Cardinality(T) <= BucketsMax
      <4>1. /\ IsFiniteSet(T) /\ Cardinality(T) \in Nat /\ Cardinality(Present(bucket[l])) \in Nat
            /\ Cardinality(T) <= Cardinality(Present(bucket[l]))
        BY <3>1, <3>2, <3>3, Smaller
      <4> QED  BY <1>0, <3>2, <4>1
    <3> QED  BY <1>1, <3>1, <3>3
  <2>2. CASE ~old.present
    <3>1. map \in sweepAndEvictUnderCap(bucket[l])
      BY <1>2, <2>2
    <3>2. /\ map \in [Devices -> Buckets]
          /\ IsFiniteSet(Present(map)) /\ Cardinality(Present(map)) < BucketsMax
          /\ \A k \in Devices : map[k].present => map[k] = bucket[l][k]
      BY <3>1, SweepMakesRoom DEF AccessInv
    <3> QED  BY <1>0, <3>2, OneMore
  <2> QED  BY <2>1, <2>2
<1>6. old \in Buckets /\ fresh \in Buckets /\ b \in Buckets /\ b.present
  <2>1. old \in Buckets
    BY <1>1
  <2>2. fresh \in Buckets /\ fresh.present
    <3>1. now + Window \in Nat
      BY <1>0
    <3> QED  BY <3>1 DEF Buckets
  <2> HIDE DEF old, fresh
  <2> QED  BY <2>1, <2>2
<1>7. /\ new \in Buckets /\ new.present /\ new.resetAt = b.resetAt
      /\ new.count = IF ok THEN b.count + 1 ELSE b.count
  <2>1. b \in [present : {TRUE}, count : Nat, resetAt : Nat]
    BY <1>6, BucketFields
  <2> HIDE DEF b
  <2>2. CASE ok
    <3>1. new = [b EXCEPT !.count = @ + 1]
      BY <2>2
    <3>2. b.count + 1 \in Nat
      BY <2>1
    <3> HIDE DEF new
    <3>3. /\ new \in [present : {TRUE}, count : Nat, resetAt : Nat]
          /\ new.count = b.count + 1 /\ new.resetAt = b.resetAt
      BY <2>1, <3>1, <3>2
    <3> QED  BY <2>2, <3>3 DEF Buckets
  <2>3. CASE ~ok
    <3>1. new = b
      BY <2>3
    <3> HIDE DEF new
    <3> QED  BY <2>1, <2>3, <3>1 DEF Buckets
  <2> QED  BY <2>2, <2>3
<1> DEFINE A == IF ok THEN Append(R(d), now) ELSE R(d)
<1>8. A \in Seq(Nat) /\ History(A, Window, now)
  BY <1>0, <1>4, HistoryGrows
<1>9. Admitted(A, new, now)
  <2>1. CASE ~old.present \/ now >= old.resetAt
    <3>1. b = fresh
      BY <2>1
    <3>2. ok /\ A = Append(R(d), now) /\ new.count = 1 /\ new.resetAt = now + Window
      <4>1. b.count = 0 /\ b.resetAt = now + Window
        BY <3>1
      <4> HIDE DEF b, R, new
      <4>2. b.count < IpMax
        BY <1>0, <4>1
      <4>3. ok = (b.count < IpMax)
        BY <1>2
      <4>4. ok
        BY <4>2, <4>3
      <4> QED  BY <1>7, <4>1, <4>4
    <3>3. Len(R(d)) <= IpMax /\ \A i \in DOMAIN R(d) : R(d)[i] < now
      <4>1. CASE ~old.present
        <5>1. admitted[l][d] = <<>>
          BY <1>3, <4>1
        <5>2. Len(R(d)) = 0 /\ DOMAIN R(d) = 1 .. 0
          <6>1. R(d) \in Seq(Nat) /\ Len(R(d)) <= 0
            BY <1>4, <5>1, NoHistory
          <6> HIDE DEF R
          <6> QED  BY <6>1, LenProperties
        <5> QED  BY <1>0, <5>2
      <4>2. CASE old.present /\ now >= old.resetAt
        <5>1. Admitted(R(d), old, now) /\ R(d) \in Seq(Nat) /\ History(R(d), Window, now)
          BY <1>4, <4>2
        <5> HIDE DEF R, old
        <5> QED  BY <1>0, <1>6, <4>2, <5>1, AdmittedAtReset
      <4> QED  BY <2>1, <4>1, <4>2
    <3>4. R(d) \in Seq(Nat) /\ History(R(d), Window, now)
      BY <1>4
    <3> HIDE DEF R, new, A
    <3> QED  BY <1>0, <1>7, <3>2, <3>3, <3>4, AdmittedAnew
  <2>2. CASE old.present /\ ~(now >= old.resetAt)
    <3>1. b = old
      BY <2>2
    <3>2. Admitted(R(d), old, now) /\ R(d) \in Seq(Nat) /\ History(R(d), Window, now)
      BY <1>4, <2>2
    <3>3. old.resetAt \in Nat
      BY <1>6, <2>2, BucketFields
    <3>4. CASE ok
      <4>1. A = Append(R(d), now) /\ new = [old EXCEPT !.count = @ + 1] /\ old.count < IpMax
        BY <1>2, <3>1, <3>4
      <4>2. now < old.resetAt
        BY <1>0, <2>2, <3>3
      <4> HIDE DEF R, new, A, old
      <4> QED  BY <1>0, <1>6, <2>2, <3>2, <4>1, <4>2, AdmittedOneMore
    <3>5. CASE ~ok
      BY <3>1, <3>2, <3>5
    <3> QED  BY <3>4, <3>5
  <2> QED  BY <2>1, <2>2
<1> HIDE DEF A, new, b, old
<1>10. /\ bucket' \in [Limiters -> [Devices -> Buckets]]
       /\ bucket'[l][d] = new
       /\ \A k \in Devices \ {d} : bucket'[l][k] = map[k]
       /\ \A m \in Limiters \ {l} : bucket'[m] = bucket[m]
  BY <1>1, <1>2, <1>5, <1>7
<1>11. /\ admitted'[l][d] = A
       /\ \A k \in Devices \ {d} : admitted'[l][k] = IF map[k].present THEN R(k) ELSE <<>>
       /\ \A m \in Limiters \ {l} : admitted'[m] = admitted[m]
       /\ \A k \in Devices : admitted'[l][k] \in Seq(Nat)
       /\ admitted' = [admitted EXCEPT ![l] = admitted'[l]]
       /\ DOMAIN admitted'[l] = Devices
       /\ admitted'[l] = [k \in Devices |-> admitted'[l][k]]
  <2>1. admitted' = [admitted EXCEPT ![l] =
                [k \in Devices |-> IF k # d THEN (IF map[k].present THEN R(k) ELSE <<>>) ELSE A]]
    BY <1>2 DEF A
  <2>2. \A k \in Devices : R(k) \in Seq(Nat)
    BY <1>4
  <2> HIDE DEF R
  <2> QED  BY <1>1, <1>8, <2>1, <2>2, NoHistory
<1>12. admitted' \in [Limiters -> [Devices -> Seq(Nat)]]
  BY <1>1, <1>11
<1>13. AdmittedKept'
  <2>1. ASSUME NEW m \in Limiters, NEW k \in Devices
        PROVE  /\ History(admitted'[m][k], Window, now)
               /\ IF bucket'[m][k].present THEN Admitted(admitted'[m][k], bucket'[m][k], now)
                  ELSE admitted'[m][k] = <<>>
    <3>1. CASE m # l
      BY <1>10, <1>11, <3>1 DEF AccessInv, AdmittedKept
    <3>2. CASE m = l /\ k = d
      BY <1>7, <1>8, <1>9, <1>10, <1>11, <3>2
    <3>3. CASE m = l /\ k # d /\ map[k].present
      <4>1. bucket'[m][k] = bucket[l][k] /\ bucket[l][k].present /\ admitted'[m][k] = R(k)
        BY <1>5, <1>10, <1>11, <3>3
      <4> HIDE DEF R
      <4> QED  BY <1>4, <4>1
    <3>4. CASE m = l /\ k # d /\ ~map[k].present
      BY <1>10, <1>11, <3>4, NoHistory
    <3> QED  BY <3>1, <3>2, <3>3, <3>4
  <2> QED  BY <2>1 DEF AdmittedKept
<1>14. BucketsFit'
  <2>1. ASSUME NEW m \in Limiters PROVE Fits(bucket'[m], BucketsMax)
    <3>1. CASE m # l
      BY <1>10, <3>1 DEF AccessInv, MapsFit
    <3>2. CASE m = l
      <4>1. Present(bucket'[l]) \subseteq Present(map) \cup {d}
        BY <1>5, <1>10 DEF Present
      <4> QED  BY <1>5, <3>2, <4>1 DEF Fits
    <3> QED  BY <3>1, <3>2
  <2> QED  BY <2>1 DEF BucketsFit
<1> QED  BY <1>10, <1>12, <1>13, <1>14 DEF BucketsType

LEMMA EntryFields ==
    ASSUME NEW e \in Entries, e.present
    PROVE  e.fails \in Nat /\ e.last \in Nat /\ e.until \in Nat
<1>1. e # Absent
  BY DEF Absent
<1> QED  BY <1>1 DEF Entries

\* A wrong PIN of a contact that is not locked.
LEMMA FailureKeeps ==
    ASSUME AccessInv, now' = now,
           NEW c \in Contacts, ~Locked(entry[c], now), recordGuestLoginFailure(c)
    PROVE  /\ entry' \in [Contacts -> Entries] /\ guesses' \in [Contacts -> Seq(Nat)]
           /\ GuessesKept' /\ Fits(entry', TrackedMax)
<1> DEFINE R(k) == Recent(guesses[k], now, Lockout)
           e == entry[c]
           before == IF e.present THEN e.fails ELSE 0
           until == IF e.present THEN e.until ELSE 0
<1>0. Lockout \in Nat \ {0} /\ GuestAttempts \in Nat \ {0} /\ now \in Nat
  BY Limits DEF AccessInv, TypeOK
<1>1. entry \in [Contacts -> Entries] /\ guesses \in [Contacts -> Seq(Nat)]
  BY DEF AccessInv, TypeOK
<1>2. PICK map \in roomFor(c) :
        /\ entry' = [map EXCEPT ![c] = Failed(entry[c])]
        /\ guesses' = [k \in Contacts |->
                IF k = c THEN Append(R(k), now) ELSE IF map[k].present THEN R(k) ELSE <<>>]
  BY DEF recordGuestLoginFailure
<1>3. /\ map \in [Contacts -> Entries]
      /\ \A T : T \subseteq Present(map) \cup {c} => IsFiniteSet(T) /\ Cardinality(T) <= TrackedMax
      /\ \A k \in Contacts : map[k].present => map[k] = entry[k]
  BY RoomIsMade DEF AccessInv
<1>4. ASSUME NEW k \in Contacts
      PROVE  R(k) \in Seq(Nat) /\ History(R(k), Lockout, now)
  <2>1. guesses[k] \in Seq(Nat) /\ History(guesses[k], Lockout, now)
    BY <1>1 DEF AccessInv, GuessesKept
  <2> QED  BY <1>0, <2>1, RecentIsAHistory
<1>5. ASSUME NEW k \in Contacts, entry[k].present
      PROVE  Accounted(R(k), entry[k].fails, entry[k].until, GuestAttempts, now)
  <2>1. /\ guesses[k] \in Seq(Nat) /\ History(guesses[k], Lockout, now)
        /\ Accounted(guesses[k], entry[k].fails, entry[k].until, GuestAttempts, now)
    BY <1>1, <1>5 DEF AccessInv, GuessesKept
  <2>2. entry[k].fails \in Nat /\ entry[k].until \in Nat
    BY <1>1, <1>5, EntryFields
  <2> QED  BY <1>0, <2>1, <2>2, AccountedLater
<1>6. before \in Nat /\ until \in Nat /\ before < GuestAttempts /\ ~(now < until)
  <2>1. CASE e.present
    <3>1. e.fails \in Nat /\ e.until \in Nat
      BY <1>1, <2>1, EntryFields
    <3>2. Accounted(R(c), e.fails, e.until, GuestAttempts, now)
      BY <1>5, <2>1
    <3>3. ~(now < e.until)
      BY <2>1 DEF Locked
    <3> HIDE DEF R
    <3> QED  BY <2>1, <3>1, <3>2, <3>3 DEF Accounted
  <2>2. CASE ~e.present
    BY <1>0, <2>2
  <2> QED  BY <2>1, <2>2
<1>7. Accounted(R(c), before, until, GuestAttempts, now)
  <2>1. CASE e.present
    BY <1>5, <2>1
  <2>2. CASE ~e.present
    <3>1. guesses[c] = <<>>
      BY <2>2 DEF AccessInv, GuessesKept
    <3>2. Accounted(<<>>, before, until, GuestAttempts, now)
      <4> HIDE DEF before, until
      <4> QED  BY <1>0, <1>6, AccountedNothing
    <3>3. /\ guesses[c] \in Seq(Nat) /\ History(guesses[c], Lockout, now)
          /\ Accounted(guesses[c], before, until, GuestAttempts, now)
      BY <1>1, <3>1, <3>2 DEF AccessInv, GuessesKept
    <3> HIDE DEF before, until
    <3> QED  BY <1>0, <1>6, <3>3, AccountedLater
  <2> QED  BY <2>1, <2>2
<1>8. /\ R(c) \in Seq(Nat) /\ History(R(c), Lockout, now)
      /\ Append(R(c), now) \in Seq(Nat) /\ History(Append(R(c), now), Lockout, now)
  BY <1>0, <1>4, HistoryGrows
<1>9. /\ 0 < GuestAttempts
      /\ Accounted(Append(R(c), now), 0, now + Lockout, GuestAttempts, now)
      /\ before + 1 < GuestAttempts =>
            Accounted(Append(R(c), now), before + 1, until, GuestAttempts, now)
  <2>1. 0 < GuestAttempts /\ 0 \in Nat /\ GuestAttempts \in Nat
    BY <1>0
  <2> HIDE DEF R, before, until
  <2> QED  BY <1>0, <1>6, <1>7, <1>8, <2>1, AccountedFailure
<1>10. /\ Failed(e) \in Entries /\ Failed(e).present
       /\ Accounted(Append(R(c), now), Failed(e).fails, Failed(e).until, GuestAttempts, now)
  <2>1. CASE before + 1 >= GuestAttempts
    <3>1. Failed(e) = [present |-> TRUE, fails |-> 0, last |-> now, until |-> now + Lockout]
      BY <2>1 DEF Failed
    <3> HIDE DEF R
    <3> QED  BY <1>0, <1>9, <3>1 DEF Entries
  <2>2. CASE ~(before + 1 >= GuestAttempts)
    <3>1. Failed(e) = [present |-> TRUE, fails |-> before + 1, last |-> now, until |-> until]
      BY <2>2 DEF Failed
    <3>2. before + 1 < GuestAttempts
      <4> HIDE DEF before
      <4> QED  BY <1>0, <1>6, <2>2
    <3> HIDE DEF R, before, until
    <3> QED  BY <1>0, <1>6, <1>9, <3>1, <3>2 DEF Entries
  <2> QED  BY <2>1, <2>2
<1>11. /\ entry' \in [Contacts -> Entries] /\ entry'[c] = Failed(e)
       /\ \A k \in Contacts \ {c} : entry'[k] = map[k]
  <2> HIDE DEF R
  <2> QED  BY <1>2, <1>3, <1>10
<1>12. /\ guesses' \in [Contacts -> Seq(Nat)] /\ guesses'[c] = Append(R(c), now)
       /\ \A k \in Contacts \ {c} : guesses'[k] = IF map[k].present THEN R(k) ELSE <<>>
  <2>1. \A k \in Contacts : R(k) \in Seq(Nat)
    BY <1>4
  <2> HIDE DEF R
  <2> QED  BY <1>2, <1>8, <2>1, NoHistory
<1>13. ASSUME NEW k \in Contacts
       PROVE  /\ History(guesses'[k], Lockout, now)
              /\ IF entry'[k].present
                 THEN Accounted(guesses'[k], entry'[k].fails, entry'[k].until, GuestAttempts, now)
                 ELSE guesses'[k] = <<>>
  <2>1. CASE k = c
    BY <1>8, <1>10, <1>11, <1>12, <2>1
  <2>2. CASE k # c /\ map[k].present
    <3>1. /\ entry'[k] = entry[k] /\ entry[k].present /\ guesses'[k] = R(k)
      BY <1>3, <1>11, <1>12, <2>2
    <3> HIDE DEF R
    <3> QED  BY <1>4, <1>5, <3>1
  <2>3. CASE k # c /\ ~map[k].present
    BY <1>11, <1>12, <2>3, NoHistory
  <2> QED  BY <2>1, <2>2, <2>3
<1>14. GuessesKept'
  BY <1>13 DEF GuessesKept
<1>15. Present(entry') \subseteq Present(map) \cup {c}
  BY <1>3, <1>11 DEF Present
<1> QED  BY <1>3, <1>11, <1>12, <1>14, <1>15 DEF Fits

-----------------------------------------------------------------------------
(* The invariant.                                                          *)

LEMMA InitAccess == Init => AccessInv
<1> SUFFICES ASSUME Init PROVE AccessInv
  OBVIOUS
<1>0. /\ GuestAttempts \in Nat \ {0} /\ AdminAttempts \in Nat \ {0} /\ TrackedMax \in Nat
      /\ BucketsMax \in Nat /\ Founder \in Contacts
      /\ Absent.present = FALSE /\ Absent \in Buckets /\ Absent \in Entries
  BY Limits, AccessAssumption DEF Absent, Buckets, Entries
<1>1. TypeOK
  <2>1. guest \in [Guests -> Rows]
    BY <1>0 DEF Init, Rows, NoGuest
  <2>2. comparing \in [right : Nat, wrong : Nat] /\ admin \in [fails : Nat, until : Nat]
    BY DEF Init
  <2> QED  BY <1>0, <2>1, <2>2, NoHistory DEF Init, TypeOK
<1>2. GuessesKept
  BY <1>0, NoHistory DEF Init, GuessesKept
<1>3. HostKept
  BY <1>0, NoHistory, AccountedNothing DEF Init, HostKept
<1>4. AdmittedKept
  BY <1>0, NoHistory DEF Init, AdmittedKept
<1>5. MapsFit
  <2>1. Present(entry) = {} /\ \A l \in Limiters : Present(bucket[l]) = {}
    BY <1>0 DEF Init, Present
  <2> QED  BY <1>0, <2>1, FS_EmptySet DEF MapsFit, Fits
<1> QED  BY <1>1, <1>2, <1>3, <1>4, <1>5 DEF AccessInv

LEMMA GuessesStand ==
    ASSUME AccessInv, now' = now, entry' = entry, guesses' = guesses
    PROVE  /\ entry' \in [Contacts -> Entries] /\ guesses' \in [Contacts -> Seq(Nat)]
           /\ GuessesKept' /\ Fits(entry', TrackedMax)
BY DEF AccessInv, TypeOK, GuessesKept, MapsFit

LEMMA HostStands ==
    ASSUME AccessInv, now' = now, admin' = admin, counted' = counted
    PROVE  admin' \in [fails : Nat, until : Nat] /\ counted' \in Seq(Nat) /\ HostKept'
BY DEF AccessInv, TypeOK, HostKept

LEMMA BucketsStand ==
    ASSUME AccessInv, now' = now, bucket' = bucket, admitted' = admitted
    PROVE  BucketsType' /\ AdmittedKept' /\ BucketsFit'
BY DEF AccessInv, TypeOK, AdmittedKept, MapsFit, BucketsType, BucketsFit

\* A process that ends forgets what its maps counted.
LEMMA ForgetKeeps ==
    ASSUME AccessInv, now' = now, Forget
    PROVE  /\ entry' \in [Contacts -> Entries] /\ guesses' \in [Contacts -> Seq(Nat)]
           /\ GuessesKept' /\ Fits(entry', TrackedMax)
           /\ BucketsType' /\ AdmittedKept' /\ BucketsFit'
           /\ comparing' \in [right : Nat, wrong : Nat]
<1>0. /\ TrackedMax \in Nat /\ BucketsMax \in Nat
      /\ Absent.present = FALSE /\ Absent \in Buckets /\ Absent \in Entries
  BY Limits DEF Absent, Buckets, Entries
<1>1. /\ entry' \in [Contacts -> Entries] /\ guesses' \in [Contacts -> Seq(Nat)]
      /\ BucketsType' /\ comparing' \in [right : Nat, wrong : Nat]
  BY <1>0, NoHistory DEF Forget, BucketsType
<1>2. GuessesKept'
  BY <1>0, NoHistory DEF Forget, GuessesKept
<1>3. AdmittedKept'
  BY <1>0, NoHistory DEF Forget, AdmittedKept
<1>4. Fits(entry', TrackedMax) /\ BucketsFit'
  <2>1. Present(entry') = {} /\ \A l \in Limiters : Present(bucket'[l]) = {}
    BY <1>0 DEF Forget, Present
  <2> QED  BY <1>0, <2>1, FS_EmptySet DEF BucketsFit, Fits
<1> QED  BY <1>1, <1>2, <1>3, <1>4

\* A failure of the host's password that is counted.
LEMMA HostFailureKeeps ==
    ASSUME AccessInv, now' = now, ~(now < admin.until), recordFailure,
           counted' = Append(Recent(counted, now, Lockout), now)
    PROVE  admin' \in [fails : Nat, until : Nat] /\ counted' \in Seq(Nat) /\ HostKept'
<1> DEFINE R == Recent(counted, now, Lockout)
<1>0. /\ Lockout \in Nat \ {0} /\ AdminAttempts \in Nat \ {0} /\ now \in Nat
      /\ counted \in Seq(Nat) /\ admin \in [fails : Nat, until : Nat]
      /\ admin.fails \in Nat /\ admin.until \in Nat
  BY Limits DEF AccessInv, TypeOK
<1>1. /\ History(counted, Lockout, now)
      /\ Accounted(counted, admin.fails, admin.until, AdminAttempts, now)
  BY DEF AccessInv, HostKept
<1>2. R \in Seq(Nat) /\ History(R, Lockout, now)
  BY <1>0, <1>1, RecentIsAHistory
<1>3. Accounted(R, admin.fails, admin.until, AdminAttempts, now)
  BY <1>0, <1>1, AccountedLater
<1> HIDE DEF R
<1>4. Append(R, now) \in Seq(Nat) /\ History(Append(R, now), Lockout, now)
  BY <1>0, <1>2, HistoryGrows
<1>5. /\ Accounted(Append(R, now), 0, now + Lockout, AdminAttempts, now)
      /\ admin.fails + 1 < AdminAttempts =>
            Accounted(Append(R, now), admin.fails + 1, admin.until, AdminAttempts, now)
  BY <1>0, <1>2, <1>3, AccountedFailure
<1>6. counted' = Append(R, now)
  BY DEF R
<1>7. CASE admin.fails + 1 >= AdminAttempts
  <2>1. admin' = [fails |-> 0, until |-> now + Lockout]
    BY <1>7 DEF recordFailure
  <2>2. now + Lockout \in Nat
    BY <1>0
  <2> QED  BY <1>4, <1>5, <1>6, <2>1, <2>2 DEF HostKept
<1>8. CASE ~(admin.fails + 1 >= AdminAttempts)
  <2>1. admin' = [fails |-> admin.fails + 1, until |-> admin.until]
    BY <1>0, <1>8 DEF recordFailure
  <2>2. admin.fails + 1 \in Nat /\ admin.fails + 1 < AdminAttempts
    BY <1>0, <1>8
  <2> QED  BY <1>0, <1>4, <1>5, <1>6, <2>1, <2>2 DEF HostKept
<1> QED  BY <1>7, <1>8

\* The host's account starts over.
LEMMA HostAnew ==
    ASSUME AccessInv, now' = now, counted' = <<>>, NEW until \in Nat,
           admin' = [fails |-> 0, until |-> until]
    PROVE  admin' \in [fails : Nat, until : Nat] /\ counted' \in Seq(Nat) /\ HostKept'
<1>1. now \in Nat /\ AdminAttempts \in Nat \ {0} /\ 0 < AdminAttempts
  BY Limits DEF AccessInv, TypeOK
<1>2. Accounted(<<>>, 0, until, AdminAttempts, now)
  BY <1>1, AccountedNothing
<1> QED  BY <1>2, NoHistory DEF HostKept

LEMMA SpelledContact ==
    ASSUME NEW typed \in DOMAIN Spelled PROVE normalizeContact(typed) \in Contacts \cup {None}
BY AccessAssumption DEF normalizeContact

\* The right PIN forgets a contact's failures.
LEMMA SuccessKeeps ==
    ASSUME AccessInv, now' = now, NEW c \in Contacts,
           entry' = [entry EXCEPT ![c] = Absent], guesses' = [guesses EXCEPT ![c] = <<>>]
    PROVE  /\ entry' \in [Contacts -> Entries] /\ guesses' \in [Contacts -> Seq(Nat)]
           /\ GuessesKept' /\ Fits(entry', TrackedMax)
<1>0. /\ TrackedMax \in Nat /\ Absent.present = FALSE /\ Absent \in Entries
      /\ entry \in [Contacts -> Entries] /\ guesses \in [Contacts -> Seq(Nat)]
  BY Limits DEF Absent, Entries, AccessInv, TypeOK
<1>1. /\ entry' \in [Contacts -> Entries] /\ guesses' \in [Contacts -> Seq(Nat)]
      /\ entry'[c] = Absent /\ guesses'[c] = <<>>
      /\ \A k \in Contacts \ {c} : entry'[k] = entry[k] /\ guesses'[k] = guesses[k]
  BY <1>0, NoHistory
<1>2. GuessesKept'
  BY <1>0, <1>1, NoHistory DEF AccessInv, GuessesKept
<1>3. Present(entry') \subseteq Present(entry)
  BY <1>0, <1>1 DEF Present
<1>4. IsFiniteSet(Present(entry)) /\ Cardinality(Present(entry)) <= TrackedMax
  BY DEF AccessInv, MapsFit, Fits
<1>5. Fits(entry', TrackedMax)
  <2>1. /\ IsFiniteSet(Present(entry')) /\ Cardinality(Present(entry')) <= Cardinality(Present(entry))
        /\ Cardinality(Present(entry')) \in Nat /\ Cardinality(Present(entry)) \in Nat
    BY <1>3, <1>4, Smaller
  <2>2. Cardinality(Present(entry')) <= TrackedMax
    BY <1>0, <1>4, <2>1
  <2> QED  BY <2>1, <2>2 DEF Fits
<1> QED  BY <1>1, <1>2, <1>5

LEMMA TickInv == AccessInv /\ Tick => AccessInv'
<1> SUFFICES ASSUME AccessInv, Tick PROVE AccessInv'
  OBVIOUS
<1>0. /\ Lockout \in Nat \ {0} /\ Window \in Nat \ {0} /\ now \in Nat /\ AdminAttempts \in Nat
      /\ GuestAttempts \in Nat /\ TypeOK
  BY Limits DEF AccessInv, TypeOK
<1>1. now' = now + 1 /\ now' \in Nat /\ now <= now'
  BY <1>0 DEF Tick
<1>2. ASSUME NEW times \in Seq(Nat), NEW w \in {Lockout, Window}, History(times, w, now)
      PROVE  Recent(times, now', w) \in Seq(Nat) /\ History(Recent(times, now', w), w, now')
  BY <1>0, <1>1, <1>2, RecentIsAHistory
<1>3. /\ guesses' = [c \in Contacts |-> Recent(guesses[c], now', Lockout)]
      /\ admitted' = [l \in Limiters |-> [d \in Devices |-> Recent(admitted[l][d], now', Window)]]
      /\ counted' = Recent(counted, now', Lockout)
      /\ UNCHANGED <<guest, signedIn, bucket, entry, admin, comparing, requests>>
  BY DEF Tick
<1>4. /\ \A c \in Contacts : guesses[c] \in Seq(Nat) /\ History(guesses[c], Lockout, now)
      /\ \A l \in Limiters, d \in Devices :
            admitted[l][d] \in Seq(Nat) /\ History(admitted[l][d], Window, now)
      /\ counted \in Seq(Nat) /\ History(counted, Lockout, now)
  BY DEF AccessInv, TypeOK, GuessesKept, AdmittedKept, HostKept
<1>5. /\ guesses' \in [Contacts -> Seq(Nat)] /\ counted' \in Seq(Nat)
      /\ admitted' \in [Limiters -> [Devices -> Seq(Nat)]]
  BY <1>2, <1>3, <1>4
<1>6. TypeOK'
  BY <1>0, <1>1, <1>3, <1>5 DEF TypeOK
<1>7. ASSUME NEW c \in Contacts
      PROVE  /\ History(guesses'[c], Lockout, now')
             /\ IF entry'[c].present
                THEN Accounted(guesses'[c], entry'[c].fails, entry'[c].until, GuestAttempts, now')
                ELSE guesses'[c] = <<>>
  <2>1. guesses'[c] = Recent(guesses[c], now', Lockout) /\ History(guesses'[c], Lockout, now')
    BY <1>2, <1>3, <1>4
  <2>2. CASE entry[c].present
    <3>1. entry[c].fails \in Nat /\ entry[c].until \in Nat
      BY <1>0, <2>2, EntryFields DEF TypeOK
    <3>2. Accounted(guesses[c], entry[c].fails, entry[c].until, GuestAttempts, now)
      BY <2>2 DEF AccessInv, GuessesKept
    <3>3. Accounted(Recent(guesses[c], now', Lockout), entry[c].fails, entry[c].until, GuestAttempts, now')
      BY <1>0, <1>1, <1>4, <3>1, <3>2, AccountedLater
    <3> QED  BY <1>3, <2>1, <2>2, <3>3
  <2>3. CASE ~entry[c].present
    <3>1. guesses[c] = <<>>
      BY <2>3 DEF AccessInv, GuessesKept
    <3>2. Recent(guesses[c], now', Lockout) \in Seq(Nat) /\ Len(Recent(guesses[c], now', Lockout)) <= 0
      BY <1>0, <1>1, <1>4, <3>1, NoHistory, RecentIsAHistory
    <3>3. Recent(guesses[c], now', Lockout) = <<>>
      BY <3>2, EmptySeq, LenProperties
    <3> QED  BY <1>3, <2>1, <2>3, <3>3
  <2> QED  BY <2>2, <2>3
<1>8. GuessesKept'
  BY <1>7 DEF GuessesKept
<1>9. HostKept'
  <2>1. History(counted', Lockout, now')
    BY <1>2, <1>3, <1>4
  <2>2. admin.fails \in Nat /\ admin.until \in Nat
    BY <1>0 DEF TypeOK
  <2>3. Accounted(counted, admin.fails, admin.until, AdminAttempts, now)
    BY DEF AccessInv, HostKept
  <2>4. Accounted(Recent(counted, now', Lockout), admin.fails, admin.until, AdminAttempts, now')
    BY <1>0, <1>1, <1>4, <2>2, <2>3, AccountedLater
  <2> QED  BY <1>3, <2>1, <2>4 DEF HostKept
<1>10. ASSUME NEW l \in Limiters, NEW d \in Devices
       PROVE  /\ History(admitted'[l][d], Window, now')
              /\ IF bucket'[l][d].present THEN Admitted(admitted'[l][d], bucket'[l][d], now')
                 ELSE admitted'[l][d] = <<>>
  <2>1. /\ admitted'[l][d] = Recent(admitted[l][d], now', Window)
        /\ History(admitted'[l][d], Window, now')
    BY <1>2, <1>3, <1>4
  <2>2. CASE bucket[l][d].present
    <3>1. bucket[l][d] \in Buckets
      BY <1>0 DEF TypeOK
    <3>2. Admitted(admitted[l][d], bucket[l][d], now)
      BY <2>2 DEF AccessInv, AdmittedKept
    <3>3. Admitted(Recent(admitted[l][d], now', Window), bucket[l][d], now')
      BY <1>0, <1>1, <1>4, <2>2, <3>1, <3>2, AdmittedLater
    <3> QED  BY <1>3, <2>1, <2>2, <3>3
  <2>3. CASE ~bucket[l][d].present
    <3>1. admitted[l][d] = <<>>
      BY <2>3 DEF AccessInv, AdmittedKept
    <3>2. /\ Recent(admitted[l][d], now', Window) \in Seq(Nat)
          /\ Len(Recent(admitted[l][d], now', Window)) <= 0
      BY <1>0, <1>1, <1>4, <3>1, NoHistory, RecentIsAHistory
    <3>3. Recent(admitted[l][d], now', Window) = <<>>
      BY <3>2, EmptySeq, LenProperties
    <3> QED  BY <1>3, <2>1, <2>3, <3>3
  <2> QED  BY <2>2, <2>3
<1>11. AdmittedKept'
  BY <1>10 DEF AdmittedKept
<1>12. MapsFit'
  BY <1>3 DEF AccessInv, MapsFit
<1> QED  BY <1>6, <1>8, <1>9, <1>11, <1>12 DEF AccessInv

\* The parts of the invariant, put together after a step that is no tick.
LEMMA Together ==
    ASSUME AccessInv, now' = now, requests' \in Nat,
           guest' \in [Guests -> Rows], signedIn' \in [Devices -> Guests \cup {None}],
           entry' \in [Contacts -> Entries], guesses' \in [Contacts -> Seq(Nat)],
           GuessesKept', Fits(entry', TrackedMax),
           admin' \in [fails : Nat, until : Nat], counted' \in Seq(Nat), HostKept',
           BucketsType', AdmittedKept', BucketsFit',
           comparing' \in [right : Nat, wrong : Nat]
    PROVE  AccessInv'
<1>1. TypeOK'
  BY DEF AccessInv, TypeOK, BucketsType
<1>2. MapsFit'
  BY DEF MapsFit, BucketsFit
<1> QED  BY <1>1, <1>2 DEF AccessInv

LEMMA RequestCounts == AccessInv /\ Request => requests' \in Nat
BY DEF AccessInv, TypeOK, Request

\* What a step leaves alone keeps its type.
LEMMA RowsStand ==
    ASSUME AccessInv
    PROVE  /\ guest \in [Guests -> Rows] /\ signedIn \in [Devices -> Guests \cup {None}]
           /\ comparing \in [right : Nat, wrong : Nat] /\ requests \in Nat
           /\ admin \in [fails : Nat, until : Nat] /\ counted \in Seq(Nat)
BY DEF AccessInv, TypeOK

LEMMA RestartInv == AccessInv /\ Restart => AccessInv'
<1> SUFFICES ASSUME AccessInv, Restart PROVE AccessInv'
  OBVIOUS
<1>1. /\ Request /\ Forget
      /\ now' = now /\ guest' = guest /\ signedIn' = signedIn /\ admin' = admin /\ counted' = counted
  BY DEF Restart
<1> QED  BY <1>1, RequestCounts, ForgetKeeps, HostStands, RowsStand, Together

LEMMA LimitedKeeps ==
    ASSUME AccessInv, now' = now, NEW l \in Limiters, NEW d \in Devices,
           rateLimiter(l, d, TRUE) \/ rateLimiter(l, d, FALSE)
    PROVE  BucketsType' /\ AdmittedKept' /\ BucketsFit'
<1>1. CASE rateLimiter(l, d, TRUE)
  BY <1>1, LimiterKeeps
<1>2. CASE rateLimiter(l, d, FALSE)
  BY <1>2, LimiterKeeps
<1> QED  BY <1>1, <1>2

LEMMA JoinInv ==
    ASSUME AccessInv, NEW d \in Devices, NEW typed \in DOMAIN Spelled, NEW pin \in Pins,
           Join(d, typed, pin)
    PROVE  AccessInv'
<1> DEFINE c == normalizeContact(typed)
           free == {g \in Guests : ~guest[g].there}
<1>1. /\ Request /\ now' = now /\ entry' = entry /\ admin' = admin /\ comparing' = comparing
      /\ guesses' = guesses /\ counted' = counted
      /\ rateLimiter("join", d, TRUE) \/ rateLimiter("join", d, FALSE)
      /\ \/ guest' = guest /\ signedIn' = signedIn
         \/ /\ c # None /\ free # {}
            /\ guest' = [guest EXCEPT ![Min(free)] =
                            [contact |-> c, pin |-> pin, blocked |-> FALSE, there |-> TRUE]]
            /\ signedIn' = [signedIn EXCEPT ![d] = Min(free)]
  BY DEF Join
<1>2. "join" \in Limiters
  BY DEF Limiters
<1>3. BucketsType' /\ AdmittedKept' /\ BucketsFit'
  BY <1>1, <1>2, LimitedKeeps
<1>4. c \in Contacts \cup {None}
  BY SpelledContact
<1>5. free # {} => Min(free) \in free
  <2>1. free \in SUBSET Nat
    BY AccessAssumption
  <2> HIDE DEF free
  <2> QED  BY <2>1, Least
<1>6. free \subseteq Guests
  OBVIOUS
<1> HIDE DEF c, free
<1>7. guest' \in [Guests -> Rows] /\ signedIn' \in [Devices -> Guests \cup {None}]
  <2>1. CASE guest' = guest /\ signedIn' = signedIn
    BY <2>1, RowsStand
  <2>2. CASE /\ c # None /\ free # {}
             /\ guest' = [guest EXCEPT ![Min(free)] =
                            [contact |-> c, pin |-> pin, blocked |-> FALSE, there |-> TRUE]]
             /\ signedIn' = [signedIn EXCEPT ![d] = Min(free)]
    <3>1. Min(free) \in Guests
      BY <1>5, <1>6, <2>2
    <3>2. [contact |-> c, pin |-> pin, blocked |-> FALSE, there |-> TRUE] \in Rows
      BY <1>4 DEF Rows
    <3> QED  BY <2>2, <3>1, <3>2, RowsStand
  <2> QED  BY <1>1, <2>1, <2>2
<1> QED  BY <1>1, <1>3, <1>7, RequestCounts, GuessesStand, HostStands, RowsStand, Together

LEMMA LoginInv ==
    ASSUME AccessInv, NEW d \in Devices, NEW typed \in DOMAIN Spelled, NEW pin \in Pins,
           Login(d, typed, pin)
    PROVE  AccessInv'
<1> DEFINE c == normalizeContact(typed)
           right == {g \in getGuestByContact(c) : guest[g].pin # None /\ guest[g].pin = pin}
           unmoved == signedIn' = signedIn /\ entry' = entry /\ guesses' = guesses
<1>1. /\ Request /\ now' = now /\ guest' = guest /\ admin' = admin /\ comparing' = comparing
      /\ counted' = counted
      /\ rateLimiter("login", d, TRUE) \/ rateLimiter("login", d, FALSE)
      /\ \/ unmoved
         \/ /\ c # None /\ ~Locked(entry[c], now)
            /\ \/ recordGuestLoginFailure(c) /\ signedIn' = signedIn
               \/ \E g \in right : /\ entry' = [entry EXCEPT ![c] = Absent]
                                   /\ guesses' = [guesses EXCEPT ![c] = <<>>]
                                   /\ signedIn' = [signedIn EXCEPT ![d] = g]
  BY DEF Login
<1>2. "login" \in Limiters
  BY DEF Limiters
<1>3. BucketsType' /\ AdmittedKept' /\ BucketsFit'
  BY <1>1, <1>2, LimitedKeeps
<1>4. c \in Contacts \cup {None} /\ right \subseteq Guests
  BY SpelledContact DEF getGuestByContact
<1> HIDE DEF c, right
<1>5. /\ entry' \in [Contacts -> Entries] /\ guesses' \in [Contacts -> Seq(Nat)]
      /\ GuessesKept' /\ Fits(entry', TrackedMax)
      /\ signedIn' \in [Devices -> Guests \cup {None}]
  <2>1. CASE unmoved
    BY <1>1, <2>1, GuessesStand, RowsStand
  <2>2. CASE c # None /\ ~Locked(entry[c], now) /\ recordGuestLoginFailure(c) /\ signedIn' = signedIn
    BY <1>1, <1>4, <2>2, FailureKeeps, RowsStand
  <2>3. CASE c # None /\ \E g \in right : /\ entry' = [entry EXCEPT ![c] = Absent]
                                          /\ guesses' = [guesses EXCEPT ![c] = <<>>]
                                          /\ signedIn' = [signedIn EXCEPT ![d] = g]
    BY <1>1, <1>4, <2>3, SuccessKeeps, RowsStand
  <2> QED  BY <1>1, <2>1, <2>2, <2>3
<1> HIDE DEF unmoved
<1> QED  BY <1>1, <1>3, <1>5, RequestCounts, HostStands, RowsStand, Together

\* Steps of the guests table and the cookies alone.
LEMMA RowsInv ==
    ASSUME AccessInv, requests' \in Nat,
           guest' \in [Guests -> Rows], signedIn' \in [Devices -> Guests \cup {None}],
           UNCHANGED <<now, bucket, entry, admin, comparing, guesses, admitted, counted>>
    PROVE  AccessInv'
BY GuessesStand, HostStands, BucketsStand, RowsStand, Together

LEMMA VisitInv ==
    ASSUME AccessInv, NEW d \in Devices, Visit(d) \/ Logout(d)
    PROVE  AccessInv'
<1>1. /\ signedIn' = [signedIn EXCEPT ![d] = None]
      /\ requests' = requests \/ Request
      /\ UNCHANGED <<now, guest, bucket, entry, admin, comparing, guesses, admitted, counted>>
  BY DEF Visit, Logout
<1>2. signedIn' \in [Devices -> Guests \cup {None}] /\ guest' \in [Guests -> Rows] /\ requests' \in Nat
  BY <1>1, RowsStand, RequestCounts
<1> QED  BY <1>1, <1>2, RowsInv

LEMMA HostEditInv ==
    ASSUME AccessInv, NEW g \in Guests, NEW blocked \in BOOLEAN, NEW pin \in Pins \cup {None},
           HostEdit(g, blocked, pin)
    PROVE  AccessInv'
<1>1. /\ guest' = [guest EXCEPT ![g].blocked = blocked, ![g].pin = pin] /\ Request
      /\ UNCHANGED <<now, signedIn, bucket, entry, admin, comparing, guesses, admitted, counted>>
  BY DEF HostEdit
<1>2. guest' \in [Guests -> Rows]
  <2>1. guest \in [Guests -> Rows]
    BY RowsStand
  <2> QED  BY <1>1, <2>1 DEF Rows
<1> QED  BY <1>1, <1>2, RowsStand, RequestCounts, RowsInv

LEMMA HostContactInv ==
    ASSUME AccessInv, NEW g \in Guests, NEW typed \in DOMAIN Spelled, HostContact(g, typed)
    PROVE  AccessInv'
<1> DEFINE c == normalizeContact(typed)
<1>1. /\ guest' = [guest EXCEPT ![g].contact = c] /\ Request
      /\ UNCHANGED <<now, signedIn, bucket, entry, admin, comparing, guesses, admitted, counted>>
  BY DEF HostContact
<1>2. c \in Contacts \cup {None}
  BY SpelledContact
<1> HIDE DEF c
<1>3. guest' \in [Guests -> Rows]
  <2>1. guest \in [Guests -> Rows]
    BY RowsStand
  <2> QED  BY <1>1, <1>2, <2>1 DEF Rows
<1> QED  BY <1>1, <1>3, RowsStand, RequestCounts, RowsInv

\* Steps of the host's compares that do not touch its account.
LEMMA ComparesInv ==
    ASSUME AccessInv, NEW kind \in {"right", "wrong"}, AdminLogin(kind) \/ AdminGone(kind)
    PROVE  AccessInv'
<1>1. comparing \in [right : Nat, wrong : Nat]
  BY RowsStand
<1>2. comparing' \in [right : Nat, wrong : Nat]
  <2>1. CASE AdminLogin(kind)
    BY <1>1, <2>1 DEF AdminLogin
  <2>2. CASE AdminGone(kind)
    <3>1. comparing[kind] \in Nat /\ comparing[kind] > 0
      BY <1>1, <2>2 DEF AdminGone
    <3>2. comparing[kind] - 1 \in Nat
      BY <3>1
    <3>3. comparing' = [comparing EXCEPT ![kind] = comparing[kind] - 1]
      BY <2>2 DEF AdminGone
    <3> QED  BY <1>1, <3>2, <3>3
  <2> QED  BY <2>1, <2>2
<1>3. /\ UNCHANGED <<now, guest, signedIn, bucket, entry, admin, guesses, admitted, counted>>
      /\ requests' = requests \/ Request
  BY DEF AdminLogin, AdminGone
<1>4. requests' \in Nat
  BY <1>3, RowsStand, RequestCounts
<1> QED  BY <1>2, <1>3, <1>4, GuessesStand, HostStands, BucketsStand, RowsStand, Together

LEMMA OneCompareLess ==
    ASSUME AccessInv, NEW kind \in {"right", "wrong"}, comparing[kind] > 0,
           comparing' = [comparing EXCEPT ![kind] = @ - 1]
    PROVE  /\ comparing' \in [right : Nat, wrong : Nat]
           /\ comparing'[kind] < comparing[kind]
<1>1. comparing \in [right : Nat, wrong : Nat]
  BY RowsStand
<1>2. comparing[kind] \in Nat /\ comparing[kind] - 1 \in Nat
  BY <1>1
<1>3. comparing' = [comparing EXCEPT ![kind] = comparing[kind] - 1]
  OBVIOUS
<1> QED  BY <1>1, <1>2, <1>3

LEMMA AdminRightInv == AccessInv /\ AdminRight => AccessInv'
<1> SUFFICES ASSUME AccessInv, AdminRight PROVE AccessInv'
  OBVIOUS
<1>1. /\ comparing["right"] > 0 /\ comparing' = [comparing EXCEPT !["right"] = @ - 1]
      /\ admin' = [fails |-> 0, until |-> 0] /\ counted' = <<>>
      /\ UNCHANGED <<now, guest, signedIn, bucket, entry, guesses, admitted, requests>>
  BY DEF AdminRight
<1>2. comparing' \in [right : Nat, wrong : Nat]
  BY <1>1, OneCompareLess
<1>3. admin' \in [fails : Nat, until : Nat] /\ counted' \in Seq(Nat) /\ HostKept'
  BY <1>1, HostAnew
<1> QED  BY <1>1, <1>2, <1>3, GuessesStand, BucketsStand, RowsStand, Together

LEMMA AdminWrongInv == AccessInv /\ AdminWrong => AccessInv'
<1> SUFFICES ASSUME AccessInv, AdminWrong PROVE AccessInv'
  OBVIOUS
<1>1. /\ comparing["wrong"] > 0 /\ comparing' = [comparing EXCEPT !["wrong"] = @ - 1]
      /\ UNCHANGED <<now, guest, signedIn, bucket, entry, guesses, admitted, requests>>
      /\ \/ admin' = admin /\ counted' = counted
         \/ /\ ~(now < admin.until) /\ recordFailure
            /\ counted' = Append(Recent(counted, now, Lockout), now)
  BY DEF AdminWrong
<1>2. comparing' \in [right : Nat, wrong : Nat]
  BY <1>1, OneCompareLess
<1>3. admin' \in [fails : Nat, until : Nat] /\ counted' \in Seq(Nat) /\ HostKept'
  BY <1>1, HostStands, HostFailureKeeps
<1> QED  BY <1>1, <1>2, <1>3, GuessesStand, BucketsStand, RowsStand, Together

LEMMA DieWritingInv == AccessInv /\ DieWriting => AccessInv'
<1> SUFFICES ASSUME AccessInv, DieWriting PROVE AccessInv'
  OBVIOUS
<1>1. /\ Request /\ Forget /\ now' = now /\ guest' = guest /\ signedIn' = signedIn
      /\ \/ /\ ~(now < admin.until)
            /\ admin' = [admin EXCEPT !.until = now + Lockout] /\ counted' = Append(counted, now)
         \/ admin' = [admin EXCEPT !.fails = 0] /\ counted' = <<>>
  <2>1. now \in Nat /\ admin.until \in Nat
    BY DEF AccessInv, TypeOK
  <2>2. now >= admin.until => ~(now < admin.until)
    BY <2>1
  <2> QED  BY <2>2 DEF DieWriting
<1>2. /\ admin \in [fails : Nat, until : Nat] /\ counted \in Seq(Nat) /\ now \in Nat
      /\ admin.fails \in Nat /\ admin.until \in Nat
      /\ Lockout \in Nat \ {0} /\ AdminAttempts \in Nat \ {0}
      /\ History(counted, Lockout, now)
      /\ Accounted(counted, admin.fails, admin.until, AdminAttempts, now)
      /\ admin.fails < AdminAttempts
  BY Limits DEF AccessInv, TypeOK, HostKept, Accounted
<1>3. admin' \in [fails : Nat, until : Nat] /\ counted' \in Seq(Nat) /\ HostKept'
  <2>1. CASE /\ ~(now < admin.until)
             /\ admin' = [admin EXCEPT !.until = now + Lockout] /\ counted' = Append(counted, now)
    <3>1. counted' \in Seq(Nat) /\ History(counted', Lockout, now)
      BY <1>2, <2>1, HistoryGrows
    <3>2. Accounted(counted', admin.fails, now + Lockout, AdminAttempts, now)
      BY <1>2, <2>1, AccountedFailure
    <3>3. admin' = [fails |-> admin.fails, until |-> now + Lockout] /\ now + Lockout \in Nat
      BY <1>2, <2>1
    <3> QED  BY <1>1, <1>2, <3>1, <3>2, <3>3 DEF HostKept
  <2>2. CASE admin' = [admin EXCEPT !.fails = 0] /\ counted' = <<>>
    <3>1. admin' = [fails |-> 0, until |-> admin.until]
      BY <1>2, <2>2
    <3> QED  BY <1>1, <1>2, <2>2, <3>1, HostAnew
  <2> QED  BY <1>1, <2>1, <2>2
<1> QED  BY <1>1, <1>3, RequestCounts, ForgetKeeps, RowsStand, Together

\* While a lockout is off its count is at least the failures in its window,
\* while it is on all of them are from before it; a bucket's count accounts
\* for what its window let through.
THEOREM AccessInvariant == Spec => []AccessInv
<1>1. ASSUME AccessInv, [Next]_vars PROVE AccessInv'
  <2>1. CASE UNCHANGED vars
    <3>1. UNCHANGED <<now, guest, signedIn, bucket, entry, admin, comparing, guesses, admitted,
                      counted, requests>>
      BY <2>1 DEF vars
    <3> QED  BY <1>1, <3>1, RowsStand, RowsInv
  <2>2. CASE Tick
    BY <1>1, <2>2, TickInv
  <2>3. CASE Restart
    BY <1>1, <2>3, RestartInv
  <2>4. CASE AdminRight
    BY <1>1, <2>4, AdminRightInv
  <2>5. CASE AdminWrong
    BY <1>1, <2>5, AdminWrongInv
  <2>6. CASE DieWriting
    BY <1>1, <2>6, DieWritingInv
  <2>7. CASE \E kind \in {"right", "wrong"} : AdminLogin(kind) \/ AdminGone(kind)
    BY <1>1, <2>7, ComparesInv
  <2>8. CASE \E d \in Devices : Visit(d) \/ Logout(d)
    BY <1>1, <2>8, VisitInv
  <2>9. CASE \E d \in Devices, typed \in DOMAIN Spelled, pin \in Pins : Login(d, typed, pin)
    BY <1>1, <2>9, LoginInv
  <2>10. CASE \E d \in Devices, typed \in DOMAIN Spelled, pin \in Pins : Join(d, typed, pin)
    BY <1>1, <2>10, JoinInv
  <2>11. CASE \E g \in Guests, blocked \in BOOLEAN, pin \in Pins \cup {None} : HostEdit(g, blocked, pin)
    BY <1>1, <2>11, HostEditInv
  <2>12. CASE \E g \in Guests, typed \in DOMAIN Spelled : HostContact(g, typed)
    BY <1>1, <2>12, HostContactInv
  <2> QED  BY <1>1, <2>1, <2>2, <2>3, <2>4, <2>5, <2>6, <2>7, <2>8, <2>9, <2>10, <2>11, <2>12 DEF Next
<1> QED  BY InitAccess, <1>1, PTL DEF Spec

\* No stretch of time sees more than its limit (WindowsHold).
THEOREM WindowsAlwaysHold == Spec => []WindowsHold
<1>1. ASSUME AccessInv PROVE WindowsHold
  <2>0. /\ Lockout \in Nat \ {0} /\ Window \in Nat \ {0} /\ now \in Nat /\ IpMax \in Nat
        /\ GuestAttempts \in Nat /\ AdminAttempts \in Nat
    BY <1>1, Limits DEF AccessInv, TypeOK
  <2>1. ASSUME NEW c \in Contacts PROVE Within(guesses[c], Lockout, GuestAttempts)
    <3>1. guesses[c] \in Seq(Nat) /\ History(guesses[c], Lockout, now)
      BY <1>1 DEF AccessInv, TypeOK, GuessesKept
    <3>2. Len(guesses[c]) <= GuestAttempts
      <4>1. CASE entry[c].present
        <5>1. Accounted(guesses[c], entry[c].fails, entry[c].until, GuestAttempts, now)
          BY <1>1, <4>1 DEF AccessInv, GuessesKept
        <5>2. entry[c].fails \in Nat
          BY <1>1, <4>1, EntryFields DEF AccessInv, TypeOK
        <5> QED  BY <2>0, <3>1, <5>1, <5>2, LenProperties DEF Accounted
      <4>2. CASE ~entry[c].present
        <5>1. guesses[c] = <<>>
          BY <1>1, <4>2 DEF AccessInv, GuessesKept
        <5> QED  BY <2>0, <5>1, NoHistory
      <4> QED  BY <4>1, <4>2
    <3>3. /\ Len(Recent(guesses[c], now, Lockout)) <= Len(guesses[c])
          /\ Recent(guesses[c], now, Lockout) \in Seq(Nat)
      BY <2>0, <3>1, RecentIsAHistory
    <3>4. Len(Recent(guesses[c], now, Lockout)) \in Nat /\ Len(guesses[c]) \in Nat
      BY <3>1, <3>3, LenProperties
    <3> QED  BY <2>0, <3>2, <3>3, <3>4 DEF Within
  <2>2. Within(counted, Lockout, AdminAttempts)
    <3>1. counted \in Seq(Nat) /\ History(counted, Lockout, now) /\ admin.fails \in Nat
      BY <1>1 DEF AccessInv, TypeOK, HostKept
    <3>2. Accounted(counted, admin.fails, admin.until, AdminAttempts, now)
      BY <1>1 DEF AccessInv, HostKept
    <3>3. /\ Len(Recent(counted, now, Lockout)) <= Len(counted)
          /\ Recent(counted, now, Lockout) \in Seq(Nat)
      BY <2>0, <3>1, RecentIsAHistory
    <3>4. Len(Recent(counted, now, Lockout)) \in Nat /\ Len(counted) \in Nat
      BY <3>1, <3>3, LenProperties
    <3>5. Len(counted) <= AdminAttempts
      BY <2>0, <3>1, <3>2, <3>4 DEF Accounted
    <3> QED  BY <2>0, <3>3, <3>4, <3>5 DEF Within
  <2>3. ASSUME NEW l \in Limiters, NEW d \in Devices PROVE Within(admitted[l][d], Window, 2 * IpMax)
    <3>1. admitted[l][d] \in Seq(Nat) /\ History(admitted[l][d], Window, now)
      BY <1>1 DEF AccessInv, TypeOK, AdmittedKept
    <3>2. Len(admitted[l][d]) \in Nat
      BY <3>1, LenProperties
    <3>3. Len(admitted[l][d]) <= 2 * IpMax
      <4>1. CASE bucket[l][d].present
        <5>1. Admitted(admitted[l][d], bucket[l][d], now)
          BY <1>1, <4>1 DEF AccessInv, AdmittedKept
        <5>2. bucket[l][d].count \in Nat
          <6>1. bucket[l][d] \in Buckets
            BY <1>1 DEF AccessInv, TypeOK
          <6> QED  BY <4>1, <6>1, BucketFields
        <5>3. PICK m \in 0 .. IpMax : Len(admitted[l][d]) - m <= bucket[l][d].count
          BY <5>1 DEF Admitted
        <5>4. bucket[l][d].count <= IpMax
          BY <5>1 DEF Admitted
        <5> QED  BY <2>0, <3>2, <5>2, <5>3, <5>4
      <4>2. CASE ~bucket[l][d].present
        <5>1. admitted[l][d] = <<>>
          BY <1>1, <4>2 DEF AccessInv, AdmittedKept
        <5> QED  BY <2>0, <5>1, NoHistory
      <4> QED  BY <4>1, <4>2
    <3>4. /\ Len(Recent(admitted[l][d], now, Window)) <= Len(admitted[l][d])
          /\ Recent(admitted[l][d], now, Window) \in Seq(Nat)
      BY <2>0, <3>1, RecentIsAHistory
    <3>5. Len(Recent(admitted[l][d], now, Window)) \in Nat
      BY <3>4, LenProperties
    <3> QED  BY <2>0, <3>2, <3>3, <3>4, <3>5 DEF Within
  <2>4. /\ Cardinality(Present(entry)) <= TrackedMax
        /\ \A l \in Limiters : Cardinality(Present(bucket[l])) <= BucketsMax
    BY <1>1 DEF AccessInv, MapsFit, Fits
  <2> QED  BY <2>1, <2>2, <2>3, <2>4 DEF WindowsHold
<1> QED  BY <1>1, AccessInvariant, PTL

-----------------------------------------------------------------------------
(* Lockouts.                                                               *)

LEMMA EntriesAreKept ==
    ASSUME AccessInv, [Next]_vars, NEW c \in Contacts, Locked(entry[c], now), entry'[c] # entry[c]
    PROVE  \/ Present(entry') = {}
           \/ /\ \A k \in Present(entry) : Locked(entry[k], now) /\ entry[c].until <= entry[k].until
              /\ ~entry'[c].present
<1>1. Absent.present = FALSE /\ entry \in [Contacts -> Entries]
  BY DEF Absent, AccessInv, TypeOK
<1>2. CASE Restart \/ DieWriting
  <2>1. entry' = [k \in Contacts |-> Absent]
    BY <1>2 DEF Restart, DieWriting, Forget
  <2> QED  BY <1>1, <2>1 DEF Present
<1>3. CASE \E d \in Devices, typed \in DOMAIN Spelled, pin \in Pins : Login(d, typed, pin)
  <2>1. PICK d \in Devices, typed \in DOMAIN Spelled, pin \in Pins : Login(d, typed, pin)
    BY <1>3
  <2> DEFINE k == normalizeContact(typed)
  <2>2. k \in Contacts \cup {None}
    BY SpelledContact
  <2>3. \/ entry' = entry
        \/ /\ k # None /\ ~Locked(entry[k], now)
           /\ recordGuestLoginFailure(k) \/ entry' = [entry EXCEPT ![k] = Absent]
    BY <2>1 DEF Login
  <2> HIDE DEF k
  <2>4. k \in Contacts /\ ~Locked(entry[k], now) /\ k # c
    BY <2>2, <2>3
  <2>5. CASE recordGuestLoginFailure(k)
    <3>1. PICK map \in roomFor(k) : entry' = [map EXCEPT ![k] = Failed(entry[k])]
      BY <2>5 DEF recordGuestLoginFailure
    <3>2. /\ map \in [Contacts -> Entries]
          /\ Locked(entry[c], now) /\ map[c] # entry[c] =>
                /\ map[c] = Absent
                /\ \A j \in Present(entry) : Locked(entry[j], now) /\ entry[c].until <= entry[j].until
      BY <2>4, RoomIsMade DEF AccessInv
    <3>3. entry'[c] = map[c]
      BY <2>4, <3>1, <3>2
    <3> QED  BY <1>1, <3>2, <3>3
  <2>6. CASE entry' = [entry EXCEPT ![k] = Absent]
    BY <1>1, <2>4, <2>6
  <2> QED  BY <2>3, <2>5, <2>6
<1>4. CASE UNCHANGED entry
  BY <1>4
<1> QED  BY <1>2, <1>3, <1>4
         DEF Next, vars, Tick, AdminRight, AdminWrong, AdminLogin, AdminGone, Visit, Logout, Join,
             HostEdit, HostContact

LEMMA HostLockoutIsKept ==
    ASSUME AccessInv, [Next]_vars, now < admin.until, admin'.until # admin.until
    PROVE  admin'.until = 0 /\ comparing'["right"] < comparing["right"]
<1>0. admin \in [fails : Nat, until : Nat] /\ now \in Nat /\ admin.until \in Nat
  BY DEF AccessInv, TypeOK
<1>1. CASE AdminRight
  <2>1. /\ comparing["right"] > 0 /\ comparing' = [comparing EXCEPT !["right"] = @ - 1]
        /\ admin' = [fails |-> 0, until |-> 0]
    BY <1>1 DEF AdminRight
  <2> QED  BY <2>1, OneCompareLess
<1>2. CASE AdminWrong
  <2>1. admin' = admin
    BY <1>2 DEF AdminWrong
  <2> QED  BY <2>1
<1>3. CASE DieWriting
  <2>1. ~(now >= admin.until)
    BY <1>0
  <2>2. admin' = [admin EXCEPT !.fails = 0]
    BY <1>3, <2>1 DEF DieWriting
  <2>3. admin'.until = admin.until
    BY <1>0, <2>2
  <2> QED  BY <2>3
<1>4. CASE UNCHANGED admin
  BY <1>4
<1> QED  BY <1>1, <1>2, <1>3, <1>4
         DEF Next, vars, Tick, Restart, AdminLogin, AdminGone, Visit, Logout, Join, Login,
             HostEdit, HostContact

LEMMA LockedStayOut ==
    ASSUME AccessInv, [Next]_vars, NEW d \in Devices, signedIn'[d] \notin {None, signedIn[d]}
    PROVE  \/ ~Locked(entry[guest'[signedIn'[d]].contact], now)
           \/ ~guest[signedIn'[d]].there
<1>0. signedIn \in [Devices -> Guests \cup {None}] /\ guest \in [Guests -> Rows]
  BY RowsStand
<1>1. CASE \E dd \in Devices, typed \in DOMAIN Spelled, pin \in Pins : Login(dd, typed, pin)
  <2>1. PICK dd \in Devices, typed \in DOMAIN Spelled, pin \in Pins : Login(dd, typed, pin)
    BY <1>1
  <2> DEFINE c == normalizeContact(typed)
  <2>2. /\ guest' = guest
        /\ \/ signedIn' = signedIn
           \/ /\ ~Locked(entry[c], now)
              /\ \E g \in getGuestByContact(c) : signedIn' = [signedIn EXCEPT ![dd] = g]
    BY <2>1 DEF Login
  <2> HIDE DEF c
  <2>3. ~Locked(entry[c], now)
    BY <2>2
  <2>4. PICK g \in getGuestByContact(c) : signedIn' = [signedIn EXCEPT ![dd] = g]
    BY <2>2
  <2>5. signedIn'[d] = g
    BY <1>0, <2>4
  <2>6. guest[g].contact = c
    BY DEF getGuestByContact
  <2> QED  BY <2>2, <2>3, <2>5, <2>6
<1>2. CASE \E dd \in Devices, typed \in DOMAIN Spelled, pin \in Pins : Join(dd, typed, pin)
  <2>1. PICK dd \in Devices, typed \in DOMAIN Spelled, pin \in Pins : Join(dd, typed, pin)
    BY <1>2
  <2> DEFINE free == {g \in Guests : ~guest[g].there}
  <2>2. free # {} /\ signedIn' = [signedIn EXCEPT ![dd] = Min(free)]
    BY <2>1 DEF Join
  <2>3. Min(free) \in free
    <3>1. free \in SUBSET Nat
      BY AccessAssumption
    <3> HIDE DEF free
    <3> QED  BY <2>2, <3>1, Least
  <2>4. signedIn'[d] = Min(free)
    <3> HIDE DEF free
    <3> QED  BY <1>0, <2>2
  <2>5. signedIn'[d] \in free
    BY <2>3, <2>4
  <2> QED  BY <2>5
<1>3. CASE \E dd \in Devices : Visit(dd) \/ Logout(dd)
  BY <1>0, <1>3 DEF Visit, Logout
<1>4. CASE UNCHANGED signedIn
  BY <1>4
<1> QED  BY <1>1, <1>2, <1>3, <1>4
         DEF Next, vars, Tick, Restart, AdminRight, AdminWrong, DieWriting, AdminLogin, AdminGone,
             HostEdit, HostContact

\* A lockout ends early only in the ways the code names.
THEOREM LockoutsAreAlwaysKept == Spec => LockoutsAreKept
<1> DEFINE Kept ==
        /\ \A c \in Contacts :
             Locked(entry[c], now) /\ entry'[c] # entry[c] =>
                 \/ Present(entry') = {}
                 \/ /\ \A k \in Present(entry) : Locked(entry[k], now) /\ entry[c].until <= entry[k].until
                    /\ ~entry'[c].present
        /\ now < admin.until /\ admin'.until # admin.until =>
             admin'.until = 0 /\ comparing'["right"] < comparing["right"]
        /\ \A d \in Devices : signedIn'[d] \notin {None, signedIn[d]} =>
             ~Locked(entry[guest'[signedIn'[d]].contact], now)
                 \/ ~guest[signedIn'[d]].there
<1>1. AccessInv /\ [Next]_vars => Kept
  BY EntriesAreKept, HostLockoutIsKept, LockedStayOut
<1>2. Spec => []AccessInv
  BY AccessInvariant
<1>3. AccessInv /\ [Next]_vars => [Kept]_vars
  BY <1>1
<1>4. LockoutsAreKept <=> [][Kept]_vars
  BY DEF LockoutsAreKept
<1> HIDE DEF Kept
<1> QED  BY <1>2, <1>3, <1>4, PTL DEF Spec

\* The largest number of some.
LEMMA LargestOfSome ==
    ASSUME NEW n \in Nat, NEW S \in SUBSET (0 .. n), S # {}
    PROVE  \E m \in S : \A k \in S : k <= m
<1> DEFINE T == {n - m : m \in S}
<1>1. T \in SUBSET Nat /\ T # {}
  <2>1. \A m \in S : n - m \in Nat
    OBVIOUS
  <2> QED  BY <2>1
<1>2. PICK t \in T : \A u \in T : t <= u
  <2> HIDE DEF T
  <2> QED  BY <1>1, Least
<1>3. PICK m \in S : t = n - m
  OBVIOUS
<1>4. ASSUME NEW k \in S PROVE k <= m
  <2>1. n - k \in T /\ n - m <= n - k
    BY <1>2, <1>3
  <2> QED  BY <1>3, <2>1
<1> QED  BY <1>4

-----------------------------------------------------------------------------
(* Lifecycle: a drain is bounded and patient, and only a loop ends.        *)

Ages == Seq(0 .. WINDOW + 1)

LifeType ==
    /\ wrapper \in {"running", "stopped", "gaveUp"}
    /\ child \in {"none", "booting", "serving", "draining"}
    /\ restartTimes \in Ages /\ restarts \in Ages
    /\ {relaunch, pending, forceTimer, draining, stopping} \subseteq Int
    /\ -1 <= relaunch /\ 0 <= pending /\ pending <= MaxPending
    /\ -1 <= forceTimer /\ forceTimer <= timeoutMs /\ -1 <= draining /\ draining <= timeoutMs
    /\ -1 <= stopping /\ stopping <= timeoutMs + 1

\* The backstop is armed exactly while a drain goes on, and together they make
\* up its time.
BackstopIsArmed ==
    /\ child = "draining" => draining >= 0 /\ forceTimer + draining = timeoutMs
    /\ child # "draining" => draining = -1 /\ forceTimer = -1

\* Who was told to stop: the signal is on its way, or the drain began no later.
StopReachesTheChild ==
    /\ wrapper = "running" => stopping = -1
    /\ wrapper # "running" \/ child # "none" => relaunch = -1
    /\ child = "none" => pending = 0
    /\ child # "none" /\ stopping # -1 =>
        (pending > 0 /\ stopping = 0) \/ (child = "draining" /\ stopping <= draining)

\* What the wrapper remembers is all that happened in the window.
NothingIsForgotten ==
    /\ \A i, j \in 1 .. Len(restarts) : i < j => restarts[i] >= restarts[j]
    /\ wrapper # "gaveUp" => restartTimes = restarts
    /\ Len(restarts) <= MAX_RESTARTS

LifeInv ==
    /\ LifeType /\ BackstopIsArmed /\ StopReachesTheChild /\ NothingIsForgotten
    /\ Lifecycle!DrainIsPatient /\ Lifecycle!OnlyLoopsEnd

LEMMA LifeConstants ==
    /\ MAX_RESTARTS \in Nat /\ WINDOW \in Nat /\ BACKOFF \in Nat /\ timeoutMs \in Nat /\ MaxPending \in Nat
    /\ MAX_RESTARTS > 0 /\ MaxPending > 0 /\ timeoutMs > 0 /\ WINDOW > 0 /\ BACKOFF > 0
<1> QED  BY ServerAssumption DEF ServerAssumption

LEMMA LifeCardinality ==
    \A S : Lifecycle!Cardinality(S) = Cardinality(S)
<1> QED  BY DEF Lifecycle!Cardinality, Cardinality

\* What is left when the stale are shifted off the front of ages in order: the
\* fresh ones, all of them.
LEMMA FreshOnes ==
    ASSUME NEW ages \in Ages, \A i, j \in 1 .. Len(ages) : i < j => ages[i] >= ages[j]
    PROVE  LET left == Lifecycle!Within(ages, WINDOW)
           IN  /\ left \in Ages
               /\ \A i, j \in 1 .. Len(left) : i < j => left[i] >= left[j]
               /\ Len(left) = Cardinality({i \in DOMAIN ages : ages[i] <= WINDOW})
               /\ Len(left) <= Len(ages)
<1> DEFINE shifts == {n \in 0 .. Len(ages) : \A i \in 1 .. n : ages[i] > WINDOW}
           shed == CHOOSE n \in shifts : \A m \in shifts : m <= n
           left == SubSeq(ages, 1 + shed, Len(ages))
           fresh == {i \in DOMAIN ages : ages[i] <= WINDOW}
<1>1. Len(ages) \in Nat /\ DOMAIN ages = 1 .. Len(ages) /\ WINDOW \in Nat
      /\ \A i \in 1 .. Len(ages) : ages[i] \in 0 .. WINDOW + 1
  BY LifeConstants, ElementOfSeq DEF Ages
<1>2. PICK n \in shifts : \A m \in shifts : m <= n
  <2>1. 0 \in shifts
    BY <1>1
  <2>2. IsFiniteSet(0 .. Len(ages))
    BY <1>1, FS_Interval
  <2>3. \A S \in SUBSET (0 .. Len(ages)) : S # {} => \E n \in S : \A m \in S : m <= n
    BY <1>1, LargestOfSome
  <2> QED  BY <2>1, <2>3
<1>3. shed \in shifts /\ \A m \in shifts : m <= shed
  <2> HIDE DEF shifts
  <2> QED  BY <1>2
<1> HIDE DEF shed
<1>4. shed \in 0 .. Len(ages) /\ shed \in Nat /\ shed <= Len(ages) /\ \A i \in 1 .. shed : ages[i] > WINDOW
  BY <1>3
<1>5. ASSUME NEW i \in 1 + shed .. Len(ages) PROVE ages[i] <= WINDOW
  <2> SUFFICES ASSUME ages[i] > WINDOW PROVE FALSE
    BY <1>1, <1>4, <1>5
  <2>1. i \in 1 .. Len(ages) /\ i > shed /\ shed \in Nat
    BY <1>1, <1>4, <1>5
  <2>2. \A j \in 1 .. i : ages[j] > WINDOW
    <3> SUFFICES ASSUME NEW j \in 1 .. i, j # i PROVE ages[j] > WINDOW
      OBVIOUS
    <3>1. j \in 1 .. Len(ages) /\ j < i
      BY <1>1, <2>1
    <3>2. ages[j] >= ages[i] /\ ages[j] \in Int /\ ages[i] \in Int
      BY <1>1, <2>1, <3>1
    <3> QED  BY <1>1, <3>2
  <2>3. i \in shifts
    BY <1>1, <2>1, <2>2
  <2> QED  BY <1>3, <2>1, <2>3
<1>6. /\ left \in Ages /\ Len(left) = Len(ages) - shed
      /\ \A k \in 1 .. Len(left) : left[k] = ages[shed + k]
  <2>1. 1 + shed \in Int /\ Len(ages) \in Int /\ \A i \in 1 + shed .. Len(ages) : ages[i] \in 0 .. WINDOW + 1
    BY <1>1, <1>4
  <2>2. /\ left \in Seq(0 .. WINDOW + 1)
        /\ Len(left) = IF 1 + shed <= Len(ages) THEN Len(ages) - (1 + shed) + 1 ELSE 0
        /\ \A k \in 1 .. Len(ages) - (1 + shed) + 1 : left[k] = ages[1 + shed + k - 1]
    BY <2>1, SubSeqProperties
  <2> HIDE DEF left
  <2>3. Len(left) = Len(ages) - shed
    <3>1. shed \in Nat /\ shed <= Len(ages) /\ Len(ages) \in Nat
      BY <1>1, <1>4
    <3> QED  BY <2>2, <3>1
  <2>4. ASSUME NEW k \in 1 .. Len(left) PROVE left[k] = ages[shed + k]
    <3>1. shed \in Nat /\ Len(ages) \in Nat /\ k \in Nat /\ 1 <= k /\ k <= Len(ages) - shed
      BY <1>1, <1>4, <2>3
    <3>2. k \in 1 .. Len(ages) - (1 + shed) + 1 /\ 1 + shed + k - 1 = shed + k
      BY <3>1
    <3> QED  BY <2>2, <3>2
  <2> QED  BY <2>2, <2>3, <2>4 DEF Ages
<1>7. fresh = 1 + shed .. Len(ages)
  <2>1. \A i \in 1 .. Len(ages) : i \in 1 .. shed \/ i \in 1 + shed .. Len(ages)
    BY <1>1, <1>4
  <2>2. \A i \in 1 .. shed : ~(ages[i] <= WINDOW)
    BY <1>1, <1>4
  <2>3. 1 + shed .. Len(ages) \subseteq 1 .. Len(ages)
    BY <1>1, <1>4
  <2> QED  BY <1>1, <1>5, <2>1, <2>2, <2>3
<1>8. Cardinality(fresh) = Len(ages) - shed
  <2>1. 1 + shed \in Int /\ Len(ages) \in Int
    BY <1>1, <1>4
  <2>2. Cardinality(1 + shed .. Len(ages)) = IF 1 + shed > Len(ages) THEN 0 ELSE Len(ages) - (1 + shed) + 1
    BY <2>1, FS_Interval
  <2>3. ~(1 + shed > Len(ages)) => Len(ages) - (1 + shed) + 1 = Len(ages) - shed
    BY <1>1, <1>4
  <2>4. 1 + shed > Len(ages) => Len(ages) - shed = 0
    <3>1. shed \in Nat /\ shed <= Len(ages) /\ Len(ages) \in Nat
      BY <1>1, <1>4
    <3> QED  BY <3>1
  <2>5. CASE 1 + shed > Len(ages)
    BY <1>7, <2>2, <2>4, <2>5
  <2>6. CASE ~(1 + shed > Len(ages))
    BY <1>7, <2>2, <2>3, <2>6
  <2> QED  BY <2>5, <2>6
<1>9. Lifecycle!Within(ages, WINDOW) = left
  BY DEF Lifecycle!Within, shed
<1>10. \A i, j \in 1 .. Len(left) : i < j => left[i] >= left[j]
  <2> SUFFICES ASSUME NEW i \in 1 .. Len(left), NEW j \in 1 .. Len(left), i < j PROVE left[i] >= left[j]
    OBVIOUS
  <2> HIDE DEF left
  <2>1. shed + i \in 1 .. Len(ages) /\ shed + j \in 1 .. Len(ages) /\ shed + i < shed + j
    <3>1. i \in Nat /\ j \in Nat /\ 1 <= i /\ i <= Len(left) /\ 1 <= j /\ j <= Len(left) /\ Len(left) = Len(ages) - shed
      BY <1>6
    <3> QED  BY <1>1, <1>4, <3>1
  <2> QED  BY <1>6, <2>1
<1>11. Len(left) <= Len(ages)
  <2> HIDE DEF left
  <2>1. shed \in Nat /\ Len(ages) \in Nat
    BY <1>1, <1>4
  <2> QED  BY <1>6, <2>1
<1> HIDE DEF left
<1>12. Len(left) = Cardinality(fresh)
  BY <1>6, <1>8
<1> QED  BY <1>6, <1>9, <1>10, <1>11, <1>12

LEMMA UpTo ==
    ASSUME NEW n \in Nat
    PROVE  IsFiniteSet(1 .. n) /\ Cardinality(1 .. n) = n
<1> QED  BY FS_Interval

\* A window holds no more than what is remembered.
LEMMA FreshAreFew ==
    ASSUME NEW ages \in Ages
    PROVE  /\ Cardinality({i \in DOMAIN ages : ages[i] <= WINDOW}) \in Nat
           /\ Cardinality({i \in DOMAIN ages : ages[i] <= WINDOW}) <= Len(ages)
<1>1. DOMAIN ages = 1 .. Len(ages) /\ Len(ages) \in Nat
  BY DEF Ages
<1>2. IsFiniteSet(1 .. Len(ages)) /\ Cardinality(1 .. Len(ages)) = Len(ages)
  BY <1>1, UpTo
<1>3. {i \in DOMAIN ages : ages[i] <= WINDOW} \subseteq 1 .. Len(ages)
  BY <1>1
<1> QED  BY <1>2, <1>3, FS_Subset, FS_CardinalityType

LEMMA LifeStart ==
    Lifecycle!LifeInit => LifeInv
<1> SUFFICES ASSUME Lifecycle!LifeInit PROVE LifeInv
  OBVIOUS
<1>1. LifeType
  BY LifeConstants DEF Lifecycle!LifeInit, Lifecycle!Never, LifeType, Ages
<1>2. BackstopIsArmed /\ StopReachesTheChild
  BY DEF Lifecycle!LifeInit, Lifecycle!Never, BackstopIsArmed, StopReachesTheChild
<1>3. NothingIsForgotten
  BY LifeConstants DEF Lifecycle!LifeInit, NothingIsForgotten
<1>4. Lifecycle!DrainIsPatient /\ Lifecycle!OnlyLoopsEnd
  BY DEF Lifecycle!LifeInit, Lifecycle!DrainIsPatient, Lifecycle!OnlyLoopsEnd
<1> QED  BY <1>1, <1>2, <1>3, <1>4 DEF LifeInv

\* What the wrapper knows does not depend on the rest.
LEMMA WrapperUntouched ==
    ASSUME LifeInv, UNCHANGED <<restartTimes, restarts>>,
           wrapper' = wrapper \/ (wrapper = "running" /\ wrapper' = "stopped")
    PROVE  NothingIsForgotten' /\ Lifecycle!OnlyLoopsEnd'
BY DEF LifeInv, NothingIsForgotten, Lifecycle!OnlyLoopsEnd

LEMMA LastUntouched ==
    ASSUME LifeInv, UNCHANGED last
    PROVE  Lifecycle!DrainIsPatient'
BY DEF LifeInv, Lifecycle!DrainIsPatient

\* The end of the child, whatever ends it.
LEMMA DieKeeps ==
    ASSUME LifeInv, NEW how \in {"crash", "signal", "drained", "forced"}, child # "none", Lifecycle!Die(how),
           how = "drained" => Lifecycle!Busy = {}, how = "forced" => child = "draining" /\ forceTimer = 0
    PROVE  LifeInv'
<1>1. /\ child' = "none" /\ pending' = 0 /\ forceTimer' = -1 /\ draining' = -1
      /\ last' = [how |-> how, after |-> draining, cut |-> Lifecycle!Busy]
      /\ Lifecycle!exited(how) /\ stopping' = stopping
  BY DEF Lifecycle!Die, Lifecycle!Never
<1>2. LifeType /\ BackstopIsArmed /\ StopReachesTheChild /\ NothingIsForgotten
      /\ Lifecycle!DrainIsPatient /\ Lifecycle!OnlyLoopsEnd
  BY DEF LifeInv
<1> DEFINE fresh(ages) == Lifecycle!Within(ages, WINDOW)
           few == Cardinality({i \in DOMAIN restarts : restarts[i] <= WINDOW})
<1>3. \/ wrapper # "running" /\ UNCHANGED <<wrapper, restartTimes, relaunch, restarts>>
      \/ wrapper = "running" /\ wrapper' = "stopped" /\ UNCHANGED <<restartTimes, relaunch, restarts>>
      \/ /\ wrapper = "running" /\ wrapper' = "gaveUp" /\ UNCHANGED <<relaunch, restarts>>
         /\ restartTimes' = fresh(restartTimes) /\ Len(fresh(restartTimes)) >= MAX_RESTARTS
      \/ /\ wrapper = "running" /\ wrapper' = wrapper /\ relaunch' = BACKOFF
         /\ ~(Len(fresh(restartTimes)) >= MAX_RESTARTS)
         /\ restartTimes' = Append(fresh(restartTimes), 0) /\ restarts' = Append(fresh(restarts), 0)
  <2> HIDE DEF fresh
  <2> QED  BY <1>1 DEF Lifecycle!exited, Lifecycle!Remembered, fresh
<1>4. /\ fresh(restarts) \in Ages
      /\ \A i, j \in 1 .. Len(fresh(restarts)) : i < j => fresh(restarts)[i] >= fresh(restarts)[j]
      /\ Len(fresh(restarts)) = few /\ Len(fresh(restarts)) <= Len(restarts)
  <2>1. restarts \in Ages /\ \A i, j \in 1 .. Len(restarts) : i < j => restarts[i] >= restarts[j]
    BY <1>2 DEF LifeType, NothingIsForgotten
  <2> QED  BY <2>1, FreshOnes
<1> HIDE DEF fresh, few
<1>5. wrapper = "running" => restartTimes = restarts
  BY <1>2 DEF NothingIsForgotten
<1>6. relaunch = -1
  BY <1>2 DEF StopReachesTheChild
<1> DEFINE more == Append(fresh(restarts), 0)
<1>7. /\ more \in Ages /\ Len(more) = Len(fresh(restarts)) + 1
      /\ \A i, j \in 1 .. Len(more) : i < j => more[i] >= more[j]
  <2>1. more \in Ages /\ Len(more) = Len(fresh(restarts)) + 1 /\ Len(fresh(restarts)) \in Nat
    BY <1>4, LifeConstants DEF Ages
  <2>2. \A i \in 1 .. Len(fresh(restarts)) : more[i] = fresh(restarts)[i] /\ more[i] \in Nat /\ more[i] >= 0
    <3>1. \A i \in 1 .. Len(fresh(restarts)) : fresh(restarts)[i] \in 0 .. WINDOW + 1
      BY <1>4, ElementOfSeq DEF Ages
    <3>2. \A i \in 1 .. Len(fresh(restarts)) : more[i] = fresh(restarts)[i]
      BY <1>4 DEF Ages
    <3> QED  BY <3>1, <3>2, LifeConstants
  <2>3. more[Len(fresh(restarts)) + 1] = 0
    BY <1>4 DEF Ages
  <2> SUFFICES ASSUME NEW i \in 1 .. Len(more), NEW j \in 1 .. Len(more), i < j PROVE more[i] >= more[j]
    BY <2>1
  <2>4. i \in 1 .. Len(fresh(restarts)) /\ (j \in 1 .. Len(fresh(restarts)) \/ j = Len(fresh(restarts)) + 1)
    <3> HIDE DEF more
    <3> QED  BY <2>1
  <2> HIDE DEF more
  <2> QED  BY <1>4, <2>2, <2>3, <2>4
<1> HIDE DEF more
<1>8. LifeType'
  <2>1. restartTimes' \in Ages /\ restarts' \in Ages
    BY <1>2, <1>3, <1>4, <1>5, <1>7 DEF LifeType, more
  <2>2. relaunch' \in Int /\ -1 <= relaunch'
    BY <1>2, <1>3, LifeConstants DEF LifeType
  <2>3. wrapper' \in {"running", "stopped", "gaveUp"}
    BY <1>2, <1>3 DEF LifeType
  <2> QED  BY <1>1, <1>2, <2>1, <2>2, <2>3, LifeConstants DEF LifeType
<1>9. BackstopIsArmed'
  BY <1>1 DEF BackstopIsArmed
<1>10. StopReachesTheChild'
  <2>1. wrapper' = "running" => wrapper = "running"
    BY <1>3
  <2>2. wrapper' # "running" => relaunch' = -1
    BY <1>3, <1>6
  <2> QED  BY <1>1, <1>2, <2>1, <2>2 DEF StopReachesTheChild
<1>11. NothingIsForgotten'
  <2>1. CASE restarts' = restarts
    BY <1>2, <1>3, <1>5, <2>1 DEF NothingIsForgotten
  <2>2. CASE /\ wrapper = "running" /\ ~(Len(fresh(restartTimes)) >= MAX_RESTARTS)
             /\ restartTimes' = Append(fresh(restartTimes), 0) /\ restarts' = more
    <3>1. Len(more) <= MAX_RESTARTS
      <4>1. Len(fresh(restarts)) \in Nat
        BY <1>4 DEF Ages
      <4> QED  BY <1>5, <1>7, <2>2, <4>1, LifeConstants
    <3>2. restartTimes' = more
      BY <1>5, <2>2 DEF more
    <3> QED  BY <1>7, <2>2, <3>1, <3>2 DEF NothingIsForgotten
  <2> QED  BY <1>3, <2>1, <2>2 DEF more
<1>12. Lifecycle!OnlyLoopsEnd'
  <2>1. CASE wrapper' = "gaveUp" /\ wrapper # "gaveUp"
    <3>1. few >= MAX_RESTARTS /\ restarts' = restarts
      BY <1>3, <1>4, <1>5, <2>1
    <3> QED  BY <3>1, LifeCardinality DEF Lifecycle!OnlyLoopsEnd, few
  <2>2. CASE ~(wrapper' = "gaveUp" /\ wrapper # "gaveUp")
    BY <1>2, <1>3, <2>2 DEF Lifecycle!OnlyLoopsEnd
  <2> QED  BY <2>1, <2>2
<1>13. Lifecycle!DrainIsPatient'
  <2>1. how = "forced" => draining >= timeoutMs
    BY <1>2, LifeConstants DEF BackstopIsArmed, LifeType
  <2> QED  BY <1>1, <2>1 DEF Lifecycle!DrainIsPatient
<1> QED  BY <1>8, <1>9, <1>10, <1>11, <1>12, <1>13 DEF LifeInv

\* Ages in order grow in order.
LEMMA OlderAges ==
    ASSUME NEW ages \in Ages, \A i, j \in 1 .. Len(ages) : i < j => ages[i] >= ages[j]
    PROVE  LET older == Lifecycle!Older(ages, WINDOW)
           IN  /\ older \in Ages /\ Len(older) = Len(ages)
               /\ \A i, j \in 1 .. Len(older) : i < j => older[i] >= older[j]
<1> DEFINE older == Lifecycle!Older(ages, WINDOW)
<1>1. Len(ages) \in Nat /\ DOMAIN ages = 1 .. Len(ages) /\ WINDOW \in Nat
      /\ \A i \in 1 .. Len(ages) : ages[i] \in 0 .. WINDOW + 1
  BY LifeConstants, ElementOfSeq DEF Ages
<1>2. older = [i \in 1 .. Len(ages) |-> IF ages[i] > WINDOW THEN ages[i] ELSE ages[i] + 1]
  BY <1>1 DEF Lifecycle!Older
<1> HIDE DEF older
<1>3. \A i \in 1 .. Len(ages) : older[i] \in 0 .. WINDOW + 1
  BY <1>1, <1>2
<1>4. older \in Seq(0 .. WINDOW + 1) /\ Len(older) = Len(ages)
  <2>1. older \in [1 .. Len(ages) -> 0 .. WINDOW + 1]
    BY <1>2, <1>3
  <2> QED  BY <1>1, <2>1
<1>5. \A i, j \in 1 .. Len(ages) : i < j => older[i] >= older[j]
  BY <1>1, <1>2
<1> QED  BY <1>4, <1>5 DEF Ages, older

LEMMA LifeTickKeeps ==
    ASSUME LifeInv, Lifecycle!Tick
    PROVE  LifeInv'
<1>1. /\ wrapper # "gaveUp" /\ relaunch # 0 /\ forceTimer # 0 /\ pending = 0
      /\ restartTimes' = Lifecycle!Older(restartTimes, WINDOW) /\ restarts' = Lifecycle!Older(restarts, WINDOW)
      /\ relaunch' = (IF relaunch = -1 THEN -1 ELSE relaunch - 1)
      /\ forceTimer' = (IF forceTimer = -1 THEN -1 ELSE forceTimer - 1)
      /\ draining' = (IF draining = -1 THEN -1 ELSE IF draining > timeoutMs THEN draining ELSE draining + 1)
      /\ stopping' = (IF stopping = -1 THEN -1 ELSE IF stopping > timeoutMs THEN stopping ELSE stopping + 1)
      /\ UNCHANGED <<wrapper, child, pending, conn, last>>
  BY DEF Lifecycle!Tick, Lifecycle!Down, Lifecycle!Up, Lifecycle!Never
<1>2. LifeType /\ BackstopIsArmed /\ StopReachesTheChild /\ NothingIsForgotten
      /\ Lifecycle!DrainIsPatient /\ Lifecycle!OnlyLoopsEnd
  BY DEF LifeInv
<1>3. /\ restartTimes = restarts /\ restarts' \in Ages /\ Len(restarts') = Len(restarts)
      /\ \A i, j \in 1 .. Len(restarts') : i < j => restarts'[i] >= restarts'[j]
  <2>1. restarts \in Ages /\ restartTimes = restarts /\ \A i, j \in 1 .. Len(restarts) : i < j => restarts[i] >= restarts[j]
    BY <1>1, <1>2 DEF LifeType, NothingIsForgotten
  <2> QED  BY <1>1, <2>1, OlderAges
<1>4. /\ {relaunch, forceTimer, draining, stopping} \subseteq Int /\ timeoutMs \in Nat
      /\ -1 <= relaunch /\ -1 <= forceTimer /\ forceTimer <= timeoutMs /\ -1 <= draining /\ draining <= timeoutMs
      /\ -1 <= stopping /\ stopping <= timeoutMs + 1
  BY <1>2, LifeConstants DEF LifeType
<1>5. child = "draining" => draining + 1 <= timeoutMs /\ draining >= 0
  BY <1>1, <1>2, <1>4 DEF BackstopIsArmed
<1>6. LifeType'
  <2>1. restartTimes' \in Ages
    BY <1>1, <1>3
  <2>2. {relaunch', forceTimer', stopping'} \subseteq Int /\ -1 <= relaunch' /\ -1 <= forceTimer' /\ forceTimer' <= timeoutMs /\ -1 <= stopping' /\ stopping' <= timeoutMs + 1
    BY <1>1, <1>4
  <2>3. draining' \in Int /\ -1 <= draining' /\ draining' <= timeoutMs
    BY <1>1, <1>2, <1>4, <1>5 DEF BackstopIsArmed
  <2> QED  BY <1>1, <1>2, <1>3, <2>1, <2>2, <2>3 DEF LifeType
<1>7. BackstopIsArmed'
  BY <1>1, <1>2, <1>4, <1>5 DEF BackstopIsArmed
<1>8. StopReachesTheChild'
  BY <1>1, <1>2, <1>4, <1>5 DEF StopReachesTheChild, BackstopIsArmed
<1>9. NothingIsForgotten' /\ Lifecycle!OnlyLoopsEnd'
  BY <1>1, <1>2, <1>3 DEF NothingIsForgotten, Lifecycle!OnlyLoopsEnd
<1>10. Lifecycle!DrainIsPatient'
  BY <1>1, LastUntouched
<1> QED  BY <1>6, <1>7, <1>8, <1>9, <1>10 DEF LifeInv

LEMMA DeliverKeeps ==
    ASSUME LifeInv, Lifecycle!Deliver
    PROVE  LifeInv'
<1>1. LifeType /\ BackstopIsArmed /\ StopReachesTheChild
  BY DEF LifeInv
<1>2. pending > 0 /\ child # "none" /\ timeoutMs \in Nat /\ MaxPending \in Nat
  BY <1>1, LifeConstants DEF Lifecycle!Deliver, StopReachesTheChild, LifeType
<1>3. CASE child = "booting"
  BY <1>2, <1>3, DieKeeps DEF Lifecycle!Deliver
<1>4. CASE child # "booting"
  <2>1. /\ pending' = pending - 1 /\ child' = "draining"
        /\ IF child = "draining" THEN UNCHANGED <<forceTimer, draining>> ELSE forceTimer' = timeoutMs /\ draining' = 0
        /\ UNCHANGED <<wrapper, restartTimes, relaunch, conn, restarts, stopping, last>>
    BY <1>4 DEF Lifecycle!Deliver, Lifecycle!shutdown
  <2>2. LifeType'
    BY <1>1, <1>2, <2>1 DEF LifeType
  <2>3. BackstopIsArmed'
    BY <1>1, <1>2, <2>1 DEF BackstopIsArmed, LifeType
  <2>4. StopReachesTheChild'
    BY <1>1, <1>2, <2>1 DEF StopReachesTheChild, BackstopIsArmed, LifeType
  <2> QED  BY <2>1, <2>2, <2>3, <2>4, WrapperUntouched, LastUntouched DEF LifeInv
<1> QED  BY <1>3, <1>4

LEMMA SignalKeeps ==
    ASSUME LifeInv, NEW both \in BOOLEAN, Lifecycle!SignalWrapper(both)
    PROVE  LifeInv'
<1>1. /\ wrapper = "running" /\ wrapper' = "stopped" /\ relaunch' = -1 /\ stopping' = 0
      /\ pending' = (IF child = "none" THEN 0 ELSE IF both /\ pending + 2 <= MaxPending THEN pending + 2
                     ELSE IF pending < MaxPending THEN pending + 1 ELSE pending)
      /\ UNCHANGED <<restartTimes, child, forceTimer, conn, restarts, draining, last>>
  BY DEF Lifecycle!SignalWrapper, Lifecycle!Never
<1>2. LifeType /\ BackstopIsArmed /\ StopReachesTheChild
  BY DEF LifeInv
<1>3. pending \in Int /\ 0 <= pending /\ pending <= MaxPending /\ MaxPending \in Nat /\ MaxPending > 0
  BY <1>2, LifeConstants DEF LifeType
<1>4. pending' \in Int /\ 0 <= pending' /\ pending' <= MaxPending /\ (child # "none" => pending' > 0)
  BY <1>1, <1>3
<1>5. LifeType'
  BY <1>1, <1>2, <1>4, LifeConstants DEF LifeType
<1>6. BackstopIsArmed' /\ StopReachesTheChild'
  BY <1>1, <1>2, <1>4 DEF BackstopIsArmed, StopReachesTheChild
<1> QED  BY <1>1, <1>5, <1>6, WrapperUntouched, LastUntouched DEF LifeInv

LEMMA LifeStep ==
    ASSUME LifeInv, Lifecycle!LifeNext
    PROVE  LifeInv'
<1>1. LifeType /\ BackstopIsArmed /\ StopReachesTheChild
  BY DEF LifeInv
<1>2. CASE Lifecycle!launch
  <2>1. /\ wrapper = "running" /\ relaunch' = -1 /\ child' = "booting" /\ pending' = 0 /\ relaunch = 0
        /\ UNCHANGED <<wrapper, restartTimes, forceTimer, conn, restarts, draining, stopping, last>>
    BY <1>2 DEF Lifecycle!launch, Lifecycle!Launched, Lifecycle!Never
  <2>2. child = "none"
    BY <1>1, <2>1 DEF StopReachesTheChild
  <2>3. LifeType' /\ BackstopIsArmed' /\ StopReachesTheChild'
    BY <1>1, <2>1, <2>2, LifeConstants DEF LifeType, BackstopIsArmed, StopReachesTheChild
  <2> QED  BY <2>1, <2>3, WrapperUntouched, LastUntouched DEF LifeInv
<1>3. CASE Lifecycle!Listen
  <2>1. /\ child = "booting" /\ child' = "serving"
        /\ UNCHANGED <<wrapper, restartTimes, relaunch, pending, forceTimer, conn, restarts, draining, stopping, last>>
    BY <1>3 DEF Lifecycle!Listen
  <2>2. LifeType' /\ BackstopIsArmed' /\ StopReachesTheChild'
    BY <1>1, <2>1 DEF LifeType, BackstopIsArmed, StopReachesTheChild
  <2> QED  BY <2>1, <2>2, WrapperUntouched, LastUntouched DEF LifeInv
<1>4. CASE Lifecycle!Crash
  BY <1>4, DieKeeps DEF Lifecycle!Crash
<1>5. CASE Lifecycle!Deliver
  BY <1>5, DeliverKeeps
<1>6. CASE Lifecycle!Drained
  BY <1>6, DieKeeps DEF Lifecycle!Drained
<1>7. CASE Lifecycle!Force
  BY <1>7, DieKeeps DEF Lifecycle!Force
<1>8. CASE Lifecycle!Tick
  BY <1>8, LifeTickKeeps
<1>9. CASE Lifecycle!SignalChild
  <2>1. /\ child # "none" /\ pending < MaxPending /\ pending' = pending + 1
        /\ UNCHANGED <<wrapper, restartTimes, relaunch, child, forceTimer, conn, restarts, draining, stopping, last>>
    BY <1>9 DEF Lifecycle!SignalChild
  <2>2. LifeType' /\ BackstopIsArmed' /\ StopReachesTheChild'
    BY <1>1, <2>1, LifeConstants DEF LifeType, BackstopIsArmed, StopReachesTheChild
  <2> QED  BY <2>1, <2>2, WrapperUntouched, LastUntouched DEF LifeInv
<1>10. CASE Lifecycle!SignalWrapper(TRUE) \/ Lifecycle!SignalWrapper(FALSE)
  BY <1>10, SignalKeeps
<1>11. ASSUME NEW c \in Conns, Lifecycle!Connect(c) \/ Lifecycle!Answer(c) \/ Lifecycle!Leave(c) \/ Lifecycle!HandlerEnds(c)
       PROVE  LifeInv'
  <2>1. UNCHANGED <<wrapper, restartTimes, relaunch, child, pending, forceTimer, restarts, draining, stopping, last>>
    BY <1>11 DEF Lifecycle!Connect, Lifecycle!Answer, Lifecycle!Leave, Lifecycle!HandlerEnds, Lifecycle!Connection
  <2>2. LifeType' /\ BackstopIsArmed' /\ StopReachesTheChild'
    BY <1>1, <2>1 DEF LifeType, BackstopIsArmed, StopReachesTheChild
  <2> QED  BY <2>1, <2>2, WrapperUntouched, LastUntouched DEF LifeInv
<1> QED  BY <1>2, <1>3, <1>4, <1>5, <1>6, <1>7, <1>8, <1>9, <1>10, <1>11 DEF Lifecycle!LifeNext

LEMMA LifeMeans ==
    LifeInv => Lifecycle!LifeKeepsItsWord
<1> SUFFICES ASSUME LifeInv PROVE Lifecycle!LifeKeepsItsWord
  OBVIOUS
<1>1. Lifecycle!DrainIsBounded
  BY LifeConstants DEF LifeInv, LifeType, StopReachesTheChild, Lifecycle!DrainIsBounded
<1>2. Lifecycle!LoopsEnd
  <2>1. restarts \in Ages /\ Len(restarts) <= MAX_RESTARTS /\ Len(restarts) \in Nat
    BY DEF LifeInv, LifeType, NothingIsForgotten, Ages
  <2>2. Cardinality({i \in DOMAIN restarts : restarts[i] <= WINDOW}) <= MAX_RESTARTS
    BY <2>1, FreshAreFew, LifeConstants
  <2> QED  BY <2>2, LifeCardinality DEF Lifecycle!LoopsEnd
<1> QED  BY <1>1, <1>2 DEF LifeInv, Lifecycle!LifeKeepsItsWord

-----------------------------------------------------------------------------
(* Backup: a run's steps, one after the other.                             *)

LEMMA TwoAndMore ==
    ASSUME NEW a, NEW b, NEW c, NEW d, NEW e
    PROVE  <<a, b>> \o <<c, d>> = <<a, b, c, d>>
           /\ <<a, b>> \o <<e>> = <<a, b, e>>
<1>1. <<a, b>> \o <<c, d>> = <<a, b, c, d>>
  <2> DEFINE s == <<a, b>>  t == <<c, d>>  st == s \o t
  <2>1. s \in Seq({a, b, c, d}) /\ t \in Seq({a, b, c, d}) /\ Len(s) = 2 /\ Len(t) = 2
    OBVIOUS
  <2>2. st \in Seq({a, b, c, d}) /\ Len(st) = 4
    BY <2>1
  <2>3. st[1] = a /\ st[2] = b /\ st[3] = c /\ st[4] = d
    BY <2>1
  <2> HIDE DEF st
  <2>4. st = <<a, b, c, d>>
    BY <2>2, <2>3
  <2> QED  BY <2>4 DEF st
<1>2. <<a, b>> \o <<e>> = <<a, b, e>>
  <2> DEFINE s == <<a, b>>  t == <<e>>  st == s \o t
  <2>1. s \in Seq({a, b, e}) /\ t \in Seq({a, b, e}) /\ Len(s) = 2 /\ Len(t) = 1
    OBVIOUS
  <2>2. st \in Seq({a, b, e}) /\ Len(st) = 3
    BY <2>1
  <2>3. st[1] = a /\ st[2] = b /\ st[3] = e
    BY <2>1
  <2> HIDE DEF st
  <2>4. st = <<a, b, e>>
    BY <2>2, <2>3
  <2> QED  BY <2>4 DEF st
<1> QED  BY <1>1, <1>2

LEMMA FullSteps ==
    /\ Backup!Steps("default") \o <<"prune">> = <<"mkdir", "backup", "uploads", "thumbs", "prune">>
    /\ Backup!Steps("db-only") \o <<"prune">> = <<"mkdir", "backup", "prune">>
    /\ Backup!Steps("photos-only") \o <<"prune">> = <<"uploads", "thumbs", "prune">>
    /\ Head(Backup!Steps("default")) = "mkdir" /\ Head(Backup!Steps("db-only")) = "mkdir"
    /\ Head(Backup!Steps("photos-only")) = "uploads"
<1>1. Backup!Steps("default") = <<"mkdir", "backup">> \o <<"uploads", "thumbs">>
  BY DEF Backup!Steps
<1>2. Backup!Steps("default") = <<"mkdir", "backup", "uploads", "thumbs">>
  BY <1>1, TwoAndMore
<1>3. Backup!Steps("db-only") = <<"mkdir", "backup">>
  BY DEF Backup!Steps
<1>4. Backup!Steps("photos-only") = <<"uploads", "thumbs">>
  BY DEF Backup!Steps
<1>5. Backup!Steps("default") \o <<"prune">> = <<"mkdir", "backup", "uploads", "thumbs", "prune">>
  <2>1. <<"mkdir", "backup", "uploads", "thumbs">> \o <<"prune">>
        = <<"mkdir", "backup", "uploads", "thumbs", "prune">>
    <3> DEFINE s == <<"mkdir", "backup", "uploads", "thumbs">>  t == <<"prune">>  st == s \o t
    <3>1. s \in Seq({"mkdir", "backup", "uploads", "thumbs", "prune"})
          /\ t \in Seq({"mkdir", "backup", "uploads", "thumbs", "prune"}) /\ Len(s) = 4 /\ Len(t) = 1
      OBVIOUS
    <3>2. st \in Seq({"mkdir", "backup", "uploads", "thumbs", "prune"}) /\ Len(st) = 5
      BY <3>1
    <3>3. st[1] = "mkdir" /\ st[2] = "backup" /\ st[3] = "uploads" /\ st[4] = "thumbs" /\ st[5] = "prune"
      BY <3>1
    <3> HIDE DEF st
    <3>4. st = <<"mkdir", "backup", "uploads", "thumbs", "prune">>
      BY <3>2, <3>3
    <3> QED  BY <3>4 DEF st
  <2> QED  BY <1>2, <2>1, Zenon
<1>6. Backup!Steps("db-only") \o <<"prune">> = <<"mkdir", "backup", "prune">>
  BY <1>3, TwoAndMore
<1>7. Backup!Steps("photos-only") \o <<"prune">> = <<"uploads", "thumbs", "prune">>
  BY <1>4, TwoAndMore
<1> QED  BY <1>2, <1>3, <1>4, <1>5, <1>6, <1>7

LEMMA StepAfter ==
    ASSUME NEW steps, NEW n \in Nat, DOMAIN steps = 1 .. n, Len(steps) = n, NEW i \in 1 .. n,
           \A j \in 1 .. n : steps[j] = steps[i] => j = i
    PROVE  steps[1 + CHOOSE j \in 1 .. Len(steps) : steps[j] = steps[i]] = steps[i + 1]
<1>1. (CHOOSE j \in 1 .. Len(steps) : steps[j] = steps[i]) = i
  OBVIOUS
<1> QED  BY <1>1

LEMMA RunGoesOn ==
    /\ run.mode = "default" => /\ Backup!After("mkdir") = "backup" /\ Backup!After("backup") = "uploads"
                               /\ Backup!After("uploads") = "thumbs" /\ Backup!After("thumbs") = "prune"
    /\ run.mode = "db-only" => Backup!After("mkdir") = "backup" /\ Backup!After("backup") = "prune"
    /\ run.mode = "photos-only" => Backup!After("uploads") = "thumbs" /\ Backup!After("thumbs") = "prune"
<1> DEFINE steps == Backup!Steps(run.mode) \o <<"prune">>
<1>1. \A s : Backup!After(s) = steps[1 + CHOOSE i \in 1 .. Len(steps) : steps[i] = s]
  BY DEF Backup!After
<1>2. ASSUME run.mode = "default"
      PROVE  /\ Backup!After("mkdir") = "backup" /\ Backup!After("backup") = "uploads"
             /\ Backup!After("uploads") = "thumbs" /\ Backup!After("thumbs") = "prune"
  <2>1. steps = <<"mkdir", "backup", "uploads", "thumbs", "prune">>
    BY <1>2, FullSteps
  <2> HIDE DEF steps
  <2>2. DOMAIN steps = 1 .. 5 /\ Len(steps) = 5
    BY <2>1
  <2>3. ASSUME NEW i \in 1 .. 5 PROVE Backup!After(steps[i]) = steps[i + 1]
    <3>1. \A j \in 1 .. 5 : steps[j] = steps[i] => j = i
      BY <2>1
    <3>2. steps[1 + CHOOSE j \in 1 .. Len(steps) : steps[j] = steps[i]] = steps[i + 1]
      BY <2>2, <3>1, StepAfter
    <3> QED  BY <1>1, <3>2
  <2>4. Backup!After(steps[1]) = steps[2] /\ Backup!After(steps[2]) = steps[3]
        /\ Backup!After(steps[3]) = steps[4] /\ Backup!After(steps[4]) = steps[5]
    BY <2>3
  <2> QED  BY <2>1, <2>4
<1>3. ASSUME run.mode = "db-only"
      PROVE  Backup!After("mkdir") = "backup" /\ Backup!After("backup") = "prune"
  <2>1. steps = <<"mkdir", "backup", "prune">>
    BY <1>3, FullSteps
  <2> HIDE DEF steps
  <2>2. DOMAIN steps = 1 .. 3 /\ Len(steps) = 3
    BY <2>1
  <2>3. ASSUME NEW i \in 1 .. 3 PROVE Backup!After(steps[i]) = steps[i + 1]
    <3>1. \A j \in 1 .. 3 : steps[j] = steps[i] => j = i
      BY <2>1
    <3>2. steps[1 + CHOOSE j \in 1 .. Len(steps) : steps[j] = steps[i]] = steps[i + 1]
      BY <2>2, <3>1, StepAfter
    <3> QED  BY <1>1, <3>2
  <2>4. Backup!After(steps[1]) = steps[2] /\ Backup!After(steps[2]) = steps[3]
    BY <2>3
  <2> QED  BY <2>1, <2>4
<1>4. ASSUME run.mode = "photos-only"
      PROVE  Backup!After("uploads") = "thumbs" /\ Backup!After("thumbs") = "prune"
  <2>1. steps = <<"uploads", "thumbs", "prune">>
    BY <1>4, FullSteps
  <2> HIDE DEF steps
  <2>2. DOMAIN steps = 1 .. 3 /\ Len(steps) = 3
    BY <2>1
  <2>3. ASSUME NEW i \in 1 .. 3 PROVE Backup!After(steps[i]) = steps[i + 1]
    <3>1. \A j \in 1 .. 3 : steps[j] = steps[i] => j = i
      BY <2>1
    <3>2. steps[1 + CHOOSE j \in 1 .. Len(steps) : steps[j] = steps[i]] = steps[i + 1]
      BY <2>2, <3>1, StepAfter
    <3> QED  BY <1>1, <3>2
  <2>4. Backup!After(steps[1]) = steps[2] /\ Backup!After(steps[2]) = steps[3]
    BY <2>3
  <2> QED  BY <2>1, <2>4
<1> QED  BY <1>2, <1>3, <1>4

-----------------------------------------------------------------------------
(* Backup: a snapshot has its photos, and one is always kept.              *)

States == {"absent", "half", "whole", "gone"}
Snapshots == [whole : BOOLEAN, rows : SUBSET Photos, photos : BOOLEAN]

BackupType ==
    /\ files \in [Backup!Files -> States]
    /\ store \in [Backup!Files -> {"absent", "half", "whole"}]
    /\ rows \subseteq Photos
    /\ snapshots \in Seq(Snapshots)
    /\ run \in [mode : {"none", "db-only", "photos-only", "default"},
                step : {"idle", "mkdir", "backup", "uploads", "thumbs", "copy", "prune"},
                names : SUBSET Backup!Files]

\* What a run of each mode may be at, and when it has names to copy.
RunIsInStep ==
    /\ run.mode = "none" => run.step = "idle"
    /\ run.mode = "db-only" => run.step \in {"mkdir", "backup", "prune"}
    /\ run.mode = "photos-only" => run.step \in {"uploads", "thumbs", "copy", "prune"}
    /\ run.mode = "default" => run.step # "idle"
    /\ run.step # "copy" => run.names = {}

\* A row comes after its files, in the live database and in every copy of it.
RowsAreWritten ==
    /\ \A f \in run.names : files[f] # "absent"
    /\ \A p \in rows, d \in Backup!Directories : files[<<p, d>>] \in {"whole", "gone"}
    /\ \A i \in 1 .. Len(snapshots) : \A p \in snapshots[i].rows, d \in Backup!Directories :
        files[<<p, d>>] \in {"whole", "gone"}

\* The newest directory is that of the run going on, which has not marked it.
NewestIsOfTheRun ==
    run.mode \in {"default", "db-only"} /\ run.step # "mkdir" =>
        /\ Len(snapshots) > 0 /\ ~snapshots[Len(snapshots)].photos
        /\ run.step # "backup" => snapshots[Len(snapshots)].whole

\* Of the newest snapshot's photos the files of a directory are stored, deleted,
\* or about to be copied.
Stored(d) ==
    \A p \in snapshots[Len(snapshots)].rows :
        store[<<p, d>>] # "absent" \/ files[<<p, d>>] = "gone" \/ <<p, d>> \in run.names

\* The directories are listed after the rows are copied.
RowsBeforePhotos ==
    run.mode = "default" =>
        /\ run.step \in {"copy", "thumbs", "prune"} => Stored("uploads")
        /\ run.step = "prune" => Stored("thumbs")
        /\ \A f \in run.names : f[2] = "thumbs" => Stored("thumbs")

MarkedHaveTheirPhotos ==
    \A i \in 1 .. Len(snapshots) : snapshots[i].photos =>
        \A p \in snapshots[i].rows, d \in Backup!Directories :
            store[<<p, d>>] # "absent" \/ files[<<p, d>>] = "gone"

SomeIsWhole == safe => \E i \in 1 .. Len(snapshots) : snapshots[i].whole

BackupInv ==
    /\ BackupType /\ RunIsInStep /\ RowsAreWritten /\ NewestIsOfTheRun /\ RowsBeforePhotos
    /\ MarkedHaveTheirPhotos /\ SomeIsWhole

LEMMA BackupMeans ==
    BackupInv => Backup!SnapshotHasItsPhotos /\ Backup!SnapshotSurvives
<1> SUFFICES ASSUME BackupInv PROVE Backup!SnapshotHasItsPhotos /\ Backup!SnapshotSurvives
  OBVIOUS
<1>1. DOMAIN snapshots = 1 .. Len(snapshots)
  BY DEF BackupInv, BackupType
<1>2. \A s : s \in Backup!Range(snapshots) <=> \E i \in 1 .. Len(snapshots) : s = snapshots[i]
  BY <1>1 DEF Backup!Range
<1>3. Backup!SnapshotSurvives
  BY <1>2 DEF BackupInv, SomeIsWhole, Backup!SnapshotSurvives
<1>4. ASSUME NEW s \in Backup!Range(snapshots), s.photos, NEW f \in Backup!Files, f[1] \in s.rows
      PROVE  store[f] # "absent" \/ files[f] = "gone"
  <2>1. f[2] \in Backup!Directories /\ f = <<f[1], f[2]>>
    BY DEF Backup!Files
  <2>2. PICK i \in 1 .. Len(snapshots) : s = snapshots[i]
    BY <1>2, <1>4
  <2>3. store[<<f[1], f[2]>>] # "absent" \/ files[<<f[1], f[2]>>] = "gone"
    BY <1>4, <2>1, <2>2 DEF BackupInv, MarkedHaveTheirPhotos
  <2> QED  BY <2>1, <2>3
<1> QED  BY <1>3, <1>4 DEF Backup!SnapshotHasItsPhotos

LEMMA BackupStart ==
    ASSUME Backup!BackupInit
    PROVE  BackupInv
<1>1. /\ files = [f \in Backup!Files |-> "absent"] /\ rows = {} /\ store = [f \in Backup!Files |-> "absent"]
      /\ snapshots = << >> /\ safe = FALSE
      /\ run = [mode |-> "none", step |-> "idle", names |-> {}]
  BY DEF Backup!BackupInit, Backup!Idle
<1>2. Len(snapshots) = 0 /\ 1 .. Len(snapshots) = {} /\ snapshots \in Seq(Snapshots)
  BY <1>1
<1>3. BackupType
  BY <1>1, <1>2 DEF BackupType, States
<1> QED  BY <1>1, <1>2, <1>3 DEF BackupInv, RunIsInStep, RowsAreWritten, NewestIsOfTheRun, RowsBeforePhotos,
              MarkedHaveTheirPhotos, SomeIsWhole

\* A file is written and then deleted, and never comes back.
LEMMA FilesGoOn ==
    ASSUME BackupType, NEW f \in Backup!Files, Backup!Write(f) \/ Backup!Unlink(f)
    PROVE  /\ files' \in [Backup!Files -> States]
           /\ \A g \in Backup!Files : /\ files[g] \in {"whole", "gone"} => files'[g] \in {"whole", "gone"}
                                      /\ files[g] = "gone" => files'[g] = "gone"
                                      /\ files[g] # "absent" => files'[g] # "absent"
           /\ UNCHANGED <<rows, store, snapshots, run, safe>>
<1>1. files \in [Backup!Files -> States]
  BY DEF BackupType
<1>2. CASE Backup!Write(f)
  <2>1. /\ \/ files[f] = "absent" /\ files' = [files EXCEPT ![f] = "half"]
           \/ files[f] = "half" /\ files' = [files EXCEPT ![f] = "whole"]
        /\ UNCHANGED <<rows, store, snapshots, run, safe>>
    BY <1>2 DEF Backup!Write
  <2> QED  BY <1>1, <2>1 DEF States
<1>3. CASE Backup!Unlink(f)
  <2>1. files[f] = "whole" /\ files' = [files EXCEPT ![f] = "gone"] /\ UNCHANGED <<rows, store, snapshots, run, safe>>
    BY <1>3 DEF Backup!Unlink
  <2> QED  BY <1>1, <2>1 DEF States
<1> QED  BY <1>2, <1>3

LEMMA FileOf ==
    \A p \in Photos, d \in Backup!Directories : <<p, d>> \in Backup!Files
<1> QED  BY DEF Backup!Files

\* Who is in a copy of the rows is a photo.
LEMMA CopiedArePhotos ==
    ASSUME BackupType, NEW i \in 1 .. Len(snapshots)
    PROVE  snapshots[i] \in Snapshots /\ snapshots[i].rows \subseteq Photos
<1>1. snapshots[i] \in Snapshots
  BY ElementOfSeq DEF BackupType
<1> QED  BY <1>1 DEF Snapshots

\* What the invariant says goes on while files and the store only go forward and
\* the snapshots and the run rest.
LEMMA ForwardKeeps ==
    ASSUME BackupInv,
           files' \in [Backup!Files -> States],
           \A g \in Backup!Files : /\ files[g] \in {"whole", "gone"} => files'[g] \in {"whole", "gone"}
                                   /\ files[g] = "gone" => files'[g] = "gone"
                                   /\ files[g] # "absent" => files'[g] # "absent",
           store' \in [Backup!Files -> {"absent", "half", "whole"}],
           \A g \in Backup!Files : store[g] # "absent" => store'[g] # "absent",
           UNCHANGED snapshots
    PROVE  /\ \A i \in 1 .. Len(snapshots') : \A p \in snapshots'[i].rows, d \in Backup!Directories :
                files'[<<p, d>>] \in {"whole", "gone"}
           /\ MarkedHaveTheirPhotos'
           /\ \A d \in Backup!Directories :
                Stored(d) /\ Len(snapshots) > 0
                /\ (\A f \in run.names : f \in run'.names \/ store'[f] # "absent" \/ files'[f] = "gone")
                    => Stored(d)'
<1>1. \A i \in 1 .. Len(snapshots) : \A p \in snapshots[i].rows, d \in Backup!Directories :
        <<p, d>> \in Backup!Files
  BY CopiedArePhotos, FileOf DEF BackupInv
<1>2. \A i \in 1 .. Len(snapshots') : \A p \in snapshots'[i].rows, d \in Backup!Directories :
        files'[<<p, d>>] \in {"whole", "gone"}
  BY <1>1 DEF BackupInv, RowsAreWritten
<1>3. MarkedHaveTheirPhotos'
  BY <1>1 DEF BackupInv, MarkedHaveTheirPhotos
<1>4. ASSUME NEW d \in Backup!Directories, Stored(d), Len(snapshots) > 0,
             \A f \in run.names : f \in run'.names \/ store'[f] # "absent" \/ files'[f] = "gone"
      PROVE  Stored(d)'
  <2>1. Len(snapshots) \in 1 .. Len(snapshots)
    BY <1>4 DEF BackupInv, BackupType
  <2>2. \A p \in snapshots[Len(snapshots)].rows : <<p, d>> \in Backup!Files
    BY <1>1, <2>1
  <2>3. ASSUME NEW p \in snapshots[Len(snapshots)].rows
        PROVE  store'[<<p, d>>] # "absent" \/ files'[<<p, d>>] = "gone" \/ <<p, d>> \in run'.names
    BY <1>4, <2>2 DEF Stored
  <2> QED  BY <2>3 DEF Stored
<1> QED  BY <1>2, <1>3, <1>4

LEMMA FilesKeep ==
    ASSUME BackupInv, NEW f \in Backup!Files, Backup!Write(f) \/ Backup!Unlink(f)
    PROVE  BackupInv'
<1>1. /\ files' \in [Backup!Files -> States]
      /\ \A g \in Backup!Files : /\ files[g] \in {"whole", "gone"} => files'[g] \in {"whole", "gone"}
                                 /\ files[g] = "gone" => files'[g] = "gone"
                                 /\ files[g] # "absent" => files'[g] # "absent"
      /\ UNCHANGED <<rows, store, snapshots, run, safe>>
  BY FilesGoOn DEF BackupInv
<1>2. BackupType'
  BY <1>1 DEF BackupInv, BackupType
<1>3. RunIsInStep' /\ NewestIsOfTheRun' /\ SomeIsWhole'
  BY <1>1 DEF BackupInv, RunIsInStep, NewestIsOfTheRun, SomeIsWhole
<1>4. /\ \A i \in 1 .. Len(snapshots') : \A p \in snapshots'[i].rows, d \in Backup!Directories :
            files'[<<p, d>>] \in {"whole", "gone"}
      /\ MarkedHaveTheirPhotos'
      /\ \A d \in Backup!Directories : Stored(d) /\ Len(snapshots) > 0 => Stored(d)'
  <2>1. store' \in [Backup!Files -> {"absent", "half", "whole"}]
    BY <1>1 DEF BackupInv, BackupType
  <2> QED  BY <1>1, <2>1, ForwardKeeps
<1>5. RowsAreWritten'
  <2>1. \A g \in run'.names : files'[g] # "absent"
    BY <1>1 DEF BackupInv, BackupType, RowsAreWritten
  <2>2. \A p \in rows', d \in Backup!Directories : files'[<<p, d>>] \in {"whole", "gone"}
    BY <1>1, FileOf DEF BackupInv, BackupType, RowsAreWritten
  <2> QED  BY <1>4, <2>1, <2>2 DEF RowsAreWritten
<1>6. RowsBeforePhotos'
  <2>1. Len(snapshots) > 0 \/ run.mode # "default" \/ run.step = "mkdir"
    BY DEF BackupInv, NewestIsOfTheRun
  <2>2. run.step = "mkdir" => run.names = {}
    BY DEF BackupInv, RunIsInStep
  <2> QED  BY <1>1, <1>4, <2>1, <2>2 DEF BackupInv, RowsBeforePhotos, Backup!Directories
<1> QED  BY <1>2, <1>3, <1>4, <1>5, <1>6 DEF BackupInv

\* The rows change: each row there was, or one whose files are written.
LEMMA RowsKeep ==
    ASSUME BackupInv, NEW p \in Photos, NEW q \in Photos,
           Backup!Insert(p) \/ Backup!DeleteRow(p) \/ Backup!Replace(p, q)
    PROVE  BackupInv'
<1>1. /\ UNCHANGED <<files, store, snapshots, run, safe>> /\ rows' \subseteq Photos
      /\ \A r \in rows' : r \in rows \/ \A d \in Backup!Directories : files[<<r, d>>] = "whole"
  BY DEF BackupInv, BackupType, Backup!Insert, Backup!DeleteRow, Backup!Replace
<1>2. BackupType'
  BY <1>1 DEF BackupInv, BackupType
<1>3. RunIsInStep' /\ NewestIsOfTheRun' /\ RowsBeforePhotos' /\ MarkedHaveTheirPhotos' /\ SomeIsWhole'
  BY <1>1 DEF BackupInv, RunIsInStep, NewestIsOfTheRun, RowsBeforePhotos, MarkedHaveTheirPhotos, SomeIsWhole,
     Stored
<1>4. RowsAreWritten'
  BY <1>1 DEF BackupInv, RowsAreWritten
<1> QED  BY <1>2, <1>3, <1>4 DEF BackupInv

LEMMA StartKeeps ==
    ASSUME BackupInv, NEW mode \in Backup!Modes, Backup!Start(mode)
    PROVE  BackupInv'
<1>1. /\ run' = [mode |-> mode, step |-> Head(Backup!Steps(mode)), names |-> {}]
      /\ UNCHANGED <<files, rows, store, snapshots, safe>>
  BY DEF Backup!Start
<1>2. run'.mode = mode /\ run'.names = {}
      /\ run'.step = IF mode = "photos-only" THEN "uploads" ELSE "mkdir"
  BY <1>1, FullSteps DEF Backup!Modes
<1>3. BackupType'
  BY <1>1, <1>2 DEF BackupInv, BackupType, Backup!Modes
<1>4. RunIsInStep' /\ NewestIsOfTheRun' /\ RowsBeforePhotos'
  BY <1>2 DEF RunIsInStep, NewestIsOfTheRun, RowsBeforePhotos, Backup!Modes
<1>5. MarkedHaveTheirPhotos' /\ SomeIsWhole' /\ RowsAreWritten'
  BY <1>1, <1>2 DEF BackupInv, MarkedHaveTheirPhotos, SomeIsWhole, RowsAreWritten
<1> QED  BY <1>3, <1>4, <1>5 DEF BackupInv

\* A run that ended, killed or done, holds the rest to nothing.
LEMMA IdleKeeps ==
    ASSUME BackupType', RowsAreWritten', MarkedHaveTheirPhotos', SomeIsWhole', run' = Backup!Idle
    PROVE  BackupInv'
<1>1. run'.mode = "none" /\ run'.step = "idle" /\ run'.names = {}
  BY DEF Backup!Idle
<1>2. RunIsInStep' /\ NewestIsOfTheRun' /\ RowsBeforePhotos'
  BY <1>1 DEF RunIsInStep, NewestIsOfTheRun, RowsBeforePhotos
<1> QED  BY <1>2 DEF BackupInv

LEMMA KilledKeeps ==
    ASSUME BackupInv, Backup!Killed
    PROVE  BackupInv'
<1>1. run' = Backup!Idle /\ UNCHANGED <<files, rows, store, snapshots, safe>>
  BY DEF Backup!Killed
<1>2. BackupType'
  BY <1>1 DEF BackupInv, BackupType, Backup!Idle
<1>3. MarkedHaveTheirPhotos' /\ SomeIsWhole' /\ RowsAreWritten'
  BY <1>1 DEF BackupInv, MarkedHaveTheirPhotos, SomeIsWhole, RowsAreWritten, Backup!Idle
<1> QED  BY <1>1, <1>2, <1>3, IdleKeeps

\* An empty directory is the newest.
LEMMA MakeDirectoryKeeps ==
    ASSUME BackupInv, Backup!MakeDirectory
    PROVE  BackupInv'
<1> DEFINE empty == [whole |-> FALSE, rows |-> {}, photos |-> FALSE]
<1>1. /\ run.step = "mkdir" /\ snapshots' = Append(snapshots, empty)
      /\ run' = [run EXCEPT !.step = Backup!After("mkdir")]
      /\ UNCHANGED <<files, rows, store, safe>>
  BY DEF Backup!MakeDirectory
<1>2. run.mode \in {"default", "db-only"} /\ Backup!After("mkdir") = "backup"
  <2>1. run.mode \in {"default", "db-only"}
    BY <1>1 DEF BackupInv, BackupType, RunIsInStep
  <2> QED  BY <2>1, RunGoesOn
<1>3. run'.mode = run.mode /\ run'.step = "backup" /\ run'.names = {}
      /\ run' \in [mode : {"none", "db-only", "photos-only", "default"},
                   step : {"idle", "mkdir", "backup", "uploads", "thumbs", "copy", "prune"},
                   names : SUBSET Backup!Files]
  <2>1. run.names = {}
    BY <1>1 DEF BackupInv, RunIsInStep
  <2> QED  BY <1>1, <1>2, <2>1 DEF BackupInv, BackupType
<1>4. /\ snapshots' \in Seq(Snapshots) /\ Len(snapshots) \in Nat /\ Len(snapshots') = Len(snapshots) + 1
      /\ snapshots'[Len(snapshots')] = empty
      /\ \A i \in 1 .. Len(snapshots) : i \in 1 .. Len(snapshots') /\ snapshots'[i] = snapshots[i]
      /\ \A i \in 1 .. Len(snapshots') : i \in 1 .. Len(snapshots) \/ snapshots'[i] = empty
  <2>1. empty \in Snapshots /\ snapshots \in Seq(Snapshots)
    BY DEF Snapshots, BackupInv, BackupType
  <2> HIDE DEF empty
  <2> QED  BY <1>1, <2>1
<1>5. ~empty.whole /\ empty.rows = {} /\ ~empty.photos
  OBVIOUS
<1> HIDE DEF empty
<1>6. BackupType'
  BY <1>1, <1>3, <1>4 DEF BackupInv, BackupType
<1>7. RunIsInStep'
  BY <1>2, <1>3 DEF RunIsInStep
<1>8. RowsAreWritten'
  BY <1>1, <1>3, <1>4, <1>5 DEF BackupInv, RowsAreWritten
<1>9. NewestIsOfTheRun' /\ RowsBeforePhotos'
  BY <1>3, <1>4, <1>5 DEF NewestIsOfTheRun, RowsBeforePhotos
<1>10. MarkedHaveTheirPhotos' /\ SomeIsWhole'
  BY <1>1, <1>4, <1>5 DEF BackupInv, MarkedHaveTheirPhotos, SomeIsWhole
<1> QED  BY <1>6, <1>7, <1>8, <1>9, <1>10 DEF BackupInv

\* The newest becomes whole, with the rows there are.
LEMMA DatabaseKeeps ==
    ASSUME BackupInv, Backup!backupDatabase
    PROVE  BackupInv'
<1> DEFINE n == Len(snapshots)
           taken == [snapshots[n] EXCEPT !.whole = TRUE, !.rows = rows]
<1>1. /\ run.step = "backup"
      /\ snapshots' = [snapshots EXCEPT ![Len(snapshots)].whole = TRUE, ![Len(snapshots)].rows = rows]
      /\ run' = [run EXCEPT !.step = Backup!After("backup")] /\ safe' = TRUE
      /\ UNCHANGED <<files, rows, store>>
  BY DEF Backup!backupDatabase
<1>2. run.mode \in {"default", "db-only"} /\ n > 0 /\ n \in Nat /\ ~snapshots[n].photos /\ run.names = {}
      /\ Backup!After("backup") = IF run.mode = "default" THEN "uploads" ELSE "prune"
  <2>1. run.mode \in {"default", "db-only"}
    BY <1>1 DEF BackupInv, BackupType, RunIsInStep
  <2>2. n > 0 /\ ~snapshots[n].photos
    BY <1>1, <2>1 DEF BackupInv, NewestIsOfTheRun
  <2>3. run.names = {}
    BY <1>1 DEF BackupInv, RunIsInStep
  <2>4. n \in Nat
    BY DEF BackupInv, BackupType
  <2> QED  BY <2>1, <2>2, <2>3, <2>4, RunGoesOn
<1>3. snapshots[n] \in Snapshots /\ taken \in Snapshots /\ taken.whole /\ taken.rows = rows /\ ~taken.photos
  <2>1. snapshots[n] \in Snapshots
    BY <1>2, CopiedArePhotos DEF BackupInv
  <2> QED  BY <1>2, <2>1 DEF Snapshots, BackupInv, BackupType
<1>4. /\ snapshots' \in Seq(Snapshots) /\ Len(snapshots') = n /\ snapshots'[n] = taken
      /\ \A i \in 1 .. n : i # n => snapshots'[i] = snapshots[i]
  <2>1. snapshots' = [snapshots EXCEPT ![n] = taken]
    BY <1>1
  <2>2. snapshots \in Seq(Snapshots) /\ n \in 1 .. Len(snapshots)
    BY <1>2 DEF BackupInv, BackupType
  <2> HIDE DEF taken
  <2> QED  BY <1>3, <2>1, <2>2
<1> HIDE DEF taken
<1>5. run'.mode = run.mode /\ run'.names = {}
      /\ run'.step = (IF run.mode = "default" THEN "uploads" ELSE "prune")
      /\ run' \in [mode : {"none", "db-only", "photos-only", "default"},
                   step : {"idle", "mkdir", "backup", "uploads", "thumbs", "copy", "prune"},
                   names : SUBSET Backup!Files]
  BY <1>1, <1>2 DEF BackupInv, BackupType
<1> HIDE DEF n
<1>6. BackupType'
  BY <1>1, <1>4, <1>5 DEF BackupInv, BackupType
<1>7. RunIsInStep'
  BY <1>2, <1>5 DEF RunIsInStep
<1>8. RowsAreWritten'
  <2>1. \A i \in 1 .. n : \A p \in snapshots[i].rows, d \in Backup!Directories :
            files[<<p, d>>] \in {"whole", "gone"}
    BY DEF BackupInv, RowsAreWritten, n
  <2>2. \A i \in 1 .. n : \A p \in snapshots'[i].rows, d \in Backup!Directories :
            files'[<<p, d>>] \in {"whole", "gone"}
    <3> SUFFICES ASSUME NEW i \in 1 .. n
                 PROVE  \A p \in snapshots'[i].rows, d \in Backup!Directories :
                            files'[<<p, d>>] \in {"whole", "gone"}
      OBVIOUS
    <3>1. CASE i = n
      BY <1>1, <1>3, <1>4, <3>1 DEF BackupInv, RowsAreWritten
    <3>2. CASE i # n
      BY <1>1, <1>4, <2>1, <3>2
    <3> QED  BY <3>1, <3>2
  <2>3. \A f \in run'.names : files'[f] # "absent"
    BY <1>5
  <2>4. \A p \in rows', d \in Backup!Directories : files'[<<p, d>>] \in {"whole", "gone"}
    BY <1>1 DEF BackupInv, RowsAreWritten
  <2> QED  BY <1>4, <2>2, <2>3, <2>4 DEF RowsAreWritten
<1>9. NewestIsOfTheRun' /\ RowsBeforePhotos'
  BY <1>2, <1>3, <1>4, <1>5 DEF NewestIsOfTheRun, RowsBeforePhotos
<1>10. MarkedHaveTheirPhotos'
  <2>1. \A i \in 1 .. n : snapshots[i].photos => \A p \in snapshots[i].rows, d \in Backup!Directories :
            store[<<p, d>>] # "absent" \/ files[<<p, d>>] = "gone"
    BY DEF BackupInv, MarkedHaveTheirPhotos, n
  <2>2. \A i \in 1 .. n : snapshots'[i].photos => i # n /\ snapshots'[i] = snapshots[i]
    BY <1>3, <1>4
  <2> QED  BY <1>1, <1>4, <2>1, <2>2 DEF MarkedHaveTheirPhotos
<1>11. SomeIsWhole'
  BY <1>2, <1>3, <1>4 DEF SomeIsWhole
<1> QED  BY <1>6, <1>7, <1>8, <1>9, <1>10, <1>11 DEF BackupInv

\* A directory is listed: what its newest snapshot's photos lack is to be copied.
LEMMA ListKeeps ==
    ASSUME BackupInv, NEW d \in Backup!Directories, Backup!ListNew(d)
    PROVE  BackupInv'
<1> DEFINE new == Backup!newFileNames(d)
<1>1. /\ run.step = d
      /\ run' = IF new = {} THEN [run EXCEPT !.step = Backup!After(d)]
                ELSE [run EXCEPT !.step = "copy", !.names = new]
      /\ UNCHANGED <<files, rows, store, snapshots, safe>>
  BY DEF Backup!ListNew
<1>2. \A f : f \in new <=> /\ f \in Backup!Files /\ f[2] = d /\ files[f] \in {"half", "whole"}
                           /\ store[f] \notin {"half", "whole"}
  BY DEF Backup!newFileNames, Backup!Present
<1>3. new \subseteq Backup!Files
  BY <1>2
<1> HIDE DEF new
<1>4. run.mode \in {"default", "photos-only"} /\ run.names = {} /\ d \in {"uploads", "thumbs"}
      /\ Backup!After(d) = IF d = "uploads" THEN "thumbs" ELSE "prune"
  <2>1. d \in {"uploads", "thumbs"}
    BY DEF Backup!Directories
  <2>2. run.mode \in {"default", "photos-only"} /\ run.names = {}
    BY <1>1, <2>1 DEF BackupInv, BackupType, RunIsInStep
  <2> QED  BY <2>1, <2>2, RunGoesOn
<1>5. /\ run'.mode = run.mode /\ run'.names = new
      /\ run'.step = IF new # {} THEN "copy" ELSE IF d = "uploads" THEN "thumbs" ELSE "prune"
      /\ run' \in [mode : {"none", "db-only", "photos-only", "default"},
                   step : {"idle", "mkdir", "backup", "uploads", "thumbs", "copy", "prune"},
                   names : SUBSET Backup!Files]
  BY <1>1, <1>3, <1>4 DEF BackupInv, BackupType
<1>6. BackupType'
  BY <1>1, <1>5 DEF BackupInv, BackupType
<1>7. RunIsInStep'
  BY <1>4, <1>5 DEF RunIsInStep
<1>8. RowsAreWritten'
  BY <1>1, <1>2, <1>5 DEF BackupInv, RowsAreWritten
<1>9. NewestIsOfTheRun' /\ MarkedHaveTheirPhotos' /\ SomeIsWhole'
  <2>1. NewestIsOfTheRun'
    BY <1>1, <1>4, <1>5 DEF BackupInv, NewestIsOfTheRun
  <2> QED  BY <1>1, <2>1 DEF BackupInv, MarkedHaveTheirPhotos, SomeIsWhole
<1>10. RowsBeforePhotos'
  <2> SUFFICES ASSUME run.mode = "default" PROVE RowsBeforePhotos'
    BY <1>5 DEF RowsBeforePhotos
  <2>1. Len(snapshots) \in 1 .. Len(snapshots)
    BY <1>1, <1>4 DEF BackupInv, BackupType, NewestIsOfTheRun
  <2>2. ASSUME NEW p \in snapshots[Len(snapshots)].rows
        PROVE  store[<<p, d>>] # "absent" \/ files[<<p, d>>] = "gone" \/ <<p, d>> \in new
    <3>1. <<p, d>> \in Backup!Files /\ files[<<p, d>>] \in {"whole", "gone"}
      BY <2>1, CopiedArePhotos, FileOf DEF BackupInv, RowsAreWritten
    <3> DEFINE f == <<p, d>>
    <3>2. f[2] = d /\ store[f] \in {"absent", "half", "whole"}
      BY <3>1 DEF BackupInv, BackupType
    <3> HIDE DEF f
    <3>3. f \in new \/ files[f] = "gone" \/ store[f] # "absent"
      BY <1>2, <3>1, <3>2 DEF f
    <3> QED  BY <3>3 DEF f
  <2>3. Stored(d)'
    BY <1>1, <1>5, <2>2 DEF Stored
  <2>4. CASE d = "uploads"
    <3>1. \A f \in new : f[2] # "thumbs"
      BY <1>2, <2>4
    <3> QED  BY <1>5, <2>3, <2>4, <3>1 DEF RowsBeforePhotos
  <2>5. CASE d = "thumbs"
    <3>1. Stored("uploads")
      BY <1>1, <2>5 DEF BackupInv, RowsBeforePhotos
    <3>2. Stored("uploads")'
      BY <1>1, <1>4, <3>1 DEF Stored
    <3> QED  BY <1>5, <2>3, <2>5, <3>2 DEF RowsBeforePhotos
  <2> QED  BY <1>4, <2>4, <2>5
<1> QED  BY <1>6, <1>7, <1>8, <1>9, <1>10 DEF BackupInv

\* A file is copied: one of the names is in the store, and no longer a name.
LEMMA CopyKeeps ==
    ASSUME BackupInv, NEW f \in Backup!Files, Backup!Copy(f)
    PROVE  BackupInv'
<1>1. /\ run.step = "copy" /\ f \in run.names /\ UNCHANGED <<files, rows, snapshots, safe>>
      /\ IF files[f] = "gone" THEN run' = Backup!Idle /\ UNCHANGED store
         ELSE /\ store' = [store EXCEPT ![f] = files[f]]
              /\ run' = IF run.names = {f} THEN [run EXCEPT !.step = Backup!After(f[2]), !.names = {}]
                        ELSE [run EXCEPT !.names = @ \ {f}]
  BY DEF Backup!Copy
<1>2. files[f] # "absent" /\ files[f] \in States
      /\ store \in [Backup!Files -> {"absent", "half", "whole"}]
  BY <1>1 DEF BackupInv, BackupType, RowsAreWritten
<1>3. CASE files[f] = "gone"
  <2>1. run' = Backup!Idle /\ UNCHANGED <<files, rows, store, snapshots, safe>>
    BY <1>1, <1>3
  <2>2. BackupType'
    BY <2>1 DEF BackupInv, BackupType, Backup!Idle
  <2>3. MarkedHaveTheirPhotos' /\ SomeIsWhole' /\ RowsAreWritten'
    BY <2>1 DEF BackupInv, MarkedHaveTheirPhotos, SomeIsWhole, RowsAreWritten, Backup!Idle
  <2> QED  BY <2>1, <2>2, <2>3, IdleKeeps
<1>4. CASE files[f] # "gone"
  <2>1. /\ store' \in [Backup!Files -> {"absent", "half", "whole"}] /\ store'[f] # "absent"
        /\ \A g \in Backup!Files : store[g] # "absent" => store'[g] # "absent"
    BY <1>1, <1>2, <1>4 DEF States
  <2>2. run.mode \in {"default", "photos-only"} /\ f[2] \in {"uploads", "thumbs"}
        /\ Backup!After(f[2]) = IF f[2] = "uploads" THEN "thumbs" ELSE "prune"
    <3>1. f[2] \in {"uploads", "thumbs"}
      BY DEF Backup!Files, Backup!Directories
    <3>2. run.mode \in {"default", "photos-only"}
      BY <1>1 DEF BackupInv, BackupType, RunIsInStep
    <3> QED  BY <3>1, <3>2, RunGoesOn
  <2>3. /\ run'.mode = run.mode /\ run'.names = run.names \ {f}
        /\ run'.step = IF run.names # {f} THEN "copy" ELSE IF f[2] = "uploads" THEN "thumbs" ELSE "prune"
        /\ run' \in [mode : {"none", "db-only", "photos-only", "default"},
                     step : {"idle", "mkdir", "backup", "uploads", "thumbs", "copy", "prune"},
                     names : SUBSET Backup!Files]
    <3>1. run.names \ {f} \subseteq Backup!Files /\ (run.names = {f} => run.names \ {f} = {})
      BY DEF BackupInv, BackupType
    <3>2. CASE run.names = {f}
      BY <1>1, <1>4, <2>2, <3>1, <3>2 DEF BackupInv, BackupType
    <3>3. CASE run.names # {f}
      BY <1>1, <1>4, <3>1, <3>3 DEF BackupInv, BackupType
    <3> QED  BY <3>2, <3>3
  <2>4. /\ \A i \in 1 .. Len(snapshots') : \A p \in snapshots'[i].rows, d \in Backup!Directories :
              files'[<<p, d>>] \in {"whole", "gone"}
        /\ MarkedHaveTheirPhotos'
        /\ \A d \in Backup!Directories : Stored(d) /\ Len(snapshots) > 0 => Stored(d)'
    <3>1. files' \in [Backup!Files -> States] /\ UNCHANGED <<files, snapshots>>
      BY <1>1 DEF BackupInv, BackupType
    <3>2. \A g \in run.names : g \in run'.names \/ store'[g] # "absent"
      BY <2>1, <2>3
    <3> QED  BY <2>1, <3>1, <3>2, ForwardKeeps
  <2>5. BackupType'
    BY <1>1, <2>1, <2>3 DEF BackupInv, BackupType
  <2>6. RunIsInStep'
    BY <2>2, <2>3 DEF RunIsInStep
  <2>7. RowsAreWritten'
    BY <1>1, <2>3, <2>4 DEF BackupInv, RowsAreWritten
  <2>8. NewestIsOfTheRun' /\ SomeIsWhole'
    BY <1>1, <2>3 DEF BackupInv, NewestIsOfTheRun, SomeIsWhole
  <2>9. RowsBeforePhotos'
    <3> SUFFICES ASSUME run.mode = "default" PROVE RowsBeforePhotos'
      BY <2>3 DEF RowsBeforePhotos
    <3>1. Len(snapshots) > 0
      BY <1>1 DEF BackupInv, NewestIsOfTheRun
    <3>2. Stored("uploads") /\ \A g \in run.names : g[2] = "thumbs" => Stored("thumbs")
      BY <1>1 DEF BackupInv, RowsBeforePhotos
    <3>3. Stored("uploads")' /\ (Stored("thumbs") => Stored("thumbs")')
      BY <2>4, <3>1, <3>2 DEF Backup!Directories
    <3> QED  BY <1>1, <2>2, <2>3, <3>2, <3>3 DEF RowsBeforePhotos
  <2> QED  BY <2>4, <2>5, <2>6, <2>7, <2>8, <2>9 DEF BackupInv
<1> QED  BY <1>3, <1>4

LEMMA KilledCopyingKeeps ==
    ASSUME BackupInv, NEW f \in Backup!Files, Backup!KilledCopying(f)
    PROVE  BackupInv'
<1>1. /\ store' = [store EXCEPT ![f] = "half"] /\ run' = Backup!Idle
      /\ UNCHANGED <<files, rows, snapshots, safe>>
  BY DEF Backup!KilledCopying
<1>2. /\ store' \in [Backup!Files -> {"absent", "half", "whole"}]
      /\ \A g \in Backup!Files : store[g] # "absent" => store'[g] # "absent"
  BY <1>1 DEF BackupInv, BackupType
<1>3. BackupType'
  BY <1>1, <1>2 DEF BackupInv, BackupType, Backup!Idle
<1>4. MarkedHaveTheirPhotos'
  BY <1>1, <1>2, <1>3, ForwardKeeps DEF BackupType
<1>5. SomeIsWhole' /\ RowsAreWritten'
  BY <1>1 DEF BackupInv, SomeIsWhole, RowsAreWritten, Backup!Idle
<1> QED  BY <1>1, <1>3, <1>4, <1>5, IdleKeeps

\* Pruning keeps the newest, and what it keeps was there.
LEMMA PruneKeeps ==
    ASSUME NEW all \in Seq(Snapshots), Len(all) > 0
    PROVE  LET kept == Backup!pruneBackups(all)
           IN  /\ kept \in Seq(Snapshots) /\ Len(kept) > 0 /\ kept[Len(kept)] = all[Len(all)]
               /\ \A i \in 1 .. Len(kept) : \E j \in 1 .. Len(all) : kept[i] = all[j]
<1> DEFINE n == Len(all)
           first == Backup!Max({1, n - BACKUP_RETENTION_COUNT + 1})
           left == SubSeq(all, first, n)
<1>1. n \in Nat /\ n > 0 /\ BACKUP_RETENTION_COUNT \in Nat /\ \A j \in 1 .. n : all[j] \in Snapshots
  BY ServerAssumption, ElementOfSeq DEF ServerAssumption
<1>2. CASE BACKUP_RETENTION_COUNT = 0
  BY <1>1, <1>2 DEF Backup!pruneBackups
<1>3. CASE BACKUP_RETENTION_COUNT # 0
  <2>1. Backup!pruneBackups(all) = left
    BY <1>3 DEF Backup!pruneBackups
  <2>2. first \in 1 .. n
    <3> DEFINE two == {1, n - BACKUP_RETENTION_COUNT + 1}
    <3>1. \E x \in two : \A y \in two : x >= y
      BY <1>1
    <3>2. first = CHOOSE x \in two : \A y \in two : x >= y
      BY DEF Backup!Max
    <3>3. first \in two /\ \A y \in two : first >= y
      <4> HIDE DEF two, first
      <4> QED  BY <3>1, <3>2
    <3> HIDE DEF first
    <3> QED  BY <1>1, <1>3, <3>3
  <2> HIDE DEF first
  <2>3. /\ left \in Seq(Snapshots) /\ Len(left) = n - first + 1
        /\ \A k \in 1 .. n - first + 1 : left[k] = all[first + k - 1]
    <3>1. first \in Int /\ n \in Int /\ first <= n /\ \A j \in first .. n : all[j] \in Snapshots
      BY <1>1, <2>2
    <3> HIDE DEF n
    <3> QED  BY <3>1, SubSeqProperties
  <2> HIDE DEF left
  <2>4. Len(left) \in 1 .. n - first + 1 /\ first + Len(left) - 1 = n
    BY <1>1, <2>2, <2>3
  <2>5. \A i \in 1 .. Len(left) : first + i - 1 \in 1 .. n /\ left[i] = all[first + i - 1]
    BY <1>1, <2>2, <2>3
  <2>6. left[Len(left)] = all[n] /\ Len(left) > 0
    <3> DEFINE k == Len(left)
    <3>1. k \in 1 .. n - first + 1 /\ first + k - 1 = n
      BY <2>4
    <3>2. left[k] = all[first + k - 1]
      BY <2>3, <3>1
    <3> HIDE DEF k
    <3>3. left[k] = all[n] /\ k > 0
      BY <1>1, <2>2, <3>1, <3>2
    <3> QED  BY <3>3 DEF k
  <2> QED  BY <2>1, <2>3, <2>5, <2>6
<1> QED  BY <1>2, <1>3

\* The run is over: its snapshot is marked when it copied photos too, and only
\* the newest are kept.
LEMMA FinishKeeps ==
    ASSUME BackupInv, Backup!Finish
    PROVE  BackupInv'
<1> DEFINE n == Len(snapshots)
           marked == IF run.mode = "default" THEN [snapshots EXCEPT ![Len(snapshots)].photos = TRUE]
                     ELSE snapshots
<1>1. /\ run.step = "prune" /\ run' = Backup!Idle /\ UNCHANGED <<files, rows, store, safe>>
      /\ snapshots' = IF run.mode = "photos-only" THEN snapshots ELSE Backup!pruneBackups(marked)
  BY DEF Backup!Finish
<1>2. run.mode \in {"default", "db-only", "photos-only"} /\ snapshots \in Seq(Snapshots) /\ n \in Nat
  BY <1>1 DEF BackupInv, BackupType, RunIsInStep
<1>3. CASE run.mode = "photos-only"
  <2>1. UNCHANGED snapshots
    BY <1>1, <1>3
  <2>2. BackupType'
    BY <1>1, <2>1 DEF BackupInv, BackupType, Backup!Idle
  <2>3. MarkedHaveTheirPhotos' /\ SomeIsWhole' /\ RowsAreWritten'
    BY <1>1, <2>1 DEF BackupInv, MarkedHaveTheirPhotos, SomeIsWhole, RowsAreWritten, Backup!Idle
  <2> QED  BY <1>1, <2>2, <2>3, IdleKeeps
<1>4. CASE run.mode # "photos-only"
  <2>1. n > 0 /\ n \in 1 .. n /\ snapshots[n].whole /\ snapshots[n] \in Snapshots
    <3>1. n > 0 /\ snapshots[n].whole
      BY <1>1, <1>2, <1>4 DEF BackupInv, NewestIsOfTheRun
    <3> QED  BY <1>2, <3>1, CopiedArePhotos DEF BackupInv
  <2> DEFINE done == [snapshots[n] EXCEPT !.photos = TRUE]
  <2>2. done \in Snapshots /\ done.whole /\ done.rows = snapshots[n].rows
    BY <2>1 DEF Snapshots
  <2>3. /\ marked \in Seq(Snapshots) /\ Len(marked) = n /\ marked[n].whole
        /\ \A i \in 1 .. n : marked[i].rows = snapshots[i].rows
        /\ \A i \in 1 .. n : marked[i].photos =>
                snapshots[i].photos \/ (i = n /\ run.mode = "default")
    <3>1. CASE run.mode = "default"
      <4>1. marked = [snapshots EXCEPT ![n] = done]
        BY <3>1
      <4> HIDE DEF marked, done
      <4>2. /\ marked \in Seq(Snapshots) /\ Len(marked) = n /\ marked[n] = done
            /\ \A i \in 1 .. n : i # n => marked[i] = snapshots[i]
        BY <1>2, <2>1, <2>2, <4>1
      <4> QED  BY <2>2, <3>1, <4>2
    <3>2. CASE run.mode # "default"
      BY <1>2, <2>1, <3>2
    <3> QED  BY <3>1, <3>2
  <2> HIDE DEF marked, done
  <2>4. /\ snapshots' \in Seq(Snapshots) /\ Len(snapshots') > 0 /\ snapshots'[Len(snapshots')].whole
        /\ \A i \in 1 .. Len(snapshots') : \E j \in 1 .. n : snapshots'[i] = marked[j]
    <3>1. snapshots' = Backup!pruneBackups(marked)
      BY <1>1, <1>4
    <3> QED  BY <2>1, <2>3, <3>1, PruneKeeps
  <2>5. BackupType'
    BY <1>1, <2>4 DEF BackupInv, BackupType, Backup!Idle
  <2>6. RowsAreWritten'
    <3>1. \A i \in 1 .. n : \A p \in marked[i].rows, d \in Backup!Directories :
              files[<<p, d>>] \in {"whole", "gone"}
      BY <2>3 DEF BackupInv, RowsAreWritten
    <3>2. \A i \in 1 .. Len(snapshots') : \A p \in snapshots'[i].rows, d \in Backup!Directories :
              files'[<<p, d>>] \in {"whole", "gone"}
      <4> SUFFICES ASSUME NEW i \in 1 .. Len(snapshots')
                   PROVE  \A p \in snapshots'[i].rows, d \in Backup!Directories :
                              files[<<p, d>>] \in {"whole", "gone"}
        BY <1>1
      <4>1. PICK j \in 1 .. n : snapshots'[i] = marked[j]
        BY <2>4
      <4> QED  BY <3>1, <4>1
    <3> QED  BY <1>1, <3>2 DEF BackupInv, RowsAreWritten, Backup!Idle
  <2>7. MarkedHaveTheirPhotos'
    <3> SUFFICES ASSUME NEW i \in 1 .. Len(snapshots'), snapshots'[i].photos,
                        NEW p \in snapshots'[i].rows, NEW d \in Backup!Directories
                 PROVE  store[<<p, d>>] # "absent" \/ files[<<p, d>>] = "gone"
      BY <1>1 DEF MarkedHaveTheirPhotos
    <3>1. PICK j \in 1 .. n : snapshots'[i] = marked[j]
      BY <2>4
    <3>2. marked[j].photos /\ p \in snapshots[j].rows
      BY <2>3, <3>1
    <3>3. CASE snapshots[j].photos
      BY <3>2, <3>3 DEF BackupInv, MarkedHaveTheirPhotos
    <3>4. CASE j = n /\ run.mode = "default"
      <4>1. Stored("uploads") /\ Stored("thumbs") /\ run.names = {}
        BY <1>1, <3>4 DEF BackupInv, RowsBeforePhotos, RunIsInStep
      <4> QED  BY <3>2, <3>4, <4>1 DEF Stored, Backup!Directories
    <3> QED  BY <2>3, <3>2, <3>3, <3>4
  <2>8. SomeIsWhole'
    <3>1. Len(snapshots') \in 1 .. Len(snapshots')
      BY <2>4
    <3> QED  BY <2>4, <3>1 DEF SomeIsWhole
  <2> QED  BY <1>1, <2>5, <2>6, <2>7, <2>8, IdleKeeps
<1> QED  BY <1>3, <1>4

LEMMA BackupStep ==
    ASSUME BackupInv, Backup!BackupNext
    PROVE  BackupInv'
<1>1. ASSUME NEW f \in Backup!Files, Backup!Write(f) \/ Backup!Unlink(f) PROVE BackupInv'
  BY <1>1, FilesKeep
<1>2. ASSUME NEW f \in Backup!Files, Backup!Copy(f) \/ Backup!KilledCopying(f) PROVE BackupInv'
  BY <1>2, CopyKeeps, KilledCopyingKeeps
<1>3. ASSUME NEW p \in Photos, Backup!Insert(p) \/ Backup!DeleteRow(p) \/ \E q \in Photos : Backup!Replace(p, q)
      PROVE  BackupInv'
  BY <1>3, RowsKeep
<1>4. ASSUME NEW mode \in Backup!Modes, Backup!Start(mode) PROVE BackupInv'
  BY <1>4, StartKeeps
<1>5. ASSUME NEW d \in Backup!Directories, Backup!ListNew(d) PROVE BackupInv'
  BY <1>5, ListKeeps
<1>6. ASSUME Backup!MakeDirectory \/ Backup!backupDatabase \/ Backup!Killed \/ Backup!Finish PROVE BackupInv'
  BY <1>6, MakeDirectoryKeeps, DatabaseKeeps, KilledKeeps, FinishKeeps
<1> QED  BY <1>1, <1>2, <1>3, <1>4, <1>5, <1>6 DEF Backup!BackupNext

LEMMA BackupRests ==
    ASSUME BackupInv, UNCHANGED backupVars
    PROVE  BackupInv'
<1> QED  BY DEF BackupInv, BackupType, RunIsInStep, RowsAreWritten, NewestIsOfTheRun, RowsBeforePhotos,
       MarkedHaveTheirPhotos, SomeIsWhole, Stored, backupVars

-----------------------------------------------------------------------------
(* The scripts, whichever of the server's parts runs.                      *)

ScriptsInv ==
    /\ part = "lifecycle" => LifeInv
    /\ part = "backup" => BackupInv

LEMMA LifeRests ==
    ASSUME LifeInv, UNCHANGED lifeVars
    PROVE  LifeInv'
<1>1. UNCHANGED <<wrapper, restartTimes, relaunch, child, pending, forceTimer, conn, restarts, draining,
                  stopping, last>>
  BY DEF lifeVars
<1>2. LifeType' /\ BackstopIsArmed' /\ StopReachesTheChild'
  BY <1>1 DEF LifeInv, LifeType, BackstopIsArmed, StopReachesTheChild
<1> QED  BY <1>1, <1>2, WrapperUntouched, LastUntouched DEF LifeInv

LEMMA ScriptsStart == ServerInit => ScriptsInv
<1> SUFFICES ASSUME ServerInit PROVE ScriptsInv
  OBVIOUS
<1>1. ASSUME part = "lifecycle" PROVE LifeInv
  BY <1>1, LifeStart DEF ServerInit
<1>2. ASSUME part = "backup" PROVE BackupInv
  BY <1>2, BackupStart DEF ServerInit
<1> QED  BY <1>1, <1>2 DEF ScriptsInv

LEMMA ScriptsStep ==
    ScriptsInv /\ [ServerNext]_<<part, vars, bootVars, backupVars, lifeVars, exportVars>> => ScriptsInv'
<1> SUFFICES ASSUME ScriptsInv, [ServerNext]_<<part, vars, bootVars, backupVars, lifeVars, exportVars>>
             PROVE  ScriptsInv'
  OBVIOUS
<1>1. UNCHANGED part
  BY DEF ServerNext
<1>2. ASSUME part = "lifecycle" PROVE LifeInv'
  <2>1. Lifecycle!LifeNext \/ UNCHANGED lifeVars
    BY <1>2 DEF ServerNext
  <2>2. LifeInv
    BY <1>2 DEF ScriptsInv
  <2> QED  BY <2>1, <2>2, LifeStep, LifeRests
<1>3. ASSUME part = "backup" PROVE BackupInv'
  <2>1. Backup!BackupNext \/ UNCHANGED backupVars
    BY <1>3 DEF ServerNext
  <2>2. BackupInv
    BY <1>3 DEF ScriptsInv
  <2> QED  BY <2>1, <2>2, BackupStep, BackupRests
<1> QED  BY <1>1, <1>2, <1>3 DEF ScriptsInv

\* A drain is bounded and patient, a crash loop ends and only a loop does; a
\* snapshot has its photos, and one is always kept: for every limit and window,
\* every number of connections, photos, runs and kept snapshots.
THEOREM ScriptsAlwaysKeepTheirWord == ServerSpec => []ScriptsKeepTheirWord
<1>1. ScriptsInv => ScriptsKeepTheirWord
  BY LifeMeans, BackupMeans DEF ScriptsInv, ScriptsKeepTheirWord
<1> QED  BY <1>1, ScriptsStart, ScriptsStep, PTL DEF ServerSpec

\* The steps of the server that are steps of Access are Access's own, so its
\* theorems are about the server too.
THEOREM ServerIsAccess == ServerSpec => Spec
<1>1. ServerInit => Init
  BY DEF ServerInit
<1>2. [ServerNext]_<<part, vars, bootVars, backupVars, lifeVars, exportVars>> => [Next]_vars
  BY DEF ServerNext
<1> QED  BY <1>1, <1>2, PTL DEF ServerSpec, Spec

-----------------------------------------------------------------------------
(* The database through deaths and starts (Boot).                          *)

\* The columns that say how what the others hold is to be read.
Telling ==
    {"is_active", "worth_3_to_5", "taken_down_by", "avatar_point_awarded", "celebrated_at", "recap_checked_at", "status"}

\* What a database says of its rows, read by the columns it has.
Word(d) ==
    [worth |-> IF Boot!Has(d, "is_active") THEN 3 ELSE IF Boot!Has(d, "worth_3_to_5") THEN d.task.worth ELSE d.task.worth + 2,
     mode |-> IF Boot!Has(d, "is_active") THEN (IF d.task.active THEN "none" ELSE "hidden") ELSE d.task.mode,
     by |-> IF Boot!Has(d, "taken_down_by") THEN d.photo.by ELSE IF d.photo.down THEN "admin" ELSE "nobody",
     points |-> IF Boot!Has(d, "avatar_point_awarded") /\ d.guest.flagged /\ d.guest.points > 0
                THEN d.guest.points - 1 ELSE d.guest.points,
     badges |-> <<{"BLOOM", "COMPLETIONIST"}, d.held \ {"MOSTLIKED", "CROWDFAV"}>>,
     described |-> IF "BLOOM" \in d.codes THEN d.bloom.threshold ELSE 5,
     bloom |-> IF "BLOOM" \in d.held /\ d.badge.bloom = 0 THEN 1 ELSE d.badge.bloom,
     sweep |-> IF "COMPLETIONIST" \in d.held /\ d.badge.sweep < 2 THEN 3 ELSE d.badge.sweep,
     celebrated |-> Boot!Has(d, "celebrated_at") => d.badge.celebrated,
     checked |-> Boot!Has(d, "recap_checked_at") => d.guest.checked,
     status |-> IF Boot!Has(d, "status") THEN d.bug.status ELSE IF d.bug.resolved THEN "closed" ELSE "open",
     crown |-> d.crown /\ ~d.selfLike]

\* The tables of the schema.
Six == {"guests", "tasks", "submissions", "badges", "guest_badges", "bug_reports"}

\* What the steps before a step have made sure of.
Ready(d, p) ==
    /\ p > 1 => Six \subseteq d.tables /\ {"photo_index", "thumb_index"} \subseteq d.shape
    /\ p > 2 => ~Boot!Has(d, "is_active") /\ Boot!Has(d, "special_mode")
    /\ p > 3 => Boot!Has(d, "special_date")
    /\ p > 4 => {"flash_start_at", "flash_minutes", "flash_bonus"} \subseteq d.shape
    /\ p > 5 => {"lucky_date", "lucky_bonus"} \subseteq d.shape
    /\ p > 6 => Boot!Has(d, "live_since")
    /\ p > 7 => Boot!Has(d, "worth_3_to_5")
    /\ p > 8 => Boot!Has(d, "photo_bonus")
    /\ p > 9 => Boot!Has(d, "metric")
    /\ p > 10 => {"task_id", "task_id_index"} \subseteq d.shape
    /\ p > 11 => {"points", "note", "submission_id"} \subseteq d.shape
    /\ p > 12 => Boot!Has(d, "cascade")
    /\ p > 13 => Boot!Has(d, "celebrated_at")
    /\ p > 14 => Boot!Has(d, "rank")
    /\ p > 15 => Boot!Has(d, "pinned")
    /\ p > 16 => {"contact", "contact_type", "pin", "contact_index"} \subseteq d.shape
    /\ p > 17 => Boot!Has(d, "task_id_null")
    /\ p > 18 => {"bonus_amount", "bonus_reason"} \subseteq d.shape
    /\ p > 19 => {"BLOOM", "COMPLETIONIST"} \subseteq d.codes /\ d.bloom.described = d.bloom.threshold
    /\ p > 20 => "MOSTLIKED" \notin d.codes \cup d.held
    /\ p > 21 => "CROWDFAV" \notin d.codes \cup d.held
    /\ p > 22 => "badge_winners" \notin d.tables
    /\ p > 23 => /\ "BLOOM" \in d.held => d.badge.bloom # 0
                 /\ "COMPLETIONIST" \in d.held => d.badge.sweep >= 2
    /\ p > 24 => Boot!Has(d, "resubmitted")
    /\ p > 25 => Boot!Has(d, "taken_down_by")
    /\ p > 26 => ~Boot!Has(d, "avatar_point_awarded")
    /\ p > 27 => Boot!Has(d, "recap_checked_at")
    /\ p > 28 => Boot!Has(d, "is_couple")
    /\ p > 29 => Boot!Has(d, "blocked")
    /\ p > 30 => {"status", "status_index"} \subseteq d.shape /\ ~Boot!Has(d, "resolved_index")
    /\ p > 31 => Boot!Has(d, "guest_id_null")
    /\ p > 32 => "settings" \in d.tables
    /\ p > 33 => ~d.selfLike
-----------------------------------------------------------------------------
(* Databases and paths of them.                                            *)

\* Nothing but what its tables have tells the databases apart.
AllButShape(d, x) ==
    /\ x \in Boot!Files /\ x.tables = d.tables /\ x.values = d.values /\ x.children = d.children
    /\ x.task = d.task /\ x.photo = d.photo /\ x.guest = d.guest /\ x.badge = d.badge
    /\ x.codes = d.codes /\ x.held = d.held /\ x.bloom = d.bloom /\ x.bug = d.bug
    /\ x.selfLike = d.selfLike /\ x.crown = d.crown

LEMMA SameFiles ==
    ASSUME NEW d \in Boot!Files, NEW x, AllButShape(d, x), x.shape = d.shape
    PROVE  x = d
  BY DEF Boot!Files, AllButShape

LEMMA AddIs ==
    ASSUME NEW d \in Boot!Files, NEW C \in SUBSET Boot!Columns
    PROVE  AllButShape(d, Boot!Add(d, C)) /\ Boot!Add(d, C).shape = d.shape \cup C
  BY DEF Boot!Files, Boot!Add, AllButShape

LEMMA AddTwice ==
    ASSUME NEW d \in Boot!Files, NEW C \in SUBSET Boot!Columns, NEW D \in SUBSET Boot!Columns
    PROVE  Boot!Add(Boot!Add(d, C), D) = Boot!Add(d, C \cup D)
<1> DEFINE a == Boot!Add(d, C)
           x == Boot!Add(a, D)
           y == Boot!Add(d, C \cup D)
<1>1. AllButShape(d, a) /\ a.shape = d.shape \cup C
  BY AddIs
<1>2. AllButShape(a, x) /\ x.shape = a.shape \cup D
  <2>1. a \in Boot!Files
    BY <1>1 DEF AllButShape
  <2> HIDE DEF a
  <2> QED  BY <2>1, AddIs
<1>3. AllButShape(d, y) /\ y.shape = d.shape \cup C \cup D
  <2>1. C \cup D \in SUBSET Boot!Columns
    OBVIOUS
  <2> QED  BY <2>1, AddIs
<1> HIDE DEF a, x, y
<1>4. x.shape = y.shape
  BY <1>1, <1>2, <1>3
<1>5. AllButShape(y, x) /\ y \in Boot!Files
  BY <1>1, <1>2, <1>3 DEF AllButShape
<1>6. x = y
  BY <1>4, <1>5, SameFiles
<1> QED  BY <1>6 DEF a, x, y

\* Where a path is after some of its statements.
LEMMA PointOfPath ==
    ASSUME NEW path \in Seq(Boot!Files), NEW k \in 0 .. Len(path), NEW d
    PROVE  Boot!After(SubSeq(path, 1, k), d) = IF k = 0 THEN d ELSE path[k]
<1>1. \A j \in 1 .. k : path[j] \in Boot!Files
  OBVIOUS
<1>2. /\ SubSeq(path, 1, k) \in Seq(Boot!Files)
      /\ Len(SubSeq(path, 1, k)) = IF 1 <= k THEN k - 1 + 1 ELSE 0
      /\ \A j \in 1 .. k - 1 + 1 : SubSeq(path, 1, k)[j] = path[1 + j - 1]
  BY <1>1, SubSeqProperties
<1>3. CASE k = 0
  <2>1. SubSeq(path, 1, k) = <<>>
    BY <1>2, <1>3
  <2> QED  BY <1>3, <2>1 DEF Boot!After
<1>4. CASE k # 0
  <2>1. Len(SubSeq(path, 1, k)) = k /\ SubSeq(path, 1, k) # <<>> /\ SubSeq(path, 1, k)[k] = path[k]
    BY <1>2, <1>4
  <2> QED  BY <1>4, <2>1 DEF Boot!After
<1> QED  BY <1>3, <1>4

\* Columns added one after the other.
LEMMA AddEachIs ==
    ASSUME NEW d \in Boot!Files, NEW columns \in Seq(Boot!Columns), columns # <<>>
    PROVE  LET all == {columns[j] : j \in 1 .. Len(columns)}
           IN  /\ all \in SUBSET Boot!Columns
               /\ Boot!AddEach(d, columns) \in Seq(Boot!Files) /\ Len(Boot!AddEach(d, columns)) = Len(columns)
               /\ Boot!AddEach(d, columns) # <<>>
               /\ \A k \in 1 .. Len(columns) : \E C \in SUBSET all : Boot!AddEach(d, columns)[k] = Boot!Add(d, C)
               /\ Boot!After(Boot!AddEach(d, columns), d) = Boot!Add(d, all)
<1> DEFINE all == {columns[j] : j \in 1 .. Len(columns)}
           some(k) == {columns[j] : j \in 1 .. k}
           path == Boot!AddEach(d, columns)
<1>1. Len(columns) \in Nat /\ Len(columns) # 0 /\ \A j \in 1 .. Len(columns) : columns[j] \in Boot!Columns
  OBVIOUS
<1>2. all \in SUBSET Boot!Columns
  BY <1>1
<1>3. ASSUME NEW k \in 1 .. Len(columns) PROVE some(k) \in SUBSET all /\ Boot!Add(d, some(k)) \in Boot!Files
  <2>1. some(k) \in SUBSET all
    OBVIOUS
  <2>2. some(k) \in SUBSET Boot!Columns
    BY <1>2, <2>1
  <2> HIDE DEF some, all
  <2> QED  BY <2>1, <2>2, AddIs DEF AllButShape
<1>4. path = [k \in 1 .. Len(columns) |-> Boot!Add(d, some(k))]
  BY DEF Boot!AddEach
<1> HIDE DEF path, some
<1>5. path \in Seq(Boot!Files) /\ Len(path) = Len(columns) /\ path # <<>>
  <2>1. path \in [1 .. Len(columns) -> Boot!Files]
    BY <1>3, <1>4
  <2> QED  BY <1>1, <2>1
<1>6. \A k \in 1 .. Len(columns) : \E C \in SUBSET all : path[k] = Boot!Add(d, C)
  BY <1>3, <1>4
<1>7. Boot!After(path, d) = Boot!Add(d, all)
  <2>1. path[Len(columns)] = Boot!Add(d, some(Len(columns)))
    BY <1>1, <1>4
  <2>2. some(Len(columns)) = all
    BY DEF some
  <2> QED  BY <1>5, <2>1, <2>2 DEF Boot!After
<1> QED  BY <1>2, <1>5, <1>6, <1>7 DEF path
\* A database that has lost nothing of another one, and says the same.
Same(d, x) ==
    /\ Boot!FromTheApp(x) /\ (Six \subseteq d.tables => Six \subseteq x.tables)
    /\ d.values \ Boot!Retired \subseteq x.values /\ Word(x) = Word(d)

\* A step of which every statement leaves such a database, wherever it is
\* resumed it ends the same, and what it is there for is made.
Safe(i, d) ==
    LET path == Boot!Step(i, d)
    IN  /\ path \in Seq(Boot!Files)
        /\ \A k \in 1 .. Len(path) : Same(d, path[k]) /\ Boot!After(Boot!Step(i, path[k]), path[k]) = Boot!After(path, d)
        /\ Ready(Boot!After(path, d), i + 1)

LEMMA SafeByOne ==
    ASSUME NEW i, NEW d, NEW y, y \in Boot!Files, Boot!Step(i, d) = <<y>>, Same(d, y), Boot!After(Boot!Step(i, y), y) = y, Ready(y, i + 1)
    PROVE  Safe(i, d)
<1>1. <<y>> \in Seq(Boot!Files) /\ Len(<<y>>) = 1 /\ <<y>>[1] = y /\ Boot!After(<<y>>, d) = y
  BY DEF Boot!After
<1> QED  BY <1>1 DEF Safe

LEMMA SafeByNone ==
    ASSUME NEW i, NEW d, Boot!Step(i, d) = <<>>, Ready(d, i + 1)
    PROVE  Safe(i, d)
<1>1. <<>> \in Seq(Boot!Files) /\ Len(<<>>) = 0 /\ Boot!After(<<>>, d) = d
  BY DEF Boot!After
<1> QED  BY <1>1 DEF Safe

\* Columns that say nothing of how others are read, added in their turn.
InTurn(d, C) ==
    /\ C \cap Telling = {}
    /\ C \cap Boot!Table.tasks # {} => Boot!Has(d, "special_date") /\ ~Boot!Has(d, "is_active")
    /\ C \cap Boot!Table.submissions \subseteq {"photo_bonus"} \cup Boot!Indexes \/ Boot!Has(d, "task_id_null")
    /\ C \cap Boot!Table.badges # {} => Boot!Has(d, "metric")
    /\ C \cap Boot!Table.guest_badges \subseteq {"points", "note", "submission_id"} \/ Boot!Has(d, "cascade") \/ "cascade" \in C

LEMMA AddSame ==
    ASSUME NEW d, Boot!FromTheApp(d), Six \subseteq d.tables, NEW C \in SUBSET Boot!Columns, InTurn(d, C)
    PROVE  Same(d, Boot!Add(d, C))
<1> DEFINE x == Boot!Add(d, C)
<1>1. AllButShape(d, x) /\ x.shape = d.shape \cup C /\ d \in Boot!Files /\ Boot!Orderly(d)
  BY AddIs DEF Boot!FromTheApp
<1> HIDE DEF x
<1>2. Word(x) = Word(d)
  <2>1. \A c \in Telling : Boot!Has(x, c) <=> Boot!Has(d, c)
    BY <1>1 DEF Boot!Has, InTurn
  <2>2. \A c \in {"is_active", "worth_3_to_5", "taken_down_by", "avatar_point_awarded", "celebrated_at",
                  "recap_checked_at", "status"} : Boot!Has(x, c) = Boot!Has(d, c)
    BY <2>1 DEF Telling, Boot!Has
  <2> QED  BY <1>1, <2>2, ZenonT(40) DEF Word, AllButShape
<1>3. Boot!Orderly(x)
  <2>1. x.values \subseteq x.shape \ Boot!Indexes
    BY <1>1 DEF Boot!Orderly, AllButShape
  <2>2. \A t \in DOMAIN Boot!Table : t \notin x.tables => x.shape \cap Boot!Table[t] = {}
    BY <1>1 DEF AllButShape, Six, Boot!Table
  <2>3. ~Boot!Has(x, "is_active") \/ (C \cap Boot!Table.tasks = {} /\ Boot!Has(d, "is_active"))
    BY <1>1 DEF InTurn, Boot!Has, Telling
  <2>4. Boot!Has(x, "is_active") => x.shape \cap Boot!Table.tasks = {"is_active"}
    BY <1>1, <2>3 DEF Boot!Orderly
  <2>5. "tasks" \in x.tables => Boot!Has(x, "is_active") \/ Boot!Has(x, "special_mode")
    BY <1>1 DEF Boot!Orderly, AllButShape, Boot!Has
  <2>6. ~Boot!Has(x, "special_date") => x.shape \cap Boot!Table.tasks \subseteq {"is_active", "special_mode"}
    BY <1>1 DEF Boot!Orderly, Boot!Has, InTurn
  <2>7. ~Boot!Has(x, "task_id_null") => x.shape \cap Boot!Table.submissions \subseteq {"photo_bonus"} \cup Boot!Indexes
    BY <1>1 DEF Boot!Orderly, Boot!Has, InTurn
  <2>8. ~Boot!Has(x, "metric") => x.shape \cap Boot!Table.badges = {}
    BY <1>1 DEF Boot!Orderly, Boot!Has, InTurn
  <2>9. ~Boot!Has(x, "cascade") => x.shape \cap Boot!Table.guest_badges \subseteq {"points", "note", "submission_id"}
    BY <1>1 DEF Boot!Orderly, Boot!Has, InTurn
  <2> QED  BY <2>1, <2>2, <2>4, <2>5, <2>6, <2>7, <2>8, <2>9 DEF Boot!Orderly
<1>4. Same(d, x)
  BY <1>1, <1>2, <1>3 DEF Same, Boot!FromTheApp, AllButShape
<1> QED  BY <1>4 DEF x

\* A set of columns of which each subset is in its turn, and a list of it.
AllInTurn(d, all) == \A C \in SUBSET all : InTurn(d, C)
Lists(columns, all) ==
    columns \in Seq(Boot!Columns) /\ columns # <<>> /\ all = {columns[j] : j \in 1 .. Len(columns)}

\* A step that adds columns, if they are missing.
AddsAt(i, columns) == \A x : Boot!Step(i, x) = Boot!AddEach(x, columns)

LEMMA SafeByAdding ==
    ASSUME NEW i, NEW d, Boot!FromTheApp(d), Six \subseteq d.tables, NEW columns, AddsAt(i, columns),
           NEW all, Lists(columns, all), AllInTurn(d, all), NEW n, n = i + 1, Ready(Boot!Add(d, all), n)
    PROVE  Safe(i, d)
<1> DEFINE path == Boot!Step(i, d)
<1>1. d \in Boot!Files
  BY DEF Boot!FromTheApp
<1>0. /\ columns \in Seq(Boot!Columns) /\ columns # <<>> /\ all = {columns[j] : j \in 1 .. Len(columns)}
      /\ \A C \in SUBSET all : InTurn(d, C)
  BY DEF Lists, AllInTurn
<1>2. path = Boot!AddEach(d, columns)
  BY DEF AddsAt
<1>3. /\ all \in SUBSET Boot!Columns /\ path \in Seq(Boot!Files) /\ Len(path) = Len(columns)
      /\ \A k \in 1 .. Len(columns) : \E C \in SUBSET all : path[k] = Boot!Add(d, C)
      /\ Boot!After(path, d) = Boot!Add(d, all)
  BY <1>0, <1>1, <1>2, AddEachIs
<1> HIDE DEF path
<1>4. ASSUME NEW k \in 1 .. Len(path) PROVE Same(d, path[k]) /\ Boot!After(Boot!Step(i, path[k]), path[k]) = Boot!After(path, d)
  <2>1. PICK C \in SUBSET all : path[k] = Boot!Add(d, C)
    BY <1>3
  <2>2. C \in SUBSET Boot!Columns /\ InTurn(d, C)
    BY <1>0, <1>3
  <2>3. Same(d, path[k])
    BY <2>1, <2>2, AddSame
  <2>4. path[k] \in Boot!Files
    BY <1>3
  <2>5. Boot!After(Boot!AddEach(path[k], columns), path[k]) = Boot!Add(path[k], all)
    BY <1>0, <2>4, AddEachIs
  <2>6. Boot!Add(path[k], all) = Boot!Add(d, all)
    <3>1. Boot!Add(Boot!Add(d, C), all) = Boot!Add(d, C \cup all) /\ C \cup all = all
      BY <1>1, <1>3, <2>2, AddTwice
    <3> QED  BY <2>1, <3>1
  <2>7. Boot!Step(i, path[k]) = Boot!AddEach(path[k], columns)
    BY DEF AddsAt
  <2> QED  BY <1>3, <2>3, <2>5, <2>6, <2>7
<1> QED  BY <1>0, <1>3, <1>4 DEF Safe, path
-----------------------------------------------------------------------------
(* The steps that only add columns.                                        *)

LEMMA FlashColumnsSafe == ASSUME NEW d, Boot!FromTheApp(d), Ready(d, 4) PROVE Safe(4, d)
<1> DEFINE columns == <<"flash_start_at", "flash_minutes", "flash_bonus">>
           all == {"flash_start_at", "flash_minutes", "flash_bonus"}
<1>1. AddsAt(4, columns)
  BY DEF AddsAt, Boot!Step, Boot!ensureTaskFlashColumns
<1>2. Lists(columns, all)
  BY DEF Lists, Boot!Columns, Boot!Table
<1>3. Six \subseteq d.tables /\ AllInTurn(d, all)
  BY DEF AllInTurn, Ready, InTurn, Boot!Has, Telling, Boot!Table
<1>4. Ready(Boot!Add(d, all), 5)
  <2>1. d \in Boot!Files /\ all \in SUBSET Boot!Columns
    BY DEF Boot!FromTheApp, Boot!Columns, Boot!Table
  <2>2. AllButShape(d, Boot!Add(d, all)) /\ Boot!Add(d, all).shape = d.shape \cup all
    BY <2>1, AddIs
  <2> QED  BY <2>2 DEF Ready, Boot!Has, AllButShape
<1>5. 5 = 4 + 1
  OBVIOUS
<1> HIDE DEF columns, all
<1> QED  BY <1>1, <1>2, <1>3, <1>4, <1>5, SafeByAdding

LEMMA LuckyColumnsSafe == ASSUME NEW d, Boot!FromTheApp(d), Ready(d, 5) PROVE Safe(5, d)
<1> DEFINE columns == <<"lucky_date", "lucky_bonus">>
           all == {"lucky_date", "lucky_bonus"}
<1>1. AddsAt(5, columns)
  BY DEF AddsAt, Boot!Step, Boot!ensureTaskLuckyColumns
<1>2. Lists(columns, all)
  BY DEF Lists, Boot!Columns, Boot!Table
<1>3. Six \subseteq d.tables /\ AllInTurn(d, all)
  BY DEF AllInTurn, Ready, InTurn, Boot!Has, Telling, Boot!Table
<1>4. Ready(Boot!Add(d, all), 6)
  <2>1. d \in Boot!Files /\ all \in SUBSET Boot!Columns
    BY DEF Boot!FromTheApp, Boot!Columns, Boot!Table
  <2>2. AllButShape(d, Boot!Add(d, all)) /\ Boot!Add(d, all).shape = d.shape \cup all
    BY <2>1, AddIs
  <2> QED  BY <2>2 DEF Ready, Boot!Has, AllButShape
<1>5. 6 = 5 + 1
  OBVIOUS
<1> HIDE DEF columns, all
<1> QED  BY <1>1, <1>2, <1>3, <1>4, <1>5, SafeByAdding

LEMMA LiveSinceSafe == ASSUME NEW d, Boot!FromTheApp(d), Ready(d, 6) PROVE Safe(6, d)
<1> DEFINE columns == <<"live_since">>
           all == {"live_since"}
<1>1. AddsAt(6, columns)
  BY DEF AddsAt, Boot!Step, Boot!ensureTaskLiveSinceColumn
<1>2. Lists(columns, all)
  BY DEF Lists, Boot!Columns, Boot!Table
<1>3. Six \subseteq d.tables /\ AllInTurn(d, all)
  BY DEF AllInTurn, Ready, InTurn, Boot!Has, Telling, Boot!Table
<1>4. Ready(Boot!Add(d, all), 7)
  <2>1. d \in Boot!Files /\ all \in SUBSET Boot!Columns
    BY DEF Boot!FromTheApp, Boot!Columns, Boot!Table
  <2>2. AllButShape(d, Boot!Add(d, all)) /\ Boot!Add(d, all).shape = d.shape \cup all
    BY <2>1, AddIs
  <2> QED  BY <2>2 DEF Ready, Boot!Has, AllButShape
<1>5. 7 = 6 + 1
  OBVIOUS
<1> HIDE DEF columns, all
<1> QED  BY <1>1, <1>2, <1>3, <1>4, <1>5, SafeByAdding

LEMMA PhotoBonusSafe == ASSUME NEW d, Boot!FromTheApp(d), Ready(d, 8) PROVE Safe(8, d)
<1> DEFINE columns == <<"photo_bonus">>
           all == {"photo_bonus"}
<1>1. AddsAt(8, columns)
  BY DEF AddsAt, Boot!Step, Boot!ensurePhotoBonusColumn
<1>2. Lists(columns, all)
  BY DEF Lists, Boot!Columns, Boot!Table
<1>3. Six \subseteq d.tables /\ AllInTurn(d, all)
  BY DEF AllInTurn, Ready, InTurn, Boot!Has, Telling, Boot!Table
<1>4. Ready(Boot!Add(d, all), 9)
  <2>1. d \in Boot!Files /\ all \in SUBSET Boot!Columns
    BY DEF Boot!FromTheApp, Boot!Columns, Boot!Table
  <2>2. AllButShape(d, Boot!Add(d, all)) /\ Boot!Add(d, all).shape = d.shape \cup all
    BY <2>1, AddIs
  <2> QED  BY <2>2 DEF Ready, Boot!Has, AllButShape
<1>5. 9 = 8 + 1
  OBVIOUS
<1> HIDE DEF columns, all
<1> QED  BY <1>1, <1>2, <1>3, <1>4, <1>5, SafeByAdding

LEMMA BadgeTaskSafe == ASSUME NEW d, Boot!FromTheApp(d), Ready(d, 10) PROVE Safe(10, d)
<1> DEFINE columns == <<"task_id", "task_id_index">>
           all == {"task_id", "task_id_index"}
<1>1. AddsAt(10, columns)
  BY DEF AddsAt, Boot!Step, Boot!ensureBadgeTaskIdColumn
<1>2. Lists(columns, all)
  BY DEF Lists, Boot!Columns, Boot!Table
<1>3. Six \subseteq d.tables /\ AllInTurn(d, all)
  BY DEF AllInTurn, Ready, InTurn, Boot!Has, Telling, Boot!Table
<1>4. Ready(Boot!Add(d, all), 11)
  <2>1. d \in Boot!Files /\ all \in SUBSET Boot!Columns
    BY DEF Boot!FromTheApp, Boot!Columns, Boot!Table
  <2>2. AllButShape(d, Boot!Add(d, all)) /\ Boot!Add(d, all).shape = d.shape \cup all
    BY <2>1, AddIs
  <2> QED  BY <2>2 DEF Ready, Boot!Has, AllButShape
<1>5. 11 = 10 + 1
  OBVIOUS
<1> HIDE DEF columns, all
<1> QED  BY <1>1, <1>2, <1>3, <1>4, <1>5, SafeByAdding

LEMMA RankColumnSafe == ASSUME NEW d, Boot!FromTheApp(d), Ready(d, 14) PROVE Safe(14, d)
<1> DEFINE columns == <<"rank">>
           all == {"rank"}
<1>1. AddsAt(14, columns)
  BY DEF AddsAt, Boot!Step, Boot!ensureGuestBadgeRankColumn
<1>2. Lists(columns, all)
  BY DEF Lists, Boot!Columns, Boot!Table
<1>3. Six \subseteq d.tables /\ AllInTurn(d, all)
  BY DEF AllInTurn, Ready, InTurn, Boot!Has, Telling, Boot!Table
<1>4. Ready(Boot!Add(d, all), 15)
  <2>1. d \in Boot!Files /\ all \in SUBSET Boot!Columns
    BY DEF Boot!FromTheApp, Boot!Columns, Boot!Table
  <2>2. AllButShape(d, Boot!Add(d, all)) /\ Boot!Add(d, all).shape = d.shape \cup all
    BY <2>1, AddIs
  <2> QED  BY <2>2 DEF Ready, Boot!Has, AllButShape
<1>5. 15 = 14 + 1
  OBVIOUS
<1> HIDE DEF columns, all
<1> QED  BY <1>1, <1>2, <1>3, <1>4, <1>5, SafeByAdding

LEMMA PinnedSafe == ASSUME NEW d, Boot!FromTheApp(d), Ready(d, 15) PROVE Safe(15, d)
<1> DEFINE columns == <<"pinned">>
           all == {"pinned"}
<1>1. AddsAt(15, columns)
  BY DEF AddsAt, Boot!Step, Boot!ensurePinnedColumn
<1>2. Lists(columns, all)
  BY DEF Lists, Boot!Columns, Boot!Table
<1>3. Six \subseteq d.tables /\ AllInTurn(d, all)
  BY DEF AllInTurn, Ready, InTurn, Boot!Has, Telling, Boot!Table
<1>4. Ready(Boot!Add(d, all), 16)
  <2>1. d \in Boot!Files /\ all \in SUBSET Boot!Columns
    BY DEF Boot!FromTheApp, Boot!Columns, Boot!Table
  <2>2. AllButShape(d, Boot!Add(d, all)) /\ Boot!Add(d, all).shape = d.shape \cup all
    BY <2>1, AddIs
  <2> QED  BY <2>2 DEF Ready, Boot!Has, AllButShape
<1>5. 16 = 15 + 1
  OBVIOUS
<1> HIDE DEF columns, all
<1> QED  BY <1>1, <1>2, <1>3, <1>4, <1>5, SafeByAdding

LEMMA IdentitySafe == ASSUME NEW d, Boot!FromTheApp(d), Ready(d, 16) PROVE Safe(16, d)
<1> DEFINE columns == <<"contact", "contact_type", "pin", "contact_index">>
           all == {"contact", "contact_type", "pin", "contact_index"}
<1>1. AddsAt(16, columns)
  BY DEF AddsAt, Boot!Step, Boot!ensureGuestIdentityColumns
<1>2. Lists(columns, all)
  BY DEF Lists, Boot!Columns, Boot!Table
<1>3. Six \subseteq d.tables /\ AllInTurn(d, all)
  BY DEF AllInTurn, Ready, InTurn, Boot!Has, Telling, Boot!Table
<1>4. Ready(Boot!Add(d, all), 17)
  <2>1. d \in Boot!Files /\ all \in SUBSET Boot!Columns
    BY DEF Boot!FromTheApp, Boot!Columns, Boot!Table
  <2>2. AllButShape(d, Boot!Add(d, all)) /\ Boot!Add(d, all).shape = d.shape \cup all
    BY <2>1, AddIs
  <2> QED  BY <2>2 DEF Ready, Boot!Has, AllButShape
<1>5. 17 = 16 + 1
  OBVIOUS
<1> HIDE DEF columns, all
<1> QED  BY <1>1, <1>2, <1>3, <1>4, <1>5, SafeByAdding

LEMMA BonusColumnsSafe == ASSUME NEW d, Boot!FromTheApp(d), Ready(d, 18) PROVE Safe(18, d)
<1> DEFINE columns == <<"bonus_amount", "bonus_reason">>
           all == {"bonus_amount", "bonus_reason"}
<1>1. AddsAt(18, columns)
  BY DEF AddsAt, Boot!Step, Boot!ensureSubmissionsBonusColumns
<1>2. Lists(columns, all)
  BY DEF Lists, Boot!Columns, Boot!Table
<1>3. Six \subseteq d.tables /\ AllInTurn(d, all)
  BY DEF AllInTurn, Ready, InTurn, Boot!Has, Telling, Boot!Table
<1>4. Ready(Boot!Add(d, all), 19)
  <2>1. d \in Boot!Files /\ all \in SUBSET Boot!Columns
    BY DEF Boot!FromTheApp, Boot!Columns, Boot!Table
  <2>2. AllButShape(d, Boot!Add(d, all)) /\ Boot!Add(d, all).shape = d.shape \cup all
    BY <2>1, AddIs
  <2> QED  BY <2>2 DEF Ready, Boot!Has, AllButShape
<1>5. 19 = 18 + 1
  OBVIOUS
<1> HIDE DEF columns, all
<1> QED  BY <1>1, <1>2, <1>3, <1>4, <1>5, SafeByAdding

LEMMA ResubmittedSafe == ASSUME NEW d, Boot!FromTheApp(d), Ready(d, 24) PROVE Safe(24, d)
<1> DEFINE columns == <<"resubmitted">>
           all == {"resubmitted"}
<1>1. AddsAt(24, columns)
  BY DEF AddsAt, Boot!Step, Boot!ensureResubmittedColumn
<1>2. Lists(columns, all)
  BY DEF Lists, Boot!Columns, Boot!Table
<1>3. Six \subseteq d.tables /\ AllInTurn(d, all)
  BY DEF AllInTurn, Ready, InTurn, Boot!Has, Telling, Boot!Table
<1>4. Ready(Boot!Add(d, all), 25)
  <2>1. d \in Boot!Files /\ all \in SUBSET Boot!Columns
    BY DEF Boot!FromTheApp, Boot!Columns, Boot!Table
  <2>2. AllButShape(d, Boot!Add(d, all)) /\ Boot!Add(d, all).shape = d.shape \cup all
    BY <2>1, AddIs
  <2> QED  BY <2>2 DEF Ready, Boot!Has, AllButShape
<1>5. 25 = 24 + 1
  OBVIOUS
<1> HIDE DEF columns, all
<1> QED  BY <1>1, <1>2, <1>3, <1>4, <1>5, SafeByAdding

LEMMA CoupleSafe == ASSUME NEW d, Boot!FromTheApp(d), Ready(d, 28) PROVE Safe(28, d)
<1> DEFINE columns == <<"is_couple">>
           all == {"is_couple"}
<1>1. AddsAt(28, columns)
  BY DEF AddsAt, Boot!Step, Boot!ensureIsCoupleColumn
<1>2. Lists(columns, all)
  BY DEF Lists, Boot!Columns, Boot!Table
<1>3. Six \subseteq d.tables /\ AllInTurn(d, all)
  BY DEF AllInTurn, Ready, InTurn, Boot!Has, Telling, Boot!Table
<1>4. Ready(Boot!Add(d, all), 29)
  <2>1. d \in Boot!Files /\ all \in SUBSET Boot!Columns
    BY DEF Boot!FromTheApp, Boot!Columns, Boot!Table
  <2>2. AllButShape(d, Boot!Add(d, all)) /\ Boot!Add(d, all).shape = d.shape \cup all
    BY <2>1, AddIs
  <2> QED  BY <2>2 DEF Ready, Boot!Has, AllButShape
<1>5. 29 = 28 + 1
  OBVIOUS
<1> HIDE DEF columns, all
<1> QED  BY <1>1, <1>2, <1>3, <1>4, <1>5, SafeByAdding

LEMMA BlockedSafe == ASSUME NEW d, Boot!FromTheApp(d), Ready(d, 29) PROVE Safe(29, d)
<1> DEFINE columns == <<"blocked">>
           all == {"blocked"}
<1>1. AddsAt(29, columns)
  BY DEF AddsAt, Boot!Step, Boot!ensureBlockedColumn
<1>2. Lists(columns, all)
  BY DEF Lists, Boot!Columns, Boot!Table
<1>3. Six \subseteq d.tables /\ AllInTurn(d, all)
  BY DEF AllInTurn, Ready, InTurn, Boot!Has, Telling, Boot!Table
<1>4. Ready(Boot!Add(d, all), 30)
  <2>1. d \in Boot!Files /\ all \in SUBSET Boot!Columns
    BY DEF Boot!FromTheApp, Boot!Columns, Boot!Table
  <2>2. AllButShape(d, Boot!Add(d, all)) /\ Boot!Add(d, all).shape = d.shape \cup all
    BY <2>1, AddIs
  <2> QED  BY <2>2 DEF Ready, Boot!Has, AllButShape
<1>5. 30 = 29 + 1
  OBVIOUS
<1> HIDE DEF columns, all
<1> QED  BY <1>1, <1>2, <1>3, <1>4, <1>5, SafeByAdding

LEMMA BugGuestSafe == ASSUME NEW d, Boot!FromTheApp(d), Ready(d, 31) PROVE Safe(31, d)
<1> DEFINE columns == <<"guest_id_null">>
           all == {"guest_id_null"}
<1>1. AddsAt(31, columns)
  BY DEF AddsAt, Boot!Step, Boot!ensureBugReportGuestIdNullable
<1>2. Lists(columns, all)
  BY DEF Lists, Boot!Columns, Boot!Table
<1>3. Six \subseteq d.tables /\ AllInTurn(d, all)
  BY DEF AllInTurn, Ready, InTurn, Boot!Has, Telling, Boot!Table
<1>4. Ready(Boot!Add(d, all), 32)
  <2>1. d \in Boot!Files /\ all \in SUBSET Boot!Columns
    BY DEF Boot!FromTheApp, Boot!Columns, Boot!Table
  <2>2. AllButShape(d, Boot!Add(d, all)) /\ Boot!Add(d, all).shape = d.shape \cup all
    BY <2>1, AddIs
  <2> QED  BY <2>2 DEF Ready, Boot!Has, AllButShape
<1>5. 32 = 31 + 1
  OBVIOUS
<1> HIDE DEF columns, all
<1> QED  BY <1>1, <1>2, <1>3, <1>4, <1>5, SafeByAdding
-----------------------------------------------------------------------------
(* The steps that are one statement or one transaction.                    *)

\* Nothing but some of its fields tells the databases apart.
Alike(d, x, F) ==
    /\ x \in Boot!Files /\ x.children = d.children
    /\ "tables" \in F \/ x.tables = d.tables
    /\ "shape" \in F \/ x.shape = d.shape
    /\ "values" \in F \/ x.values = d.values
    /\ "task" \in F \/ x.task = d.task
    /\ "photo" \in F \/ x.photo = d.photo
    /\ "guest" \in F \/ x.guest = d.guest
    /\ "badge" \in F \/ x.badge = d.badge
    /\ "codes" \in F \/ x.codes = d.codes
    /\ "held" \in F \/ x.held = d.held
    /\ "bloom" \in F \/ x.bloom = d.bloom
    /\ "bug" \in F \/ x.bug = d.bug
    /\ "crown" \in F \/ (x.selfLike = d.selfLike /\ x.crown = d.crown)

\* Nothing but some of the telling columns is in one and not in the other.
Tells(d, x, F) ==
    /\ "is_active" \in F \/ Boot!Has(x, "is_active") = Boot!Has(d, "is_active")
    /\ "worth_3_to_5" \in F \/ Boot!Has(x, "worth_3_to_5") = Boot!Has(d, "worth_3_to_5")
    /\ "taken_down_by" \in F \/ Boot!Has(x, "taken_down_by") = Boot!Has(d, "taken_down_by")
    /\ "avatar_point_awarded" \in F \/ Boot!Has(x, "avatar_point_awarded") = Boot!Has(d, "avatar_point_awarded")
    /\ "celebrated_at" \in F \/ Boot!Has(x, "celebrated_at") = Boot!Has(d, "celebrated_at")
    /\ "recap_checked_at" \in F \/ Boot!Has(x, "recap_checked_at") = Boot!Has(d, "recap_checked_at")
    /\ "status" \in F \/ Boot!Has(x, "status") = Boot!Has(d, "status")

\* Databases with the same in every field are one.
LEMMA AlikeIsSame ==
    ASSUME NEW d \in Boot!Files, NEW x, Alike(d, x, {})
    PROVE  x = d
  BY DEF Boot!Files, Alike

\* What a rebuild leaves, where the foreign keys are off.
Rebuilt(d, x, table, copied, new) ==
    /\ Alike(d, x, {"shape", "values"})
    /\ x.shape = (d.shape \ Boot!Table[table]) \cup (d.shape \cap copied) \cup new
    /\ x.values = d.values \ (Boot!Table[table] \ copied)

LEMMA RebuildIs ==
    ASSUME NEW d \in Boot!Files, NEW table \in DOMAIN Boot!Table, NEW copied, copied \subseteq Boot!Columns, NEW new, new \subseteq Boot!Columns
    PROVE  Rebuilt(d, Boot!Rebuild(d, table, copied, new), table, copied, new)
  BY DEF Boot!Files, Boot!Rebuild, Rebuilt, Alike, Boot!foreign_keys

LEMMA TablesAre ==
    DOMAIN Boot!Table = {"tasks", "submissions", "badges", "guest_badges", "guests", "bug_reports", "settings"}
  BY DEF Boot!Table

LEMMA ColumnsAre ==
    Boot!Columns = Boot!Table.tasks \cup Boot!Table.submissions \cup Boot!Table.badges \cup Boot!Table.guest_badges \cup Boot!Table.guests
              \cup Boot!Table.bug_reports \cup Boot!Table.settings
<1> DEFINE of(t) == Boot!Table[t]
<1>1. Boot!Columns = UNION {of(t) : t \in {"tasks", "submissions", "badges", "guest_badges", "guests", "bug_reports", "settings"}}
  BY TablesAre DEF Boot!Columns
<1> HIDE DEF of
<1>2. Boot!Columns = of("tasks") \cup of("submissions") \cup of("badges") \cup of("guest_badges") \cup of("guests")
                \cup of("bug_reports") \cup of("settings")
  BY <1>1
<1> QED  BY <1>2 DEF of

LEMMA WorthAndModeSafe == ASSUME NEW d, Boot!FromTheApp(d), Ready(d, 2) PROVE Safe(2, d)
<1> DEFINE r == Boot!Rebuild(d, "tasks", {}, {"special_mode"})
           y == [r EXCEPT !.task.worth = 1, !.task.mode = IF d.task.active THEN "none" ELSE "hidden"]
<1>0. d \in Boot!Files /\ Boot!Orderly(d) /\ d.children = Boot!Children
  BY DEF Boot!FromTheApp
<1>1. CASE Boot!Has(d, "special_mode") \/ ~Boot!Has(d, "is_active")
  <2>1. Boot!Step(2, d) = <<>>
    BY <1>1 DEF Boot!Step, Boot!ensureTaskWorthAndMode
  <2>2. Ready(d, 3)
    BY <1>0, <1>1 DEF Ready, Boot!Orderly, Boot!Has, Six, Boot!Table
  <2>3. 3 = 2 + 1
    OBVIOUS
  <2> QED  BY <2>1, <2>2, <2>3, SafeByNone
<1>2. CASE ~Boot!Has(d, "special_mode") /\ Boot!Has(d, "is_active")
  <2>1. Boot!Step(2, d) = <<y>>
    BY <1>2 DEF Boot!Step, Boot!ensureTaskWorthAndMode
  <2>2. /\ Alike(d, r, {"shape", "values"})
        /\ r.shape = (d.shape \ Boot!Table["tasks"]) \cup (d.shape \cap {}) \cup {"special_mode"}
        /\ r.values = d.values \ (Boot!Table["tasks"] \ {})
    <3>1. "tasks" \in DOMAIN Boot!Table
      BY TablesAre
    <3>2. {} \subseteq Boot!Columns /\ {"special_mode"} \subseteq Boot!Columns
      BY ColumnsAre DEF Boot!Table
    <3>3. Rebuilt(d, r, "tasks", {}, {"special_mode"})
      BY <1>0, <3>1, <3>2, RebuildIs
    <3> QED  BY <3>3 DEF Rebuilt
  <2> HIDE DEF r
  <2>3. /\ Alike(d, y, {"shape", "values", "task"}) /\ y.shape = r.shape /\ y.values = r.values
        /\ y.task.worth = 1 /\ y.task.mode = IF d.task.active THEN "none" ELSE "hidden"
    BY <1>0, <2>2 DEF Boot!Files, Alike
  <2> HIDE DEF y
  <2>4. y.shape = (d.shape \ {"is_active"}) \cup {"special_mode"} /\ y.values = d.values \ {"is_active"}
    BY <1>0, <1>2, <2>2, <2>3 DEF Boot!Orderly, Boot!Has, Boot!Table
  <2>5. ~Boot!Has(y, "is_active") /\ Boot!Has(y, "special_mode") /\ ~Boot!Has(d, "worth_3_to_5")
    BY <1>0, <1>2, <2>4 DEF Boot!Orderly, Boot!Has, Boot!Table
  <2>6. Boot!Step(2, y) = <<>>
    BY <2>5 DEF Boot!Step, Boot!ensureTaskWorthAndMode
  <2>7. Word(y) = Word(d)
    <3>1. ~Boot!Has(y, "worth_3_to_5") /\ Tells(d, y, {"is_active"})
      BY <2>4, <2>5 DEF Boot!Has, Tells
    <3> QED  BY <1>2, <2>3, <2>5, <3>1 DEF Word, Alike, Tells
  <2>8. Boot!Orderly(y)
    BY <1>0, <1>2, <2>3, <2>4 DEF Boot!Orderly, Boot!Has, Alike, Boot!Table, Boot!Indexes
  <2>9. Ready(y, 2 + 1)
    BY <2>3, <2>4 DEF Ready, Alike, Boot!Has
  <2> QED  BY <1>0, <2>1, <2>3, <2>4, <2>6, <2>7, <2>8, <2>9, SafeByOne DEF Same, Boot!FromTheApp, Alike, Boot!After, Boot!Retired
<1> QED  BY <1>1, <1>2

LEMMA SpecialDaySafe == ASSUME NEW d, Boot!FromTheApp(d), Ready(d, 3) PROVE Safe(3, d)
<1> DEFINE y == Boot!Rebuild(d, "tasks", {"special_mode"}, {"special_date"})
<1>0. d \in Boot!Files /\ Boot!Orderly(d) /\ d.children = Boot!Children
  BY DEF Boot!FromTheApp
<1>1. CASE Boot!Has(d, "special_date")
  <2>1. Boot!Step(3, d) = <<>>
    BY <1>1 DEF Boot!Step, Boot!ensureTaskSpecialDayColumns
  <2>2. Ready(d, 3 + 1)
    BY <1>1 DEF Ready
  <2> QED  BY <2>1, <2>2, SafeByNone
<1>2. CASE ~Boot!Has(d, "special_date")
  <2>1. Boot!Step(3, d) = <<y>>
    BY <1>2 DEF Boot!Step, Boot!ensureTaskSpecialDayColumns
  <2>2. /\ Alike(d, y, {"shape", "values"})
        /\ y.shape = (d.shape \ Boot!Table["tasks"]) \cup (d.shape \cap {"special_mode"}) \cup {"special_date"}
        /\ y.values = d.values \ (Boot!Table["tasks"] \ {"special_mode"})
    <3>1. "tasks" \in DOMAIN Boot!Table
      BY TablesAre
    <3>2. {"special_mode"} \subseteq Boot!Columns /\ {"special_date"} \subseteq Boot!Columns
      BY ColumnsAre DEF Boot!Table
    <3>3. Rebuilt(d, y, "tasks", {"special_mode"}, {"special_date"})
      BY <1>0, <3>1, <3>2, RebuildIs
    <3> QED  BY <3>3 DEF Rebuilt
  <2> HIDE DEF y
  <2>3. ~Boot!Has(d, "is_active") /\ Boot!Has(d, "special_mode")
    BY DEF Ready
  <2>4. y.shape = d.shape \cup {"special_date"} /\ y.values = d.values
    BY <1>0, <1>2, <2>2, <2>3 DEF Boot!Orderly, Boot!Has, Boot!Table
  <2>5. Boot!Step(3, y) = <<>>
    BY <2>4 DEF Boot!Step, Boot!ensureTaskSpecialDayColumns, Boot!Has
  <2>6. Word(y) = Word(d)
    <3>1. Tells(d, y, {})
      BY <2>4 DEF Boot!Has, Tells
    <3> QED  BY <2>2, <3>1, ZenonT(40) DEF Word, Alike, Tells
  <2>7. Boot!Orderly(y)
    BY <1>0, <2>2, <2>3, <2>4 DEF Boot!Orderly, Boot!Has, Alike, Boot!Table, Boot!Indexes
  <2>8. Ready(y, 3 + 1)
    BY <2>2, <2>4 DEF Ready, Alike, Boot!Has
  <2> QED  BY <1>0, <2>1, <2>2, <2>4, <2>5, <2>6, <2>7, <2>8, SafeByOne DEF Same, Boot!FromTheApp, Alike, Boot!After
<1> QED  BY <1>1, <1>2
LEMMA WorthRangeSafe == ASSUME NEW d, Boot!FromTheApp(d), Ready(d, 7) PROVE Safe(7, d)
<1> DEFINE r == Boot!Rebuild(d, "tasks", Boot!tasks, {"worth_3_to_5"})
           y == [r EXCEPT !.task.worth = @ + 2]
<1>0. d \in Boot!Files /\ Boot!Orderly(d) /\ d.children = Boot!Children
  BY DEF Boot!FromTheApp
<1>1. CASE Boot!Has(d, "worth_3_to_5")
  <2>1. Boot!Step(7, d) = <<>>
    BY <1>1 DEF Boot!Step, Boot!ensureTaskWorthRange
  <2>2. Ready(d, 7 + 1)
    BY <1>1 DEF Ready
  <2> QED  BY <2>1, <2>2, SafeByNone
<1>2. CASE ~Boot!Has(d, "worth_3_to_5")
  <2>1. Boot!Step(7, d) = <<y>>
    BY <1>2 DEF Boot!Step, Boot!ensureTaskWorthRange
  <2>2. /\ Alike(d, r, {"shape", "values"})
        /\ r.shape = (d.shape \ Boot!Table["tasks"]) \cup (d.shape \cap Boot!tasks) \cup {"worth_3_to_5"}
        /\ r.values = d.values \ (Boot!Table["tasks"] \ Boot!tasks)
    <3>1. "tasks" \in DOMAIN Boot!Table
      BY TablesAre
    <3>2. Boot!tasks \subseteq Boot!Columns /\ {"worth_3_to_5"} \subseteq Boot!Columns
      BY ColumnsAre DEF Boot!Table, Boot!tasks
    <3>3. Rebuilt(d, r, "tasks", Boot!tasks, {"worth_3_to_5"})
      BY <1>0, <3>1, <3>2, RebuildIs
    <3> QED  BY <3>3 DEF Rebuilt
  <2> HIDE DEF r
  <2>3. ~Boot!Has(d, "is_active") /\ Boot!Has(d, "special_mode") /\ Boot!Has(d, "special_date")
    BY DEF Ready
  <2>4. r.shape = d.shape \cup {"worth_3_to_5"} /\ r.values = d.values
    BY <1>0, <2>2, <2>3 DEF Boot!Orderly, Boot!Has, Boot!Table, Boot!tasks
  <2>5. Alike(d, y, {"shape", "task"}) /\ y.shape = r.shape /\ y.task.worth = d.task.worth + 2 /\ y.task.mode = d.task.mode
    BY <1>0, <2>2, <2>4 DEF Boot!Files, Alike
  <2> HIDE DEF y
  <2>6. Boot!Step(7, y) = <<>>
    BY <2>4, <2>5 DEF Boot!Step, Boot!ensureTaskWorthRange, Boot!Has
  <2>7. Word(y) = Word(d)
    <3>1. Boot!Has(y, "worth_3_to_5") /\ Tells(d, y, {"worth_3_to_5"})
      BY <2>4, <2>5 DEF Boot!Has, Tells
    <3> QED  BY <1>2, <2>3, <2>5, <3>1 DEF Word, Alike, Tells
  <2>8. Boot!Orderly(y)
    BY <1>0, <2>3, <2>4, <2>5 DEF Boot!Orderly, Boot!Has, Alike, Boot!Table, Boot!Indexes, Ready, Six
  <2>9. Ready(y, 7 + 1)
    BY <2>4, <2>5 DEF Ready, Alike, Boot!Has
  <2> QED  BY <1>0, <2>1, <2>4, <2>5, <2>6, <2>7, <2>8, <2>9, SafeByOne DEF Same, Boot!FromTheApp, Alike, Boot!After
<1> QED  BY <1>1, <1>2

LEMMA BadgeTypeSafe == ASSUME NEW d, Boot!FromTheApp(d), Ready(d, 9) PROVE Safe(9, d)
<1> DEFINE y == Boot!Rebuild(d, "badges", {}, {"metric"})
<1>0. d \in Boot!Files /\ Boot!Orderly(d) /\ d.children = Boot!Children
  BY DEF Boot!FromTheApp
<1>1. CASE Boot!Has(d, "metric")
  <2>1. Boot!Step(9, d) = <<>>
    BY <1>1 DEF Boot!Step, Boot!ensureBadgeTypeCheckWidened
  <2>2. Ready(d, 9 + 1)
    BY <1>1 DEF Ready
  <2> QED  BY <2>1, <2>2, SafeByNone
<1>2. CASE ~Boot!Has(d, "metric")
  <2>1. Boot!Step(9, d) = <<y>>
    BY <1>2 DEF Boot!Step, Boot!ensureBadgeTypeCheckWidened
  <2>2. /\ Alike(d, y, {"shape", "values"})
        /\ y.shape = (d.shape \ Boot!Table["badges"]) \cup (d.shape \cap {}) \cup {"metric"}
        /\ y.values = d.values \ (Boot!Table["badges"] \ {})
    <3>1. "badges" \in DOMAIN Boot!Table
      BY TablesAre
    <3>2. {} \subseteq Boot!Columns /\ {"metric"} \subseteq Boot!Columns
      BY ColumnsAre DEF Boot!Table
    <3>3. Rebuilt(d, y, "badges", {}, {"metric"})
      BY <1>0, <3>1, <3>2, RebuildIs
    <3> QED  BY <3>3 DEF Rebuilt
  <2> HIDE DEF y
  <2>3. y.shape = d.shape \cup {"metric"} /\ y.values = d.values
    BY <1>0, <1>2, <2>2 DEF Boot!Orderly, Boot!Has, Boot!Table, Boot!Indexes
  <2>4. Boot!Step(9, y) = <<>>
    BY <2>3 DEF Boot!Step, Boot!ensureBadgeTypeCheckWidened, Boot!Has
  <2>5. Word(y) = Word(d)
    <3>1. Tells(d, y, {})
      BY <1>0, <1>2, <2>3 DEF Boot!Has, Tells, Boot!Orderly, Boot!Table, Boot!Indexes
    <3> QED  BY <2>2, <3>1, ZenonT(40) DEF Word, Alike, Tells
  <2>6. Boot!Orderly(y)
    BY <1>0, <2>2, <2>3 DEF Boot!Orderly, Boot!Has, Alike, Boot!Table, Boot!Indexes, Ready, Six
  <2>7. Ready(y, 9 + 1)
    BY <2>2, <2>3 DEF Ready, Alike, Boot!Has
  <2> QED  BY <1>0, <2>1, <2>2, <2>3, <2>4, <2>5, <2>6, <2>7, SafeByOne DEF Same, Boot!FromTheApp, Alike, Boot!After
<1> QED  BY <1>1, <1>2

LEMMA CascadeSafe == ASSUME NEW d, Boot!FromTheApp(d), Ready(d, 12) PROVE Safe(12, d)
<1> DEFINE y == Boot!Rebuild(d, "guest_badges", {"points", "note", "submission_id"}, {"cascade"})
<1>0. d \in Boot!Files /\ Boot!Orderly(d) /\ d.children = Boot!Children
  BY DEF Boot!FromTheApp
<1>1. CASE Boot!Has(d, "cascade")
  <2>1. Boot!Step(12, d) = <<>>
    BY <1>1 DEF Boot!Step, Boot!ensureGuestBadgeSubmissionCascade
  <2>2. Ready(d, 12 + 1)
    BY <1>1 DEF Ready
  <2> QED  BY <2>1, <2>2, SafeByNone
<1>2. CASE ~Boot!Has(d, "cascade")
  <2>1. Boot!Step(12, d) = <<y>>
    BY <1>2 DEF Boot!Step, Boot!ensureGuestBadgeSubmissionCascade, Ready, Boot!Has
  <2>2. /\ Alike(d, y, {"shape", "values"})
        /\ y.shape = (d.shape \ Boot!Table["guest_badges"]) \cup (d.shape \cap {"points", "note", "submission_id"}) \cup {"cascade"}
        /\ y.values = d.values \ (Boot!Table["guest_badges"] \ {"points", "note", "submission_id"})
    <3>1. "guest_badges" \in DOMAIN Boot!Table
      BY TablesAre
    <3>2. {"points", "note", "submission_id"} \subseteq Boot!Columns /\ {"cascade"} \subseteq Boot!Columns
      BY ColumnsAre DEF Boot!Table
    <3>3. Rebuilt(d, y, "guest_badges", {"points", "note", "submission_id"}, {"cascade"})
      BY <1>0, <3>1, <3>2, RebuildIs
    <3> QED  BY <3>3 DEF Rebuilt
  <2> HIDE DEF y
  <2>3. y.shape = d.shape \cup {"cascade"} /\ y.values = d.values
    BY <1>0, <1>2, <2>2 DEF Boot!Orderly, Boot!Has, Boot!Table, Boot!Indexes
  <2>4. Boot!Step(12, y) = <<>>
    BY <2>3 DEF Boot!Step, Boot!ensureGuestBadgeSubmissionCascade, Boot!Has
  <2>5. Word(y) = Word(d)
    <3>1. Tells(d, y, {})
      BY <1>0, <1>2, <2>3 DEF Boot!Has, Tells, Boot!Orderly, Boot!Table, Boot!Indexes
    <3> QED  BY <2>2, <3>1, ZenonT(40) DEF Word, Alike, Tells
  <2>6. Boot!Orderly(y)
    BY <1>0, <2>2, <2>3 DEF Boot!Orderly, Boot!Has, Alike, Boot!Table, Boot!Indexes, Ready, Six
  <2>7. Ready(y, 12 + 1)
    BY <2>2, <2>3 DEF Ready, Alike, Boot!Has
  <2> QED  BY <1>0, <2>1, <2>2, <2>3, <2>4, <2>5, <2>6, <2>7, SafeByOne DEF Same, Boot!FromTheApp, Alike, Boot!After
<1> QED  BY <1>1, <1>2

LEMMA TaskIdNullableSafe == ASSUME NEW d, Boot!FromTheApp(d), Ready(d, 17) PROVE Safe(17, d)
<1> DEFINE y == Boot!Rebuild(d, "submissions", {"photo_bonus"}, {"task_id_null", "photo_index", "thumb_index"})
<1>0. d \in Boot!Files /\ Boot!Orderly(d) /\ d.children = Boot!Children
  BY DEF Boot!FromTheApp
<1>1. CASE Boot!Has(d, "task_id_null")
  <2>1. Boot!Step(17, d) = <<>>
    BY <1>1 DEF Boot!Step, Boot!ensureTaskIdNullable
  <2>2. Ready(d, 17 + 1)
    BY <1>1 DEF Ready
  <2> QED  BY <2>1, <2>2, SafeByNone
<1>2. CASE ~Boot!Has(d, "task_id_null")
  <2>1. Boot!Step(17, d) = <<y>>
    BY <1>2 DEF Boot!Step, Boot!ensureTaskIdNullable
  <2>2. /\ Alike(d, y, {"shape", "values"})
        /\ y.shape = (d.shape \ Boot!Table["submissions"]) \cup (d.shape \cap {"photo_bonus"}) \cup {"task_id_null", "photo_index", "thumb_index"}
        /\ y.values = d.values \ (Boot!Table["submissions"] \ {"photo_bonus"})
    <3>1. "submissions" \in DOMAIN Boot!Table
      BY TablesAre
    <3>2. {"photo_bonus"} \subseteq Boot!Columns /\ {"task_id_null", "photo_index", "thumb_index"} \subseteq Boot!Columns
      BY ColumnsAre DEF Boot!Table
    <3>3. Rebuilt(d, y, "submissions", {"photo_bonus"}, {"task_id_null", "photo_index", "thumb_index"})
      BY <1>0, <3>1, <3>2, RebuildIs
    <3> QED  BY <3>3 DEF Rebuilt
  <2> HIDE DEF y
  <2>3. y.shape = (d.shape \ {"guest_index"}) \cup {"task_id_null", "photo_index", "thumb_index"} /\ y.values = d.values
    BY <1>0, <1>2, <2>2 DEF Boot!Orderly, Boot!Has, Boot!Table, Boot!Indexes
  <2>4. Boot!Step(17, y) = <<>>
    BY <2>3 DEF Boot!Step, Boot!ensureTaskIdNullable, Boot!Has
  <2>5. Word(y) = Word(d)
    <3>1. Tells(d, y, {})
      BY <1>0, <1>2, <2>3 DEF Boot!Has, Tells, Boot!Orderly, Boot!Table, Boot!Indexes
    <3> QED  BY <2>2, <3>1, ZenonT(40) DEF Word, Alike, Tells
  <2>6. Boot!Orderly(y)
    BY <1>0, <2>2, <2>3 DEF Boot!Orderly, Boot!Has, Alike, Boot!Table, Boot!Indexes, Ready, Six
  <2>7. Ready(y, 17 + 1)
    BY <2>2, <2>3 DEF Ready, Alike, Boot!Has
  <2> QED  BY <1>0, <2>1, <2>2, <2>3, <2>4, <2>5, <2>6, <2>7, SafeByOne DEF Same, Boot!FromTheApp, Alike, Boot!After
<1> QED  BY <1>1, <1>2
LEMMA SafeByTwo ==
    ASSUME NEW i, NEW d, NEW x, NEW y, x \in Boot!Files, y \in Boot!Files, Boot!Step(i, d) = <<x, y>>, Same(d, x), Same(d, y),
           NEW u, Boot!Step(i, x) = <<u, y>>, NEW v, Boot!Step(i, y) = <<v, y>>, Ready(y, i + 1)
    PROVE  Safe(i, d)
<1> DEFINE path == <<x, y>>
<1>1. path \in Seq(Boot!Files) /\ Len(path) = 2 /\ path[1] = x /\ path[2] = y
  OBVIOUS
<1>2. \A w : \A z : Boot!After(<<w, y>>, z) = y
  <2>1. \A w : <<w, y>> # <<>> /\ <<w, y>>[Len(<<w, y>>)] = y
    OBVIOUS
  <2> QED  BY <2>1 DEF Boot!After
<1>3. Boot!After(path, d) = y /\ Boot!After(Boot!Step(i, x), x) = y /\ Boot!After(Boot!Step(i, y), y) = y
  BY <1>2
<1>4. ASSUME NEW k \in 1 .. Len(path)
      PROVE  Same(d, path[k]) /\ Boot!After(Boot!Step(i, path[k]), path[k]) = Boot!After(path, d)
  <2>1. k = 1 \/ k = 2
    BY <1>1
  <2> QED  BY <1>1, <1>3, <2>1
<1> HIDE DEF path
<1>5. Boot!Step(i, d) = path
  BY DEF path
<1> QED  BY <1>1, <1>3, <1>4, <1>5 DEF Safe

LEMMA WinnersSafe == ASSUME NEW d, Boot!FromTheApp(d), Ready(d, 22) PROVE Safe(22, d)
<1> DEFINE y == [d EXCEPT !.tables = @ \ {"badge_winners"}]
           z == [y EXCEPT !.tables = @ \ {"badge_winners"}]
<1>0. d \in Boot!Files /\ Boot!Orderly(d) /\ d.children = Boot!Children
  BY DEF Boot!FromTheApp
<1>1. Boot!Step(22, d) = <<y>> /\ Boot!Step(22, y) = <<z>>
  BY DEF Boot!Step, Boot!ensureBadgeWinnersTableDropped
<1>2. Alike(d, y, {"tables"}) /\ y.tables = d.tables \ {"badge_winners"}
  BY <1>0 DEF Boot!Files, Alike
<1>3. z = y
  BY <1>0 DEF Boot!Files
<1> HIDE DEF y, z
<1>4. Word(y) = Word(d)
  BY <1>2 DEF Word, Alike, Boot!Has
<1>5. Boot!Orderly(y)
  BY <1>0, <1>2 DEF Boot!Orderly, Alike, Boot!Has, Boot!Table
<1>6. Ready(y, 22 + 1)
  BY <1>2 DEF Ready, Alike, Boot!Has, Six
<1>7. Same(d, y) /\ y \in Boot!Files
  BY <1>0, <1>2, <1>4, <1>5 DEF Same, Boot!FromTheApp, Alike, Six
<1>8. Boot!After(<<y>>, y) = y
  BY DEF Boot!After
<1> QED  BY <1>1, <1>3, <1>6, <1>7, <1>8, SafeByOne

LEMMA TakenDownBySafe == ASSUME NEW d, Boot!FromTheApp(d), Ready(d, 25) PROVE Safe(25, d)
<1> DEFINE r == Boot!Add(d, {"taken_down_by"})
           y == [r EXCEPT !.photo.by = IF d.photo.down THEN "admin" ELSE "nobody"]
<1>0. d \in Boot!Files /\ Boot!Orderly(d) /\ d.children = Boot!Children
  BY DEF Boot!FromTheApp
<1>1. CASE Boot!Has(d, "taken_down_by")
  <2>1. Boot!Step(25, d) = <<>>
    BY <1>1 DEF Boot!Step, Boot!ensureTakenDownByColumn
  <2>2. Ready(d, 25 + 1)
    BY <1>1 DEF Ready
  <2> QED  BY <2>1, <2>2, SafeByNone
<1>2. CASE ~Boot!Has(d, "taken_down_by")
  <2>1. Boot!Step(25, d) = <<y>>
    BY <1>2 DEF Boot!Step, Boot!ensureTakenDownByColumn
  <2>2. AllButShape(d, r) /\ r.shape = d.shape \cup {"taken_down_by"}
    <3>1. {"taken_down_by"} \in SUBSET Boot!Columns
      BY DEF Boot!Columns, Boot!Table
    <3> QED  BY <1>0, <3>1, AddIs
  <2> HIDE DEF r
  <2>3. /\ Alike(d, y, {"shape", "photo"}) /\ y.shape = d.shape \cup {"taken_down_by"}
        /\ y.photo.by = IF d.photo.down THEN "admin" ELSE "nobody"
    BY <1>0, <2>2 DEF Boot!Files, Alike, AllButShape
  <2> HIDE DEF y
  <2>4. Boot!Step(25, y) = <<>>
    BY <2>3 DEF Boot!Step, Boot!ensureTakenDownByColumn, Boot!Has
  <2>5. Word(y) = Word(d)
    <3>1. Boot!Has(y, "taken_down_by") /\ Tells(d, y, {"taken_down_by"})
      BY <2>3 DEF Boot!Has, Tells
    <3> QED  BY <1>2, <2>3, <3>1, ZenonT(40) DEF Word, Alike, Tells
  <2>6. Boot!Orderly(y)
    <3>1. Boot!Has(d, "task_id_null") /\ Boot!Has(d, "special_date") /\ ~Boot!Has(d, "is_active")
      BY DEF Ready, Boot!Has
    <3> QED  BY <1>0, <2>3, <3>1 DEF Boot!Orderly, Boot!Has, Alike, Boot!Table, Ready, Six
  <2>7. Ready(y, 25 + 1)
    BY <2>3 DEF Ready, Alike, Boot!Has
  <2> QED  BY <1>0, <2>1, <2>3, <2>4, <2>5, <2>6, <2>7, SafeByOne DEF Same, Boot!FromTheApp, Alike, Boot!After
<1> QED  BY <1>1, <1>2

LEMMA AvatarPointSafe == ASSUME NEW d, Boot!FromTheApp(d), Ready(d, 26) PROVE Safe(26, d)
<1> DEFINE less == IF d.guest.flagged /\ d.guest.points > 0 THEN d.guest.points - 1 ELSE d.guest.points
           y == [d EXCEPT !.shape = @ \ {"avatar_point_awarded"}, !.values = @ \ {"avatar_point_awarded"},
                          !.guest.points = less]
<1>0. d \in Boot!Files /\ Boot!Orderly(d) /\ d.children = Boot!Children
  BY DEF Boot!FromTheApp
<1>1. CASE ~Boot!Has(d, "avatar_point_awarded")
  <2>1. Boot!Step(26, d) = <<>>
    BY <1>1 DEF Boot!Step, Boot!ensureAvatarPointAwardedRetired
  <2>2. Ready(d, 26 + 1)
    BY <1>1 DEF Ready
  <2> QED  BY <2>1, <2>2, SafeByNone
<1>2. CASE Boot!Has(d, "avatar_point_awarded")
  <2>1. Boot!Step(26, d) = <<y>>
    BY <1>2 DEF Boot!Step, Boot!ensureAvatarPointAwardedRetired
  <2>2. d.guest.points \in Nat /\ less \in Nat
    BY <1>0 DEF Boot!Files
  <2> HIDE DEF less
  <2>3. /\ Alike(d, y, {"shape", "values", "guest"}) /\ y.shape = d.shape \ {"avatar_point_awarded"}
        /\ y.values = d.values \ {"avatar_point_awarded"}
        /\ y.guest.points = less /\ y.guest.checked = d.guest.checked
    BY <1>0, <2>2 DEF Boot!Files, Alike
  <2> HIDE DEF y
  <2>4. Boot!Step(26, y) = <<>>
    BY <2>3 DEF Boot!Step, Boot!ensureAvatarPointAwardedRetired, Boot!Has
  <2>5. Word(y) = Word(d)
    <3>1. ~Boot!Has(y, "avatar_point_awarded") /\ Tells(d, y, {"avatar_point_awarded"})
      BY <2>3 DEF Boot!Has, Tells
    <3> QED  BY <1>2, <2>3, <3>1, ZenonT(40) DEF Word, Alike, Tells, less
  <2>6. Boot!Orderly(y)
    BY <1>0, <2>3 DEF Boot!Orderly, Boot!Has, Alike, Boot!Table, Boot!Indexes
  <2>7. Ready(y, 26 + 1)
    BY <2>3 DEF Ready, Alike, Boot!Has
  <2> QED  BY <1>0, <2>1, <2>3, <2>4, <2>5, <2>6, <2>7, SafeByOne DEF Same, Boot!FromTheApp, Alike, Boot!After, Boot!Retired
<1> QED  BY <1>1, <1>2

\* A database with one more table than another, if it was missing.
OneTableMore(d, x, table, columns) ==
    /\ Alike(d, x, {"tables", "shape"}) /\ x.tables = d.tables \cup {table}
    /\ x.shape = IF table \in d.tables THEN d.shape ELSE d.shape \cup columns
    /\ table \in d.tables => x = d

LEMMA CreateTableIs ==
    ASSUME NEW d \in Boot!Files, NEW table \in DOMAIN Boot!Table, NEW columns, columns \subseteq Boot!Columns
    PROVE  OneTableMore(d, Boot!CreateTable(d, table, columns), table, columns)
<1>1. CASE table \in d.tables
  <2>1. Boot!CreateTable(d, table, columns) = d /\ d.tables \cup {table} = d.tables
    BY <1>1 DEF Boot!CreateTable
  <2> QED  BY <1>1, <2>1 DEF Alike, OneTableMore
<1>2. CASE table \notin d.tables
  <2> DEFINE x == [d EXCEPT !.tables = @ \cup {table}, !.shape = @ \cup columns]
  <2>1. Boot!CreateTable(d, table, columns) = x
    BY <1>2 DEF Boot!CreateTable
  <2>2. d.tables \cup {table} \subseteq DOMAIN Boot!Table \cup {"badge_winners"} /\ d.shape \cup columns \subseteq Boot!Columns
    BY DEF Boot!Files
  <2>3. Alike(d, x, {"tables", "shape"}) /\ x.tables = d.tables \cup {table} /\ x.shape = d.shape \cup columns
    BY <2>2 DEF Boot!Files, Alike
  <2> HIDE DEF x
  <2> QED  BY <1>2, <2>1, <2>3 DEF OneTableMore
<1> QED  BY <1>1, <1>2

LEMMA SettingsSafe == ASSUME NEW d, Boot!FromTheApp(d), Ready(d, 32) PROVE Safe(32, d)
<1> DEFINE y == Boot!CreateTable(d, "settings", {})
<1>0. d \in Boot!Files /\ Boot!Orderly(d) /\ d.children = Boot!Children
  BY DEF Boot!FromTheApp
<1>1. Boot!Step(32, d) = <<y>> /\ Boot!Step(32, y) = <<Boot!CreateTable(y, "settings", {})>>
  BY DEF Boot!Step, Boot!ensureSettingsTable
<1>2. Alike(d, y, {"tables"}) /\ y.tables = d.tables \cup {"settings"}
  <2>1. "settings" \in DOMAIN Boot!Table
    BY TablesAre
  <2>2. OneTableMore(d, y, "settings", {})
    BY <1>0, <2>1, CreateTableIs
  <2> QED  BY <2>2 DEF Alike, OneTableMore
<1>3. Boot!CreateTable(y, "settings", {}) = y
  BY <1>2 DEF Boot!CreateTable
<1> HIDE DEF y
<1>4. Word(y) = Word(d)
  BY <1>2 DEF Word, Alike, Boot!Has
<1>5. Boot!Orderly(y)
  BY <1>0, <1>2 DEF Boot!Orderly, Alike, Boot!Has, Boot!Table
<1>6. Ready(y, 32 + 1)
  BY <1>2 DEF Ready, Alike, Boot!Has, Six
<1>7. Same(d, y) /\ y \in Boot!Files
  BY <1>0, <1>2, <1>4, <1>5 DEF Same, Boot!FromTheApp, Alike
<1>8. Boot!After(<<y>>, y) = y
  BY DEF Boot!After
<1> QED  BY <1>1, <1>3, <1>6, <1>7, <1>8, SafeByOne
-----------------------------------------------------------------------------
(* The steps of two statements that may be made again.                     *)

LEMMA UpsertIs ==
    ASSUME NEW d \in Boot!Files, NEW code \in {"BLOOM", "COMPLETIONIST"}
    PROVE  LET t == IF code \in d.codes THEN d.bloom.threshold ELSE 5
           IN  /\ Alike(d, Boot!Upsert(d, code), {"codes", "bloom"})
               /\ Boot!Upsert(d, code).codes = d.codes \cup {code}
               /\ Boot!Upsert(d, code).bloom = IF code = "BLOOM" THEN [threshold |-> t, described |-> t] ELSE d.bloom
<1>1. CASE code = "BLOOM" /\ code \in d.codes
  BY <1>1 DEF Boot!Files, Boot!Upsert, Alike, Boot!Codes
<1>2. CASE code = "BLOOM" /\ code \notin d.codes
  BY <1>2 DEF Boot!Files, Boot!Upsert, Alike, Boot!Codes
<1>3. CASE code = "COMPLETIONIST"
  BY <1>3 DEF Boot!Files, Boot!Upsert, Alike, Boot!Codes
<1> QED  BY <1>1, <1>2, <1>3

LEMMA CatalogSafe == ASSUME NEW d, Boot!FromTheApp(d), Ready(d, 19) PROVE Safe(19, d)
<1> DEFINE x == Boot!Upsert(d, "BLOOM")
           y == Boot!Upsert(x, "COMPLETIONIST")
<1>0. d \in Boot!Files /\ Boot!Orderly(d) /\ d.children = Boot!Children
  BY DEF Boot!FromTheApp
<1>1. Boot!Step(19, d) = <<x, y>>
  BY DEF Boot!Step, Boot!ensureBadgeCatalog
<1>2. /\ Alike(d, x, {"codes", "bloom"}) /\ x.codes = d.codes \cup {"BLOOM"}
      /\ x.bloom.described = x.bloom.threshold /\ x.bloom = [threshold |-> x.bloom.threshold, described |-> x.bloom.threshold]
      /\ x.bloom.threshold = IF "BLOOM" \in d.codes THEN d.bloom.threshold ELSE 5
  <2> DEFINE t == IF "BLOOM" \in d.codes THEN d.bloom.threshold ELSE 5
  <2>1. Alike(d, x, {"codes", "bloom"}) /\ x.codes = d.codes \cup {"BLOOM"} /\ x.bloom = [threshold |-> t, described |-> t]
    BY <1>0, UpsertIs
  <2> HIDE DEF x, t
  <2>2. x.bloom.threshold = t /\ x.bloom.described = t
    BY <2>1
  <2> QED  BY <2>1, <2>2 DEF t
<1> HIDE DEF x
<1>3. Alike(x, y, {"codes"}) /\ y.codes = x.codes \cup {"COMPLETIONIST"}
  <2>1. x \in Boot!Files
    BY <1>2 DEF Alike
  <2>2. Alike(x, y, {"codes", "bloom"}) /\ y.codes = x.codes \cup {"COMPLETIONIST"} /\ y.bloom = x.bloom
    BY <2>1, UpsertIs
  <2> QED  BY <2>2 DEF Alike
<1> HIDE DEF y
<1>4. x \in Boot!Files /\ y \in Boot!Files
  BY <1>2, <1>3 DEF Alike
<1>5. Boot!Upsert(x, "BLOOM") = x
  <2>1. /\ Alike(x, Boot!Upsert(x, "BLOOM"), {"codes", "bloom"}) /\ Boot!Upsert(x, "BLOOM").codes = x.codes \cup {"BLOOM"}
        /\ Boot!Upsert(x, "BLOOM").bloom = [threshold |-> x.bloom.threshold, described |-> x.bloom.threshold]
    BY <1>2, <1>4, UpsertIs
  <2>2. Alike(x, Boot!Upsert(x, "BLOOM"), {})
    BY <1>2, <2>1 DEF Alike
  <2> QED  BY <1>4, <2>2, AlikeIsSame
<1>6. Boot!Upsert(y, "BLOOM") = y
  <2>1. "BLOOM" \in y.codes /\ y.bloom = x.bloom
    BY <1>2, <1>3 DEF Alike
  <2>2. /\ Alike(y, Boot!Upsert(y, "BLOOM"), {"codes", "bloom"}) /\ Boot!Upsert(y, "BLOOM").codes = y.codes \cup {"BLOOM"}
        /\ Boot!Upsert(y, "BLOOM").bloom = [threshold |-> y.bloom.threshold, described |-> y.bloom.threshold]
    BY <1>4, <2>1, UpsertIs
  <2>3. Alike(y, Boot!Upsert(y, "BLOOM"), {})
    BY <1>2, <2>1, <2>2 DEF Alike
  <2> QED  BY <1>4, <2>3, AlikeIsSame
<1>7. Boot!Upsert(y, "COMPLETIONIST") = y
  <2>1. /\ Alike(y, Boot!Upsert(y, "COMPLETIONIST"), {"codes", "bloom"})
        /\ Boot!Upsert(y, "COMPLETIONIST").codes = y.codes \cup {"COMPLETIONIST"}
        /\ Boot!Upsert(y, "COMPLETIONIST").bloom = y.bloom
    BY <1>4, UpsertIs
  <2>2. Alike(y, Boot!Upsert(y, "COMPLETIONIST"), {})
    BY <1>3, <2>1 DEF Alike
  <2> QED  BY <1>4, <2>2, AlikeIsSame
<1>8. Boot!Step(19, x) = <<x, y>> /\ Boot!Step(19, y) = <<y, y>>
  <2>1. y = Boot!Upsert(x, "COMPLETIONIST")
    BY DEF y
  <2> QED  BY <1>5, <1>6, <1>7, <2>1 DEF Boot!Step, Boot!ensureBadgeCatalog
<1>9. Alike(d, y, {"codes", "bloom"}) /\ y.bloom = x.bloom /\ "BLOOM" \in y.codes /\ "COMPLETIONIST" \in y.codes
  BY <1>2, <1>3 DEF Alike
<1>10. ASSUME NEW z, Alike(d, z, {"codes", "bloom"}), "BLOOM" \in z.codes, z.bloom = x.bloom PROVE Same(d, z)
  <2>1. Word(z) = Word(d)
    BY <1>2, <1>10 DEF Word, Alike, Boot!Has
  <2>2. Boot!Orderly(z)
    BY <1>0, <1>10 DEF Boot!Orderly, Alike, Boot!Has
  <2> QED  BY <1>0, <1>10, <2>1, <2>2 DEF Same, Boot!FromTheApp, Alike
<1>11. Same(d, x) /\ Same(d, y)
  BY <1>2, <1>9, <1>10
<1>12. Ready(y, 19 + 1)
  BY <1>2, <1>9 DEF Ready, Alike, Boot!Has
<1> QED  BY <1>1, <1>4, <1>8, <1>11, <1>12, SafeByTwo

LEMMA RetireIs ==
    ASSUME NEW i, NEW code \in {"MOSTLIKED", "CROWDFAV"}, \A z : Boot!Step(i, z) = Boot!Retire(z, code),
           NEW d, Boot!FromTheApp(d), Six \subseteq d.tables
    PROVE  LET x == [d EXCEPT !.held = @ \ {code}]
               y == [x EXCEPT !.codes = @ \ {code}]
           IN  /\ Alike(d, y, {"codes", "held"}) /\ y.codes = d.codes \ {code} /\ y.held = d.held \ {code}
               /\ Ready(y, i + 1) => Safe(i, d)
<1> DEFINE x == [d EXCEPT !.held = @ \ {code}]
           y == [x EXCEPT !.codes = @ \ {code}]
<1>0. d \in Boot!Files /\ Boot!Orderly(d) /\ d.children = Boot!Children
  BY DEF Boot!FromTheApp
<1>1. Alike(d, x, {"held"}) /\ x.held = d.held \ {code}
  BY <1>0 DEF Boot!Files, Alike
<1>2. Boot!Step(i, d) = <<x, y>>
  BY DEF Boot!Retire
<1>3. Boot!Step(i, x) = <<[x EXCEPT !.held = @ \ {code}], [[x EXCEPT !.held = @ \ {code}] EXCEPT !.codes = @ \ {code}]>>
  BY DEF Boot!Retire
<1> HIDE DEF x
<1>4. x \in Boot!Files
  BY <1>1 DEF Alike
<1>5. Alike(x, y, {"codes"}) /\ y.codes = x.codes \ {code}
  BY <1>4 DEF Boot!Files, Alike
<1>6. Boot!Step(i, y) = <<[y EXCEPT !.held = @ \ {code}], [[y EXCEPT !.held = @ \ {code}] EXCEPT !.codes = @ \ {code}]>>
  BY DEF Boot!Retire
<1>7. y = [x EXCEPT !.codes = @ \ {code}]
  OBVIOUS
<1> HIDE DEF y
<1>8. y \in Boot!Files /\ Alike(d, y, {"codes", "held"}) /\ y.codes = d.codes \ {code} /\ y.held = d.held \ {code}
  BY <1>1, <1>5 DEF Alike
<1>9. [x EXCEPT !.held = @ \ {code}] = x
  <2>1. x.held \ {code} = x.held
    BY <1>1
  <2> QED  BY <1>4, <2>1 DEF Boot!Files
<1>10. [y EXCEPT !.held = @ \ {code}] = y /\ [y EXCEPT !.codes = @ \ {code}] = y
  <2>1. y.held \ {code} = y.held /\ y.codes \ {code} = y.codes
    BY <1>8
  <2> QED  BY <1>8, <2>1 DEF Boot!Files
<1>11. Boot!Step(i, x) = <<x, y>> /\ Boot!Step(i, y) = <<y, y>>
  BY <1>3, <1>6, <1>7, <1>9, <1>10
<1>12. ASSUME NEW z, Alike(d, z, {"codes", "held"}), z.codes = d.codes \/ z.codes = d.codes \ {code}, z.held = d.held \ {code}
       PROVE  Same(d, z)
  <2>1. ("BLOOM" \in z.codes) = ("BLOOM" \in d.codes) /\ ("BLOOM" \in z.held) = ("BLOOM" \in d.held)
        /\ ("COMPLETIONIST" \in z.held) = ("COMPLETIONIST" \in d.held)
        /\ z.held \ {"MOSTLIKED", "CROWDFAV"} = d.held \ {"MOSTLIKED", "CROWDFAV"}
    BY <1>12
  <2>2. Word(z) = Word(d)
    BY <1>12, <2>1 DEF Word, Alike, Boot!Has
  <2>3. Boot!Orderly(z)
    BY <1>0, <1>12 DEF Boot!Orderly, Alike, Boot!Has
  <2> QED  BY <1>0, <1>12, <2>2, <2>3 DEF Same, Boot!FromTheApp, Alike
<1>13. Same(d, x) /\ Same(d, y)
  <2>1. Alike(d, x, {"codes", "held"}) /\ x.codes = d.codes
    BY <1>1 DEF Alike
  <2> QED  BY <1>1, <1>8, <1>12, <2>1
<1>14. Ready(y, i + 1) => Safe(i, d)
  BY <1>2, <1>4, <1>8, <1>11, <1>13, SafeByTwo
<1> QED  BY <1>8, <1>14 DEF x, y

LEMMA RetiredSafe == ASSUME NEW d, Boot!FromTheApp(d), Ready(d, 20) PROVE Safe(20, d)
<1> DEFINE x == [d EXCEPT !.held = @ \ {"MOSTLIKED"}]
           y == [x EXCEPT !.codes = @ \ {"MOSTLIKED"}]
<1>1. (\A z : Boot!Step(20, z) = Boot!Retire(z, "MOSTLIKED")) /\ Six \subseteq d.tables
  BY DEF Boot!Step, Boot!ensureRetiredBadgesRemoved, Ready
<1>2. /\ Alike(d, y, {"codes", "held"}) /\ y.codes = d.codes \ {"MOSTLIKED"} /\ y.held = d.held \ {"MOSTLIKED"}
      /\ Ready(y, 20 + 1) => Safe(20, d)
  BY <1>1, RetireIs
<1> HIDE DEF y
<1>3. Ready(y, 20 + 1)
  BY <1>2 DEF Ready, Alike, Boot!Has
<1> QED  BY <1>2, <1>3

LEMMA CollisionsSafe == ASSUME NEW d, Boot!FromTheApp(d), Ready(d, 21) PROVE Safe(21, d)
<1> DEFINE x == [d EXCEPT !.held = @ \ {"CROWDFAV"}]
           y == [x EXCEPT !.codes = @ \ {"CROWDFAV"}]
<1>1. (\A z : Boot!Step(21, z) = Boot!Retire(z, "CROWDFAV")) /\ Six \subseteq d.tables
  BY DEF Boot!Step, Boot!ensureSpecialBadgeCollisionsRemoved, Ready
<1>2. /\ Alike(d, y, {"codes", "held"}) /\ y.codes = d.codes \ {"CROWDFAV"} /\ y.held = d.held \ {"CROWDFAV"}
      /\ Ready(y, 21 + 1) => Safe(21, d)
  BY <1>1, RetireIs
<1> HIDE DEF y
<1>3. Ready(y, 21 + 1)
  BY <1>2 DEF Ready, Alike, Boot!Has
<1> QED  BY <1>2, <1>3
\* What the backfill of the badges' points leaves.
AutoPoints(d) == IF "BLOOM" \in d.held /\ d.badge.bloom = 0 THEN 1 ELSE d.badge.bloom
SweepPoints(d) == IF "COMPLETIONIST" \in d.held /\ d.badge.sweep \in {0, 1} THEN 3 ELSE d.badge.sweep

LEMMA BackfilledSafe == ASSUME NEW d, Boot!FromTheApp(d), Ready(d, 23) PROVE Safe(23, d)
<1> DEFINE auto(z) == [z EXCEPT !.badge.bloom = AutoPoints(z)]
           sweep(z, w) == [w EXCEPT !.badge.sweep = IF "COMPLETIONIST" \in z.held /\ w.badge.sweep \in {0, 1}
                                                     THEN 3 ELSE w.badge.sweep]
           x == auto(d)
           y == sweep(d, x)
<1>0. d \in Boot!Files /\ Boot!Orderly(d) /\ d.children = Boot!Children
  BY DEF Boot!FromTheApp
<1>1. \A z : Boot!Step(23, z) = <<auto(z), sweep(z, auto(z))>>
  BY DEF Boot!Step, Boot!ensureAutoMetricBadgePointsBackfilled, AutoPoints
<1>2. AutoPoints(d) \in Nat /\ SweepPoints(d) \in Nat /\ d.badge.sweep \in Nat
  BY <1>0 DEF Boot!Files, AutoPoints, SweepPoints
<1>3. /\ Alike(d, x, {"badge"}) /\ x.badge.bloom = AutoPoints(d) /\ x.badge.sweep = d.badge.sweep
      /\ x.badge.celebrated = d.badge.celebrated
  BY <1>0, <1>2 DEF Boot!Files, Alike
<1>4. y = [x EXCEPT !.badge.sweep = SweepPoints(d)]
  BY <1>3 DEF SweepPoints
<1> HIDE DEF x, y
<1>5. /\ Alike(d, y, {"badge"}) /\ y.badge.bloom = AutoPoints(d) /\ y.badge.sweep = SweepPoints(d)
      /\ y.badge.celebrated = d.badge.celebrated
  BY <1>0, <1>2, <1>3, <1>4 DEF Boot!Files, Alike
<1>6. x \in Boot!Files /\ y \in Boot!Files
  BY <1>3, <1>5 DEF Alike
<1>7. auto(x) = x /\ auto(y) = y
  <2>1. AutoPoints(x) = x.badge.bloom /\ AutoPoints(y) = y.badge.bloom
    BY <1>3, <1>5 DEF Alike, AutoPoints
  <2> QED  BY <1>6, <2>1 DEF Boot!Files
<1>8. sweep(x, x) = y /\ sweep(y, y) = y
  <2>1. sweep(x, x) = [x EXCEPT !.badge.sweep = SweepPoints(d)]
    BY <1>3 DEF Alike, SweepPoints
  <2>2. sweep(y, y) = [y EXCEPT !.badge.sweep = y.badge.sweep]
    BY <1>2, <1>5 DEF Alike, SweepPoints
  <2>3. [y EXCEPT !.badge.sweep = y.badge.sweep] = y
    BY <1>6 DEF Boot!Files
  <2> QED  BY <1>4, <2>1, <2>2, <2>3
<1>9. auto(d) = x /\ sweep(d, x) = y
  BY DEF x, y
<1> HIDE DEF auto, sweep
<1>15. Boot!Step(23, d) = <<x, y>> /\ Boot!Step(23, x) = <<x, y>> /\ Boot!Step(23, y) = <<y, y>>
  BY <1>1, <1>7, <1>8, <1>9
<1>10. Word(x) = Word(d)
  BY <1>3 DEF Word, Alike, Boot!Has, AutoPoints
<1>11. Word(y) = Word(d)
  <2>1. d.badge.sweep \in Nat => (d.badge.sweep \in {0, 1} <=> d.badge.sweep < 2)
    OBVIOUS
  <2> QED  BY <1>2, <1>5, <2>1 DEF Word, Alike, Boot!Has, AutoPoints, SweepPoints
<1>12. Boot!Orderly(x) /\ Boot!Orderly(y)
  BY <1>0, <1>3, <1>5 DEF Boot!Orderly, Alike, Boot!Has
<1>13. Ready(y, 23 + 1)
  <2>1. "BLOOM" \in d.held => y.badge.bloom # 0
    BY <1>5 DEF AutoPoints
  <2>2. "COMPLETIONIST" \in d.held => y.badge.sweep >= 2
    BY <1>2, <1>5 DEF SweepPoints
  <2> QED  BY <1>5, <2>1, <2>2 DEF Ready, Alike, Boot!Has
<1>14. Same(d, x) /\ Same(d, y)
  BY <1>0, <1>3, <1>5, <1>10, <1>11, <1>12 DEF Same, Boot!FromTheApp, Alike
<1> QED  BY <1>6, <1>13, <1>14, <1>15, SafeByTwo

\* The columns of an award: two in their turn, and then two in one statement.
LEMMA AwardColumnsSafe == ASSUME NEW d, Boot!FromTheApp(d), Ready(d, 11) PROVE Safe(11, d)
<1> DEFINE columns == <<"points", "note">>
           two == {"points", "note"}
           named(z) == Boot!AddEach(z, columns)
           rest == {"submission_id", "cascade"}
           all == two \cup rest
<1>0. d \in Boot!Files /\ Boot!Orderly(d) /\ d.children = Boot!Children /\ Six \subseteq d.tables
  BY DEF Boot!FromTheApp, Ready
<1>1. Lists(columns, two)
  BY DEF Lists, Boot!Columns, Boot!Table
<1>2. two \in SUBSET Boot!Columns /\ rest \in SUBSET Boot!Columns /\ all \in SUBSET Boot!Columns
  BY DEF Boot!Columns, Boot!Table
<1>3. ASSUME NEW z \in Boot!Files
      PROVE  /\ named(z) \in Seq(Boot!Files) /\ Len(named(z)) = 2 /\ Boot!After(named(z), z) = Boot!Add(z, two)
             /\ \A k \in 1 .. 2 : \E C \in SUBSET two : named(z)[k] = Boot!Add(z, C)
  <2>1. columns \in Seq(Boot!Columns) /\ columns # <<>> /\ two = {columns[j] : j \in 1 .. Len(columns)} /\ Len(columns) = 2
    BY <1>1 DEF Lists
  <2> HIDE DEF columns, two
  <2> QED  BY <2>1, AddEachIs, ZenonT(40)
<1>4. \A z : Boot!Step(11, z) = IF Boot!Has(z, "submission_id") THEN named(z)
                           ELSE Append(named(z), Boot!Add(Boot!After(named(z), z), rest))
  BY DEF Boot!Step, Boot!ensureGuestBadgeAwardColumns
<1>5. AllInTurn(d, two) /\ InTurn(d, all)
  BY <1>0 DEF AllInTurn, InTurn, Telling, Boot!Table, Boot!Has
<1>6. Ready(Boot!Add(d, two), 11) /\ (Boot!Has(d, "submission_id") => Ready(Boot!Add(d, two), 11 + 1)) /\ Ready(Boot!Add(d, all), 11 + 1)
  <2>1. AllButShape(d, Boot!Add(d, two)) /\ Boot!Add(d, two).shape = d.shape \cup two
    BY <1>0, <1>2, AddIs
  <2>2. AllButShape(d, Boot!Add(d, all)) /\ Boot!Add(d, all).shape = d.shape \cup all
    BY <1>0, <1>2, AddIs
  <2> HIDE DEF all
  <2>3. all = {"points", "note", "submission_id", "cascade"}
    BY DEF all
  <2> QED  BY <2>1, <2>2, <2>3 DEF Ready, Boot!Has, AllButShape
<1> HIDE DEF columns, named
<1>7. CASE Boot!Has(d, "submission_id")
  <2> DEFINE path == named(d)
  <2>1. Boot!Step(11, d) = path
    BY <1>4, <1>7
  <2>2. path \in Seq(Boot!Files) /\ Len(path) = 2 /\ Boot!After(path, d) = Boot!Add(d, two)
    BY <1>0, <1>3
  <2>3. ASSUME NEW k \in 1 .. 2 PROVE Same(d, path[k]) /\ Boot!After(Boot!Step(11, path[k]), path[k]) = Boot!After(path, d)
    <3>1. PICK C \in SUBSET two : path[k] = Boot!Add(d, C)
      BY <1>0, <1>3
    <3>2. C \in SUBSET Boot!Columns /\ InTurn(d, C)
      BY <1>2, <1>5 DEF AllInTurn
    <3>3. Same(d, path[k])
      BY <1>0, <3>1, <3>2, AddSame
    <3>4. path[k] \in Boot!Files
      BY <2>2, ElementOfSeq
    <3>5. Boot!Has(path[k], "submission_id")
      BY <1>0, <1>7, <3>1, <3>2, AddIs DEF Boot!Has
    <3>6. Boot!Step(11, path[k]) = named(path[k])
      BY <1>4, <3>5
    <3>7. Boot!After(named(path[k]), path[k]) = Boot!Add(path[k], two)
      BY <1>3, <3>4
    <3>8. Boot!Add(path[k], two) = Boot!Add(d, two)
      <4>1. Boot!Add(Boot!Add(d, C), two) = Boot!Add(d, C \cup two) /\ C \cup two = two
        BY <1>0, <1>2, <3>2, AddTwice
      <4> QED  BY <3>1, <4>1
    <3> QED  BY <2>2, <3>3, <3>6, <3>7, <3>8
  <2> HIDE DEF path, two
  <2> QED  BY <1>6, <1>7, <2>1, <2>2, <2>3 DEF Safe
<1>8. CASE ~Boot!Has(d, "submission_id")
  <2> DEFINE first == named(d)
             end == Boot!Add(d, all)
             path == Append(first, end)
  <2>1. first \in Seq(Boot!Files) /\ Len(first) = 2 /\ Boot!After(first, d) = Boot!Add(d, two)
    BY <1>0, <1>3
  <2>2. Boot!Add(Boot!Add(d, two), rest) = end
    BY <1>0, <1>2, AddTwice
  <2>3. Boot!Step(11, d) = path
    BY <1>4, <1>8, <2>1, <2>2
  <2>4. end \in Boot!Files /\ Same(d, end)
    <3>1. Same(d, end)
      BY <1>0, <1>2, <1>5, AddSame
    <3> QED  BY <3>1 DEF Same, Boot!FromTheApp
  <2>5. Boot!Has(end, "submission_id")
    BY <1>0, <1>2, AddIs DEF Boot!Has
  <2>6. \A C \in SUBSET Boot!Columns : C \subseteq all => Boot!Add(Boot!Add(d, C), all) = end /\ Boot!Add(end, C) = end
    <3>1. ASSUME NEW C \in SUBSET Boot!Columns, C \subseteq all PROVE Boot!Add(Boot!Add(d, C), all) = end /\ Boot!Add(end, C) = end
      <4>1. Boot!Add(Boot!Add(d, C), all) = Boot!Add(d, C \cup all) /\ Boot!Add(Boot!Add(d, all), C) = Boot!Add(d, all \cup C)
        BY <1>0, <1>2, AddTwice
      <4>2. C \cup all = all /\ all \cup C = all
        BY <3>1
      <4> QED  BY <4>1, <4>2
    <3> QED  BY <3>1
  <2>7. ASSUME NEW k \in 1 .. 2 PROVE Same(d, first[k]) /\ Boot!After(Boot!Step(11, first[k]), first[k]) = end
    <3>1. PICK C \in SUBSET two : first[k] = Boot!Add(d, C)
      BY <1>0, <1>3
    <3>2. C \in SUBSET Boot!Columns /\ InTurn(d, C)
      BY <1>2, <1>5 DEF AllInTurn
    <3>3. Same(d, first[k])
      BY <1>0, <3>1, <3>2, AddSame
    <3>4. first[k] \in Boot!Files
      BY <2>1, ElementOfSeq
    <3>5. ~Boot!Has(first[k], "submission_id")
      BY <1>0, <1>8, <3>1, <3>2, AddIs DEF Boot!Has
    <3>6. Boot!After(named(first[k]), first[k]) = Boot!Add(first[k], two) /\ named(first[k]) \in Seq(Boot!Files) /\ Len(named(first[k])) = 2
      BY <1>3, <3>4
    <3>7. Boot!Add(Boot!Add(first[k], two), rest) = Boot!Add(first[k], all)
      BY <1>2, <3>4, AddTwice
    <3>8. Boot!Step(11, first[k]) = Append(named(first[k]), Boot!Add(first[k], all))
      BY <1>4, <3>5, <3>6, <3>7
    <3>9. Boot!Add(first[k], all) = end
      BY <2>6, <3>1, <3>2
    <3>10. Boot!After(Append(named(first[k]), end), first[k]) = end
      BY <2>4, <3>6, AppendProperties DEF Boot!After
    <3> QED  BY <3>3, <3>8, <3>9, <3>10
  <2>8. Boot!After(Boot!Step(11, end), end) = end
    <3>1. Boot!Step(11, end) = named(end)
      BY <1>4, <2>5
    <3>2. Boot!After(named(end), end) = Boot!Add(end, two)
      BY <1>3, <2>4
    <3> QED  BY <1>2, <2>6, <3>1, <3>2
  <2> HIDE DEF first, end
  <2>9. path \in Seq(Boot!Files) /\ Len(path) = 3 /\ path[3] = end /\ \A k \in 1 .. 2 : path[k] = first[k]
    <3>1. /\ path \in Seq(Boot!Files) /\ Len(path) = Len(first) + 1 /\ path[Len(first) + 1] = end
          /\ \A k \in 1 .. Len(first) : path[k] = first[k]
      <4>1. \A s \in Seq(Boot!Files) : \A e \in Boot!Files :
                /\ Append(s, e) \in Seq(Boot!Files) /\ Len(Append(s, e)) = Len(s) + 1 /\ Append(s, e)[Len(s) + 1] = e
                /\ \A k \in 1 .. Len(s) : Append(s, e)[k] = s[k]
        BY AppendProperties
      <4>2. path = Append(first, end) /\ first \in Seq(Boot!Files) /\ end \in Boot!Files
        BY <2>1, <2>4
      <4> HIDE DEF path
      <4> QED  BY <4>1, <4>2
    <3> HIDE DEF path
    <3> QED  BY <2>1, <3>1
  <2>10. Boot!After(path, d) = end
    BY <2>9 DEF Boot!After
  <2>11. ASSUME NEW k \in 1 .. Len(path) PROVE Same(d, path[k]) /\ Boot!After(Boot!Step(11, path[k]), path[k]) = end
    <3>1. k \in 1 .. 2 \/ k = 3
      BY <2>9
    <3> QED  BY <2>4, <2>7, <2>8, <2>9, <3>1
  <2>12. Ready(end, 11 + 1)
    BY <1>6 DEF end
  <2> HIDE DEF path
  <2> QED  BY <2>3, <2>9, <2>10, <2>11, <2>12 DEF Safe
<1> QED  BY <1>7, <1>8
-----------------------------------------------------------------------------
(* The schema, and the databases that no table is missing from.            *)

\* The indexes the schema makes, and what there is before it makes them.
SchemaIndexes == {"photo_index", "thumb_index", "guest_index"}
Created(d) ==
    LET d1 == Boot!CreateTable(d, "guests", Boot!guests)
        d2 == Boot!CreateTable(d1, "tasks", Boot!tasks)
        d3 == Boot!CreateTable(d2, "submissions", Boot!submissions)
        d4 == Boot!CreateTable(d3, "badges", Boot!badges)
        d5 == Boot!CreateTable(d4, "guest_badges", {})
    IN  Boot!CreateTable(d5, "bug_reports", Boot!bug_reports)

LEMMA SchemaColumns ==
    /\ Boot!guests \subseteq Boot!Columns /\ Boot!tasks \subseteq Boot!Columns /\ Boot!submissions \subseteq Boot!Columns
    /\ Boot!badges \subseteq Boot!Columns /\ {} \subseteq Boot!Columns /\ Boot!bug_reports \subseteq Boot!Columns
    /\ SchemaIndexes \subseteq Boot!Columns /\ Six \subseteq DOMAIN Boot!Table
  BY DEF Boot!guests, Boot!tasks, Boot!submissions, Boot!badges, Boot!bug_reports, SchemaIndexes, Boot!Columns, Boot!Table, Six

\* The columns a table is made with, to follow the order of the rebuilds.
LEMMA CreateTableOrderly ==
    ASSUME NEW d \in Boot!Files, Boot!Orderly(d), NEW table \in Six, NEW columns,
           columns = CASE table = "guests" -> Boot!guests [] table = "tasks" -> Boot!tasks [] table = "submissions" -> Boot!submissions
                       [] table = "badges" -> Boot!badges [] table = "guest_badges" -> {}
                       [] table = "bug_reports" -> Boot!bug_reports
    PROVE  Boot!Orderly(Boot!CreateTable(d, table, columns))
<1> DEFINE x == Boot!CreateTable(d, table, columns)
<1>1. columns \subseteq Boot!Columns /\ table \in DOMAIN Boot!Table
  BY SchemaColumns DEF Six
<1>0. OneTableMore(d, x, table, columns)
  BY <1>1, CreateTableIs
<1> HIDE DEF x
<1>2. /\ Alike(d, x, {"tables", "shape"}) /\ x.tables = d.tables \cup {table}
      /\ x.shape = IF table \in d.tables THEN d.shape ELSE d.shape \cup columns
      /\ table \in d.tables => x = d
  BY <1>0 DEF OneTableMore
<1>5. Boot!Orderly(x)
  <2>3. CASE table \in d.tables
    BY <1>2, <2>3
  <2>4. CASE table \notin d.tables
    <3>1. d.shape \cap Boot!Table[table] = {} /\ x.shape = d.shape \cup columns /\ x.values = d.values
      BY <1>1, <1>2, <2>4 DEF Boot!Orderly, Alike
    <3>2. \A c \in columns : c \in Boot!Table[table]
      BY DEF Six, Boot!guests, Boot!tasks, Boot!submissions, Boot!badges, Boot!bug_reports, Boot!Table
    <3>3. x.values \subseteq x.shape \ Boot!Indexes
      BY <3>1 DEF Boot!Orderly
    <3>4. \A t \in DOMAIN Boot!Table : t \notin x.tables => x.shape \cap Boot!Table[t] = {}
      <4>1. \A t \in DOMAIN Boot!Table : t # table => columns \cap Boot!Table[t] = {}
        BY DEF Six, Boot!guests, Boot!tasks, Boot!submissions, Boot!badges, Boot!bug_reports, Boot!Table
      <4> QED  BY <1>2, <3>1, <4>1 DEF Boot!Orderly
    <3>5. CASE table = "tasks"
      <4>1. columns = Boot!Table.tasks \ {"is_active"} /\ d.shape \cap Boot!Table.tasks = {}
        BY <3>1, <3>5 DEF Boot!tasks
      <4>2. "is_active" \notin x.shape /\ "special_mode" \in x.shape /\ "special_date" \in x.shape
        BY <3>1, <4>1 DEF Boot!Table
      <4>3. \A c \in Boot!Table.submissions \cup Boot!Table.badges \cup Boot!Table.guest_badges : c \in x.shape <=> c \in d.shape
        BY <3>1, <4>1 DEF Boot!Table
      <4>4. {"task_id_null", "metric", "cascade"} \subseteq Boot!Table.submissions \cup Boot!Table.badges \cup Boot!Table.guest_badges
        BY DEF Boot!Table
      <4>5. "task_id_null" \notin x.shape => x.shape \cap Boot!Table.submissions \subseteq {"photo_bonus"} \cup Boot!Indexes
        BY <4>3, <4>4 DEF Boot!Orderly, Boot!Has
      <4>6. "metric" \notin x.shape => x.shape \cap Boot!Table.badges = {}
        BY <4>3, <4>4 DEF Boot!Orderly, Boot!Has
      <4>7. "cascade" \notin x.shape => x.shape \cap Boot!Table.guest_badges \subseteq {"points", "note", "submission_id"}
        BY <4>3, <4>4 DEF Boot!Orderly, Boot!Has
      <4> QED  BY <3>3, <3>4, <4>2, <4>5, <4>6, <4>7 DEF Boot!Orderly, Boot!Has
    <3>6. CASE table # "tasks"
      <4>1. \A c \in Boot!Table.tasks : c \in x.shape <=> c \in d.shape
        BY <3>1, <3>6 DEF Six, Boot!guests, Boot!submissions, Boot!badges, Boot!bug_reports, Boot!Table
      <4>2. {"is_active", "special_mode", "special_date"} \subseteq Boot!Table.tasks
        BY DEF Boot!Table
      <4>3. Boot!Has(x, "is_active") => x.shape \cap Boot!Table.tasks = {"is_active"}
        BY <4>1, <4>2 DEF Boot!Orderly, Boot!Has
      <4>4. "tasks" \in x.tables => Boot!Has(x, "is_active") \/ Boot!Has(x, "special_mode")
        BY <1>2, <3>6, <4>1, <4>2 DEF Boot!Orderly, Boot!Has
      <4>5. ~Boot!Has(x, "special_date") => x.shape \cap Boot!Table.tasks \subseteq {"is_active", "special_mode"}
        BY <4>1, <4>2 DEF Boot!Orderly, Boot!Has
      <4>6. ~Boot!Has(x, "task_id_null") => x.shape \cap Boot!Table.submissions \subseteq {"photo_bonus"} \cup Boot!Indexes
        BY <3>1, <3>6 DEF Boot!Orderly, Boot!Has, Six, Boot!guests, Boot!submissions, Boot!badges, Boot!bug_reports, Boot!Table
      <4>7. ~Boot!Has(x, "metric") => x.shape \cap Boot!Table.badges = {}
        BY <3>1, <3>6 DEF Boot!Orderly, Boot!Has, Six, Boot!guests, Boot!submissions, Boot!badges, Boot!bug_reports, Boot!Table
      <4>8. ~Boot!Has(x, "cascade") => x.shape \cap Boot!Table.guest_badges \subseteq {"points", "note", "submission_id"}
        <5>1. \A c \in Boot!Table.guest_badges : c \in x.shape <=> c \in d.shape
          BY <3>1, <3>6 DEF Six, Boot!guests, Boot!submissions, Boot!badges, Boot!bug_reports, Boot!Table
        <5>2. "cascade" \in Boot!Table.guest_badges
          BY DEF Boot!Table
        <5> QED  BY <5>1, <5>2 DEF Boot!Orderly, Boot!Has
      <4> QED  BY <3>3, <3>4, <4>3, <4>4, <4>5, <4>6, <4>7, <4>8 DEF Boot!Orderly
    <3> QED  BY <3>5, <3>6
  <2> QED  BY <2>3, <2>4
<1> QED  BY <1>5 DEF x

LEMMA AfterIs == ASSUME NEW path, path # <<>>, NEW d PROVE Boot!After(path, d) = path[Len(path)]
  BY DEF Boot!After

LEMMA SchemaPath ==
    ASSUME NEW d \in Boot!Files
    PROVE  /\ Created(d) \in Boot!Files /\ Boot!applySchema(d) \in Seq(Boot!Files) /\ Len(Boot!applySchema(d)) = 9
           /\ Boot!After(Boot!applySchema(d), d) = Boot!Add(Created(d), SchemaIndexes)
           /\ \A k \in 7 .. 9 : \E C \in SUBSET SchemaIndexes : Boot!applySchema(d)[k] = Boot!Add(Created(d), C)
<1> DEFINE d1 == Boot!CreateTable(d, "guests", Boot!guests)
           d2 == Boot!CreateTable(d1, "tasks", Boot!tasks)
           d3 == Boot!CreateTable(d2, "submissions", Boot!submissions)
           d4 == Boot!CreateTable(d3, "badges", Boot!badges)
           d5 == Boot!CreateTable(d4, "guest_badges", {})
           d6 == Boot!CreateTable(d5, "bug_reports", Boot!bug_reports)
           columns == <<"photo_index", "thumb_index", "guest_index">>
           six == <<d1, d2, d3, d4, d5, d6>>
           adds == Boot!AddEach(d6, columns)
<1>1. Boot!applySchema(d) = six \o adds /\ Created(d) = d6
  BY DEF Boot!applySchema, Created
<1>2. \A z \in Boot!Files : \A table \in Six : \A C \in SUBSET Boot!Columns : Boot!CreateTable(z, table, C) \in Boot!Files
  BY CreateTableIs, SchemaColumns DEF Alike, OneTableMore
<1>3. d1 \in Boot!Files
  BY <1>2, SchemaColumns DEF Six
<1> HIDE DEF d1
<1>4. d2 \in Boot!Files
  BY <1>2, <1>3, SchemaColumns DEF Six
<1> HIDE DEF d2
<1>5. d3 \in Boot!Files
  BY <1>2, <1>4, SchemaColumns DEF Six
<1> HIDE DEF d3
<1>6. d4 \in Boot!Files
  BY <1>2, <1>5, SchemaColumns DEF Six
<1> HIDE DEF d4
<1>7. d5 \in Boot!Files
  BY <1>2, <1>6, SchemaColumns DEF Six
<1> HIDE DEF d5
<1>8. d6 \in Boot!Files
  BY <1>2, <1>7, SchemaColumns DEF Six
<1> HIDE DEF d6
<1>9. columns \in Seq(Boot!Columns) /\ columns # <<>> /\ Len(columns) = 3 /\ SchemaIndexes = {columns[j] : j \in 1 .. Len(columns)}
  BY DEF Boot!Columns, Boot!Table, SchemaIndexes
<1> HIDE DEF columns
<1>10. /\ adds \in Seq(Boot!Files) /\ Len(adds) = 3 /\ Boot!After(adds, d6) = Boot!Add(d6, SchemaIndexes)
       /\ \A k \in 1 .. 3 : \E C \in SUBSET SchemaIndexes : adds[k] = Boot!Add(d6, C)
  <2> DEFINE all == {columns[j] : j \in 1 .. Len(columns)}
  <2>1. /\ adds \in Seq(Boot!Files) /\ Len(adds) = Len(columns) /\ Boot!After(adds, d6) = Boot!Add(d6, all)
        /\ \A k \in 1 .. Len(columns) : \E C \in SUBSET all : adds[k] = Boot!Add(d6, C)
    BY <1>8, <1>9, AddEachIs
  <2>2. all = SchemaIndexes
    BY <1>9
  <2> HIDE DEF all, adds
  <2> QED  BY <1>9, <2>1, <2>2
<1>11. six \in Seq(Boot!Files) /\ Len(six) = 6
  BY <1>3, <1>4, <1>5, <1>6, <1>7, <1>8
<1> HIDE DEF adds, six
<1>12. /\ six \o adds \in Seq(Boot!Files) /\ Len(six \o adds) = 9
       /\ \A k \in 7 .. 9 : (six \o adds)[k] = adds[k - 6]
  <2>1. /\ six \o adds \in Seq(Boot!Files) /\ Len(six \o adds) = Len(six) + Len(adds)
        /\ \A k \in 1 .. Len(six) + Len(adds) :
             (six \o adds)[k] = IF k <= Len(six) THEN six[k] ELSE adds[k - Len(six)]
    BY <1>10, <1>11, ConcatProperties, Zenon
  <2> QED  BY <1>10, <1>11, <2>1
<1>13. Boot!After(six \o adds, d) = adds[3] /\ Boot!After(adds, d6) = adds[3]
  <2>1. six \o adds # <<>> /\ (six \o adds)[Len(six \o adds)] = adds[3]
    BY <1>12
  <2>2. adds # <<>>
    <3>1. Boot!AddEach(d6, columns) # <<>>
      BY <1>8, <1>9, AddEachIs
    <3> QED  BY <3>1 DEF adds
  <2>5. adds[Len(adds)] = adds[3]
    BY <1>10
  <2>3. Boot!After(six \o adds, d) = (six \o adds)[Len(six \o adds)]
    BY <2>1, AfterIs
  <2>4. Boot!After(adds, d6) = adds[Len(adds)]
    BY <2>2, AfterIs
  <2> QED  BY <2>1, <2>3, <2>4, <2>5
<1>14. \A k \in 7 .. 9 : \E C \in SUBSET SchemaIndexes : Boot!applySchema(d)[k] = Boot!Add(d6, C)
  BY <1>1, <1>10, <1>12
<1> QED  BY <1>1, <1>8, <1>10, <1>12, <1>13, <1>14
\* What the databases of a column said before, said in the columns of today:
\* of a database with every table, the columns it has.
LEMMA WordIsConverted ==
    ASSUME NEW d \in Boot!Files, Six \subseteq d.tables
    PROVE  Boot!Converted(d) = Word(d)
<1>1. Created(d) = d
  BY ZenonT(40) DEF Created, Boot!CreateTable, Six
<1>2. Boot!After(Boot!applySchema(d), d) = Boot!Add(d, SchemaIndexes)
  BY <1>1, SchemaPath
<1>3. Boot!Add(d, SchemaIndexes).shape = d.shape \cup SchemaIndexes
  BY SchemaColumns, AddIs
<1> DEFINE shape == Boot!After(Boot!applySchema(d), d).shape
<1>4. shape = d.shape \cup SchemaIndexes
  BY <1>2, <1>3
<1>5. Boot!Converted(d) =
        [worth |-> IF "is_active" \in shape THEN 3 ELSE IF "worth_3_to_5" \in shape THEN d.task.worth ELSE d.task.worth + 2,
         mode |-> IF "is_active" \notin shape THEN d.task.mode ELSE IF d.task.active THEN "none" ELSE "hidden",
         by |-> IF "taken_down_by" \in shape THEN d.photo.by ELSE IF d.photo.down THEN "admin" ELSE "nobody",
         points |-> IF "avatar_point_awarded" \in shape /\ d.guest.flagged /\ d.guest.points > 0
                    THEN d.guest.points - 1 ELSE d.guest.points,
         badges |-> <<{"BLOOM", "COMPLETIONIST"}, d.held \ {"MOSTLIKED", "CROWDFAV"}>>,
         described |-> IF "BLOOM" \in d.codes THEN d.bloom.threshold ELSE 5,
         bloom |-> IF "BLOOM" \in d.held /\ d.badge.bloom = 0 THEN 1 ELSE d.badge.bloom,
         sweep |-> IF "COMPLETIONIST" \in d.held /\ d.badge.sweep < 2 THEN 3 ELSE d.badge.sweep,
         celebrated |-> "celebrated_at" \in shape => d.badge.celebrated,
         checked |-> "recap_checked_at" \in shape => d.guest.checked,
         status |-> IF "status" \in shape THEN d.bug.status ELSE IF d.bug.resolved THEN "closed" ELSE "open",
         crown |-> d.crown /\ ~d.selfLike]
  BY DEF Boot!Converted
<1> HIDE DEF shape
<1> QED  BY <1>4, <1>5 DEF Word, Boot!Has, SchemaIndexes

\* A database that has lost nothing of another one and says the same, but
\* for the fields F.
Fields == {"worth", "mode", "by", "points", "badges", "described", "bloom", "sweep", "celebrated", "checked", "status", "crown"}
Kept(d, x, F) ==
    /\ Boot!FromTheApp(x) /\ d.values \ Boot!Retired \subseteq x.values
    /\ \A f \in Fields \ F : Boot!Converted(x)[f] = Boot!Converted(d)[f]

\* Steps whose backfill a death may skip, and what it would have filled.
Field(i) == CASE i = 13 -> "celebrated" [] i = 27 -> "checked" [] i = 30 -> "status" [] i = 33 -> "crown"

\* Whole, a step loses nothing and makes what it is for.  In part, it can be
\* taken up where it was left, but for those four.
Survives(i, d) ==
    LET path == Boot!Step(i, d)
    IN  /\ path \in Seq(Boot!Files) /\ Ready(Boot!After(path, d), i + 1) /\ Kept(d, Boot!After(path, d), {})
        /\ \A k \in 1 .. Len(path) :
              LET x == path[k]
              IN  IF Boot!After(Boot!Step(i, x), x) = Boot!After(path, d) THEN Kept(d, x, {})
                  ELSE i \in {13, 27, 30, 33} /\ Kept(d, x, {Field(i)})

LEMMA SameKept ==
    ASSUME NEW d, Boot!FromTheApp(d), Six \subseteq d.tables, NEW x, Same(d, x)
    PROVE  Kept(d, x, {})
  BY WordIsConverted DEF Same, Kept, Boot!FromTheApp

LEMMA SafeSurvives ==
    ASSUME NEW i, NEW d, Boot!FromTheApp(d), Six \subseteq d.tables, Safe(i, d)
    PROVE  Survives(i, d)
<1> DEFINE path == Boot!Step(i, d)
<1>1. /\ path \in Seq(Boot!Files) /\ Ready(Boot!After(path, d), i + 1)
      /\ \A k \in 1 .. Len(path) : Same(d, path[k]) /\ Boot!After(Boot!Step(i, path[k]), path[k]) = Boot!After(path, d)
  BY DEF Safe
<1>2. Kept(d, Boot!After(path, d), {})
  <2>1. CASE path = <<>>
    BY <2>1 DEF Boot!After, Kept
  <2>2. CASE path # <<>>
    <3>1. Boot!After(path, d) = path[Len(path)] /\ Len(path) \in 1 .. Len(path)
      BY <1>1, <2>2, AfterIs
    <3> QED  BY <1>1, <3>1, SameKept
  <2> QED  BY <2>1, <2>2
<1>3. \A k \in 1 .. Len(path) : Kept(d, path[k], {})
  BY <1>1, SameKept
<1> HIDE DEF path
<1>4. Boot!Step(i, d) = path
  BY DEF path
<1> QED  BY <1>1, <1>2, <1>3, <1>4 DEF Survives

LEMMA SchemaSurvives == ASSUME NEW d, Boot!FromTheApp(d) PROVE Survives(1, d)
<1> DEFINE c1(z) == Boot!CreateTable(z, "guests", Boot!guests)
           c2(z) == Boot!CreateTable(z, "tasks", Boot!tasks)
           c3(z) == Boot!CreateTable(z, "submissions", Boot!submissions)
           c4(z) == Boot!CreateTable(z, "badges", Boot!badges)
           c5(z) == Boot!CreateTable(z, "guest_badges", {})
           c6(z) == Boot!CreateTable(z, "bug_reports", Boot!bug_reports)
           path == Boot!applySchema(d)
           made(z, T) == /\ z \in Boot!Files /\ Boot!Orderly(z) /\ Alike(d, z, {"tables", "shape"}) /\ T \subseteq z.tables
<1>0. d \in Boot!Files /\ Boot!Orderly(d) /\ d.children = Boot!Children
  BY DEF Boot!FromTheApp
<1>1. \A z : Created(z) = c6(c5(c4(c3(c2(c1(z))))))
  BY DEF Created
<1>2. path[1] = c1(d) /\ path[2] = c2(c1(d)) /\ path[3] = c3(c2(c1(d))) /\ path[4] = c4(c3(c2(c1(d))))
      /\ path[5] = c5(c4(c3(c2(c1(d))))) /\ path[6] = c6(c5(c4(c3(c2(c1(d))))))
  <2> DEFINE six == <<c1(d), c2(c1(d)), c3(c2(c1(d))), c4(c3(c2(c1(d)))), c5(c4(c3(c2(c1(d))))), c6(c5(c4(c3(c2(c1(d))))))>>
             adds == Boot!AddEach(c6(c5(c4(c3(c2(c1(d)))))), <<"photo_index", "thumb_index", "guest_index">>)
  <2>1. path = six \o adds
    BY DEF Boot!applySchema
  <2>2. Len(six) = 6 /\ Len(adds) = 3
    BY DEF Boot!AddEach
  <2>3. \A k \in 1 .. 6 : (six \o adds)[k] = six[k]
    <3> HIDE DEF adds, c1, c2, c3, c4, c5, c6
    <3> QED  BY <2>2
  <2>4. six[1] = c1(d) /\ six[2] = c2(c1(d)) /\ six[3] = c3(c2(c1(d))) /\ six[4] = c4(c3(c2(c1(d))))
        /\ six[5] = c5(c4(c3(c2(c1(d))))) /\ six[6] = c6(c5(c4(c3(c2(c1(d))))))
    OBVIOUS
  <2> HIDE DEF six, adds, path, c1, c2, c3, c4, c5, c6
  <2>6. \A k \in 1 .. 6 : path[k] = six[k]
    BY <2>1, <2>3
  <2>5. path[1] = six[1] /\ path[2] = six[2] /\ path[3] = six[3] /\ path[4] = six[4] /\ path[5] = six[5] /\ path[6] = six[6]
    BY <2>6
  <2> QED  BY <2>4, <2>5
<1>3. \A z : /\ "guests" \in z.tables => c1(z) = z
             /\ "tasks" \in z.tables => c2(z) = z
             /\ "submissions" \in z.tables => c3(z) = z
             /\ "badges" \in z.tables => c4(z) = z
             /\ "guest_badges" \in z.tables => c5(z) = z
             /\ "bug_reports" \in z.tables => c6(z) = z
  BY DEF Boot!CreateTable
<1>4. ASSUME NEW z, NEW T, made(z, T), NEW table \in Six, NEW columns,
           columns = CASE table = "guests" -> Boot!guests [] table = "tasks" -> Boot!tasks [] table = "submissions" -> Boot!submissions
                       [] table = "badges" -> Boot!badges [] table = "guest_badges" -> {}
                       [] table = "bug_reports" -> Boot!bug_reports
      PROVE  made(Boot!CreateTable(z, table, columns), T \cup {table})
  <2> DEFINE x == Boot!CreateTable(z, table, columns)
  <2>1. table \in DOMAIN Boot!Table /\ columns \subseteq Boot!Columns
    BY <1>4, SchemaColumns DEF Six
  <2>2. OneTableMore(z, x, table, columns)
    BY <1>4, <2>1, CreateTableIs
  <2>3. Boot!Orderly(x)
    BY <1>4, CreateTableOrderly
  <2> HIDE DEF x
  <2>4. Alike(d, x, {"tables", "shape"}) /\ x.tables = z.tables \cup {table}
    BY <1>4, <2>2 DEF OneTableMore, Alike
  <2>5. made(x, T \cup {table})
    BY <1>4, <2>3, <2>4 DEF Alike
  <2> QED  BY <2>5 DEF x
<1> HIDE DEF made
<1>5. made(d, {})
  BY <1>0 DEF made, Alike
<1> DEFINE d1 == c1(d)
           d2 == c2(d1)
           d3 == c3(d2)
           d4 == c4(d3)
           d5 == c5(d4)
           d6 == c6(d5)
<1>6. made(d1, {"guests"})
  <2>1. made(d1, {} \cup {"guests"})
    BY <1>4, <1>5 DEF Six
  <2>2. {} \cup {"guests"} = {"guests"}
    OBVIOUS
  <2> QED  BY <2>1, <2>2
<1>7. made(d2, {"guests", "tasks"})
  <2> HIDE DEF d1
  <2>1. made(d2, {"guests"} \cup {"tasks"})
    BY <1>4, <1>6 DEF Six
  <2>2. {"guests"} \cup {"tasks"} = {"guests", "tasks"}
    OBVIOUS
  <2> QED  BY <2>1, <2>2
<1>8. made(d3, {"guests", "tasks", "submissions"})
  <2> HIDE DEF d2
  <2>1. made(d3, {"guests", "tasks"} \cup {"submissions"})
    BY <1>4, <1>7 DEF Six
  <2>2. {"guests", "tasks"} \cup {"submissions"} = {"guests", "tasks", "submissions"}
    OBVIOUS
  <2> QED  BY <2>1, <2>2
<1>9. made(d4, {"guests", "tasks", "submissions", "badges"})
  <2> HIDE DEF d3
  <2>1. made(d4, {"guests", "tasks", "submissions"} \cup {"badges"})
    BY <1>4, <1>8 DEF Six
  <2>2. {"guests", "tasks", "submissions"} \cup {"badges"} = {"guests", "tasks", "submissions", "badges"}
    OBVIOUS
  <2> QED  BY <2>1, <2>2
<1>10. made(d5, {"guests", "tasks", "submissions", "badges", "guest_badges"})
  <2> HIDE DEF d4
  <2>1. made(d5, {"guests", "tasks", "submissions", "badges"} \cup {"guest_badges"})
    BY <1>4, <1>9 DEF Six
  <2>2. {"guests", "tasks", "submissions", "badges"} \cup {"guest_badges"} = {"guests", "tasks", "submissions", "badges", "guest_badges"}
    OBVIOUS
  <2> QED  BY <2>1, <2>2
<1>11. made(d6, Six)
  <2> HIDE DEF d5
  <2>1. made(d6, {"guests", "tasks", "submissions", "badges", "guest_badges"} \cup {"bug_reports"})
    BY <1>4, <1>10 DEF Six
  <2>2. {"guests", "tasks", "submissions", "badges", "guest_badges"} \cup {"bug_reports"} = Six
    BY DEF Six
  <2> QED  BY <2>1, <2>2
<1>12. Created(d) = d6
  BY <1>1
<1>13. path[1] = d1 /\ path[2] = d2 /\ path[3] = d3 /\ path[4] = d4 /\ path[5] = d5 /\ path[6] = d6
  BY <1>2
<1>14. c1(d) = d1 /\ c2(d1) = d2 /\ c3(d2) = d3 /\ c4(d3) = d4 /\ c5(d4) = d5 /\ c6(d5) = d6
  OBVIOUS
<1> HIDE DEF c1, c2, c3, c4, c5, c6, d1, d2, d3, d4, d5, d6, path
<1>15. /\ Created(d1) = d6 /\ Created(d2) = d6 /\ Created(d3) = d6 /\ Created(d4) = d6 /\ Created(d5) = d6
  <2>1. Created(d1) = d6
    <3>1. c1(d1) = d1
      BY <1>3, <1>6 DEF made
    <3> QED  BY <1>1, <1>14, <3>1
  <2>2. Created(d2) = d6
    <3>1. c1(d2) = d2 /\ c2(d2) = d2
      BY <1>3, <1>7 DEF made
    <3> QED  BY <1>1, <1>14, <3>1
  <2>3. Created(d3) = d6
    <3>1. c1(d3) = d3 /\ c2(d3) = d3 /\ c3(d3) = d3
      BY <1>3, <1>8 DEF made
    <3> QED  BY <1>1, <1>14, <3>1
  <2>4. Created(d4) = d6
    <3>1. c1(d4) = d4 /\ c2(d4) = d4 /\ c3(d4) = d4 /\ c4(d4) = d4
      BY <1>3, <1>9 DEF made
    <3> QED  BY <1>1, <1>14, <3>1
  <2>5. Created(d5) = d6
    <3>1. c1(d5) = d5 /\ c2(d5) = d5 /\ c3(d5) = d5 /\ c4(d5) = d5 /\ c5(d5) = d5
      BY <1>3, <1>10 DEF made
    <3> QED  BY <1>1, <1>14, <3>1
  <2> QED  BY <2>1, <2>2, <2>3, <2>4, <2>5
<1>16. \A z : Six \subseteq z.tables => Created(z) = z
  <2>1. ASSUME NEW z, Six \subseteq z.tables PROVE Created(z) = z
    <3>1. c1(z) = z /\ c2(z) = z /\ c3(z) = z /\ c4(z) = z /\ c5(z) = z /\ c6(z) = z
      BY <1>3, <2>1 DEF Six
    <3> QED  BY <1>1, <3>1
  <2> QED  BY <2>1
<1> DEFINE end == Boot!Add(d6, SchemaIndexes)
<1>17. d6 \in Boot!Files /\ Boot!Orderly(d6) /\ Alike(d, d6, {"tables", "shape"}) /\ Six \subseteq d6.tables
  BY <1>11 DEF made
<1>18. ASSUME NEW C \in SUBSET SchemaIndexes
       PROVE  /\ made(Boot!Add(d6, C), Six) /\ Boot!After(Boot!applySchema(Boot!Add(d6, C)), Boot!Add(d6, C)) = end
  <2> DEFINE x == Boot!Add(d6, C)
  <2>1. C \in SUBSET Boot!Columns /\ SchemaIndexes \in SUBSET Boot!Columns
    BY SchemaColumns
  <2>2. AllButShape(d6, x) /\ x.shape = d6.shape \cup C
    BY <1>17, <2>1, AddIs
  <2>3. Boot!Add(x, SchemaIndexes) = end
    <3>1. Boot!Add(Boot!Add(d6, C), SchemaIndexes) = Boot!Add(d6, C \cup SchemaIndexes) /\ C \cup SchemaIndexes = SchemaIndexes
      BY <1>17, <2>1, AddTwice
    <3> QED  BY <3>1
  <2> HIDE DEF x, end
  <2>4. x \in Boot!Files /\ Six \subseteq x.tables /\ Alike(d, x, {"tables", "shape"})
    BY <1>17, <2>2 DEF AllButShape, Alike
  <2>5. Boot!Orderly(x)
    <3>2. \A c \in C : c \in Boot!Indexes /\ c \in Boot!Table.submissions
      BY DEF SchemaIndexes, Boot!Indexes, Boot!Table
    <3>3. x.values \subseteq x.shape \ Boot!Indexes
      BY <1>17, <2>2 DEF Boot!Orderly, AllButShape
    <3>4. \A t \in DOMAIN Boot!Table : t \notin x.tables => x.shape \cap Boot!Table[t] = {}
      <4>1. \A t \in DOMAIN Boot!Table : t \notin Six => C \cap Boot!Table[t] = {}
        BY DEF Six, SchemaIndexes, Boot!Table
      <4> QED  BY <1>17, <2>2, <2>4, <4>1 DEF Boot!Orderly, AllButShape
    <3>5. \A c \in Boot!Table.tasks \cup Boot!Table.badges \cup Boot!Table.guest_badges : c \in x.shape <=> c \in d6.shape
      BY <2>2 DEF Boot!Table, SchemaIndexes
    <3>6. /\ {"is_active", "special_mode", "special_date"} \subseteq Boot!Table.tasks /\ "metric" \in Boot!Table.badges
          /\ "cascade" \in Boot!Table.guest_badges
      BY DEF Boot!Table
    <3>7. Boot!Has(x, "task_id_null") <=> Boot!Has(d6, "task_id_null")
      BY <2>2 DEF Boot!Has, SchemaIndexes
    <3>8. ~Boot!Has(x, "task_id_null") => x.shape \cap Boot!Table.submissions \subseteq {"photo_bonus"} \cup Boot!Indexes
      BY <1>17, <2>2, <3>2, <3>7 DEF Boot!Orderly
    <3>9. /\ Boot!Has(x, "is_active") => x.shape \cap Boot!Table.tasks = {"is_active"}
          /\ "tasks" \in x.tables => Boot!Has(x, "is_active") \/ Boot!Has(x, "special_mode")
          /\ ~Boot!Has(x, "special_date") => x.shape \cap Boot!Table.tasks \subseteq {"is_active", "special_mode"}
      BY <1>17, <2>2, <3>5, <3>6 DEF Boot!Orderly, Boot!Has, AllButShape
    <3>10. /\ ~Boot!Has(x, "metric") => x.shape \cap Boot!Table.badges = {}
           /\ ~Boot!Has(x, "cascade") => x.shape \cap Boot!Table.guest_badges \subseteq {"points", "note", "submission_id"}
      BY <1>17, <2>2, <3>5, <3>6 DEF Boot!Orderly, Boot!Has
    <3> QED  BY <3>3, <3>4, <3>8, <3>9, <3>10 DEF Boot!Orderly
  <2>6. Boot!After(Boot!applySchema(x), x) = end
    BY <1>16, <2>3, <2>4, SchemaPath
  <2> QED  BY <2>4, <2>5, <2>6 DEF made, x
<1>19. /\ path \in Seq(Boot!Files) /\ Len(path) = 9 /\ Boot!After(path, d) = end
       /\ \A k \in 7 .. 9 : \E C \in SUBSET SchemaIndexes : path[k] = Boot!Add(d6, C)
  BY <1>0, <1>12, SchemaPath DEF path
<1>20. ASSUME NEW k \in 1 .. 9 PROVE made(path[k], {}) /\ Boot!After(Boot!applySchema(path[k]), path[k]) = end
  <2>1. CASE k \in 7 .. 9
    <3>1. PICK C \in SUBSET SchemaIndexes : path[k] = Boot!Add(d6, C)
      BY <1>19, <2>1
    <3> QED  BY <1>18, <3>1 DEF made
  <2>2. CASE k \in 1 .. 6
    <3>1. ASSUME NEW z, NEW T, made(z, T), Created(z) = d6 PROVE made(z, {}) /\ Boot!After(Boot!applySchema(z), z) = end
      BY <3>1, SchemaPath DEF made
    <3>2. Created(d6) = d6
      BY <1>16, <1>17
    <3>3. /\ made(d1, {}) /\ Boot!After(Boot!applySchema(d1), d1) = end
          /\ made(d2, {}) /\ Boot!After(Boot!applySchema(d2), d2) = end
          /\ made(d3, {}) /\ Boot!After(Boot!applySchema(d3), d3) = end
          /\ made(d4, {}) /\ Boot!After(Boot!applySchema(d4), d4) = end
          /\ made(d5, {}) /\ Boot!After(Boot!applySchema(d5), d5) = end
          /\ made(d6, {}) /\ Boot!After(Boot!applySchema(d6), d6) = end
      <4> HIDE DEF end
      <4> QED  BY <1>6, <1>7, <1>8, <1>9, <1>10, <1>11, <1>15, <3>1, <3>2
    <3>4. k = 1 \/ k = 2 \/ k = 3 \/ k = 4 \/ k = 5 \/ k = 6
      BY <2>2
    <3> QED  BY <1>13, <3>3, <3>4
  <2> QED  BY <2>1, <2>2
<1> HIDE DEF end
<1>21. \A z : Boot!Step(1, z) = Boot!applySchema(z)
  BY DEF Boot!Step
<1>22. ASSUME NEW z, made(z, {}), Boot!After(Boot!applySchema(z), z) = end PROVE Kept(d, z, {})
  <2>1. Boot!Converted(z) = Boot!Converted(d)
    <3>1. Boot!After(Boot!applySchema(z), z) = Boot!After(Boot!applySchema(d), d)
      BY <1>19, <1>22 DEF path
    <3>2. Alike(d, z, {"tables", "shape"})
      BY <1>22 DEF made
    <3> QED  BY <3>1, <3>2 DEF Boot!Converted, Alike
  <2> QED  BY <1>0, <1>22, <2>1 DEF made, Kept, Boot!FromTheApp, Alike
<1>23. \A k \in 1 .. Len(path) : Kept(d, path[k], {}) /\ Boot!After(Boot!Step(1, path[k]), path[k]) = Boot!After(path, d)
  BY <1>19, <1>20, <1>21, <1>22
<1>24. Kept(d, Boot!After(path, d), {})
  <2>1. Boot!After(path, d) = path[9] /\ 9 \in 1 .. Len(path)
    <3>1. path # <<>>
      BY <1>19
    <3>2. Boot!After(path, d) = path[Len(path)]
      BY <3>1, AfterIs
    <3> QED  BY <1>19, <3>2
  <2> QED  BY <1>23, <2>1
<1>25. Ready(Boot!After(path, d), 1 + 1)
  <2>1. AllButShape(d6, end) /\ end.shape = d6.shape \cup SchemaIndexes
    BY <1>17, SchemaColumns, AddIs DEF end
  <2> QED  BY <1>17, <1>19, <2>1 DEF Ready, AllButShape, SchemaIndexes
<1>26. Boot!Step(1, d) = path
  BY <1>21 DEF path
<1> QED  BY <1>19, <1>23, <1>24, <1>25, <1>26 DEF Survives
-----------------------------------------------------------------------------
(* The four steps whose backfill a death may skip.                         *)

\* Databases that say the same, but for some fields.
SaySame(d, x, F) ==
    /\ "worth" \in F \/ Word(x).worth = Word(d).worth
    /\ "mode" \in F \/ Word(x).mode = Word(d).mode
    /\ "by" \in F \/ Word(x).by = Word(d).by
    /\ "points" \in F \/ Word(x).points = Word(d).points
    /\ "badges" \in F \/ Word(x).badges = Word(d).badges
    /\ "described" \in F \/ Word(x).described = Word(d).described
    /\ "bloom" \in F \/ Word(x).bloom = Word(d).bloom
    /\ "sweep" \in F \/ Word(x).sweep = Word(d).sweep
    /\ "celebrated" \in F \/ Word(x).celebrated = Word(d).celebrated
    /\ "checked" \in F \/ Word(x).checked = Word(d).checked
    /\ "status" \in F \/ Word(x).status = Word(d).status
    /\ "crown" \in F \/ Word(x).crown = Word(d).crown

\* A point of a path from which, taken up again, the step ends where it ends,
\* or which differs in one field at most.
CutPoint(i, d, path, k) ==
    \/ Same(d, path[k]) /\ Boot!After(Boot!Step(i, path[k]), path[k]) = path[Len(path)]
    \/ /\ Boot!FromTheApp(path[k]) /\ Six \subseteq path[k].tables /\ d.values \ Boot!Retired \subseteq path[k].values
       /\ SaySame(d, path[k], {Field(i)})
       /\ Boot!After(Boot!Step(i, path[k]), path[k]) # path[Len(path)] \/ Word(path[k]) = Word(d)

CutPath(i, d, path) ==
    /\ path = Boot!Step(i, d) /\ path \in Seq(Boot!Files) /\ path # <<>>
    /\ Same(d, path[Len(path)]) /\ Ready(path[Len(path)], i + 1)
    /\ \A k \in 1 .. Len(path) : CutPoint(i, d, path, k)

LEMMA CutSurvives ==
    ASSUME NEW i \in {13, 27, 30, 33}, NEW d, Boot!FromTheApp(d), Six \subseteq d.tables, NEW path, CutPath(i, d, path)
    PROVE  Survives(i, d)
<1>0. /\ path = Boot!Step(i, d) /\ path \in Seq(Boot!Files) /\ path # <<>>
      /\ Same(d, path[Len(path)]) /\ Ready(path[Len(path)], i + 1)
      /\ \A k \in 1 .. Len(path) : CutPoint(i, d, path, k)
  BY DEF CutPath
<1>1. Boot!After(path, d) = path[Len(path)]
  BY <1>0, AfterIs
<1>2. Kept(d, Boot!After(path, d), {})
  BY <1>0, <1>1, SameKept
<1>3. ASSUME NEW k \in 1 .. Len(path)
      PROVE  IF Boot!After(Boot!Step(i, path[k]), path[k]) = Boot!After(path, d) THEN Kept(d, path[k], {})
             ELSE i \in {13, 27, 30, 33} /\ Kept(d, path[k], {Field(i)})
  <2>1. CASE Same(d, path[k]) /\ Boot!After(Boot!Step(i, path[k]), path[k]) = path[Len(path)]
    BY <1>1, <2>1, SameKept
  <2>2. CASE /\ Boot!FromTheApp(path[k]) /\ Six \subseteq path[k].tables /\ d.values \ Boot!Retired \subseteq path[k].values
             /\ SaySame(d, path[k], {Field(i)})
             /\ Boot!After(Boot!Step(i, path[k]), path[k]) # path[Len(path)] \/ Word(path[k]) = Word(d)
    <3> DEFINE x == path[k]
    <3>1. Boot!Converted(x) = Word(x) /\ Boot!Converted(d) = Word(d)
      BY <2>2, WordIsConverted DEF Boot!FromTheApp
    <3>2. \A f \in Fields \ {Field(i)} : Word(x)[f] = Word(d)[f]
      BY <2>2 DEF SaySame, Fields
    <3>3. Kept(d, x, {Field(i)})
      BY <2>2, <3>1, <3>2 DEF Kept
    <3>4. Word(x) = Word(d) => Kept(d, x, {})
      BY <2>2, <3>1 DEF Kept
    <3> QED  BY <1>1, <2>2, <3>3, <3>4
  <2> QED  BY <1>0, <2>1, <2>2 DEF CutPoint
<1> QED  BY <1>0, <1>1, <1>2, <1>3 DEF Survives

LEMMA CelebratedSurvives == ASSUME NEW d, Boot!FromTheApp(d), Ready(d, 13) PROVE Survives(13, d)
<1> DEFINE x == Boot!Add(d, {"celebrated_at"})
           y == [x EXCEPT !.badge.celebrated = TRUE]
<1>0. d \in Boot!Files /\ Boot!Orderly(d) /\ d.children = Boot!Children /\ Six \subseteq d.tables
  BY DEF Boot!FromTheApp, Ready
<1>1. CASE Boot!Has(d, "celebrated_at")
  <2>1. Boot!Step(13, d) = <<>>
    BY <1>1 DEF Boot!Step, Boot!ensureGuestBadgeCelebratedAtColumn
  <2>2. Ready(d, 13 + 1)
    BY <1>1 DEF Ready
  <2> QED  BY <1>0, <2>1, <2>2, SafeByNone, SafeSurvives
<1>2. CASE ~Boot!Has(d, "celebrated_at")
  <2> DEFINE path == <<x, y>>
  <2>1. Boot!Step(13, d) = path
    <3>1. Boot!ensureGuestBadgeCelebratedAtColumn(d) = path
      BY <1>2 DEF Boot!ensureGuestBadgeCelebratedAtColumn
    <3>2. Boot!Step(13, d) = Boot!ensureGuestBadgeCelebratedAtColumn(d)
      BY DEF Boot!Step
    <3> QED  BY <3>1, <3>2
  <2>2. AllButShape(d, x) /\ x.shape = d.shape \cup {"celebrated_at"}
    <3>1. {"celebrated_at"} \in SUBSET Boot!Columns
      BY ColumnsAre DEF Boot!Table
    <3> QED  BY <1>0, <3>1, AddIs
  <2> HIDE DEF x
  <2>3. /\ Alike(d, y, {"shape", "badge"}) /\ y.shape = x.shape
        /\ y.badge.bloom = d.badge.bloom /\ y.badge.sweep = d.badge.sweep /\ y.badge.celebrated = TRUE
    BY <1>0, <2>2 DEF Boot!Files, Alike, AllButShape
  <2> HIDE DEF y
  <2>4. Boot!Step(13, x) = <<>> /\ Boot!Step(13, y) = <<>>
    BY <2>2, <2>3 DEF Boot!Step, Boot!ensureGuestBadgeCelebratedAtColumn, Boot!Has
  <2>5. Boot!After(Boot!Step(13, x), x) = x /\ Boot!After(Boot!Step(13, y), y) = y
    BY <2>4 DEF Boot!After
  <2>6. x \in Boot!Files /\ y \in Boot!Files
    BY <2>2, <2>3 DEF Alike, AllButShape
  <2>7. SaySame(d, x, {"celebrated"})
    <3>1. Tells(d, x, {"celebrated_at"})
      BY <2>2 DEF Boot!Has, Tells
    <3> QED  BY <2>2, <3>1 DEF Word, AllButShape, Tells, SaySame
  <2>8. Word(y) = Word(d)
    <3>1. Tells(d, y, {"celebrated_at"}) /\ Boot!Has(y, "celebrated_at")
      BY <2>2, <2>3 DEF Boot!Has, Tells
    <3> QED  BY <1>2, <2>3, <3>1, ZenonT(40) DEF Word, Alike, Tells
  <2>9. x # y \/ x.badge.celebrated = TRUE
    BY <2>3
  <2>10. x.badge.celebrated = TRUE => x = y
    <3>1. y.badge \in [bloom : Nat, sweep : Nat, celebrated : BOOLEAN] /\ x.badge \in [bloom : Nat, sweep : Nat, celebrated : BOOLEAN]
      BY <2>6 DEF Boot!Files
    <3>2. x.badge.celebrated = TRUE => y.badge = x.badge
      BY <2>2, <2>3, <3>1 DEF AllButShape
    <3>3. x.badge.celebrated = TRUE => Alike(x, y, {})
      BY <2>2, <2>3, <3>2 DEF AllButShape, Alike
    <3> QED  BY <2>6, <3>3, AlikeIsSame
  <2>11. Boot!Orderly(x) /\ Boot!Orderly(y)
    <3>1. Boot!Has(d, "cascade")
      BY DEF Ready, Boot!Has
    <3>2. /\ x.values = d.values /\ y.values = d.values /\ x.tables = d.tables /\ y.tables = d.tables
          /\ x.shape = d.shape \cup {"celebrated_at"} /\ y.shape = d.shape \cup {"celebrated_at"}
      BY <2>2, <2>3 DEF AllButShape, Alike
    <3>3. \A z : z.values = d.values /\ z.tables = d.tables /\ z.shape = d.shape \cup {"celebrated_at"} => Boot!Orderly(z)
      BY <1>0, <3>1 DEF Boot!Orderly, Boot!Has, Boot!Table, Six, Boot!Indexes
    <3> QED  BY <3>2, <3>3
  <2>12. Same(d, y)
    BY <1>0, <2>2, <2>3, <2>8, <2>11 DEF Same, Boot!FromTheApp, Alike
  <2>13. Ready(y, 13 + 1)
    BY <2>2, <2>3 DEF Ready, Alike, Boot!Has
  <2>14. path \in Seq(Boot!Files) /\ path # <<>> /\ Len(path) = 2 /\ path[1] = x /\ path[2] = y
    BY <2>6
  <2>15. Boot!FromTheApp(x) /\ Six \subseteq x.tables /\ d.values \ Boot!Retired \subseteq x.values
    BY <1>0, <2>2, <2>11 DEF Boot!FromTheApp, AllButShape
  <2>16. Field(13) = "celebrated"
    BY DEF Field
  <2> HIDE DEF path
  <2>17. ASSUME NEW k \in 1 .. Len(path)
         PROVE CutPoint(13, d, path, k)
    <3>1. CASE k = 2
      BY <2>5, <2>12, <2>14, <3>1 DEF CutPoint
    <3>2. CASE k = 1
      <4>1. x # y \/ Word(x) = Word(d)
        BY <2>8, <2>9, <2>10
      <4> QED  BY <2>5, <2>7, <2>14, <2>15, <2>16, <3>2, <4>1 DEF CutPoint
    <3> QED  BY <2>14, <3>1, <3>2
  <2>18. CutPath(13, d, path)
    BY <2>1, <2>12, <2>13, <2>14, <2>17 DEF CutPath
  <2> QED  BY <1>0, <2>18, CutSurvives
<1> QED  BY <1>1, <1>2
LEMMA CheckedSurvives == ASSUME NEW d, Boot!FromTheApp(d), Ready(d, 27) PROVE Survives(27, d)
<1> DEFINE x == Boot!Add(d, {"recap_checked_at"})
           y == [x EXCEPT !.guest.checked = TRUE]
<1>0. d \in Boot!Files /\ Boot!Orderly(d) /\ d.children = Boot!Children /\ Six \subseteq d.tables
  BY DEF Boot!FromTheApp, Ready
<1>1. CASE Boot!Has(d, "recap_checked_at")
  <2>1. Boot!Step(27, d) = <<>>
    BY <1>1 DEF Boot!Step, Boot!ensureRecapCheckedAtColumn
  <2>2. Ready(d, 27 + 1)
    BY <1>1 DEF Ready
  <2> QED  BY <1>0, <2>1, <2>2, SafeByNone, SafeSurvives
<1>2. CASE ~Boot!Has(d, "recap_checked_at")
  <2> DEFINE path == <<x, y>>
  <2>1. Boot!Step(27, d) = path
    <3>1. Boot!ensureRecapCheckedAtColumn(d) = path
      BY <1>2 DEF Boot!ensureRecapCheckedAtColumn
    <3>2. Boot!Step(27, d) = Boot!ensureRecapCheckedAtColumn(d)
      BY DEF Boot!Step
    <3> QED  BY <3>1, <3>2
  <2>2. AllButShape(d, x) /\ x.shape = d.shape \cup {"recap_checked_at"}
    <3>1. {"recap_checked_at"} \in SUBSET Boot!Columns
      BY ColumnsAre DEF Boot!Table
    <3> QED  BY <1>0, <3>1, AddIs
  <2> HIDE DEF x
  <2>3. /\ Alike(d, y, {"shape", "guest"}) /\ y.shape = x.shape
        /\ y.guest.points = d.guest.points /\ y.guest.flagged = d.guest.flagged /\ y.guest.checked = TRUE
    BY <1>0, <2>2 DEF Boot!Files, Alike, AllButShape
  <2> HIDE DEF y
  <2>4. Boot!Step(27, x) = <<>> /\ Boot!Step(27, y) = <<>>
    BY <2>2, <2>3 DEF Boot!Step, Boot!ensureRecapCheckedAtColumn, Boot!Has
  <2>5. Boot!After(Boot!Step(27, x), x) = x /\ Boot!After(Boot!Step(27, y), y) = y
    BY <2>4 DEF Boot!After
  <2>6. x \in Boot!Files /\ y \in Boot!Files
    BY <2>2, <2>3 DEF Alike, AllButShape
  <2>7. SaySame(d, x, {"checked"})
    <3>1. Tells(d, x, {"recap_checked_at"})
      BY <2>2 DEF Boot!Has, Tells
    <3> QED  BY <2>2, <3>1 DEF Word, AllButShape, Tells, SaySame
  <2>8. Word(y) = Word(d)
    <3>1. Tells(d, y, {"recap_checked_at"}) /\ Boot!Has(y, "recap_checked_at")
      BY <2>2, <2>3 DEF Boot!Has, Tells
    <3> QED  BY <1>2, <2>3, <3>1 DEF Word, Alike, Tells
  <2>9. x # y \/ x.guest.checked = TRUE
    BY <2>3
  <2>10. x.guest.checked = TRUE => x = y
    <3>1. y.guest \in [points : Nat, flagged : BOOLEAN, checked : BOOLEAN] /\ x.guest \in [points : Nat, flagged : BOOLEAN, checked : BOOLEAN]
      BY <2>6 DEF Boot!Files
    <3>2. x.guest.checked = TRUE => y.guest = x.guest
      BY <2>2, <2>3, <3>1 DEF AllButShape
    <3>3. x.guest.checked = TRUE => Alike(x, y, {})
      BY <2>2, <2>3, <3>2 DEF AllButShape, Alike
    <3> QED  BY <2>6, <3>3, AlikeIsSame
  <2>11. Boot!Orderly(x) /\ Boot!Orderly(y)
    <3>1. Boot!Has(d, "cascade") /\ Boot!Has(d, "special_date")
      BY DEF Ready, Boot!Has
    <3>2. /\ x.values = d.values /\ y.values = d.values /\ x.tables = d.tables /\ y.tables = d.tables
          /\ x.shape = d.shape \cup {"recap_checked_at"} /\ y.shape = d.shape \cup {"recap_checked_at"}
      BY <2>2, <2>3 DEF AllButShape, Alike
    <3>3. \A z : z.values = d.values /\ z.tables = d.tables /\ z.shape = d.shape \cup {"recap_checked_at"} => Boot!Orderly(z)
      BY <1>0, <3>1 DEF Boot!Orderly, Boot!Has, Boot!Table, Six, Boot!Indexes
    <3> QED  BY <3>2, <3>3
  <2>12. Same(d, y)
    BY <1>0, <2>2, <2>3, <2>8, <2>11 DEF Same, Boot!FromTheApp, Alike
  <2>13. Ready(y, 27 + 1)
    BY <2>2, <2>3 DEF Ready, Alike, Boot!Has
  <2>14. path \in Seq(Boot!Files) /\ path # <<>> /\ Len(path) = 2 /\ path[1] = x /\ path[2] = y
    BY <2>6
  <2>15. Boot!FromTheApp(x) /\ Six \subseteq x.tables /\ d.values \ Boot!Retired \subseteq x.values
    BY <1>0, <2>2, <2>11 DEF Boot!FromTheApp, AllButShape
  <2>16. Field(27) = "checked"
    BY DEF Field
  <2> HIDE DEF path
  <2>17. ASSUME NEW k \in 1 .. Len(path)
         PROVE CutPoint(27, d, path, k)
    <3>1. CASE k = 2
      BY <2>5, <2>12, <2>14, <3>1 DEF CutPoint
    <3>2. CASE k = 1
      <4>1. x # y \/ Word(x) = Word(d)
        BY <2>8, <2>9, <2>10
      <4> QED  BY <2>5, <2>7, <2>14, <2>15, <2>16, <3>2, <4>1 DEF CutPoint
    <3> QED  BY <2>14, <3>1, <3>2
  <2>18. CutPath(27, d, path)
    BY <2>1, <2>12, <2>13, <2>14, <2>17 DEF CutPath
  <2> QED  BY <1>0, <2>18, CutSurvives
<1> QED  BY <1>1, <1>2

LEMMA SelfLikesSurvive == ASSUME NEW d, Boot!FromTheApp(d), Ready(d, 33) PROVE Survives(33, d)
<1> DEFINE x == [d EXCEPT !.selfLike = FALSE]
           y == [x EXCEPT !.crown = FALSE]
<1>0. d \in Boot!Files /\ Boot!Orderly(d) /\ d.children = Boot!Children /\ Six \subseteq d.tables
  BY DEF Boot!FromTheApp, Ready
<1>1. CASE ~d.selfLike
  <2>1. Boot!Step(33, d) = <<>>
    BY <1>1 DEF Boot!Step, Boot!cleanupSelfLikes
  <2>2. Ready(d, 33 + 1)
    BY <1>1 DEF Ready
  <2> QED  BY <1>0, <2>1, <2>2, SafeByNone, SafeSurvives
<1>2. CASE d.selfLike
  <2> DEFINE path == <<x, y>>
  <2>1. Boot!Step(33, d) = path
    <3>1. Boot!cleanupSelfLikes(d) = path
      BY <1>2 DEF Boot!cleanupSelfLikes
    <3>2. Boot!Step(33, d) = Boot!cleanupSelfLikes(d)
      BY DEF Boot!Step
    <3> QED  BY <3>1, <3>2
  <2>2. Alike(d, x, {"crown"}) /\ x.shape = d.shape /\ x.selfLike = FALSE /\ x.crown = d.crown
    BY <1>0 DEF Boot!Files, Alike
  <2> HIDE DEF x
  <2>6. x \in Boot!Files
    BY <2>2 DEF Alike
  <2>3. Alike(d, y, {"crown"}) /\ y.shape = d.shape /\ y.selfLike = FALSE /\ y.crown = FALSE
    BY <2>2, <2>6 DEF Boot!Files, Alike
  <2>10. x.crown = FALSE => x = y
    BY <2>6 DEF Boot!Files
  <2> HIDE DEF y
  <2>7. y \in Boot!Files
    BY <2>3 DEF Alike
  <2>4. Boot!Step(33, x) = <<>> /\ Boot!Step(33, y) = <<>>
    BY <2>2, <2>3 DEF Boot!Step, Boot!cleanupSelfLikes
  <2>5. Boot!After(Boot!Step(33, x), x) = x /\ Boot!After(Boot!Step(33, y), y) = y
    BY <2>4 DEF Boot!After
  <2>8. x.crown \in BOOLEAN /\ d.crown \in BOOLEAN /\ d.selfLike = TRUE
    BY <1>0, <1>2, <2>6 DEF Boot!Files
  <2>9. SaySame(d, x, {"crown"})
    BY <2>2 DEF Word, Alike, Boot!Has, SaySame
  <2>11. Word(y) = Word(d)
    BY <2>3, <2>8 DEF Word, Alike, Boot!Has
  <2>12. Boot!Orderly(x) /\ Boot!Orderly(y)
    BY <1>0, <2>2, <2>3 DEF Boot!Orderly, Alike, Boot!Has
  <2>13. Same(d, y) /\ Boot!FromTheApp(x) /\ Six \subseteq x.tables /\ d.values \ Boot!Retired \subseteq x.values
    BY <1>0, <2>2, <2>3, <2>11, <2>12 DEF Same, Boot!FromTheApp, Alike
  <2>14. Ready(y, 33 + 1)
    BY <2>3 DEF Ready, Alike, Boot!Has
  <2>15. path \in Seq(Boot!Files) /\ path # <<>> /\ Len(path) = 2 /\ path[1] = x /\ path[2] = y
    BY <2>6, <2>7
  <2>16. Field(33) = "crown"
    BY DEF Field
  <2> HIDE DEF path
  <2>17. ASSUME NEW k \in 1 .. Len(path)
         PROVE CutPoint(33, d, path, k)
    <3>1. CASE k = 2
      BY <2>5, <2>13, <2>15, <3>1 DEF CutPoint
    <3>2. CASE k = 1
      <4>1. x # y \/ Word(x) = Word(d)
        BY <2>3, <2>8, <2>10, <2>11
      <4> QED  BY <2>5, <2>9, <2>13, <2>15, <2>16, <3>2, <4>1 DEF CutPoint
    <3> QED  BY <2>15, <3>1, <3>2
  <2>18. CutPath(33, d, path)
    BY <2>1, <2>13, <2>14, <2>15, <2>17 DEF CutPath
  <2> QED  BY <1>0, <2>18, CutSurvives
<1> QED  BY <1>1, <1>2
LEMMA FourIs == ASSUME NEW a, NEW b, NEW e, NEW f PROVE <<a, b>> \o <<e, f>> = <<a, b, e, f>>
<1> DEFINE S == {a, b, e, f}
           s == <<a, b>>
           t == <<e, f>>
           w == <<a, b, e, f>>
<1>1. s \in Seq(S) /\ t \in Seq(S) /\ w \in Seq(S) /\ Len(s) = 2 /\ Len(t) = 2 /\ Len(w) = 4
  OBVIOUS
<1>2. s[1] = a /\ s[2] = b /\ t[1] = e /\ t[2] = f /\ w[1] = a /\ w[2] = b /\ w[3] = e /\ w[4] = f
  OBVIOUS
<1> HIDE DEF s, t, w, S
<1>3. /\ s \o t \in Seq(S) /\ Len(s \o t) = Len(s) + Len(t)
      /\ \A i \in 1 .. Len(s) + Len(t) : (s \o t)[i] = IF i <= Len(s) THEN s[i] ELSE t[i - Len(s)]
  BY <1>1, ConcatProperties, Zenon
<1> DEFINE v == s \o t
<1>4. v \in Seq(S) /\ Len(v) = 4
  BY <1>1, <1>3
<1>5. \A i \in 1 .. 4 : v[i] = w[i]
  <2>1. \A i \in 1 .. 4 : v[i] = IF i <= 2 THEN s[i] ELSE t[i - 2]
    BY <1>1, <1>3
  <2> HIDE DEF v
  <2>2. v[1] = s[1] /\ v[2] = s[2] /\ v[3] = t[1] /\ v[4] = t[2]
    BY <2>1
  <2>3. \A i \in 1 .. 4 : i = 1 \/ i = 2 \/ i = 3 \/ i = 4
    OBVIOUS
  <2> QED  BY <1>2, <2>2, <2>3
<1> HIDE DEF v
<1>6. v = w
  BY <1>1, <1>4, <1>5, SeqEqual
<1> QED  BY <1>6 DEF v, w, s, t

\* The index of a column that is gone, and the one of the column in its stead.
Dropped(z) == [z EXCEPT !.shape = @ \ {"resolved_index"}]
Indexed(z) == Boot!Add(Dropped(z), {"status_index"})

LEMMA StatusIndex ==
    ASSUME NEW z, Boot!FromTheApp(z), Boot!Has(z, "status"), Six \subseteq z.tables
    PROVE  /\ Dropped(z) \in Boot!Files /\ Indexed(z) \in Boot!Files
           /\ Dropped(z).bug = z.bug /\ Indexed(z).bug = z.bug
           /\ Same(z, Dropped(z)) /\ Same(z, Indexed(z))
           /\ Boot!Step(30, z) = <<Dropped(z), Indexed(z)>>
           /\ Boot!Step(30, Dropped(z)) = <<Dropped(z), Indexed(z)>>
           /\ Boot!Step(30, Indexed(z)) = <<Indexed(z), Indexed(z)>>
           /\ Ready(z, 30) => Ready(Indexed(z), 30 + 1)
<1> DEFINE x == Dropped(z)
           y == Indexed(z)
<1>0. z \in Boot!Files /\ Boot!Orderly(z) /\ z.children = Boot!Children
  BY DEF Boot!FromTheApp
<1>1. \A w \in Boot!Files : AllButShape(w, Dropped(w)) /\ Dropped(w).shape = w.shape \ {"resolved_index"}
  BY DEF Boot!Files, AllButShape, Dropped
<1>2. {"status_index"} \in SUBSET Boot!Columns
  BY ColumnsAre DEF Boot!Table
<1>3. \A w \in Boot!Files : AllButShape(w, Indexed(w)) /\ Indexed(w).shape = (w.shape \ {"resolved_index"}) \cup {"status_index"}
  <2>1. ASSUME NEW w \in Boot!Files
        PROVE  AllButShape(w, Indexed(w)) /\ Indexed(w).shape = (w.shape \ {"resolved_index"}) \cup {"status_index"}
    <3> DEFINE v == Dropped(w)
    <3>1. AllButShape(w, v) /\ v.shape = w.shape \ {"resolved_index"} /\ v \in Boot!Files
      BY <1>1 DEF AllButShape
    <3> HIDE DEF v
    <3>2. AllButShape(v, Boot!Add(v, {"status_index"})) /\ Boot!Add(v, {"status_index"}).shape = v.shape \cup {"status_index"}
      BY <1>2, <3>1, AddIs
    <3>3. AllButShape(w, Boot!Add(v, {"status_index"}))
      BY <3>1, <3>2 DEF AllButShape
    <3> QED  BY <3>1, <3>2, <3>3 DEF Indexed, v
  <2> QED  BY <2>1
<1>4. AllButShape(z, x) /\ x.shape = z.shape \ {"resolved_index"} /\ AllButShape(z, y)
      /\ y.shape = (z.shape \ {"resolved_index"}) \cup {"status_index"} /\ x \in Boot!Files /\ y \in Boot!Files
  BY <1>0, <1>1, <1>3 DEF AllButShape
<1>5. \A w \in Boot!Files : "resolved_index" \notin w.shape => Dropped(w) = w
  <2>1. ASSUME NEW w \in Boot!Files, "resolved_index" \notin w.shape PROVE Dropped(w) = w
    <3>1. AllButShape(w, Dropped(w)) /\ Dropped(w).shape = w.shape
      BY <1>1, <2>1
    <3> QED  BY <3>1, SameFiles
  <2> QED  BY <2>1
<1>6. \A w \in Boot!Files : "resolved_index" \notin w.shape /\ "status_index" \in w.shape => Indexed(w) = w
  <2>1. ASSUME NEW w \in Boot!Files, "resolved_index" \notin w.shape, "status_index" \in w.shape PROVE Indexed(w) = w
    <3>1. AllButShape(w, Indexed(w)) /\ Indexed(w).shape = w.shape
      BY <1>3, <2>1
    <3> QED  BY <3>1, SameFiles
  <2> QED  BY <2>1
<1>7. y = Indexed(x)
  <2>1. Dropped(x) = x
    BY <1>4, <1>5
  <2> QED  BY <2>1 DEF Indexed
<1>8. Dropped(x) = x /\ Dropped(y) = y /\ Indexed(y) = y
  BY <1>4, <1>5, <1>6
<1>9. \A w : Boot!Has(w, "status") => Boot!Step(30, w) = <<Dropped(w), Indexed(w)>>
  <2>1. ASSUME NEW w, Boot!Has(w, "status") PROVE Boot!Step(30, w) = <<Dropped(w), Indexed(w)>>
    <3>1. Boot!ensureBugReportStatusColumn(w) = <<>> \o <<Dropped(w), Indexed(w)>>
      BY <2>1 DEF Boot!ensureBugReportStatusColumn, Boot!After, Dropped, Indexed
    <3>2. Boot!Step(30, w) = Boot!ensureBugReportStatusColumn(w)
      BY DEF Boot!Step
    <3>3. \A u, v : <<>> \o <<u, v>> = <<u, v>>
      OBVIOUS
    <3> QED  BY <3>1, <3>2, <3>3
  <2> QED  BY <2>1
<1> HIDE DEF x, y
<1>10. Boot!Has(x, "status") /\ Boot!Has(y, "status")
  BY <1>4 DEF Boot!Has
<1>11. Word(x) = Word(z) /\ Word(y) = Word(z)
  <2>1. Tells(z, x, {}) /\ Tells(z, y, {})
    BY <1>4 DEF Tells, Boot!Has
  <2>2. Word(x) = Word(z)
    BY <1>4, <2>1, ZenonT(40) DEF Tells, Word, AllButShape
  <2>3. Word(y) = Word(z)
    BY <1>4, <2>1, ZenonT(40) DEF Tells, Word, AllButShape
  <2> QED  BY <2>2, <2>3
<1>12. Boot!Orderly(x) /\ Boot!Orderly(y)
  <2>1. \A w : /\ w.values = z.values /\ w.tables = z.tables
               /\ w.shape = z.shape \ {"resolved_index"} \/ w.shape = (z.shape \ {"resolved_index"}) \cup {"status_index"}
               => Boot!Orderly(w)
    BY <1>0 DEF Boot!Orderly, Boot!Has, Boot!Table, Six, Boot!Indexes
  <2> QED  BY <1>4, <2>1 DEF AllButShape
<1>13. Same(z, x) /\ Same(z, y)
  BY <1>0, <1>4, <1>11, <1>12 DEF Same, Boot!FromTheApp, AllButShape
<1>14. Boot!Step(30, z) = <<x, y>> /\ Boot!Step(30, x) = <<x, y>> /\ Boot!Step(30, y) = <<y, y>>
  BY <1>7, <1>8, <1>9, <1>10 DEF x, y
<1>15. Ready(z, 30) => Ready(y, 30 + 1)
  BY <1>4, <1>10 DEF Ready, AllButShape, Boot!Has
<1>16. x.bug = z.bug /\ y.bug = z.bug
  BY <1>4 DEF AllButShape
<1> QED  BY <1>4, <1>13, <1>14, <1>15, <1>16 DEF x, y

LEMMA BugStatusSurvives == ASSUME NEW d, Boot!FromTheApp(d), Ready(d, 30) PROVE Survives(30, d)
<1> DEFINE x == Boot!Add(d, {"status"})
           y == [x EXCEPT !.bug.status = IF d.bug.resolved THEN "closed" ELSE "open"]
<1>0. d \in Boot!Files /\ Boot!Orderly(d) /\ d.children = Boot!Children /\ Six \subseteq d.tables
  BY DEF Boot!FromTheApp, Ready
<1>1. CASE Boot!Has(d, "status")
  <2> DEFINE u == Dropped(d)
             v == Indexed(d)
  <2>1. /\ u \in Boot!Files /\ v \in Boot!Files /\ Same(d, u) /\ Same(d, v) /\ Boot!Step(30, d) = <<u, v>> /\ Boot!Step(30, u) = <<u, v>>
        /\ Boot!Step(30, v) = <<v, v>> /\ Ready(v, 30 + 1)
    BY <1>0, <1>1, StatusIndex
  <2> HIDE DEF u, v
  <2>2. Safe(30, d)
    BY <2>1, SafeByTwo
  <2> QED  BY <1>0, <2>2, SafeSurvives
<1>2. CASE ~Boot!Has(d, "status")
  <2> DEFINE u == Dropped(y)
             v == Indexed(y)
             path == <<x, y, u, v>>
  <2>1. Boot!Step(30, d) = path
    <3>1. Boot!ensureBugReportStatusColumn(d) = <<x, y>> \o <<u, v>>
      BY <1>2 DEF Boot!ensureBugReportStatusColumn, Boot!After, Dropped, Indexed
    <3>2. Boot!Step(30, d) = Boot!ensureBugReportStatusColumn(d)
      BY DEF Boot!Step
    <3>3. <<x, y>> \o <<u, v>> = path
      <4> HIDE DEF x, y, u, v
      <4> QED  BY FourIs
    <3> HIDE DEF x, y, u, v
    <3> QED  BY <3>1, <3>2, <3>3
  <2>2. AllButShape(d, x) /\ x.shape = d.shape \cup {"status"}
    <3>1. {"status"} \in SUBSET Boot!Columns
      BY ColumnsAre DEF Boot!Table
    <3> QED  BY <1>0, <3>1, AddIs
  <2> HIDE DEF x
  <2>3. /\ Alike(d, y, {"shape", "bug"}) /\ y.shape = x.shape
        /\ y.bug.status = (IF d.bug.resolved THEN "closed" ELSE "open") /\ y.bug.resolved = d.bug.resolved
    BY <1>0, <2>2 DEF Boot!Files, Alike, AllButShape
  <2> HIDE DEF y
  <2>4. x \in Boot!Files /\ y \in Boot!Files /\ Boot!Has(x, "status") /\ Boot!Has(y, "status")
    BY <2>2, <2>3 DEF Alike, AllButShape, Boot!Has
  <2>5. SaySame(d, x, {"status"})
    <3>1. Tells(d, x, {"status"})
      BY <2>2 DEF Boot!Has, Tells
    <3> QED  BY <2>2, <3>1 DEF Word, AllButShape, Tells, SaySame
  <2>6. Word(y) = Word(d)
    <3>1. Tells(d, y, {"status"}) /\ Boot!Has(y, "status")
      BY <2>2, <2>3 DEF Boot!Has, Tells
    <3> QED  BY <1>2, <2>3, <3>1 DEF Word, Alike, Tells
  <2>7. x.bug.status = y.bug.status => x = y
    <3>1. y.bug \in [resolved : BOOLEAN, status : {"open", "closed", "tracked"}]
          /\ x.bug \in [resolved : BOOLEAN, status : {"open", "closed", "tracked"}]
      BY <2>4 DEF Boot!Files
    <3>2. x.bug.status = y.bug.status => y.bug = x.bug
      BY <2>2, <2>3, <3>1 DEF AllButShape
    <3>3. x.bug.status = y.bug.status => Alike(x, y, {})
      BY <2>2, <2>3, <3>2 DEF AllButShape, Alike
    <3> QED  BY <2>4, <3>3, AlikeIsSame
  <2>8. Boot!Orderly(x) /\ Boot!Orderly(y)
    <3>1. Boot!Has(d, "cascade") /\ Boot!Has(d, "special_date")
      BY DEF Ready, Boot!Has
    <3>2. /\ x.values = d.values /\ y.values = d.values /\ x.tables = d.tables /\ y.tables = d.tables
          /\ x.shape = d.shape \cup {"status"} /\ y.shape = d.shape \cup {"status"}
      BY <2>2, <2>3 DEF AllButShape, Alike
    <3>3. \A z : z.values = d.values /\ z.tables = d.tables /\ z.shape = d.shape \cup {"status"} => Boot!Orderly(z)
      BY <1>0, <3>1 DEF Boot!Orderly, Boot!Has, Boot!Table, Six, Boot!Indexes
    <3> QED  BY <3>2, <3>3
  <2>9. /\ Same(d, y) /\ Boot!FromTheApp(y) /\ Six \subseteq y.tables
        /\ Boot!FromTheApp(x) /\ Six \subseteq x.tables /\ d.values \ Boot!Retired \subseteq x.values
    BY <1>0, <2>2, <2>3, <2>6, <2>8 DEF Same, Boot!FromTheApp, AllButShape, Alike
  <2>10. Ready(y, 30)
    BY <2>2, <2>3 DEF Ready, Alike, Boot!Has
  <2>11. /\ u \in Boot!Files /\ v \in Boot!Files /\ u.bug = y.bug /\ v.bug = y.bug /\ Same(y, u) /\ Same(y, v)
         /\ Boot!Step(30, y) = <<u, v>> /\ Boot!Step(30, u) = <<u, v>> /\ Boot!Step(30, v) = <<v, v>> /\ Ready(v, 30 + 1)
    BY <2>4, <2>9, <2>10, StatusIndex
  <2>12. Boot!Step(30, x) = <<Dropped(x), Indexed(x)>> /\ Indexed(x).bug = x.bug
    BY <2>4, <2>9, StatusIndex
  <2> HIDE DEF u, v
  <2>13. Same(d, u) /\ Same(d, v)
    BY <2>9, <2>11 DEF Same
  <2>14. \A a, b, z : Boot!After(<<a, b>>, z) = b
    <3>1. \A a, b : <<a, b>> # <<>> /\ <<a, b>>[Len(<<a, b>>)] = b
      OBVIOUS
    <3> QED  BY <3>1 DEF Boot!After
  <2>15. Boot!After(Boot!Step(30, x), x) = Indexed(x) /\ Boot!After(Boot!Step(30, y), y) = v /\ Boot!After(Boot!Step(30, u), u) = v /\ Boot!After(Boot!Step(30, v), v) = v
    BY <2>11, <2>12, <2>14
  <2>16. Indexed(x) # v \/ Word(x) = Word(d)
    BY <2>6, <2>7, <2>11, <2>12
  <2>17. path \in Seq(Boot!Files) /\ path # <<>> /\ Len(path) = 4 /\ path[1] = x /\ path[2] = y /\ path[3] = u /\ path[4] = v
    BY <2>4, <2>11
  <2>18. Field(30) = "status"
    BY DEF Field
  <2> HIDE DEF path
  <2>19. ASSUME NEW k \in 1 .. Len(path) PROVE CutPoint(30, d, path, k)
    <3>1. CASE k = 1
      BY <2>5, <2>9, <2>15, <2>16, <2>17, <2>18, <3>1 DEF CutPoint
    <3>2. CASE k = 2
      BY <2>9, <2>15, <2>17, <3>2 DEF CutPoint
    <3>3. CASE k = 3
      BY <2>13, <2>15, <2>17, <3>3 DEF CutPoint
    <3>4. CASE k = 4
      BY <2>13, <2>15, <2>17, <3>4 DEF CutPoint
    <3> QED  BY <2>17, <3>1, <3>2, <3>3, <3>4
  <2>20. CutPath(30, d, path)
    BY <2>1, <2>11, <2>13, <2>17, <2>19 DEF CutPath
  <2> QED  BY <1>0, <2>20, CutSurvives
<1> QED  BY <1>1, <1>2
-----------------------------------------------------------------------------
(* Every step, and the deaths in it.                                       *)

LEMMA StepSurvives ==
    ASSUME NEW i \in 1 .. 33, NEW d, Boot!FromTheApp(d), Ready(d, i)
    PROVE  Survives(i, d)
<1>1. CASE i = 1
  BY <1>1, SchemaSurvives
<1>2. CASE i # 1
  <2>1. Six \subseteq d.tables
    BY <1>2 DEF Ready
  <2>2. CASE i = 13
    BY <2>2, CelebratedSurvives
  <2>3. CASE i = 27
    BY <2>3, CheckedSurvives
  <2>4. CASE i = 30
    BY <2>4, BugStatusSurvives
  <2>5. CASE i = 33
    BY <2>5, SelfLikesSurvive
  <2>6. CASE i \notin {13, 27, 30, 33}
    <3>1. Safe(i, d)
      <4>1. CASE i \in 2 .. 8
        <5>1. i = 2 \/ i = 3 \/ i = 4 \/ i = 5 \/ i = 6 \/ i = 7 \/ i = 8
          BY <4>1
        <5> QED  BY <5>1, WorthAndModeSafe, SpecialDaySafe, FlashColumnsSafe, LuckyColumnsSafe, LiveSinceSafe,
                    WorthRangeSafe, PhotoBonusSafe
      <4>2. CASE i \in 9 .. 16
        <5>1. i = 9 \/ i = 10 \/ i = 11 \/ i = 12 \/ i = 14 \/ i = 15 \/ i = 16
          BY <2>6, <4>2
        <5> QED  BY <5>1, BadgeTypeSafe, BadgeTaskSafe, AwardColumnsSafe, CascadeSafe, RankColumnSafe, PinnedSafe,
                    IdentitySafe
      <4>3. CASE i \in 17 .. 24
        <5>1. i = 17 \/ i = 18 \/ i = 19 \/ i = 20 \/ i = 21 \/ i = 22 \/ i = 23 \/ i = 24
          BY <4>3
        <5> QED  BY <5>1, TaskIdNullableSafe, BonusColumnsSafe, CatalogSafe, RetiredSafe, CollisionsSafe, WinnersSafe,
                    BackfilledSafe, ResubmittedSafe
      <4>4. CASE i \in 25 .. 33
        <5>1. i = 25 \/ i = 26 \/ i = 28 \/ i = 29 \/ i = 31 \/ i = 32
          BY <2>6, <4>4
        <5> QED  BY <5>1, TakenDownBySafe, AvatarPointSafe, CoupleSafe, BlockedSafe, BugGuestSafe, SettingsSafe
      <4> QED  BY <1>2, <4>1, <4>2, <4>3, <4>4
    <3> QED  BY <2>1, <3>1, SafeSurvives
  <2> QED  BY <2>2, <2>3, <2>4, <2>5, <2>6
<1> QED  BY <1>1, <1>2

LEMMA KeptTwice ==
    ASSUME NEW o, NEW d, NEW x, NEW F, NEW G, NEW H, Kept(o, d, F), Kept(d, x, G), F \cup G \subseteq H
    PROVE  Kept(o, x, H)
  BY DEF Kept

\* What a death in step i leaves of d says the same, but for the field whose
\* backfill no start takes up.
Leaves(i, d, left) ==
    IF Boot!After(Boot!Step(i, left), left) # Boot!After(Boot!Step(i, d), d)
    THEN i \in {13, 27, 30, 33} /\ Kept(d, left, {Field(i)})
    ELSE Kept(d, left, {})

LEMMA DeathSurvives ==
    ASSUME NEW i \in 1 .. 33, NEW d, Boot!FromTheApp(d), Ready(d, i), NEW k \in 0 .. Len(Boot!Step(i, d)), NEW left,
           left = Boot!After(SubSeq(Boot!Step(i, d), 1, k), d)
    PROVE  Leaves(i, d, left)
<1> DEFINE path == Boot!Step(i, d)
<1>1. Survives(i, d)
  BY StepSurvives
<1>2. path \in Seq(Boot!Files)
  BY <1>1 DEF Survives
<1>3. left = IF k = 0 THEN d ELSE path[k]
  BY <1>2, PointOfPath
<1>4. CASE k = 0
  <2>1. Kept(d, d, {})
    BY DEF Kept
  <2> QED  BY <1>3, <1>4, <2>1 DEF Leaves
<1>5. CASE k # 0
  <2>1. k \in 1 .. Len(path)
    BY <1>2, <1>5
  <2>2. IF Boot!After(Boot!Step(i, path[k]), path[k]) = Boot!After(path, d) THEN Kept(d, path[k], {})
        ELSE i \in {13, 27, 30, 33} /\ Kept(d, path[k], {Field(i)})
    BY <1>1, <2>1 DEF Survives
  <2> QED  BY <1>3, <1>5, <2>2 DEF Leaves
<1> QED  BY <1>4, <1>5

-----------------------------------------------------------------------------
(* The invariant of the boots: the database comes from the app, what the   *)
(* steps before pc make is made, and its word is the first one's.          *)
BootInv ==
    /\ Boot!FromTheApp(db) /\ Boot!FromTheApp(origin) /\ pc \in 0 .. 34 /\ cut \subseteq {13, 27, 30, 33}
    /\ Ready(db, pc) /\ Kept(origin, db, Boot!Unfilled)

LEMMA BootStarts == Boot!BootInit => BootInv
<1> SUFFICES ASSUME Boot!BootInit PROVE BootInv
  OBVIOUS
<1>1. Boot!FromTheApp(db) /\ db = origin /\ pc = 0 /\ cut = {}
  BY OriginsAssumption DEF Boot!BootInit, Boot!Down
<1>2. Ready(db, 0)
  BY DEF Ready
<1>3. Kept(origin, db, Boot!Unfilled)
  BY <1>1 DEF Kept
<1> QED  BY <1>1, <1>2, <1>3 DEF BootInv

\* x is d with other rows.
Written(d, x, t, p, g, a, m, b, v) ==
    /\ x \in Boot!Files
    /\ x.task = t /\ x.photo = p /\ x.guest = g /\ x.badge = a /\ x.bloom = m /\ x.bug = b
    /\ x.values = v /\ x.tables = d.tables /\ x.shape = d.shape /\ x.children = d.children
    /\ x.codes = d.codes /\ x.held = d.held /\ x.selfLike = d.selfLike /\ x.crown = d.crown

Rewritten(d, t, p, g, a, m, b, v) ==
    [d EXCEPT !.task = t, !.photo = p, !.guest = g, !.badge = a, !.bloom = m, !.bug = b, !.values = v]

LEMMA RowsWritten ==
    ASSUME NEW d \in Boot!Files, NEW v \in SUBSET Boot!Columns,
           NEW t \in [active : BOOLEAN, worth : Nat, mode : {"none", "hidden", "oneday"}],
           NEW p \in [down : BOOLEAN, by : {"nobody", "admin", "guest"}],
           NEW g \in [points : Nat, flagged : BOOLEAN, checked : BOOLEAN],
           NEW a \in [bloom : Nat, sweep : Nat, celebrated : BOOLEAN],
           NEW m \in [threshold : Nat, described : Nat],
           NEW b \in [resolved : BOOLEAN, status : {"open", "closed", "tracked"}]
    PROVE  Written(d, Rewritten(d, t, p, g, a, m, b, v), t, p, g, a, m, b, v)
<1> DEFINE x == Rewritten(d, t, p, g, a, m, b, v)
           d1 == [d EXCEPT !.task = t]
           d2 == [d1 EXCEPT !.photo = p]
           d3 == [d2 EXCEPT !.guest = g]
           d4 == [d3 EXCEPT !.badge = a]
           d5 == [d4 EXCEPT !.bloom = m]
           d6 == [d5 EXCEPT !.bug = b]
<1>1. d1 \in Boot!Files
  BY DEF Boot!Files
<1>2. d2 \in Boot!Files
  BY <1>1 DEF Boot!Files
<1>3. d3 \in Boot!Files
  BY <1>2 DEF Boot!Files
<1>4. d4 \in Boot!Files
  BY <1>3 DEF Boot!Files
<1>5. d5 \in Boot!Files
  BY <1>4 DEF Boot!Files
<1>6. d6 \in Boot!Files
  BY <1>5 DEF Boot!Files
<1>7. x = [d6 EXCEPT !.values = v]
  BY DEF Boot!Files, Rewritten
<1> HIDE DEF d1, d2, d3, d4, d5, d6
<1>a. [d6 EXCEPT !.values = v] \in Boot!Files
  BY <1>6 DEF Boot!Files
<1>8. x \in Boot!Files
  BY <1>7, <1>a
<1>9. x.task = t /\ x.photo = p /\ x.guest = g /\ x.badge = a /\ x.bloom = m /\ x.bug = b /\ x.values = v
  BY DEF Boot!Files, Rewritten
<1>10. /\ x.tables = d.tables /\ x.shape = d.shape /\ x.children = d.children /\ x.codes = d.codes /\ x.held = d.held
       /\ x.selfLike = d.selfLike /\ x.crown = d.crown
  BY DEF Rewritten
<1> QED  BY <1>8, <1>9, <1>10 DEF Written

\* What a host or a guest writes is the app's, and there is nothing before it.
LEMMA WriteKeeps ==
    ASSUME NEW d, Boot!FromTheApp(d), Ready(d, 34)
    PROVE  Boot!FromTheApp(Boot!Edited(d)) /\ Ready(Boot!Edited(d), 34)
<1> DEFINE x == Boot!Edited(d)
<1>0. d \in Boot!Files /\ Boot!Orderly(d) /\ d.children = Boot!Children
  BY DEF Boot!FromTheApp
<1>1. d.shape \ Boot!Indexes \in SUBSET Boot!Columns
  BY <1>0 DEF Boot!Files
<1>a. 5 \in Nat /\ 2 \in Nat /\ d.guest.points \in Nat
  BY <1>0 DEF Boot!Files
<1>b. /\ d.task \in [active : BOOLEAN, worth : Nat, mode : {"none", "hidden", "oneday"}]
      /\ d.guest \in [points : Nat, flagged : BOOLEAN, checked : BOOLEAN]
      /\ d.badge \in [bloom : Nat, sweep : Nat, celebrated : BOOLEAN]
      /\ d.bug \in [resolved : BOOLEAN, status : {"open", "closed", "tracked"}]
  BY <1>0 DEF Boot!Files
<1> DEFINE task1 == [d.task EXCEPT !.worth = 5, !.mode = "oneday"]
           photo1 == [down |-> TRUE, by |-> "guest"]
           guest1 == [d.guest EXCEPT !.points = 2, !.checked = FALSE]
           badge1 == [d.badge EXCEPT !.celebrated = FALSE]
           bloom1 == [threshold |-> 2, described |-> 2]
           bug1 == [d.bug EXCEPT !.status = "tracked"]
<1>c. task1 \in [active : BOOLEAN, worth : Nat, mode : {"none", "hidden", "oneday"}]
  BY <1>b
<1>d. photo1 \in [down : BOOLEAN, by : {"nobody", "admin", "guest"}] /\ bloom1 \in [threshold : Nat, described : Nat]
      /\ bloom1.described = bloom1.threshold
  OBVIOUS
<1>e. guest1 \in [points : Nat, flagged : BOOLEAN, checked : BOOLEAN]
  BY <1>b
<1>f. badge1 \in [bloom : Nat, sweep : Nat, celebrated : BOOLEAN] /\ badge1.bloom = d.badge.bloom /\ badge1.sweep = d.badge.sweep
  BY <1>b
<1>g. bug1 \in [resolved : BOOLEAN, status : {"open", "closed", "tracked"}]
  BY <1>b
<1>h. x = Rewritten(d, task1, photo1, guest1, badge1, bloom1, bug1, d.shape \ Boot!Indexes)
  BY DEF Boot!Edited, Rewritten
<1> HIDE DEF x, task1, photo1, guest1, badge1, bloom1, bug1
<1>l. Written(d, x, task1, photo1, guest1, badge1, bloom1, bug1, d.shape \ Boot!Indexes)
  BY <1>0, <1>1, <1>c, <1>d, <1>e, <1>f, <1>g, <1>h, RowsWritten
<1>2. /\ x.children = d.children /\ x.tables = d.tables /\ x.shape = d.shape
      /\ x.values = d.shape \ Boot!Indexes /\ x.codes = d.codes /\ x.held = d.held
      /\ x.badge.bloom = d.badge.bloom /\ x.badge.sweep = d.badge.sweep
      /\ x.bloom.described = x.bloom.threshold /\ x.selfLike = d.selfLike
  BY <1>d, <1>f, <1>l DEF Written
<1>3. Boot!Orderly(x)
  BY <1>0, <1>2 DEF Boot!Orderly, Boot!Has
<1>4. Ready(x, 34)
  BY <1>2 DEF Ready, Boot!Has
<1> QED  BY <1>0, <1>2, <1>3, <1>4, <1>l DEF Boot!FromTheApp, Written, x

LEMMA BootStep == BootInv /\ [Boot!BootNext]_Boot!bootVars => BootInv'
<1> SUFFICES ASSUME BootInv, [Boot!BootNext]_Boot!bootVars PROVE BootInv'
  OBVIOUS
<1>0. Boot!FromTheApp(db) /\ Boot!FromTheApp(origin) /\ pc \in 0 .. 34 /\ cut \subseteq {13, 27, 30, 33}
      /\ Ready(db, pc) /\ Kept(origin, db, Boot!Unfilled)
  BY DEF BootInv
<1>u. /\ Boot!Unfilled \subseteq {"celebrated", "checked", "status", "crown"}
      /\ "celebrated" \in Boot!Unfilled <=> 13 \in cut
      /\ "checked" \in Boot!Unfilled <=> 27 \in cut
      /\ "status" \in Boot!Unfilled <=> 30 \in cut
      /\ "crown" \in Boot!Unfilled <=> 33 \in cut
  BY DEF Boot!Unfilled
<1>v. /\ Boot!Unfilled' \subseteq {"celebrated", "checked", "status", "crown"}
      /\ "celebrated" \in Boot!Unfilled' <=> 13 \in cut'
      /\ "checked" \in Boot!Unfilled' <=> 27 \in cut'
      /\ "status" \in Boot!Unfilled' <=> 30 \in cut'
      /\ "crown" \in Boot!Unfilled' <=> 33 \in cut'
  BY DEF Boot!Unfilled
<1>r. \A d : Ready(d, 0) /\ Ready(d, 1)
  BY DEF Ready
<1>1. CASE Boot!Start
  <2>1. db' = db /\ origin' = origin /\ cut' = cut /\ pc' = 1
    BY <1>1 DEF Boot!Start
  <2>2. Boot!Unfilled' = Boot!Unfilled
    BY <2>1 DEF Boot!Unfilled
  <2>3. Ready(db', 1) /\ Boot!FromTheApp(db') /\ Boot!FromTheApp(origin') /\ Kept(origin', db', Boot!Unfilled')
    BY <1>0, <1>r, <2>1, <2>2
  <2> QED  BY <1>0, <2>1, <2>3 DEF BootInv
<1>2. CASE Boot!Migrate
  <2>1. pc \in 1 .. 33 /\ db' = Boot!After(Boot!Step(pc, db), db) /\ pc' = pc + 1 /\ origin' = origin /\ cut' = cut
    BY <1>2 DEF Boot!Migrate, Boot!Serving
  <2>2. Survives(pc, db)
    BY <1>0, <2>1, StepSurvives
  <2>3. Ready(db', pc') /\ Kept(db, db', {})
    BY <2>1, <2>2 DEF Survives
  <2>4. Boot!Unfilled' = Boot!Unfilled
    BY <2>1 DEF Boot!Unfilled
  <2>5. Kept(origin', db', Boot!Unfilled')
    <3>1. Kept(origin, db', Boot!Unfilled)
      BY <1>0, <2>3, KeptTwice
    <3> QED  BY <2>1, <2>4, <3>1
  <2>6. Boot!FromTheApp(db') /\ Boot!FromTheApp(origin') /\ pc' \in 0 .. 34
    BY <1>0, <2>1, <2>3 DEF Kept
  <2> QED  BY <1>0, <2>1, <2>3, <2>5, <2>6 DEF BootInv
<1>3. CASE Boot!Die
  <2>1. /\ pc \in 1 .. 33 /\ pc' = 0 /\ origin' = origin
        /\ \E k \in 0 .. Len(Boot!Step(pc, db)) :
             /\ db' = Boot!After(SubSeq(Boot!Step(pc, db), 1, k), db)
             /\ cut' = IF Boot!After(Boot!Step(pc, db'), db') # Boot!After(Boot!Step(pc, db), db) THEN cut \cup {pc} ELSE cut
    BY <1>3 DEF Boot!Die, Boot!Serving, Boot!Down
  <2>2. IF Boot!After(Boot!Step(pc, db'), db') # Boot!After(Boot!Step(pc, db), db)
        THEN pc \in {13, 27, 30, 33} /\ Kept(db, db', {Field(pc)}) /\ cut' = cut \cup {pc}
        ELSE Kept(db, db', {}) /\ cut' = cut
    <3> DEFINE skips == Boot!After(Boot!Step(pc, db'), db') # Boot!After(Boot!Step(pc, db), db)
    <3>1. PICK k \in 0 .. Len(Boot!Step(pc, db)) :
             /\ db' = Boot!After(SubSeq(Boot!Step(pc, db), 1, k), db)
             /\ cut' = IF skips THEN cut \cup {pc} ELSE cut
      BY <2>1
    <3>2. Leaves(pc, db, db')
      BY <1>0, <2>1, <3>1, DeathSurvives
    <3>3. IF skips THEN cut' = cut \cup {pc} ELSE cut' = cut
      BY <3>1
    <3>4. IF skips THEN pc \in {13, 27, 30, 33} /\ Kept(db, db', {Field(pc)}) ELSE Kept(db, db', {})
      BY <3>2 DEF Leaves
    <3> HIDE DEF skips
    <3>5. IF skips THEN pc \in {13, 27, 30, 33} /\ Kept(db, db', {Field(pc)}) /\ cut' = cut \cup {pc}
          ELSE Kept(db, db', {}) /\ cut' = cut
      BY <3>3, <3>4, Zenon
    <3> QED  BY <3>5 DEF skips
  <2>3. Kept(origin, db', Boot!Unfilled') /\ cut' \subseteq {13, 27, 30, 33}
    <3>1. CASE pc \in {13, 27, 30, 33} /\ Kept(db, db', {Field(pc)}) /\ cut' = cut \cup {pc}
      <4>1. Field(pc) \in Boot!Unfilled'
        <5>1. CASE pc = 13
          BY <1>v, <3>1, <5>1 DEF Field
        <5>2. CASE pc = 27
          BY <1>v, <3>1, <5>2 DEF Field
        <5>3. CASE pc = 30
          BY <1>v, <3>1, <5>3 DEF Field
        <5>4. CASE pc = 33
          BY <1>v, <3>1, <5>4 DEF Field
        <5> QED  BY <3>1, <5>1, <5>2, <5>3, <5>4
      <4>2. Boot!Unfilled \subseteq Boot!Unfilled'
        BY <1>u, <1>v, <3>1
      <4> QED  BY <1>0, <2>1, <3>1, <4>1, <4>2, KeptTwice
    <3>2. CASE Kept(db, db', {}) /\ cut' = cut
      <4>1. Boot!Unfilled \cup {} \subseteq Boot!Unfilled'
        BY <1>u, <1>v, <3>2
      <4> QED  BY <1>0, <2>1, <3>2, <4>1, KeptTwice
    <3> QED  BY <2>2, <3>1, <3>2
  <2>4. Boot!FromTheApp(db')
    BY <2>3 DEF Kept
  <2> QED  BY <1>0, <1>r, <2>1, <2>3, <2>4 DEF BootInv
<1>4. CASE Boot!Write
  <2>1. pc = 34 /\ pc' = pc /\ db' = Boot!Edited(db) /\ origin' = db' /\ cut' = {}
    BY <1>4 DEF Boot!Write, Boot!Serving
  <2>2. Boot!FromTheApp(db') /\ Ready(db', 34)
    BY <1>0, <2>1, WriteKeeps
  <2>3. Kept(origin', db', Boot!Unfilled')
    BY <2>1, <2>2 DEF Kept
  <2> QED  BY <2>1, <2>2, <2>3 DEF BootInv
<1>5. CASE Boot!Stop
  <2>1. db' = db /\ origin' = origin /\ cut' = cut /\ pc' = 0
    BY <1>5 DEF Boot!Stop, Boot!Down
  <2>2. Boot!Unfilled' = Boot!Unfilled
    BY <2>1 DEF Boot!Unfilled
  <2>3. Ready(db', 0) /\ Boot!FromTheApp(db') /\ Boot!FromTheApp(origin') /\ Kept(origin', db', Boot!Unfilled')
    BY <1>0, <1>r, <2>1, <2>2
  <2> QED  BY <1>0, <2>1, <2>3 DEF BootInv
<1>6. CASE UNCHANGED Boot!bootVars
  <2>1. db' = db /\ origin' = origin /\ cut' = cut /\ pc' = pc
    BY <1>6 DEF Boot!bootVars
  <2>2. Boot!Unfilled' = Boot!Unfilled
    BY <2>1 DEF Boot!Unfilled
  <2>3. Ready(db', pc') /\ Boot!FromTheApp(db') /\ Boot!FromTheApp(origin') /\ Kept(origin', db', Boot!Unfilled')
    BY <1>0, <2>1, <2>2
  <2> QED  BY <1>0, <2>1, <2>3 DEF BootInv
<1> QED  BY <1>1, <1>2, <1>3, <1>4, <1>5, <1>6 DEF Boot!BootNext

\* What a database says that every step has been made on.
LEMMA ServedSays ==
    ASSUME NEW d, Boot!FromTheApp(d), Ready(d, 34)
    PROVE  /\ Boot!ShapeIsWhole(d) /\ DOMAIN Boot!Said(d) = Fields
           /\ \A f \in Fields : Boot!Said(d)[f] = Boot!Converted(d)[f]
<1>0. d \in Boot!Files /\ Boot!Orderly(d) /\ d.children = Boot!Children
  BY DEF Boot!FromTheApp
<1>1. /\ Six \subseteq d.tables /\ "settings" \in d.tables /\ "badge_winners" \notin d.tables
      /\ ~Boot!Has(d, "is_active") /\ ~Boot!Has(d, "avatar_point_awarded") /\ ~Boot!Has(d, "resolved_index")
  BY DEF Ready
<1>2. Boot!Columns \ d.shape \subseteq Boot!Retired \cup {"guest_index"}
  BY ColumnsAre DEF Ready, Boot!Has, Boot!Table, Boot!Retired
<1>3. Boot!ShapeIsWhole(d)
  <2>1. {"guests", "tasks", "submissions", "badges", "guest_badges", "bug_reports", "settings"} \subseteq d.tables
    BY <1>1 DEF Six
  <2>2. d.shape \cap Boot!Retired = {}
    BY <1>1 DEF Boot!Has, Boot!Retired
  <2>3. Boot!Columns \ d.shape \subseteq Boot!Retired \cup {"guest_index"}
    BY <1>2
  <2>4. "badge_winners" \notin d.tables
    BY <1>1
  <2> QED  BY <2>1, <2>2, <2>3, <2>4, Zenon DEF Boot!ShapeIsWhole
<1>4. /\ Boot!Has(d, "worth_3_to_5") /\ Boot!Has(d, "taken_down_by") /\ Boot!Has(d, "celebrated_at") /\ Boot!Has(d, "recap_checked_at")
      /\ Boot!Has(d, "status")
  BY DEF Ready, Boot!Has
<1>5. /\ d.codes = {"BLOOM", "COMPLETIONIST"} /\ d.held \ {"MOSTLIKED", "CROWDFAV"} = d.held
      /\ d.bloom.described = d.bloom.threshold
      /\ "BLOOM" \in d.held => d.badge.bloom # 0
      /\ "COMPLETIONIST" \in d.held => d.badge.sweep >= 2
      /\ d.selfLike = FALSE
  BY <1>0 DEF Ready, Boot!Files, Boot!Codes
<1>6. d.badge.celebrated \in BOOLEAN /\ d.guest.checked \in BOOLEAN /\ d.crown \in BOOLEAN /\ d.badge.sweep \in Nat
  BY <1>0 DEF Boot!Files
<1>7. /\ Word(d).worth = d.task.worth /\ Word(d).mode = d.task.mode /\ Word(d).by = d.photo.by
      /\ Word(d).points = d.guest.points /\ Word(d).badges = <<d.codes, d.held>> /\ Word(d).described = d.bloom.described
      /\ Word(d).bloom = d.badge.bloom
  BY <1>1, <1>4, <1>5 DEF Word
<1>8. Word(d).sweep = d.badge.sweep
  BY <1>5, <1>6 DEF Word
<1>9. Word(d).celebrated = d.badge.celebrated /\ Word(d).checked = d.guest.checked /\ Word(d).status = d.bug.status
  BY <1>4, <1>6 DEF Word
<1>10. Word(d).crown = d.crown
  BY <1>5, <1>6 DEF Word
<1>11. \A f \in Fields : Boot!Said(d)[f] = Word(d)[f]
  <2>1. /\ Boot!Said(d).worth = d.task.worth /\ Boot!Said(d).mode = d.task.mode /\ Boot!Said(d).by = d.photo.by
        /\ Boot!Said(d).points = d.guest.points /\ Boot!Said(d).badges = <<d.codes, d.held>> /\ Boot!Said(d).described = d.bloom.described
        /\ Boot!Said(d).bloom = d.badge.bloom /\ Boot!Said(d).sweep = d.badge.sweep /\ Boot!Said(d).celebrated = d.badge.celebrated
        /\ Boot!Said(d).checked = d.guest.checked /\ Boot!Said(d).status = d.bug.status /\ Boot!Said(d).crown = d.crown
    BY DEF Boot!Said
  <2> QED  BY <1>7, <1>8, <1>9, <1>10, <2>1 DEF Fields
<1>12. Boot!Converted(d) = Word(d)
  BY <1>0, <1>1, WordIsConverted
<1>13. DOMAIN Boot!Said(d) = Fields
  BY DEF Boot!Said, Fields
<1> QED  BY <1>3, <1>11, <1>12, <1>13

LEMMA BootMeans == BootInv => Boot!BootConverges
<1> SUFFICES ASSUME BootInv PROVE Boot!BootConverges
  OBVIOUS
<1>0. Boot!FromTheApp(db) /\ cut \subseteq {13, 27, 30, 33} /\ Ready(db, pc) /\ Kept(origin, db, Boot!Unfilled)
  BY DEF BootInv
<1>1. ASSUME pc = 34
      PROVE  /\ Boot!ShapeIsWhole(db) /\ db.children = Boot!Children /\ origin.values \ Boot!Retired \subseteq db.values
             /\ \A f \in DOMAIN Boot!Said(db) \ Boot!Unfilled : Boot!Said(db)[f] = Boot!Converted(origin)[f]
  <2>1. Boot!ShapeIsWhole(db) /\ DOMAIN Boot!Said(db) = Fields /\ \A f \in Fields : Boot!Said(db)[f] = Boot!Converted(db)[f]
    BY <1>0, <1>1, ServedSays
  <2> QED  BY <1>0, <2>1 DEF Kept, Boot!FromTheApp
<1> QED  BY <1>0, <1>1 DEF Boot!BootConverges, Boot!Serving

LEMMA BootsStart == ServerInit => (part = "boot" => BootInv)
  BY BootStarts DEF ServerInit

LEMMA BootsStep ==
    (part = "boot" => BootInv) /\ [ServerNext]_<<part, vars, bootVars, backupVars, lifeVars, exportVars>>
        => (part = "boot" => BootInv)'
<1> SUFFICES ASSUME part = "boot" => BootInv, [ServerNext]_<<part, vars, bootVars, backupVars, lifeVars, exportVars>>,
                    part' = "boot"
             PROVE  BootInv'
  OBVIOUS
<1>1. part = "boot"
  BY DEF ServerNext
<1>2. [Boot!BootNext]_Boot!bootVars
  BY <1>1 DEF ServerNext, bootVars, Boot!bootVars
<1> QED  BY <1>1, <1>2, BootStep

\* From any database of any version of the app, through deaths after any
\* statement and however many starts (db/index.js): the schema and the data a
\* single boot would have made, but for the backfills a death skips.
THEOREM DataAlwaysSurvives == ServerSpec => []DataSurvives
<1>1. (part = "boot" => BootInv) => DataSurvives
  BY BootMeans DEF DataSurvives
<1> QED  BY <1>1, BootsStart, BootsStep, PTL DEF ServerSpec

-----------------------------------------------------------------------------
(* The keepsake (Export).  What an entry, read or still to be read, is: a  *)
(* photo under the name of its row, the one entry of that row.             *)

ZipEntries == {[name |-> e.name, file |-> e.file] : e \in queue} \cup zip

NamedByRow(e) ==
    /\ e.file[1] \in Submitted /\ e = [name |-> Export!EntryName(e.file[1]), file |-> e.file]

Asked == {"start", "sheets", "folders", "sent", "broken"}

ExportType ==
    /\ row \in [Submitted -> [there : BOOLEAN, down : BOOLEAN, version : Nat]]
    /\ step \in Asked /\ meddling \in Nat /\ met \subseteq Submitted
    /\ \A e \in queue : e = [name |-> e.name, file |-> e.file, open |-> e.open]

\* Of what stayed nothing is missing: it is there with its file and on the
\* sheet, and in the folders once these were made.
NothingMissed ==
    \A r \in met :
        /\ row[r].there /\ Export!FileOf(r) \in disk
        /\ \E s \in sheet : s.row = r
        /\ step \in {"folders", "sent"} => \E e \in ZipEntries : e.file = Export!FileOf(r)

\* No two entries are of one row, or of one guest and task.
EntriesApart ==
    /\ \A e \in ZipEntries : NamedByRow(e)
    /\ \A e, f \in ZipEntries : (e.file[1] = f.file[1] => e.file = f.file) /\ Export!UNIQUE(e.file[1], f.file[1])

\* Where nobody meddled, the sheet and the folders are what there is.
Undisturbed ==
    meddling = 0 =>
        /\ step # "start" => {s.row : s \in sheet} = Export!There
        /\ step \in {"folders", "sent"} => {e.file : e \in ZipEntries} = {Export!FileOf(r) : r \in Export!Whole}
        /\ step # "broken"

ExportInv ==
    /\ ExportType /\ NothingMissed /\ EntriesApart /\ Undisturbed
    /\ \A r, s \in Export!There : Export!UNIQUE(r, s)
    /\ step = "start" => meddling = 0 /\ met = {}
    /\ step \in {"start", "sheets"} => ZipEntries = {} /\ queue = {}
    /\ step = "sent" => queue = {}

LEMMA ExportStarts == Export!ExportInit => ExportInv
<1> SUFFICES ASSUME Export!ExportInit PROVE ExportInv
  OBVIOUS
<1>1. step = "start" /\ sheet = {} /\ queue = {} /\ zip = {} /\ met = {} /\ meddling = 0
  BY DEF Export!ExportInit
<1>2. PICK gone \in SUBSET Submitted, down \in SUBSET Submitted :
        /\ \A r, s \in Submitted \ gone : Export!UNIQUE(r, s)
        /\ row = [r \in Submitted |-> [there |-> r \notin gone, down |-> r \in down \ gone, version |-> 0]]
  BY DEF Export!ExportInit
<1>3. row \in [Submitted -> [there : BOOLEAN, down : BOOLEAN, version : Nat]]
  <2>1. \A r \in Submitted :
          [there |-> r \notin gone, down |-> r \in down \ gone, version |-> 0] \in [there : BOOLEAN, down : BOOLEAN, version : Nat]
    OBVIOUS
  <2> QED  BY <1>2, <2>1
<1>4. \A r, s \in Export!There : Export!UNIQUE(r, s)
  <2>1. \A r \in Export!There : r \in Submitted \ gone
    BY <1>2 DEF Export!There
  <2> QED  BY <1>2, <2>1
<1>5. ZipEntries = {}
  BY <1>1 DEF ZipEntries
<1> QED  BY <1>1, <1>3, <1>4, <1>5 DEF ExportInv, ExportType, Asked, NothingMissed, EntriesApart, Undisturbed

\* The party goes on: what did not stay is no longer asked for.
LEMMA MeddlingKeeps ==
    ASSUME ExportInv, Export!Meddle,
           row' \in [Submitted -> [there : BOOLEAN, down : BOOLEAN, version : Nat]],
           \A r, s \in Export!There' : Export!UNIQUE(r, s)
    PROVE  ExportInv'
<1>0. ExportType /\ NothingMissed /\ EntriesApart
  BY DEF ExportInv
<1>1. /\ step \in {"sheets", "folders"} /\ meddling' = meddling + 1
      /\ met' = met \cap {r \in Submitted : /\ row'[r].there /\ row'[r].version = row[r].version
                                            /\ Export!FileOf(r) \in disk'}
      /\ step' = step /\ sheet' = sheet /\ queue' = queue /\ zip' = zip
  BY DEF Export!Meddle
<1>2. ZipEntries' = ZipEntries /\ (ZipEntries = {} => ZipEntries' = {})
  BY <1>1 DEF ZipEntries
<1>3. meddling' \in Nat /\ meddling' # 0 /\ met' \subseteq Submitted
  BY <1>0, <1>1 DEF ExportType
<1>4. \A r \in met' : r \in met /\ row'[r].there /\ Export!FileOf(r)' = Export!FileOf(r) /\ Export!FileOf(r) \in disk'
  BY <1>1 DEF Export!FileOf
<1>5. NothingMissed'
  <2> SUFFICES ASSUME NEW r \in met'
               PROVE  /\ row'[r].there /\ Export!FileOf(r)' \in disk'
                      /\ \E s \in sheet' : s.row = r
                      /\ step' \in {"folders", "sent"} => \E e \in ZipEntries' : e.file = Export!FileOf(r)'
    BY DEF NothingMissed
  <2>1. /\ \E s \in sheet : s.row = r
        /\ step \in {"folders", "sent"} => \E e \in ZipEntries : e.file = Export!FileOf(r)
    BY <1>0, <1>4 DEF NothingMissed
  <2> QED  BY <1>1, <1>2, <1>4, <2>1
<1>6. EntriesApart'
  BY <1>0, <1>2 DEF EntriesApart, NamedByRow, Export!EntryName, Export!UNIQUE
<1>7. ExportType'
  BY <1>0, <1>1, <1>3 DEF ExportType
<1>8. Undisturbed'
  BY <1>3 DEF Undisturbed
<1> QED  BY <1>1, <1>2, <1>5, <1>6, <1>7, <1>8 DEF ExportInv, Export!UNIQUE

LEMMA MeddlersKeep ==
    ASSUME ExportInv, NEW r \in Submitted,
           Export!Post(r) \/ Export!Replace(r) \/ Export!Hide(r) \/ Export!DeleteGuest(Authors[r])
    PROVE  ExportInv'
<1> DEFINE Row == [there : BOOLEAN, down : BOOLEAN, version : Nat]
<1>0. row \in [Submitted -> Row] /\ \A s, t \in Export!There : Export!UNIQUE(s, t)
  BY DEF ExportInv, ExportType
<1>1. CASE Export!Post(r)
  <2>1. row' = [row EXCEPT ![r].there = TRUE] /\ Export!Meddle /\ \A s \in Export!There : Export!UNIQUE(r, s)
    BY <1>1 DEF Export!Post
  <2>2. row' \in [Submitted -> Row]
    BY <1>0, <2>1
  <2>3. \A s \in Export!There' : s \in Export!There \cup {r}
    BY <1>0, <2>1 DEF Export!There
  <2>4. \A s, t \in Export!There' : Export!UNIQUE(s, t)
    BY <1>0, <2>1, <2>3 DEF Export!UNIQUE
  <2> QED  BY <2>1, <2>2, <2>4, MeddlingKeeps
<1>2. CASE Export!Replace(r)
  <2>1. row' = [row EXCEPT ![r].version = @ + 1] /\ Export!Meddle
    BY <1>2 DEF Export!Replace
  <2>2. row' \in [Submitted -> Row]
    BY <1>0, <2>1
  <2>3. \A s \in Export!There' : s \in Export!There
    BY <1>0, <2>1 DEF Export!There
  <2> QED  BY <1>0, <2>1, <2>2, <2>3, MeddlingKeeps
<1>3. CASE Export!Hide(r)
  <2>1. row' = [row EXCEPT ![r].down = ~@] /\ Export!Meddle
    BY <1>3 DEF Export!Hide
  <2>2. row' \in [Submitted -> Row]
    BY <1>0, <2>1
  <2>3. \A s \in Export!There' : s \in Export!There
    BY <1>0, <2>1 DEF Export!There
  <2> QED  BY <1>0, <2>1, <2>2, <2>3, MeddlingKeeps
<1>4. CASE Export!DeleteGuest(Authors[r])
  <2>1. /\ row' = [s \in Submitted |-> IF row[s].there /\ Authors[s] = Authors[r]
                                       THEN [there |-> FALSE, down |-> row[s].down, version |-> row[s].version + 1]
                                       ELSE row[s]]
        /\ Export!Meddle
    BY <1>4 DEF Export!DeleteGuest
  <2>2. row' \in [Submitted -> Row]
    <3>1. \A x \in Row : [there |-> FALSE, down |-> x.down, version |-> x.version + 1] \in Row
      OBVIOUS
    <3>2. \A s \in Submitted : row'[s] \in Row
      BY <1>0, <2>1, <3>1
    <3> QED  BY <2>1, <3>2
  <2>3. \A s \in Export!There' : s \in Export!There
    BY <1>0, <2>1 DEF Export!There
  <2> QED  BY <1>0, <2>1, <2>2, <2>3, MeddlingKeeps
<1> QED  BY <1>1, <1>2, <1>3, <1>4

\* The sheet is of all rows there are.
LEMMA SheetKeeps == ExportInv /\ Export!buildSummaryBuffer => ExportInv'
<1> SUFFICES ASSUME ExportInv, Export!buildSummaryBuffer PROVE ExportInv'
  OBVIOUS
<1>0. /\ ExportType /\ EntriesApart /\ (step \in {"start", "sheets"} => ZipEntries = {} /\ queue = {})
      /\ \A r, s \in Export!There : Export!UNIQUE(r, s)
  BY DEF ExportInv
<1>1. /\ step = "start" /\ step' = "sheets" /\ sheet' = {[row |-> r, takenDown |-> row[r].down] : r \in Export!There}
      /\ met' = Export!Whole
      /\ row' = row /\ disk' = disk /\ queue' = queue /\ zip' = zip /\ meddling' = meddling
  BY DEF Export!buildSummaryBuffer
<1>2. ZipEntries' = {} /\ queue' = {}
  BY <1>0, <1>1 DEF ZipEntries
<1>3. Export!There' = Export!There /\ \A r : Export!FileOf(r)' = Export!FileOf(r)
  BY <1>1 DEF Export!There, Export!FileOf
<1>4. \A r \in met' : r \in Submitted /\ row[r].there /\ Export!FileOf(r) \in disk /\ r \in Export!There
  BY <1>1 DEF Export!Whole, Export!There
<1>5. {s.row : s \in sheet'} = Export!There
  <2> DEFINE line(r) == [row |-> r, takenDown |-> row[r].down]
  <2>1. \A r : line(r).row = r
    OBVIOUS
  <2>2. sheet' = {line(r) : r \in Export!There}
    BY <1>1
  <2> HIDE DEF line
  <2> QED  BY <2>1, <2>2
<1>6. NothingMissed'
  <2>1. \A r \in met' : \E s \in sheet' : s.row = r
    BY <1>4, <1>5
  <2> QED  BY <1>1, <1>3, <1>4, <2>1 DEF NothingMissed
<1>7. EntriesApart'
  BY <1>2 DEF EntriesApart
<1>8. Undisturbed'
  BY <1>1, <1>3, <1>5 DEF Undisturbed
<1>9. ExportType'
  BY <1>0, <1>1, <1>2, <1>4 DEF ExportType, Asked
<1> QED  BY <1>0, <1>1, <1>2, <1>3, <1>6, <1>7, <1>8, <1>9 DEF ExportInv, Export!UNIQUE

\* The folders are of the rows there are, those with a file.
LEMMA CollectKeeps == ExportInv /\ Export!Collect => ExportInv'
<1> SUFFICES ASSUME ExportInv, Export!Collect PROVE ExportInv'
  OBVIOUS
<1>0. /\ ExportType /\ NothingMissed /\ Undisturbed /\ (step \in {"start", "sheets"} => ZipEntries = {} /\ queue = {})
      /\ \A r, s \in Export!There : Export!UNIQUE(r, s)
  BY DEF ExportInv
<1> DEFINE of(r) == [name |-> Export!EntryName(r), file |-> Export!FileOf(r)]
<1>1. /\ step = "sheets" /\ step' = "folders" /\ row' = row /\ disk' = disk /\ sheet' = sheet /\ zip' = zip /\ met' = met
      /\ meddling' = meddling
      /\ queue' = {[name |-> Export!EntryName(r), file |-> Export!FileOf(r), open |-> FALSE] : r \in Export!Whole}
  BY DEF Export!Collect, Export!Collected
<1>2. ZipEntries' = {of(r) : r \in Export!Whole}
  <2>1. zip' = {}
    BY <1>0, <1>1 DEF ZipEntries
  <2>2. {[name |-> e.name, file |-> e.file] : e \in queue'} = {of(r) : r \in Export!Whole}
    <3> DEFINE waiting(r) == [name |-> Export!EntryName(r), file |-> Export!FileOf(r), open |-> FALSE]
               entryOf(x) == [name |-> x.name, file |-> x.file]
    <3>1. \A r : entryOf(waiting(r)) = of(r)
      OBVIOUS
    <3>2. queue' = {waiting(r) : r \in Export!Whole}
      BY <1>1
    <3> HIDE DEF waiting, entryOf, of
    <3>3. {entryOf(x) : x \in queue'} = {of(r) : r \in Export!Whole}
      BY <3>1, <3>2
    <3> QED  BY <3>3 DEF entryOf
  <2> QED  BY <2>1, <2>2 DEF ZipEntries
<1>3. /\ Export!There' = Export!There /\ Export!Whole' = Export!Whole /\ \A r : Export!FileOf(r)' = Export!FileOf(r)
  BY <1>1 DEF Export!There, Export!FileOf, Export!Whole
<1>4. \A r \in Export!Whole : r \in Submitted /\ r \in Export!There /\ Export!FileOf(r)[1] = r
  BY DEF Export!Whole, Export!There, Export!FileOf
<1>5. EntriesApart'
  <2>1. \A e \in ZipEntries' : \E r \in Export!Whole : e = of(r)
    BY <1>2
  <2> HIDE DEF of
  <2>2. \A r \in Export!Whole : of(r).file = Export!FileOf(r) /\ of(r).file[1] = r
                                /\ of(r) = [name |-> Export!EntryName(r), file |-> of(r).file]
    BY <1>4 DEF of
  <2>3. \A e \in ZipEntries' : NamedByRow(e)
    BY <1>4, <2>1, <2>2 DEF NamedByRow
  <2>4. \A e, f \in ZipEntries' : (e.file[1] = f.file[1] => e.file = f.file) /\ Export!UNIQUE(e.file[1], f.file[1])
    BY <1>0, <1>4, <2>1, <2>2
  <2> QED  BY <2>3, <2>4 DEF EntriesApart, NamedByRow, Export!EntryName, Export!UNIQUE
<1>6. NothingMissed'
  <2> SUFFICES ASSUME NEW r \in met
               PROVE  /\ row[r].there /\ Export!FileOf(r) \in disk /\ \E s \in sheet : s.row = r
                      /\ \E e \in ZipEntries' : e.file = Export!FileOf(r)
    BY <1>1, <1>3 DEF NothingMissed
  <2>1. row[r].there /\ Export!FileOf(r) \in disk /\ (\E s \in sheet : s.row = r) /\ r \in Submitted
    BY <1>0 DEF NothingMissed, ExportType
  <2>2. r \in Export!Whole
    BY <2>1 DEF Export!Whole, Export!There
  <2>3. of(r) \in ZipEntries' /\ of(r).file = Export!FileOf(r)
    BY <1>2, <2>2
  <2> QED  BY <2>1, <2>3
<1>7. Undisturbed'
  <2>1. {e.file : e \in ZipEntries'} = {Export!FileOf(r) : r \in Export!Whole}
    <3>1. \A r : of(r).file = Export!FileOf(r)
      OBVIOUS
    <3> HIDE DEF of
    <3> QED  BY <1>2, <3>1
  <2> QED  BY <1>0, <1>1, <1>3, <2>1 DEF Undisturbed
<1>8. ExportType'
  <2>1. \A e \in queue' : e = [name |-> e.name, file |-> e.file, open |-> e.open]
    BY <1>1
  <2> QED  BY <1>0, <1>1, <2>1 DEF ExportType, Asked
<1> QED  BY <1>0, <1>1, <1>3, <1>5, <1>6, <1>7, <1>8 DEF ExportInv, Export!UNIQUE

\* Opening and reading moves an entry, and makes or loses none.
LEMMA ReadingKeeps ==
    ASSUME ExportInv, NEW e \in queue, Export!Open(e) \/ Export!append(e)
    PROVE  ExportInv'
<1>0. /\ ExportType /\ NothingMissed /\ Undisturbed /\ EntriesApart /\ \A r, s \in Export!There : Export!UNIQUE(r, s)
  BY DEF ExportInv
<1>1. /\ step = "folders" /\ step' = step /\ row' = row /\ disk' = disk /\ sheet' = sheet /\ met' = met
      /\ meddling' = meddling
  BY DEF Export!Open, Export!append
<1>2. e = [name |-> e.name, file |-> e.file, open |-> e.open]
  BY <1>0 DEF ExportType
<1> DEFINE entryOf(x) == [name |-> x.name, file |-> x.file]
<1>3. ZipEntries' = ZipEntries /\ \A x \in queue' : x = [name |-> x.name, file |-> x.file, open |-> x.open]
  <2>1. CASE Export!Open(e)
    <3> DEFINE x == [name |-> e.name, file |-> e.file, open |-> TRUE]
    <3>1. queue' = (queue \ {e}) \cup {x} /\ zip' = zip
      BY <2>1 DEF Export!Open
    <3>2. entryOf(x) = entryOf(e) /\ x = [name |-> x.name, file |-> x.file, open |-> x.open]
      OBVIOUS
    <3> HIDE DEF x, entryOf
    <3>3. {entryOf(y) : y \in queue'} = {entryOf(y) : y \in queue}
      BY <3>1, <3>2
    <3>4. ZipEntries' = {entryOf(y) : y \in queue'} \cup zip' /\ ZipEntries = {entryOf(y) : y \in queue} \cup zip
      BY DEF ZipEntries, entryOf
    <3> QED  BY <1>0, <3>1, <3>2, <3>3, <3>4 DEF ExportType
  <2>2. CASE Export!append(e)
    <3>1. queue' = queue \ {e} /\ zip' = zip \cup {entryOf(e)}
      BY <2>2 DEF Export!append
    <3> HIDE DEF entryOf
    <3>2. {entryOf(y) : y \in queue'} \cup zip' = {entryOf(y) : y \in queue} \cup zip
      BY <3>1
    <3>3. ZipEntries' = {entryOf(y) : y \in queue'} \cup zip' /\ ZipEntries = {entryOf(y) : y \in queue} \cup zip
      BY DEF ZipEntries, entryOf
    <3> QED  BY <1>0, <3>1, <3>2, <3>3 DEF ExportType
  <2> QED  BY <2>1, <2>2
<1>4. /\ Export!There' = Export!There /\ Export!Whole' = Export!Whole /\ \A r : Export!FileOf(r)' = Export!FileOf(r)
  BY <1>1 DEF Export!There, Export!FileOf, Export!Whole
<1>5. NothingMissed'
  BY <1>0, <1>1, <1>3, <1>4 DEF NothingMissed
<1>6. EntriesApart'
  BY <1>0, <1>3 DEF EntriesApart, NamedByRow, Export!EntryName, Export!UNIQUE
<1>7. Undisturbed'
  BY <1>0, <1>1, <1>3, <1>4 DEF Undisturbed
<1>8. ExportType'
  BY <1>0, <1>1, <1>3 DEF ExportType
<1> QED  BY <1>0, <1>1, <1>4, <1>5, <1>6, <1>7, <1>8 DEF ExportInv, Export!UNIQUE

\* The download ends: whole, or broken off by a file that went.
LEMMA EndKeeps ==
    ASSUME ExportInv, Export!finalize \/ (\E e \in queue : Export!Break(e))
    PROVE  ExportInv'
<1>0. /\ ExportType /\ NothingMissed /\ Undisturbed /\ EntriesApart /\ \A r, s \in Export!There : Export!UNIQUE(r, s)
  BY DEF ExportInv
<1>1. /\ step = "folders" /\ row' = row /\ disk' = disk /\ sheet' = sheet /\ met' = met
      /\ meddling' = meddling /\ queue' = queue /\ zip' = zip
      /\ (step' = "sent" /\ queue = {}) \/ step' = "broken"
  BY DEF Export!finalize, Export!Break
<1>2. ZipEntries' = ZipEntries
  BY <1>1 DEF ZipEntries
<1>3. /\ Export!There' = Export!There /\ Export!Whole' = Export!Whole /\ \A r : Export!FileOf(r)' = Export!FileOf(r)
  BY <1>1 DEF Export!There, Export!FileOf, Export!Whole
<1>4. step' = "broken" => meddling # 0
  <2> SUFFICES ASSUME step' = "broken", meddling = 0 PROVE FALSE
    OBVIOUS
  <2>1. PICK e \in queue : e.file \notin disk
    BY DEF Export!finalize, Export!Break
  <2> DEFINE parcel == [name |-> e.name, file |-> e.file]
  <2>2. parcel \in ZipEntries /\ parcel.file = e.file
    BY DEF ZipEntries
  <2>3. {x.file : x \in ZipEntries} = {Export!FileOf(r) : r \in Export!Whole}
    BY <1>0, <1>1 DEF Undisturbed
  <2> HIDE DEF parcel
  <2>4. PICK r \in Export!Whole : e.file = Export!FileOf(r)
    BY <2>2, <2>3
  <2> QED  BY <2>1, <2>4 DEF Export!Whole
<1>5. NothingMissed'
  BY <1>0, <1>1, <1>2, <1>3 DEF NothingMissed
<1>6. EntriesApart'
  BY <1>0, <1>2 DEF EntriesApart, NamedByRow, Export!EntryName, Export!UNIQUE
<1>7. Undisturbed'
  BY <1>0, <1>1, <1>2, <1>3, <1>4 DEF Undisturbed
<1>8. ExportType'
  BY <1>0, <1>1 DEF ExportType, Asked
<1> QED  BY <1>0, <1>1, <1>3, <1>5, <1>6, <1>7, <1>8 DEF ExportInv, Export!UNIQUE

LEMMA ExportStep == ExportInv /\ [Export!ExportNext]_Export!exportVars => ExportInv'
<1> SUFFICES ASSUME ExportInv, [Export!ExportNext]_Export!exportVars PROVE ExportInv'
  OBVIOUS
<1>1. CASE \E r \in Submitted : Export!Post(r) \/ Export!Replace(r) \/ Export!Hide(r) \/ Export!DeleteGuest(Authors[r])
  BY <1>1, MeddlersKeep
<1>2. CASE Export!buildSummaryBuffer
  BY <1>2, SheetKeeps
<1>3. CASE Export!Collect
  BY <1>3, CollectKeeps
<1>4. CASE \E e \in queue : Export!Open(e) \/ Export!append(e)
  BY <1>4, ReadingKeeps
<1>5. CASE Export!finalize \/ \E e \in queue : Export!Break(e)
  BY <1>5, EndKeeps
<1>6. CASE UNCHANGED Export!exportVars
  <2>1. /\ row' = row /\ disk' = disk /\ step' = step /\ sheet' = sheet /\ queue' = queue /\ zip' = zip
        /\ met' = met /\ meddling' = meddling
    BY <1>6 DEF Export!exportVars
  <2>2. /\ Export!There' = Export!There /\ Export!Whole' = Export!Whole /\ \A r : Export!FileOf(r)' = Export!FileOf(r)
        /\ ZipEntries' = ZipEntries
    BY <2>1 DEF Export!There, Export!FileOf, Export!Whole, ZipEntries
  <2>3. NothingMissed' /\ Undisturbed'
    BY <2>1, <2>2 DEF ExportInv, NothingMissed, Undisturbed
  <2>4. EntriesApart'
    BY <2>2 DEF ExportInv, EntriesApart, NamedByRow, Export!EntryName, Export!UNIQUE
  <2>5. ExportType'
    BY <2>1 DEF ExportInv, ExportType
  <2> QED  BY <2>1, <2>2, <2>3, <2>4, <2>5 DEF ExportInv, Export!UNIQUE
<1> QED  BY <1>1, <1>2, <1>3, <1>4, <1>5, <1>6 DEF Export!ExportNext

\* A name leads back to its row: a memory's by its id, a task's photo by its
\* guest and the place of the task.
LEMMA NamesLeadBack ==
    ASSUME NEW r \in Submitted, NEW s \in Submitted, Export!EntryName(r) = Export!EntryName(s), Export!UNIQUE(r, s)
    PROVE  r = s
<1>1. CASE Subjects[r] = Memory /\ Subjects[s] = Memory
  BY <1>1 DEF Export!EntryName
<1>2. CASE Subjects[r] # Memory /\ Subjects[s] # Memory
  <2>1. Authors[r] = Authors[s] /\ Named[Subjects[r]] = Named[Subjects[s]]
    BY <1>2 DEF Export!EntryName
  <2>2. Subjects[r] = Subjects[s]
    BY <1>2, <2>1, NamesAssumption
  <2> QED  BY <1>2, <2>1, <2>2 DEF Export!UNIQUE
<1>3. CASE Subjects[r] = Memory /\ Subjects[s] # Memory
  BY <1>3 DEF Export!EntryName
<1>4. CASE Subjects[r] # Memory /\ Subjects[s] = Memory
  BY <1>4 DEF Export!EntryName
<1> QED  BY <1>1, <1>2, <1>3, <1>4

LEMMA ExportMeans == ExportInv => Export!KeepsakeIsWhole
<1> SUFFICES ASSUME ExportInv PROVE Export!KeepsakeIsWhole
  OBVIOUS
<1>0. ExportType /\ NothingMissed /\ Undisturbed /\ EntriesApart /\ (step = "sent" => queue = {})
  BY DEF ExportInv
<1>1. ASSUME step = "sent"
      PROVE  /\ \A r \in met : /\ \E e \in zip : e.file = Export!FileOf(r) /\ e.name[1] = Authors[r]
                               /\ \E s \in sheet : s.row = r
             /\ \A e, f \in zip : e.name = f.name => e = f
             /\ \A e \in zip : (\A s \in sheet : s.row # e.file[1]) => meddling > 0
             /\ meddling = 0 => {s.row : s \in sheet} \cap Export!Whole = {e.file[1] : e \in zip}
  <2>1. ZipEntries = zip
    BY <1>0, <1>1 DEF ZipEntries
  <2>2. \A r \in met : /\ \E e \in zip : e.file = Export!FileOf(r) /\ e.name[1] = Authors[r]
                       /\ \E s \in sheet : s.row = r
    <3> SUFFICES ASSUME NEW r \in met
                 PROVE  /\ \E e \in zip : e.file = Export!FileOf(r) /\ e.name[1] = Authors[r]
                        /\ \E s \in sheet : s.row = r
      OBVIOUS
    <3>1. PICK e \in zip : e.file = Export!FileOf(r)
      BY <1>0, <1>1, <2>1 DEF NothingMissed
    <3>2. e.file[1] = r /\ e.name = Export!EntryName(r)
      <4>1. e = [name |-> Export!EntryName(e.file[1]), file |-> e.file]
        BY <1>0, <2>1 DEF EntriesApart, NamedByRow
      <4> QED  BY <3>1, <4>1 DEF Export!FileOf
    <3>3. Export!EntryName(r)[1] = Authors[r]
      BY DEF Export!EntryName
    <3>4. \E s \in sheet : s.row = r
      BY <1>0 DEF NothingMissed
    <3> QED  BY <3>1, <3>2, <3>3, <3>4
  <2>3. \A e, f \in zip : e.name = f.name => e = f
    <3> SUFFICES ASSUME NEW e \in zip, NEW f \in zip, e.name = f.name PROVE e = f
      OBVIOUS
    <3>1. /\ e.file[1] \in Submitted /\ e = [name |-> Export!EntryName(e.file[1]), file |-> e.file]
          /\ f.file[1] \in Submitted /\ f = [name |-> Export!EntryName(f.file[1]), file |-> f.file]
      BY <1>0, <2>1 DEF EntriesApart, NamedByRow
    <3>2. (e.file[1] = f.file[1] => e.file = f.file) /\ Export!UNIQUE(e.file[1], f.file[1])
      BY <1>0, <2>1 DEF EntriesApart
    <3>3. Export!EntryName(e.file[1]) = Export!EntryName(f.file[1])
      BY <3>1
    <3>4. e.file[1] = f.file[1]
      BY <3>1, <3>2, <3>3, NamesLeadBack
    <3> QED  BY <3>1, <3>2, <3>4
  <2>4. ASSUME meddling = 0 PROVE {s.row : s \in sheet} \cap Export!Whole = {e.file[1] : e \in zip}
    <3>1. {s.row : s \in sheet} = Export!There /\ {e.file : e \in zip} = {Export!FileOf(r) : r \in Export!Whole}
      BY <1>0, <1>1, <2>1, <2>4 DEF Undisturbed
    <3>2. \A r \in Export!Whole : r \in Export!There /\ Export!FileOf(r)[1] = r
      BY DEF Export!Whole, Export!FileOf
    <3>3. \A r \in Export!Whole : \E e \in zip : e.file[1] = r
      BY <3>1, <3>2
    <3>4. \A e \in zip : e.file[1] \in Export!Whole
      BY <3>1, <3>2
    <3> QED  BY <3>1, <3>2, <3>3, <3>4
  <2>5. \A e \in zip : (\A s \in sheet : s.row # e.file[1]) => meddling > 0
    <3> SUFFICES ASSUME NEW e \in zip, meddling = 0 PROVE \E s \in sheet : s.row = e.file[1]
      BY <1>0 DEF ExportType
    <3>1. e.file[1] \in {s.row : s \in sheet}
      BY <2>4
    <3> QED  BY <3>1
  <2> QED  BY <2>2, <2>3, <2>4, <2>5
<1>2. step = "broken" => meddling > 0
  BY <1>0 DEF Undisturbed, ExportType
<1> QED  BY <1>1, <1>2 DEF Export!KeepsakeIsWhole

LEMMA ExportsStep ==
    (part = "export" => ExportInv) /\ [ServerNext]_<<part, vars, bootVars, backupVars, lifeVars, exportVars>>
        => (part = "export" => ExportInv)'
<1> SUFFICES ASSUME part = "export" => ExportInv, [ServerNext]_<<part, vars, bootVars, backupVars, lifeVars, exportVars>>,
                    part' = "export"
             PROVE  ExportInv'
  OBVIOUS
<1>1. part = "export"
  BY DEF ServerNext
<1>2. [Export!ExportNext]_Export!exportVars
  BY <1>1 DEF ServerNext, exportVars, Export!exportVars
<1> QED  BY <1>1, <1>2, ExportStep

\* Whatever the guests and the host do while the keepsake is written
\* (services/export.js), for any rows, guests and tasks: a download that ends
\* whole has every photo that stayed, once, and under its own name.
THEOREM KeepsakesAreAlwaysWhole == ServerSpec => []KeepsakeIsWhole
<1>1. ServerInit => (part = "export" => ExportInv)
  BY ExportStarts DEF ServerInit
<1>2. (part = "export" => ExportInv) => KeepsakeIsWhole
  BY ExportMeans DEF KeepsakeIsWhole
<1> QED  BY <1>1, <1>2, ExportsStep, PTL DEF ServerSpec
=============================================================================
