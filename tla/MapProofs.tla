------------------------------ MODULE MapProofs -----------------------------
(***************************************************************************)
(* The tree implements the ordered map of module OrderedMap.               *)
(*                                                                         *)
(* The map is a set of pairs, those that the leaves hold (Stored), with no *)
(* key in two of them, since every key is routed to one leaf.  So a step   *)
(* that changes one leaf, or two that lie together, puts one pair or takes *)
(* one away, and no other step touches the set: the first kind is the      *)
(* instant at which the call has its effect.  That it answers with what    *)
(* the map held rests on what the call has learnt on its way.  A descent   *)
(* by key ends in the leaf that the key is routed to.  A descent by index  *)
(* subtracts the counts it passes, so that what is left of the index and   *)
(* the number of keys before the node add up to the index it was called    *)
(* with (Aimed); that is where the augmentations must be exact.            *)
(***************************************************************************)
EXTENDS CountProofs

-----------------------------------------------------------------------------
(* The map that a set of pairs is                                          *)

\* No key is in two pairs of P.
OncePerKey(P) == \A p, q \in P : p[1] = q[1] => p = q

\* The map of the pairs P.
DictOf(P) == [k \in {p[1] : p \in P} |-> (CHOOSE p \in P : p[1] = k)[2]]

\* The domain of the map, and its value at each pair.
LEMMA DictOfIs ==
  ASSUME NEW P, OncePerKey(P)
  PROVE  /\ DOMAIN DictOf(P) = FirstOf(P)
         /\ \A p \in P : DictOf(P)[p[1]] = p[2]
<1>1. DOMAIN DictOf(P) = FirstOf(P)
  BY DEF DictOf, FirstOf
<1>2. ASSUME NEW p \in P
      PROVE  DictOf(P)[p[1]] = p[2]
  <2>1. (CHOOSE q \in P : q[1] = p[1]) = p
    <3> DEFINE c == CHOOSE q \in P : q[1] = p[1]
    <3>1. c \in P /\ c[1] = p[1]
      OBVIOUS
    <3> HIDE DEF c
    <3> QED
      BY <3>1 DEF OncePerKey
  <2> QED
    BY <2>1 DEF DictOf
<1> QED
  BY <1>1, <1>2

\* P with e for whatever it says of the key of e.
WithPair(P, e) == {p \in P : p[1] # e[1]} \cup {e}

\* P without the keys K.
WithoutKeys(P, K) == {p \in P : p[1] \notin K}

\* A pair put in.
LEMMA DictPut ==
  ASSUME NEW P, OncePerKey(P), NEW k, NEW v
  PROVE  /\ OncePerKey(WithPair(P, <<k, v>>))
         /\ DictOf(WithPair(P, <<k, v>>)) =
                [x \in FirstOf(P) \cup {k} |-> IF x = k THEN v ELSE DictOf(P)[x]]
<1> DEFINE e == <<k, v>>
           Q == WithPair(P, e)
<1>1. e[1] = k /\ e[2] = v
  OBVIOUS
<1>2. OncePerKey(Q)
  BY <1>1 DEF OncePerKey, WithPair
<1>3. FirstOf(Q) = FirstOf(P) \cup {k}
  <2> HIDE DEF e
  <2>1. ASSUME NEW x \in FirstOf(Q) PROVE x \in FirstOf(P) \cup {k}
    BY <1>1 DEF FirstOf, WithPair
  <2>2. ASSUME NEW x \in FirstOf(P) PROVE x \in FirstOf(Q)
    <3>1. PICK p \in P : p[1] = x
      BY DEF FirstOf
    <3> QED
      BY <1>1, <3>1 DEF FirstOf, WithPair
  <2>3. k \in FirstOf(Q)
    BY <1>1 DEF FirstOf, WithPair
  <2> QED
    BY <2>1, <2>2, <2>3
<1>4. \A p \in Q : DictOf(Q)[p[1]] = p[2]
  <2> HIDE DEF Q
  <2> QED
    BY <1>2, DictOfIs
<1>5. ASSUME NEW x \in FirstOf(P) \cup {k}
      PROVE  DictOf(Q)[x] = IF x = k THEN v ELSE DictOf(P)[x]
  <2> HIDE DEF e
  <2>1. CASE x = k
    BY <1>1, <1>4, <2>1 DEF WithPair
  <2>2. CASE x # k
    <3>1. PICK p \in P : p[1] = x
      BY <2>2 DEF FirstOf
    <3>2. p \in Q
      BY <1>1, <2>2, <3>1 DEF WithPair
    <3>3. DictOf(P)[x] = p[2]
      BY <3>1, DictOfIs
    <3> QED
      BY <1>4, <2>2, <3>1, <3>2, <3>3
  <2> QED
    BY <2>1, <2>2
<1>6. DictOf(Q) = [x \in FirstOf(Q) |-> DictOf(Q)[x]]
  BY DEF DictOf, FirstOf
<1> DEFINE D == DictOf(Q)
           f == [x \in FirstOf(P) \cup {k} |-> IF x = k THEN v ELSE DictOf(P)[x]]
<1>7. D = f
  <2> HIDE DEF Q, D
  <2>1. D = [x \in FirstOf(P) \cup {k} |-> D[x]]
    BY <1>3, <1>6 DEF D
  <2>2. \A x \in FirstOf(P) \cup {k} : D[x] = IF x = k THEN v ELSE DictOf(P)[x]
    BY <1>5 DEF D
  <2> QED
    BY <2>1, <2>2
<1> QED
  BY <1>2, <1>7

\* Keys taken out.
LEMMA DictWithout ==
  ASSUME NEW P, OncePerKey(P), NEW K
  PROVE  /\ OncePerKey(WithoutKeys(P, K))
         /\ DictOf(WithoutKeys(P, K)) = [x \in FirstOf(P) \ K |-> DictOf(P)[x]]
<1> DEFINE Q == WithoutKeys(P, K)
<1>2. OncePerKey(Q)
  BY DEF OncePerKey, WithoutKeys
<1>3. FirstOf(Q) = FirstOf(P) \ K
  BY DEF FirstOf, WithoutKeys
<1>4. \A p \in Q : DictOf(Q)[p[1]] = p[2]
  <2> HIDE DEF Q
  <2> QED
    BY <1>2, DictOfIs
<1>5. ASSUME NEW x \in FirstOf(P) \ K
      PROVE  DictOf(Q)[x] = DictOf(P)[x]
  <2>1. PICK p \in P : p[1] = x
    BY DEF FirstOf
  <2>2. p \in Q
    BY <2>1 DEF WithoutKeys
  <2>3. DictOf(P)[x] = p[2]
    BY <2>1, DictOfIs
  <2> QED
    BY <1>4, <2>1, <2>2, <2>3
<1>6. DictOf(Q) = [x \in FirstOf(Q) |-> DictOf(Q)[x]]
  BY DEF DictOf, FirstOf
<1> DEFINE D == DictOf(Q)
           f == [x \in FirstOf(P) \ K |-> DictOf(P)[x]]
<1>7. D = f
  <2> HIDE DEF Q, D
  <2>1. D = [x \in FirstOf(P) \ K |-> D[x]]
    BY <1>3, <1>6 DEF D
  <2>2. \A x \in FirstOf(P) \ K : D[x] = DictOf(P)[x]
    BY <1>5 DEF D
  <2> QED
    BY <2>1, <2>2
<1> QED
  BY <1>2, <1>7

\* A pair taken out of a set is its key taken out.
LEMMA PairOut ==
  ASSUME NEW P, OncePerKey(P), NEW e \in P
  PROVE  P \ {e} = WithoutKeys(P, {e[1]})
BY DEF OncePerKey, WithoutKeys

-----------------------------------------------------------------------------
(* The pairs that the leaves hold                                          *)

\* The pairs in the leaves A.
PairsIn(L, A) == UNION {Range(L[l].data) : l \in A}

\* The pairs that the leaves of the store hold.
Stored == PairsIn(leaves, LeafAlive)

\* The map that the properties speak of.
LEMMA ContentsIs == Contents = DictOf(Stored)
<1>1. \A l \in LeafAlive : ToSet(leaves[l].data) = Range(leaves[l].data)
  BY DEF ToSet, Range
<1>2. UNION {ToSet(leaves[l].data) : l \in LeafAlive} = Stored
  BY <1>1 DEF Stored, PairsIn
<1>3. Contents = DictOf(UNION {ToSet(leaves[l].data) : l \in LeafAlive})
  BY DEF Contents, DictOf
<1> QED
  BY <1>2, <1>3

\* What routes say of the pairs: each key once, in the leaf that gets it.
LEMMA StoredRouted ==
  ASSUME NEW h, Good(h), NEW T, NEW R, Routed(T, R)
  PROVE  /\ Stored \subseteq Pair /\ OncePerKey(Stored)
         /\ \A l \in LeafAlive : \A p \in Range(leaves[l].data) : p[1] \in R[Leaf(l)]
         /\ \A l \in LeafAlive : \A p \in Stored :
                p[1] \in R[Leaf(l)] => p \in Range(leaves[l].data)
<1>1. \A l \in LeafAlive : HoldsPairs(leaves[l], Range(leaves[l].data))
  BY LeafHolds
<1>2. /\ \A l \in LeafAlive : KeysOf(leaves[l]) \subseteq R[Leaf(l)]
      /\ \A l, m \in LeafAlive : l # m => R[Leaf(l)] \cap R[Leaf(m)] = {}
  BY RoutedMeans
<1>3. ASSUME NEW l \in LeafAlive, NEW p \in Range(leaves[l].data)
      PROVE  p[1] \in R[Leaf(l)] /\ p \in Pair
  <2>1. p[1] \in FirstOf(Range(leaves[l].data))
    BY DEF FirstOf
  <2>2. p[1] \in R[Leaf(l)]
    BY <1>2, <2>1, KeysOfRange
  <2>3. leaves[l].data \in Seq(Pair)
    BY LeavesAre
  <2>4. Range(leaves[l].data) \subseteq Pair
    BY <2>3, LenProperties, ElementOfSeq DEF Range
  <2> QED
    BY <2>2, <2>4
<1>4. Stored \subseteq Pair
  BY <1>3 DEF Stored, PairsIn
<1>5. ASSUME NEW l \in LeafAlive, NEW p \in Stored, p[1] \in R[Leaf(l)]
      PROVE  p \in Range(leaves[l].data)
  <2>1. PICK m \in LeafAlive : p \in Range(leaves[m].data)
    BY DEF Stored, PairsIn
  <2>2. p[1] \in R[Leaf(m)]
    BY <1>3, <2>1
  <2>3. m = l
    BY <1>2, <1>5, <2>2
  <2> QED
    BY <2>1, <2>3
<1>6. ASSUME NEW l \in LeafAlive, NEW p \in Range(leaves[l].data),
             NEW q \in Range(leaves[l].data), p[1] = q[1]
      PROVE  p = q
  <2>1. /\ leaves[l].data \in Seq(Pair) /\ Ascends(leaves[l].data)
    BY <1>1 DEF HoldsPairs, Sorted
  <2>2. PICK i, j \in DOMAIN leaves[l].data : leaves[l].data[i] = p /\ leaves[l].data[j] = q
    BY DEF Range
  <2>3. /\ i \in Nat /\ j \in Nat /\ leaves[l].data[i][1] \in Int
        /\ leaves[l].data[j][1] \in Int
    BY <2>1, PairsAt
  <2>4. i = j
    BY <1>6, <2>1, <2>2, <2>3 DEF Ascends
  <2> QED
    BY <2>2, <2>4
<1>7. OncePerKey(Stored)
  <2> SUFFICES ASSUME NEW p \in Stored, NEW q \in Stored, p[1] = q[1] PROVE p = q
    BY DEF OncePerKey
  <2>1. PICK l \in LeafAlive : p \in Range(leaves[l].data)
    BY DEF Stored, PairsIn
  <2>2. q \in Range(leaves[l].data)
    BY <1>3, <1>5, <2>1
  <2> QED
    BY <1>6, <2>1, <2>2
<1> QED
  BY <1>3, <1>4, <1>5, <1>7

-----------------------------------------------------------------------------
(* Counting                                                                *)

\* Two sets without a common element.
LEMMA ApartCount ==
  ASSUME NEW A, NEW B, IsFiniteSet(A), IsFiniteSet(B), A \cap B = {}
  PROVE  IsFiniteSet(A \cup B) /\ Cardinality(A \cup B) = Cardinality(A) + Cardinality(B)
<1>1. Cardinality(A \cap B) = 0
  BY FS_EmptySet
<1>2. Cardinality(A) \in Nat /\ Cardinality(B) \in Nat
  BY FS_CardinalityType
<1>3. /\ IsFiniteSet(A \cup B)
      /\ Cardinality(A \cup B) = Cardinality(A) + Cardinality(B) - Cardinality(A \cap B)
  BY FS_Union
<1> DEFINE a == Cardinality(A)
           b == Cardinality(B)
           c == Cardinality(A \cap B)
<1>4. a + b - c = a + b
  <2> HIDE DEF a, b, c
  <2>1. a \in Nat /\ b \in Nat /\ c = 0
    BY <1>1, <1>2 DEF a, b, c
  <2> QED
    BY <2>1
<1> QED
  BY <1>3, <1>4

\* As many pairs as the number says.
LEMMA PieceCount ==
  ASSUME NEW i, NEW n \in Nat
  PROVE  IsFiniteSet({i} \X (1 .. n)) /\ Cardinality({i} \X (1 .. n)) = n
<1>1. IsFiniteSet({i}) /\ Cardinality({i}) = 1
  BY FS_Singleton
<1>2. IsFiniteSet(1 .. n) /\ Cardinality(1 .. n) = n
  BY FS_Interval
<1>3. /\ IsFiniteSet({i} \X (1 .. n))
      /\ Cardinality({i} \X (1 .. n)) = Cardinality({i}) * Cardinality(1 .. n)
  BY <1>1, <1>2, FS_Product
<1>4. 1 * n = n
  OBVIOUS
<1> QED
  BY <1>1, <1>2, <1>3, <1>4

\* The pieces whose union Total counts, for the first m numbers of s.
PiecesTo(s, m) == UNION {{i} \X (1 .. s[i]) : i \in 1 .. m}

\* The sum of the first m numbers.
LEMMA TotalTo ==
  ASSUME NEW s \in Seq(Nat), NEW m \in 0 .. Len(s)
  PROVE  Total(SubSeq(s, 1, m)) = Cardinality(PiecesTo(s, m))
<1>1. Len(s) \in Nat /\ m \in Nat /\ m <= Len(s) /\ m - 1 + 1 = m
  BY LenProperties
<1>2. Len(SubSeq(s, 1, m)) = m /\ SubSeq(s, 1, m) \in Seq(Nat)
  BY <1>1, CutType
<1>3. \A j \in 1 .. m : SubSeq(s, 1, m)[j] = s[j]
  <2>1. \A j \in 1 .. m - 1 + 1 : SubSeq(s, 1, m)[j] = s[1 + j - 1]
    BY <1>1, CutElems
  <2> QED
    BY <1>1, <2>1
<1> DEFINE t == SubSeq(s, 1, m)
<1>4. DOMAIN t = 1 .. m
  BY <1>2, LenProperties
<1>5. Total(t) = Cardinality(PiecesTo(s, m))
  <2> HIDE DEF t
  <2>1. \A i \in 1 .. m : t[i] = s[i]
    BY <1>3 DEF t
  <2>2. UNION {{i} \X (1 .. t[i]) : i \in DOMAIN t} = PiecesTo(s, m)
    BY <1>4, <2>1 DEF PiecesTo
  <2> QED
    BY <2>2 DEF Total
<1> QED
  BY <1>5

\* The first m sets of U.
FirstSets(U, m) == UNION {U[c] : c \in 1 .. m}

(***************************************************************************)
(* If s counts the sets of U, which are disjoint, then the sum of its      *)
(* first m numbers counts the union of the first m sets.                   *)
(***************************************************************************)
LEMMA SumsCount ==
  ASSUME NEW s \in Seq(Nat), NEW U,
         \A c \in 1 .. Len(s) : IsFiniteSet(U[c]) /\ Cardinality(U[c]) = s[c],
         \A c, d \in 1 .. Len(s) : c < d => U[c] \cap U[d] = {}
  PROVE  \A m \in 0 .. Len(s) : /\ IsFiniteSet(FirstSets(U, m))
                                /\ Total(SubSeq(s, 1, m)) = Cardinality(FirstSets(U, m))
<1> DEFINE Fine(m) == /\ IsFiniteSet(FirstSets(U, m)) /\ IsFiniteSet(PiecesTo(s, m))
                      /\ Cardinality(PiecesTo(s, m)) = Cardinality(FirstSets(U, m))
           A == {m \in 0 .. Len(s) : Fine(m)}
<1>1. Len(s) \in Nat
  BY LenProperties
<1>2. 0 \in A
  <2>1. FirstSets(U, 0) = {} /\ PiecesTo(s, 0) = {}
    BY DEF FirstSets, PiecesTo
  <2>2. Fine(0)
    BY <2>1, FS_EmptySet
  <2> QED
    BY <1>1, <2>2
<1>3. ASSUME NEW m \in 1 .. Len(s), m - 1 \in A
      PROVE  m \in A
  <2>1. /\ IsFiniteSet(FirstSets(U, m - 1)) /\ IsFiniteSet(PiecesTo(s, m - 1))
        /\ Cardinality(PiecesTo(s, m - 1)) = Cardinality(FirstSets(U, m - 1))
    BY <1>3
  <2>2. 1 .. m = (1 .. m - 1) \cup {m}
    BY <1>1
  <2>3. FirstSets(U, m) = FirstSets(U, m - 1) \cup U[m]
    BY <2>2 DEF FirstSets
  <2>4. PiecesTo(s, m) = PiecesTo(s, m - 1) \cup ({m} \X (1 .. s[m]))
    BY <2>2 DEF PiecesTo
  <2>5. FirstSets(U, m - 1) \cap U[m] = {}
    <3>1. \A c \in 1 .. m - 1 : U[c] \cap U[m] = {}
      BY <1>1
    <3> QED
      BY <3>1 DEF FirstSets
  <2>6. PiecesTo(s, m - 1) \cap ({m} \X (1 .. s[m])) = {}
    <3>1. m \notin 1 .. m - 1
      BY <1>1
    <3>2. ASSUME NEW p \in PiecesTo(s, m - 1) PROVE p[1] # m
      BY <3>1 DEF PiecesTo
    <3> QED
      BY <3>2
  <2>7. IsFiniteSet(U[m]) /\ Cardinality(U[m]) = s[m] /\ s[m] \in Nat
    BY <1>1, ElementOfSeq
  <2>8. /\ IsFiniteSet({m} \X (1 .. s[m]))
        /\ Cardinality({m} \X (1 .. s[m])) = s[m]
    BY <2>7, PieceCount
  <2>9. /\ IsFiniteSet(FirstSets(U, m))
        /\ Cardinality(FirstSets(U, m)) = Cardinality(FirstSets(U, m - 1)) + s[m]
    <3>1. PICK D, E : D = FirstSets(U, m - 1) /\ E = U[m]
      OBVIOUS
    <3>2. IsFiniteSet(D) /\ IsFiniteSet(E) /\ D \cap E = {}
      BY ONLY <2>1, <2>5, <2>7, <3>1
    <3>3. IsFiniteSet(D \cup E) /\ Cardinality(D \cup E) = Cardinality(D) + Cardinality(E)
      BY ONLY <3>2, ApartCount
    <3> QED
      BY ONLY <2>3, <2>7, <3>1, <3>3
  <2>10. /\ IsFiniteSet(PiecesTo(s, m))
         /\ Cardinality(PiecesTo(s, m)) = Cardinality(PiecesTo(s, m - 1)) + s[m]
    <3> DEFINE B == {m} \X (1 .. s[m])
               D == PiecesTo(s, m - 1)
    <3> HIDE DEF B, D
    <3>1. IsFiniteSet(B) /\ Cardinality(B) = s[m] /\ IsFiniteSet(D)
      BY <2>1, <2>8 DEF B, D
    <3>2. PiecesTo(s, m) = D \cup B /\ D \cap B = {}
      BY <2>4, <2>6 DEF B, D
    <3>3. IsFiniteSet(D \cup B) /\ Cardinality(D \cup B) = Cardinality(D) + Cardinality(B)
      BY <3>1, <3>2, ApartCount
    <3> QED
      BY <3>1, <3>2, <3>3 DEF D
  <2> QED
    BY <2>1, <2>9, <2>10
<1>4. 0 .. Len(s) \subseteq A
  <2>1. \A m \in 1 .. Len(s) : m - 1 \in A => m \in A
    BY <1>3
  <2> HIDE DEF A
  <2> QED
    BY <1>1, <1>2, <2>1, CountUp
<1>5. ASSUME NEW m \in 0 .. Len(s)
      PROVE  /\ IsFiniteSet(FirstSets(U, m))
             /\ Total(SubSeq(s, 1, m)) = Cardinality(FirstSets(U, m))
  <2>1. Fine(m)
    BY <1>4
  <2> QED
    BY <2>1, TotalTo
<1> QED
  BY <1>5

\* The numbers before the one at c, added up.
SumBefore(s, c) == Total(SubSeq(s, 1, c - 1))

(***************************************************************************)
(* locate_in_inner: a child is found only if the query lies within it, and *)
(* only if it lies past all of them is there none.                         *)
(***************************************************************************)
LEMMA LocateInInnerFinds ==
  ASSUME NEW s \in Seq(Nat), NEW idx \in Nat
  PROVE  /\ LocateInInner(idx, s).child # 0 =>
                /\ LocateInInner(idx, s).child \in 1 .. Len(s)
                /\ SumBefore(s, LocateInInner(idx, s).child) \in Nat
                /\ LocateInInner(idx, s).query
                       = idx - SumBefore(s, LocateInInner(idx, s).child)
                /\ LocateInInner(idx, s).query \in Nat
                /\ LocateInInner(idx, s).query < s[LocateInInner(idx, s).child]
         /\ LocateInInner(idx, s).child = 0 => Total(s) <= idx
<1> DEFINE Before(i) == Total(SubSeq(s, 1, i - 1))
           Holds == {i \in DOMAIN s : Before(i) <= idx /\ idx < Before(i) + s[i]}
           c == CHOOSE i \in Holds : TRUE
<1>1. Len(s) \in Nat /\ DOMAIN s = 1 .. Len(s) /\ \A i \in 1 .. Len(s) : s[i] \in Nat
  BY LenProperties, ElementOfSeq
<1>2. \A m \in 0 .. Len(s) : SubSeq(s, 1, m) \in Seq(Nat)
  BY <1>1, CutType
<1>3. \A m \in 0 .. Len(s) : Total(SubSeq(s, 1, m)) \in Nat
  BY <1>2, TotalType
<1>4. CASE Holds # {}
  <2>1. c \in Holds
    BY <1>4
  <2>2. LocateInInner(idx, s) = [child |-> c, query |-> idx - Before(c)]
    BY <1>4 DEF LocateInInner
  <2> HIDE DEF c
  <2>3. c \in 1 .. Len(s) /\ Before(c) <= idx /\ idx < Before(c) + s[c]
    BY <1>1, <2>1
  <2>4. c - 1 \in 0 .. Len(s) /\ s[c] \in Nat
    BY <1>1, <2>3
  <2>5. Before(c) \in Nat
    BY <1>3, <2>4
  <2> HIDE DEF Before
  <2>6. idx - Before(c) \in Nat /\ idx - Before(c) < s[c] /\ c # 0
    BY <1>1, <2>3, <2>4, <2>5
  <2>7. /\ LocateInInner(idx, s).child = c
        /\ LocateInInner(idx, s).query = idx - Before(c)
    BY <2>2
  <2> QED
    BY <2>3, <2>5, <2>6, <2>7 DEF Before, SumBefore
<1>5. CASE Holds = {}
  <2>1. LocateInInner(idx, s) = [child |-> 0, query |-> idx]
    BY <1>5 DEF LocateInInner
  <2> DEFINE A == {m \in 0 .. Len(s) : Total(SubSeq(s, 1, m)) <= idx}
  <2>2. 0 \in A
    <3>1. Total(SubSeq(s, 1, 0)) = Cardinality(PiecesTo(s, 0))
      BY <1>1, TotalTo
    <3>2. PiecesTo(s, 0) = {}
      BY DEF PiecesTo
    <3>3. Total(SubSeq(s, 1, 0)) = 0
      BY <3>1, <3>2, FS_EmptySet
    <3> QED
      BY <1>1, <3>3
  <2>3. ASSUME NEW m \in 1 .. Len(s), m - 1 \in A PROVE m \in A
    <3>1. Before(m) <= idx
      BY <2>3
    <3>2. ~(idx < Before(m) + s[m])
      BY <1>1, <1>5, <3>1
    <3>3. Total(SubSeq(s, 1, m)) = Total(SubSeq(s, 1, m - 1)) + s[m]
      <4> DEFINE U == [d \in 1 .. Len(s) |-> {d} \X (1 .. s[d])]
      <4>1. \A d \in 1 .. Len(s) : IsFiniteSet(U[d]) /\ Cardinality(U[d]) = s[d]
        <5> SUFFICES ASSUME NEW d \in 1 .. Len(s)
                     PROVE  IsFiniteSet(U[d]) /\ Cardinality(U[d]) = s[d]
          OBVIOUS
        <5>1. s[d] \in Nat
          BY <1>1
        <5> QED
          BY <5>1, PieceCount
      <4>2. \A d, e \in 1 .. Len(s) : d < e => U[d] \cap U[e] = {}
        <5> SUFFICES ASSUME NEW d \in 1 .. Len(s), NEW e \in 1 .. Len(s), d < e,
                            NEW p \in U[d], p \in U[e]
                     PROVE  FALSE
          OBVIOUS
        <5>1. p[1] = d /\ p[1] = e
          OBVIOUS
        <5> QED
          BY <5>1
      <4> HIDE DEF U
      <4>3. \A j \in 0 .. Len(s) : /\ IsFiniteSet(FirstSets(U, j))
                                   /\ Total(SubSeq(s, 1, j)) = Cardinality(FirstSets(U, j))
        BY <4>1, <4>2, SumsCount
      <4>4. FirstSets(U, m) = FirstSets(U, m - 1) \cup U[m]
        <5>1. 1 .. m = (1 .. m - 1) \cup {m}
          BY <1>1
        <5> QED
          BY <5>1 DEF FirstSets
      <4>5. FirstSets(U, m - 1) \cap U[m] = {}
        <5>1. \A d \in 1 .. m - 1 : U[d] \cap U[m] = {}
          <6>1. TAKE d \in 1 .. m - 1
          <6>2. d \in 1 .. Len(s) /\ m \in 1 .. Len(s) /\ d < m
            BY <1>1
          <6> QED
            BY ONLY <4>2, <6>2
        <5> QED
          BY <5>1 DEF FirstSets
      <4>6. m - 1 \in 0 .. Len(s) /\ m \in 0 .. Len(s)
        BY <1>1
      <4> QED
        BY <4>1, <4>3, <4>4, <4>5, <4>6, ApartCount
    <3>4. m - 1 \in 0 .. Len(s) /\ m \in 0 .. Len(s) /\ s[m] \in Nat
      BY <1>1
    <3>5. Before(m) \in Nat
      BY <1>3, <3>4
    <3>6. Total(SubSeq(s, 1, m)) = Before(m) + s[m]
      BY <3>3
    <3> HIDE DEF Before
    <3>7. Total(SubSeq(s, 1, m)) <= idx
      BY <3>2, <3>4, <3>5, <3>6
    <3> QED
      BY <3>4, <3>7
  <2>4. 0 .. Len(s) \subseteq A
    <3>1. \A m \in 1 .. Len(s) : m - 1 \in A => m \in A
      BY <2>3
    <3> HIDE DEF A
    <3> QED
      BY <1>1, <2>2, <3>1, CountUp
  <2>5. Total(SubSeq(s, 1, Len(s))) <= idx
    BY <1>1, <2>4
  <2>6. SubSeq(s, 1, Len(s)) = s
    BY <1>1
  <2>7. Total(s) <= idx
    BY ONLY <2>5, <2>6
  <2>8. LocateInInner(idx, s).child = 0
    BY <2>1
  <2> HIDE DEF A, Before, Holds, c
  <2> QED
    BY <2>7, <2>8
<1> QED
  BY <1>4, <1>5

-----------------------------------------------------------------------------
(* The keys under a node                                                   *)

\* Their keys.
StoredKeys == FirstOf(Stored)

\* The stored keys among S, and those before all of S.
Under(S) == StoredKeys \cap S
KeysBefore(S) == {k \in StoredKeys : \A s \in S : k < s}

\* A leaf has as many keys as entries.
LEMMA LeafKeysCount ==
  ASSUME NEW leaf, NEW P, HoldsPairs(leaf, P)
  PROVE  /\ IsFiniteSet(KeysOf(leaf)) /\ Cardinality(KeysOf(leaf)) = Len(leaf.data)
         /\ \A s \in 1 .. Len(leaf.data) :
                LET B == {leaf.data[i][1] : i \in 1 .. s - 1}
                IN  IsFiniteSet(B) /\ Cardinality(B) = s - 1
<1> DEFINE d == leaf.data
<1>1. d \in Seq(Pair) /\ Ascends(d)
  BY DEF HoldsPairs, Sorted
<1>2. /\ Len(d) \in Nat /\ DOMAIN d = 1 .. Len(d)
      /\ \A i \in 1 .. Len(d) : d[i][1] \in Int
  BY <1>1, PairsAt
<1> HIDE DEF d
<1>3. ASSUME NEW m \in 0 .. Len(d)
      PROVE  /\ IsFiniteSet({d[i][1] : i \in 1 .. m})
             /\ Cardinality({d[i][1] : i \in 1 .. m}) = m
  <2> DEFINE B == {d[i][1] : i \in 1 .. m}
             f == [i \in 1 .. m |-> d[i][1]]
  <2>1. f \in Bijection(1 .. m, B)
    <3>1. f \in [1 .. m -> B]
      OBVIOUS
    <3>2. \A i, j \in 1 .. m : f[i] = f[j] => i = j
      <4> SUFFICES ASSUME NEW i \in 1 .. m, NEW j \in 1 .. m, d[i][1] = d[j][1] PROVE i = j
        OBVIOUS
      <4>1. i \in DOMAIN d /\ j \in DOMAIN d /\ d[i][1] \in Int /\ d[j][1] \in Int
        BY <1>2
      <4>2. ~(i < j) /\ ~(j < i)
        BY <1>1, <4>1 DEF Ascends
      <4> QED
        BY <4>2
    <3>3. \A y \in B : \E i \in 1 .. m : f[i] = y
      OBVIOUS
    <3> QED
      BY <3>1, <3>2, <3>3 DEF Bijection, Injection, Surjection, IsInjective
  <2>2. IsFiniteSet(1 .. m) /\ Cardinality(1 .. m) = m
    <3>1. m \in Nat
      BY <1>2
    <3> QED
      BY <3>1, FS_Interval
  <2>3. IsFiniteSet(B) /\ Cardinality(B) = Cardinality(1 .. m)
    <3>1. ExistsBijection(1 .. m, B)
      BY <2>1 DEF ExistsBijection
    <3> HIDE DEF B
    <3> QED
      BY <2>2, <3>1, FS_Bijection
  <2> QED
    BY <2>2, <2>3
<1>4. KeysOf(leaf) = {d[i][1] : i \in 1 .. Len(d)}
  BY <1>2 DEF KeysOf, d
<1>5. ASSUME NEW s \in 1 .. Len(d)
      PROVE  LET B == {d[i][1] : i \in 1 .. s - 1} IN IsFiniteSet(B) /\ Cardinality(B) = s - 1
  <2>1. s - 1 \in 0 .. Len(d)
    BY <1>2
  <2> QED
    BY <1>3, <2>1
<1>6. Len(d) \in 0 .. Len(d)
  BY <1>2
<1> QED
  BY <1>3, <1>4, <1>5, <1>6 DEF d

\* The tree is finite.
LEMMA StoredFinite ==
  ASSUME NEW h, Good(h), NEW T, NEW R, Routed(T, R)
  PROVE  IsFiniteSet(StoredKeys) /\ StoredKeys \subseteq Key /\ StoredKeys \subseteq Int
<1>1. \A l \in LeafAlive : HoldsPairs(leaves[l], Range(leaves[l].data))
  BY LeafHolds
<1>2. IsFiniteSet(LeafAlive)
  <2>1. LeafAlive \subseteq 1 .. Len(leaves) /\ Len(leaves) \in Nat
    BY LeavesAre
  <2>2. IsFiniteSet(1 .. Len(leaves))
    BY <2>1, FS_Interval
  <2> QED
    BY <2>1, <2>2, FS_Subset
<1>3. StoredKeys = UNION {KeysOf(leaves[l]) : l \in LeafAlive}
  <2>1. \A l \in LeafAlive : KeysOf(leaves[l]) = FirstOf(Range(leaves[l].data))
    BY KeysOfRange
  <2> QED
    BY <2>1 DEF StoredKeys, Stored, PairsIn, FirstOf
<1>4. IsFiniteSet({KeysOf(leaves[l]) : l \in LeafAlive})
  <2> DEFINE F(l) == KeysOf(leaves[l])
             W == [l \in LeafAlive |-> F(l)]
             S == {F(l) : l \in LeafAlive}
  <2>1. W \in Surjection(LeafAlive, S)
    BY DEF Surjection
  <2> HIDE DEF W, S
  <2>2. IsFiniteSet(S)
    BY <1>2, <2>1, FS_Surjection
  <2> QED
    BY <2>2 DEF S
<1>5. \A S \in {KeysOf(leaves[l]) : l \in LeafAlive} : IsFiniteSet(S)
  BY <1>1, LeafKeysCount
<1>6. IsFiniteSet(StoredKeys)
  BY <1>3, <1>4, <1>5, FS_UNION
<1>7. StoredKeys \subseteq Key
  BY StoredRouted DEF StoredKeys, FirstOf, Pair
<1> QED
  BY <1>6, <1>7, KeyAssumption

\* A leaf holds the stored keys that are routed to it.
LEMMA UnderLeaf ==
  ASSUME NEW h, Good(h), NEW T, NEW R, Routed(T, R), NEW l \in LeafAlive
  PROVE  Under(R[Leaf(l)]) = KeysOf(leaves[l])
<1>1. KeysOf(leaves[l]) = FirstOf(Range(leaves[l].data))
  BY KeysOfRange
<1>2. KeysOf(leaves[l]) \subseteq R[Leaf(l)]
  BY RoutedMeans
<1>3. KeysOf(leaves[l]) \subseteq StoredKeys
  BY <1>1 DEF StoredKeys, Stored, PairsIn, FirstOf
<1>4. ASSUME NEW k \in StoredKeys, k \in R[Leaf(l)]
      PROVE  k \in KeysOf(leaves[l])
  <2>1. PICK p \in Stored : p[1] = k
    BY DEF StoredKeys, FirstOf
  <2>2. p \in Range(leaves[l].data)
    BY <1>4, <2>1, StoredRouted
  <2> QED
    BY <1>1, <2>1, <2>2 DEF FirstOf
<1> QED
  BY <1>2, <1>3, <1>4 DEF Under

\* A node in both trees, with the keys counted.
CountedUnder(R, x) == /\ IsFiniteSet(Under(R[x]))
                      /\ Counts(leaves, inners)[x] = Cardinality(Under(R[x]))

(***************************************************************************)
(* What a node knows of its children, if their augmentations count their   *)
(* keys: its own sum counts its keys, and the sum up to a child counts the *)
(* keys between the node's first and the child's first.                    *)
(***************************************************************************)
LEMMA NodeCounts ==
  ASSUME NEW h, Good(h), NEW T, NEW R, Routed(T, R), ~IsTelling,
         NEW V, InnersFilled(V), Counted(V), NEW i \in T \cap V,
         \A c \in DOMAIN inners[i].child : CountedUnder(R, inners[i].child[c])
  PROVE  /\ CountedUnder(R, Inner(i))
         /\ \A c \in DOMAIN inners[i].child :
                /\ inners[i].aug[c] = Cardinality(Under(R[inners[i].child[c]]))
                /\ Cardinality(KeysBefore(R[inners[i].child[c]]))
                       = Cardinality(KeysBefore(R[Inner(i)])) + SumBefore(inners[i].aug, c)
<1> DEFINE n == inners[i]
           S == R[Inner(i)]
           s == n.aug
           U == [c \in DOMAIN n.child |-> Under(R[n.child[c]])]
<1>1. ~IsSplit
  BY DEF IsTelling, IsSplit
<1>2. /\ i \in DOMAIN inners /\ Inner(i) \in NodeId /\ S \subseteq Key /\ IsInterval(S)
      /\ Routes(n, S, R) /\ IsInner(n, Key, NodesAt(Len(leaves), h, h[i] - 1))
  BY <1>1, RangeOf
<1>3. /\ n.keys \in Seq(Key) /\ s \in Seq(Nat) /\ Len(n.keys) \in Nat
      /\ DOMAIN n.keys = 1 .. Len(n.keys) /\ DOMAIN n.child = 1 .. Len(s)
      /\ Len(s) = Len(n.keys) + 1 /\ DOMAIN s = 1 .. Len(s)
  <2>1. /\ n.keys \in Seq(Key) /\ s \in Seq(Nat) /\ Len(n.keys) \in Nat
        /\ DOMAIN n.keys = 1 .. Len(n.keys) /\ DOMAIN n.child = 1 .. Len(n.keys) + 1
        /\ DOMAIN s = 1 .. Len(n.keys) + 1
    BY <1>2, InnerParts
  <2>2. Len(s) \in Nat /\ DOMAIN s = 1 .. Len(s)
    BY <2>1, LenProperties
  <2>3. Len(s) = Len(n.keys) + 1
    <3> HIDE DEF n, s
    <3> QED
      BY <2>1, <2>2
  <2> QED
    BY <2>1, <2>2, <2>3
<1>4. S # {}
  <2>1. InnerSize(inners[i]) >= Least(i, root) /\ Least(i, root) >= 1
    <3>1. ~IsReported(i)
      BY DEF IsReported, IsTelling
    <3>2. InnersFilled(T)
      BY DEF Routed
    <3> QED
      BY <3>1, <3>2, FullIfQuiet, MinimumIs DEF Least
  <2>2. 1 \in DOMAIN n.keys /\ 2 \in DOMAIN n.child
    BY <1>3, <2>1, MinimumIs DEF InnerSize, Least
  <2>3. n.keys[1] \in R[n.child[2]]
    BY <1>2, <2>2 DEF Routes, Separates
  <2> QED
    BY <1>2, <2>2, <2>3 DEF Routes, Range
<1>5. /\ \A c \in DOMAIN n.child : R[n.child[c]] # {} /\ R[n.child[c]] \subseteq S
      /\ \A c, d \in DOMAIN n.child : c < d => Precedes(R[n.child[c]], R[n.child[d]])
  <2> HIDE DEF n, S
  <2> QED
    BY <1>2, <1>4, RoutesApart
<1>6. Matched(n, Counts(leaves, inners))
  BY OffPath
<1>7. \A c \in DOMAIN n.child : s[c] = Counts(leaves, inners)[n.child[c]]
  BY <1>2, <1>6, MatchedIs
<1>8. S \subseteq Int /\ StoredKeys \subseteq Int /\ StoredKeys \subseteq Key
      /\ IsFiniteSet(StoredKeys)
  BY <1>2, KeyAssumption, StoredFinite
<1>9. \A c \in 1 .. Len(s) : IsFiniteSet(U[c]) /\ Cardinality(U[c]) = s[c]
  BY <1>3, <1>7 DEF CountedUnder
<1>10. \A c, d \in 1 .. Len(s) : c < d => U[c] \cap U[d] = {}
  <2> SUFFICES ASSUME NEW c \in 1 .. Len(s), NEW d \in 1 .. Len(s), c < d,
                      NEW k \in U[c], k \in U[d]
               PROVE  FALSE
    OBVIOUS
  <2>1. c \in DOMAIN n.child /\ d \in DOMAIN n.child
    BY <1>3
  <2>2. k \in R[n.child[c]] /\ k \in R[n.child[d]] /\ k \in StoredKeys
    BY <2>1 DEF Under
  <2>3. k < k /\ k \in Int
    BY <1>5, <1>8, <2>1, <2>2 DEF Precedes
  <2> QED
    BY <2>3
<1>11. \A m \in 0 .. Len(s) : /\ IsFiniteSet(FirstSets(U, m))
                              /\ Total(SubSeq(s, 1, m)) = Cardinality(FirstSets(U, m))
  <2> HIDE DEF U, s
  <2> QED
    BY <1>3, <1>9, <1>10, SumsCount
<1>12. CountedUnder(R, Inner(i))
  <2>1. FirstSets(U, Len(s)) = Under(S)
    <3>1. FirstSets(U, Len(s)) = UNION {Under(R[n.child[c]]) : c \in DOMAIN n.child}
      BY <1>3 DEF FirstSets
    <3>2. S = UNION {R[n.child[c]] : c \in DOMAIN n.child}
      BY <1>2 DEF Routes, Range
    <3> QED
      BY <3>1, <3>2 DEF Under
  <2>2. SubSeq(s, 1, Len(s)) = s
    BY <1>3
  <2>3. Len(s) \in 0 .. Len(s)
    BY <1>3
  <2>4. Total(s) = Cardinality(Under(S)) /\ IsFiniteSet(Under(S))
    BY <1>11, <2>1, <2>2, <2>3
  <2>5. Counts(leaves, inners)[Inner(i)] = FromInner(inners[i].aug)
    BY <1>2, CountsAre DEF Inner
  <2> QED
    BY <2>4, <2>5 DEF CountedUnder, FromInner
<1>13. ASSUME NEW c \in DOMAIN n.child
       PROVE  Cardinality(KeysBefore(R[n.child[c]]))
                  = Cardinality(KeysBefore(S)) + SumBefore(s, c)
  <2> DEFINE W == R[n.child[c]]
             F == FirstSets(U, c - 1)
  <2>1. F = UNION {Under(R[n.child[d]]) : d \in 1 .. c - 1}
    <3>1. 1 .. c - 1 \subseteq DOMAIN n.child
      BY <1>3
    <3> QED
      BY <3>1 DEF FirstSets
  <2>2. ASSUME NEW k \in KeysBefore(W)
        PROVE  k \in KeysBefore(S) \cup F
    <3>1. k \in StoredKeys /\ k \in Int /\ k \in Key /\ \A w \in W : k < w
      BY <1>8 DEF KeysBefore
    <3>2. PICK t \in W : TRUE
      BY <1>5
    <3>3. t \in S /\ t \in Int /\ k < t
      BY <1>5, <1>8, <3>1, <3>2
    <3>4. CASE k \in S
      <4>1. PICK d \in DOMAIN n.child : k \in R[n.child[d]]
        BY <1>2, <3>4 DEF Routes, Range
      <4>2. d # c
        <5>1. ~(k < k)
          BY <3>1
        <5> QED
          BY <3>1, <4>1, <5>1
      <4>3. ~(c < d)
        <5>1. c < d => t < k
          BY <1>5, <3>2, <4>1 DEF Precedes
        <5> QED
          BY <3>1, <3>3, <5>1
      <4>4. d \in 1 .. c - 1
        BY <1>3, <4>2, <4>3
      <4> QED
        BY <2>1, <3>1, <4>1, <4>4 DEF Under
    <3>5. CASE k \notin S
      <4>1. ASSUME NEW z \in S PROVE k < z
        <5>1. z \in Int
          BY <1>8
        <5>2. CASE z <= k
          <6>1. k <= t
            BY <3>1, <3>3
          <6> QED
            BY <1>2, <3>1, <3>3, <3>5, <5>2, <6>1 DEF IsInterval
        <5> QED
          BY <3>1, <5>1, <5>2
      <4> QED
        BY <3>1, <4>1 DEF KeysBefore
    <3> QED
      BY <3>4, <3>5
  <2>3. ASSUME NEW k \in KeysBefore(S) PROVE k \in KeysBefore(W)
    BY <1>5 DEF KeysBefore
  <2>4. ASSUME NEW k \in F PROVE k \in KeysBefore(W) /\ k \notin KeysBefore(S)
    <3>1. PICK d \in 1 .. c - 1 : k \in Under(R[n.child[d]])
      BY <2>1
    <3>2. d \in DOMAIN n.child /\ d < c
      BY <1>3, <3>1
    <3>3. k \in StoredKeys /\ k \in R[n.child[d]] /\ k \in S /\ k \in Int
      BY <1>5, <1>8, <3>1, <3>2 DEF Under
    <3>4. \A w \in W : k < w
      BY <1>5, <3>2, <3>3 DEF Precedes
    <3>5. ~(k < k)
      BY <3>3
    <3> QED
      BY <3>3, <3>4, <3>5 DEF KeysBefore
  <2>5. KeysBefore(W) = KeysBefore(S) \cup F /\ KeysBefore(S) \cap F = {}
    BY <2>2, <2>3, <2>4
  <2>6. c - 1 \in 0 .. Len(s)
    BY <1>3
  <2>7. IsFiniteSet(F) /\ SumBefore(s, c) = Cardinality(F)
    BY <1>11, <2>6 DEF SumBefore
  <2>8. IsFiniteSet(KeysBefore(S))
    <3>1. KeysBefore(S) \subseteq StoredKeys
      BY DEF KeysBefore
    <3> QED
      BY <1>8, <3>1, FS_Subset
  <2> HIDE DEF F, W, S, s
  <2>9. Cardinality(KeysBefore(W)) = Cardinality(KeysBefore(S)) + Cardinality(F)
    BY <2>5, <2>7, <2>8, ApartCount
  <2> QED
    BY <2>7, <2>9 DEF W
<1>14. \A c \in DOMAIN n.child : s[c] = Cardinality(Under(R[n.child[c]]))
  BY <1>3, <1>9
<1> QED
  BY <1>12, <1>13, <1>14

\* A node of the routes, and of the tree whose augmentations are counted.
InBoth(T, V, x) == x \in NodeId /\ InTree(T, x) /\ InTree(V, x)

\* The children of such a node are such nodes.
LEMMA KidsInBoth ==
  ASSUME NEW h, Good(h), NEW T, NEW R, Routed(T, R), NEW V, InnersFilled(V),
         NEW x, InBoth(T, V, x), x.kind = "inner"
  PROVE  /\ x = Inner(x.id) /\ x.id \in T \cap V /\ h[x.id] \in 1 .. Len(inners)
         /\ \A c \in DOMAIN inners[x.id].child :
                /\ InBoth(T, V, inners[x.id].child[c])
                /\ HeightOf(h, inners[x.id].child[c]) = h[x.id] - 1
<1>1. x.id \in T /\ x.id \in V /\ x = Inner(x.id)
  BY DEF InBoth, InTree, Inner, NodeId
<1>2. x.id \in DOMAIN inners /\ h[x.id] \in 1 .. Len(inners)
  BY <1>1 DEF InnersFilled, Owned, Good, StoreOK
<1>3. ASSUME NEW c \in DOMAIN inners[x.id].child
      PROVE  /\ InBoth(T, V, inners[x.id].child[c])
             /\ HeightOf(h, inners[x.id].child[c]) = h[x.id] - 1
  <2> DEFINE y == inners[x.id].child[c]
  <2>1. y \in KidsOf(inners, x.id)
    BY DEF KidsOf, Range
  <2>2. y \in NodesOf(T)
    BY <1>1, <2>1 DEF NodesOf
  <2>3. y \in NodeId /\ InTree(T, y)
    BY <2>2, NodesOfTree
  <2>4. InTree(V, y)
    <3>1. y.kind = "inner" => y.id \in V
      BY <1>1, <2>1 DEF InnersFilled, Owned, KidsOf
    <3> QED
      BY <2>3, <3>1 DEF InTree, NodeId
  <2>5. HeightOf(h, y) = h[x.id] - 1
    BY <1>2, <2>1, KidKnown
  <2> QED
    BY <2>3, <2>4, <2>5 DEF InBoth
<1> QED
  BY <1>1, <1>2, <1>3

(***************************************************************************)
(* Between the changes to the leaves, the augmentation of every node is    *)
(* the number of stored keys that are routed to it.                        *)
(***************************************************************************)
LEMMA CountIsUnder ==
  ASSUME NEW h, Good(h), NEW T, NEW R, Routed(T, R), ~IsTelling,
         NEW V, InnersFilled(V), Counted(V), NEW x, InBoth(T, V, x)
  PROVE  CountedUnder(R, x)
<1> DEFINE A == {d \in 0 .. Len(inners) :
                     \A y : InBoth(T, V, y) /\ HeightOf(h, y) = d => CountedUnder(R, y)}
<1>1. Len(inners) \in Nat
  BY LenProperties DEF Good, StoreOK
<1>2. ASSUME NEW y, InBoth(T, V, y), y.kind = "leaf"
      PROVE  CountedUnder(R, y)
  <2>1. y = Leaf(y.id) /\ y.id \in LeafAlive
    BY <1>2 DEF InBoth, InTree, Leaf, NodeId
  <2>2. HoldsPairs(leaves[y.id], Range(leaves[y.id].data))
    BY <2>1, LeafHolds
  <2>3. Under(R[y]) = KeysOf(leaves[y.id])
    BY <2>1, UnderLeaf
  <2>4. Counts(leaves, inners)[y] = Len(leaves[y.id].data)
    BY <1>2, CountsAre DEF InBoth
  <2> QED
    BY <2>2, <2>3, <2>4, LeafKeysCount DEF CountedUnder
<1>3. ASSUME NEW y, InBoth(T, V, y), y.kind = "inner",
             \A c \in DOMAIN inners[y.id].child : CountedUnder(R, inners[y.id].child[c])
      PROVE  CountedUnder(R, y)
  <2>1. y = Inner(y.id) /\ y.id \in T \cap V
    BY <1>3, KidsInBoth
  <2> DEFINE i == y.id
  <2> HIDE DEF i
  <2>2. i \in T \cap V /\ \A c \in DOMAIN inners[i].child : CountedUnder(R, inners[i].child[c])
    BY <1>3, <2>1 DEF i
  <2>3. CountedUnder(R, Inner(i))
    BY <2>2, NodeCounts
  <2> QED
    BY <2>1, <2>3 DEF i
<1>4. \A y \in NodeId : y.kind = "leaf" \/ y.kind = "inner"
  BY DEF NodeId
<1>5. 0 \in A
  <2>1. ASSUME NEW y, InBoth(T, V, y), HeightOf(h, y) = 0 PROVE y.kind = "leaf"
    <3>1. CASE y.kind = "inner"
      <4>1. h[y.id] \in 1 .. Len(inners)
        BY <2>1, <3>1, KidsInBoth
      <4> QED
        BY <2>1, <3>1, <4>1 DEF HeightOf
    <3> QED
      BY <1>4, <2>1, <3>1 DEF InBoth
  <2> QED
    BY <1>1, <1>2, <2>1
<1>6. ASSUME NEW d \in 1 .. Len(inners), d - 1 \in A PROVE d \in A
  <2>1. ASSUME NEW y, InBoth(T, V, y), HeightOf(h, y) = d PROVE CountedUnder(R, y)
    <3>1. CASE y.kind = "inner"
      <4>1. \A c \in DOMAIN inners[y.id].child :
               /\ InBoth(T, V, inners[y.id].child[c])
               /\ HeightOf(h, inners[y.id].child[c]) = d - 1
        BY <2>1, <3>1, KidsInBoth DEF HeightOf
      <4> QED
        BY <1>3, <1>6, <2>1, <3>1, <4>1
    <3> QED
      BY <1>2, <1>4, <2>1, <3>1 DEF InBoth
  <2> QED
    BY <2>1
<1>7. 0 .. Len(inners) \subseteq A
  <2>1. \A d \in 1 .. Len(inners) : d - 1 \in A => d \in A
    BY <1>6
  <2> HIDE DEF A
  <2> QED
    BY <1>1, <1>5, <2>1, CountUp
<1>8. HeightOf(h, x) \in 0 .. Len(inners)
  <2>1. CASE x.kind = "inner"
    <3>1. h[x.id] \in 1 .. Len(inners)
      BY <2>1, KidsInBoth
    <3> QED
      BY <1>1, <2>1, <3>1 DEF HeightOf
  <2>2. CASE x.kind = "leaf"
    BY <1>1, <2>2 DEF HeightOf
  <2> QED
    BY <1>4, <2>1, <2>2 DEF InBoth
<1> QED
  BY <1>7, <1>8

\* The current node is in every tree.
LEMMA CurrentInBoth ==
  ASSUME NEW h, Good(h), NEW T, NEW R, Routed(T, R), NEW V, InnersFilled(V)
  PROVE  InBoth(T, V, Current)
<1>1. Current \in NodeId /\ InTree(T, Current)
  BY CurrentIsNode
<1>2. Current.kind = "inner" => Current.id \in V
  BY CurrentInTree
<1> QED
  BY <1>1, <1>2 DEF InBoth, InTree, NodeId

(***************************************************************************)
(* The keys of two leaves are not interleaved.                             *)
(***************************************************************************)
LEMMA LeavesApart ==
  ASSUME NEW h, Good(h), NEW T, NEW R, Routed(T, R), Key # {},
         NEW l \in LeafAlive, NEW m \in LeafAlive, l # m
  PROVE  Ahead(R, l, m) \/ Ahead(R, m, l)
<1>1. Ranged(LeafAlive, R)
  BY RangedLeaves
<1>2. LeavesLinked(leaves, LeafAlive, R)
  BY DEF Routed, InOrder
<1>3. CASE ~Ahead(R, m, l)
  <2>1. /\ leaves[l].next # None /\ leaves[l].next \in LeafAlive
        /\ Ahead(R, l, leaves[l].next)
        /\ m # leaves[l].next => Ahead(R, leaves[l].next, m)
    BY <1>2, <1>3 DEF LeavesLinked
  <2> QED
    BY <1>1, <2>1, AheadOrder
<1> QED
  BY <1>3

(***************************************************************************)
(* The index of an entry: the keys before its leaf and those before it in  *)
(* the leaf.                                                               *)
(***************************************************************************)
LEMMA IndexInLeaf ==
  ASSUME NEW h, Good(h), NEW T, NEW R, Routed(T, R), NEW l \in LeafAlive,
         NEW s \in 1 .. Len(leaves[l].data)
  PROVE  /\ leaves[l].data[s][1] \in StoredKeys
         /\ Cardinality({k \in StoredKeys : k < leaves[l].data[s][1]})
                = Cardinality(KeysBefore(R[Leaf(l)])) + s - 1
<1> DEFINE d == leaves[l].data
           B == {d[i][1] : i \in 1 .. s - 1}
           K == KeysBefore(R[Leaf(l)])
<1>1. HoldsPairs(leaves[l], Range(leaves[l].data))
  BY LeafHolds
<1>2. d \in Seq(Pair) /\ Ascends(d)
  BY <1>1 DEF HoldsPairs, Sorted
<1>3. /\ Len(d) \in Nat /\ DOMAIN d = 1 .. Len(d)
      /\ \A i \in 1 .. Len(d) : d[i] \in Pair /\ d[i][1] \in Int /\ d[i][1] \in Key
  BY <1>2, PairsAt
<1>4. IsFiniteSet(B) /\ Cardinality(B) = s - 1
  BY <1>1, LeafKeysCount
<1>5. StoredKeys \subseteq Int /\ IsFiniteSet(StoredKeys) /\ StoredKeys \subseteq Key
  BY StoredFinite
<1>6. Under(R[Leaf(l)]) = KeysOf(leaves[l])
  BY UnderLeaf
<1>7. ASSUME NEW i \in 1 .. Len(d) PROVE d[i][1] \in StoredKeys /\ d[i][1] \in R[Leaf(l)]
  BY <1>3, <1>6 DEF Under, KeysOf
<1>8. IsFiniteSet(K)
  <2>1. K \subseteq StoredKeys
    BY DEF KeysBefore
  <2> QED
    BY <1>5, <2>1, FS_Subset
<1>9. ASSUME NEW k \in StoredKeys, k < d[s][1] PROVE k \in K \cup B
  <2>1. PICK p \in Stored : p[1] = k
    BY DEF StoredKeys, FirstOf
  <2>2. PICK m \in LeafAlive : p \in Range(leaves[m].data)
    BY <2>1 DEF Stored, PairsIn
  <2>3. k \in R[Leaf(m)] /\ k \in Int
    BY <1>5, <2>1, <2>2, StoredRouted
  <2>4. CASE m = l
    <3>1. PICK i \in 1 .. Len(d) : d[i] = p
      BY <1>3, <2>2, <2>4 DEF Range
    <3>2. ~(s <= i)
      <4>1. s < i => d[s][1] < d[i][1]
        BY <1>2, <1>3 DEF Ascends
      <4>2. s = i => d[s][1] = d[i][1]
        OBVIOUS
      <4>3. d[i][1] = k /\ d[s][1] \in Int
        BY <1>3, <2>1, <3>1
      <4> HIDE DEF d
      <4> QED
        BY <1>3, <1>9, <2>3, <4>1, <4>2, <4>3
    <3>3. i \in 1 .. s - 1
      BY <1>3, <3>2
    <3> QED
      BY <2>1, <3>1, <3>3
  <2>5. CASE m # l
    <3>1. Ahead(R, m, l)
      <4>1. Key # {}
        BY <1>5
      <4>2. Ahead(R, l, m) => d[s][1] < k
        BY <1>7, <2>3 DEF Ahead, Precedes
      <4>3. d[s][1] \in Int
        BY <1>3
      <4>4. ~(d[s][1] < k)
        <5> HIDE DEF d
        <5> QED
          BY <1>9, <2>3, <4>3
      <4> QED
        BY <2>5, <4>1, <4>2, <4>4, LeavesApart
    <3> QED
      BY <2>3, <3>1 DEF Ahead, Precedes, KeysBefore
  <2> QED
    BY <2>4, <2>5
<1>10. ASSUME NEW k \in B PROVE k \in StoredKeys /\ k < d[s][1] /\ k \notin K
  <2>1. PICK i \in 1 .. s - 1 : k = d[i][1]
    OBVIOUS
  <2>2. i \in 1 .. Len(d) /\ i < s
    BY <1>3, <2>1
  <2>3. k < d[s][1]
    BY <1>2, <1>3, <2>1, <2>2 DEF Ascends
  <2>4. k \in R[Leaf(l)] /\ k \in StoredKeys /\ ~(k < k)
    BY <1>3, <1>7, <2>1, <2>2
  <2> QED
    BY <2>3, <2>4 DEF KeysBefore
<1>11. ASSUME NEW k \in K PROVE k \in StoredKeys /\ k < d[s][1]
  BY <1>3, <1>7 DEF KeysBefore
<1>12. {k \in StoredKeys : k < d[s][1]} = K \cup B /\ K \cap B = {}
  BY <1>9, <1>10, <1>11
<1>13. Cardinality(K \cup B) = Cardinality(K) + Cardinality(B)
  <2> HIDE DEF K, B
  <2> QED
    BY <1>4, <1>8, <1>12, ApartCount
<1> DEFINE q == Cardinality(K)
<1>14. q \in Nat /\ s \in Nat
  BY <1>3, <1>8, FS_CardinalityType
<1>15. Cardinality({k \in StoredKeys : k < d[s][1]}) = q + (s - 1)
  BY <1>4, <1>12, <1>13
<1>16. q + (s - 1) = q + s - 1
  <2> HIDE DEF q
  <2> QED
    BY <1>14
<1> QED
  BY <1>3, <1>7, <1>15, <1>16

-----------------------------------------------------------------------------
(* Keys by index                                                           *)

\* The keys of S that have index i.
IndexedIn(S, i) == {k \in S : Cardinality({x \in S : x < k}) = i}

\* Every key has an index of its own, and none has one past the end.
LEMMA IndexOnce ==
  ASSUME NEW S, IsFiniteSet(S), S \subseteq Int
  PROVE  /\ \A k \in S : IndexedIn(S, Cardinality({x \in S : x < k})) = {k}
         /\ \A i \in Nat : i >= Cardinality(S) => IndexedIn(S, i) = {}
<1> DEFINE Low(k) == {x \in S : x < k}
<1>1. ASSUME NEW k \in S
      PROVE  /\ IsFiniteSet(Low(k)) /\ Cardinality(Low(k)) \in Nat
             /\ \A X : Low(k) \subseteq X /\ X # Low(k) /\ X \subseteq S
                     => Cardinality(Low(k)) < Cardinality(X) /\ Cardinality(X) \in Nat
  <2>1. Low(k) \subseteq S
    OBVIOUS
  <2> HIDE DEF Low
  <2>2. IsFiniteSet(Low(k)) /\ Cardinality(Low(k)) \in Nat
    BY <2>1, FS_Subset, FS_CardinalityType
  <2>3. ASSUME NEW X, Low(k) \subseteq X, X # Low(k), X \subseteq S
        PROVE  Cardinality(Low(k)) < Cardinality(X) /\ Cardinality(X) \in Nat
    <3>1. IsFiniteSet(X) /\ Cardinality(X) \in Nat
      BY <2>3, FS_Subset, FS_CardinalityType
    <3>2. Cardinality(Low(k)) <= Cardinality(X) /\ Cardinality(Low(k)) # Cardinality(X)
      BY <2>3, <3>1, FS_Subset
    <3> QED
      BY <2>2, <3>1, <3>2
  <2> QED
    BY <2>2, <2>3
<1>2. ASSUME NEW k \in S, NEW j \in S, k < j
      PROVE  Cardinality(Low(k)) # Cardinality(Low(j))
  <2>1. Low(k) \subseteq Low(j) /\ Low(k) # Low(j) /\ Low(j) \subseteq S
    <3>1. \A x \in S : x < k => x < j
      BY <1>2
    <3>2. k \in Low(j) /\ k \notin Low(k)
      BY <1>2
    <3> QED
      BY <3>1, <3>2
  <2>2. Cardinality(Low(k)) < Cardinality(Low(j)) /\ Cardinality(Low(k)) \in Nat
    BY <1>1, <2>1
  <2> DEFINE a == Cardinality(Low(k))
             b == Cardinality(Low(j))
  <2>3. a < b /\ a \in Nat
    BY <2>2
  <2> HIDE DEF a, b
  <2>4. a # b
    BY <2>3
  <2> QED
    BY <2>4 DEF a, b
<1>3. ASSUME NEW k \in S PROVE IndexedIn(S, Cardinality(Low(k))) = {k}
  <2>1. ASSUME NEW j \in S, Cardinality(Low(j)) = Cardinality(Low(k)) PROVE j = k
    <3>1. ~(j < k) /\ ~(k < j)
      BY <1>2, <2>1
    <3> QED
      BY <3>1
  <2> QED
    BY <2>1 DEF IndexedIn
<1>4. ASSUME NEW i \in Nat, i >= Cardinality(S), NEW k \in S, Cardinality(Low(k)) = i
      PROVE  FALSE
  <2>1. Low(k) \subseteq S /\ S # Low(k)
    BY DEF Low
  <2>2. Cardinality(Low(k)) < Cardinality(S) /\ Cardinality(S) \in Nat
    BY <1>1, <2>1
  <2> DEFINE b == Cardinality(S)
  <2>3. i < b /\ b \in Nat /\ i >= b
    BY <1>4, <2>2
  <2> HIDE DEF b
  <2> QED
    BY <2>3
<1> QED
  BY <1>3, <1>4 DEF IndexedIn

-----------------------------------------------------------------------------
(* What a step makes of the pairs                                          *)

\* The leaves E of M come in place of the leaves D of L; the others keep their pairs.
Replaces(L, A, D, M, B, E) ==
    /\ D \subseteq A /\ E \subseteq B /\ A \ D = B \ E
    /\ \A l \in A \ D : Range(M[l].data) = Range(L[l].data)

\* The pairs of the others, with those of the leaves that changed.
LEMMA PairsReplaced ==
  ASSUME NEW L, NEW A, NEW D, NEW M, NEW B, NEW E, Replaces(L, A, D, M, B, E)
  PROVE  /\ PairsIn(L, A) = PairsIn(L, A \ D) \cup PairsIn(L, D)
         /\ PairsIn(M, B) = PairsIn(L, A \ D) \cup PairsIn(M, E)
<1>1. \A F, X, Y : PairsIn(F, X \cup Y) = PairsIn(F, X) \cup PairsIn(F, Y)
  BY DEF PairsIn
<1>2. A = (A \ D) \cup D /\ B = (A \ D) \cup E
  BY DEF Replaces
<1>3. PairsIn(M, A \ D) = PairsIn(L, A \ D)
  BY DEF PairsIn, Replaces
<1> QED
  BY <1>1, <1>2, <1>3

\* The pairs of one leaf, and of two.
LEMMA PairsOfFew ==
  ASSUME NEW L, NEW a, NEW b
  PROVE  /\ PairsIn(L, {a}) = Range(L[a].data)
         /\ PairsIn(L, {a, b}) = Range(L[a].data) \cup Range(L[b].data)
BY DEF PairsIn

\* A pair whose key goes to leaf l is in no other leaf.
LEMMA NotInOthers ==
  ASSUME NEW h, Good(h), NEW T, NEW R, Routed(T, R), NEW D, D \subseteq LeafAlive, NEW l \in D,
         NEW p \in PairsIn(leaves, LeafAlive \ D)
  PROVE  p[1] \notin R[Leaf(l)]
<1>1. PICK m \in LeafAlive \ D : p \in Range(leaves[m].data)
  BY DEF PairsIn
<1>2. p[1] \in R[Leaf(m)]
  BY <1>1, StoredRouted
<1>3. R[Leaf(l)] \cap R[Leaf(m)] = {}
  BY <1>1, RoutedMeans
<1> QED
  BY <1>2, <1>3

\* A pair is put into the leaves D.
LEMMA StoredPut ==
  ASSUME NEW h, Good(h), NEW T, NEW R, Routed(T, R), NEW D, NEW E,
         Replaces(leaves, LeafAlive, D, leaves', LeafAlive', E),
         NEW l \in D, NEW e, e[1] \in R[Leaf(l)],
         PairsIn(leaves', E) = WithPair(PairsIn(leaves, D), e)
  PROVE  Stored' = WithPair(Stored, e)
<1>1. /\ Stored = PairsIn(leaves, LeafAlive \ D) \cup PairsIn(leaves, D)
      /\ Stored' = PairsIn(leaves, LeafAlive \ D) \cup PairsIn(leaves', E)
  BY PairsReplaced DEF Stored
<1>2. D \subseteq LeafAlive
  BY DEF Replaces
<1>3. \A p \in PairsIn(leaves, LeafAlive \ D) : p[1] # e[1]
  BY <1>2, NotInOthers
<1> QED
  BY <1>1, <1>3 DEF WithPair

\* A pair is taken out of the leaves D.
LEMMA StoredDrop ==
  ASSUME NEW h, Good(h), NEW T, NEW R, Routed(T, R), NEW D, NEW E,
         Replaces(leaves, LeafAlive, D, leaves', LeafAlive', E),
         NEW e \in PairsIn(leaves, D),
         PairsIn(leaves', E) = PairsIn(leaves, D) \ {e}
  PROVE  e \in Stored /\ Stored' = Stored \ {e}
<1>1. /\ Stored = PairsIn(leaves, LeafAlive \ D) \cup PairsIn(leaves, D)
      /\ Stored' = PairsIn(leaves, LeafAlive \ D) \cup PairsIn(leaves', E)
  BY PairsReplaced DEF Stored
<1>2. D \subseteq LeafAlive
  BY DEF Replaces
<1>3. PICK l \in D : e \in Range(leaves[l].data)
  BY DEF PairsIn
<1>4. e[1] \in R[Leaf(l)]
  BY <1>2, <1>3, StoredRouted
<1>5. e \notin PairsIn(leaves, LeafAlive \ D)
  BY <1>2, <1>4, NotInOthers
<1> QED
  BY <1>1, <1>5

\* What the leaf that gets k knows of it.
LEMMA KeyInLeaf ==
  ASSUME NEW h, Good(h), NEW T, NEW R, Routed(T, R), NEW l \in LeafAlive,
         NEW k \in R[Leaf(l)]
  PROVE  /\ k \in Key /\ k \in Int
         /\ HasKey(leaves[l], k) <=> k \in StoredKeys
         /\ HasKey(leaves[l], k) =>
                /\ LocateSlot(leaves[l], k) \in 1 .. Len(leaves[l].data)
                /\ leaves[l].data[LocateSlot(leaves[l], k)][1] = k
<1>1. HoldsPairs(leaves[l], Range(leaves[l].data))
  BY LeafHolds
<1>2. k \in Key /\ k \in Int
  <2>1. R \in Routing /\ l \in Nat
    BY LeavesAre DEF Routed
  <2> QED
    BY <2>1, IdsAreNodes, KeyAssumption DEF Routing
<1>3. ASSUME HasKey(leaves[l], k) PROVE k \in StoredKeys
  <2>1. PICK i \in DOMAIN leaves[l].data : leaves[l].data[i][1] = k
    BY <1>3 DEF HasKey
  <2>2. leaves[l].data[i] \in Stored
    BY <2>1 DEF Stored, PairsIn, Range
  <2> QED
    BY <2>1, <2>2 DEF StoredKeys, FirstOf
<1>4. ASSUME k \in StoredKeys PROVE HasKey(leaves[l], k)
  <2>1. PICK p \in Stored : p[1] = k
    BY <1>4 DEF StoredKeys, FirstOf
  <2>2. p \in Range(leaves[l].data)
    BY <2>1, StoredRouted
  <2> QED
    BY <2>1, <2>2 DEF HasKey, Range
<1>5. ASSUME HasKey(leaves[l], k)
      PROVE  /\ LocateSlot(leaves[l], k) \in 1 .. Len(leaves[l].data)
             /\ leaves[l].data[LocateSlot(leaves[l], k)][1] = k
  <2>1. leaves[l] \in LeafOver(Pair) /\ Ascends(leaves[l].data)
    BY <1>1 DEF HoldsPairs, Sorted
  <2> QED
    BY <1>2, <1>5, <2>1, LocateSlotIs
<1> QED
  BY <1>2, <1>3, <1>4, <1>5

\* Only leaf l changes.
LEMMA OneLeafReplaced ==
  ASSUME NEW h, Good(h), NEW l \in LeafAlive, NEW m, leaves' = [leaves EXCEPT ![l] = m],
         takenLeaves' = takenLeaves
  PROVE  /\ Replaces(leaves, LeafAlive, {l}, leaves', LeafAlive', {l})
         /\ PairsIn(leaves, {l}) = Range(leaves[l].data)
         /\ PairsIn(leaves', {l}) = Range(m.data)
<1>1. l \in DOMAIN leaves /\ LeafAlive \subseteq DOMAIN leaves
  BY LeavesAre
<1>2. LeafAlive' = LeafAlive
  BY DEF LeafAlive
<1>3. leaves'[l] = m /\ \A j \in LeafAlive \ {l} : leaves'[j] = leaves[j]
  BY <1>1
<1>4. Replaces(leaves, LeafAlive, {l}, leaves', LeafAlive', {l})
  BY <1>2, <1>3 DEF Replaces
<1>5. PairsIn(leaves, {l}) = Range(leaves[l].data) /\ PairsIn(leaves', {l}) = Range(leaves'[l].data)
  BY DEF PairsIn
<1> QED
  BY <1>3, <1>4, <1>5

\* An entry of a leaf is a stored pair.
LEMMA EntryStored ==
  ASSUME NEW h, Good(h), NEW l \in LeafAlive, NEW s \in 1 .. Len(leaves[l].data)
  PROVE  leaves[l].data[s] \in Range(leaves[l].data) /\ leaves[l].data[s] \in Stored
<1>1. DOMAIN leaves[l].data = 1 .. Len(leaves[l].data)
  BY LeavesAre DEF LeafSize
<1> QED
  BY <1>1 DEF Range, Stored, PairsIn

\* A value is stored in place of another.
LEMMA SetValueStored ==
  ASSUME NEW h, Good(h), NEW T, NEW R, Routed(T, R), NEW l \in LeafAlive,
         NEW slot \in 1 .. Len(leaves[l].data), NEW v \in Value,
         leaves' = [leaves EXCEPT ![l] = SetValue(leaves[l], slot, v)],
         takenLeaves' = takenLeaves
  PROVE  Stored' = WithPair(Stored, <<leaves[l].data[slot][1], v>>)
<1>1. PICK m, e, P, d : /\ m = SetValue(leaves[l], slot, v) /\ d = leaves[l].data[slot]
                        /\ e = <<d[1], v>> /\ P = Range(leaves[l].data)
  OBVIOUS
<1>2. HoldsPairs(leaves[l], P)
  BY <1>1, LeafHolds
<1>3. Range(m.data) = (P \ {d}) \cup {e}
  <2>1. HoldsPairs(SetValue(leaves[l], slot, v),
                   (P \ {leaves[l].data[slot]}) \cup {<<leaves[l].data[slot][1], v>>})
    BY <1>2, SetValueHolds
  <2>2. HoldsPairs(m, (P \ {d}) \cup {e})
    BY <1>1, <2>1
  <2> QED
    BY <2>2 DEF HoldsPairs, Sorted
<1>4. d \in P /\ P \subseteq Stored /\ OncePerKey(Stored) /\ d[1] \in R[Leaf(l)]
  <2>1. d \in P
    BY <1>1, EntryStored
  <2> QED
    BY <1>1, <2>1, StoredRouted DEF Stored, PairsIn
<1>5. P \ {d} = {p \in P : p[1] # d[1]}
  BY <1>4 DEF OncePerKey
<1>6. Range(m.data) = WithPair(P, e) /\ e[1] = d[1]
  BY <1>1, <1>3, <1>5 DEF WithPair
<1>7. /\ Replaces(leaves, LeafAlive, {l}, leaves', LeafAlive', {l})
      /\ PairsIn(leaves, {l}) = P /\ PairsIn(leaves', {l}) = Range(m.data)
  BY <1>1, OneLeafReplaced
<1>8. Stored' = WithPair(Stored, e)
  <2>1. PairsIn(leaves', {l}) = WithPair(PairsIn(leaves, {l}), e) /\ e[1] \in R[Leaf(l)]
    BY <1>4, <1>6, <1>7
  <2>2. Good(h) /\ Routed(T, R) /\ l \in {l}
    OBVIOUS
  <2> QED
    BY ONLY <1>7, <2>1, <2>2, StoredPut
<1> QED
  BY <1>1, <1>8

\* An entry is deleted in its leaf.
LEMMA DeleteAtStored ==
  ASSUME NEW h, Good(h), NEW T, NEW R, Routed(T, R), NEW l \in LeafAlive,
         NEW slot \in 1 .. Len(leaves[l].data),
         leaves' = [leaves EXCEPT ![l] = DeleteAt(leaves[l], slot)],
         takenLeaves' = takenLeaves
  PROVE  leaves[l].data[slot] \in Stored /\ Stored' = Stored \ {leaves[l].data[slot]}
<1>1. PICK m, P, d : /\ m = DeleteAt(leaves[l], slot) /\ d = leaves[l].data[slot]
                     /\ P = Range(leaves[l].data)
  OBVIOUS
<1>2. HoldsPairs(leaves[l], P)
  BY <1>1, LeafHolds
<1>3. Range(m.data) = P \ {d} /\ d \in P
  BY <1>1, <1>2, DeleteAtHolds DEF HoldsPairs, Sorted
<1>4. /\ Replaces(leaves, LeafAlive, {l}, leaves', LeafAlive', {l})
      /\ PairsIn(leaves, {l}) = P /\ PairsIn(leaves', {l}) = Range(m.data)
  BY <1>1, OneLeafReplaced
<1>5. d \in Stored /\ Stored' = Stored \ {d}
  BY <1>3, <1>4, StoredDrop
<1> QED
  BY <1>1, <1>5

\* What an insertion puts in, and what it says of the key.
Puts(k, v) == /\ Stored' = WithPair(Stored, <<k, v>>)
              /\ pc' = "insert_ascend"
              /\ \/ r'.tag = "Updated" /\ <<k, r'.v>> \in Stored
                 \/ r'.tag \in {"Inserted", "Split"} /\ k \notin StoredKeys

\* insert_leaf, Updated
LEMMA InsertLeafUpdatePuts ==
  ASSUME NEW h, Good(h), NEW T, NEW R, Routed(T, R), InsertLeafUpdate
  PROVE  Puts(call.k, call.v)
<1>1. PICK l, slot : l = node.id /\ slot = LocateSlot(leaves[l], call.k)
  OBVIOUS
<1>2. /\ pc = "insert_inner" /\ node.kind = "leaf" /\ HasKey(leaves[l], call.k)
      /\ leaves' = [leaves EXCEPT ![l] = SetValue(leaves[l], slot, call.v)]
      /\ r' = Updated(leaves[l].data[slot][2]) /\ pc' = "insert_ascend"
      /\ takenLeaves' = takenLeaves
  BY <1>1 DEF InsertLeafUpdate, AtLeaf, taken
<1>3. l \in LeafAlive /\ call.k \in R[Leaf(l)]
  BY <1>1, <1>2, AtLeafRouted DEF Descending
<1>4. slot \in 1 .. Len(leaves[l].data) /\ leaves[l].data[slot][1] = call.k
  BY <1>1, <1>2, <1>3, KeyInLeaf
<1>5. call.v \in Value
  BY <1>2, InsertCallFields
<1>6. Stored' = WithPair(Stored, <<call.k, call.v>>)
  BY <1>2, <1>3, <1>4, <1>5, SetValueStored
<1>7. leaves[l].data[slot] \in Stored /\ leaves[l].data[slot] \in Pair
  BY <1>3, <1>4, EntryStored, StoredRouted
<1>8. leaves[l].data[slot] = <<call.k, leaves[l].data[slot][2]>>
  BY <1>4, <1>7 DEF Pair
<1>9. r'.tag = "Updated" /\ r'.v = leaves[l].data[slot][2]
  BY <1>2 DEF Updated
<1> QED
  BY <1>2, <1>6, <1>7, <1>8, <1>9 DEF Puts

\* insert_leaf, Inserted
LEMMA InsertLeafInsertPuts ==
  ASSUME NEW h, Good(h), NEW T, NEW R, Routed(T, R), InsertLeafInsert
  PROVE  Puts(call.k, call.v)
<1>1. PICK l, slot, e : /\ l = node.id /\ slot = LocateSlot(leaves[l], call.k)
                        /\ e = <<call.k, call.v>>
  OBVIOUS
<1>2. /\ pc = "insert_inner" /\ node.kind = "leaf" /\ ~HasKey(leaves[l], call.k)
      /\ leaves' = [leaves EXCEPT ![l] = InsertInLeaf(leaves[l], slot, e)]
      /\ r' = Inserted /\ pc' = "insert_ascend"
      /\ takenLeaves' = takenLeaves
  BY <1>1 DEF InsertLeafInsert, AtLeaf, taken
<1>3. l \in LeafAlive /\ call.k \in R[Leaf(l)]
  BY <1>1, <1>2, AtLeafRouted DEF Descending
<1>4. e \in Pair /\ e[1] = call.k
  BY <1>1, <1>2, InsertCallFields
<1>5. PICK P, m : P = Range(leaves[l].data) /\ m = InsertInLeaf(leaves[l], slot, e)
  OBVIOUS
<1>6. HoldsPairs(leaves[l], P)
  BY <1>3, <1>5, LeafHolds
<1>7. Range(m.data) = P \cup {e}
  <2>1. HoldsPairs(InsertInLeaf(leaves[l], LocateSlot(leaves[l], e[1]), e), P \cup {e})
    BY <1>2, <1>4, <1>6, InsertInLeafHolds
  <2>2. HoldsPairs(m, P \cup {e})
    BY <1>1, <1>4, <1>5, <2>1
  <2> QED
    BY <2>2 DEF HoldsPairs, Sorted
<1>8. call.k \notin StoredKeys
  BY <1>2, <1>3, KeyInLeaf
<1>9. P \cup {e} = WithPair(P, e)
  <2>1. P \subseteq Stored
    BY <1>3, <1>5 DEF Stored, PairsIn
  <2>2. \A p \in P : p[1] # e[1]
    BY <1>4, <1>8, <2>1 DEF StoredKeys, FirstOf
  <2> QED
    BY <2>2 DEF WithPair
<1>10. /\ Replaces(leaves, LeafAlive, {l}, leaves', LeafAlive', {l})
       /\ PairsIn(leaves, {l}) = P /\ PairsIn(leaves', {l}) = Range(m.data)
  BY <1>2, <1>3, <1>5, OneLeafReplaced
<1>11. Stored' = WithPair(Stored, e)
  BY <1>3, <1>4, <1>7, <1>9, <1>10, StoredPut
<1>12. r'.tag = "Inserted"
  BY <1>2 DEF Inserted
<1> QED
  BY <1>1, <1>2, <1>8, <1>11, <1>12 DEF Puts

\* insert_leaf, IsFull
LEMMA InsertLeafSplitPuts ==
  ASSUME NEW h, Good(h), NEW T, NEW R, Routed(T, R), InsertLeafSplit
  PROVE  Puts(call.k, call.v)
<1>1. PICK l, n, e : l = node.id /\ n = Len(leaves) + 1 /\ e = <<call.k, call.v>>
  OBVIOUS
<1>2. LeafSplits(R, l, n)
  BY <1>1, LeafSplitFacts
<1>3. pc = "insert_inner" /\ node.kind = "leaf" /\ ~HasKey(leaves[l], call.k)
  BY <1>1 DEF InsertLeafSplit, AtLeaf
<1>4. l \in LeafAlive /\ call.k \in R[Leaf(l)]
  BY <1>1, <1>3, AtLeafRouted DEF Descending
<1>5. call.k \notin StoredKeys
  BY <1>3, <1>4, KeyInLeaf
<1>6. Range(leaves'[l].data) \cup Range(leaves'[n].data) = Range(leaves[l].data) \cup {e}
  BY <1>1, <1>2 DEF LeafSplits, HoldsPairs, Sorted
<1>7. Range(leaves[l].data) \cup {e} = WithPair(Range(leaves[l].data), e)
  <2>1. Range(leaves[l].data) \subseteq Stored
    BY <1>4 DEF Stored, PairsIn
  <2>2. \A p \in Range(leaves[l].data) : p[1] # e[1]
    BY <1>1, <1>5, <2>1 DEF StoredKeys, FirstOf
  <2> QED
    BY <2>2 DEF WithPair
<1>8. Replaces(leaves, LeafAlive, {l}, leaves', LeafAlive', {l, n})
  <2>1. LeafAlive' = LeafAlive \cup {n} /\ n \notin LeafAlive
    <3>1. n \notin takenLeaves
      BY <1>2 DEF LeafSplits, Routed, InOrder, LeavesKnown
    <3> QED
      BY <1>2, <3>1 DEF LeafSplits, LeafAlive
  <2>2. \A j \in LeafAlive \ {l} : leaves'[j].data = leaves[j].data
    BY <1>2 DEF LeafSplits, LeafAlive
  <2> QED
    BY <1>4, <2>1, <2>2 DEF Replaces
<1>9. PairsIn(leaves', {l, n}) = WithPair(PairsIn(leaves, {l}), e)
  BY <1>6, <1>7, PairsOfFew
<1>10. e[1] \in R[Leaf(l)]
  BY <1>1, <1>4
<1>11. Stored' = WithPair(Stored, e)
  BY <1>8, <1>9, <1>10, StoredPut
<1>12. r'.tag = "Split" /\ pc' = "insert_ascend"
  BY <1>2 DEF LeafSplits, Split
<1> QED
  BY <1>1, <1>5, <1>11, <1>12 DEF Puts

\* What the leaf that gets k answers for it.
LEMMA ValueOfIs ==
  ASSUME NEW h, Good(h), NEW T, NEW R, Routed(T, R), NEW l \in LeafAlive,
         NEW k \in R[Leaf(l)]
  PROVE  ValueOf(leaves[l], k) = IF k \in StoredKeys THEN DictOf(Stored)[k] ELSE None
<1>1. CASE k \notin StoredKeys
  BY <1>1, KeyInLeaf DEF ValueOf
<1>2. CASE k \in StoredKeys
  <2>1. PICK s : s = LocateSlot(leaves[l], k)
    OBVIOUS
  <2>2. /\ HasKey(leaves[l], k) /\ s \in 1 .. Len(leaves[l].data)
        /\ leaves[l].data[s][1] = k
    BY <1>2, <2>1, KeyInLeaf
  <2>3. leaves[l].data[s] \in Stored
    BY <2>2, EntryStored
  <2>4. OncePerKey(Stored)
    BY StoredRouted
  <2>5. DictOf(Stored)[k] = leaves[l].data[s][2]
    BY <2>2, <2>3, <2>4, DictOfIs
  <2> QED
    BY <1>2, <2>1, <2>2, <2>5 DEF ValueOf
<1> QED
  BY <1>1, <1>2

\* What get_mut and its caller make of the pairs.
LEMMA WriteBackStored ==
  ASSUME NEW h, Good(h), NEW T, NEW R, Routed(T, R), NEW l \in LeafAlive,
         NEW k \in R[Leaf(l)], NEW v \in Value, WriteBack(l, k, v),
         takenLeaves' = takenLeaves
  PROVE  Stored' = IF k \in StoredKeys THEN WithPair(Stored, <<k, v>>) ELSE Stored
<1>1. CASE k \notin StoredKeys
  <2>1. leaves' = leaves
    BY <1>1, KeyInLeaf DEF WriteBack
  <2> QED
    BY <1>1, <2>1 DEF Stored, LeafAlive
<1>2. CASE k \in StoredKeys
  <2>1. PICK s : s = LocateSlot(leaves[l], k)
    OBVIOUS
  <2>2. /\ HasKey(leaves[l], k) /\ s \in 1 .. Len(leaves[l].data)
        /\ leaves[l].data[s][1] = k
    BY <1>2, <2>1, KeyInLeaf
  <2>3. leaves' = [leaves EXCEPT ![l] = SetValue(leaves[l], s, v)]
    <3>1. l \in DOMAIN leaves
      BY LeavesAre
    <3> QED
      BY <2>1, <2>2, <3>1 DEF WriteBack
  <2>4. Stored' = WithPair(Stored, <<leaves[l].data[s][1], v>>)
    BY <2>2, <2>3, SetValueStored
  <2> QED
    BY <1>2, <2>2, <2>4
<1> QED
  BY <1>1, <1>2

\* Leaves and what is taken from the store stay.
LEMMA StoredKept ==
  ASSUME UNCHANGED <<leaves, takenLeaves>>
  PROVE  Stored' = Stored
BY DEF Stored, LeafAlive

\* What the step of a removal that changes the leaves takes out, and reports.
Drops(e) == /\ e \in Stored /\ Stored' = Stored \ {e}
            /\ pc' = "remove_ascend" /\ r'.tag \in {"Done", "InnerUnderSize"} /\ r'.kv = e

\* The entry that a removal in progress is after.
Target == leaves[Current.id].data[r.slot]

\* remove_by_ref at the leaf: it takes the entry out, or asks the parent to.
LEMMA RemoveInLeafDoes ==
  ASSUME NEW h, Good(h), NEW T, NEW R, Routed(T, R), RemoveInLeaf
  PROVE  \E l \in LeafAlive : \E s \in 1 .. Len(leaves[l].data) :
             /\ node = Leaf(l) /\ Current = Leaf(l) /\ Current' = Leaf(l)
             /\ pc' = "remove_ascend" /\ call' = call
             /\ \/ pc = "key_to_ref" /\ call.k \in R[Leaf(l)] /\ leaves[l].data[s][1] = call.k
                \/ /\ pc = "get_ref_by_augmentation" /\ call.op = "remove_by_augmentation"
                   /\ call.query = s - 1
             /\ \/ Drops(leaves[l].data[s])
                \/ /\ UNCHANGED <<leaves, takenLeaves>>
                   /\ r' = LeafUnderSized(s)
<1>1. PICK l : l = node.id
  OBVIOUS
<1>2. /\ pc \in {"key_to_ref", "get_ref_by_augmentation"} /\ node.kind = "leaf"
      /\ pc' = "remove_ascend" /\ UNCHANGED <<root, stack, call, takenLeaves>>
  BY DEF RemoveInLeaf, AtLeaf, taken
<1>3. /\ l \in LeafAlive /\ node = Leaf(l)
      /\ pc = "key_to_ref" => call.k \in R[Leaf(l)]
  BY <1>1, <1>2, AtLeafRouted DEF Descending
<1>4. leaves[l] \in LeafOver(Pair) /\ leaves[l].data \in Seq(Pair)
  BY <1>3, LeavesAre
<1>5. Current = node /\ Current' = Current
  BY <1>2 DEF Good, Locals, Descending, Current, EndOf
<1>6. PICK s : /\ DeleteInLeaf(s)
               /\ \/ pc = "key_to_ref" /\ HasKey(leaves[l], call.k) /\ s = LocateSlot(leaves[l], call.k)
                  \/ /\ pc = "get_ref_by_augmentation" /\ call.op = "remove_by_augmentation"
                     /\ s = LocateInLeaf(call.query, LeafKeys(leaves[l])) /\ s # 0
  BY <1>1 DEF RemoveInLeaf, AtLeaf
<1>7. /\ s \in 1 .. Len(leaves[l].data)
      /\ \/ pc = "key_to_ref" /\ call.k \in R[Leaf(l)] /\ leaves[l].data[s][1] = call.k
         \/ /\ pc = "get_ref_by_augmentation" /\ call.op = "remove_by_augmentation"
            /\ call.query = s - 1
  <2>1. CASE pc = "key_to_ref" /\ HasKey(leaves[l], call.k) /\ s = LocateSlot(leaves[l], call.k)
    BY <1>3, <2>1, KeyInLeaf
  <2>2. CASE /\ pc = "get_ref_by_augmentation" /\ call.op = "remove_by_augmentation"
             /\ s = LocateInLeaf(call.query, LeafKeys(leaves[l])) /\ s # 0
    <3>1. call.query \in Nat
      BY <2>2, RemoveCallFields
    <3>2. s \in 1 .. Len(leaves[l].data) /\ call.query = s - 1
      BY <1>4, <2>2, <3>1, LeafKeysLen DEF LocateInLeaf
    <3> QED
      BY <2>2, <3>2
  <2> QED
    BY <1>6, <2>1, <2>2
<1>8. \/ Drops(leaves[l].data[s])
      \/ UNCHANGED <<leaves, takenLeaves>> /\ r' = LeafUnderSized(s)
  <2>1. CASE LeafAbleToLend(leaves[l])
    <3>1. /\ leaves' = [leaves EXCEPT ![l] = DeleteAt(leaves[l], s)]
          /\ r' = Done(leaves[l].data[s])
      BY <1>1, <1>6, <2>1 DEF DeleteInLeaf
    <3>2. leaves[l].data[s] \in Stored /\ Stored' = Stored \ {leaves[l].data[s]}
      BY <1>2, <1>3, <1>7, <3>1, DeleteAtStored
    <3>3. r'.tag = "Done" /\ r'.kv = leaves[l].data[s]
      BY <3>1 DEF Done
    <3> QED
      BY <1>2, <3>2, <3>3 DEF Drops
  <2>2. CASE ~LeafAbleToLend(leaves[l])
    BY <1>1, <1>2, <1>6, <2>2 DEF DeleteInLeaf
  <2> QED
    BY <2>1, <2>2
<1> QED
  BY <1>2, <1>3, <1>5, <1>7, <1>8

\* Leaves a and b, after an entry moved between them in place of e.
LEMMA TwoLeavesDrop ==
  ASSUME NEW h, Good(h), NEW T, NEW R, Routed(T, R), NEW a \in LeafAlive, NEW b \in LeafAlive,
         a # b, NEW x, NEW y, leaves' = [leaves EXCEPT ![a] = x, ![b] = y],
         takenLeaves' = takenLeaves,
         NEW e, e \in Range(leaves[a].data) \cup Range(leaves[b].data),
         MovedOut(x, y, leaves[a], leaves[b], e)
  PROVE  e \in Stored /\ Stored' = Stored \ {e}
<1>1. a \in DOMAIN leaves /\ b \in DOMAIN leaves
  BY LeavesAre
<1>2. LeafAlive' = LeafAlive
  BY <1>1 DEF LeafAlive
<1>3. /\ leaves'[a] = x /\ leaves'[b] = y
      /\ \A j \in LeafAlive \ {a, b} : leaves'[j] = leaves[j]
  BY <1>1 DEF LeafAlive
<1>4. Replaces(leaves, LeafAlive, {a, b}, leaves', LeafAlive', {a, b})
  BY <1>2, <1>3 DEF Replaces
<1>5. /\ PairsIn(leaves, {a, b}) = Range(leaves[a].data) \cup Range(leaves[b].data)
      /\ PairsIn(leaves', {a, b}) = Range(leaves'[a].data) \cup Range(leaves'[b].data)
  BY DEF PairsIn
<1>6. e \in PairsIn(leaves, {a, b}) /\ PairsIn(leaves', {a, b}) = PairsIn(leaves, {a, b}) \ {e}
  BY <1>3, <1>5 DEF MovedOut
<1> QED
  BY <1>4, <1>6, StoredDrop

\* rotate_right_for_leaf
LEMMA RotateRightLeafDrops ==
  ASSUME NEW h, Good(h), NEW T, NEW R, Routed(T, R), RotateRightLeaf
  PROVE  Drops(Target)
<1>1. Ascending("remove_ascend", "LeafUnderSize") /\ pc' = "remove_ascend"
      /\ UNCHANGED <<root, takenLeaves>> /\ HasPrev /\ LeafAbleToLend(LeafAt(Top.idx - 1))
  BY DEF RotateRightLeaf, Ascending, PrevLeafLends, taken
<1>2. /\ Current.kind = "leaf" /\ ~IsSplit /\ stack # <<>> /\ Key # {}
      /\ r.slot \in DOMAIN leaves[Current.id].data
      /\ Top.idx \in 1 .. Len(Parent.keys) + 1 /\ Len(Parent.keys) \in Nat
      /\ Parent.child[Top.idx].id = Current.id
  BY <1>1, ShortLeaf
<1>3. PICK slot \in 1 .. Len(Parent.keys) : slot = Top.idx - 1 /\ slot + 1 = Top.idx
  BY <1>1, <1>2 DEF HasPrev
<1>4. PICK a, b : a = Parent.child[slot].id /\ b = Parent.child[slot + 1].id
  OBVIOUS
<1>5. LeafPair(R, slot, a, b)
  BY <1>2, <1>4, TwoLeaves
<1>6. b = Current.id /\ LeafAt(slot) = leaves[a] /\ LeafAt(slot + 1) = leaves[b]
  BY <1>2, <1>3, <1>4, <1>5 DEF LeafPair
<1>7. PairHolds(R, a, b) /\ a \in LeafAlive /\ b \in LeafAlive /\ a # b
  BY <1>2, <1>5, PairHoldsIs DEF LeafPair
<1>8. PICK s \in 1 .. LeafSize(leaves[b]) : s = r.slot
  BY <1>2, <1>6, <1>7 DEF PairHolds, HoldsPairs, Sorted, LeafSize
<1>9. PICK e, x, y : /\ e = leaves[a].data[LeafSize(leaves[a])] /\ x = PopLeaf(leaves[a])
                     /\ y = DeleteWithPushFront(leaves[b], s, e)
  OBVIOUS
<1>10. LeafSize(leaves[a]) > LEAF_MIN
  BY <1>1, <1>3, <1>6 DEF LeafAbleToLend
<1>11. MovedOut(x, y, leaves[a], leaves[b], leaves[b].data[s])
  BY ONLY <1>7, <1>9, <1>10, LastMoves
<1>12. leaves' = [leaves EXCEPT ![a] = x, ![b] = y] /\ r' = Done(leaves[b].data[s])
  BY <1>3, <1>4, <1>6, <1>8, <1>9 DEF RotateRightLeaf
<1>13. leaves[b].data[s] \in Range(leaves[b].data)
  BY <1>7, <1>8, EntryStored DEF LeafSize
<1>14. PICK f : f = leaves[b].data[s]
  OBVIOUS
<1>15. f \in Stored /\ Stored' = Stored \ {f}
  <2>1. takenLeaves' = takenLeaves /\ f \in Range(leaves[a].data) \cup Range(leaves[b].data)
        /\ MovedOut(x, y, leaves[a], leaves[b], f)
    BY <1>1, <1>11, <1>13, <1>14
  <2> QED
    BY ONLY Good(h), Routed(T, R), <1>7, <1>12, <2>1, TwoLeavesDrop
<1>16. r'.tag = "Done" /\ r'.kv = f /\ f = Target
  BY <1>6, <1>8, <1>12, <1>14 DEF Done, Target
<1> QED
  BY <1>1, <1>15, <1>16 DEF Drops

\* rotate_left_for_leaf
LEMMA RotateLeftLeafDrops ==
  ASSUME NEW h, Good(h), NEW T, NEW R, Routed(T, R), RotateLeftLeaf
  PROVE  Drops(Target)
<1>1. Ascending("remove_ascend", "LeafUnderSize") /\ pc' = "remove_ascend"
      /\ UNCHANGED <<root, takenLeaves>> /\ HasNext /\ LeafAbleToLend(LeafAt(Top.idx + 1))
  BY DEF RotateLeftLeaf, Ascending, NextLeafLends, taken
<1>2. /\ Current.kind = "leaf" /\ ~IsSplit /\ stack # <<>> /\ Key # {}
      /\ r.slot \in DOMAIN leaves[Current.id].data
      /\ Top.idx \in 1 .. Len(Parent.keys) + 1 /\ Len(Parent.keys) \in Nat
      /\ Parent.child[Top.idx].id = Current.id
  BY <1>1, ShortLeaf
<1>3. PICK slot \in 1 .. Len(Parent.keys) : slot = Top.idx
  BY <1>1, <1>2 DEF HasNext, InnerSize
<1>4. PICK a, b : a = Parent.child[slot].id /\ b = Parent.child[slot + 1].id
  OBVIOUS
<1>5. LeafPair(R, slot, a, b)
  BY <1>2, <1>4, TwoLeaves
<1>6. a = Current.id /\ LeafAt(slot) = leaves[a] /\ LeafAt(slot + 1) = leaves[b]
  BY <1>2, <1>3, <1>4, <1>5 DEF LeafPair
<1>7. PairHolds(R, a, b) /\ a \in LeafAlive /\ b \in LeafAlive /\ a # b
  BY <1>2, <1>5, PairHoldsIs DEF LeafPair
<1>8. PICK s \in 1 .. LeafSize(leaves[a]) : s = r.slot
  BY <1>2, <1>6, <1>7 DEF PairHolds, HoldsPairs, Sorted, LeafSize
<1>9. PICK e, x, y : /\ e = leaves[b].data[1] /\ y = PopFrontLeaf(leaves[b])
                     /\ x = DeleteWithPush(leaves[a], s, e)
  OBVIOUS
<1>10. LeafSize(leaves[b]) > LEAF_MIN
  BY <1>1, <1>3, <1>6 DEF LeafAbleToLend
<1>11. MovedOut(x, y, leaves[a], leaves[b], leaves[a].data[s])
  BY ONLY <1>7, <1>9, <1>10, FirstMoves
<1>12. leaves' = [leaves EXCEPT ![a] = x, ![b] = y] /\ r' = Done(leaves[a].data[s])
  BY <1>3, <1>4, <1>6, <1>8, <1>9 DEF RotateLeftLeaf
<1>13. leaves[a].data[s] \in Range(leaves[a].data)
  BY <1>7, <1>8, EntryStored DEF LeafSize
<1>14. PICK f : f = leaves[a].data[s]
  OBVIOUS
<1>15. f \in Stored /\ Stored' = Stored \ {f}
  <2>1. takenLeaves' = takenLeaves /\ f \in Range(leaves[a].data) \cup Range(leaves[b].data)
        /\ MovedOut(x, y, leaves[a], leaves[b], f)
    BY <1>1, <1>11, <1>13, <1>14
  <2> QED
    BY ONLY Good(h), Routed(T, R), <1>7, <1>12, <2>1, TwoLeavesDrop
<1>16. r'.tag = "Done" /\ r'.kv = f /\ f = Target
  BY <1>6, <1>8, <1>12, <1>14 DEF Done, Target
<1> QED
  BY <1>1, <1>15, <1>16 DEF Drops

\* merge_leaf_node_left and merge_leaf_node_with_right
LEMMA MergeLeafDrops ==
  ASSUME NEW h, Good(h), NEW T, NEW R, Routed(T, R), MergeLeafLeft \/ MergeLeafRight
  PROVE  Drops(Target)
<1>1. /\ Ascending("remove_ascend", "LeafUnderSize") /\ pc' = "remove_ascend"
      /\ UNCHANGED root
  BY DEF MergeLeafLeft, MergeLeafRight, Ascending
<1>2. /\ Current.kind = "leaf" /\ ~IsSplit /\ stack # <<>> /\ Key # {}
      /\ r.slot \in DOMAIN leaves[Current.id].data
      /\ Top.idx \in 1 .. Len(Parent.keys) + 1 /\ Len(Parent.keys) \in Nat
      /\ Parent.child[Top.idx].id = Current.id
  BY <1>1, ShortLeaf
<1>3. PICK slot, x, kv :
          /\ MergeLeaves(slot, x, kv)
          /\ \/ /\ HasPrev /\ slot = Top.idx - 1
                /\ x = MergeRightDeleteFirst(LeafAt(slot), r.slot, LeafAt(slot + 1))
                /\ kv = LeafAt(slot + 1).data[r.slot]
             \/ /\ HasNext /\ slot = Top.idx
                /\ x = MergeRight(DeleteAt(LeafAt(slot), r.slot), LeafAt(slot + 1))
                /\ kv = LeafAt(slot).data[r.slot]
  BY DEF MergeLeafLeft, MergeLeafRight
<1>4. slot \in 1 .. Len(Parent.keys) /\ (slot = Top.idx - 1 => slot + 1 = Top.idx)
  BY <1>2, <1>3 DEF HasPrev, HasNext, InnerSize
<1>5. PICK a, b : a = Parent.child[slot].id /\ b = Parent.child[slot + 1].id
  OBVIOUS
<1>6. LeafPair(R, slot, a, b)
  BY <1>2, <1>4, <1>5, TwoLeaves
<1>7. PairHolds(R, a, b) /\ a \in LeafAlive /\ b \in LeafAlive /\ a # b
  BY <1>2, <1>4, <1>6, PairHoldsIs DEF LeafPair
<1>8. LeafAt(slot) = leaves[a] /\ LeafAt(slot + 1) = leaves[b]
  BY <1>6 DEF LeafPair
<1>9. /\ DOMAIN leaves[a].data = 1 .. LeafSize(leaves[a])
      /\ DOMAIN leaves[b].data = 1 .. LeafSize(leaves[b])
  BY <1>7 DEF PairHolds, HoldsPairs, Sorted, LeafSize
<1>10. /\ kv = Target /\ kv \in Range(leaves[a].data) \cup Range(leaves[b].data)
       /\ Range(x.data) = (Range(leaves[a].data) \cup Range(leaves[b].data)) \ {kv}
  <2>1. CASE /\ slot = Top.idx - 1 /\ x = MergeRightDeleteFirst(leaves[a], r.slot, leaves[b])
             /\ kv = leaves[b].data[r.slot]
    <3>1. r.slot \in 1 .. LeafSize(leaves[b]) /\ b = Current.id /\ r.slot \in DOMAIN leaves[b].data
      BY <1>2, <1>4, <1>5, <1>9, <2>1
    <3>2. Range(x.data) = (Range(leaves[a].data) \cup Range(leaves[b].data)) \ {kv}
      BY <1>7, <2>1, <3>1, JoinedLeaf
    <3> QED
      BY <2>1, <3>1, <3>2 DEF Target, Range
  <2>2. CASE /\ slot = Top.idx /\ x = MergeRight(DeleteAt(leaves[a], r.slot), leaves[b])
             /\ kv = leaves[a].data[r.slot]
    <3>1. r.slot \in 1 .. LeafSize(leaves[a]) /\ a = Current.id /\ r.slot \in DOMAIN leaves[a].data
      BY <1>2, <1>5, <1>9, <2>2
    <3>2. Range(x.data) = (Range(leaves[a].data) \cup Range(leaves[b].data)) \ {kv}
      BY <1>7, <2>2, <3>1, JoinedLeaf
    <3> QED
      BY <2>2, <3>1, <3>2 DEF Target, Range
  <2> QED
    BY <1>3, <1>8, <2>1, <2>2
<1>11. PICK L1 : L1 = [leaves EXCEPT ![a] = x, ![b] = EmptyLeaf]
  OBVIOUS
<1>12. leaves' = FixPrev(L1, x.next, a) /\ takenLeaves' = takenLeaves \cup {b}
  BY <1>3, <1>5, <1>11 DEF MergeLeaves
<1>13. /\ DOMAIN leaves' = DOMAIN leaves /\ leaves'[a].data = x.data
       /\ \A j \in LeafAlive \ {a, b} : leaves'[j].data = leaves[j].data
  <2>1. a \in DOMAIN leaves /\ b \in DOMAIN leaves /\ LeafAlive \subseteq DOMAIN leaves
    BY <1>7, LeavesAre
  <2>2. /\ DOMAIN L1 = DOMAIN leaves /\ L1[a] = x
        /\ \A j \in LeafAlive \ {a, b} : L1[j] = leaves[j]
    BY <1>7, <1>11, <2>1
  <2>3. DOMAIN FixPrev(L1, x.next, a) = DOMAIN L1
    BY DEF FixPrev
  <2>4. \A j \in DOMAIN L1 : FixPrev(L1, x.next, a)[j].data = L1[j].data
    BY FixPrevSizes
  <2> QED
    BY <1>12, <2>1, <2>2, <2>3, <2>4
<1>14. Replaces(leaves, LeafAlive, {a, b}, leaves', LeafAlive', {a})
  <2>1. LeafAlive' = LeafAlive \ {b}
    BY <1>12, <1>13 DEF LeafAlive
  <2> QED
    BY <1>7, <1>13, <2>1 DEF Replaces
<1>15. PairsIn(leaves', {a}) = PairsIn(leaves, {a, b}) \ {kv} /\ kv \in PairsIn(leaves, {a, b})
  <2>1. PairsIn(leaves', {a}) = Range(leaves'[a].data)
    BY DEF PairsIn
  <2>2. PairsIn(leaves, {a, b}) = Range(leaves[a].data) \cup Range(leaves[b].data)
    BY PairsOfFew
  <2>3. Range(leaves'[a].data) = Range(x.data)
    BY <1>13
  <2> QED
    BY <1>10, <2>1, <2>2, <2>3
<1>16. kv \in Stored /\ Stored' = Stored \ {kv}
  BY <1>14, <1>15, StoredDrop
<1>17. r'.tag \in {"Done", "InnerUnderSize"} /\ r'.kv = kv
  BY <1>3 DEF MergeLeaves, AfterMerge, Done, InnerUnderSized
<1> QED
  BY <1>1, <1>10, <1>16, <1>17 DEF Drops

\* A root that is a leaf just loses the entry.
LEMMA RemoveReturnLeafDoes ==
  ASSUME NEW h, Good(h), NEW T, NEW R, Routed(T, R), RemoveReturnLeafUnderSize
  PROVE  Target \in Stored /\ Stored' = Stored \ {Target} /\ root.id = Current.id
<1> DEFINE l == root.id
<1>1. /\ pc = "remove_ascend" /\ stack = <<>> /\ r.tag = "LeafUnderSize"
      /\ UNCHANGED takenLeaves
      /\ leaves' = [leaves EXCEPT ![l] = DeleteAt(leaves[l], r.slot)]
  BY DEF RemoveReturnLeafUnderSize, AtRoot, taken
<1>2. Current = root /\ root.kind = "leaf" /\ r.slot \in DOMAIN leaves[l].data
  BY <1>1, RootIsCurrent, RemoveFields
<1>3. l \in LeafAlive
  BY <1>2, CurrentIsNode DEF InTree
<1>4. r.slot \in 1 .. Len(leaves[l].data)
  BY <1>2, <1>3, LeavesAre DEF LeafSize
<1>5. leaves[l].data[r.slot] \in Stored /\ Stored' = Stored \ {leaves[l].data[r.slot]}
  BY <1>1, <1>3, <1>4, DeleteAtStored
<1> QED
  BY <1>2, <1>5 DEF Target

\* A store with one empty leaf.
LEMMA FreshStored == leaves = <<EmptyLeaf>> /\ takenLeaves = {} => Stored = {}
BY DEF Stored, PairsIn, LeafAlive, EmptyLeaf, Range

\* A request that the map has yet to answer.
IsAsking == /\ pc # "insert_ascend"
            /\ pc = "remove_ascend" => r.tag = "LeafUnderSize"

\* Pending, by the step the call in progress has come to.
LEMMA PendingIs ==
  /\ IsAsking => Pending = Request
  /\ pc = "insert_ascend" => Pending = Took(IF r.tag = "Updated" THEN r.v ELSE None)
  /\ pc = "remove_ascend" /\ r.tag # "LeafUnderSize" => Pending = Took(Removed(r.kv))
BY DEF Pending, IsAsking

\* What the call asks for, without the bookkeeping of a descent by index.
LEMMA RequestIs ==
  /\ call.op \notin {"remove_by_augmentation", "get_mut_by_augmentation"} => Request = call
  /\ call.op = "remove_by_augmentation" => Request = [op |-> call.op, i |-> call.i]
  /\ call.op = "get_mut_by_augmentation" =>
         Request = [op |-> call.op, i |-> call.i, v |-> call.v]
BY DEF Request

\* What the map answers to each request,
LEMMA AnswerIs ==
  ASSUME NEW c
  PROVE  /\ c.op \in {"insert", "get", "get_mut", "remove"} => Map!Answer(c) = Map!Lookup(c.k)
         /\ c.op = "clear" => Map!Answer(c) = None
         /\ c.op = "remove_by_augmentation" =>
                /\ Map!AtIndex(c.i) = {} => Map!Answer(c) = None
                /\ \A k : Map!AtIndex(c.i) = {k} => Map!Answer(c) = <<k, Contents[k]>>
         /\ c.op = "get_mut_by_augmentation" =>
                /\ Map!AtIndex(c.i) = {} => Map!Answer(c) = None
                /\ \A k : Map!AtIndex(c.i) = {k} => Map!Answer(c) = Contents[k]
<1>1. \A k : (CHOOSE x \in {k} : TRUE) = k
  OBVIOUS
<1>2. \A k : {k} # {}
  OBVIOUS
<1>3. c.op \in {"insert", "get", "get_mut", "remove"} => Map!Answer(c) = Map!Lookup(c.k)
  BY DEF Map!Answer
<1>4. c.op = "clear" => Map!Answer(c) = None
  BY DEF Map!Answer
<1>5. ASSUME c.op = "remove_by_augmentation"
      PROVE  /\ Map!AtIndex(c.i) = {} => Map!Answer(c) = None
             /\ \A k : Map!AtIndex(c.i) = {k} => Map!Answer(c) = <<k, Contents[k]>>
  BY <1>1, <1>2, <1>5 DEF Map!Answer
<1>6. ASSUME c.op = "get_mut_by_augmentation"
      PROVE  /\ Map!AtIndex(c.i) = {} => Map!Answer(c) = None
             /\ \A k : Map!AtIndex(c.i) = {k} => Map!Answer(c) = Contents[k]
  BY <1>1, <1>2, <1>6 DEF Map!Answer
<1> QED
  BY <1>3, <1>4, <1>5, <1>6

\* and what becomes of it.
LEMMA EffectIs ==
  ASSUME NEW c
  PROVE  /\ c.op = "insert" => Map!Effect(c) = Map!Put(c.k, c.v)
         /\ c.op = "get_mut" =>
                Map!Effect(c) = IF c.k \in Map!Keys THEN Map!Put(c.k, c.v) ELSE Contents
         /\ c.op = "get" => Map!Effect(c) = Contents
         /\ c.op = "remove" => Map!Effect(c) = Map!Without({c.k})
         /\ c.op = "remove_by_augmentation" => Map!Effect(c) = Map!Without(Map!AtIndex(c.i))
         /\ c.op = "get_mut_by_augmentation" =>
                Map!Effect(c) = [x \in Map!Keys |-> IF x \in Map!AtIndex(c.i) THEN c.v
                                                                       ELSE Contents[x]]
         /\ c.op = "clear" => Map!Effect(c) = Map!Without(Map!Keys)
BY DEF Map!Effect

\* The map counts as the tree does.
LEMMA SameCardinality == \A S : Map!Cardinality(S) = Cardinality(S)
BY DEF Map!Cardinality, Cardinality

\* The map, after a step.
LEMMA ContentsNext == Contents' = DictOf(Stored)'
<1>1. \A l \in LeafAlive' : ToSet(leaves'[l].data) = Range(leaves'[l].data)
  BY DEF ToSet, Range
<1>2. UNION {ToSet(leaves'[l].data) : l \in LeafAlive'} = Stored'
  BY <1>1 DEF Stored, PairsIn
<1>3. Contents' = DictOf(UNION {ToSet(leaves'[l].data) : l \in LeafAlive'})
  BY DEF Contents, DictOf
<1> QED
  BY <1>2, <1>3

\* The map, in terms of the pairs of the leaves.
LEMMA MapIs ==
  ASSUME NEW h, Good(h), NEW T, NEW R, Routed(T, R)
  PROVE  /\ Map!Keys = StoredKeys
         /\ \A k : Map!Lookup(k) = IF k \in StoredKeys THEN Contents[k] ELSE None
         /\ \A p \in Stored : p[1] \in StoredKeys /\ Contents[p[1]] = p[2]
         /\ \A i : Map!AtIndex(i) = IndexedIn(StoredKeys, i)
<1>1. Contents = DictOf(Stored) /\ OncePerKey(Stored)
  BY ContentsIs, StoredRouted
<1>2. DOMAIN Contents = StoredKeys /\ \A p \in Stored : Contents[p[1]] = p[2]
  BY <1>1, DictOfIs DEF StoredKeys
<1>3. Map!Keys = StoredKeys
  BY <1>2 DEF Map!Keys
<1>4. \A p \in Stored : p[1] \in StoredKeys
  BY DEF StoredKeys, FirstOf
<1>5. \A k : Map!Lookup(k) = IF k \in StoredKeys THEN Contents[k] ELSE None
  BY <1>3 DEF Map!Lookup
<1>6. \A i : Map!AtIndex(i) = IndexedIn(StoredKeys, i)
  <2>1. \A i : Map!AtIndex(i) = IndexedIn(Map!Keys, i)
    BY SameCardinality DEF Map!AtIndex, IndexedIn
  <2> QED
    BY <1>3, <2>1
<1> QED
  BY <1>2, <1>3, <1>4, <1>5, <1>6

\* A pair that is put among the stored ones is put in the map.
LEMMA PutIs ==
  ASSUME NEW h, Good(h), NEW T, NEW R, Routed(T, R), NEW k, NEW v,
         Stored' = WithPair(Stored, <<k, v>>)
  PROVE  /\ Contents' = Map!Put(k, v)
         /\ StoredKeys' = StoredKeys \cup {k}
<1>1. Contents = DictOf(Stored) /\ OncePerKey(Stored)
  BY ContentsIs, StoredRouted
<1>2. Contents' = DictOf(Stored)'
  BY ContentsNext
<1>3. DictOf(Stored)' = DictOf(WithPair(Stored, <<k, v>>))
  OBVIOUS
<1>4. DictOf(WithPair(Stored, <<k, v>>))
          = [x \in FirstOf(Stored) \cup {k} |-> IF x = k THEN v ELSE DictOf(Stored)[x]]
  BY <1>1, DictPut
<1>5. Map!Put(k, v) = [x \in StoredKeys \cup {k} |-> IF x = k THEN v ELSE Contents[x]]
  BY MapIs DEF Map!Put
<1>6. StoredKeys' = StoredKeys \cup {k}
  <2>1. StoredKeys' = FirstOf(WithPair(Stored, <<k, v>>))
    BY DEF StoredKeys
  <2>2. ASSUME NEW x PROVE x \in FirstOf(WithPair(Stored, <<k, v>>)) <=> x \in FirstOf(Stored) \cup {k}
    <3>1. ASSUME x \in FirstOf(WithPair(Stored, <<k, v>>)) PROVE x \in FirstOf(Stored) \cup {k}
      BY <3>1 DEF FirstOf, WithPair
    <3>2. ASSUME x \in FirstOf(Stored), x # k PROVE x \in FirstOf(WithPair(Stored, <<k, v>>))
      BY <3>2 DEF FirstOf, WithPair
    <3>3. k \in FirstOf(WithPair(Stored, <<k, v>>))
      <4>1. <<k, v>> \in WithPair(Stored, <<k, v>>) /\ <<k, v>>[1] = k
        BY DEF WithPair
      <4> QED
        BY <4>1 DEF FirstOf
    <3> QED
      BY <3>1, <3>2, <3>3
  <2> QED
    BY <2>1, <2>2 DEF StoredKeys
<1> QED
  BY <1>1, <1>2, <1>3, <1>4, <1>5, <1>6 DEF StoredKeys

\* A pair that is taken out of the stored ones is taken out of the map.
LEMMA DropIs ==
  ASSUME NEW h, Good(h), NEW T, NEW R, Routed(T, R), NEW e \in Stored, Stored' = Stored \ {e}
  PROVE  /\ Contents' = Map!Without({e[1]})
         /\ StoredKeys' = StoredKeys \ {e[1]} /\ e[1] \in StoredKeys
<1>1. Contents = DictOf(Stored) /\ OncePerKey(Stored)
  BY ContentsIs, StoredRouted
<1>2. Contents' = DictOf(Stored)'
  BY ContentsNext
<1>3. Stored' = WithoutKeys(Stored, {e[1]})
  BY <1>1, PairOut
<1>4. DictOf(Stored)' = DictOf(WithoutKeys(Stored, {e[1]}))
  BY <1>3
<1>5. DictOf(WithoutKeys(Stored, {e[1]})) = [x \in FirstOf(Stored) \ {e[1]} |-> DictOf(Stored)[x]]
  BY <1>1, DictWithout
<1>6. Map!Without({e[1]}) = [x \in StoredKeys \ {e[1]} |-> Contents[x]]
  BY MapIs DEF Map!Without
<1>7. StoredKeys' = StoredKeys \ {e[1]} /\ e[1] \in StoredKeys
  BY <1>3 DEF StoredKeys, FirstOf, WithoutKeys
<1> QED
  BY <1>1, <1>2, <1>4, <1>5, <1>6, <1>7 DEF StoredKeys

\* Pairs that stay keep the map as it is.
LEMMA KeepIs ==
  ASSUME Stored' = Stored
  PROVE  Contents' = Contents /\ StoredKeys' = StoredKeys
<1>1. Contents' = DictOf(Stored)'
  BY ContentsNext
<1> QED
  BY <1>1, ContentsIs DEF StoredKeys

-----------------------------------------------------------------------------
(* What a call in progress knows of the map                                *)

\* What len will be, once the call that has changed the leaves returns.
LenToBe == IF pc = "insert_ascend" /\ r.tag \in {"Inserted", "Split"} THEN len + 1
           ELSE IF pc = "remove_ascend" /\ r.tag # "LeafUnderSize" THEN len - 1
           ELSE len

\* len, with what the call in progress still owes it, is the number of entries.
SizeRight == Cardinality(StoredKeys) = LenToBe

\* e is the entry that the removal in progress was called for.
IsSought(e) ==
    /\ call.op = "remove" => e[1] = call.k
    /\ call.op = "remove_by_augmentation" =>
           Cardinality({k \in StoredKeys : k < e[1]}) = call.i

\* The slot that waits for the parent to delete it is that of the right entry.
TargetSought == pc = "remove_ascend" /\ r.tag = "LeafUnderSize" => IsSought(Target)

\* No call is left over between calls.
CallIdle == pc = "idle" => call = NoCall

\* A descent by index is at the node of that index, unless that is past the end.
Aimed(R) ==
    pc = "get_ref_by_augmentation" =>
        /\ call.i = call.query + Cardinality(KeysBefore(R[node]))
        /\ node = root \/ call.query < Cardinality(Under(R[node]))

\* What every step keeps, but for a step of the descent by index.
Kept == /\ SizeRight' /\ TargetSought' /\ CallIdle'
        /\ pc' # "get_ref_by_augmentation"

\* A step of the ordered map, or none.
MapStep == [Map!MapNext]_(Map!mapVars)

\* A step of the tree that the map does not see.
LEMMA Stutters ==
  ASSUME Stored' = Stored, UNCHANGED <<len, ret, Pending>>
  PROVE  MapStep
BY KeepIs DEF MapStep, Map!mapVars

\* A pair put for a new key adds one to the number of entries,
LEMMA CountPut ==
  ASSUME NEW h, Good(h), NEW T, NEW R, Routed(T, R), NEW k, NEW v,
         Stored' = WithPair(Stored, <<k, v>>)
  PROVE  /\ Cardinality(StoredKeys) \in Nat
         /\ k \in StoredKeys => Cardinality(StoredKeys') = Cardinality(StoredKeys)
         /\ k \notin StoredKeys => Cardinality(StoredKeys') = Cardinality(StoredKeys) + 1
<1>1. StoredKeys' = StoredKeys \cup {k} /\ IsFiniteSet(StoredKeys)
  BY PutIs, StoredFinite
<1>2. Cardinality(StoredKeys) \in Nat
  BY <1>1, FS_CardinalityType
<1>3. k \in StoredKeys => StoredKeys \cup {k} = StoredKeys
  OBVIOUS
<1>4. k \notin StoredKeys => Cardinality(StoredKeys \cup {k}) = Cardinality(StoredKeys) + 1
  BY <1>1, FS_AddElement
<1> QED
  BY <1>1, <1>2, <1>3, <1>4

\* and a pair dropped takes one away.
LEMMA CountDrop ==
  ASSUME NEW h, Good(h), NEW T, NEW R, Routed(T, R), NEW e \in Stored, Stored' = Stored \ {e}
  PROVE  /\ Cardinality(StoredKeys) \in Nat
         /\ Cardinality(StoredKeys') = Cardinality(StoredKeys) - 1
<1>1. StoredKeys' = StoredKeys \ {e[1]} /\ IsFiniteSet(StoredKeys) /\ e[1] \in StoredKeys
  BY DropIs, StoredFinite
<1>2. Cardinality(StoredKeys) \in Nat
  BY <1>1, FS_CardinalityType
<1>3. Cardinality(StoredKeys \ {e[1]}) = Cardinality(StoredKeys) - 1
  BY <1>1, FS_RemoveElement
<1> QED
  BY <1>1, <1>2, <1>3

\* What the call in progress is, by the loop it is in.
LEMMA CallsAre ==
  ASSUME NEW h, Good(h)
  PROVE  /\ pc = "insert_inner" => call \in [op : {"insert"}, k : Key, v : Value]
         /\ pc = "key_to_ref" => call \in [op : {"remove"}, k : Key]
         /\ pc = "get_ref_by_augmentation" =>
                \/ call \in [op : {"remove_by_augmentation"}, i : Nat, query : Nat]
                \/ call \in [op : {"get_mut_by_augmentation"}, i : Nat, query : Nat, v : Value]
         /\ pc = "remove_ascend" =>
                \/ call \in [op : {"remove"}, k : Key]
                \/ call \in [op : {"remove_by_augmentation"}, i : Nat, query : Nat]
         /\ pc = "find_descend" =>
                \/ call \in [op : {"get"}, k : Key]
                \/ call \in [op : {"get_mut"}, k : Key, v : Value]
         /\ pc = "insert_ascend" => r.tag \in {"Inserted", "Updated", "Split"}
         /\ pc = "remove_ascend" => r.tag \in {"Done", "InnerUnderSize", "LeafUnderSize"}
         /\ len \in Int
<1>1. /\ call \in Calls /\ Locals(h) /\ len \in Int
  BY DEF Good, Scalars
<1>2. /\ call.op = "insert" => call \in [op : {"insert"}, k : Key, v : Value]
      /\ call.op = "get_mut" => call \in [op : {"get_mut"}, k : Key, v : Value]
      /\ call.op = "get" => call \in [op : {"get"}, k : Key]
      /\ call.op = "remove" => call \in [op : {"remove"}, k : Key]
  BY <1>1 DEF Calls, NoCall
<1>3. /\ call.op = "remove_by_augmentation" =>
             call \in [op : {"remove_by_augmentation"}, i : Nat, query : Nat]
      /\ call.op = "get_mut_by_augmentation" =>
             call \in [op : {"get_mut_by_augmentation"}, i : Nat, query : Nat, v : Value]
  BY <1>1 DEF Calls, NoCall
<1>4. pc = "insert_ascend" => r.tag \in {"Inserted", "Updated", "Split"}
  BY <1>1 DEF Locals, InsertResults, Inserted
<1>5. pc = "remove_ascend" => r.tag \in {"Done", "InnerUnderSize", "LeafUnderSize"}
  BY <1>1 DEF Locals, RemoveResults
<1> QED
  BY <1>1, <1>2, <1>3, <1>4, <1>5 DEF Locals

-----------------------------------------------------------------------------
(* insert                                                                  *)

\* The step that changes the leaves of an insertion.
LEMMA InsertionCommits ==
  ASSUME NEW h, Good(h), NEW T, NEW R, Routed(T, R), SizeRight, pc = "insert_inner",
         Puts(call.k, call.v), UNCHANGED <<len, ret, call>>
  PROVE  MapStep /\ Kept
<1>1. /\ call.op = "insert" /\ Pending = call /\ IsAsking /\ LenToBe = len /\ len \in Int
      /\ r'.tag \in {"Inserted", "Updated", "Split"} /\ pc' = "insert_ascend"
  BY CallsAre, PendingIs, RequestIs DEF IsAsking, LenToBe, Puts
<1>2. Stored' = WithPair(Stored, <<call.k, call.v>>)
  BY DEF Puts
<1>3. Contents' = Map!Effect(Pending) /\ Map!Answer(Pending) = Map!Lookup(call.k)
  <2>1. Contents' = Map!Put(call.k, call.v)
    BY <1>2, PutIs
  <2>2. Map!Effect(call) = Map!Put(call.k, call.v)
    BY <1>1, EffectIs
  <2>3. Map!Answer(call) = Map!Lookup(call.k)
    BY <1>1, AnswerIs
  <2> QED
    BY <1>1, <2>1, <2>2, <2>3
<1>4. Pending' = Took(IF r'.tag = "Updated" THEN r'.v ELSE None)
  BY <1>1 DEF Pending
<1>5. CASE r'.tag = "Updated" /\ <<call.k, r'.v>> \in Stored
  <2>1. call.k \in StoredKeys /\ Map!Lookup(call.k) = r'.v
    <3>1. /\ <<call.k, r'.v>>[1] \in StoredKeys
          /\ Contents[<<call.k, r'.v>>[1]] = <<call.k, r'.v>>[2]
      BY <1>5, MapIs
    <3> QED
      BY <3>1, MapIs
  <2>2. Pending' = Map!Took(Map!Answer(Pending))
    BY <1>3, <1>4, <1>5, <2>1 DEF Took, Map!Took
  <2>3. Map!Commit
    BY <1>1, <1>3, <2>2 DEF Map!Commit
  <2>4. Cardinality(StoredKeys') = len'
    BY <1>1, <1>2, <2>1, CountPut DEF SizeRight
  <2>5. LenToBe' = len'
    BY <1>1, <1>5 DEF LenToBe
  <2> QED
    BY <1>1, <2>3, <2>4, <2>5 DEF MapStep, Map!MapNext, Kept, SizeRight, TargetSought, CallIdle
<1>6. CASE r'.tag \in {"Inserted", "Split"} /\ call.k \notin StoredKeys
  <2>1. Map!Lookup(call.k) = None
    BY <1>6, MapIs
  <2>2. Pending' = Map!Took(Map!Answer(Pending))
    BY <1>3, <1>4, <1>6, <2>1 DEF Took, Map!Took
  <2>3. Map!Commit
    BY <1>1, <1>3, <2>2 DEF Map!Commit
  <2>4. Cardinality(StoredKeys') = len' + 1
    BY <1>1, <1>2, <1>6, CountPut DEF SizeRight
  <2>5. LenToBe' = len' + 1
    BY <1>1, <1>6 DEF LenToBe
  <2> QED
    BY <1>1, <2>3, <2>4, <2>5 DEF MapStep, Map!MapNext, Kept, SizeRight, TargetSought, CallIdle
<1> QED
  BY <1>5, <1>6 DEF Puts

\* insert takes effect when it changes the leaf.
LEMMA InsertLeafMaps ==
  ASSUME NEW h, Good(h), NEW T, NEW R, Routed(T, R), SizeRight,
         InsertLeafUpdate \/ InsertLeafInsert \/ InsertLeafSplit
  PROVE  MapStep /\ Kept
<1>1. pc = "insert_inner" /\ UNCHANGED <<len, ret, call>>
  BY DEF InsertLeafUpdate, InsertLeafInsert, InsertLeafSplit, AtLeaf
<1>2. Puts(call.k, call.v)
  BY InsertLeafUpdatePuts, InsertLeafInsertPuts, InsertLeafSplitPuts
<1> QED
  BY <1>1, <1>2, InsertionCommits

\* A step that leaves the leaves, the loop and what the call is owed as they are.
LEMMA QuietStepMaps ==
  ASSUME NEW h, Good(h), SizeRight, TargetSought, CallIdle,
         UNCHANGED <<leaves, takenLeaves, pc, call, len, ret>>,
         pc # "get_ref_by_augmentation",
         \/ pc \notin {"insert_ascend", "remove_ascend"}
         \/ /\ pc = "insert_ascend"
            /\ \/ r'.tag = "Updated" /\ r.tag = "Updated" /\ r'.v = r.v
               \/ r.tag # "Updated" /\ r.tag \in {"Inserted", "Split"}
                  /\ r'.tag \in {"Inserted", "Split"}
         \/ /\ pc = "remove_ascend" /\ r.tag # "LeafUnderSize" /\ r'.tag # "LeafUnderSize"
            /\ r'.kv = r.kv
  PROVE  MapStep /\ Kept
<1>1. Stored' = Stored /\ StoredKeys' = StoredKeys
  BY StoredKept, KeepIs
<1>2. Pending' = Pending
  <2>1. Request' = Request
    BY DEF Request
  <2>2. CASE pc \notin {"insert_ascend", "remove_ascend"}
    BY <2>1, <2>2 DEF Pending
  <2>3. CASE pc = "insert_ascend"
    BY <2>3 DEF Pending
  <2>4. CASE pc = "remove_ascend"
    BY <2>4 DEF Pending, Removed
  <2> QED
    BY <2>2, <2>3, <2>4
<1>3. MapStep
  BY <1>1, <1>2, Stutters
<1>4. LenToBe' = LenToBe
  BY DEF LenToBe
<1>5. SizeRight' /\ CallIdle'
  BY <1>1, <1>4 DEF SizeRight, CallIdle
<1>6. TargetSought'
  BY DEF TargetSought
<1> QED
  BY <1>3, <1>5, <1>6 DEF Kept

\* The descents for a key, and the ascents once the leaves have changed.
LEMMA QuietStepsMap ==
  ASSUME NEW h, Good(h), SizeRight, TargetSought, CallIdle,
         \/ InsertDescend \/ KeyToRefDescend \/ FindDescend
         \/ InsertAscendSlot \/ InsertAscendSplit \/ InsertAscendInserted \/ InsertAscendUpdated
         \/ RemoveAscendDone \/ RotateRightInner \/ RotateLeftInner \/ MergeInner
  PROVE  MapStep /\ Kept
<1>1. CASE InsertDescend \/ KeyToRefDescend \/ FindDescend
  <2>1. /\ UNCHANGED <<leaves, takenLeaves, pc, call, len, ret>>
        /\ pc \in {"insert_inner", "key_to_ref", "find_descend"}
    BY <1>1 DEF InsertDescend, KeyToRefDescend, FindDescend, AtInner, tree, store, taken
  <2> QED
    BY <2>1, QuietStepMaps
<1>2. CASE InsertAscendSlot \/ InsertAscendSplit \/ InsertAscendInserted
  <2>1. /\ UNCHANGED <<leaves, takenLeaves, pc, call, len, ret>> /\ pc = "insert_ascend"
        /\ r.tag \in {"Inserted", "Split"} /\ r'.tag \in {"Inserted", "Split"}
    BY <1>2 DEF InsertAscendSlot, InsertAscendSplit, InsertAscendInserted, Ascending, tree, store,
                taken, Inserted, Split
  <2> QED
    BY <2>1, QuietStepMaps
<1>3. CASE InsertAscendUpdated
  <2>1. /\ UNCHANGED <<leaves, takenLeaves, pc, call, len, ret, r>> /\ pc = "insert_ascend"
        /\ r.tag = "Updated"
    BY <1>3 DEF InsertAscendUpdated, Ascending, tree, store, taken
  <2> QED
    BY <2>1, QuietStepMaps
<1>4. CASE RemoveAscendDone \/ RotateRightInner \/ RotateLeftInner \/ MergeInner
  <2>1. /\ UNCHANGED <<leaves, takenLeaves, pc, call, len, ret>> /\ pc = "remove_ascend"
        /\ r.tag \in {"Done", "InnerUnderSize"}
        /\ r'.tag \in {"Done", "InnerUnderSize"} /\ r'.kv = r.kv
    <3>1. CASE RemoveAscendDone
      BY <3>1 DEF RemoveAscendDone, Ascending, taken
    <3>2. CASE RotateRightInner \/ RotateLeftInner
      <4>1. /\ UNCHANGED <<leaves, takenLeaves, pc, call, len, ret>>
            /\ Ascending("remove_ascend", "InnerUnderSize") /\ r' = Done(r.kv)
        <5>1. CASE RotateRightInner
          BY <5>1 DEF RotateRightInner, taken
        <5>2. CASE RotateLeftInner
          BY <5>2 DEF RotateLeftInner, taken
        <5> QED
          BY <3>2, <5>1, <5>2
      <4> QED
        BY <4>1 DEF Ascending, Done
    <3>3. CASE MergeInner
      <4>1. PICK p : r' = AfterMerge(p, r.kv)
        BY <3>3 DEF MergeInner
      <4>2. r' = InnerUnderSized(r.kv) \/ r' = Done(r.kv)
        BY <4>1 DEF AfterMerge
      <4>3. r'.tag \in {"Done", "InnerUnderSize"} /\ r'.kv = r.kv
        BY <4>2 DEF InnerUnderSized, Done
      <4>4. UNCHANGED <<leaves, takenLeaves, pc, call, len, ret>> /\ pc = "remove_ascend"
            /\ r.tag = "InnerUnderSize"
        BY <3>3 DEF MergeInner, Ascending
      <4> QED
        BY <4>3, <4>4
    <3> QED
      BY <1>4, <3>1, <3>2, <3>3
  <2> QED
    BY <2>1, QuietStepMaps
<1> QED
  BY <1>1, <1>2, <1>3, <1>4

-----------------------------------------------------------------------------
(* remove and remove_by_augmentation                                       *)

\* A call that removes, in a loop before or after its effect.
IsRemoval == \/ call \in [op : {"remove"}, k : Key]
             \/ call \in [op : {"remove_by_augmentation"}, i : Nat, query : Nat]

\* What the map says to the removal of the entry that was sought.
LEMMA RemovalIs ==
  ASSUME NEW h, Good(h), NEW T, NEW R, Routed(T, R), IsRemoval,
         NEW e \in Stored, IsSought(e), Stored' = Stored \ {e}
  PROVE  /\ Request.op \notin {"none", "took"}
         /\ Contents' = Map!Effect(Request)
         /\ Map!Answer(Request) = Removed(e)
<1>1. Contents' = Map!Without({e[1]}) /\ e[1] \in StoredKeys /\ Contents[e[1]] = e[2]
  BY DropIs, MapIs
<1>2. e = <<e[1], e[2]>>
  <2>1. e \in Pair
    BY StoredRouted
  <2> QED
    BY <2>1 DEF Pair
<1>3. CASE call \in [op : {"remove"}, k : Key]
  <2>1. call.op = "remove" /\ Request = call /\ e[1] = call.k
    BY <1>3, RequestIs DEF IsSought
  <2>2. Map!Effect(call) = Map!Without({call.k}) /\ Map!Answer(call) = Map!Lookup(call.k)
    BY <2>1, EffectIs, AnswerIs
  <2>3. Map!Lookup(call.k) = e[2]
    BY <1>1, <2>1, MapIs
  <2> QED
    BY <1>1, <2>1, <2>2, <2>3 DEF Removed
<1>4. CASE call \in [op : {"remove_by_augmentation"}, i : Nat, query : Nat]
  <2>1. /\ call.op = "remove_by_augmentation" /\ Request = [op |-> call.op, i |-> call.i]
        /\ Cardinality({k \in StoredKeys : k < e[1]}) = call.i
    BY <1>4, RequestIs DEF IsSought
  <2>2. Request.op = "remove_by_augmentation" /\ Request.i = call.i
    BY <2>1
  <2>3. Map!AtIndex(call.i) = {e[1]}
    <3>1. IsFiniteSet(StoredKeys) /\ StoredKeys \subseteq Int
      BY StoredFinite
    <3>2. IndexedIn(StoredKeys, Cardinality({k \in StoredKeys : k < e[1]})) = {e[1]}
      BY <1>1, <3>1, IndexOnce
    <3> QED
      BY <2>1, <3>2, MapIs
  <2>4. Map!Effect(Request) = Map!Without({e[1]})
    <3>1. Map!Effect(Request) = Map!Without(Map!AtIndex(Request.i))
      BY ONLY <2>2, EffectIs
    <3> QED
      BY <2>2, <2>3, <3>1
  <2>5. Map!Answer(Request) = <<e[1], Contents[e[1]]>>
    BY <2>2, <2>3, AnswerIs
  <2> QED
    BY <1>1, <1>2, <2>1, <2>2, <2>4, <2>5 DEF Removed
<1> QED
  BY <1>3, <1>4 DEF IsRemoval

\* The step of a removal that changes the leaves, with the return still to come.
LEMMA DropCommits ==
  ASSUME NEW h, Good(h), NEW T, NEW R, Routed(T, R), SizeRight, IsRemoval,
         pc \in {"key_to_ref", "get_ref_by_augmentation", "remove_ascend"},
         pc = "remove_ascend" => r.tag = "LeafUnderSize",
         NEW e, Drops(e), IsSought(e), UNCHANGED <<len, ret, call>>
  PROVE  MapStep /\ Kept
<1>1. /\ Pending = Request /\ LenToBe = len /\ len \in Int /\ pc' = "remove_ascend"
      /\ r'.tag # "LeafUnderSize" /\ e \in Stored /\ Stored' = Stored \ {e}
  BY CallsAre, PendingIs DEF IsAsking, LenToBe, Drops
<1>2. /\ Request.op \notin {"none", "took"}
      /\ Contents' = Map!Effect(Request)
      /\ Map!Answer(Request) = Removed(e)
  BY <1>1, RemovalIs
<1>3. Pending' = Map!Took(Removed(e))
  BY <1>1 DEF Pending, Drops, Took, Map!Took, Removed
<1>4. Map!Commit
  BY <1>1, <1>2, <1>3 DEF Map!Commit
<1>5. Cardinality(StoredKeys') = len' - 1
  BY <1>1, CountDrop DEF SizeRight
<1>6. LenToBe' = len' - 1
  BY <1>1 DEF LenToBe
<1>7. SizeRight'
  BY <1>1, <1>5, <1>6 DEF SizeRight
<1> QED
  BY <1>1, <1>4, <1>7 DEF MapStep, Map!MapNext, Kept, TargetSought, CallIdle

\* A removal takes effect in the leaf that can spare the entry; otherwise it notes which one.
LEMMA RemoveInLeafMaps ==
  ASSUME NEW h, Good(h), NEW T, NEW R, Routed(T, R), SizeRight, Aimed(R), RemoveInLeaf
  PROVE  MapStep /\ Kept
<1>0. PICK l \in LeafAlive : \E s \in 1 .. Len(leaves[l].data) :
          /\ node = Leaf(l) /\ Current = Leaf(l) /\ Current' = Leaf(l)
          /\ pc' = "remove_ascend" /\ call' = call
          /\ \/ pc = "key_to_ref" /\ call.k \in R[Leaf(l)] /\ leaves[l].data[s][1] = call.k
             \/ /\ pc = "get_ref_by_augmentation" /\ call.op = "remove_by_augmentation"
                /\ call.query = s - 1
          /\ \/ Drops(leaves[l].data[s])
             \/ /\ UNCHANGED <<leaves, takenLeaves>>
                /\ r' = LeafUnderSized(s)
  BY RemoveInLeafDoes
<1>1. PICK s \in 1 .. Len(leaves[l].data) :
          /\ node = Leaf(l) /\ Current = Leaf(l) /\ Current' = Leaf(l)
          /\ pc' = "remove_ascend" /\ call' = call
          /\ \/ pc = "key_to_ref" /\ call.k \in R[Leaf(l)] /\ leaves[l].data[s][1] = call.k
             \/ /\ pc = "get_ref_by_augmentation" /\ call.op = "remove_by_augmentation"
                /\ call.query = s - 1
          /\ \/ Drops(leaves[l].data[s])
             \/ /\ UNCHANGED <<leaves, takenLeaves>>
                /\ r' = LeafUnderSized(s)
  BY <1>0
<1>2. UNCHANGED <<len, ret>>
  BY DEF RemoveInLeaf
<1>3. PICK e : e = leaves[l].data[s]
  OBVIOUS
<1>4. IsRemoval /\ IsSought(e) /\ pc \in {"key_to_ref", "get_ref_by_augmentation"}
  <2>1. CASE pc = "key_to_ref"
    BY <1>1, <1>3, <2>1, CallsAre DEF IsRemoval, IsSought
  <2>2. CASE pc = "get_ref_by_augmentation" /\ call.op = "remove_by_augmentation"
             /\ call.query = s - 1
    <3>1. call.i = call.query + Cardinality(KeysBefore(R[Leaf(l)]))
      BY <1>1, <2>2 DEF Aimed
    <3>2. Cardinality({k \in StoredKeys : k < e[1]}) = Cardinality(KeysBefore(R[Leaf(l)])) + s - 1
      BY <1>3, IndexInLeaf
    <3>3. Cardinality(KeysBefore(R[Leaf(l)])) \in Nat
      <4>1. IsFiniteSet(StoredKeys)
        BY StoredFinite
      <4>2. IsFiniteSet(KeysBefore(R[Leaf(l)]))
        BY <4>1, FS_Subset DEF KeysBefore
      <4> QED
        BY <4>2, FS_CardinalityType
    <3>4. Cardinality({k \in StoredKeys : k < e[1]}) = call.i
      BY <2>2, <3>1, <3>2, <3>3
    <3> QED
      BY <2>2, <3>4, CallsAre DEF IsRemoval, IsSought
  <2> QED
    BY <1>1, <2>1, <2>2
<1>5. CASE Drops(e)
  BY <1>1, <1>2, <1>4, <1>5, DropCommits
<1>6. CASE UNCHANGED <<leaves, takenLeaves>> /\ r' = LeafUnderSized(s)
  <2>1. Stored' = Stored /\ StoredKeys' = StoredKeys
    BY <1>6, StoredKept, KeepIs
  <2>2. r'.tag = "LeafUnderSize" /\ r'.slot = s
    BY <1>6 DEF LeafUnderSized
  <2>3. Pending' = Pending
    BY <1>1, <1>4, <2>2 DEF Pending, Request
  <2>4. LenToBe = len /\ LenToBe' = len'
    BY <1>1, <1>4, <2>2 DEF LenToBe
  <2>5. SizeRight'
    BY <1>2, <2>1, <2>4 DEF SizeRight
  <2>6. Target' = e
    BY <1>1, <1>3, <1>6, <2>2 DEF Target, Leaf
  <2>7. IsSought(e)'
    BY <1>1, <1>4, <2>1 DEF IsSought
  <2>8. TargetSought'
    BY <2>6, <2>7 DEF TargetSought, IsSought
  <2> QED
    BY <1>1, <1>2, <2>1, <2>3, <2>5, <2>8, Stutters DEF Kept, CallIdle
<1> QED
  BY <1>1, <1>3, <1>5, <1>6

\* The steps that rebalance two leaves, one of them short.
LEMMA RebalanceMaps ==
  ASSUME NEW h, Good(h), NEW T, NEW R, Routed(T, R), SizeRight, TargetSought,
         RotateRightLeaf \/ RotateLeftLeaf \/ MergeLeafLeft \/ MergeLeafRight
  PROVE  MapStep /\ Kept
<1>1. pc = "remove_ascend" /\ r.tag = "LeafUnderSize" /\ UNCHANGED <<len, ret, call>>
  BY DEF RotateRightLeaf, RotateLeftLeaf, MergeLeafLeft, MergeLeafRight, Ascending
<1>2. Drops(Target)
  BY RotateRightLeafDrops, RotateLeftLeafDrops, MergeLeafDrops
<1>3. IsRemoval /\ IsSought(Target)
  BY <1>1, CallsAre DEF IsRemoval, TargetSought
<1> QED
  BY <1>1, <1>2, <1>3, DropCommits

-----------------------------------------------------------------------------
(* The returns                                                             *)

\* The keys of the map after a step.
LEMMA DomainNext == DOMAIN Contents' = StoredKeys'
BY ContentsNext DEF DictOf, StoredKeys, FirstOf

\* A function is the function of its domain and values.
LEMMA ContentsSame ==
  ASSUME NEW h, Good(h), NEW T, NEW R, Routed(T, R)
  PROVE  /\ [x \in StoredKeys |-> Contents[x]] = Contents
         /\ Map!Without({}) = Contents
         /\ \A k : k \notin StoredKeys => Map!Without({k}) = Contents
<1>1. Map!Keys = StoredKeys
  BY MapIs
<1>2. [x \in StoredKeys |-> Contents[x]] = Contents
  BY ContentsIs DEF DictOf, StoredKeys, FirstOf
<1>3. StoredKeys \ {} = StoredKeys /\ \A k : k \notin StoredKeys => StoredKeys \ {k} = StoredKeys
  OBVIOUS
<1>4. /\ Map!Without({}) = [x \in StoredKeys \ {} |-> Contents[x]]
      /\ \A k : Map!Without({k}) = [x \in StoredKeys \ {k} |-> Contents[x]]
  BY <1>1 DEF Map!Without
<1> QED
  BY <1>2, <1>3, <1>4

\* A call returns x, with len brought up to date.
LEMMA ReplyIs ==
  ASSUME NEW x, Return(x), len' = Cardinality(StoredKeys')
  PROVE  Map!Reply(x) /\ Kept
<1>1. pc' = "idle" /\ call' = NoCall /\ ret' = x
  BY DEF Return
<1>2. Pending' = NoCall
  BY <1>1 DEF Pending, Request, NoCall
<1>3. len' = Map!Cardinality(DOMAIN Contents')
  BY DomainNext, SameCardinality
<1>4. Map!Reply(x)
  BY <1>1, <1>2, <1>3 DEF Map!Reply, Map!NoRequest, NoCall
<1>5. LenToBe' = len'
  BY <1>1 DEF LenToBe
<1> QED
  BY <1>1, <1>4, <1>5 DEF Kept, SizeRight, TargetSought, CallIdle

\* A call that has had its effect returns.
LEMMA FinishMaps ==
  ASSUME UNCHANGED <<leaves, takenLeaves>>, NEW x, Pending = Took(x), Return(x),
         len' = Cardinality(StoredKeys)
  PROVE  MapStep /\ Kept
<1>1. Stored' = Stored /\ StoredKeys' = StoredKeys /\ Contents' = Contents
  BY StoredKept, KeepIs
<1>2. Map!Reply(x) /\ Kept
  BY <1>1, ReplyIs
<1>3. Pending.op = "took" /\ Pending.answer = x
  BY DEF Took
<1>4. Map!Finish
  BY <1>1, <1>2, <1>3 DEF Map!Finish
<1> QED
  BY <1>2, <1>4 DEF MapStep, Map!MapNext

\* A call has its effect, and returns at once.
LEMMA CommitFinishMaps ==
  ASSUME Pending.op \notin {"none", "took"}, Contents' = Map!Effect(Pending),
         Return(Map!Answer(Pending)), len' = Cardinality(StoredKeys')
  PROVE  MapStep /\ Kept
<1>1. Map!Reply(Map!Answer(Pending)) /\ Kept
  BY ReplyIs
<1>2. Map!CommitFinish
  BY <1>1 DEF Map!CommitFinish
<1> QED
  BY <1>1, <1>2 DEF MapStep, Map!MapNext

\* A call that is no step of a loop.
LEMMA AtOnceMaps ==
  ASSUME pc = "idle", CallIdle, NEW c,
         \/ \E k \in Key : c = [op |-> "get", k |-> k]
         \/ \E k \in Key, v \in Value : c = [op |-> "get_mut", k |-> k, v |-> v]
         \/ c = [op |-> "clear"],
         Contents' = Map!Effect(c), Return(Map!Answer(c)), len' = Cardinality(StoredKeys')
  PROVE  MapStep /\ Kept
<1>1. Map!Reply(Map!Answer(c)) /\ Kept
  BY ReplyIs
<1>2. Pending = Map!NoRequest
  BY DEF CallIdle, Pending, Request, NoCall, Map!NoRequest
<1>3. Map!AtOnce(c)
  BY <1>1, <1>2 DEF Map!AtOnce
<1>4. Map!Immediate
  BY <1>3 DEF Map!Immediate
<1> QED
  BY <1>1, <1>4 DEF MapStep, Map!MapNext

\* insert brings len up to date as it returns,
LEMMA InsertReturnMaps ==
  ASSUME NEW h, Good(h), SizeRight,
         InsertReturnInserted \/ InsertReturnUpdated \/ InsertReturnSplit
  PROVE  MapStep /\ Kept
<1>1. CASE InsertReturnInserted \/ InsertReturnSplit
  <2>1. /\ UNCHANGED <<leaves, takenLeaves>> /\ Return(None) /\ len' = len + 1
        /\ pc = "insert_ascend" /\ r.tag \in {"Inserted", "Split"}
    BY <1>1 DEF InsertReturnInserted, InsertReturnSplit, AtRoot, store, taken
  <2>2. Pending = Took(None) /\ len' = Cardinality(StoredKeys)
    BY <2>1 DEF Pending, SizeRight, LenToBe
  <2> QED
    BY <2>1, <2>2, FinishMaps
<1>2. CASE InsertReturnUpdated
  <2>1. /\ UNCHANGED <<leaves, takenLeaves>> /\ Return(r.v) /\ len' = len
        /\ pc = "insert_ascend" /\ r.tag = "Updated"
    BY <1>2 DEF InsertReturnUpdated, AtRoot, tree, store, taken
  <2>2. Pending = Took(r.v) /\ len' = Cardinality(StoredKeys)
    BY <2>1, CallsAre DEF Pending, SizeRight, LenToBe
  <2> QED
    BY <2>1, <2>2, FinishMaps
<1> QED
  BY <1>1, <1>2

\* and so does a removal.
LEMMA RemoveReturnMaps ==
  ASSUME NEW h, Good(h), SizeRight, RemoveReturnDone \/ RemoveReturnInnerUnderSize
  PROVE  MapStep /\ Kept
<1>1. /\ UNCHANGED <<leaves, takenLeaves>> /\ Return(Removed(r.kv)) /\ len' = len - 1
      /\ pc = "remove_ascend" /\ r.tag # "LeafUnderSize"
  BY DEF RemoveReturnDone, RemoveReturnInnerUnderSize, AtRoot, store, taken
<1>2. Pending = Took(Removed(r.kv)) /\ len' = Cardinality(StoredKeys)
  BY <1>1, CallsAre DEF Pending, SizeRight, LenToBe
<1> QED
  BY <1>1, <1>2, FinishMaps

\* A root that is a leaf has no parent to delete for it: effect and return are one step.
LEMMA RemoveReturnLeafMaps ==
  ASSUME NEW h, Good(h), NEW T, NEW R, Routed(T, R), SizeRight, TargetSought,
         RemoveReturnLeafUnderSize
  PROVE  MapStep /\ Kept
<1>1. /\ pc = "remove_ascend" /\ r.tag = "LeafUnderSize" /\ len' = len - 1
      /\ Return(Removed(leaves[root.id].data[r.slot]))
  BY DEF RemoveReturnLeafUnderSize, AtRoot
<1>2. /\ Target \in Stored /\ Stored' = Stored \ {Target}
      /\ Target = leaves[root.id].data[r.slot]
  BY RemoveReturnLeafDoes DEF Target
<1>3. IsRemoval /\ IsSought(Target) /\ Pending = Request /\ LenToBe = len /\ len \in Int
  BY <1>1, CallsAre DEF IsRemoval, TargetSought, Pending, LenToBe
<1>4. /\ Request.op \notin {"none", "took"}
      /\ Contents' = Map!Effect(Request)
      /\ Map!Answer(Request) = Removed(Target)
  BY <1>2, <1>3, RemovalIs
<1>5. len' = Cardinality(StoredKeys')
  BY <1>1, <1>2, <1>3, CountDrop DEF SizeRight
<1> QED
  BY <1>1, <1>2, <1>3, <1>4, <1>5, CommitFinishMaps

-----------------------------------------------------------------------------
(* get, get_mut, clear, and the calls that find nothing                    *)

\* A lookup in the leaf that a key is routed to is a lookup in the map.
LEMMA LookupIs ==
  ASSUME NEW h, Good(h), NEW T, NEW R, Routed(T, R), NEW l \in LeafAlive,
         NEW k \in R[Leaf(l)]
  PROVE  ValueOf(leaves[l], k) = Map!Lookup(k)
BY ValueOfIs, MapIs, ContentsIs

\* get_mut, and what its caller writes back.
LEMMA WriteBackIs ==
  ASSUME NEW h, Good(h), NEW T, NEW R, Routed(T, R), NEW l \in LeafAlive,
         NEW k \in R[Leaf(l)], NEW v \in Value, WriteBack(l, k, v), takenLeaves' = takenLeaves
  PROVE  /\ Contents' = IF k \in Map!Keys THEN Map!Put(k, v) ELSE Contents
         /\ Cardinality(StoredKeys') = Cardinality(StoredKeys)
<1>1. Stored' = IF k \in StoredKeys THEN WithPair(Stored, <<k, v>>) ELSE Stored
  BY WriteBackStored
<1>2. CASE k \in StoredKeys
  BY <1>1, <1>2, PutIs, CountPut, MapIs
<1>3. CASE k \notin StoredKeys
  BY <1>1, <1>3, KeepIs, MapIs
<1> QED
  BY <1>2, <1>3

\* remove of a key that is not there.
LEMMA KeyToRefMissingMaps ==
  ASSUME NEW h, Good(h), NEW T, NEW R, Routed(T, R), SizeRight, KeyToRefMissing
  PROVE  MapStep /\ Kept
<1>1. /\ pc = "key_to_ref" /\ node.kind = "leaf" /\ ~HasKey(leaves[node.id], call.k)
      /\ Return(None) /\ UNCHANGED <<leaves, takenLeaves, len>>
  BY DEF KeyToRefMissing, AtLeaf, tree, store, taken
<1>2. /\ call.op = "remove" /\ Pending = call /\ LenToBe = len
  BY <1>1, CallsAre DEF Pending, Request, LenToBe
<1>3. call.k \notin StoredKeys
  <2>1. node = Leaf(node.id) /\ node.id \in LeafAlive /\ call.k \in R[node]
    BY <1>1, AtLeafRouted DEF Descending
  <2> QED
    BY <1>1, <2>1, KeyInLeaf
<1>4. Stored' = Stored /\ StoredKeys' = StoredKeys /\ Contents' = Contents
  BY <1>1, StoredKept, KeepIs
<1>5. Map!Answer(call) = None /\ Map!Effect(call) = Contents
  BY <1>2, <1>3, AnswerIs, EffectIs, ContentsSame, MapIs
<1>6. len' = Cardinality(StoredKeys')
  BY <1>1, <1>2, <1>4 DEF SizeRight
<1> QED
  BY <1>1, <1>2, <1>4, <1>5, <1>6, CommitFinishMaps

\* get and get_mut at the end of their descent.
LEMMA FindInLeafMaps ==
  ASSUME NEW h, Good(h), NEW T, NEW R, Routed(T, R), SizeRight, FindInLeaf
  PROVE  MapStep /\ Kept
<1>1. /\ pc = "find_descend" /\ node.kind = "leaf"
      /\ IF call.op = "get_mut" THEN WriteBack(node.id, call.k, call.v) ELSE UNCHANGED leaves
      /\ Return(ValueOf(leaves[node.id], call.k)) /\ UNCHANGED <<takenLeaves, len>>
  BY DEF FindInLeaf, AtLeaf, taken
<1>2. PICK l \in LeafAlive : node = Leaf(l) /\ l = node.id /\ call.k \in R[Leaf(l)]
  BY <1>1, AtLeafRouted
<1>3. /\ call.op \in {"get", "get_mut"} /\ Pending = call /\ LenToBe = len
      /\ call.op = "get_mut" => call.v \in Value
  BY <1>1, CallsAre DEF Pending, Request, LenToBe
<1>4. Return(Map!Answer(call))
  <2>1. Map!Answer(call) = Map!Lookup(call.k)
    BY <1>3, AnswerIs
  <2> QED
    BY <1>1, <1>2, <2>1, LookupIs
<1>5. Contents' = Map!Effect(call) /\ Cardinality(StoredKeys') = Cardinality(StoredKeys)
  <2>1. CASE call.op = "get_mut"
    BY <1>1, <1>2, <1>3, <2>1, WriteBackIs, EffectIs
  <2>2. CASE call.op = "get"
    <3>1. Map!Effect(call) = Contents
      BY <2>2, EffectIs
    <3> QED
      BY <1>1, <2>2, <3>1, StoredKept, KeepIs
  <2> QED
    BY <1>3, <2>1, <2>2
<1>6. len' = Cardinality(StoredKeys')
  BY <1>1, <1>3, <1>5 DEF SizeRight
<1> QED
  BY <1>3, <1>4, <1>5, <1>6, CommitFinishMaps

\* The cached leaf is the one a descent would find.
LEMMA CachedLeaf ==
  ASSUME NEW h, Good(h), NEW T, NEW R, Routed(T, R), pc = "idle", NEW k \in Key, CacheHit(k)
  PROVE  cached \in LeafAlive /\ k \in R[Leaf(cached)]
<1>1. LeafFor(k) = cached
  BY RoutedCache DEF CacheSound
<1> QED
  BY <1>1, LeafForRouted DEF IsSplit

\* get answered from the cached leaf,
LEMMA GetCachedMaps ==
  ASSUME NEW h, Good(h), NEW T, NEW R, Routed(T, R), SizeRight, CallIdle,
         NEW k \in Key, GetCached(k)
  PROVE  MapStep /\ Kept
<1> DEFINE c == [op |-> "get", k |-> k]
<1>1. /\ pc = "idle" /\ CacheHit(k) /\ Return(ValueOf(leaves[cached], k))
      /\ UNCHANGED <<leaves, takenLeaves, len>>
  BY DEF GetCached, tree, store, taken
<1>2. ValueOf(leaves[cached], k) = Map!Lookup(k)
  BY <1>1, CachedLeaf, LookupIs
<1>3. Map!Answer(c) = Map!Lookup(k) /\ Map!Effect(c) = Contents
  <2>1. c.op = "get" /\ c.k = k
    OBVIOUS
  <2> HIDE DEF c
  <2>2. Map!Answer(c) = Map!Lookup(k)
    BY <2>1, AnswerIs
  <2>3. Map!Effect(c) = Contents
    BY <2>1, EffectIs
  <2> QED
    BY <2>2, <2>3
<1>4. Stored' = Stored /\ StoredKeys' = StoredKeys /\ Contents' = Contents
  BY <1>1, StoredKept, KeepIs
<1>5. len' = Cardinality(StoredKeys')
  BY <1>1, <1>4 DEF SizeRight, LenToBe
<1> QED
  BY <1>1, <1>2, <1>3, <1>4, <1>5, AtOnceMaps

\* and get_mut.
LEMMA GetMutCachedMaps ==
  ASSUME NEW h, Good(h), NEW T, NEW R, Routed(T, R), SizeRight, CallIdle,
         NEW k \in Key, NEW v \in Value, GetMutCached(k, v)
  PROVE  MapStep /\ Kept
<1> DEFINE c == [op |-> "get_mut", k |-> k, v |-> v]
<1>1. /\ pc = "idle" /\ CacheHit(k) /\ Return(ValueOf(leaves[cached], k))
      /\ WriteBack(cached, k, v) /\ UNCHANGED <<takenLeaves, len>>
  BY DEF GetMutCached, taken
<1>2. cached \in LeafAlive /\ k \in R[Leaf(cached)]
  BY <1>1, CachedLeaf
<1>3. ValueOf(leaves[cached], k) = Map!Lookup(k)
  BY <1>2, LookupIs
<1>4. /\ Contents' = IF k \in Map!Keys THEN Map!Put(k, v) ELSE Contents
      /\ Cardinality(StoredKeys') = Cardinality(StoredKeys)
  BY <1>1, <1>2, WriteBackIs
<1>5. Map!Answer(c) = Map!Lookup(k)
  BY AnswerIs
<1>6. Map!Effect(c) = IF k \in Map!Keys THEN Map!Put(k, v) ELSE Contents
  <2>1. c.op = "get_mut" /\ c.k = k /\ c.v = v
    OBVIOUS
  <2> HIDE DEF c
  <2> QED
    BY <2>1, EffectIs
<1>7. len' = Cardinality(StoredKeys')
  BY <1>1, <1>4 DEF SizeRight, LenToBe
<1> QED
  BY <1>1, <1>3, <1>4, <1>5, <1>6, <1>7, AtOnceMaps

\* clear leaves the empty map.
LEMMA ClearMaps ==
  ASSUME NEW h, Good(h), NEW T, NEW R, Routed(T, R), CallIdle, Clear
  PROVE  MapStep /\ Kept
<1> DEFINE c == [op |-> "clear"]
<1>1. /\ pc = "idle" /\ Return(None) /\ len' = 0 /\ leaves' = <<EmptyLeaf>> /\ takenLeaves' = {}
  BY DEF Clear
<1>2. Stored' = {}
  <2>1. \A l \in LeafAlive' : Range(leaves'[l].data) = {}
    BY <1>1 DEF LeafAlive, EmptyLeaf, Range
  <2> QED
    BY <2>1 DEF Stored, PairsIn
<1>3. StoredKeys' = {} /\ len' = Cardinality(StoredKeys')
  BY <1>1, <1>2, FS_EmptySet DEF StoredKeys, FirstOf
<1>4. Contents' = Map!Effect(c)
  <2>1. Contents' = [x \in {} |-> Contents[x]]
    BY <1>2, ContentsNext DEF DictOf
  <2>2. Map!Effect(c) = Map!Without(Map!Keys)
    BY EffectIs
  <2>3. Map!Without(Map!Keys) = [x \in Map!Keys \ Map!Keys |-> Contents[x]]
    BY DEF Map!Without
  <2>4. Map!Keys \ Map!Keys = {}
    OBVIOUS
  <2> QED
    BY <2>1, <2>2, <2>3, <2>4
<1>5. Map!Answer(c) = None
  BY AnswerIs
<1> QED
  BY <1>1, <1>3, <1>4, <1>5, AtOnceMaps

-----------------------------------------------------------------------------
(* The descent by index                                                    *)

\* A descent by index, and what a node of the tree counts.
LEMMA AimedNode ==
  ASSUME NEW h, Good(h), NEW T, NEW R, Routed(T, R), NEW V, InnersFilled(V), Counted(V),
         pc = "get_ref_by_augmentation"
  PROVE  /\ InBoth(T, V, node) /\ node = Current /\ ~IsTelling /\ ~IsSplit
         /\ CountedUnder(R, node)
         /\ call.i \in Nat /\ call.query \in Nat
         /\ IsFiniteSet(KeysBefore(R[node])) /\ Cardinality(KeysBefore(R[node])) \in Nat
<1>1. node = Current /\ ~IsTelling /\ ~IsSplit
  BY DEF Good, Locals, Descending, IsTelling, IsSplit
<1>2. InBoth(T, V, node)
  BY <1>1, CurrentInBoth
<1>3. CountedUnder(R, node)
  BY <1>1, <1>2, CountIsUnder
<1>4. call.i \in Nat /\ call.query \in Nat
  BY CallsAre
<1>5. IsFiniteSet(KeysBefore(R[node]))
  BY StoredFinite, FS_Subset DEF KeysBefore
<1> QED
  BY <1>1, <1>2, <1>3, <1>4, <1>5, FS_CardinalityType

\* One level down, towards the entry of the index.
LEMMA AugmentationDescendMaps ==
  ASSUME NEW h, Good(h), NEW T, NEW R, Routed(T, R), NEW V, InnersFilled(V), Counted(V),
         SizeRight, TargetSought, CallIdle, Aimed(R), AugmentationDescend
  PROVE  MapStep /\ SizeRight' /\ TargetSought' /\ CallIdle' /\ Aimed(R)'
<1> DEFINE at == LocateInInner(call.query, inners[node.id].aug)
           child == inners[node.id].child[at.child]
<1>1. /\ pc = "get_ref_by_augmentation" /\ pc' = pc /\ node.kind = "inner" /\ at.child # 0
      /\ node' = child /\ call' = [call EXCEPT !.query = at.query]
      /\ UNCHANGED <<leaves, takenLeaves, inners, root, len, ret, r>>
  BY DEF AugmentationDescend, AtInner, Push, tree, store, taken
<1>2. Stored' = Stored /\ StoredKeys' = StoredKeys
  BY <1>1, StoredKept, KeepIs
<1>3. call'.op = call.op /\ call'.i = call.i /\ call'.query = at.query
      /\ (call.op = "get_mut_by_augmentation" => call'.v = call.v)
  BY <1>1, CallsAre
<1>4. Pending' = Pending
  <2>1. Request' = Request
    BY <1>1, <1>3, CallsAre DEF Request
  <2> QED
    BY <1>1, <2>1 DEF Pending
<1>5. MapStep
  BY <1>1, <1>2, <1>4, Stutters
<1>6. SizeRight' /\ TargetSought' /\ CallIdle'
  BY <1>1, <1>2 DEF SizeRight, LenToBe, TargetSought, CallIdle
<1>7. Aimed(R)'
  <2>1. /\ InBoth(T, V, node) /\ ~IsTelling /\ call.i \in Nat /\ call.query \in Nat
        /\ Cardinality(KeysBefore(R[node])) \in Nat
    BY <1>1, AimedNode
  <2>2. PICK i : i = node.id
    OBVIOUS
  <2>3. /\ node = Inner(i) /\ i \in T \cap V
        /\ \A c \in DOMAIN inners[i].child : InBoth(T, V, inners[i].child[c])
    BY <1>1, <2>1, <2>2, KidsInBoth
  <2>4. \A c \in DOMAIN inners[i].child : CountedUnder(R, inners[i].child[c])
    BY <2>1, <2>3, CountIsUnder
  <2>5. \A c \in DOMAIN inners[i].child :
           /\ inners[i].aug[c] = Cardinality(Under(R[inners[i].child[c]]))
           /\ Cardinality(KeysBefore(R[inners[i].child[c]]))
                  = Cardinality(KeysBefore(R[Inner(i)])) + SumBefore(inners[i].aug, c)
    BY <2>1, <2>3, <2>4, NodeCounts
  <2>6. inners[i].aug \in Seq(Nat) /\ DOMAIN inners[i].child = 1 .. Len(inners[i].aug)
    <3>1. IsInner(inners[i], Key, NodesAt(Len(leaves), h, h[i] - 1))
      BY <2>3, RangeOf
    <3> QED
      BY <3>1 DEF IsInner
  <2>7. PICK c : c = LocateInInner(call.query, inners[i].aug).child
    OBVIOUS
  <2>8. /\ c \in 1 .. Len(inners[i].aug) /\ SumBefore(inners[i].aug, c) \in Nat
        /\ at.query = call.query - SumBefore(inners[i].aug, c)
        /\ at.query < inners[i].aug[c] /\ child = inners[i].child[c]
    BY <1>1, <2>1, <2>2, <2>6, <2>7, LocateInInnerFinds
  <2>9. call.i = call.query + Cardinality(KeysBefore(R[node]))
    BY <1>1 DEF Aimed
  <2>10. /\ call.i = at.query + Cardinality(KeysBefore(R[child]))
         /\ at.query < Cardinality(Under(R[child]))
    <3> DEFINE s == SumBefore(inners[i].aug, c)
               q == at.query
               n == Cardinality(KeysBefore(R[node]))
               m == Cardinality(KeysBefore(R[child]))
    <3>1. s \in Nat /\ q = call.query - s /\ m = n + s /\ call.i = call.query + n
          /\ call.query \in Nat /\ n \in Nat
      BY <2>1, <2>3, <2>5, <2>6, <2>8, <2>9
    <3>2. q < Cardinality(Under(R[child]))
      BY <2>5, <2>6, <2>8
    <3> HIDE DEF s, q, n, m
    <3>3. call.i = q + m
      BY <3>1
    <3> QED
      BY <3>2, <3>3 DEF q, m
  <2>11. PICK x : x = child
    OBVIOUS
  <2>12. KeysBefore(R[x])' = KeysBefore(R[x]) /\ Under(R[x])' = Under(R[x])
    BY <1>2 DEF KeysBefore, Under
  <2>13. call'.i = call'.query + Cardinality(KeysBefore(R[x]))
         /\ call'.query < Cardinality(Under(R[x]))
    BY <1>3, <2>10, <2>11
  <2>14. node' = x
    BY <1>1, <2>11
  <2> QED
    BY <2>12, <2>13, <2>14 DEF Aimed
<1> QED
  BY <1>5, <1>6, <1>7

\* Every stored key is under the root, and none is before it.
LEMMA RootOfAll ==
  ASSUME NEW h, Good(h), NEW T, NEW R, Routed(T, R), ~IsSplit
  PROVE  R[root] = Key /\ Under(R[root]) = StoredKeys /\ KeysBefore(R[root]) = {}
<1>1. R[root] = Key
  BY KnownIs DEF Routed, InOrder, KeysShared
<1>2. StoredKeys \subseteq Key /\ StoredKeys \subseteq Int
  BY StoredFinite
<1>3. Under(Key) = StoredKeys
  BY <1>2 DEF Under
<1>4. KeysBefore(Key) = {}
  <2> SUFFICES ASSUME NEW k \in StoredKeys, \A s \in Key : k < s PROVE FALSE
    BY DEF KeysBefore
  <2>1. k < k /\ k \in Int
    BY <1>2
  <2> QED
    BY <2>1
<1> QED
  BY <1>1, <1>3, <1>4

\* A descent by index that finds no child, or no slot, asked for too many.
LEMMA MissingIndex ==
  ASSUME NEW h, Good(h), NEW T, NEW R, Routed(T, R), NEW V, InnersFilled(V), Counted(V),
         AugmentationMissing
  PROVE  call.query >= Cardinality(Under(R[node]))
<1>1. pc = "get_ref_by_augmentation"
  BY DEF AugmentationMissing, AtInner, AtLeaf
<1>2. /\ InBoth(T, V, node) /\ ~IsTelling /\ CountedUnder(R, node) /\ call.query \in Nat
  BY <1>1, AimedNode
<1>3. PICK i : i = node.id
  OBVIOUS
<1>4. CASE node.kind = "inner" /\ LocateInInner(call.query, inners[node.id].aug).child = 0
  <2>1. /\ node = Inner(i) /\ i \in T \cap V
        /\ \A c \in DOMAIN inners[i].child : InBoth(T, V, inners[i].child[c])
    BY <1>2, <1>3, <1>4, KidsInBoth
  <2>2. inners[i].aug \in Seq(Nat)
    <3>1. IsInner(inners[i], Key, NodesAt(Len(leaves), h, h[i] - 1))
      BY <2>1, RangeOf
    <3> QED
      BY <3>1 DEF IsInner
  <2>3. Total(inners[i].aug) <= call.query
    BY <1>2, <1>3, <1>4, <2>2, LocateInInnerFinds
  <2>4. Counts(leaves, inners)[node] = FromInner(inners[i].aug)
    BY <1>2, <1>3, <1>4, CountsAre DEF InBoth
  <2>5. Cardinality(Under(R[node])) = Total(inners[i].aug)
        /\ Cardinality(Under(R[node])) \in Nat
    BY <1>2, <2>4, FS_CardinalityType DEF CountedUnder, FromInner
  <2> QED
    BY <1>2, <2>3, <2>5
<1>5. CASE node.kind = "leaf" /\ LocateInLeaf(call.query, LeafKeys(leaves[node.id])) = 0
  <2>1. node = Leaf(i) /\ i \in LeafAlive
    BY <1>1, <1>3, <1>5, AtLeafRouted DEF Descending
  <2>2. leaves[i] \in LeafOver(Pair) /\ HoldsPairs(leaves[i], Range(leaves[i].data))
    BY <2>1, LeavesAre, LeafHolds
  <2>3. Under(R[node]) = KeysOf(leaves[i])
    BY <2>1, UnderLeaf
  <2>4. Cardinality(Under(R[node])) = Len(leaves[i].data) /\ Len(leaves[i].data) \in Nat
    BY <2>2, <2>3, LeafKeysCount, LeafKeysLen
  <2>5. ~(call.query < Len(leaves[i].data))
    BY <1>2, <1>3, <1>5, <2>2, LeafKeysLen DEF LocateInLeaf
  <2> QED
    BY <1>2, <2>4, <2>5
<1> QED
  BY <1>4, <1>5 DEF AugmentationMissing, AtInner, AtLeaf

\* A query by an index that the map does not have.
LEMMA NoSuchIndex ==
  ASSUME NEW h, Good(h), NEW T, NEW R, Routed(T, R), NEW c,
         c.op \in {"remove_by_augmentation", "get_mut_by_augmentation"},
         c.i \in Nat, c.i >= Cardinality(StoredKeys)
  PROVE  Map!Answer(c) = None /\ Map!Effect(c) = Contents
<1>1. Map!AtIndex(c.i) = {}
  <2>1. IsFiniteSet(StoredKeys) /\ StoredKeys \subseteq Int
    BY StoredFinite
  <2>2. IndexedIn(StoredKeys, c.i) = {}
    BY <2>1, IndexOnce
  <2> QED
    BY <2>2, MapIs
<1>2. Map!Answer(c) = None
  BY <1>1, AnswerIs
<1>3. CASE c.op = "remove_by_augmentation"
  <2>1. Map!Effect(c) = Map!Without(Map!AtIndex(c.i))
    BY ONLY <1>3, EffectIs
  <2> QED
    BY <1>1, <1>2, <2>1, ContentsSame
<1>4. CASE c.op = "get_mut_by_augmentation"
  <2>1. Map!Effect(c) = [x \in Map!Keys |-> IF x \in Map!AtIndex(c.i) THEN c.v ELSE Contents[x]]
    BY ONLY <1>4, EffectIs
  <2>2. Map!Effect(c) = [x \in StoredKeys |-> Contents[x]]
    BY <1>1, <2>1, MapIs
  <2> QED
    BY <1>2, <2>2, ContentsSame
<1> QED
  BY <1>3, <1>4

\* What the map is asked for during a descent by index.
LEMMA AimedRequest ==
  ASSUME NEW h, Good(h), pc = "get_ref_by_augmentation"
  PROVE  /\ Pending = Request /\ Pending.op = call.op /\ Pending.i = call.i /\ call.i \in Nat
         /\ call.op \in {"remove_by_augmentation", "get_mut_by_augmentation"}
         /\ call.op = "get_mut_by_augmentation" => Pending.v = call.v /\ call.v \in Value
         /\ LenToBe = len
<1>1. \/ call \in [op : {"remove_by_augmentation"}, i : Nat, query : Nat]
      \/ call \in [op : {"get_mut_by_augmentation"}, i : Nat, query : Nat, v : Value]
  BY CallsAre
<1>2. Pending = Request /\ LenToBe = len
  BY DEF Pending, LenToBe
<1>3. CASE call.op = "remove_by_augmentation"
  BY <1>1, <1>2, <1>3, RequestIs
<1>4. CASE call.op = "get_mut_by_augmentation"
  BY <1>1, <1>2, <1>4, RequestIs
<1> QED
  BY <1>1, <1>2, <1>3, <1>4

\* Only an index past the end misses, and it misses at the root.
LEMMA AugmentationMissingMaps ==
  ASSUME NEW h, Good(h), NEW T, NEW R, Routed(T, R), NEW V, InnersFilled(V), Counted(V),
         SizeRight, Aimed(R), AugmentationMissing
  PROVE  MapStep /\ Kept
<1>1. /\ pc = "get_ref_by_augmentation" /\ Return(None)
      /\ UNCHANGED <<leaves, takenLeaves, len>>
  BY DEF AugmentationMissing, AtInner, AtLeaf, tree, store, taken
<1>2. /\ Pending.op \in {"remove_by_augmentation", "get_mut_by_augmentation"}
      /\ Pending.i = call.i /\ call.i \in Nat /\ LenToBe = len
  BY <1>1, AimedRequest
<1>3. call.i >= Cardinality(StoredKeys)
  <2>1. ~IsSplit /\ CountedUnder(R, node) /\ call.query \in Nat
    BY <1>1, AimedNode
  <2>2. call.query >= Cardinality(Under(R[node])) /\ Cardinality(Under(R[node])) \in Nat
    BY <2>1, MissingIndex, FS_CardinalityType DEF CountedUnder
  <2>3. node = root /\ call.i = call.query + Cardinality(KeysBefore(R[node]))
    BY <1>1, <2>1, <2>2 DEF Aimed
  <2>4. Under(R[node]) = StoredKeys /\ KeysBefore(R[node]) = {}
    BY <2>1, <2>3, RootOfAll
  <2> QED
    BY <2>1, <2>2, <2>3, <2>4, FS_EmptySet
<1>4. Map!Answer(Pending) = None /\ Map!Effect(Pending) = Contents
  BY <1>2, <1>3, NoSuchIndex
<1>5. Stored' = Stored /\ StoredKeys' = StoredKeys /\ Contents' = Contents
  BY <1>1, StoredKept, KeepIs
<1>6. len' = Cardinality(StoredKeys')
  BY <1>1, <1>2, <1>5 DEF SizeRight
<1> QED
  BY <1>1, <1>2, <1>4, <1>5, <1>6, CommitFinishMaps

\* A query by the index of an entry that get_mut_by_augmentation overwrites.
LEMMA OverwrittenIs ==
  ASSUME NEW h, Good(h), NEW T, NEW R, Routed(T, R), NEW c, c.op = "get_mut_by_augmentation",
         NEW e \in Stored, c.i = Cardinality({k \in StoredKeys : k < e[1]}),
         NEW v, c.v = v, Stored' = WithPair(Stored, <<e[1], v>>)
  PROVE  /\ Contents' = Map!Effect(c) /\ Map!Answer(c) = e[2]
         /\ Cardinality(StoredKeys') = Cardinality(StoredKeys)
<1>1. e[1] \in StoredKeys /\ Contents[e[1]] = e[2]
  BY MapIs
<1>2. Map!AtIndex(c.i) = {e[1]}
  <2>1. IsFiniteSet(StoredKeys) /\ StoredKeys \subseteq Int
    BY StoredFinite
  <2>2. IndexedIn(StoredKeys, Cardinality({k \in StoredKeys : k < e[1]})) = {e[1]}
    BY <1>1, <2>1, IndexOnce
  <2> QED
    BY <2>2, MapIs
<1>3. Map!Answer(c) = e[2]
  BY <1>1, <1>2, AnswerIs
<1>4. Map!Effect(c) = Map!Put(e[1], v)
  <2>1. Map!Effect(c) = [x \in Map!Keys |-> IF x \in Map!AtIndex(c.i) THEN c.v ELSE Contents[x]]
    BY ONLY c.op = "get_mut_by_augmentation", EffectIs
  <2>2. Map!Effect(c) = [x \in StoredKeys |-> IF x = e[1] THEN v ELSE Contents[x]]
    BY <1>2, <2>1, MapIs
  <2>3. Map!Put(e[1], v) = [x \in Map!Keys \cup {e[1]} |-> IF x = e[1] THEN v ELSE Contents[x]]
    BY DEF Map!Put
  <2>4. Map!Keys \cup {e[1]} = StoredKeys
    BY <1>1, MapIs
  <2> QED
    BY <2>2, <2>3, <2>4
<1>5. Contents' = Map!Put(e[1], v)
  BY PutIs
<1>6. Cardinality(StoredKeys') = Cardinality(StoredKeys)
  BY <1>1, CountPut
<1> QED
  BY <1>3, <1>4, <1>5, <1>6

\* get_mut_by_augmentation overwrites the entry of its index.
LEMMA GetMutInLeafMaps ==
  ASSUME NEW h, Good(h), NEW T, NEW R, Routed(T, R), NEW V, InnersFilled(V), Counted(V),
         SizeRight, Aimed(R), GetMutInLeaf
  PROVE  MapStep /\ Kept
<1>1. PICK l, s : l = node.id /\ s = LocateInLeaf(call.query, LeafKeys(leaves[l]))
  OBVIOUS
<1>2. /\ pc = "get_ref_by_augmentation" /\ node.kind = "leaf" /\ s # 0
      /\ call.op = "get_mut_by_augmentation"
      /\ leaves' = [leaves EXCEPT ![l] = SetValue(@, s, call.v)]
      /\ Return(leaves[l].data[s][2]) /\ UNCHANGED <<takenLeaves, len>>
  BY <1>1 DEF GetMutInLeaf, AtLeaf, taken
<1>3. /\ node = Leaf(l) /\ l \in LeafAlive /\ l \in DOMAIN leaves /\ leaves[l] \in LeafOver(Pair)
  BY <1>1, <1>2, AtLeafRouted, LeavesAre DEF Descending
<1>4. /\ call.query \in Nat /\ Cardinality(KeysBefore(R[node])) \in Nat
  BY <1>2, AimedNode
<1>5. s \in 1 .. Len(leaves[l].data) /\ call.query = s - 1
  BY <1>1, <1>2, <1>3, <1>4, LeafKeysLen DEF LocateInLeaf
<1>6. /\ Pending.op = "get_mut_by_augmentation" /\ Pending.i = call.i
      /\ Pending.v = call.v /\ call.v \in Value /\ LenToBe = len
  BY <1>2, AimedRequest
<1>7. PICK e : e = leaves[l].data[s]
  OBVIOUS
<1>8. e \in Stored
  BY <1>3, <1>5, <1>7, EntryStored
<1>9. call.i = Cardinality({k \in StoredKeys : k < e[1]})
  <2>1. call.i = call.query + Cardinality(KeysBefore(R[node]))
    BY <1>2 DEF Aimed
  <2>2. Cardinality({k \in StoredKeys : k < e[1]}) = Cardinality(KeysBefore(R[Leaf(l)])) + s - 1
    BY <1>3, <1>5, <1>7, IndexInLeaf
  <2>3. Len(leaves[l].data) \in Nat
    BY <1>3, LeafKeysLen
  <2> QED
    BY <1>3, <1>4, <1>5, <2>1, <2>2, <2>3
<1>10. Stored' = WithPair(Stored, <<e[1], call.v>>)
  <2>1. leaves' = [leaves EXCEPT ![l] = SetValue(leaves[l], s, call.v)]
    BY <1>2, <1>3
  <2>2. Stored' = WithPair(Stored, <<leaves[l].data[s][1], call.v>>)
    BY <1>2, <1>3, <1>5, <1>6, <2>1, SetValueStored
  <2> QED
    BY <1>7, <2>2
<1>11. /\ Contents' = Map!Effect(Pending) /\ Map!Answer(Pending) = e[2]
       /\ Cardinality(StoredKeys') = Cardinality(StoredKeys)
  BY <1>6, <1>8, <1>9, <1>10, OverwrittenIs
<1>12. len' = Cardinality(StoredKeys') /\ Return(Map!Answer(Pending))
  BY <1>2, <1>6, <1>7, <1>11 DEF SizeRight
<1> QED
  BY <1>6, <1>11, <1>12, CommitFinishMaps

-----------------------------------------------------------------------------
(* The calls                                                               *)

\* A call enters its first loop.
LEMMA EnterMaps ==
  ASSUME NEW h, Good(h), NEW T, NEW R, Routed(T, R), SizeRight, CallIdle,
         NEW where, where \notin {"idle", "insert_ascend", "remove_ascend"},
         NEW c, Enter(where, c),
         \/ c \in [op : {"insert", "get_mut"}, k : Key, v : Value]
         \/ c \in [op : {"get", "remove"}, k : Key]
         \/ c \in [op : {"remove_by_augmentation"}, i : Nat, query : Nat]
         \/ c \in [op : {"get_mut_by_augmentation"}, i : Nat, query : Nat, v : Value],
         where = "get_ref_by_augmentation" => c.i \in Nat /\ c.query = c.i
  PROVE  MapStep /\ SizeRight' /\ TargetSought' /\ CallIdle' /\ Aimed(R)'
<1>1. /\ pc = "idle" /\ pc' = where /\ call' = c /\ node' = root /\ ret' = None
      /\ UNCHANGED <<leaves, takenLeaves, root, len>>
  BY DEF Enter, tree, store, taken
<1>2. Stored' = Stored /\ StoredKeys' = StoredKeys /\ Contents' = Contents
  BY <1>1, StoredKept, KeepIs
<1>3. Pending = Map!NoRequest
  BY <1>1 DEF CallIdle, Pending, Request, NoCall, Map!NoRequest
<1>4. Pending' = Request'
  BY <1>1 DEF Pending
<1>5. Request' \in Map!Requests
  <2>1. CASE c.op \in {"insert", "get_mut", "get", "remove"}
    <3>1. Request' = c
      BY <1>1, <2>1 DEF Request
    <3> QED
      BY <2>1, <3>1 DEF Map!Requests
  <2>2. CASE c.op = "remove_by_augmentation"
    <3>1. Request' = [op |-> "remove_by_augmentation", i |-> c.i]
      BY <1>1, <2>2 DEF Request
    <3>2. c.i \in Nat
      BY <2>2
    <3> QED
      BY <3>1, <3>2 DEF Map!Requests
  <2>3. CASE c.op = "get_mut_by_augmentation"
    <3>1. Request' = [op |-> "get_mut_by_augmentation", i |-> c.i, v |-> c.v]
      BY <1>1, <2>3 DEF Request
    <3>2. c.i \in Nat /\ c.v \in Value
      BY <2>3
    <3> QED
      BY <3>1, <3>2 DEF Map!Requests
  <2> QED
    BY <2>1, <2>2, <2>3
<1>6. MapStep
  <2>1. Map!Begin
    BY <1>1, <1>2, <1>3, <1>4, <1>5 DEF Map!Begin
  <2> QED
    BY <2>1 DEF MapStep, Map!MapNext
<1>7. SizeRight' /\ TargetSought' /\ CallIdle'
  BY <1>1, <1>2 DEF SizeRight, LenToBe, TargetSought, CallIdle
<1>8. Aimed(R)'
  <2>1. ~IsSplit
    BY <1>1 DEF IsSplit
  <2>2. KeysBefore(R[root]) = {}
    BY <2>1, RootOfAll
  <2>3. KeysBefore(R[root])' = {}
    <3>1. KeysBefore(R[root])' = KeysBefore(R[root])
      BY <1>1, <1>2 DEF KeysBefore
    <3> QED
      BY <2>2, <3>1
  <2>4. KeysBefore(R[node])' = {} /\ (node = root)'
    BY <1>1, <2>3
  <2>5. pc' = "get_ref_by_augmentation" => call'.i = call'.query + 0
    BY <1>1
  <2>6. Cardinality({}) = 0
    BY FS_EmptySet
  <2> QED
    BY <2>4, <2>5, <2>6 DEF Aimed
<1> QED
  BY <1>6, <1>7, <1>8

\* Between calls, len is the number of entries.
LEMMA IdleSize ==
  ASSUME NEW h, Good(h), NEW T, NEW R, Routed(T, R), SizeRight, pc = "idle"
  PROVE  len = Cardinality(StoredKeys) /\ len \in Nat
BY StoredFinite, FS_CardinalityType DEF SizeRight, LenToBe

\* The calls that enter a loop.
LEMMA CallEnterMaps ==
  ASSUME NEW h, Good(h), NEW T, NEW R, Routed(T, R), SizeRight, CallIdle,
         \/ \E k \in Key, v \in Value : InsertCall(k, v) \/ GetMutCall(k, v)
         \/ \E k \in Key : RemoveCall(k) \/ GetCall(k)
         \/ \E i \in 0 .. len : RemoveByAugmentationCall(i)
         \/ \E i \in 0 .. len, v \in Value : GetMutByAugmentationCall(i, v)
  PROVE  MapStep /\ SizeRight' /\ TargetSought' /\ CallIdle' /\ Aimed(R)' /\ Routed(T, R)'
<1>1. ASSUME NEW k \in Key, NEW v \in Value, InsertCall(k, v)
      PROVE  /\ MapStep /\ SizeRight' /\ TargetSought' /\ CallIdle' /\ Aimed(R)' /\ Routed(T, R)'
  <2> DEFINE c == [op |-> "insert", k |-> k, v |-> v]
  <2>1. Enter("insert_inner", c) /\ c.k \in Key /\ c \in [op : {"insert", "get_mut"}, k : Key, v : Value]
    BY <1>1 DEF InsertCall
  <2> HIDE DEF c
  <2> QED
    BY <2>1, EnterMaps, EnterRouted
<1>2. ASSUME NEW k \in Key, NEW v \in Value, GetMutCall(k, v)
      PROVE  /\ MapStep /\ SizeRight' /\ TargetSought' /\ CallIdle' /\ Aimed(R)' /\ Routed(T, R)'
  <2> DEFINE c == [op |-> "get_mut", k |-> k, v |-> v]
  <2>1. Enter("find_descend", c) /\ c.k \in Key /\ c \in [op : {"insert", "get_mut"}, k : Key, v : Value]
    BY <1>2 DEF GetMutCall
  <2> HIDE DEF c
  <2> QED
    BY <2>1, EnterMaps, EnterRouted
<1>3. ASSUME NEW k \in Key, RemoveCall(k)
      PROVE  /\ MapStep /\ SizeRight' /\ TargetSought' /\ CallIdle' /\ Aimed(R)' /\ Routed(T, R)'
  <2> DEFINE c == [op |-> "remove", k |-> k]
  <2>1. Enter("key_to_ref", c) /\ c.k \in Key /\ c \in [op : {"get", "remove"}, k : Key]
    BY <1>3 DEF RemoveCall
  <2> HIDE DEF c
  <2> QED
    BY <2>1, EnterMaps, EnterRouted
<1>4. ASSUME NEW k \in Key, GetCall(k)
      PROVE  /\ MapStep /\ SizeRight' /\ TargetSought' /\ CallIdle' /\ Aimed(R)' /\ Routed(T, R)'
  <2> DEFINE c == [op |-> "get", k |-> k]
  <2>1. Enter("find_descend", c) /\ c.k \in Key /\ c \in [op : {"get", "remove"}, k : Key]
    BY <1>4 DEF GetCall
  <2> HIDE DEF c
  <2> QED
    BY <2>1, EnterMaps, EnterRouted
<1>5. ASSUME NEW i \in 0 .. len, RemoveByAugmentationCall(i)
      PROVE  /\ MapStep /\ SizeRight' /\ TargetSought' /\ CallIdle' /\ Aimed(R)' /\ Routed(T, R)'
  <2> DEFINE c == [op |-> "remove_by_augmentation", i |-> i, query |-> i]
  <2>1. Enter("get_ref_by_augmentation", c) /\ i \in Nat
    <3>1. Enter("get_ref_by_augmentation", c)
      BY <1>5 DEF RemoveByAugmentationCall
    <3>2. pc = "idle"
      BY <3>1 DEF Enter
    <3> QED
      BY <3>1, <3>2, IdleSize
  <2>2. c \in [op : {"remove_by_augmentation"}, i : Nat, query : Nat] /\ c.i \in Nat /\ c.query = c.i
    BY <2>1
  <2> HIDE DEF c
  <2> QED
    BY <2>1, <2>2, EnterMaps, EnterRouted
<1>6. ASSUME NEW i \in 0 .. len, NEW v \in Value, GetMutByAugmentationCall(i, v)
      PROVE  /\ MapStep /\ SizeRight' /\ TargetSought' /\ CallIdle' /\ Aimed(R)' /\ Routed(T, R)'
  <2> DEFINE c == [op |-> "get_mut_by_augmentation", i |-> i, query |-> i, v |-> v]
  <2>1. Enter("get_ref_by_augmentation", c) /\ i \in Nat
    <3>1. Enter("get_ref_by_augmentation", c)
      BY <1>6 DEF GetMutByAugmentationCall
    <3>2. pc = "idle"
      BY <3>1 DEF Enter
    <3> QED
      BY <3>1, <3>2, IdleSize
  <2>2. /\ c \in [op : {"get_mut_by_augmentation"}, i : Nat, query : Nat, v : Value]
        /\ c.i \in Nat /\ c.query = c.i
    BY <2>1
  <2> HIDE DEF c
  <2> QED
    BY <2>1, <2>2, EnterMaps, EnterRouted
<1> QED
  BY <1>1, <1>2, <1>3, <1>4, <1>5, <1>6

-----------------------------------------------------------------------------
(* Every step                                                              *)

\* After a step that is not one of a descent by index, any routes will do.
LEMMA KeptIsEnough ==
  ASSUME NEW h, Good(h), NEW T, NEW R, Routed(T, R), [Next]_vars, Kept
  PROVE  /\ SizeRight' /\ TargetSought' /\ CallIdle'
         /\ \E U, Q : Routed(U, Q)' /\ Aimed(Q)'
<1>1. PICK U, Q : Routed(U, Q)'
  BY StepRouted
<1>2. Aimed(Q)'
  BY DEF Kept, Aimed
<1> QED
  BY <1>1, <1>2 DEF Kept

\* Every call,
LEMMA CallMaps ==
  ASSUME NEW h, Good(h), NEW T, NEW R, Routed(T, R), SizeRight, CallIdle, Call
  PROVE  /\ MapStep
         /\ \/ Kept
            \/ SizeRight' /\ TargetSought' /\ CallIdle' /\ Aimed(R)' /\ Routed(T, R)'
<1>1. CASE \/ \E k \in Key, v \in Value : InsertCall(k, v) \/ GetMutCall(k, v)
           \/ \E k \in Key : RemoveCall(k) \/ GetCall(k)
           \/ \E i \in 0 .. len : RemoveByAugmentationCall(i)
           \/ \E i \in 0 .. len, v \in Value : GetMutByAugmentationCall(i, v)
  BY <1>1, CallEnterMaps
<1>2. CASE \E k \in Key : GetCached(k)
  BY <1>2, GetCachedMaps
<1>3. CASE \E k \in Key, v \in Value : GetMutCached(k, v)
  BY <1>3, GetMutCachedMaps
<1>4. CASE Clear
  BY <1>4, ClearMaps
<1> QED
  BY <1>1, <1>2, <1>3, <1>4 DEF Call

\* and every step of one.
LEMMA StepMaps ==
  ASSUME NEW h, Good(h), NEW T, NEW R, Routed(T, R), Aimed(R),
         NEW V, InnersFilled(V), Counted(V), SizeRight, TargetSought, CallIdle, Step
  PROVE  /\ MapStep
         /\ \/ Kept
            \/ SizeRight' /\ TargetSought' /\ CallIdle' /\ Aimed(R)' /\ Routed(T, R)'
<1>1. CASE InsertStep
  BY <1>1, QuietStepsMap, InsertLeafMaps, InsertReturnMaps DEF InsertStep
<1>2. CASE RemoveStep
  <2>1. CASE KeyToRefDescend \/ RemoveAscendDone
             \/ RotateRightInner \/ RotateLeftInner \/ MergeInner
    BY <2>1, QuietStepsMap
  <2>2. CASE KeyToRefMissing
    BY <2>2, KeyToRefMissingMaps
  <2>3. CASE AugmentationDescend
    BY <2>3, AugmentationDescendMaps, QuietCallRouted
  <2>4. CASE AugmentationMissing
    BY <2>4, AugmentationMissingMaps
  <2>5. CASE RemoveInLeaf
    BY <2>5, RemoveInLeafMaps
  <2>6. CASE RotateRightLeaf \/ RotateLeftLeaf \/ MergeLeafLeft \/ MergeLeafRight
    BY <2>6, RebalanceMaps
  <2>7. CASE RemoveReturnDone \/ RemoveReturnInnerUnderSize
    BY <2>7, RemoveReturnMaps
  <2>8. CASE RemoveReturnLeafUnderSize
    BY <2>8, RemoveReturnLeafMaps
  <2> QED
    BY <1>2, <2>1, <2>2, <2>3, <2>4, <2>5, <2>6, <2>7, <2>8 DEF RemoveStep
<1>3. CASE FindStep
  BY <1>3, QuietStepsMap, FindInLeafMaps, GetMutInLeafMaps DEF FindStep
<1> QED
  BY <1>1, <1>2, <1>3 DEF Step

\* A step that changes nothing.
LEMMA IdleMaps ==
  ASSUME NEW T, NEW R, Routed(T, R), Aimed(R), SizeRight, TargetSought, CallIdle,
         UNCHANGED vars
  PROVE  MapStep /\ SizeRight' /\ TargetSought' /\ CallIdle' /\ Aimed(R)'
<1>1. /\ UNCHANGED <<leaves, takenLeaves, len, ret, pc, call, r, node, root, stack>>
  BY DEF vars, tree, frame, store, taken
<1>2. Stored' = Stored /\ StoredKeys' = StoredKeys
  BY <1>1, StoredKept, KeepIs
<1>3. Pending' = Pending
  <2>1. Request' = Request
    BY <1>1 DEF Request
  <2> QED
    BY <1>1, <2>1 DEF Pending, Took, Removed
<1>4. MapStep
  BY <1>1, <1>2, <1>3, Stutters
<1>5. SizeRight' /\ CallIdle'
  BY <1>1, <1>2 DEF SizeRight, LenToBe, CallIdle
<1>6. TargetSought'
  <2>1. Target' = Target
    BY <1>1 DEF Target, Current, EndOf
  <2>2. PICK e : e = Target
    OBVIOUS
  <2>3. IsSought(e)' = IsSought(e)
    BY <1>1, <1>2 DEF IsSought
  <2>4. IsSought(Target)' = IsSought(Target)
    BY <2>1, <2>2, <2>3 DEF IsSought
  <2> QED
    BY <1>1, <2>4 DEF TargetSought
<1>7. Aimed(R)'
  BY <1>1, <1>2 DEF Aimed, KeysBefore, Under
<1> QED
  BY <1>4, <1>5, <1>6, <1>7

(***************************************************************************)
(* What the refinement rests on, an inductive invariant: the shape of the  *)
(* store, its routes and its counts, and what the call in progress knows   *)
(* of the map: how far len lags behind, which entry a removal is after,    *)
(* and that a descent by index keeps its aim.                              *)
(***************************************************************************)
MapInv == /\ \E h : Good(h)
          /\ \E T, R : Routed(T, R) /\ Aimed(R)
          /\ \E V : InnersFilled(V) /\ Counted(V)
          /\ SizeRight /\ TargetSought /\ CallIdle

\* The empty tree is the empty map.
LEMMA InitMaps == Init => MapInv /\ Map!MapInit
<1> SUFFICES ASSUME Init PROVE MapInv /\ Map!MapInit
  OBVIOUS
<1>1. /\ leaves = <<EmptyLeaf>> /\ takenLeaves = {} /\ pc = "idle" /\ call = NoCall
      /\ len = 0 /\ ret = None /\ inners = <<>>
  BY DEF Init
<1>2. Stored = {} /\ StoredKeys = {}
  BY <1>1, FreshStored DEF StoredKeys, FirstOf
<1>3. SizeRight /\ TargetSought /\ CallIdle
  BY <1>1, <1>2, FS_EmptySet DEF SizeRight, LenToBe, TargetSought, CallIdle
<1>4. \E h : Good(h)
  BY InitOK
<1>5. \E T, R : Routed(T, R) /\ Aimed(R)
  BY <1>1, InitRouted DEF Aimed
<1>6. InnersFilled({}) /\ Counted({})
  BY InitFilled, <1>1 DEF Counted, IsTelling
<1>7. Map!MapInit
  <2>1. Contents = [x \in {} |-> None]
    BY <1>2, ContentsIs DEF DictOf, StoredKeys
  <2>2. Pending = Map!NoRequest
    BY <1>1 DEF Pending, Request, NoCall, Map!NoRequest
  <2> QED
    BY <1>1, <2>1, <2>2 DEF Map!MapInit
<1> QED
  BY <1>3, <1>4, <1>5, <1>6, <1>7 DEF MapInv

\* Every step of the tree is a step of the map, or none.
LEMMA NextMaps == MapInv /\ [Next]_vars => MapInv' /\ MapStep
<1> SUFFICES ASSUME MapInv, [Next]_vars PROVE MapInv' /\ MapStep
  OBVIOUS
<1>1. PICK h : Good(h)
  BY DEF MapInv
<1>2. PICK T, R : Routed(T, R) /\ Aimed(R)
  BY DEF MapInv
<1>3. PICK V : InnersFilled(V) /\ Counted(V)
  BY DEF MapInv
<1>4. SizeRight /\ TargetSought /\ CallIdle
  BY DEF MapInv
<1>5. (\E g : Good(g)')
  BY <1>1, StepOK
<1>6. (\E W : InnersFilled(W)' /\ Counted(W)')
  BY <1>1, <1>3, StepCounted
<1>7. /\ MapStep /\ SizeRight' /\ TargetSought' /\ CallIdle'
      /\ \E U, Q : Routed(U, Q)' /\ Aimed(Q)'
  <2>1. CASE Next
    <3>1. /\ MapStep
          /\ \/ Kept
             \/ SizeRight' /\ TargetSought' /\ CallIdle' /\ Aimed(R)' /\ Routed(T, R)'
      BY <1>1, <1>2, <1>3, <1>4, <2>1, CallMaps, StepMaps DEF Next
    <3> QED
      BY <1>1, <1>2, <3>1, KeptIsEnough
  <2>2. CASE UNCHANGED vars
    <3>1. \/ pc' = "get_ref_by_augmentation" \/ pc' # "get_ref_by_augmentation"
      OBVIOUS
    <3>2. MapStep /\ SizeRight' /\ TargetSought' /\ CallIdle' /\ Aimed(R)'
      BY <1>2, <1>4, <2>2, IdleMaps
    <3>3. Routed(T, R)'
      BY <1>1, <1>2, <2>2, StutterRouted
    <3> QED
      BY <3>2, <3>3
  <2> QED
    BY <2>1, <2>2
<1> QED
  BY <1>5, <1>6, <1>7 DEF MapInv

(***************************************************************************)
(* The tree implements the ordered map, for every set of keys and values,  *)
(* every size of a node and every number of leaves.                        *)
(***************************************************************************)
THEOREM TreeImplementsMap == Spec => ImplementsMap
<1>1. Init => MapInv /\ Map!MapInit
  BY InitMaps
<1>2. MapInv /\ [Next]_vars => MapInv' /\ [Map!MapNext]_(Map!mapVars)
  BY NextMaps DEF MapStep
<1> QED
  BY <1>1, <1>2, PTL DEF Spec, ImplementsMap, Map!MapSpec
=============================================================================
