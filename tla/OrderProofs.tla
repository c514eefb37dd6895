----------------------------- MODULE OrderProofs ----------------------------
(***************************************************************************)
(* The order of keys, as a value, for every capacity and every set of      *)
(* keys: what the operations on a leaf leave of its entries and of their   *)
(* order; that an inner node goes on to route to its children the keys     *)
(* that were routed to it; and what splits, shifts and merges leave of the *)
(* leaf chain.                                                             *)
(***************************************************************************)
EXTENDS BPlusTreeProofs, NaturalsInduction, WellFoundedInduction

-----------------------------------------------------------------------------
(* Sequences, element by element                                           *)

\* SubSeq.
LEMMA CutElems ==
  ASSUME NEW S, NEW s \in Seq(S), NEW m \in Nat \ {0}, NEW n \in Nat,
         n <= Len(s), m <= n + 1
  PROVE  \A j \in 1 .. n - m + 1 : SubSeq(s, m, n)[j] = s[m + j - 1]
<1>1. \A i \in m .. n : s[i] \in S
  <2>1. TAKE i \in m .. n
  <2>2. Len(s) \in Nat
    BY LenProperties
  <2>3. i \in 1 .. Len(s)
    BY <2>2
  <2> QED
    BY <2>3, ElementOfSeq
<1> QED
  BY <1>1, SubSeqProperties

\* InsertAt.
LEMMA InsertAtElems ==
  ASSUME NEW S, NEW s \in Seq(S), NEW i \in 1 .. Len(s) + 1, NEW e \in S
  PROVE  \A j \in 1 .. Len(s) + 1 :
             InsertAt(s, i, e)[j] = IF j < i THEN s[j] ELSE IF j = i THEN e ELSE s[j - 1]
<1> DEFINE low  == SubSeq(s, 1, i - 1)
           high == SubSeq(s, i, Len(s))
           one  == <<e>>
<1>0. /\ Len(s) \in Nat /\ i - 1 \in Nat /\ i \in Nat \ {0} /\ i - 1 <= Len(s)
      /\ 1 <= (i - 1) + 1 /\ i <= Len(s) + 1 /\ 1 \in Nat \ {0}
  BY LenProperties
<1>1. /\ low \in Seq(S) /\ Len(low) = i - 1
      /\ \A j \in 1 .. i - 1 : low[j] = s[j]
  <2>1. \A j \in 1 .. (i - 1) - 1 + 1 : low[j] = s[1 + j - 1]
    BY <1>0, CutElems
  <2>2. low \in Seq(S) /\ Len(low) = (i - 1) - 1 + 1
    BY <1>0, CutType
  <2> HIDE DEF low
  <2> QED
    BY <1>0, <2>1, <2>2
<1>2. /\ high \in Seq(S) /\ Len(high) = Len(s) - i + 1
      /\ \A j \in 1 .. Len(s) - i + 1 : high[j] = s[i + j - 1]
  BY <1>0, CutType, CutElems
<1>3. one \in Seq(S) /\ Len(one) = 1 /\ one[1] = e
  OBVIOUS
<1>6. InsertAt(s, i, e) = (low \o one) \o high
  BY DEF InsertAt
<1> HIDE DEF low, high, one
<1>4. /\ low \o one \in Seq(S) /\ Len(low \o one) = i
      /\ \A j \in 1 .. i : (low \o one)[j] = IF j < i THEN s[j] ELSE e
  <2>1. /\ low \o one \in Seq(S) /\ Len(low \o one) = Len(low) + Len(one)
        /\ \A j \in 1 .. Len(low) + Len(one) :
               (low \o one)[j] = IF j <= Len(low) THEN low[j] ELSE one[j - Len(low)]
    BY <1>1, <1>3, ConcatProperties
  <2> QED
    BY <1>0, <1>1, <1>3, <2>1
<1> DEFINE w == low \o one
<1>8. w \in Seq(S) /\ Len(w) = i /\ \A j \in 1 .. i : w[j] = IF j < i THEN s[j] ELSE e
  BY <1>4
<1> HIDE DEF w
<1>5. \A j \in 1 .. Len(w) + Len(high) :
          (w \o high)[j] = IF j <= Len(w) THEN w[j] ELSE high[j - Len(w)]
  BY <1>2, <1>8, ConcatProperties
<1>7. ASSUME NEW j \in 1 .. Len(s) + 1
      PROVE  (w \o high)[j] = IF j < i THEN s[j] ELSE IF j = i THEN e ELSE s[j - 1]
  <2>1. Len(w) = i /\ Len(w) + Len(high) = Len(s) + 1
    BY <1>0, <1>2, <1>8
  <2>2. CASE j <= i
    <3>1. (w \o high)[j] = w[j]
      BY <1>5, <2>1, <2>2
    <3>2. j \in 1 .. i
      BY <2>2
    <3> QED
      BY <1>8, <2>2, <3>1, <3>2
  <2>3. CASE j > i
    <3>1. (w \o high)[j] = high[j - i]
      BY <1>0, <1>5, <2>1, <2>3
    <3>2. j - i \in 1 .. Len(s) - i + 1 /\ i + (j - i) - 1 = j - 1
      BY <1>0, <2>3
    <3>3. high[j - i] = s[i + (j - i) - 1]
      BY <1>2, <3>2
    <3> QED
      BY <2>3, <3>1, <3>2, <3>3
  <2>4. j <= i \/ j > i
    BY <1>0
  <2> QED
    BY <2>2, <2>3, <2>4
<1> QED
  BY <1>6, <1>7 DEF w

\* RemoveAt.
LEMMA RemoveAtElems ==
  ASSUME NEW S, NEW s \in Seq(S), NEW i \in 1 .. Len(s)
  PROVE  \A j \in 1 .. Len(s) - 1 :
             RemoveAt(s, i)[j] = IF j < i THEN s[j] ELSE s[j + 1]
<1> DEFINE low  == SubSeq(s, 1, i - 1)
           high == SubSeq(s, i + 1, Len(s))
<1>0. /\ Len(s) \in Nat /\ i - 1 \in Nat /\ i + 1 \in Nat \ {0} /\ i - 1 <= Len(s)
      /\ 1 <= (i - 1) + 1 /\ i + 1 <= Len(s) + 1 /\ 1 \in Nat \ {0}
  BY LenProperties
<1>1. /\ low \in Seq(S) /\ Len(low) = i - 1
      /\ \A j \in 1 .. i - 1 : low[j] = s[j]
  <2>1. \A j \in 1 .. (i - 1) - 1 + 1 : low[j] = s[1 + j - 1]
    BY <1>0, CutElems
  <2>2. low \in Seq(S) /\ Len(low) = (i - 1) - 1 + 1
    BY <1>0, CutType
  <2> HIDE DEF low
  <2> QED
    BY <1>0, <2>1, <2>2
<1>2. /\ high \in Seq(S) /\ Len(high) = Len(s) - (i + 1) + 1
      /\ \A j \in 1 .. Len(s) - (i + 1) + 1 : high[j] = s[(i + 1) + j - 1]
  BY <1>0, CutType, CutElems
<1>3. RemoveAt(s, i) = low \o high
  BY DEF RemoveAt
<1> HIDE DEF low, high
<1>4. \A j \in 1 .. Len(low) + Len(high) :
          (low \o high)[j] = IF j <= Len(low) THEN low[j] ELSE high[j - Len(low)]
  BY <1>1, <1>2, ConcatProperties
<1>5. ASSUME NEW j \in 1 .. Len(s) - 1
      PROVE  (low \o high)[j] = IF j < i THEN s[j] ELSE s[j + 1]
  <2>1. Len(low) = i - 1 /\ Len(low) + Len(high) = Len(s) - 1
    BY <1>0, <1>1, <1>2
  <2>2. CASE j < i
    <3>1. (low \o high)[j] = low[j] /\ j \in 1 .. i - 1
      BY <1>0, <1>4, <2>1, <2>2
    <3> QED
      BY <1>1, <2>2, <3>1
  <2>3. CASE ~(j < i)
    <3>1. (low \o high)[j] = high[j - (i - 1)]
      <4>1. j \in 1 .. Len(low) + Len(high)
        BY <2>1
      <4>2. ~(j <= Len(low))
        <5>1. ~(j <= i - 1)
          BY <1>0, <2>3
        <5> QED
          BY <2>1, <5>1
      <4>3. (low \o high)[j] = high[j - Len(low)]
        BY <1>4, <4>1, <4>2
      <4> QED
        BY <2>1, <4>3
    <3>2. /\ j - (i - 1) \in 1 .. Len(s) - (i + 1) + 1
          /\ (i + 1) + (j - (i - 1)) - 1 = j + 1
      BY <1>0, <2>3
    <3> QED
      BY <1>2, <2>3, <3>1, <3>2
  <2> QED
    BY <2>2, <2>3
<1> QED
  BY <1>3, <1>5

\* Front and Tail.
LEMMA EndsElems ==
  ASSUME NEW S, NEW s \in Seq(S), Len(s) > 0
  PROVE  \A j \in 1 .. Len(s) - 1 : Front(s)[j] = s[j] /\ Tail(s)[j] = s[j + 1]
<1>1. Len(s) \in Nat /\ s # <<>>
  BY LenProperties
<1>2. \A j \in 1 .. (Len(s) - 1) - 1 + 1 : SubSeq(s, 1, Len(s) - 1)[j] = s[1 + j - 1]
  <2>1. /\ Len(s) - 1 \in Nat /\ 1 \in Nat \ {0} /\ s \in Seq(S)
        /\ Len(s) - 1 <= Len(s) /\ 1 <= (Len(s) - 1) + 1
    BY <1>1
  <2> QED
    BY ONLY <2>1, CutElems
<1>3. \A j \in 1 .. Len(s) - 1 : Front(s)[j] = s[j]
  BY <1>1, <1>2 DEF Front
<1>4. \A j \in 1 .. Len(s) - 1 : Tail(s)[j] = s[j + 1]
  BY <1>1, HeadTailProperties
<1> QED
  BY <1>3, <1>4

-----------------------------------------------------------------------------
(* Entries in order                                                        *)

\* d holds the pairs P, in the order of their keys.
Sorted(d, P) == d \in Seq(Pair) /\ Ascends(d) /\ Range(d) = P

FirstOf(P) == {p[1] : p \in P}

\* The entries of a sequence of pairs.
LEMMA PairsAt ==
  ASSUME NEW d \in Seq(Pair)
  PROVE  /\ Len(d) \in Nat /\ DOMAIN d = 1 .. Len(d)
         /\ \A i \in 1 .. Len(d) : d[i] \in Pair /\ d[i][1] \in Int /\ d[i][1] \in Key
<1>1. Len(d) \in Nat /\ DOMAIN d = 1 .. Len(d)
  BY LenProperties
<1>2. \A i \in 1 .. Len(d) : d[i] \in Pair
  BY ElementOfSeq
<1>3. \A p \in Pair : p[1] \in Int /\ p[1] \in Key
  BY KeyAssumption DEF Pair
<1> QED
  BY <1>1, <1>2, <1>3

\* In order, no entry is there twice.
LEMMA SortedOnce ==
  ASSUME NEW d \in Seq(Pair), Ascends(d)
  PROVE  IsInjective(d)
<1> SUFFICES ASSUME NEW i \in DOMAIN d, NEW j \in DOMAIN d, d[i] = d[j]
             PROVE  i = j
  BY DEF IsInjective
<1>1. i \in Int /\ j \in Int /\ d[i][1] \in Int /\ d[j][1] \in Int
  BY PairsAt
<1>2. ~(i < j) /\ ~(j < i)
  BY <1>1 DEF Ascends
<1> QED
  BY <1>1, <1>2

\* The keys of a leaf.
LEMMA KeysOfRange ==
  ASSUME NEW leaf
  PROVE  KeysOf(leaf) = FirstOf(Range(leaf.data))
BY DEF KeysOf, FirstOf, Range

\* A cut.
LEMMA SortedCut ==
  ASSUME NEW d \in Seq(Pair), Ascends(d), NEW m \in Nat \ {0}, NEW n \in Nat,
         n <= Len(d), m <= n + 1
  PROVE  Sorted(SubSeq(d, m, n), {d[i] : i \in m .. n})
<1> DEFINE t == SubSeq(d, m, n)
<1>1. t \in Seq(Pair) /\ Len(t) = n - m + 1
  BY CutType
<1>2. \A j \in 1 .. n - m + 1 : t[j] = d[m + j - 1]
  BY CutElems
<1>3. Range(t) = {d[i] : i \in m .. n}
  BY SortedOnce, OnceCut DEF Once
<1> HIDE DEF t
<1>4. DOMAIN t = 1 .. n - m + 1
  BY <1>1, LenProperties
<1>5. DOMAIN d = 1 .. Len(d) /\ Len(d) \in Nat
  BY LenProperties
<1>6. Ascends(t)
  <2> SUFFICES ASSUME NEW i \in DOMAIN t, NEW j \in DOMAIN t, i < j
               PROVE  t[i][1] < t[j][1]
    BY DEF Ascends
  <2>1. /\ m + i - 1 \in DOMAIN d /\ m + j - 1 \in DOMAIN d /\ m + i - 1 < m + j - 1
        /\ t[i] = d[m + i - 1] /\ t[j] = d[m + j - 1]
    BY <1>2, <1>4, <1>5
  <2> QED
    BY <2>1 DEF Ascends
<1> QED
  BY <1>1, <1>3, <1>6 DEF Sorted, t

\* Two sequences, all keys of the first before those of the second.
LEMMA SortedConcat ==
  ASSUME NEW s, NEW t, NEW R, NEW Q, Sorted(s, R), Sorted(t, Q),
         Precedes(FirstOf(R), FirstOf(Q))
  PROVE  Sorted(s \o t, R \cup Q)
<1> DEFINE u == s \o t
<1>1. /\ s \in Seq(Pair) /\ Len(s) \in Nat /\ DOMAIN s = 1 .. Len(s)
      /\ t \in Seq(Pair) /\ Len(t) \in Nat /\ DOMAIN t = 1 .. Len(t)
  BY LenProperties DEF Sorted
<1>2. /\ u \in Seq(Pair) /\ Len(u) = Len(s) + Len(t)
      /\ \A i \in 1 .. Len(s) + Len(t) :
             u[i] = IF i <= Len(s) THEN s[i] ELSE t[i - Len(s)]
  BY <1>1, ConcatProperties
<1>3. Range(u) = R \cup Q
  BY <1>1, RangeConcatenation DEF Sorted
<1> HIDE DEF u
<1>4. DOMAIN u = 1 .. Len(s) + Len(t)
  BY <1>2, LenProperties
<1>5. Ascends(u)
  <2> SUFFICES ASSUME NEW i \in DOMAIN u, NEW j \in DOMAIN u, i < j
               PROVE  u[i][1] < u[j][1]
    BY DEF Ascends
  <2>1. CASE j <= Len(s)
    <3>1. i \in DOMAIN s /\ j \in DOMAIN s /\ u[i] = s[i] /\ u[j] = s[j]
      BY <1>1, <1>2, <1>4, <2>1
    <3> QED
      BY <3>1 DEF Sorted, Ascends
  <2>2. CASE i <= Len(s) /\ j > Len(s)
    <3>1. i \in DOMAIN s /\ j - Len(s) \in DOMAIN t /\ u[i] = s[i] /\ u[j] = t[j - Len(s)]
      BY <1>1, <1>2, <1>4, <2>2
    <3>2. s[i] \in R /\ t[j - Len(s)] \in Q
      BY <3>1 DEF Sorted, Range
    <3>3. s[i][1] \in FirstOf(R) /\ t[j - Len(s)][1] \in FirstOf(Q)
      BY <3>2 DEF FirstOf
    <3> QED
      BY <3>1, <3>3 DEF Precedes
  <2>3. CASE i > Len(s)
    <3>1. /\ i - Len(s) \in DOMAIN t /\ j - Len(s) \in DOMAIN t
          /\ i - Len(s) < j - Len(s)
          /\ u[i] = t[i - Len(s)] /\ u[j] = t[j - Len(s)]
      BY <1>1, <1>2, <1>4, <2>3
    <3> QED
      BY <3>1 DEF Sorted, Ascends
  <2>4. j <= Len(s) \/ (i <= Len(s) /\ j > Len(s)) \/ i > Len(s)
    BY <1>1, <1>4
  <2> QED
    BY <2>1, <2>2, <2>3, <2>4
<1> QED
  BY <1>2, <1>3, <1>5 DEF Sorted, u

\* One entry.
LEMMA SortedOne ==
  ASSUME NEW e \in Pair
  PROVE  Sorted(<<e>>, {e})
<1>1. DOMAIN <<e>> = {1} /\ <<e>>[1] = e /\ <<e>> \in Seq(Pair)
  OBVIOUS
<1>2. ~(1 < 1)
  OBVIOUS
<1>3. Ascends(<<e>>)
  BY <1>1, <1>2 DEF Ascends
<1>4. Range(<<e>>) = {e}
  BY <1>1 DEF Range
<1> QED
  BY <1>1, <1>3, <1>4 DEF Sorted

\* InsertAt, between the smaller keys and the larger ones.
LEMMA SortedInsert ==
  ASSUME NEW d, NEW P, Sorted(d, P), NEW i \in 1 .. Len(d) + 1, NEW e \in Pair,
         \A j \in 1 .. i - 1 : d[j][1] < e[1],
         \A j \in i .. Len(d) : e[1] < d[j][1]
  PROVE  Sorted(InsertAt(d, i, e), P \cup {e})
<1> DEFINE low  == SubSeq(d, 1, i - 1)
           high == SubSeq(d, i, Len(d))
           LowR == {d[j] : j \in 1 .. i - 1}
           HiR  == {d[j] : j \in i .. Len(d)}
<1>1. /\ d \in Seq(Pair) /\ Ascends(d) /\ Range(d) = P
      /\ Len(d) \in Nat /\ DOMAIN d = 1 .. Len(d)
      /\ i - 1 \in Nat /\ i \in Nat \ {0} /\ i - 1 <= Len(d) /\ 1 <= (i - 1) + 1
      /\ i <= Len(d) + 1
  BY LenProperties DEF Sorted
<1>2. Sorted(low, LowR)
  BY <1>1, SortedCut
<1>3. Sorted(high, HiR)
  BY <1>1, SortedCut
<1>4. Sorted(<<e>>, {e})
  BY SortedOne
<1>5. LowR \cup HiR = P
  BY <1>1 DEF Range
<1>6. InsertAt(d, i, e) = (low \o <<e>>) \o high
  BY DEF InsertAt
<1>7. Precedes(FirstOf(LowR), FirstOf({e}))
  BY DEF Precedes, FirstOf
<1>8. Precedes(FirstOf(LowR \cup {e}), FirstOf(HiR))
  <2>1. \A a \in LowR, b \in HiR : a[1] < b[1]
    BY <1>1 DEF Ascends
  <2>2. \A b \in HiR : e[1] < b[1]
    OBVIOUS
  <2> HIDE DEF LowR, HiR
  <2> QED
    BY <2>1, <2>2 DEF Precedes, FirstOf
<1> HIDE DEF low, high, LowR, HiR
<1>9. Sorted(low \o <<e>>, LowR \cup {e})
  BY <1>2, <1>4, <1>7, SortedConcat
<1>10. Sorted((low \o <<e>>) \o high, (LowR \cup {e}) \cup HiR)
  BY <1>3, <1>8, <1>9, SortedConcat
<1>11. (LowR \cup {e}) \cup HiR = P \cup {e}
  BY <1>5
<1> QED
  BY <1>6, <1>10, <1>11

\* RemoveAt.
LEMMA SortedRemove ==
  ASSUME NEW d, NEW P, Sorted(d, P), NEW i \in 1 .. Len(d)
  PROVE  Sorted(RemoveAt(d, i), P \ {d[i]}) /\ d[i] \in P
<1>1. /\ d \in Seq(Pair) /\ Ascends(d) /\ Range(d) = P /\ IsInjective(d)
      /\ Len(d) \in Nat /\ DOMAIN d = 1 .. Len(d)
  BY LenProperties, SortedOnce DEF Sorted
<1>2. Range(RemoveAt(d, i)) = P \ {d[i]} /\ RemoveAt(d, i) \in Seq(Pair)
  BY <1>1, OnceRemove, RemoveAtType DEF Once
<1>3. Len(RemoveAt(d, i)) = Len(d) - 1
  BY <1>1, RemoveAtType
<1>4. \A j \in 1 .. Len(d) - 1 : RemoveAt(d, i)[j] = IF j < i THEN d[j] ELSE d[j + 1]
  BY <1>1, RemoveAtElems
<1> DEFINE t == RemoveAt(d, i)
<1> HIDE DEF t
<1>5. DOMAIN t = 1 .. Len(d) - 1
  BY <1>2, <1>3, LenProperties DEF t
<1>6. ASSUME NEW a \in DOMAIN t, NEW b \in DOMAIN t, a < b
      PROVE  t[a][1] < t[b][1]
  <2> DEFINE at(j) == IF j < i THEN j ELSE j + 1
  <2>1. at(a) \in DOMAIN d /\ at(b) \in DOMAIN d /\ at(a) < at(b)
    BY <1>1, <1>5, <1>6
  <2>2. t[a] = d[at(a)] /\ t[b] = d[at(b)]
    BY <1>4, <1>5 DEF t
  <2> QED
    BY <1>1, <2>1, <2>2 DEF Ascends
<1>7. d[i] \in P
  BY <1>1 DEF Range
<1> QED
  BY <1>2, <1>6, <1>7 DEF Sorted, Ascends, t

\* An entry with another value for its key.
LEMMA SortedPut ==
  ASSUME NEW d, NEW P, Sorted(d, P), NEW i \in 1 .. Len(d), NEW v \in Value
  PROVE  LET e == <<d[i][1], v>>
         IN  e \in Pair /\ Sorted([d EXCEPT ![i] = e], (P \ {d[i]}) \cup {e})
<1> DEFINE e == <<d[i][1], v>>
           t == [d EXCEPT ![i] = e]
<1>1. /\ d \in Seq(Pair) /\ Ascends(d) /\ Range(d) = P /\ IsInjective(d)
      /\ Len(d) \in Nat /\ DOMAIN d = 1 .. Len(d)
  BY LenProperties, SortedOnce DEF Sorted
<1>2. e \in Pair /\ e[1] = d[i][1]
  BY <1>1, PairsAt DEF Pair
<1>3. t \in Seq(Pair) /\ DOMAIN t = DOMAIN d
  BY <1>1, <1>2, PutType
<1>4. Range(t) = (P \ {d[i]}) \cup {e}
  <2> HIDE DEF e
  <2> QED
    BY <1>1 DEF Range, IsInjective
<1>5. \A j \in DOMAIN d : t[j][1] = d[j][1]
  BY <1>1, <1>2
<1>6. Ascends(t)
  BY <1>1, <1>3, <1>5 DEF Ascends
<1> QED
  BY <1>2, <1>3, <1>4, <1>6 DEF Sorted

-----------------------------------------------------------------------------
(* Searches among sorted keys                                              *)

\* Every nonempty set of naturals has a least element.
LEMMA LeastNat ==
  ASSUME NEW T, T \subseteq Nat, T # {}
  PROVE  \E x \in T : \A y \in T : x <= y
<1> DEFINE R == {p \in Nat \X Nat : p[1] < p[2]}
<1>1. IsWellFoundedOn(R, Nat)
  BY NatLessThanWellFounded DEF OpToRel
<1> HIDE DEF R
<1>2. PICK x \in T : \A y \in T : <<y, x>> \notin R
  BY <1>1, WFMin
<1>3. ASSUME NEW y \in T PROVE x <= y
  <2>1. <<y, x>> \in Nat \X Nat /\ <<y, x>>[1] = y /\ <<y, x>>[2] = x
    OBVIOUS
  <2>2. ~(y < x)
    BY <1>2, <2>1 DEF R
  <2> QED
    BY <2>2
<1> QED
  BY <1>3

\* A set of positions that has all the smaller ones is counted by its last one.
LEMMA InitialSegment ==
  ASSUME NEW n \in Nat, NEW B, B \subseteq 1 .. n,
         \A i \in B : \A j \in 1 .. n : j < i => j \in B
  PROVE  Cardinality(B) \in 0 .. n /\ B = 1 .. Cardinality(B)
<1>1. PICK m \in 0 .. n : B = 1 .. m
  <2>1. CASE B = 1 .. n
    BY <2>1
  <2>2. CASE B # 1 .. n
    <3> DEFINE T == (1 .. n) \ B
    <3>1. T \subseteq Nat /\ T # {}
      <4>1. \E x \in 1 .. n : x \notin B
        BY <2>2
      <4>2. 1 .. n \subseteq Nat
        OBVIOUS
      <4> QED
        BY <4>1, <4>2
    <3>2. PICK x \in T : \A y \in T : x <= y
      BY ONLY <3>1, LeastNat
    <3>3. x \in 1 .. n /\ x \notin B /\ x - 1 \in 0 .. n
      BY <3>2
    <3>4. \A y \in 1 .. n : y \notin B => x <= y
      BY <3>2
    <3>5. ASSUME NEW y \in 1 .. n PROVE y \in B <=> y < x
      BY <3>3, <3>4
    <3>6. \A y : y \in 1 .. x - 1 <=> y \in 1 .. n /\ y < x
      BY <3>3
    <3>7. B = 1 .. x - 1
      BY <3>5, <3>6
    <3> QED
      BY <3>3, <3>7
  <2> QED
    BY <2>1, <2>2
<1>2. Cardinality(1 .. m) = m
  <2>1. Cardinality(1 .. m) = IF 1 > m THEN 0 ELSE m - 1 + 1
    BY FS_Interval
  <2> QED
    BY <2>1
<1> QED
  BY <1>1, <1>2

\* locate_slot: the smaller keys are before the slot, the others from it on.
LEMMA LocateSlotIs ==
  ASSUME NEW leaf \in LeafOver(Pair), Ascends(leaf.data), NEW k \in Int
  PROVE  LET s == LocateSlot(leaf, k)
             d == leaf.data
         IN  /\ s \in 1 .. Len(d) + 1
             /\ \A j \in 1 .. s - 1 : d[j][1] < k
             /\ \A j \in s .. Len(d) : k <= d[j][1]
             /\ ~HasKey(leaf, k) => \A j \in s .. Len(d) : k < d[j][1]
             /\ HasKey(leaf, k) => s \in 1 .. Len(d) /\ d[s][1] = k
<1> DEFINE d == leaf.data
           B == {i \in DOMAIN d : d[i][1] < k}
           s == LocateSlot(leaf, k)
<1>1. /\ d \in Seq(Pair) /\ Len(d) \in Nat /\ DOMAIN d = 1 .. Len(d)
      /\ \A i \in 1 .. Len(d) : d[i][1] \in Int
  <2>1. d \in Seq(Pair)
    BY DEF LeafOver
  <2> QED
    BY <2>1, PairsAt
<1>2. \A i \in B : \A j \in 1 .. Len(d) : j < i => j \in B
  <2> SUFFICES ASSUME NEW i \in B, NEW j \in 1 .. Len(d), j < i PROVE j \in B
    OBVIOUS
  <2>1. i \in DOMAIN d /\ j \in DOMAIN d /\ d[i][1] < k /\ d[i][1] \in Int /\ d[j][1] \in Int
    BY <1>1
  <2>2. d[j][1] < d[i][1]
    BY <2>1 DEF Ascends
  <2>3. d[j][1] < k
    BY <2>1, <2>2
  <2> QED
    BY <2>1, <2>3
<1>3. B \subseteq 1 .. Len(d)
  BY <1>1
<1> HIDE DEF B
<1>4. Cardinality(B) \in 0 .. Len(d) /\ B = 1 .. Cardinality(B)
  BY <1>1, <1>2, <1>3, InitialSegment
<1>5. s = 1 + Cardinality(B)
  BY DEF LocateSlot, B
<1> HIDE DEF s
<1>6. s \in 1 .. Len(d) + 1 /\ B = 1 .. s - 1
  BY <1>1, <1>4, <1>5
<1>7. \A j \in 1 .. s - 1 : d[j][1] < k
  BY <1>6 DEF B
<1>8. ASSUME NEW j \in s .. Len(d) PROVE k <= d[j][1]
  <2>1. j \in 1 .. Len(d) /\ j \notin B
    BY <1>1, <1>6
  <2> QED
    BY <1>1, <2>1 DEF B
<1>9. ASSUME ~HasKey(leaf, k), NEW j \in s .. Len(d) PROVE k < d[j][1]
  <2>1. j \in 1 .. Len(d) /\ d[j][1] # k
    BY <1>1, <1>6, <1>9 DEF HasKey
  <2> QED
    BY <1>1, <1>8, <2>1
<1>10. ASSUME HasKey(leaf, k) PROVE s \in 1 .. Len(d) /\ d[s][1] = k
  <2>1. PICK i \in 1 .. Len(d) : d[i][1] = k
    BY <1>1, <1>10 DEF HasKey
  <2>2. i \notin 1 .. s - 1
    BY <1>7, <2>1
  <2>3. s \in 1 .. Len(d) /\ s <= i
    BY <1>1, <1>6, <2>2
  <2>4. ~(s < i)
    <3>1. s < i => d[s][1] < d[i][1]
      BY <1>1, <2>3 DEF Ascends
    <3> QED
      BY <1>1, <1>8, <2>1, <2>3, <3>1
  <2>5. s = i
    BY <1>6, <2>3, <2>4
  <2> QED
    BY <2>1, <2>5
<1> QED
  BY <1>6, <1>7, <1>8, <1>9, <1>10 DEF s

\* locate_child: the keys before the child are not larger, those after it are.
LEMMA LocateChildIs ==
  ASSUME NEW C, NEW n, IsInner(n, Key, C), NEW k \in Int,
         \A a, b \in DOMAIN n.keys : a < b => n.keys[a] < n.keys[b]
  PROVE  LET c == LocateChild(n, k)
         IN  /\ c \in DOMAIN n.child
             /\ \A j \in 1 .. c - 1 : n.keys[j] <= k
             /\ \A j \in c .. Len(n.keys) : k < n.keys[j]
<1> DEFINE ks == n.keys
           B  == {i \in DOMAIN ks : ks[i] <= k}
           c  == LocateChild(n, k)
<1>1. /\ Len(ks) \in Nat /\ DOMAIN ks = 1 .. Len(ks) /\ DOMAIN n.child = 1 .. Len(ks) + 1
      /\ \A i \in 1 .. Len(ks) : ks[i] \in Int
  <2>1. ks \in Seq(Key) /\ Len(ks) \in Nat /\ DOMAIN ks = 1 .. Len(ks)
        /\ DOMAIN n.child = 1 .. Len(ks) + 1
    BY InnerParts
  <2>2. \A i \in 1 .. Len(ks) : ks[i] \in Key
    BY <2>1, ElementOfSeq
  <2> QED
    BY <2>1, <2>2, KeyAssumption
<1>2. \A i \in B : \A j \in 1 .. Len(ks) : j < i => j \in B
  BY <1>1
<1>3. B \subseteq 1 .. Len(ks)
  BY <1>1
<1> HIDE DEF B
<1>4. Cardinality(B) \in 0 .. Len(ks) /\ B = 1 .. Cardinality(B)
  BY <1>1, <1>2, <1>3, InitialSegment
<1>5. c = 1 + Cardinality(B)
  BY DEF LocateChild, B
<1> HIDE DEF c
<1>6. c \in 1 .. Len(ks) + 1 /\ B = 1 .. c - 1
  BY <1>1, <1>4, <1>5
<1>7. \A j \in 1 .. c - 1 : ks[j] <= k
  BY <1>6 DEF B
<1>8. ASSUME NEW j \in c .. Len(ks) PROVE k < ks[j]
  <2>1. j \in 1 .. Len(ks) /\ j \notin B
    BY <1>1, <1>6
  <2> QED
    BY <1>1, <2>1 DEF B
<1> QED
  BY <1>1, <1>6, <1>7, <1>8 DEF c

-----------------------------------------------------------------------------
(* The entries of a leaf                                                   *)

\* The first entry has the least key, and the last one the largest.
LEMMA SortedEnds ==
  ASSUME NEW d, NEW P, Sorted(d, P), Len(d) > 0
  PROVE  /\ d[1] \in P /\ \A p \in P : p # d[1] => d[1][1] < p[1]
         /\ d[Len(d)] \in P /\ \A p \in P : p # d[Len(d)] => p[1] < d[Len(d)][1]
<1>1. /\ d \in Seq(Pair) /\ Ascends(d) /\ Range(d) = P
      /\ Len(d) \in Nat /\ DOMAIN d = 1 .. Len(d)
  BY LenProperties DEF Sorted
<1>2. 1 \in DOMAIN d /\ Len(d) \in DOMAIN d
  BY <1>1
<1>3. ASSUME NEW p \in P PROVE /\ p # d[1] => d[1][1] < p[1]
                               /\ p # d[Len(d)] => p[1] < d[Len(d)][1]
  <2>1. PICK i \in DOMAIN d : p = d[i]
    BY <1>1 DEF Range
  <2>2. (i = 1 \/ 1 < i) /\ (i = Len(d) \/ i < Len(d))
    BY <1>1
  <2> QED
    BY <1>1, <1>2, <2>1, <2>2 DEF Ascends
<1> QED
  BY <1>1, <1>2, <1>3 DEF Range

\* pop and pop_front.
LEMMA PopSorted ==
  ASSUME NEW d, NEW P, Sorted(d, P), Len(d) > 0
  PROVE  Sorted(Front(d), P \ {d[Len(d)]}) /\ Sorted(Tail(d), P \ {d[1]})
<1>1. /\ d \in Seq(Pair) /\ Ascends(d) /\ Range(d) = P /\ IsInjective(d)
      /\ Len(d) \in Nat /\ d # <<>>
  BY LenProperties, SortedOnce DEF Sorted
<1>2. Range(Front(d)) = P \ {d[Len(d)]} /\ Range(Tail(d)) = P \ {d[1]}
  BY <1>1, OnceEnds DEF Once
<1>3. Front(d) = SubSeq(d, 1, Len(d) - 1) /\ Tail(d) = SubSeq(d, 2, Len(d))
  BY <1>1, TailIsSubSeq DEF Front
<1>4. Sorted(SubSeq(d, 1, Len(d) - 1), {d[i] : i \in 1 .. Len(d) - 1})
  <2>1. /\ d \in Seq(Pair) /\ Ascends(d) /\ 1 \in Nat \ {0} /\ Len(d) - 1 \in Nat
        /\ Len(d) - 1 <= Len(d) /\ 1 <= (Len(d) - 1) + 1
    BY <1>1
  <2> QED
    BY ONLY <2>1, SortedCut
<1>5. Sorted(SubSeq(d, 2, Len(d)), {d[i] : i \in 2 .. Len(d)})
  <2>1. /\ d \in Seq(Pair) /\ Ascends(d) /\ 2 \in Nat \ {0} /\ Len(d) \in Nat
        /\ Len(d) <= Len(d) /\ 2 <= Len(d) + 1
    BY <1>1
  <2> QED
    BY ONLY <2>1, SortedCut
<1> QED
  BY <1>2, <1>3, <1>4, <1>5 DEF Sorted

\* The key of an entry of a leaf, and the entries of the leaf.
HoldsPairs(leaf, P) == leaf \in LeafOver(Pair) /\ Sorted(leaf.data, P)

\* A write to the value of one entry.
LEMMA SetValueHolds ==
  ASSUME NEW leaf, NEW P, HoldsPairs(leaf, P), NEW slot \in 1 .. Len(leaf.data),
         NEW v \in Value
  PROVE  LET e == <<leaf.data[slot][1], v>>
         IN  HoldsPairs(SetValue(leaf, slot, v), (P \ {leaf.data[slot]}) \cup {e})
<1> DEFINE e == <<leaf.data[slot][1], v>>
           d == [leaf.data EXCEPT ![slot] = e]
<1>1. leaf \in LeafOver(Pair) /\ Sorted(leaf.data, P)
  BY DEF HoldsPairs
<1>2. e \in Pair /\ Sorted(d, (P \ {leaf.data[slot]}) \cup {e})
  BY <1>1, SortedPut
<1>3. SetValue(leaf, slot, v) \in LeafOver(Pair)
  BY <1>1, <1>2, SetValueType
<1>4. SetValue(leaf, slot, v).data = d
  BY <1>1 DEF SetValue, LeafOver
<1> QED
  BY <1>2, <1>3, <1>4 DEF HoldsPairs

\* The insert branch of try_upsert, at the slot that locate_slot returns.
LEMMA InsertInLeafHolds ==
  ASSUME NEW leaf, NEW P, HoldsPairs(leaf, P), NEW e \in Pair, ~HasKey(leaf, e[1])
  PROVE  HoldsPairs(InsertInLeaf(leaf, LocateSlot(leaf, e[1]), e), P \cup {e})
<1> DEFINE s == LocateSlot(leaf, e[1])
           d == leaf.data
<1>1. leaf \in LeafOver(Pair) /\ Sorted(d, P) /\ Ascends(d) /\ e[1] \in Int
  BY KeyAssumption DEF HoldsPairs, Sorted, Pair
<1>2. /\ s \in 1 .. Len(d) + 1
      /\ \A j \in 1 .. s - 1 : d[j][1] < e[1]
      /\ \A j \in s .. Len(d) : e[1] < d[j][1]
  BY <1>1, LocateSlotIs
<1> HIDE DEF s
<1>3. Sorted(InsertAt(d, s, e), P \cup {e})
  BY <1>1, <1>2, SortedInsert
<1>4. InsertInLeaf(leaf, s, e) \in LeafOver(Pair)
  BY <1>1, <1>2, InsertInLeafType
<1>5. InsertInLeaf(leaf, s, e).data = InsertAt(d, s, e)
  BY <1>1 DEF InsertInLeaf, LeafOver
<1> QED
  BY <1>3, <1>4, <1>5 DEF HoldsPairs, s

\* delete_at.
LEMMA DeleteAtHolds ==
  ASSUME NEW leaf, NEW P, HoldsPairs(leaf, P), NEW slot \in 1 .. Len(leaf.data)
  PROVE  /\ HoldsPairs(DeleteAt(leaf, slot), P \ {leaf.data[slot]})
         /\ leaf.data[slot] \in P
<1>1. leaf \in LeafOver(Pair) /\ Sorted(leaf.data, P)
  BY DEF HoldsPairs
<1>2. /\ Sorted(RemoveAt(leaf.data, slot), P \ {leaf.data[slot]}) /\ leaf.data[slot] \in P
      /\ DeleteAt(leaf, slot) \in LeafOver(Pair)
  BY <1>1, SortedRemove, DeleteAtType
<1>3. DeleteAt(leaf, slot).data = RemoveAt(leaf.data, slot)
  BY <1>1 DEF DeleteAt, LeafOver
<1> QED
  BY <1>2, <1>3 DEF HoldsPairs

\* pop and pop_front of a leaf.
LEMMA PopLeafHolds ==
  ASSUME NEW leaf, NEW P, HoldsPairs(leaf, P), Len(leaf.data) > 0
  PROVE  /\ HoldsPairs(PopLeaf(leaf), P \ {leaf.data[Len(leaf.data)]})
         /\ HoldsPairs(PopFrontLeaf(leaf), P \ {leaf.data[1]})
<1>1. leaf \in LeafOver(Pair) /\ Sorted(leaf.data, P)
  BY DEF HoldsPairs
<1>2. /\ Sorted(Front(leaf.data), P \ {leaf.data[Len(leaf.data)]})
      /\ Sorted(Tail(leaf.data), P \ {leaf.data[1]})
      /\ PopLeaf(leaf) \in LeafOver(Pair) /\ PopFrontLeaf(leaf) \in LeafOver(Pair)
  BY <1>1, PopSorted, PopLeafType
<1>3. PopLeaf(leaf).data = Front(leaf.data) /\ PopFrontLeaf(leaf).data = Tail(leaf.data)
  BY <1>1 DEF PopLeaf, PopFrontLeaf, LeafOver
<1> QED
  BY <1>2, <1>3 DEF HoldsPairs

\* A deletion that a larger, or a smaller, item makes up for.
LEMMA DeleteWithPushHolds ==
  ASSUME NEW leaf, NEW P, HoldsPairs(leaf, P), NEW slot \in 1 .. Len(leaf.data),
         NEW e \in Pair
  PROVE  /\ Precedes(FirstOf(P), {e[1]}) =>
                HoldsPairs(DeleteWithPush(leaf, slot, e), (P \ {leaf.data[slot]}) \cup {e})
         /\ Precedes({e[1]}, FirstOf(P)) =>
                HoldsPairs(DeleteWithPushFront(leaf, slot, e), (P \ {leaf.data[slot]}) \cup {e})
<1> DEFINE t == RemoveAt(leaf.data, slot)
           Q == P \ {leaf.data[slot]}
<1>1. leaf \in LeafOver(Pair) /\ Sorted(leaf.data, P)
  BY DEF HoldsPairs
<1>2. /\ Sorted(t, Q) /\ Sorted(<<e>>, {e})
      /\ DeleteWithPush(leaf, slot, e) \in LeafOver(Pair)
      /\ DeleteWithPushFront(leaf, slot, e) \in LeafOver(Pair)
  BY <1>1, SortedRemove, SortedOne, DeleteWithPushType
<1>3. /\ DeleteWithPush(leaf, slot, e).data = Append(t, e)
      /\ DeleteWithPushFront(leaf, slot, e).data = <<e>> \o t
  BY <1>1 DEF DeleteWithPush, DeleteWithPushFront, LeafOver
<1>4. FirstOf({e}) = {e[1]} /\ FirstOf(Q) \subseteq FirstOf(P)
  BY DEF FirstOf
<1> HIDE DEF t, Q
<1>5. Append(t, e) = t \o <<e>>
  BY <1>2, AppendIsConcat DEF Sorted
<1>6. ASSUME Precedes(FirstOf(P), {e[1]})
      PROVE  HoldsPairs(DeleteWithPush(leaf, slot, e), Q \cup {e})
  <2>1. Precedes(FirstOf(Q), FirstOf({e}))
    BY <1>4, <1>6 DEF Precedes
  <2>2. Sorted(t \o <<e>>, Q \cup {e})
    BY <1>2, <2>1, SortedConcat
  <2> QED
    BY <1>2, <1>3, <1>5, <2>2 DEF HoldsPairs
<1>7. ASSUME Precedes({e[1]}, FirstOf(P))
      PROVE  HoldsPairs(DeleteWithPushFront(leaf, slot, e), Q \cup {e})
  <2>1. Precedes(FirstOf({e}), FirstOf(Q))
    BY <1>4, <1>7 DEF Precedes
  <2>2. Sorted(<<e>> \o t, {e} \cup Q)
    BY <1>2, <2>1, SortedConcat
  <2>3. {e} \cup Q = Q \cup {e}
    OBVIOUS
  <2> QED
    BY <1>2, <1>3, <2>2, <2>3 DEF HoldsPairs
<1> QED
  BY <1>6, <1>7 DEF Q

\* The two merges with the leaf to the right.
LEMMA MergeRightHolds ==
  ASSUME NEW leaf, NEW P, HoldsPairs(leaf, P), NEW right, NEW Q, HoldsPairs(right, Q),
         Precedes(FirstOf(P), FirstOf(Q))
  PROVE  /\ HoldsPairs(MergeRight(leaf, right), P \cup Q)
         /\ \A slot \in 1 .. Len(right.data) :
                HoldsPairs(MergeRightDeleteFirst(leaf, slot, right),
                           P \cup (Q \ {right.data[slot]}))
<1>1. /\ leaf \in LeafOver(Pair) /\ Sorted(leaf.data, P)
      /\ right \in LeafOver(Pair) /\ Sorted(right.data, Q)
  BY DEF HoldsPairs
<1>2. HoldsPairs(MergeRight(leaf, right), P \cup Q)
  <2>1. Sorted(leaf.data \o right.data, P \cup Q) /\ MergeRight(leaf, right) \in LeafOver(Pair)
    BY <1>1, SortedConcat, MergeRightType
  <2>2. MergeRight(leaf, right).data = leaf.data \o right.data
    BY <1>1 DEF MergeRight, LeafOver
  <2> QED
    BY <2>1, <2>2 DEF HoldsPairs
<1>3. ASSUME NEW slot \in 1 .. Len(right.data)
      PROVE  HoldsPairs(MergeRightDeleteFirst(leaf, slot, right), P \cup (Q \ {right.data[slot]}))
  <2> DEFINE low  == SubSeq(right.data, 1, slot - 1)
             high == SubSeq(right.data, slot + 1, Len(right.data))
             m    == MergeRightDeleteFirst(leaf, slot, right)
  <2>1. Sorted(RemoveAt(right.data, slot), Q \ {right.data[slot]})
    BY <1>1, SortedRemove
  <2>2. RemoveAt(right.data, slot) = low \o high
    BY DEF RemoveAt
  <2>3. m.data = (leaf.data \o low) \o high
    BY <1>1 DEF MergeRightDeleteFirst, LeafOver
  <2>10. m \in LeafOver(Pair)
    BY <1>1, MergeRightDeleteFirstType
  <2>4. /\ Len(right.data) \in Nat /\ right.data \in Seq(Pair) /\ leaf.data \in Seq(Pair)
        /\ 1 \in Nat \ {0} /\ slot - 1 \in Nat /\ slot - 1 <= Len(right.data)
        /\ 1 <= (slot - 1) + 1
        /\ slot + 1 \in Nat \ {0} /\ slot + 1 <= Len(right.data) + 1
    BY <1>1, LenProperties DEF Sorted
  <2>5. low \in Seq(Pair) /\ high \in Seq(Pair)
    BY <2>4, CutType
  <2> DEFINE ld == leaf.data
  <2>12. ld \in Seq(Pair) /\ m.data = (ld \o low) \o high
    BY <2>3, <2>4
  <2> HIDE DEF low, high, m, ld
  <2>13. (ld \o low) \o high = ld \o (low \o high)
    BY <2>5, <2>12, ConcatAssociative
  <2>6. m.data = leaf.data \o (low \o high)
    BY <2>12, <2>13 DEF ld
  <2>7. FirstOf(Q \ {right.data[slot]}) \subseteq FirstOf(Q)
    BY DEF FirstOf
  <2>8. Precedes(FirstOf(P), FirstOf(Q \ {right.data[slot]}))
    BY <2>7 DEF Precedes
  <2>9. Sorted(leaf.data \o (low \o high), P \cup (Q \ {right.data[slot]}))
    BY <1>1, <2>1, <2>2, <2>8, SortedConcat
  <2>11. HoldsPairs(m, P \cup (Q \ {right.data[slot]}))
    BY <2>6, <2>9, <2>10 DEF HoldsPairs
  <2> QED
    BY <2>11 DEF m
<1> QED
  BY <1>2, <1>3

\* The sizes that a split leaves are enough for a leaf.
LEMMA LeafMinimumIs ==
  /\ LEAF_MIN \in Nat /\ 1 <= LEAF_MIN /\ LEAF_N \in Nat
  /\ LeafSplitOriginSize \in Nat /\ LEAF_MIN <= LeafSplitOriginSize
  /\ LeafSplitOriginSize + LEAF_MIN <= LEAF_N
BY LeafAssumption DEF LEAF_MIN, LeafSplitOriginSize

\* split_new_leaf of a full leaf: the entries and the new one, cut in two.
LEMMA SplitNewLeafHolds ==
  ASSUME NEW leaf, NEW P, HoldsPairs(leaf, P), Len(leaf.data) = LEAF_N,
         NEW e \in Pair, ~HasKey(leaf, e[1]), NEW newId \in Nat, NEW selfId \in Nat
  PROVE  LET s == SplitNewLeaf(leaf, LocateSlot(leaf, e[1]), e, newId, selfId)
         IN  \E Q1, Q2 :
                 /\ HoldsPairs(s.left, Q1) /\ HoldsPairs(s.right, Q2)
                 /\ Q1 \cup Q2 = P \cup {e} /\ Precedes(FirstOf(Q1), FirstOf(Q2))
                 /\ Len(s.left.data) >= LEAF_MIN /\ Len(s.right.data) >= LEAF_MIN
<1> DEFINE slot == LocateSlot(leaf, e[1])
           d    == leaf.data
           o    == LeafSplitOriginSize
           s    == SplitNewLeaf(leaf, slot, e, newId, selfId)
           low  == SubSeq(d, 1, o)
           high == SubSeq(d, o + 1, LEAF_N)
           LowR == {d[j] : j \in 1 .. o}
           HiR  == {d[j] : j \in o + 1 .. LEAF_N}
<1>1. /\ leaf \in LeafOver(Pair) /\ Sorted(d, P) /\ Ascends(d) /\ e[1] \in Int
      /\ d \in Seq(Pair) /\ DOMAIN d = 1 .. LEAF_N /\ LEAF_N \in Nat /\ Range(d) = P
  BY KeyAssumption, LenProperties DEF HoldsPairs, Sorted, Pair
<1>2. /\ slot \in 1 .. LEAF_N + 1
      /\ \A j \in 1 .. slot - 1 : d[j][1] < e[1]
      /\ \A j \in slot .. LEAF_N : e[1] < d[j][1]
  BY <1>1, LocateSlotIs
<1>3. /\ o \in Nat /\ 1 <= o /\ o < LEAF_N /\ LEAF_MIN <= o /\ o + LEAF_MIN <= LEAF_N
      /\ LEAF_MIN \in Nat /\ 1 <= LEAF_MIN
      /\ 1 \in Nat \ {0} /\ o + 1 \in Nat \ {0}
  BY LeafMinimumIs
<1>4. s.left \in LeafOver(Pair) /\ s.right \in LeafOver(Pair)
  BY <1>1, <1>2, SplitNewLeafType
<1>5. /\ s.left.data = IF slot <= o THEN InsertAt(low, slot, e) ELSE low
      /\ s.right.data = IF slot <= o THEN high ELSE InsertAt(high, slot - o, e)
  BY DEF SplitNewLeaf
<1> HIDE DEF slot, o, s
<1>6. /\ Sorted(low, LowR) /\ Len(low) = o /\ low \in Seq(Pair)
      /\ \A j \in 1 .. o : low[j] = d[j]
  <2>1. Sorted(low, LowR) /\ low \in Seq(Pair) /\ Len(low) = o - 1 + 1
    BY <1>1, <1>3, SortedCut, CutType
  <2>2. \A j \in 1 .. o - 1 + 1 : low[j] = d[1 + j - 1]
    BY <1>1, <1>3, CutElems
  <2> HIDE DEF low
  <2> QED
    BY <1>3, <2>1, <2>2
<1>7. /\ Sorted(high, HiR) /\ Len(high) = LEAF_N - o /\ high \in Seq(Pair)
      /\ \A j \in 1 .. LEAF_N - o : high[j] = d[o + j]
  <2>1. Sorted(high, HiR) /\ high \in Seq(Pair) /\ Len(high) = LEAF_N - (o + 1) + 1
    BY <1>1, <1>3, SortedCut, CutType
  <2>2. \A j \in 1 .. LEAF_N - (o + 1) + 1 : high[j] = d[(o + 1) + j - 1]
    BY <1>1, <1>3, CutElems
  <2>3. LEAF_N - (o + 1) + 1 = LEAF_N - o /\ \A j \in 1 .. LEAF_N - o : (o + 1) + j - 1 = o + j
    BY <1>1, <1>3
  <2> HIDE DEF high
  <2> QED
    BY <2>1, <2>2, <2>3
<1>8. LowR \cup HiR = P
  BY <1>1, <1>3 DEF Range
<1>9. \A a \in LowR, b \in HiR : a[1] < b[1]
  <2>1. \A i \in 1 .. o : \A j \in o + 1 .. LEAF_N : i \in DOMAIN d /\ j \in DOMAIN d /\ i < j
    BY <1>1, <1>3
  <2>2. \A i \in 1 .. o : \A j \in o + 1 .. LEAF_N : d[i][1] < d[j][1]
    BY <1>1, <2>1 DEF Ascends
  <2> QED
    BY <2>2
<1>10. CASE slot <= o
  <2>1. /\ \A j \in 1 .. slot - 1 : low[j][1] < e[1]
        /\ \A j \in slot .. Len(low) : e[1] < low[j][1]
        /\ slot \in 1 .. Len(low) + 1
    <3>1. \A j \in 1 .. slot - 1 : j \in 1 .. o
      BY <1>2, <1>3, <1>10
    <3>2. \A j \in slot .. o : j \in 1 .. o /\ j \in slot .. LEAF_N
      BY <1>1, <1>2, <1>3, <1>10
    <3>3. slot \in 1 .. o + 1
      BY <1>2, <1>3, <1>10
    <3> HIDE DEF low
    <3> QED
      BY <1>2, <1>6, <3>1, <3>2, <3>3
  <2>2. \A b \in HiR : e[1] < b[1]
    BY <1>1, <1>2, <1>3, <1>10
  <2> HIDE DEF low, high, LowR, HiR
  <2>3. Sorted(s.left.data, LowR \cup {e}) /\ Len(s.left.data) = o + 1
    <3>1. s.left.data = InsertAt(low, slot, e)
      BY <1>5, <1>10
    <3>2. Sorted(InsertAt(low, slot, e), LowR \cup {e})
      BY <1>6, <2>1, SortedInsert
    <3>3. Len(InsertAt(low, slot, e)) = Len(low) + 1
      BY <1>6, <2>1, InsertAtType
    <3> QED
      BY <1>6, <3>1, <3>2, <3>3
  <2>4. Sorted(s.right.data, HiR) /\ Len(s.right.data) = LEAF_N - o
    BY <1>5, <1>7, <1>10
  <2>5. Precedes(FirstOf(LowR \cup {e}), FirstOf(HiR))
    BY <1>9, <2>2 DEF Precedes, FirstOf
  <2>6. (LowR \cup {e}) \cup HiR = P \cup {e}
    BY <1>8
  <2>7. Len(s.left.data) >= LEAF_MIN /\ Len(s.right.data) >= LEAF_MIN
    BY <1>1, <1>3, <2>3, <2>4
  <2>8. HoldsPairs(s.left, LowR \cup {e}) /\ HoldsPairs(s.right, HiR)
    BY <1>4, <2>3, <2>4 DEF HoldsPairs
  <2> QED
    BY <2>5, <2>6, <2>7, <2>8 DEF s, slot
<1>11. CASE slot > o
  <2>1. /\ \A j \in 1 .. (slot - o) - 1 : high[j][1] < e[1]
        /\ \A j \in slot - o .. Len(high) : e[1] < high[j][1]
        /\ slot - o \in 1 .. Len(high) + 1
    <3> HIDE DEF high
    <3>1. \A j \in 1 .. (slot - o) - 1 : j \in 1 .. LEAF_N - o /\ o + j \in 1 .. slot - 1
      BY <1>1, <1>2, <1>3, <1>11
    <3>2. \A j \in slot - o .. LEAF_N - o : j \in 1 .. LEAF_N - o /\ o + j \in slot .. LEAF_N
      BY <1>1, <1>2, <1>3, <1>11
    <3>3. slot - o \in 1 .. LEAF_N - o + 1
      BY <1>1, <1>2, <1>3, <1>11
    <3> QED
      BY <1>2, <1>7, <3>1, <3>2, <3>3
  <2>2. \A a \in LowR : a[1] < e[1]
    BY <1>1, <1>2, <1>3, <1>11
  <2> HIDE DEF low, high, LowR, HiR
  <2>3. Sorted(s.right.data, HiR \cup {e}) /\ Len(s.right.data) = LEAF_N - o + 1
    <3>1. s.right.data = InsertAt(high, slot - o, e)
      BY <1>2, <1>3, <1>5, <1>11
    <3> QED
      <4> DEFINE x == slot - o
      <4>1. x \in 1 .. Len(high) + 1 /\ s.right.data = InsertAt(high, x, e)
        BY <2>1, <3>1
      <4>2. /\ \A j \in 1 .. x - 1 : high[j][1] < e[1]
            /\ \A j \in x .. Len(high) : e[1] < high[j][1]
        BY <2>1
      <4> HIDE DEF x
      <4>3. Sorted(InsertAt(high, x, e), HiR \cup {e})
        BY <1>7, <4>1, <4>2, SortedInsert
      <4>4. Len(InsertAt(high, x, e)) = Len(high) + 1
        BY <1>7, <4>1, InsertAtType
      <4> QED
        BY <1>7, <4>1, <4>3, <4>4
  <2>4. Sorted(s.left.data, LowR) /\ Len(s.left.data) = o
    BY <1>2, <1>3, <1>5, <1>6, <1>11
  <2>5. Precedes(FirstOf(LowR), FirstOf(HiR \cup {e}))
    BY <1>9, <2>2 DEF Precedes, FirstOf
  <2>6. LowR \cup (HiR \cup {e}) = P \cup {e}
    BY <1>8
  <2>7. Len(s.left.data) >= LEAF_MIN /\ Len(s.right.data) >= LEAF_MIN
    BY <1>1, <1>3, <2>3, <2>4
  <2>8. HoldsPairs(s.left, LowR) /\ HoldsPairs(s.right, HiR \cup {e})
    BY <1>4, <2>3, <2>4 DEF HoldsPairs
  <2> QED
    BY <2>5, <2>6, <2>7, <2>8 DEF s, slot
<1> QED
  BY <1>2, <1>3, <1>10, <1>11

-----------------------------------------------------------------------------
(* What a node routes to its children                                      *)

\* The keys and children of a node.
LEMMA NodeParts ==
  ASSUME NEW C, NEW n, IsInner(n, Key, C)
  PROVE  /\ n.keys \in Seq(Key) /\ n.child \in Seq(C) /\ Len(n.keys) \in Nat
         /\ Len(n.child) = Len(n.keys) + 1
         /\ DOMAIN n.keys = 1 .. Len(n.keys) /\ DOMAIN n.child = 1 .. Len(n.keys) + 1
         /\ \A i \in 1 .. Len(n.keys) : n.keys[i] \in Int /\ n.keys[i] \in Key
<1>1. /\ n.keys \in Seq(Key) /\ n.child \in Seq(C) /\ Len(n.keys) \in Nat
      /\ DOMAIN n.keys = 1 .. Len(n.keys) /\ DOMAIN n.child = 1 .. Len(n.keys) + 1
      /\ Len(n.child) = Len(n.keys) + 1
  BY InnerParts DEF IsInner
<1>2. \A i \in 1 .. Len(n.keys) : n.keys[i] \in Key
  BY <1>1, ElementOfSeq
<1> QED
  BY <1>1, <1>2, KeyAssumption

\* Two sets around a separator are the two sides of their union.
LEMMA SeparatesIs ==
  ASSUME NEW A, NEW B, A \subseteq Int, B \subseteq Int, NEW k, Separates(k, A, B)
  PROVE  /\ k \in B /\ k \in Int /\ A # {} /\ Precedes(A, B)
         /\ A = {z \in A \cup B : z < k} /\ B = {z \in A \cup B : k <= z}
<1>1. /\ k \in B /\ k \in Int /\ A # {}
      /\ \A z \in A : z \in Int /\ z < k
      /\ \A z \in B : z \in Int /\ k <= z
  BY DEF Separates
<1>2. Precedes(A, B)
  BY <1>1 DEF Precedes
<1>3. \A z \in Int : z < k <=> ~(k <= z)
  BY <1>1
<1>4. \A z : z \in A <=> z \in A \cup B /\ z < k
  BY <1>1, <1>3
<1>5. \A z : z \in B <=> z \in A \cup B /\ k <= z
  BY <1>1, <1>3
<1> QED
  BY <1>1, <1>2, <1>4, <1>5

\* The two sides of a key that is not the least of a set.
LEMMA SeparatesFrom ==
  ASSUME NEW U, U \subseteq Int, NEW k \in U, NEW x \in U, x < k
  PROVE  /\ Separates(k, {z \in U : z < k}, {z \in U : k <= z})
         /\ {z \in U : z < k} \cup {z \in U : k <= z} = U
<1> DEFINE A == {z \in U : z < k}
           B == {z \in U : k <= z}
<1>1. k \in Int /\ k <= k /\ \A z \in U : z < k \/ k <= z
  OBVIOUS
<1>2. A \cup B = U
  BY <1>1
<1>3. x \in A /\ k \in B /\ (\A z \in A : z < k) /\ (\A z \in B : k <= z)
  BY <1>1
<1> HIDE DEF A, B
<1>4. Separates(k, A, B)
  BY <1>3 DEF Separates
<1> QED
  BY <1>2, <1>4 DEF A, B

\* What holds from each position of a sequence to the next holds over any distance.
LEMMA StepwiseLess ==
  ASSUME NEW L \in Nat, NEW f, \A c \in 1 .. L : f[c] \in Int,
         \A c \in 1 .. L : c + 1 \in 1 .. L => f[c] < f[c + 1]
  PROVE  \A a, b \in 1 .. L : a < b => f[a] < f[b]
<1> SUFFICES ASSUME NEW a \in 1 .. L,
                    {b \in 1 .. L : a < b /\ ~(f[a] < f[b])} # {}
             PROVE  FALSE
  OBVIOUS
<1> DEFINE T == {b \in 1 .. L : a < b /\ ~(f[a] < f[b])}
<1>1. T \subseteq Nat /\ T # {}
  OBVIOUS
<1> HIDE DEF T
<1>2. PICK b \in T : \A y \in T : b <= y
  BY <1>1, LeastNat
<1>3. b \in 1 .. L /\ a < b /\ ~(f[a] < f[b])
  BY <1>2 DEF T
<1>4. b - 1 \in 1 .. L /\ (b - 1) + 1 = b /\ ~(b <= b - 1)
  BY <1>3
<1>5. f[b - 1] < f[b]
  BY <1>3, <1>4
<1>6. b - 1 \notin T
  BY <1>2, <1>4
<1>7. a = b - 1 \/ f[a] < f[b - 1]
  BY <1>3, <1>4, <1>6 DEF T
<1> QED
  BY <1>3, <1>4, <1>5, <1>7

\* Every child of a node gets some of its keys, and a later one the larger ones.
LEMMA RoutesApart ==
  ASSUME NEW C, NEW n, IsInner(n, Key, C), NEW S, S \subseteq Key, S # {},
         NEW W, Routes(n, S, W)
  PROVE  /\ \A c \in DOMAIN n.child : W[n.child[c]] # {} /\ W[n.child[c]] \subseteq S
         /\ \A a, b \in DOMAIN n.keys : a < b => n.keys[a] < n.keys[b]
         /\ \A c, d \in DOMAIN n.child : c < d => Precedes(W[n.child[c]], W[n.child[d]])
<1> SUFFICES ASSUME NEW L, L = Len(n.keys), NEW ks, ks = n.keys, NEW cs, cs = n.child
             PROVE  /\ \A c \in 1 .. L + 1 : W[cs[c]] # {} /\ W[cs[c]] \subseteq S
                    /\ \A a, b \in 1 .. L : a < b => ks[a] < ks[b]
                    /\ \A c, d \in 1 .. L + 1 : c < d => Precedes(W[cs[c]], W[cs[d]])
  BY NodeParts
<1>1. /\ L \in Nat /\ DOMAIN ks = 1 .. L /\ DOMAIN cs = 1 .. L + 1
      /\ \A i \in 1 .. L : ks[i] \in Int
      /\ S \subseteq Int
  BY NodeParts, KeyAssumption
<1>2. /\ S = UNION {W[x] : x \in Range(cs)}
      /\ \A c \in 1 .. L : Separates(ks[c], W[cs[c]], W[cs[c + 1]])
  BY <1>1 DEF Routes
<1>3. \A c \in 1 .. L + 1 : W[cs[c]] \subseteq S /\ W[cs[c]] \subseteq Int
  BY <1>1, <1>2 DEF Range
<1>4. \A c \in 1 .. L + 1 : W[cs[c]] # {}
  <2> TAKE c \in 1 .. L + 1
  <2>1. CASE c \in 1 .. L
    BY <1>2, <2>1 DEF Separates
  <2>2. CASE c = L + 1 /\ L > 0
    <3>1. L \in 1 .. L
      BY <1>1, <2>2
    <3> QED
      BY <1>2, <2>2, <3>1 DEF Separates
  <2>3. CASE c = L + 1 /\ L = 0
    <3>1. \A i \in DOMAIN cs : i = c
      BY <1>1, <2>3
    <3> QED
      BY <1>2, <3>1 DEF Range
  <2> QED
    BY <1>1, <2>1, <2>2, <2>3
<1>5. \A c \in 1 .. L : c + 1 \in 1 .. L => ks[c] < ks[c + 1]
  BY <1>1, <1>2 DEF Separates
<1>6. \A a, b \in 1 .. L : a < b => ks[a] < ks[b]
  BY <1>1, <1>5, StepwiseLess
<1>7. ASSUME NEW c \in 1 .. L + 1, NEW d \in 1 .. L + 1, c < d,
             NEW x \in W[cs[c]], NEW y \in W[cs[d]]
      PROVE  x < y
  <2>1. c \in 1 .. L /\ d - 1 \in 1 .. L /\ (d - 1) + 1 = d /\ (c = d - 1 \/ c < d - 1)
    BY <1>1, <1>7
  <2>2. x < ks[c] /\ ks[d - 1] <= y /\ x \in Int /\ y \in Int
    BY <1>2, <1>3, <2>1 DEF Separates
  <2>3. ks[c] <= ks[d - 1]
    BY <1>1, <1>6, <2>1
  <2> QED
    BY <1>1, <2>1, <2>2, <2>3
<1> QED
  BY <1>3, <1>4, <1>6, <1>7 DEF Precedes

\* A descent for a key goes on to the child that gets it.
LEMMA RouteDown ==
  ASSUME NEW C, NEW n, IsInner(n, Key, C), NEW S, S \subseteq Key, NEW W, Routes(n, S, W),
         NEW k \in S
  PROVE  /\ LocateChild(n, k) \in DOMAIN n.child
         /\ k \in W[n.child[LocateChild(n, k)]]
<1> DEFINE c == LocateChild(n, k)
<1>1. \A a, b \in DOMAIN n.keys : a < b => n.keys[a] < n.keys[b]
  BY RoutesApart
<1>2. k \in Int
  BY KeyAssumption
<1>3. /\ c \in DOMAIN n.child
      /\ \A j \in 1 .. c - 1 : n.keys[j] <= k
      /\ \A j \in c .. Len(n.keys) : k < n.keys[j]
  BY <1>1, <1>2, LocateChildIs
<1> HIDE DEF c
<1>4. PICK d \in DOMAIN n.child : k \in W[n.child[d]]
  BY DEF Routes, Range
<1>5. /\ Len(n.keys) \in Nat /\ c \in 1 .. Len(n.keys) + 1 /\ d \in 1 .. Len(n.keys) + 1
      /\ \A i \in 1 .. Len(n.keys) : n.keys[i] \in Int
      /\ \A i \in 1 .. Len(n.keys) : Separates(n.keys[i], W[n.child[i]], W[n.child[i + 1]])
  BY <1>3, <1>4, NodeParts DEF Routes
<1>6. ~(d < c)
  <2> SUFFICES ASSUME d < c PROVE FALSE
    OBVIOUS
  <2>1. d \in 1 .. Len(n.keys) /\ d \in 1 .. c - 1
    BY <1>5
  <2>2. k < n.keys[d] /\ n.keys[d] <= k
    BY <1>3, <1>4, <1>5, <2>1 DEF Separates
  <2> QED
    BY <1>2, <1>5, <2>1, <2>2
<1>7. ~(c < d)
  <2> SUFFICES ASSUME c < d PROVE FALSE
    OBVIOUS
  <2>1. d - 1 \in 1 .. Len(n.keys) /\ d - 1 \in c .. Len(n.keys) /\ (d - 1) + 1 = d
    BY <1>5
  <2>2. n.keys[d - 1] <= k /\ k < n.keys[d - 1]
    BY <1>3, <1>4, <1>5, <2>1 DEF Separates
  <2> QED
    BY <1>2, <1>5, <2>1, <2>2
<1>8. c = d
  BY <1>5, <1>6, <1>7
<1> QED
  BY <1>3, <1>4, <1>8 DEF c

\* What has no gap still has none when cut.
LEMMA IntervalCut ==
  ASSUME NEW S, S \subseteq Key, IsInterval(S), NEW k \in Int
  PROVE  IsInterval({x \in S : x < k}) /\ IsInterval({x \in S : k <= x})
<1>1. S \subseteq Int /\ Key \subseteq Int
  BY KeyAssumption
<1>2. \A a, b \in Int : a <= b /\ b < k => a < k
  OBVIOUS
<1>3. \A a, b \in Int : a <= b /\ k <= a => k <= b
  OBVIOUS
<1> QED
  BY <1>1, <1>2, <1>3 DEF IsInterval

\* The children of a node get intervals, and so do two neighbours together.
LEMMA ChildInterval ==
  ASSUME NEW C, NEW n, IsInner(n, Key, C), NEW S, S \subseteq Key, IsInterval(S),
         NEW W, Routes(n, S, W), NEW c \in DOMAIN n.child
  PROVE  /\ IsInterval(W[n.child[c]])
         /\ c + 1 \in DOMAIN n.child => IsInterval(W[n.child[c]] \cup W[n.child[c + 1]])
<1>1. /\ Len(n.keys) \in Nat /\ DOMAIN n.child = 1 .. Len(n.keys) + 1
      /\ S \subseteq Int /\ Key \subseteq Int
  BY NodeParts, KeyAssumption
<1>2. \A d \in DOMAIN n.child : W[n.child[d]] \subseteq S
  BY DEF Routes, Range
<1>3. ASSUME NEW d \in DOMAIN n.child, NEW e \in DOMAIN n.child, d < e,
             NEW x \in W[n.child[d]], NEW y \in W[n.child[e]]
      PROVE  x < y
  BY <1>2, <1>3, RoutesApart DEF Precedes
<1>4. ASSUME NEW e \in DOMAIN n.child, c <= e, e <= c + 1,
             NEW x \in W[n.child[c]] \cup W[n.child[e]],
             NEW z \in W[n.child[c]] \cup W[n.child[e]], NEW y \in Key, x <= y, y <= z
      PROVE  y \in W[n.child[c]] \cup W[n.child[e]]
  <2>1. x \in S /\ z \in S /\ x \in Int /\ y \in Int /\ z \in Int
    BY <1>1, <1>2
  <2>2. y \in S
    BY <1>4, <2>1 DEF IsInterval
  <2>3. PICK d \in DOMAIN n.child : y \in W[n.child[d]]
    BY <2>2 DEF Routes, Range
  <2>4. ~(d < c)
    <3> SUFFICES ASSUME d < c PROVE FALSE
      OBVIOUS
    <3>1. d < e
      BY <1>1, <1>4, <2>3
    <3>2. y < x
      BY <1>3, <1>4, <2>3, <3>1
    <3> QED
      BY <1>4, <2>1, <3>2
  <2>5. ~(e < d)
    <3> SUFFICES ASSUME e < d PROVE FALSE
      OBVIOUS
    <3>1. c < d
      BY <1>1, <1>4, <2>3
    <3>2. z < y
      BY <1>3, <1>4, <2>3, <3>1
    <3> QED
      BY <1>4, <2>1, <3>2
  <2>6. d = c \/ d = e
    BY <1>1, <1>4, <2>3, <2>4, <2>5
  <2> QED
    BY <2>3, <2>6
<1>5. c <= c /\ c <= c + 1 /\ c + 1 <= c + 1
  BY <1>1
<1> QED
  BY <1>4, <1>5 DEF IsInterval

\* What the children i to j of node n get.
Shares(n, W, i, j) == UNION {W[n.child[c]] : c \in i .. j}

\* The keys and children of p are a segment of those of n, after the first off.
IsSegment(p, n, off) ==
    /\ off + Len(p.keys) <= Len(n.keys)
    /\ \A i \in 1 .. Len(p.keys) : p.keys[i] = n.keys[off + i]
    /\ \A i \in 1 .. Len(p.keys) + 1 : p.child[i] = n.child[off + i]

\* A segment of a node shares out the keys of its children.
LEMMA SegmentRoutes ==
  ASSUME NEW C, NEW n, IsInner(n, Key, C), NEW p, IsInner(p, Key, C), NEW off \in Nat,
         IsSegment(p, n, off),
         NEW V, \A i \in off + 1 .. off + Len(p.keys) :
                    Separates(n.keys[i], V[n.child[i]], V[n.child[i + 1]])
  PROVE  Routes(p, Shares(n, V, off + 1, off + Len(p.keys) + 1), V)
<1> USE DEF IsSegment
<1>1. /\ Len(p.keys) \in Nat /\ DOMAIN p.keys = 1 .. Len(p.keys)
      /\ DOMAIN p.child = 1 .. Len(p.keys) + 1
  BY NodeParts
<1>2. ASSUME NEW c \in DOMAIN p.keys
      PROVE  Separates(p.keys[c], V[p.child[c]], V[p.child[c + 1]])
  <2>1. /\ c \in 1 .. Len(p.keys) /\ c \in 1 .. Len(p.keys) + 1
        /\ c + 1 \in 1 .. Len(p.keys) + 1 /\ off + (c + 1) = (off + c) + 1
        /\ off + c \in off + 1 .. off + Len(p.keys)
    <3>1. Len(p.keys) \in Nat /\ c \in 1 .. Len(p.keys) /\ off \in Nat
      BY <1>1
    <3> DEFINE L == Len(p.keys)
    <3> HIDE DEF L
    <3>2. L \in Nat /\ c \in 1 .. L /\ off \in Nat
      BY <3>1 DEF L
    <3>3. /\ c \in 1 .. L /\ c \in 1 .. L + 1
          /\ c + 1 \in 1 .. L + 1 /\ off + (c + 1) = (off + c) + 1
          /\ off + c \in off + 1 .. off + L
      BY ONLY <3>2
    <3> QED
      BY <3>3 DEF L
  <2>2. Separates(n.keys[off + c], V[n.child[off + c]], V[n.child[(off + c) + 1]])
    BY <2>1
  <2>3. p.child[c + 1] = n.child[off + (c + 1)]
    BY <2>1
  <2> QED
    BY <2>1, <2>2, <2>3
<1>3. ASSUME NEW x \in Range(p.child)
      PROVE  \E i \in off + 1 .. off + Len(p.keys) + 1 : x = n.child[i]
  <2>1. PICK i \in 1 .. Len(p.keys) + 1 : x = p.child[i]
    BY <1>1 DEF Range
  <2>2. off + i \in off + 1 .. off + Len(p.keys) + 1
    BY <1>1
  <2> QED
    BY <2>1, <2>2
<1>4. ASSUME NEW i \in off + 1 .. off + Len(p.keys) + 1
      PROVE  n.child[i] \in Range(p.child)
  <2>1. i - off \in 1 .. Len(p.keys) + 1 /\ off + (i - off) = i
    BY <1>1
  <2>2. p.child[i - off] = n.child[i]
    BY <2>1
  <2> QED
    BY <1>1, <2>1, <2>2 DEF Range
<1>5. {V[x] : x \in Range(p.child)} = {V[n.child[i]] : i \in off + 1 .. off + Len(p.keys) + 1}
  BY <1>3, <1>4
<1> QED
  BY <1>2, <1>5 DEF Routes, Shares

\* The children up to c, and those after, when a node is cut at its key c.
LEMMA CutRoutes ==
  ASSUME NEW C, NEW n, IsInner(n, Key, C), NEW S, S \subseteq Key, S # {},
         NEW W, Routes(n, S, W), NEW c \in 1 .. Len(n.keys)
  PROVE  LET A == Shares(n, W, 1, c)
             B == Shares(n, W, c + 1, Len(n.keys) + 1)
         IN  Separates(n.keys[c], A, B) /\ A \cup B = S
<1> DEFINE A == Shares(n, W, 1, c)
           B == Shares(n, W, c + 1, Len(n.keys) + 1)
<1> USE DEF Shares
<1>1. /\ Len(n.keys) \in Nat /\ DOMAIN n.keys = 1 .. Len(n.keys) /\ DOMAIN n.child = 1 .. Len(n.keys) + 1 /\ c \in 1 .. Len(n.keys)
      /\ n.keys[c] \in Int /\ S \subseteq Int
  BY NodeParts, KeyAssumption
<1>2. /\ S = UNION {W[x] : x \in Range(n.child)}
      /\ Separates(n.keys[c], W[n.child[c]], W[n.child[c + 1]])
  BY <1>1 DEF Routes
<1>3. /\ \A i \in 1 .. Len(n.keys) + 1 : W[n.child[i]] \subseteq S
      /\ \A i, j \in 1 .. Len(n.keys) + 1 : i < j => Precedes(W[n.child[i]], W[n.child[j]])
  BY <1>1, RoutesApart
<1>4. \A i \in 1 .. c : i \in 1 .. Len(n.keys) + 1 /\ (i = c \/ i < c) /\ i < c + 1
  BY <1>1
<1>5. \A i \in c + 1 .. Len(n.keys) + 1 : i \in 1 .. Len(n.keys) + 1 /\ (i = c + 1 \/ c + 1 < i)
  BY <1>1
<1>6. c \in 1 .. c /\ c + 1 \in c + 1 .. Len(n.keys) + 1 /\ c + 1 \in 1 .. Len(n.keys) + 1 /\ c \in 1 .. Len(n.keys) + 1
  BY <1>1
<1>7. ASSUME NEW z \in A PROVE z < n.keys[c] /\ z \in S
  <2>1. PICK i \in 1 .. c : z \in W[n.child[i]]
    OBVIOUS
  <2>2. z < n.keys[c]
    <3>1. n.keys[c] \in W[n.child[c + 1]]
      BY <1>2 DEF Separates
    <3> QED
      BY <1>3, <1>4, <1>6, <2>1, <3>1 DEF Precedes
  <2> QED
    BY <1>3, <1>4, <2>1, <2>2
<1>8. ASSUME NEW z \in B PROVE n.keys[c] <= z /\ z \in S
  <2>1. PICK i \in c + 1 .. Len(n.keys) + 1 : z \in W[n.child[i]]
    OBVIOUS
  <2>2. z \in S
    BY <1>3, <1>5, <2>1
  <2>3. n.keys[c] \in W[n.child[c + 1]] /\ \A y \in W[n.child[c + 1]] : n.keys[c] <= y
    BY <1>2 DEF Separates
  <2>4. c + 1 < i => n.keys[c] < z
    BY <1>3, <1>5, <1>6, <2>1, <2>3 DEF Precedes
  <2>5. c + 1 < i => n.keys[c] <= z
    BY <1>1, <2>2, <2>4
  <2> QED
    BY <1>5, <2>1, <2>2, <2>3, <2>5
<1>9. ASSUME NEW z \in S PROVE z \in A \cup B
  <2>1. PICK i \in 1 .. Len(n.keys) + 1 : z \in W[n.child[i]]
    BY <1>1, <1>2 DEF Range
  <2>2. i \in 1 .. c \/ i \in c + 1 .. Len(n.keys) + 1
    BY <1>1
  <2> QED
    BY <2>1, <2>2
<1>10. A # {} /\ n.keys[c] \in B
  BY <1>2, <1>6 DEF Separates
<1> HIDE DEF A, B
<1>11. Separates(n.keys[c], A, B)
  BY <1>7, <1>8, <1>10 DEF Separates
<1>12. A \cup B = S
  BY <1>7, <1>8, <1>9
<1> QED
  BY <1>11, <1>12 DEF A, B

\* The least key of a node is one of its first child.
LEMMA LeastIsFirst ==
  ASSUME NEW C, NEW n, IsInner(n, Key, C), NEW S, S \subseteq Key, NEW W, Routes(n, S, W),
         NEW k \in S, \A z \in S : k <= z
  PROVE  k \in W[n.child[1]]
<1>1. /\ Len(n.keys) \in Nat /\ DOMAIN n.child = 1 .. Len(n.keys) + 1 /\ S \subseteq Int
  BY NodeParts, KeyAssumption
<1>2. PICK c \in 1 .. Len(n.keys) + 1 : k \in W[n.child[c]]
  BY <1>1 DEF Routes, Range
<1>3. 1 \in 1 .. Len(n.keys) + 1 /\ (c = 1 \/ 1 < c)
  BY <1>1
<1>4. PICK y \in W[n.child[1]] : y \in S
  <2>1. 1 \in DOMAIN n.child /\ S # {}
    BY <1>1, <1>3
  <2>2. W[n.child[1]] # {} /\ W[n.child[1]] \subseteq S
    BY <2>1, RoutesApart
  <2> QED
    BY <2>2
<1>5. 1 < c => y < k
  BY <1>1, <1>2, <1>3, RoutesApart DEF Precedes
<1>6. ~(y < k)
  BY <1>1, <1>4
<1> QED
  BY <1>2, <1>3, <1>5, <1>6

\* Two ways to share out the same keys, to D or to E, next to what others get.
LEMMA UnionMoved ==
  ASSUME NEW Rest, NEW D, NEW E, NEW W, NEW V, \A x \in Rest : V[x] = W[x],
         UNION {W[x] : x \in D} = UNION {V[x] : x \in E}
  PROVE  UNION {W[x] : x \in Rest \cup D} = UNION {V[x] : x \in Rest \cup E}
<1> DEFINE A == UNION {W[x] : x \in Rest \cup D}
           B == UNION {V[x] : x \in Rest \cup E}
<1>1. ASSUME NEW z \in A PROVE z \in B
  <2>1. PICK x \in Rest \cup D : z \in W[x]
    OBVIOUS
  <2>2. x \in D => \E y \in E : z \in V[y]
    BY <2>1
  <2> QED
    BY <2>1, <2>2
<1>2. ASSUME NEW z \in B PROVE z \in A
  <2>1. PICK x \in Rest \cup E : z \in V[x]
    OBVIOUS
  <2>2. x \in E => \E y \in D : z \in W[y]
    BY <2>1
  <2> QED
    BY <2>1, <2>2
<1> HIDE DEF A, B
<1>3. A = B
  BY <1>1, <1>2
<1> QED
  BY <1>3 DEF A, B

\* insert_at: child c gives its larger keys, from k on, to its new right half x.
LEMMA InsertSlotRoutes ==
  ASSUME NEW C, NEW n, IsInner(n, Key, C), NEW R, Kids(n, R),
         NEW S, S \subseteq Key, NEW W, Routes(n, S, W),
         NEW c \in DOMAIN n.child, NEW k \in Key, NEW x \in C, x \notin R, NEW a \in Nat,
         NEW V, \A y \in R \ {n.child[c]} : V[y] = W[y],
         V[n.child[c]] \cup V[x] = W[n.child[c]],
         Separates(k, V[n.child[c]], V[x])
  PROVE  Routes(InsertSlot(n, c, k, x, a), S, V)
<1> DEFINE m == InsertSlot(n, c, k, x, a)
<1> SUFFICES ASSUME NEW L, L = Len(n.keys), NEW ks, ks = n.keys, NEW cs, cs = n.child
             PROVE  Routes(m, S, V)
  OBVIOUS
<1>1. /\ ks \in Seq(Key) /\ cs \in Seq(C) /\ L \in Nat /\ Len(cs) = L + 1
      /\ DOMAIN ks = 1 .. L /\ DOMAIN cs = 1 .. L + 1 /\ c \in 1 .. L + 1
      /\ \A i \in 1 .. L : ks[i] \in Int
  BY NodeParts
<1>2. IsInner(m, Key, C) /\ Len(m.keys) = L + 1
  BY InsertSlotType
<1>3. Kids(m, R \cup {x})
  BY InsertSlotKids
<1>4. m.keys = InsertAt(ks, c, k) /\ m.child = InsertAt(cs, c + 1, x)
  BY DEF InsertSlot
<1> HIDE DEF m
<1>5. DOMAIN m.keys = 1 .. L + 1
  BY <1>2, NodeParts
<1>6. /\ \A j \in 1 .. L : j < c => m.keys[j] = ks[j]
      /\ m.keys[c] = k
      /\ \A j \in 1 .. L : j >= c => m.keys[j + 1] = ks[j]
  <2>1. /\ ks \in Seq(Key) /\ c \in 1 .. Len(ks) + 1 /\ k \in Key /\ Len(ks) = L
    BY <1>1
  <2>2. \A j \in 1 .. L + 1 : m.keys[j] = IF j < c THEN ks[j] ELSE IF j = c THEN k ELSE ks[j - 1]
    <3>1. \A j \in 1 .. Len(ks) + 1 :
              InsertAt(ks, c, k)[j] = IF j < c THEN ks[j] ELSE IF j = c THEN k ELSE ks[j - 1]
      BY ONLY <2>1, InsertAtElems
    <3> QED
      BY <1>4, <2>1, <3>1
  <2>3. \A j \in 1 .. L : /\ j \in 1 .. L + 1 /\ j + 1 \in 1 .. L + 1 /\ (j + 1) - 1 = j
                          /\ j >= c => ~(j + 1 < c) /\ j + 1 # c
    BY <1>1
  <2>4. c \in 1 .. L + 1 /\ ~(c < c)
    BY <1>1
  <2> QED
    BY <2>2, <2>3, <2>4
<1>7. /\ \A j \in 1 .. L + 1 : j <= c => m.child[j] = cs[j]
      /\ m.child[c + 1] = x
      /\ \A j \in 1 .. L + 1 : j > c => m.child[j + 1] = cs[j]
  <2>1. /\ cs \in Seq(C) /\ c + 1 \in 1 .. Len(cs) + 1 /\ x \in C /\ Len(cs) + 1 = L + 2
    BY <1>1
  <2>2. \A j \in 1 .. L + 2 : m.child[j] = IF j < c + 1 THEN cs[j]
                                           ELSE IF j = c + 1 THEN x ELSE cs[j - 1]
    <3>1. \A j \in 1 .. Len(cs) + 1 :
              InsertAt(cs, c + 1, x)[j] = IF j < c + 1 THEN cs[j]
                                          ELSE IF j = c + 1 THEN x ELSE cs[j - 1]
      BY ONLY <2>1, InsertAtElems
    <3> QED
      BY <1>4, <2>1, <3>1
  <2>3. \A j \in 1 .. L + 1 : /\ j \in 1 .. L + 2 /\ j + 1 \in 1 .. L + 2 /\ (j + 1) - 1 = j
                              /\ j > c => ~(j + 1 < c + 1) /\ j + 1 # c + 1
                              /\ j <= c => j < c + 1
    BY <1>1
  <2>4. c + 1 \in 1 .. L + 2 /\ ~(c + 1 < c + 1)
    BY <1>1
  <2> QED
    BY <2>2, <2>3, <2>4
<1>8. \A i \in 1 .. L : Separates(ks[i], W[cs[i]], W[cs[i + 1]])
  BY <1>1 DEF Routes
<1>9. \A j \in 1 .. L + 1 : j # c => V[cs[j]] = W[cs[j]]
  BY <1>1 DEF Kids, Once, IsInjective, Range
<1>10. V[cs[c]] \subseteq W[cs[c]] /\ V[x] \subseteq W[cs[c]]
  OBVIOUS
<1>11. /\ c > 1 => c - 1 \in 1 .. L /\ (c - 1) + 1 = c /\ c - 1 # c
       /\ c <= L => c \in 1 .. L /\ c + 1 # c /\ c + 1 \in 1 .. L + 1 /\ c + 1 > c /\ c >= c
       /\ c <= c /\ c \in 1 .. L + 1
  BY <1>1
<1>12. c > 1 => Separates(ks[c - 1], V[cs[c - 1]], V[cs[c]])
  <2> SUFFICES ASSUME c > 1 PROVE Separates(ks[c - 1], V[cs[c - 1]], V[cs[c]])
    OBVIOUS
  <2>1. Separates(ks[c - 1], W[cs[c - 1]], W[cs[c]]) /\ c - 1 \in 1 .. L + 1 /\ c - 1 # c
    <3>1. c - 1 \in 1 .. L /\ (c - 1) + 1 = c /\ c - 1 \in 1 .. L + 1 /\ c - 1 # c
      BY <1>1
    <3>2. Separates(ks[c - 1], W[cs[c - 1]], W[cs[(c - 1) + 1]])
      BY <1>8, <3>1
    <3> QED
      BY <3>1, <3>2
  <2>2. V[cs[c - 1]] = W[cs[c - 1]]
    BY <1>9, <2>1
  <2>3. ks[c - 1] \in V[cs[c]] \/ ks[c - 1] \in V[x]
    BY <2>1 DEF Separates
  <2>4. PICK y \in V[cs[c]] : y < k /\ ks[c - 1] <= y
    BY <1>10, <2>1 DEF Separates
  <2>5. ks[c - 1] \notin V[x]
    <3> SUFFICES ASSUME ks[c - 1] \in V[x] PROVE FALSE
      OBVIOUS
    <3>1. k <= ks[c - 1]
      BY DEF Separates
    <3>2. y \in Int /\ k \in Int /\ ks[c - 1] \in Int
      <4>1. y \in S
        BY <1>1, <1>10 DEF Routes, Range
      <4> QED
        BY <1>1, <1>11, <4>1, KeyAssumption
    <3> QED
      BY <2>4, <3>1, <3>2
  <2> QED
    BY <1>10, <2>1, <2>2, <2>3, <2>5 DEF Separates
<1>13. c <= L => Separates(ks[c], V[x], V[cs[c + 1]])
  <2> SUFFICES ASSUME c <= L PROVE Separates(ks[c], V[x], V[cs[c + 1]])
    OBVIOUS
  <2>1. Separates(ks[c], W[cs[c]], W[cs[c + 1]]) /\ V[cs[c + 1]] = W[cs[c + 1]]
    BY <1>8, <1>9, <1>11
  <2> QED
    BY <1>10, <2>1 DEF Separates
<1>14. ASSUME NEW d \in DOMAIN m.keys
       PROVE  Separates(m.keys[d], V[m.child[d]], V[m.child[d + 1]])
  <2>0. d \in 1 .. L + 1
    BY <1>5
  <2>1. CASE d + 1 < c
    <3>1. /\ d \in 1 .. L /\ d < c /\ d # c /\ d + 1 # c /\ d \in 1 .. L + 1
          /\ d + 1 \in 1 .. L + 1 /\ d <= c /\ d + 1 <= c
      BY <1>1, <2>0, <2>1
    <3>2. /\ m.keys[d] = ks[d] /\ m.child[d] = cs[d] /\ m.child[d + 1] = cs[d + 1]
          /\ V[cs[d]] = W[cs[d]] /\ V[cs[d + 1]] = W[cs[d + 1]]
      BY <1>6, <1>7, <1>9, <3>1
    <3> QED
      BY <1>8, <3>1, <3>2
  <2>2. CASE d + 1 = c
    <3>1. /\ d = c - 1 /\ c > 1 /\ d \in 1 .. L /\ d < c /\ d <= c /\ d + 1 <= c
          /\ d \in 1 .. L + 1 /\ d + 1 \in 1 .. L + 1
      BY <1>1, <2>0, <2>2
    <3>2. m.keys[d] = ks[d] /\ m.child[d] = cs[d] /\ m.child[d + 1] = cs[d + 1]
      BY <1>6, <1>7, <3>1
    <3> QED
      BY <1>12, <2>2, <3>1, <3>2
  <2>3. CASE d = c
    <3>1. m.keys[d] = k /\ m.child[d] = cs[c] /\ m.child[d + 1] = x
      BY <1>6, <1>7, <1>11, <2>3
    <3> QED
      BY <3>1
  <2>4. CASE d = c + 1
    <3>1. c \in 1 .. L /\ c <= L /\ c >= c /\ c + 1 \in 1 .. L + 1 /\ c + 1 > c
      BY <1>1, <2>0, <2>4
    <3>2. m.keys[d] = ks[c] /\ m.child[d] = x /\ m.child[d + 1] = cs[c + 1]
      BY <1>6, <1>7, <2>4, <3>1
    <3> QED
      BY <1>13, <3>1, <3>2
  <2>5. CASE d > c + 1
    <3> DEFINE e == d - 1
    <3>1. /\ e \in 1 .. L /\ e >= c /\ e > c /\ e # c /\ e + 1 # c /\ e + 1 > c
          /\ e \in 1 .. L + 1 /\ e + 1 \in 1 .. L + 1 /\ d = e + 1
      BY <1>1, <2>0, <2>5
    <3> HIDE DEF e
    <3>2. /\ m.keys[d] = ks[e] /\ m.child[d] = cs[e] /\ m.child[d + 1] = cs[e + 1]
          /\ V[cs[e]] = W[cs[e]] /\ V[cs[e + 1]] = W[cs[e + 1]]
      BY <1>6, <1>7, <1>9, <3>1
    <3> QED
      BY <1>8, <3>1, <3>2
  <2> QED
    BY <1>1, <2>0, <2>1, <2>2, <2>3, <2>4, <2>5
<1>15. S = UNION {V[y] : y \in Range(m.child)}
  <2> DEFINE h == n.child[c]
  <2>1. h \in R /\ Range(m.child) = R \cup {x} /\ Range(n.child) = R
    BY <1>1, <1>3 DEF Kids, Once, Range
  <2>2. UNION {W[y] : y \in {h}} = UNION {V[y] : y \in {h, x}}
    OBVIOUS
  <2>3. UNION {W[y] : y \in (R \ {h}) \cup {h}} = UNION {V[y] : y \in (R \ {h}) \cup {h, x}}
    BY <2>2, UnionMoved
  <2>4. (R \ {h}) \cup {h} = R /\ (R \ {h}) \cup {h, x} = R \cup {x}
    BY <2>1
  <2> QED
    BY <2>1, <2>3, <2>4 DEF Routes
<1> QED
  BY <1>14, <1>15 DEF Routes

\* remove_slot_with_right: the child left of the key gets what the right one had.
LEMMA RemoveSlotRoutes ==
  ASSUME NEW C, NEW n, IsInner(n, Key, C), NEW R, Kids(n, R),
         NEW S, S \subseteq Key, NEW W, Routes(n, S, W),
         NEW c \in DOMAIN n.keys,
         NEW V, \A y \in R \ {n.child[c], n.child[c + 1]} : V[y] = W[y],
         V[n.child[c]] = W[n.child[c]] \cup W[n.child[c + 1]]
  PROVE  Routes(RemoveSlotWithRight(n, c), S, V)
<1> DEFINE m == RemoveSlotWithRight(n, c)
<1> SUFFICES ASSUME NEW L, L = Len(n.keys), NEW ks, ks = n.keys, NEW cs, cs = n.child
             PROVE  Routes(m, S, V)
  OBVIOUS
<1>1. /\ ks \in Seq(Key) /\ cs \in Seq(C) /\ L \in Nat /\ Len(cs) = L + 1
      /\ DOMAIN ks = 1 .. L /\ DOMAIN cs = 1 .. L + 1 /\ c \in 1 .. L
      /\ \A i \in 1 .. L : ks[i] \in Int
  BY NodeParts
<1>2. IsInner(m, Key, C) /\ Len(m.keys) = L - 1
  BY RemoveSlotWithRightType
<1>3. Kids(m, R \ {n.child[c + 1]})
  BY RemoveSlotWithRightKids
<1>4. m.keys = RemoveAt(ks, c) /\ m.child = RemoveAt(cs, c + 1)
  BY DEF RemoveSlotWithRight
<1> HIDE DEF m
<1>5. DOMAIN m.keys = 1 .. L - 1
  BY <1>2, NodeParts
<1>6. /\ \A j \in 1 .. L - 1 : j < c => m.keys[j] = ks[j]
      /\ \A j \in 1 .. L - 1 : j >= c => m.keys[j] = ks[j + 1]
  <2>1. ks \in Seq(Key) /\ c \in 1 .. Len(ks) /\ Len(ks) = L
    BY <1>1
  <2>2. \A j \in 1 .. Len(ks) - 1 : RemoveAt(ks, c)[j] = IF j < c THEN ks[j] ELSE ks[j + 1]
    BY ONLY <2>1, RemoveAtElems
  <2>3. \A j \in 1 .. L - 1 : j >= c => ~(j < c)
    BY <1>1
  <2> QED
    BY <1>4, <2>1, <2>2, <2>3
<1>7. /\ \A j \in 1 .. L : j <= c => m.child[j] = cs[j]
      /\ \A j \in 1 .. L : j > c => m.child[j] = cs[j + 1]
  <2>1. cs \in Seq(C) /\ c + 1 \in 1 .. Len(cs) /\ Len(cs) - 1 = L
    BY <1>1
  <2>2. \A j \in 1 .. Len(cs) - 1 :
            RemoveAt(cs, c + 1)[j] = IF j < c + 1 THEN cs[j] ELSE cs[j + 1]
    BY ONLY <2>1, RemoveAtElems
  <2>3. \A j \in 1 .. L : (j > c => ~(j < c + 1)) /\ (j <= c => j < c + 1)
    BY <1>1
  <2> QED
    BY <1>4, <2>1, <2>2, <2>3
<1>8. \A i \in 1 .. L : Separates(ks[i], W[cs[i]], W[cs[i + 1]])
  BY <1>1 DEF Routes
<1>9. \A j \in 1 .. L + 1 : j # c /\ j # c + 1 => V[cs[j]] = W[cs[j]]
  <2>1. c \in DOMAIN cs /\ c + 1 \in DOMAIN cs
    BY <1>1
  <2>2. /\ \A j \in DOMAIN cs : cs[j] \in R
        /\ \A i, j \in DOMAIN cs : cs[i] = cs[j] => i = j
    BY DEF Kids, Once, IsInjective, Range
  <2>3. \A j \in DOMAIN cs : j # c /\ j # c + 1 => cs[j] \in R \ {cs[c], cs[c + 1]}
    BY ONLY <2>1, <2>2
  <2> QED
    BY <1>1, <2>3
<1>10. V[cs[c]] = W[cs[c]] \cup W[cs[c + 1]]
  OBVIOUS
<1>11. W[cs[c]] \subseteq Int /\ W[cs[c + 1]] \subseteq Int
  <2>1. c \in DOMAIN cs /\ c + 1 \in DOMAIN cs
    BY <1>1
  <2>2. W[cs[c]] \subseteq S /\ W[cs[c + 1]] \subseteq S
    BY <2>1 DEF Routes, Range
  <2> QED
    BY <2>2, KeyAssumption
<1>12. Separates(ks[c], W[cs[c]], W[cs[c + 1]])
  BY <1>1, <1>8
<1>13. ASSUME NEW d \in DOMAIN m.keys
       PROVE  Separates(m.keys[d], V[m.child[d]], V[m.child[d + 1]])
  <2>0. d \in 1 .. L - 1 /\ d \in 1 .. L /\ d + 1 \in 1 .. L
    BY <1>1, <1>5
  <2>1. CASE d + 1 < c
    <3>1. /\ d < c /\ d # c /\ d # c + 1 /\ d + 1 # c /\ d + 1 # c + 1 /\ d \in 1 .. L + 1
          /\ d + 1 \in 1 .. L + 1 /\ d <= c /\ d + 1 <= c
      BY <1>1, <2>0, <2>1
    <3>2. /\ m.keys[d] = ks[d] /\ m.child[d] = cs[d] /\ m.child[d + 1] = cs[d + 1]
          /\ V[cs[d]] = W[cs[d]] /\ V[cs[d + 1]] = W[cs[d + 1]]
      BY <1>6, <1>7, <1>9, <2>0, <3>1
    <3> QED
      BY <1>8, <2>0, <3>2
  <2>2. CASE d + 1 = c
    <3>1. /\ d < c /\ d # c /\ d # c + 1 /\ d \in 1 .. L + 1 /\ d <= c /\ d + 1 <= c
      BY <1>1, <2>0, <2>2
    <3>2. /\ m.keys[d] = ks[d] /\ m.child[d] = cs[d] /\ m.child[d + 1] = cs[c]
          /\ V[cs[d]] = W[cs[d]]
      BY <1>6, <1>7, <1>9, <2>0, <2>2, <3>1
    <3>3. Separates(ks[d], W[cs[d]], W[cs[c]])
      BY <1>8, <2>0, <2>2
    <3>4. \A z \in W[cs[c + 1]] : ks[d] <= z
      <4>1. ks[d] < ks[c] /\ ks[d] \in Int /\ ks[c] \in Int
        BY <1>1, <1>12, <2>0, <3>3 DEF Separates
      <4>2. \A z \in W[cs[c + 1]] : ks[c] <= z /\ z \in Int
        BY <1>11, <1>12 DEF Separates
      <4> QED
        BY <4>1, <4>2
    <3> QED
      BY <1>10, <3>2, <3>3, <3>4 DEF Separates
  <2>3. CASE d = c
    <3>1. /\ d >= c /\ d <= c /\ d + 1 > c /\ (d + 1) + 1 \in 1 .. L + 1
          /\ (d + 1) + 1 # c /\ (d + 1) + 1 # c + 1
      BY <1>1, <2>0, <2>3
    <3>2. /\ m.keys[d] = ks[d + 1] /\ m.child[d] = cs[c] /\ m.child[d + 1] = cs[(d + 1) + 1]
          /\ V[cs[(d + 1) + 1]] = W[cs[(d + 1) + 1]]
      BY <1>6, <1>7, <1>9, <2>0, <2>3, <3>1
    <3>3. Separates(ks[d + 1], W[cs[c + 1]], W[cs[(d + 1) + 1]])
      BY <1>8, <2>0, <2>3
    <3>4. \A z \in W[cs[c]] : z < ks[d + 1]
      <4>1. ks[c] < ks[d + 1] /\ ks[c] \in Int /\ ks[d + 1] \in Int
        BY <1>1, <1>12, <2>0, <3>3 DEF Separates
      <4>2. \A z \in W[cs[c]] : z < ks[c] /\ z \in Int
        BY <1>11, <1>12 DEF Separates
      <4> QED
        BY <4>1, <4>2
    <3> QED
      BY <1>10, <3>2, <3>3, <3>4 DEF Separates
  <2>4. CASE d > c
    <3> DEFINE e == d + 1
    <3>1. /\ e \in 1 .. L /\ d >= c /\ e > c /\ e # c /\ e # c + 1 /\ e + 1 # c /\ e + 1 # c + 1
          /\ e \in 1 .. L + 1 /\ e + 1 \in 1 .. L + 1 /\ d + 1 = e
      <4>1. L \in Nat /\ c \in 1 .. L /\ d \in Int /\ d <= L - 1 /\ c + 1 <= d
        BY <1>1, <2>0, <2>4
      <4> QED
        BY ONLY <4>1
    <3>2. m.keys[d] = ks[e] /\ m.child[d] = cs[e]
      BY <1>6, <1>7, <2>0, <2>4, <3>1
    <3> HIDE DEF e
    <3>3. /\ m.child[e] = cs[e + 1] /\ V[cs[e]] = W[cs[e]] /\ V[cs[e + 1]] = W[cs[e + 1]]
      BY <1>7, <1>9, <3>1
    <3> QED
      BY <1>8, <3>1, <3>2, <3>3
  <2> QED
    BY <1>1, <2>0, <2>1, <2>2, <2>3, <2>4
<1>14. S = UNION {V[y] : y \in Range(m.child)}
  <2> DEFINE h == n.child[c]
             g == n.child[c + 1]
  <2>1. h \in R /\ g \in R /\ h # g /\ Range(m.child) = R \ {g} /\ Range(n.child) = R
    <3>1. c \in DOMAIN n.child /\ c + 1 \in DOMAIN n.child /\ c # c + 1
      BY <1>1
    <3> QED
      BY <1>3, <3>1 DEF Kids, Once, Range, IsInjective
  <2>2. UNION {W[y] : y \in {h, g}} = UNION {V[y] : y \in {h}}
    OBVIOUS
  <2>3. UNION {W[y] : y \in (R \ {h, g}) \cup {h, g}} = UNION {V[y] : y \in (R \ {h, g}) \cup {h}}
    BY <2>2, UnionMoved
  <2>4. (R \ {h, g}) \cup {h, g} = R /\ (R \ {h, g}) \cup {h} = R \ {g}
    BY <2>1
  <2> QED
    BY <2>1, <2>3, <2>4 DEF Routes
<1> QED
  BY <1>13, <1>14 DEF Routes

\* set_key: the two children around the key share out anew what they have.
LEMMA SetKeyRoutes ==
  ASSUME NEW C, NEW n, IsInner(n, Key, C), NEW R, Kids(n, R),
         NEW S, S \subseteq Key, NEW W, Routes(n, S, W),
         NEW c \in DOMAIN n.keys, NEW k \in Key,
         NEW V, \A y \in R \ {n.child[c], n.child[c + 1]} : V[y] = W[y],
         V[n.child[c]] \cup V[n.child[c + 1]] = W[n.child[c]] \cup W[n.child[c + 1]],
         Separates(k, V[n.child[c]], V[n.child[c + 1]])
  PROVE  Routes(SetKey(n, c, k), S, V)
<1> DEFINE m == SetKey(n, c, k)
<1> SUFFICES ASSUME NEW L, L = Len(n.keys), NEW ks, ks = n.keys, NEW cs, cs = n.child
             PROVE  Routes(m, S, V)
  OBVIOUS
<1>1. /\ ks \in Seq(Key) /\ cs \in Seq(C) /\ L \in Nat /\ Len(cs) = L + 1
      /\ DOMAIN ks = 1 .. L /\ DOMAIN cs = 1 .. L + 1 /\ c \in 1 .. L
      /\ \A i \in 1 .. L : ks[i] \in Int
  BY NodeParts
<1>2. /\ DOMAIN m.keys = 1 .. L /\ m.child = cs /\ m.keys[c] = k
      /\ \A j \in 1 .. L : j # c => m.keys[j] = ks[j]
  BY <1>1 DEF SetKey, IsInner
<1> HIDE DEF m
<1>3. \A i \in 1 .. L : Separates(ks[i], W[cs[i]], W[cs[i + 1]])
  BY <1>1 DEF Routes
<1>4. c \in DOMAIN cs /\ c + 1 \in DOMAIN cs /\ c # c + 1
  BY <1>1
<1>5. \A j \in 1 .. L + 1 : j # c /\ j # c + 1 => V[cs[j]] = W[cs[j]]
  BY <1>1, <1>4 DEF Kids, Once, IsInjective, Range
<1>6. W[cs[c]] \subseteq Int /\ W[cs[c + 1]] \subseteq Int /\ k \in Int
  <2>1. W[cs[c]] \subseteq S /\ W[cs[c + 1]] \subseteq S
    BY <1>4 DEF Routes, Range
  <2> QED
    BY <2>1, KeyAssumption
<1>7. /\ Separates(ks[c], W[cs[c]], W[cs[c + 1]]) /\ Separates(k, V[cs[c]], V[cs[c + 1]])
      /\ V[cs[c]] \cup V[cs[c + 1]] = W[cs[c]] \cup W[cs[c + 1]]
  BY <1>1, <1>3
<1>8. ASSUME NEW d \in DOMAIN m.keys
      PROVE  Separates(m.keys[d], V[m.child[d]], V[m.child[d + 1]])
  <2>0. d \in 1 .. L
    BY <1>2
  <2>1. CASE d = c
    BY <1>2, <1>7, <2>1
  <2>2. CASE d + 1 = c
    <3>1. d # c /\ d # c + 1 /\ d \in 1 .. L + 1
      BY <1>1, <2>0, <2>2
    <3>2. m.keys[d] = ks[d] /\ V[cs[d]] = W[cs[d]]
      BY <1>2, <1>5, <2>0, <3>1
    <3>3. Separates(ks[d], W[cs[d]], W[cs[c]])
      BY <1>3, <2>0, <2>2
    <3>4. ks[d] \in Int /\ ks[c] \in Int /\ ks[d] < ks[c]
      BY <1>1, <1>7, <2>0, <3>3 DEF Separates
    <3>5. \A z \in W[cs[c]] \cup W[cs[c + 1]] : ks[d] <= z /\ z \in Int
      <4>1. \A z \in W[cs[c]] : ks[d] <= z /\ z \in Int
        BY <1>6, <3>3 DEF Separates
      <4>2. \A z \in W[cs[c + 1]] : ks[c] <= z /\ z \in Int
        BY <1>6, <1>7 DEF Separates
      <4> QED
        BY <3>4, <4>1, <4>2
    <3>6. ks[d] \in V[cs[c]]
      <4>1. ks[d] \in W[cs[c]]
        BY <3>3 DEF Separates
      <4>2. PICK y \in V[cs[c]] : y < k
        BY <1>7 DEF Separates
      <4>3. ks[d] <= y /\ y \in Int
        BY <1>7, <3>5
      <4>4. ~(k <= ks[d])
        BY <1>6, <3>4, <4>2, <4>3
      <4>5. ks[d] \notin V[cs[c + 1]]
        BY <1>7, <4>4 DEF Separates
      <4> QED
        BY <1>7, <4>1, <4>5
    <3>7. Separates(ks[d], W[cs[d]], V[cs[c]])
      BY <1>7, <3>3, <3>5, <3>6 DEF Separates
    <3> QED
      BY <1>2, <2>2, <3>2, <3>7
  <2>3. CASE d = c + 1
    <3>1. d # c /\ d + 1 # c /\ d + 1 # c + 1 /\ d + 1 \in 1 .. L + 1
      BY <1>1, <2>0, <2>3
    <3>2. m.keys[d] = ks[d] /\ V[cs[d + 1]] = W[cs[d + 1]]
      BY <1>2, <1>5, <2>0, <3>1
    <3>3. Separates(ks[d], W[cs[c + 1]], W[cs[d + 1]])
      BY <1>3, <2>0, <2>3
    <3>4. ks[d] \in Int /\ ks[c] \in Int /\ ks[c] < ks[d]
      BY <1>1, <1>7, <2>0, <3>3 DEF Separates
    <3>5. \A z \in W[cs[c]] \cup W[cs[c + 1]] : z < ks[d]
      <4>1. \A z \in W[cs[c]] : z < ks[c] /\ z \in Int
        BY <1>6, <1>7 DEF Separates
      <4>2. \A z \in W[cs[c + 1]] : z < ks[d]
        BY <3>3 DEF Separates
      <4> QED
        BY <3>4, <4>1, <4>2
    <3>6. Separates(ks[d], V[cs[c + 1]], W[cs[d + 1]])
      BY <1>7, <3>3, <3>5 DEF Separates
    <3> QED
      BY <1>2, <2>3, <3>2, <3>6
  <2>4. CASE d + 1 < c \/ d > c + 1
    <3>1. /\ d # c /\ d # c + 1 /\ d + 1 # c /\ d + 1 # c + 1 /\ d \in 1 .. L + 1
          /\ d + 1 \in 1 .. L + 1
      BY <1>1, <2>0, <2>4
    <3>2. m.keys[d] = ks[d] /\ V[cs[d]] = W[cs[d]] /\ V[cs[d + 1]] = W[cs[d + 1]]
      BY <1>2, <1>5, <2>0, <3>1
    <3> QED
      BY <1>2, <1>3, <2>0, <3>2
  <2> QED
    BY <1>1, <2>0, <2>1, <2>2, <2>3, <2>4
<1>9. S = UNION {V[y] : y \in Range(m.child)}
  <2> DEFINE h == n.child[c]
             g == n.child[c + 1]
  <2>1. h \in R /\ g \in R /\ Range(m.child) = R /\ Range(n.child) = R
    BY <1>2, <1>4 DEF Kids, Once, Range
  <2>2. UNION {W[y] : y \in {h, g}} = UNION {V[y] : y \in {h, g}}
    OBVIOUS
  <2>3. UNION {W[y] : y \in (R \ {h, g}) \cup {h, g}}
          = UNION {V[y] : y \in (R \ {h, g}) \cup {h, g}}
    BY <2>2, UnionMoved
  <2>4. (R \ {h, g}) \cup {h, g} = R
    BY <2>1
  <2> QED
    BY <2>1, <2>3, <2>4 DEF Routes
<1> QED
  BY <1>8, <1>9 DEF Routes

\* merge_next: what two neighbours share out, with the key of the parent between.
LEMMA MergeNextRoutes ==
  ASSUME NEW C, NEW n, NEW m, IsInner(n, Key, C), IsInner(m, Key, C),
         NEW A, A \subseteq Key, NEW B, B \subseteq Key, NEW W,
         Routes(n, A, W), Routes(m, B, W), NEW k \in Key, Separates(k, A, B)
  PROVE  Routes(MergeNext(n, k, m), A \cup B, W)
<1> DEFINE w == MergeNext(n, k, m)
<1>a. IsInner(w, Key, C) /\ Len(w.keys) = (Len(n.keys) + 1) + Len(m.keys)
  <2>1. IsInner(w, Key, C) /\ Len(w.keys) = MergedSize(n, m)
    <3>1. k \in Key /\ IsInner(n, Key, C) /\ IsInner(m, Key, C)
      OBVIOUS
    <3> QED
      BY ONLY <3>1, MergeNextType
  <2> HIDE DEF w
  <2> QED
    BY <2>1 DEF MergedSize
<1> SUFFICES ASSUME NEW L \in Nat, L = Len(n.keys), NEW M \in Nat, M = Len(m.keys),
                    NEW cs, cs = n.child, NEW ds, ds = m.child,
                    NEW ks, ks = n.keys, NEW hs, hs = m.keys
             PROVE  Routes(w, A \cup B, W)
  BY NodeParts
<1>1. /\ ks \in Seq(Key) /\ cs \in Seq(C) /\ L \in Nat /\ Len(cs) = L + 1 /\ Len(ks) = L
      /\ DOMAIN ks = 1 .. L /\ DOMAIN cs = 1 .. L + 1
      /\ hs \in Seq(Key) /\ ds \in Seq(C) /\ M \in Nat /\ Len(ds) = M + 1 /\ Len(hs) = M
      /\ DOMAIN hs = 1 .. M /\ DOMAIN ds = 1 .. M + 1
  BY NodeParts
<1>0. L \in Nat /\ M \in Nat
  OBVIOUS
<1>2. w.keys = Append(ks, k) \o hs /\ w.child = cs \o ds
  BY DEF MergeNext
<1>3. IsInner(w, Key, C) /\ Len(w.keys) = L + M + 1
  <2>1. IsInner(w, Key, C) /\ Len(w.keys) = (L + 1) + M
    BY <1>a
  <2>2. (L + 1) + M = L + M + 1
    BY ONLY <1>0
  <2> QED
    BY <2>1, <2>2
<1> HIDE DEF w
<1>4. DOMAIN w.keys = 1 .. L + M + 1 /\ DOMAIN w.child = 1 .. L + M + 2
  <2>1. Len(w.keys) + 1 = L + M + 2
    BY <1>1, <1>3
  <2> QED
    BY <1>3, <2>1, NodeParts
<1>5. /\ \A j \in 1 .. L : w.keys[j] = ks[j]
      /\ w.keys[L + 1] = k
      /\ \A j \in 1 .. M : w.keys[j + L + 1] = hs[j]
  <2> DEFINE low == Append(ks, k)
  <2>1. /\ low \in Seq(Key) /\ Len(low) = L + 1
        /\ \A i \in 1 .. L : low[i] = ks[i]
        /\ low[L + 1] = k
    BY <1>1, AppendProperties
  <2> HIDE DEF low
  <2>2. /\ Len(low \o hs) = Len(low) + Len(hs)
        /\ \A i \in 1 .. Len(low) + Len(hs) :
               (low \o hs)[i] = IF i <= Len(low) THEN low[i] ELSE hs[i - Len(low)]
    <3>1. low \in Seq(Key) /\ hs \in Seq(Key)
      BY <1>1, <2>1
    <3> QED
      BY ONLY <3>1, ConcatProperties
  <2>3. \A i \in 1 .. (L + 1) + M : w.keys[i] = IF i <= L + 1 THEN low[i] ELSE hs[i - (L + 1)]
    BY <1>1, <1>2, <2>1, <2>2 DEF low
  <2>4. \A i \in 1 .. L : i \in 1 .. (L + 1) + M /\ i <= L + 1
    BY ONLY <1>0
  <2>5. L + 1 \in 1 .. (L + 1) + M /\ L + 1 <= L + 1
    BY ONLY <1>0
  <2>6. \A j \in 1 .. M : /\ j + L + 1 \in 1 .. (L + 1) + M /\ ~(j + L + 1 <= L + 1)
                          /\ (j + L + 1) - (L + 1) = j
    BY ONLY <1>0
  <2> QED
    BY ONLY <1>0, <2>1, <2>3, <2>4, <2>5, <2>6
<1>6. /\ \A j \in 1 .. L + 1 : w.child[j] = cs[j]
      /\ \A j \in 1 .. M + 1 : w.child[j + L + 1] = ds[j]
  <2>1. \A i \in 1 .. Len(cs) + Len(ds) :
            (cs \o ds)[i] = IF i <= Len(cs) THEN cs[i] ELSE ds[i - Len(cs)]
    <3>1. cs \in Seq(C) /\ ds \in Seq(C)
      BY <1>1
    <3> QED
      BY ONLY <3>1, ConcatProperties
  <2>2. \A i \in 1 .. (L + 1) + (M + 1) :
            w.child[i] = IF i <= L + 1 THEN cs[i] ELSE ds[i - (L + 1)]
    BY <1>1, <1>2, <2>1
  <2>3. \A i \in 1 .. L + 1 : i \in 1 .. (L + 1) + (M + 1) /\ i <= L + 1
    BY ONLY <1>0
  <2>4. \A j \in 1 .. M + 1 : /\ j + L + 1 \in 1 .. (L + 1) + (M + 1) /\ ~(j + L + 1 <= L + 1)
                              /\ (j + L + 1) - (L + 1) = j
    BY ONLY <1>0
  <2> QED
    BY ONLY <1>0, <2>2, <2>3, <2>4
<1>7. /\ \A i \in 1 .. L : Separates(ks[i], W[cs[i]], W[cs[i + 1]])
      /\ \A i \in 1 .. M : Separates(hs[i], W[ds[i]], W[ds[i + 1]])
      /\ A = UNION {W[x] : x \in Range(cs)} /\ B = UNION {W[x] : x \in Range(ds)}
  BY <1>1 DEF Routes
<1>8. L + 1 \in DOMAIN cs /\ 1 \in DOMAIN ds
  BY <1>1
<1>9. Separates(k, W[cs[L + 1]], W[ds[1]])
  <2>1. A # {} /\ k \in B /\ (\A z \in A : z < k) /\ (\A z \in B : k <= z)
    BY DEF Separates
  <2>2. W[cs[L + 1]] # {} /\ W[cs[L + 1]] \subseteq A
    BY <1>8, <2>1, RoutesApart
  <2>3. W[ds[1]] \subseteq B
    BY <1>7, <1>8 DEF Range
  <2>4. k \in W[ds[1]]
    BY <2>1, LeastIsFirst
  <2> QED
    BY <2>1, <2>2, <2>3, <2>4 DEF Separates
<1>10. ASSUME NEW d \in DOMAIN w.keys
       PROVE  Separates(w.keys[d], W[w.child[d]], W[w.child[d + 1]])
  <2>1. CASE d <= L
    <3>1. d \in 1 .. L /\ d \in 1 .. L + 1 /\ d + 1 \in 1 .. L + 1
      BY <1>1, <1>4, <2>1
    <3> QED
      BY <1>5, <1>6, <1>7, <3>1
  <2>2. CASE d = L + 1
    <3>1. L + 1 \in 1 .. L + 1 /\ 1 \in 1 .. M + 1 /\ d + 1 = 1 + L + 1
      BY <1>1, <2>2
    <3> QED
      BY <1>5, <1>6, <1>9, <2>2, <3>1
  <2>3. CASE d > L + 1
    <3> DEFINE e == d - (L + 1)
    <3>1. /\ e \in 1 .. M /\ e \in 1 .. M + 1 /\ e + 1 \in 1 .. M + 1 /\ d = e + L + 1
          /\ d + 1 = (e + 1) + L + 1
      <4>1. d \in 1 .. L + M + 1 /\ d > L + 1
        BY <1>4, <2>3
      <4> QED
        BY ONLY <1>0, <4>1
    <3> HIDE DEF e
    <3>2. w.keys[d] = hs[e] /\ w.child[d] = ds[e] /\ w.child[d + 1] = ds[e + 1]
      BY <1>5, <1>6, <3>1
    <3> QED
      BY <1>7, <3>1, <3>2
  <2> QED
    BY <1>1, <1>4, <2>1, <2>2, <2>3
<1>11. A \cup B = UNION {W[x] : x \in Range(w.child)}
  <2>1. Range(w.child) = Range(cs) \cup Range(ds)
    BY <1>1, <1>2, RangeConcatenation
  <2> QED
    BY <1>7, <2>1
<1> QED
  BY <1>10, <1>11 DEF Routes

\* push and push_front: one more child, with the larger or with the smaller keys.
LEMMA PushRoutes ==
  ASSUME NEW C, NEW n, IsInner(n, Key, C), NEW S, S \subseteq Key, NEW W, Routes(n, S, W),
         NEW k \in Key, NEW x \in C, NEW a \in Nat, W[x] \subseteq Key
  PROVE  /\ Separates(k, S, W[x]) => Routes(PushInner(n, k, x, a), S \cup W[x], W)
         /\ Separates(k, W[x], S) => Routes(PushFrontInner(n, k, x, a), W[x] \cup S, W)
<1> DEFINE one == [keys |-> << >>, child |-> <<x>>, aug |-> <<a>>]
<1>1. /\ << >> \in Seq(Key) /\ Len(<< >>) = 0 /\ <<x>> \in Seq(C) /\ Len(<<x>>) = 1
      /\ <<a>> \in Seq(Nat) /\ Len(<<a>>) = 1
  OBVIOUS
<1>2. /\ one.keys = << >> /\ one.child = <<x>> /\ one.aug = <<a>>
      /\ IsInner(one, Key, C)
  <2>1. Len(<<x>>) = Len(<< >>) + 1 /\ Len(<<a>>) = Len(<< >>) + 1
    BY <1>1
  <2>2. IsInner([keys |-> << >>, child |-> <<x>>, aug |-> <<a>>], Key, C)
    BY ONLY <1>1, <2>1, InnerFrom
  <2> QED
    BY <2>2
<1> HIDE DEF one
<1>3. Routes(one, W[x], W)
  <2>1. DOMAIN << >> = {} /\ Range(<<x>>) = {x}
    BY DEF Range
  <2> QED
    BY <1>2, <2>1 DEF Routes
<1>4. n.keys \in Seq(Key) /\ n.child \in Seq(C)
  BY NodeParts
<1>5. /\ MergeNext(n, k, one).keys = PushInner(n, k, x, a).keys
      /\ MergeNext(n, k, one).child = PushInner(n, k, x, a).child
  <2>1. Append(n.keys, k) \o << >> = Append(n.keys, k)
    <3>1. Append(n.keys, k) \in Seq(Key)
      BY <1>4, AppendProperties
    <3> DEFINE t == Append(n.keys, k)
    <3> HIDE DEF t
    <3>2. t \o << >> = t
      BY <3>1, ConcatEmptySeq DEF t
    <3> QED
      BY <3>2 DEF t
  <2>2. n.child \o <<x>> = Append(n.child, x)
    BY <1>4, AppendIsConcat
  <2> QED
    BY <1>2, <2>1, <2>2 DEF MergeNext, PushInner
<1>6. /\ MergeNext(one, k, n).keys = PushFrontInner(n, k, x, a).keys
      /\ MergeNext(one, k, n).child = PushFrontInner(n, k, x, a).child
  <2>1. Append(<< >>, k) = <<k>>
    OBVIOUS
  <2> QED
    BY <1>2, <2>1 DEF MergeNext, PushFrontInner
<1>7. ASSUME Separates(k, S, W[x]) PROVE Routes(PushInner(n, k, x, a), S \cup W[x], W)
  <2>1. Routes(MergeNext(n, k, one), S \cup W[x], W)
    BY <1>2, <1>3, <1>7, MergeNextRoutes
  <2> QED
    BY <1>5, <2>1 DEF Routes
<1>8. ASSUME Separates(k, W[x], S) PROVE Routes(PushFrontInner(n, k, x, a), W[x] \cup S, W)
  <2>1. Routes(MergeNext(one, k, n), W[x] \cup S, W)
    BY <1>2, <1>3, <1>8, MergeNextRoutes
  <2> QED
    BY <1>6, <2>1 DEF Routes
<1> QED
  BY <1>7, <1>8

\* The halves of a sequence s with one more element e at i, when s is cut after m
\* elements of the longer sequence, before or after e is inserted.
Halves(s, N, i, e, m) ==
    /\ i <= m => \A j \in 1 .. m : InsertAt(SubSeq(s, 1, m - 1), i, e)[j] = InsertAt(s, i, e)[j]
    /\ i > m => \A j \in 1 .. m : SubSeq(s, 1, m)[j] = InsertAt(s, i, e)[j]
    /\ i <= m => \A j \in 1 .. N - m + 1 : SubSeq(s, m, N)[j] = InsertAt(s, i, e)[m + j]
    /\ i > m => \A j \in 1 .. N - m + 1 :
           InsertAt(SubSeq(s, m + 1, N), i - m, e)[j] = InsertAt(s, i, e)[m + j]

\* InsertAt said for the halves of a sequence: the way split_new_leaf fills its two nodes.
LEMMA HalvesElems ==
  ASSUME NEW S, NEW s \in Seq(S), NEW N \in Nat, N = Len(s), NEW i \in 1 .. N + 1, NEW e \in S,
         NEW m \in 1 .. N
  PROVE  Halves(s, N, i, e, m)
<1> USE DEF Halves
<1> DEFINE w == InsertAt(s, i, e)
<1>1. \A j \in 1 .. N + 1 : w[j] = IF j < i THEN s[j] ELSE IF j = i THEN e ELSE s[j - 1]
  <2>1. i \in 1 .. Len(s) + 1 /\ s \in Seq(S) /\ e \in S
    OBVIOUS
  <2>2. \A j \in 1 .. Len(s) + 1 :
            InsertAt(s, i, e)[j] = IF j < i THEN s[j] ELSE IF j = i THEN e ELSE s[j - 1]
    BY ONLY <2>1, InsertAtElems
  <2> QED
    BY <2>2
<1>2. /\ 1 \in Nat \ {0} /\ m \in Nat \ {0} /\ m + 1 \in Nat \ {0}
      /\ m - 1 \in Nat /\ m \in Nat /\ N \in Nat
      /\ m - 1 <= Len(s) /\ m <= Len(s) /\ N <= Len(s)
      /\ 1 <= (m - 1) + 1 /\ 1 <= m + 1 /\ m <= N + 1 /\ m + 1 <= N + 1
  OBVIOUS
<1>3. CASE i <= m
  <2> DEFINE p == SubSeq(s, 1, m - 1)
  <2>1. /\ p \in Seq(S) /\ Len(p) = (m - 1) - 1 + 1
        /\ \A j \in 1 .. (m - 1) - 1 + 1 : p[j] = s[1 + j - 1]
    BY <1>2, CutType, CutElems
  <2>2. \A j \in 1 .. N - m + 1 : SubSeq(s, m, N)[j] = s[m + j - 1]
    BY <1>2, CutElems
  <2> HIDE DEF p
  <2>3. Len(p) = m - 1 /\ \A j \in 1 .. m - 1 : p[j] = s[j]
    <3>1. (m - 1) - 1 + 1 = m - 1 /\ \A j \in 1 .. m - 1 : 1 + j - 1 = j
      OBVIOUS
    <3> QED
      BY <2>1, <3>1
  <2>4. \A j \in 1 .. m : InsertAt(p, i, e)[j] = IF j < i THEN p[j] ELSE IF j = i THEN e ELSE p[j - 1]
    <3>1. i \in 1 .. Len(p) + 1 /\ p \in Seq(S) /\ e \in S /\ Len(p) + 1 = m
      BY <1>3, <2>1, <2>3
    <3>2. \A j \in 1 .. Len(p) + 1 :
              InsertAt(p, i, e)[j] = IF j < i THEN p[j] ELSE IF j = i THEN e ELSE p[j - 1]
      BY ONLY <3>1, InsertAtElems
    <3> QED
      BY <3>1, <3>2
  <2> HIDE DEF w
  <2>5. \A j \in 1 .. m : InsertAt(p, i, e)[j] = w[j]
    <3> TAKE j \in 1 .. m
    <3>1. /\ j \in 1 .. N + 1
          /\ j < i => j \in 1 .. m - 1
          /\ ~(j < i) /\ j # i => j - 1 \in 1 .. m - 1
      BY <1>3
    <3> QED
      BY <1>1, <2>3, <2>4, <3>1
  <2>6. \A j \in 1 .. N - m + 1 : SubSeq(s, m, N)[j] = w[m + j]
    <3> TAKE j \in 1 .. N - m + 1
    <3>1. m + j \in 1 .. N + 1 /\ ~(m + j < i) /\ m + j # i /\ (m + j) - 1 = m + j - 1
      BY <1>3
    <3>2. w[m + j] = s[(m + j) - 1]
      BY <1>1, <3>1
    <3> QED
      BY <2>2, <3>1, <3>2
  <2>7. ~(i > m)
    BY <1>3
  <2> QED
    BY <2>5, <2>6, <2>7 DEF p, w
<1>4. CASE i > m
  <2> DEFINE q == SubSeq(s, m + 1, N)
  <2>1. /\ q \in Seq(S) /\ Len(q) = N - (m + 1) + 1
        /\ \A j \in 1 .. N - (m + 1) + 1 : q[j] = s[(m + 1) + j - 1]
    BY <1>2, CutType, CutElems
  <2>2. \A j \in 1 .. m - 1 + 1 : SubSeq(s, 1, m)[j] = s[1 + j - 1]
    BY <1>2, CutElems
  <2> HIDE DEF q
  <2>3. Len(q) = N - m /\ \A j \in 1 .. N - m : q[j] = s[m + j]
    <3>1. N - (m + 1) + 1 = N - m /\ \A j \in 1 .. N - m : (m + 1) + j - 1 = m + j
      OBVIOUS
    <3> QED
      BY <2>1, <3>1
  <2>4. \A j \in 1 .. N - m + 1 :
            InsertAt(q, i - m, e)[j]
              = IF j < i - m THEN q[j] ELSE IF j = i - m THEN e ELSE q[j - 1]
    <3>1. i - m \in 1 .. Len(q) + 1 /\ q \in Seq(S) /\ e \in S /\ Len(q) + 1 = N - m + 1
      BY <1>4, <2>1, <2>3
    <3>2. \A j \in 1 .. Len(q) + 1 :
              InsertAt(q, i - m, e)[j]
                = IF j < i - m THEN q[j] ELSE IF j = i - m THEN e ELSE q[j - 1]
      <4> DEFINE h == i - m
      <4> HIDE DEF h
      <4>1. q \in Seq(S) /\ h \in 1 .. Len(q) + 1 /\ e \in S
        BY <3>1 DEF h
      <4>2. \A j \in 1 .. Len(q) + 1 :
                InsertAt(q, h, e)[j] = IF j < h THEN q[j] ELSE IF j = h THEN e ELSE q[j - 1]
        BY ONLY <4>1, InsertAtElems
      <4> QED
        BY <4>2 DEF h
    <3> QED
      BY <3>1, <3>2
  <2> HIDE DEF w
  <2>5. \A j \in 1 .. N - m + 1 : InsertAt(q, i - m, e)[j] = w[m + j]
    <3> TAKE j \in 1 .. N - m + 1
    <3>1. /\ m + j \in 1 .. N + 1
          /\ j < i - m <=> m + j < i
          /\ j = i - m <=> m + j = i
          /\ j < i - m => j \in 1 .. N - m
          /\ ~(j < i - m) /\ j # i - m => j - 1 \in 1 .. N - m /\ m + (j - 1) = (m + j) - 1
      BY <1>4
    <3>2. w[m + j] = IF m + j < i THEN s[m + j] ELSE IF m + j = i THEN e ELSE s[(m + j) - 1]
      BY <1>1, <3>1
    <3>3. CASE j < i - m
      BY <2>3, <2>4, <3>1, <3>2, <3>3
    <3>4. CASE ~(j < i - m) /\ j = i - m
      BY <2>4, <3>1, <3>2, <3>4
    <3>5. CASE ~(j < i - m) /\ j # i - m
      BY <2>3, <2>4, <3>1, <3>2, <3>5
    <3> QED
      BY <3>3, <3>4, <3>5
  <2>6. \A j \in 1 .. m : SubSeq(s, 1, m)[j] = w[j]
    <3> TAKE j \in 1 .. m
    <3>1. j \in 1 .. N + 1 /\ j < i /\ j \in 1 .. m - 1 + 1 /\ 1 + j - 1 = j
      BY <1>4
    <3> QED
      BY <1>1, <2>2, <3>1
  <2>7. ~(i <= m)
    BY <1>4
  <2> QED
    BY <2>5, <2>6, <2>7 DEF q, w
<1> QED
  BY <1>3, <1>4 DEF Halves

\* The two halves of a split have the keys and children of the node with the new
\* child inserted, but for the key between them.
LEMMA SplitInnerElems ==
  ASSUME NEW C, NEW n, IsInner(n, Key, C), Len(n.keys) = INNER_N,
         NEW c \in DOMAIN n.child, NEW k \in Key, NEW x \in C, NEW a \in Nat
  PROVE  LET s == SplitInner(n, c, k, x, a)
             w == InsertSlot(n, c, k, x, a)
             o == InnerSplitOriginSize
         IN  /\ Len(s.left.keys) = o /\ Len(s.right.keys) = INNER_N - o
             /\ s.key = w.keys[o + 1]
             /\ \A i \in 1 .. o : s.left.keys[i] = w.keys[i]
             /\ \A i \in 1 .. o + 1 : s.left.child[i] = w.child[i]
             /\ \A i \in 1 .. INNER_N - o : s.right.keys[i] = w.keys[o + 1 + i]
             /\ \A i \in 1 .. INNER_N - o + 1 : s.right.child[i] = w.child[o + 1 + i]
<1> SUFFICES ASSUME NEW o \in Nat, o = InnerSplitOriginSize, NEW N \in Nat, N = INNER_N,
                    NEW s, s = SplitInner(n, c, k, x, a),
                    NEW ks \in Seq(Key), ks = n.keys, NEW cs \in Seq(C), cs = n.child,
                    Len(ks) = N, Len(cs) = N + 1
             PROVE  /\ Len(s.left.keys) = o /\ Len(s.right.keys) = N - o
                    /\ s.key = InsertAt(ks, c, k)[o + 1]
                    /\ \A i \in 1 .. o : s.left.keys[i] = InsertAt(ks, c, k)[i]
                    /\ \A i \in 1 .. o + 1 : s.left.child[i] = InsertAt(cs, c + 1, x)[i]
                    /\ \A i \in 1 .. N - o : s.right.keys[i] = InsertAt(ks, c, k)[o + 1 + i]
                    /\ \A i \in 1 .. N - o + 1 :
                           s.right.child[i] = InsertAt(cs, c + 1, x)[o + 1 + i]
  <2>1. /\ n.keys \in Seq(Key) /\ n.child \in Seq(C) /\ Len(n.child) = INNER_N + 1
        /\ INNER_N \in Nat /\ InnerSplitOriginSize \in Nat
    BY NodeParts, InnerAssumption DEF InnerSplitOriginSize
  <2> QED
    BY <2>1 DEF InsertSlot
<1>1. 1 <= o /\ o + 2 <= N /\ c \in 1 .. N + 1
  BY NodeParts, InnerAssumption DEF InnerSplitOriginSize
<1>2. \A j \in 1 .. N + 1 :
          InsertAt(ks, c, k)[j] = IF j < c THEN ks[j] ELSE IF j = c THEN k ELSE ks[j - 1]
  <2>1. ks \in Seq(Key) /\ c \in 1 .. Len(ks) + 1 /\ k \in Key
    BY <1>1
  <2>2. \A j \in 1 .. Len(ks) + 1 :
          InsertAt(ks, c, k)[j] = IF j < c THEN ks[j] ELSE IF j = c THEN k ELSE ks[j - 1]
    BY ONLY <2>1, InsertAtElems
  <2> QED
    BY <2>2
<1> DEFINE wk == InsertAt(ks, c, k)
           wc == InsertAt(cs, c + 1, x)
<1>3. /\ c <= o => \A j \in 1 .. o : InsertAt(SubSeq(ks, 1, o - 1), c, k)[j] = wk[j]
      /\ c > o => \A j \in 1 .. o : SubSeq(ks, 1, o)[j] = wk[j]
  <2>1. ks \in Seq(Key) /\ N \in Nat /\ N = Len(ks) /\ c \in 1 .. N + 1 /\ k \in Key /\ o \in 1 .. N
    BY <1>1
  <2>2. Halves(ks, N, c, k, o)
    BY ONLY <2>1, HalvesElems
  <2> QED
    BY <2>2 DEF Halves
<1>4. /\ c <= o + 1 => \A j \in 1 .. N - o : SubSeq(ks, o + 1, N)[j] = wk[o + 1 + j]
      /\ c > o + 1 => \A j \in 1 .. N - o : InsertAt(SubSeq(ks, o + 2, N), c - 1 - o, k)[j] = wk[o + 1 + j]
  <2> DEFINE m == o + 1
  <2>0. /\ (o + 1) + 1 = o + 2 /\ c - (o + 1) = c - 1 - o /\ N - (o + 1) + 1 = N - o
    BY <1>1
  <2>1. ks \in Seq(Key) /\ N \in Nat /\ N = Len(ks) /\ c \in 1 .. N + 1 /\ k \in Key /\ m \in 1 .. N
    BY <1>1
  <2> HIDE DEF m
  <2>2. /\ c <= m => \A j \in 1 .. N - m + 1 : SubSeq(ks, m, N)[j] = wk[m + j]
        /\ c > m => \A j \in 1 .. N - m + 1 : InsertAt(SubSeq(ks, m + 1, N), c - m, k)[j] = wk[m + j]
    <3>1. Halves(ks, N, c, k, m)
      BY ONLY <2>1, HalvesElems
    <3> QED
      BY <3>1 DEF Halves
  <2> HIDE DEF wk
  <2> QED
    BY <2>0, <2>2 DEF m
<1>5. /\ c <= o => \A j \in 1 .. o + 1 : InsertAt(SubSeq(cs, 1, o), c + 1, x)[j] = wc[j]
      /\ c > o => \A j \in 1 .. o + 1 : SubSeq(cs, 1, o + 1)[j] = wc[j]
      /\ c <= o => \A j \in 1 .. N - o + 1 : SubSeq(cs, o + 1, N + 1)[j] = wc[o + 1 + j]
      /\ c > o => \A j \in 1 .. N - o + 1 :
                     InsertAt(SubSeq(cs, o + 2, N + 1), c - 1 - o + 1, x)[j] = wc[o + 1 + j]
  <2> DEFINE m == o + 1
             M == N + 1
             h == c + 1
  <2>0. /\ (o + 1) - 1 = o /\ (o + 1) + 1 = o + 2 /\ (c + 1) - (o + 1) = c - 1 - o + 1
        /\ (N + 1) - (o + 1) + 1 = N - o + 1
        /\ c <= o <=> c + 1 <= o + 1
        /\ c > o <=> c + 1 > o + 1
    BY <1>1
  <2>1. cs \in Seq(C) /\ M \in Nat /\ M = Len(cs) /\ h \in 1 .. M + 1 /\ x \in C /\ m \in 1 .. M
    BY <1>1
  <2> HIDE DEF m, M, h
  <2>2. /\ h <= m => \A j \in 1 .. m : InsertAt(SubSeq(cs, 1, m - 1), h, x)[j] = InsertAt(cs, h, x)[j]
        /\ h > m => \A j \in 1 .. m : SubSeq(cs, 1, m)[j] = InsertAt(cs, h, x)[j]
        /\ h <= m => \A j \in 1 .. M - m + 1 : SubSeq(cs, m, M)[j] = InsertAt(cs, h, x)[m + j]
        /\ h > m => \A j \in 1 .. M - m + 1 :
                InsertAt(SubSeq(cs, m + 1, M), h - m, x)[j] = InsertAt(cs, h, x)[m + j]
    <3>1. Halves(cs, M, h, x, m)
      BY ONLY <2>1, HalvesElems
    <3> QED
      BY <3>1 DEF Halves
  <2>3. m = o + 1 /\ M = N + 1 /\ h = c + 1
    BY DEF m, M, h
  <2> QED
    BY ONLY <2>0, <2>2, <2>3
<1>6. CASE c <= o
  <2> DEFINE p == Part(n, 1, o - 1)
             q == Part(n, o + 1, N)
  <2>1. s.key = ks[o] /\ s.left = InsertSlot(p, c, k, x, a) /\ s.right = q
    BY <1>1, <1>6 DEF SplitInner
  <2>2. /\ p.keys = SubSeq(ks, 1, o - 1) /\ p.child = SubSeq(cs, 1, o)
        /\ q.keys = SubSeq(ks, o + 1, N) /\ q.child = SubSeq(cs, o + 1, N + 1)
    <3>1. (o - 1) + 1 = o
      BY <1>1
    <3> QED
      BY <3>1 DEF Part
  <2>3. IsInner(p, Key, C) /\ Len(p.keys) = (o - 1) - 1 + 1
    <3>1. 1 \in Nat \ {0} /\ o - 1 \in Nat /\ o - 1 <= Len(n.keys) /\ 1 <= (o - 1) + 1
      BY <1>1
    <3> QED
      BY <3>1, PartType
  <2>4. IsInner(q, Key, C) /\ Len(q.keys) = INNER_N - (o + 1) + 1
    <3>1. o + 1 \in 1 .. INNER_N + 1
      BY <1>1
    <3> QED
      BY <3>1, HighPartType
  <2> HIDE DEF p, q
  <2>5. /\ s.left.keys = InsertAt(SubSeq(ks, 1, o - 1), c, k)
        /\ s.left.child = InsertAt(SubSeq(cs, 1, o), c + 1, x)
    BY <2>1, <2>2 DEF InsertSlot
  <2>6. Len(s.left.keys) = o
    <3>1. DOMAIN p.child = 1 .. Len(p.keys) + 1
      BY <2>3, NodeParts
    <3>2. c \in DOMAIN p.child
      BY <1>1, <1>6, <2>3, <3>1
    <3>3. Len(s.left.keys) = Len(p.keys) + 1
      BY <2>1, <2>3, <3>2, InsertSlotType
    <3> QED
      BY <1>1, <2>3, <3>3
  <2>7. Len(s.right.keys) = N - o
    BY <1>1, <2>1, <2>4
  <2>8. s.key = wk[o + 1]
    <3>1. o + 1 \in 1 .. N + 1 /\ ~(o + 1 < c) /\ o + 1 # c /\ (o + 1) - 1 = o
      BY <1>1, <1>6
    <3>2. wk[o + 1] = ks[(o + 1) - 1]
      BY <1>2, <3>1
    <3> QED
      BY <2>1, <3>1, <3>2
  <2>9. c <= o + 1
    BY <1>1, <1>6
  <2> HIDE DEF wk, wc
  <2>10. /\ Len(s.left.keys) = o /\ Len(s.right.keys) = N - o
         /\ s.key = wk[o + 1]
         /\ \A i \in 1 .. o : s.left.keys[i] = wk[i]
         /\ \A i \in 1 .. o + 1 : s.left.child[i] = wc[i]
         /\ \A i \in 1 .. N - o : s.right.keys[i] = wk[o + 1 + i]
         /\ \A i \in 1 .. N - o + 1 : s.right.child[i] = wc[o + 1 + i]
    BY <1>3, <1>4, <1>5, <1>6, <2>1, <2>2, <2>5, <2>6, <2>7, <2>8, <2>9
  <2> QED
    BY <2>10 DEF wk, wc
<1>7. CASE c > o + 1
  <2> DEFINE p == Part(n, 1, o)
             q == Part(n, o + 2, N)
             d == c - 1 - o
  <2>1. s.key = ks[o + 1] /\ s.left = p /\ s.right = InsertSlot(q, d, k, x, a)
    BY <1>1, <1>7 DEF SplitInner
  <2>2. /\ p.keys = SubSeq(ks, 1, o) /\ p.child = SubSeq(cs, 1, o + 1)
        /\ q.keys = SubSeq(ks, o + 2, N) /\ q.child = SubSeq(cs, o + 2, N + 1)
    BY DEF Part
  <2>3. IsInner(p, Key, C) /\ Len(p.keys) = o - 1 + 1
    <3>1. 1 \in Nat \ {0} /\ o <= Len(n.keys) /\ 1 <= o + 1
      BY <1>1
    <3> QED
      BY <3>1, PartType
  <2>4. IsInner(q, Key, C) /\ Len(q.keys) = INNER_N - (o + 2) + 1
    <3> DEFINE f == o + 2
    <3>1. f \in 1 .. INNER_N + 1 /\ IsInner(n, Key, C) /\ Len(n.keys) = INNER_N
      BY <1>1
    <3> HIDE DEF f
    <3>2. /\ IsInner(Part(n, f, INNER_N), Key, C)
          /\ Len(Part(n, f, INNER_N).keys) = INNER_N - f + 1
      BY ONLY <3>1, HighPartType
    <3> QED
      BY <3>2 DEF f
  <2> HIDE DEF p, q
  <2>5. /\ s.right.keys = InsertAt(SubSeq(ks, o + 2, N), c - 1 - o, k)
        /\ s.right.child = InsertAt(SubSeq(cs, o + 2, N + 1), c - 1 - o + 1, x)
    BY <2>1, <2>2 DEF InsertSlot
  <2>6. Len(s.right.keys) = N - o
    <3>1. DOMAIN q.child = 1 .. Len(q.keys) + 1
      BY <2>4, NodeParts
    <3>2. d \in DOMAIN q.child
      BY <1>1, <1>7, <2>4, <3>1
    <3> HIDE DEF d
    <3>3. Len(s.right.keys) = Len(q.keys) + 1
      <4>1. IsInner(q, Key, C) /\ d \in DOMAIN q.child /\ k \in Key /\ x \in C /\ a \in Nat
        BY <2>4, <3>2
      <4>2. Len(InsertSlot(q, d, k, x, a).keys) = Len(q.keys) + 1
        BY ONLY <4>1, InsertSlotType
      <4> QED
        BY <2>1, <4>2
    <3> QED
      BY <1>1, <2>4, <3>3
  <2>7. Len(s.left.keys) = o
    BY <1>1, <2>1, <2>3
  <2>8. s.key = wk[o + 1]
    <3>1. o + 1 \in 1 .. N + 1 /\ o + 1 < c
      BY <1>1, <1>7
    <3> QED
      BY <1>2, <2>1, <3>1
  <2>9. c > o
    BY <1>1, <1>7
  <2> HIDE DEF wk, wc, d
  <2>10. /\ Len(s.left.keys) = o /\ Len(s.right.keys) = N - o
         /\ s.key = wk[o + 1]
         /\ \A i \in 1 .. o : s.left.keys[i] = wk[i]
         /\ \A i \in 1 .. o + 1 : s.left.child[i] = wc[i]
         /\ \A i \in 1 .. N - o : s.right.keys[i] = wk[o + 1 + i]
         /\ \A i \in 1 .. N - o + 1 : s.right.child[i] = wc[o + 1 + i]
    BY <1>3, <1>4, <1>5, <1>7, <2>1, <2>2, <2>5, <2>6, <2>7, <2>8, <2>9
  <2> QED
    BY <2>10 DEF wk, wc
<1>8. CASE ~(c <= o) /\ ~(c > o + 1)
  <2> DEFINE p == Part(n, 1, o)
             q == Part(n, o + 1, N)
  <2>1. s.key = k /\ s.left = p /\ s.right = [q EXCEPT !.child[1] = x, !.aug[1] = a]
    BY <1>1, <1>8 DEF SplitInner
  <2>2. /\ p.keys = SubSeq(ks, 1, o) /\ p.child = SubSeq(cs, 1, o + 1)
        /\ q.keys = SubSeq(ks, o + 1, N) /\ q.child = SubSeq(cs, o + 1, N + 1)
    BY DEF Part
  <2>3. IsInner(p, Key, C) /\ Len(p.keys) = o - 1 + 1
    <3>1. 1 \in Nat \ {0} /\ o <= Len(n.keys) /\ 1 <= o + 1
      BY <1>1
    <3> QED
      BY <3>1, PartType
  <2>4. IsInner(q, Key, C) /\ Len(q.keys) = INNER_N - (o + 1) + 1
    <3>1. o + 1 \in 1 .. INNER_N + 1
      BY <1>1
    <3> QED
      BY <3>1, HighPartType
  <2> HIDE DEF p, q
  <2>5. /\ s.right.keys = q.keys /\ s.right.child = [q.child EXCEPT ![1] = x]
    BY <2>1, <2>4 DEF IsInner
  <2>6. Len(s.right.keys) = N - o /\ Len(s.left.keys) = o
    BY <1>1, <2>1, <2>3, <2>4, <2>5
  <2>7. c = o + 1
    BY <1>1, <1>8
  <2>8. s.key = wk[o + 1]
    <3>1. o + 1 \in 1 .. N + 1 /\ ~(o + 1 < c) /\ o + 1 = c
      BY <1>1, <2>7
    <3> QED
      BY <1>2, <2>1, <3>1
  <2>9. c > o /\ c <= o + 1
    BY <1>1, <2>7
  <2>10. \A i \in 1 .. N - o + 1 : s.right.child[i] = wc[o + 1 + i]
    <3>1. DOMAIN q.child = 1 .. N - o + 1
      <4>1. DOMAIN q.child = 1 .. Len(q.keys) + 1
        BY <2>4, NodeParts
      <4>2. Len(q.keys) + 1 = N - o + 1
        BY <1>1, <2>4
      <4> QED
        BY <4>1, <4>2
    <3>2. \A j \in 1 .. N - o + 1 : q.child[j] = cs[o + j]
      <4>1. /\ o + 1 \in Nat \ {0} /\ N + 1 \in Nat /\ N + 1 <= Len(cs)
            /\ o + 1 <= (N + 1) + 1 /\ cs \in Seq(C)
        BY <1>1
      <4>2. \A j \in 1 .. (N + 1) - (o + 1) + 1 : SubSeq(cs, o + 1, N + 1)[j] = cs[(o + 1) + j - 1]
        BY ONLY <4>1, CutElems
      <4>3. (N + 1) - (o + 1) + 1 = N - o + 1 /\ \A j \in 1 .. N - o + 1 : (o + 1) + j - 1 = o + j
        BY <1>1
      <4> QED
        BY <2>2, <4>2, <4>3
    <3>3. \A j \in 1 .. N + 2 :
              wc[j] = IF j < c + 1 THEN cs[j] ELSE IF j = c + 1 THEN x ELSE cs[j - 1]
      <4> DEFINE h == c + 1
      <4>1. cs \in Seq(C) /\ h \in 1 .. Len(cs) + 1 /\ x \in C /\ Len(cs) + 1 = N + 2
        BY <1>1
      <4> HIDE DEF h
      <4>2. \A j \in 1 .. Len(cs) + 1 :
              InsertAt(cs, h, x)[j] = IF j < h THEN cs[j] ELSE IF j = h THEN x ELSE cs[j - 1]
        BY ONLY <4>1, InsertAtElems
      <4> QED
        BY <4>1, <4>2 DEF h
    <3> HIDE DEF wc
    <3> TAKE i \in 1 .. N - o + 1
    <3>4. /\ o + 1 + i \in 1 .. N + 2 /\ ~(o + 1 + i < c + 1) /\ (o + 1 + i = c + 1 <=> i = 1)
          /\ (o + 1 + i) - 1 = o + i
      BY <1>1, <2>7
    <3>5. wc[o + 1 + i] = IF i = 1 THEN x ELSE cs[o + i]
      BY <3>3, <3>4
    <3>6. s.right.child[i] = IF i = 1 THEN x ELSE q.child[i]
      BY <2>5, <3>1
    <3> QED
      BY <3>2, <3>5, <3>6
  <2> HIDE DEF wk, wc
  <2>11. \A i \in 1 .. o : s.left.keys[i] = wk[i]
    BY <1>3, <2>1, <2>2, <2>9
  <2>12. \A i \in 1 .. o + 1 : s.left.child[i] = wc[i]
    BY <1>5, <2>1, <2>2, <2>9
  <2>13. \A i \in 1 .. N - o : s.right.keys[i] = wk[o + 1 + i]
    BY <1>4, <2>2, <2>5, <2>9
  <2> QED
    BY <2>6, <2>8, <2>10, <2>11, <2>12, <2>13 DEF wk, wc
<1> QED
  BY <1>6, <1>7, <1>8

\* s.left and s.right share out the keys S, with s.key between them.
CutInto(s, S, V) ==
    \E A, B : /\ A \cup B = S /\ Separates(s.key, A, B)
              /\ Routes(s.left, A, V) /\ Routes(s.right, B, V)

\* split: the two halves share out what the node and the new child share out, and the
\* key between them is the separator.
LEMMA SplitInnerRoutes ==
  ASSUME NEW C, NEW n, IsInner(n, Key, C), Len(n.keys) = INNER_N, NEW R, Kids(n, R),
         NEW S, S \subseteq Key, S # {}, NEW W, Routes(n, S, W),
         NEW c \in DOMAIN n.child, NEW k \in Key, NEW x \in C, x \notin R, NEW a \in Nat,
         NEW V, \A y \in R \ {n.child[c]} : V[y] = W[y],
         V[n.child[c]] \cup V[x] = W[n.child[c]],
         Separates(k, V[n.child[c]], V[x])
  PROVE  CutInto(SplitInner(n, c, k, x, a), S, V)
<1> DEFINE w == InsertSlot(n, c, k, x, a)
           s == SplitInner(n, c, k, x, a)
<1>1. IsInner(w, Key, C) /\ Len(w.keys) = INNER_N + 1
  BY InsertSlotType
<1>2. Routes(w, S, V)
  BY InsertSlotRoutes
<1>3. IsInner(s.left, Key, C) /\ IsInner(s.right, Key, C)
  BY SplitInnerType
<1> SUFFICES ASSUME NEW o \in Nat, o = InnerSplitOriginSize, NEW N \in Nat, N = INNER_N,
                    1 <= o, o + 2 <= N
             PROVE  \E A, B : /\ A \cup B = S /\ Separates(s.key, A, B)
                              /\ Routes(s.left, A, V) /\ Routes(s.right, B, V)
  BY InnerAssumption DEF InnerSplitOriginSize, CutInto
<1>4. /\ Len(s.left.keys) = o /\ Len(s.right.keys) = N - o
      /\ s.key = w.keys[o + 1]
      /\ \A i \in 1 .. o : s.left.keys[i] = w.keys[i]
      /\ \A i \in 1 .. o + 1 : s.left.child[i] = w.child[i]
      /\ \A i \in 1 .. N - o : s.right.keys[i] = w.keys[o + 1 + i]
      /\ \A i \in 1 .. N - o + 1 : s.right.child[i] = w.child[o + 1 + i]
  BY SplitInnerElems
<1> HIDE DEF w, s
<1> DEFINE A == Shares(w, V, 1, o + 1)
           B == Shares(w, V, o + 2, N + 2)
<1>5. \A i \in 1 .. N + 1 : Separates(w.keys[i], V[w.child[i]], V[w.child[i + 1]])
  <2>1. DOMAIN w.keys = 1 .. N + 1
    BY <1>1, NodeParts
  <2> QED
    BY <1>2, <2>1 DEF Routes
<1>6. Separates(s.key, A, B) /\ A \cup B = S
  <2> DEFINE b == o + 1
  <2>1. b \in 1 .. Len(w.keys) /\ Len(w.keys) + 1 = N + 2 /\ b + 1 = o + 2
    BY <1>1
  <2>2. IsInner(w, Key, C) /\ S \subseteq Key /\ S # {} /\ Routes(w, S, V)
    BY <1>1, <1>2
  <2> HIDE DEF b
  <2>3. /\ Separates(w.keys[b], Shares(w, V, 1, b), Shares(w, V, b + 1, Len(w.keys) + 1))
        /\ Shares(w, V, 1, b) \cup Shares(w, V, b + 1, Len(w.keys) + 1) = S
    BY ONLY <2>1, <2>2, CutRoutes
  <2> QED
    BY <1>4, <2>1, <2>3 DEF b
<1>7. Routes(s.left, A, V)
  <2>1. /\ 0 \in Nat /\ 0 + 1 = 1 /\ 0 + Len(s.left.keys) = o
        /\ 0 + Len(s.left.keys) + 1 = o + 1 /\ o <= Len(w.keys) /\ \A i \in 1 .. o + 1 : 0 + i = i
    BY <1>1, <1>4
  <2>2. IsSegment(s.left, w, 0)
    BY <1>4, <2>1 DEF IsSegment
  <2>3. \A i \in 0 + 1 .. 0 + Len(s.left.keys) :
            Separates(w.keys[i], V[w.child[i]], V[w.child[i + 1]])
    <3>1. \A i \in 1 .. o : i \in 1 .. N + 1
      OBVIOUS
    <3> QED
      BY <1>5, <2>1, <3>1
  <2>4. Routes(s.left, Shares(w, V, 0 + 1, 0 + Len(s.left.keys) + 1), V)
    BY ONLY <1>1, <1>3, <2>1, <2>2, <2>3, SegmentRoutes
  <2> QED
    BY <2>1, <2>4
<1>8. Routes(s.right, B, V)
  <2> DEFINE b == o + 1
  <2>1. /\ b \in Nat /\ b + 1 = o + 2 /\ b + Len(s.right.keys) = N + 1
        /\ b + Len(s.right.keys) + 1 = N + 2 /\ N + 1 <= Len(w.keys)
    BY <1>1, <1>4
  <2>2. IsSegment(s.right, w, b)
    BY <1>4, <2>1 DEF IsSegment
  <2>3. \A i \in b + 1 .. b + Len(s.right.keys) :
            Separates(w.keys[i], V[w.child[i]], V[w.child[i + 1]])
    <3>1. \A i \in o + 2 .. N + 1 : i \in 1 .. N + 1
      OBVIOUS
    <3> HIDE DEF b
    <3> QED
      BY <1>5, <2>1, <3>1
  <2> HIDE DEF b
  <2>4. Routes(s.right, Shares(w, V, b + 1, b + Len(s.right.keys) + 1), V)
    BY ONLY <1>1, <1>3, <2>1, <2>2, <2>3, SegmentRoutes
  <2> QED
    BY <2>1, <2>4
<1> QED
  BY <1>6, <1>7, <1>8

\* pop and pop_front: the child that leaves takes its keys along, and the key that
\* leaves with it stood between.
LEMMA PopRoutes ==
  ASSUME NEW C, NEW n, IsInner(n, Key, C), Len(n.keys) > 0,
         NEW S, S \subseteq Key, S # {}, NEW W, Routes(n, S, W)
  PROVE  LET L == Len(n.keys)
         IN  /\ \E A : /\ A \cup W[n.child[L + 1]] = S
                       /\ Separates(n.keys[L], A, W[n.child[L + 1]])
                       /\ Routes(PopInner(n), A, W)
             /\ \E B : /\ W[n.child[1]] \cup B = S
                       /\ Separates(n.keys[1], W[n.child[1]], B)
                       /\ Routes(PopFrontInner(n), B, W)
<1> DEFINE p == PopInner(n)
           q == PopFrontInner(n)
<1>1. /\ IsInner(p, Key, C) /\ Len(p.keys) = Len(n.keys) - 1
      /\ IsInner(q, Key, C) /\ Len(q.keys) = Len(n.keys) - 1
  BY PopInnerType
<1>2. /\ p.keys = Front(n.keys) /\ p.child = Front(n.child)
      /\ q.keys = Tail(n.keys) /\ q.child = Tail(n.child)
  BY DEF PopInner, PopFrontInner
<1> HIDE DEF p, q
<1> DEFINE Pops(L, cs, ks) ==
             /\ \E A : A \cup W[cs[L + 1]] = S /\ Separates(ks[L], A, W[cs[L + 1]]) /\ Routes(p, A, W)
             /\ \E B : W[cs[1]] \cup B = S /\ Separates(ks[1], W[cs[1]], B) /\ Routes(q, B, W)
<1> SUFFICES ASSUME NEW L \in Nat, L = Len(n.keys), L > 0,
                    NEW ks \in Seq(Key), ks = n.keys, NEW cs \in Seq(C), cs = n.child,
                    Len(cs) = L + 1, Len(ks) = L
             PROVE  Pops(L, cs, ks)
  <2>1. /\ n.keys \in Seq(Key) /\ n.child \in Seq(C) /\ Len(n.keys) \in Nat
        /\ Len(n.child) = Len(n.keys) + 1
    BY NodeParts
  <2> HIDE DEF Pops
  <2>2. Pops(Len(n.keys), n.child, n.keys)
    BY <2>1
  <2> QED
    BY <2>2 DEF Pops, p, q
<1>3. /\ \A j \in 1 .. L - 1 : p.keys[j] = ks[j] /\ q.keys[j] = ks[j + 1]
      /\ \A j \in 1 .. L : p.child[j] = cs[j] /\ q.child[j] = cs[j + 1]
  <2>1. ks \in Seq(Key) /\ Len(ks) > 0
    OBVIOUS
  <2>2. \A j \in 1 .. Len(ks) - 1 : Front(ks)[j] = ks[j] /\ Tail(ks)[j] = ks[j + 1]
    BY ONLY <2>1, EndsElems
  <2>3. cs \in Seq(C) /\ Len(cs) > 0 /\ Len(cs) - 1 = L
    OBVIOUS
  <2>4. \A j \in 1 .. Len(cs) - 1 : Front(cs)[j] = cs[j] /\ Tail(cs)[j] = cs[j + 1]
    BY ONLY <2>3, EndsElems
  <2> QED
    BY <1>2, <2>2, <2>3, <2>4
<1>4. \A i \in 1 .. L : Separates(ks[i], W[cs[i]], W[cs[i + 1]])
  BY NodeParts DEF Routes
<1>5. \E A : A \cup W[cs[L + 1]] = S /\ Separates(ks[L], A, W[cs[L + 1]]) /\ Routes(p, A, W)
  <2> DEFINE A == Shares(n, W, 1, L)
             B == Shares(n, W, L + 1, L + 1)
  <2>1. L \in 1 .. L
    OBVIOUS
  <2>2. Separates(ks[L], A, B) /\ A \cup B = S
    <3>1. IsInner(n, Key, C) /\ S \subseteq Key /\ S # {} /\ Routes(n, S, W) /\ L \in 1 .. Len(n.keys)
      BY <2>1
    <3>2. /\ Separates(n.keys[L], Shares(n, W, 1, L), Shares(n, W, L + 1, Len(n.keys) + 1))
          /\ Shares(n, W, 1, L) \cup Shares(n, W, L + 1, Len(n.keys) + 1) = S
      BY ONLY <3>1, CutRoutes
    <3> QED
      BY <3>2
  <2>3. B = W[cs[L + 1]]
    <3>1. L + 1 .. L + 1 = {L + 1}
      OBVIOUS
    <3> QED
      BY <3>1 DEF Shares
  <2>4. Routes(p, A, W)
    <3>0. Len(p.keys) = L - 1
      BY <1>1
    <3>1. /\ 0 \in Nat /\ 0 + 1 = 1 /\ 0 + Len(p.keys) = L - 1 /\ Len(p.keys) + 1 = L
          /\ 0 + Len(p.keys) + 1 = L /\ L - 1 <= L /\ \A i \in 1 .. L : 0 + i = i
      BY <3>0
    <3>2. IsSegment(p, n, 0)
      <4>1. \A i \in 1 .. L - 1 : i \in 1 .. L
        OBVIOUS
      <4> QED
        BY <1>3, <3>0, <3>1, <4>1 DEF IsSegment
    <3>3. \A i \in 0 + 1 .. 0 + Len(p.keys) :
              Separates(n.keys[i], W[n.child[i]], W[n.child[i + 1]])
      <4>1. \A i \in 1 .. L - 1 : i \in 1 .. L
        OBVIOUS
      <4> QED
        BY <1>4, <3>1, <4>1
    <3>4. IsInner(n, Key, C)
      OBVIOUS
    <3>5. Routes(p, Shares(n, W, 0 + 1, 0 + Len(p.keys) + 1), W)
      BY ONLY <1>1, <3>1, <3>2, <3>3, <3>4, SegmentRoutes
    <3> QED
      BY <3>1, <3>5
  <2> HIDE DEF A
  <2> QED
    BY <2>2, <2>3, <2>4
<1>6. \E B : W[cs[1]] \cup B = S /\ Separates(ks[1], W[cs[1]], B) /\ Routes(q, B, W)
  <2> DEFINE A == Shares(n, W, 1, 1)
             B == Shares(n, W, 2, L + 1)
  <2>1. 1 \in 1 .. L /\ 1 + 1 = 2
    OBVIOUS
  <2>2. Separates(ks[1], A, B) /\ A \cup B = S
    <3> DEFINE b == 1
    <3>1. IsInner(n, Key, C) /\ S \subseteq Key /\ S # {} /\ Routes(n, S, W) /\ b \in 1 .. Len(n.keys)
      BY <2>1
    <3> HIDE DEF b
    <3>2. /\ Separates(n.keys[b], Shares(n, W, 1, b), Shares(n, W, b + 1, Len(n.keys) + 1))
          /\ Shares(n, W, 1, b) \cup Shares(n, W, b + 1, Len(n.keys) + 1) = S
      BY ONLY <3>1, CutRoutes
    <3> QED
      BY <2>1, <3>2 DEF b
  <2>3. A = W[cs[1]]
    <3>1. 1 .. 1 = {1}
      OBVIOUS
    <3> QED
      BY <3>1 DEF Shares
  <2>4. Routes(q, B, W)
    <3> DEFINE b == 1
    <3>0. Len(q.keys) = L - 1
      BY <1>1
    <3>1. /\ b \in Nat /\ b + 1 = 2 /\ b + Len(q.keys) = L /\ Len(q.keys) + 1 = L
          /\ b + Len(q.keys) + 1 = L + 1 /\ L <= L /\ \A i \in 1 .. L : b + i = i + 1
      BY <3>0
    <3> HIDE DEF b
    <3>2. IsSegment(q, n, b)
      <4>1. \A i \in 1 .. L - 1 : i \in 1 .. L
        OBVIOUS
      <4> QED
        BY <1>3, <3>0, <3>1, <4>1 DEF IsSegment
    <3>3. \A i \in b + 1 .. b + Len(q.keys) :
              Separates(n.keys[i], W[n.child[i]], W[n.child[i + 1]])
      <4>1. \A i \in 2 .. L : i \in 1 .. L
        OBVIOUS
      <4> QED
        BY <1>4, <3>1, <4>1
    <3>4. IsInner(n, Key, C)
      OBVIOUS
    <3>5. Routes(q, Shares(n, W, b + 1, b + Len(q.keys) + 1), W)
      BY ONLY <1>1, <3>1, <3>2, <3>3, <3>4, SegmentRoutes
    <3> QED
      BY <3>1, <3>5
  <2> HIDE DEF B
  <2> QED
    BY <2>2, <2>3, <2>4
<1> QED
  BY <1>5, <1>6

-----------------------------------------------------------------------------
(* The leaf chain, as a value                                              *)

\* The leaves A get a part of the keys each, none of them empty.
Ranged(A, R) == \A l \in A : R[Leaf(l)] \subseteq Int /\ R[Leaf(l)] # {}

\* Leaves are ordered by the keys they get.
LEMMA AheadOrder ==
  ASSUME NEW R, NEW A, Ranged(A, R)
  PROVE  /\ \A i, j \in A : ~(Ahead(R, i, j) /\ Ahead(R, j, i))
         /\ \A i, j, k \in A : Ahead(R, i, j) /\ Ahead(R, j, k) => Ahead(R, i, k)
<1>1. ASSUME NEW i \in A, NEW j \in A, Ahead(R, i, j), Ahead(R, j, i) PROVE FALSE
  <2>1. PICK a \in R[Leaf(i)] : a \in Int
    BY DEF Ranged
  <2>2. PICK b \in R[Leaf(j)] : b \in Int
    BY DEF Ranged
  <2>3. a < b /\ b < a
    BY <1>1 DEF Ahead, Precedes
  <2> QED
    BY <2>1, <2>2, <2>3
<1>2. ASSUME NEW i \in A, NEW j \in A, NEW k \in A, Ahead(R, i, j), Ahead(R, j, k)
      PROVE  Ahead(R, i, k)
  <2> SUFFICES ASSUME NEW a \in R[Leaf(i)], NEW c \in R[Leaf(k)] PROVE a < c
    BY DEF Ahead, Precedes
  <2>1. PICK b \in R[Leaf(j)] : b \in Int
    BY DEF Ranged
  <2>2. a \in Int /\ c \in Int /\ a < b /\ b < c
    BY <1>2 DEF Ranged, Ahead, Precedes
  <2> QED
    BY <2>1, <2>2
<1> QED
  BY <1>1, <1>2

\* What comes of two ranges that are parts of two others.
LEMMA AheadPart ==
  ASSUME NEW R, NEW Q, NEW i, NEW j, NEW k, NEW l, Ahead(R, i, j),
         Q[Leaf(k)] \subseteq R[Leaf(i)], Q[Leaf(l)] \subseteq R[Leaf(j)]
  PROVE  Ahead(Q, k, l)
BY DEF Ahead, Precedes

\* The leaves lvs2 are the leaves lvs with n linked in after l.
LinksIn(lvs, A, l, n, lvs2) ==
    /\ lvs2[l].prev = lvs[l].prev /\ lvs2[l].next = n
    /\ lvs2[n].prev = l /\ lvs2[n].next = lvs[l].next
    /\ \A j \in A \ {l} : /\ lvs2[j].next = lvs[j].next
                          /\ lvs2[j].prev = IF j = lvs[l].next THEN n ELSE lvs[j].prev

(***************************************************************************)
(* Leaf l is split: the new leaf n takes the upper part of its keys, and   *)
(* its place in the chain is after l.                                      *)
(***************************************************************************)
LEMMA LinkedSplit ==
  ASSUME NEW lvs, NEW A, NEW R, LeavesLinked(lvs, A, R), Ranged(A, R), None \notin A,
         NEW l \in A, NEW n, n \notin A, n # None,
         NEW lvs2, LinksIn(lvs, A, l, n, lvs2),
         NEW Q, \A j \in A \ {l} : Q[Leaf(j)] = R[Leaf(j)],
         Q[Leaf(l)] \cup Q[Leaf(n)] = R[Leaf(l)], Ahead(Q, l, n)
  PROVE  LeavesLinked(lvs2, A \cup {n}, Q)
<1> DEFINE x == lvs[l].next
<1> /\ lvs2[l].prev = lvs[l].prev /\ lvs2[l].next = n
    /\ lvs2[n].prev = l /\ lvs2[n].next = lvs[l].next
    /\ \A j \in A \ {l} : /\ lvs2[j].next = lvs[j].next
                          /\ lvs2[j].prev = IF j = lvs[l].next THEN n ELSE lvs[j].prev
  BY DEF LinksIn
<1>1. /\ \A i, j \in A : ~(Ahead(R, i, j) /\ Ahead(R, j, i))
      /\ \A i, j, k \in A : Ahead(R, i, j) /\ Ahead(R, j, k) => Ahead(R, i, k)
  BY AheadOrder
<1>2. \A j, m \in A : Ahead(R, j, m) => /\ Ahead(Q, j, m)
                                        /\ j = l => Ahead(Q, n, m)
                                        /\ m = l => Ahead(Q, j, n)
  <2> SUFFICES ASSUME NEW j \in A, NEW m \in A, Ahead(R, j, m)
               PROVE  /\ Ahead(Q, j, m)
                      /\ j = l => Ahead(Q, n, m)
                      /\ m = l => Ahead(Q, j, n)
    OBVIOUS
  <2>1. j # m
    BY <1>1
  <2>2. \A i \in A : Q[Leaf(i)] \subseteq R[Leaf(i)]
    <3> TAKE i \in A
    <3>1. CASE i = l
      BY <3>1
    <3>2. CASE i # l
      BY <3>2
    <3> QED
      BY <3>1, <3>2
  <2>3. Q[Leaf(n)] \subseteq R[Leaf(l)]
    OBVIOUS
  <2> QED
    BY <2>2, <2>3, AheadPart
<1>3. ASSUME NEW j \in A
      PROVE  /\ lvs[j].prev # None => lvs[j].prev \in A /\ lvs[lvs[j].prev].next = j
             /\ lvs[j].next # None => /\ lvs[j].next \in A /\ lvs[lvs[j].next].prev = j
                                      /\ Ahead(R, j, lvs[j].next)
             /\ \A m \in A \ {j} :
                    \/ Ahead(R, m, j) /\ lvs[j].prev # None
                    \/ lvs[j].next # None /\ (m # lvs[j].next => Ahead(R, lvs[j].next, m))
  BY DEF LeavesLinked
<1>4. x # None => x \in A /\ x # l /\ Ahead(R, l, x)
  BY <1>1, <1>3
<1> HIDE DEF x
<1>5. \A j \in A \ {l} : /\ lvs2[j].next = lvs[j].next
                         /\ lvs2[j].prev = IF j = x THEN n ELSE lvs[j].prev
  BY DEF x
<1>6. lvs2[n].next = x /\ lvs[l].next = x
  BY DEF x
<1>7. ASSUME NEW j \in A \cup {n}, lvs2[j].prev # None
      PROVE  lvs2[j].prev \in A \cup {n} /\ lvs2[lvs2[j].prev].next = j
  <2>1. CASE j = n
    BY <2>1
  <2>2. CASE j = l
    <3> DEFINE p == lvs[l].prev
    <3>1. p \in A /\ lvs[p].next = l /\ lvs2[j].prev = p
      BY <1>3, <1>7, <2>2
    <3>2. p # l
      BY <1>4, <1>6, <3>1
    <3> HIDE DEF p
    <3> QED
      BY <1>5, <2>2, <3>1, <3>2
  <2>3. CASE j = x /\ j \in A \ {l}
    BY <1>5, <1>6, <2>3
  <2>4. CASE j \in A \ {l} /\ j # x
    <3> DEFINE p == lvs[j].prev
    <3>1. lvs2[j].prev = p /\ p \in A /\ lvs[p].next = j
      BY <1>3, <1>5, <1>7, <2>4
    <3>2. p # l
      BY <1>6, <2>4, <3>1
    <3> HIDE DEF p
    <3> QED
      BY <1>5, <3>1, <3>2
  <2> QED
    BY <2>1, <2>2, <2>3, <2>4
<1>8. ASSUME NEW j \in A \cup {n}, lvs2[j].next # None
      PROVE  /\ lvs2[j].next \in A \cup {n} /\ lvs2[lvs2[j].next].prev = j
             /\ Ahead(Q, j, lvs2[j].next)
  <2>1. CASE j = l
    BY <2>1
  <2>2. CASE j = n
    BY <1>2, <1>4, <1>5, <1>6, <1>8, <2>2
  <2>3. CASE j \in A \ {l}
    <3> DEFINE y == lvs[j].next
    <3>1. lvs2[j].next = y /\ y \in A /\ lvs[y].prev = j /\ Ahead(R, j, y)
      BY <1>3, <1>5, <1>8, <2>3
    <3>2. y # x
      BY <1>3, <1>4, <1>6, <2>3, <3>1
    <3> HIDE DEF y
    <3>3. lvs2[y].prev = j
      BY <1>5, <3>1, <3>2
    <3> QED
      BY <1>2, <2>3, <3>1, <3>3
  <2> QED
    BY <2>1, <2>2, <2>3
<1>9. ASSUME NEW j \in A \cup {n}, NEW m \in (A \cup {n}) \ {j}
      PROVE  \/ Ahead(Q, m, j) /\ lvs2[j].prev # None
             \/ lvs2[j].next # None /\ (m # lvs2[j].next => Ahead(Q, lvs2[j].next, m))
  <2>1. CASE j \in {l, n} /\ m \in A \ {l}
    <3>1. CASE Ahead(R, m, l) /\ lvs[l].prev # None
      BY <1>2, <2>1, <3>1
    <3>2. CASE x # None /\ (m # x => Ahead(R, x, m))
      <4>1. Ahead(R, l, m)
        BY <1>1, <1>4, <2>1, <3>2
      <4>2. Ahead(Q, n, m) /\ (m # x => Ahead(Q, x, m))
        BY <1>2, <1>4, <2>1, <3>2, <4>1
      <4> QED
        BY <1>6, <2>1, <3>2, <4>2
    <3> QED
      BY <1>3, <1>6, <2>1, <3>1, <3>2
  <2>2. CASE j = l /\ m = n
    BY <2>2
  <2>3. CASE j = n /\ m = l
    BY <2>3
  <2>4. CASE j \in A \ {l}
    <3> DEFINE o == IF m = n THEN l ELSE m
               y == lvs[j].next
    <3>1. o \in A \ {j}
      BY <2>4
    <3>2. lvs2[j].next = y /\ (lvs[j].prev # None => lvs2[j].prev # None)
      BY <1>5, <2>4
    <3>3. CASE Ahead(R, o, j) /\ lvs[j].prev # None
      BY <1>2, <2>4, <3>1, <3>2, <3>3
    <3>4. CASE y # None /\ (o # y => Ahead(R, y, o))
      <4>1. y \in A
        BY <1>3, <2>4, <3>4
      <4>2. m # y => Ahead(Q, y, m)
        <5>1. CASE m = n
          <6>1. CASE y = l
            BY <5>1, <6>1
          <6>2. CASE y # l
            BY <1>2, <3>4, <4>1, <5>1, <6>2
          <6> QED
            BY <6>1, <6>2
        <5>2. CASE m # n
          BY <1>2, <3>1, <3>4, <4>1, <5>2
        <5> QED
          BY <5>1, <5>2
      <4> QED
        BY <3>2, <3>4, <4>2
    <3> QED
      BY <1>3, <2>4, <3>1, <3>3, <3>4
  <2> QED
    BY <2>1, <2>2, <2>3, <2>4
<1> QED
  BY <1>7, <1>8, <1>9 DEF LeavesLinked

\* A third leaf is on the same side of two neighbours.
LEMMA Beside ==
  ASSUME NEW lvs, NEW A, NEW R, LeavesLinked(lvs, A, R), Ranged(A, R), None \notin A,
         NEW a \in A, NEW b \in A, a # b, lvs[a].next = b
  PROVE  /\ Ahead(R, a, b) /\ lvs[b].prev = a
         /\ \A m \in A \ {a, b} : \/ Ahead(R, m, a) /\ Ahead(R, m, b) /\ lvs[a].prev # None
                                  \/ /\ Ahead(R, a, m) /\ Ahead(R, b, m) /\ lvs[b].next # None
                                     /\ m # lvs[b].next => Ahead(R, lvs[b].next, m)
<1>1. /\ \A i, j \in A : ~(Ahead(R, i, j) /\ Ahead(R, j, i))
      /\ \A i, j, k \in A : Ahead(R, i, j) /\ Ahead(R, j, k) => Ahead(R, i, k)
  BY AheadOrder
<1>2. Ahead(R, a, b) /\ lvs[b].prev = a
  BY DEF LeavesLinked
<1>3. ASSUME NEW m \in A \ {a, b}
      PROVE  \/ Ahead(R, m, a) /\ Ahead(R, m, b) /\ lvs[a].prev # None
             \/ /\ Ahead(R, a, m) /\ Ahead(R, b, m) /\ lvs[b].next # None
                /\ m # lvs[b].next => Ahead(R, lvs[b].next, m)
  <2>1. \/ Ahead(R, m, a) /\ lvs[a].prev # None
        \/ Ahead(R, b, m)
    BY DEF LeavesLinked
  <2>2. \/ Ahead(R, m, b)
        \/ lvs[b].next # None /\ (m # lvs[b].next => Ahead(R, lvs[b].next, m))
    BY DEF LeavesLinked
  <2>3. CASE Ahead(R, m, a) /\ lvs[a].prev # None
    BY <1>1, <1>2, <2>3
  <2>4. CASE Ahead(R, b, m)
    BY <1>1, <1>2, <2>2, <2>4
  <2> QED
    BY <2>1, <2>3, <2>4
<1> QED
  BY <1>2, <1>3

\* The leaves lvs2 are the leaves lvs without b, which followed a.
LinksOut(lvs, A, a, b, lvs2) ==
    /\ lvs2[a].prev = lvs[a].prev /\ lvs2[a].next = lvs[b].next
    /\ \A j \in A \ {a, b} : /\ lvs2[j].next = lvs[j].next
                             /\ lvs2[j].prev = IF j = lvs[b].next THEN a ELSE lvs[j].prev

(***************************************************************************)
(* Leaf a takes over the keys of its right neighbour b, which goes.        *)
(***************************************************************************)
LEMMA LinkedMerge ==
  ASSUME NEW lvs, NEW A, NEW R, LeavesLinked(lvs, A, R), Ranged(A, R), None \notin A,
         NEW a \in A, NEW b \in A, a # b, lvs[a].next = b,
         NEW lvs2, LinksOut(lvs, A, a, b, lvs2),
         NEW Q, \A j \in A \ {a, b} : Q[Leaf(j)] = R[Leaf(j)],
         Q[Leaf(a)] = R[Leaf(a)] \cup R[Leaf(b)]
  PROVE  LeavesLinked(lvs2, A \ {b}, Q)
<1> DEFINE x == lvs[b].next
           B == A \ {b}
<1> /\ lvs2[a].prev = lvs[a].prev /\ lvs2[a].next = lvs[b].next
    /\ \A j \in A \ {a, b} : /\ lvs2[j].next = lvs[j].next
                             /\ lvs2[j].prev = IF j = lvs[b].next THEN a ELSE lvs[j].prev
  BY DEF LinksOut
<1>1. /\ \A i, j \in A : ~(Ahead(R, i, j) /\ Ahead(R, j, i))
      /\ \A i, j, k \in A : Ahead(R, i, j) /\ Ahead(R, j, k) => Ahead(R, i, k)
  BY AheadOrder
<1>2. /\ Ahead(R, a, b) /\ lvs[b].prev = a
      /\ \A m \in A \ {a, b} : \/ Ahead(R, m, a) /\ Ahead(R, m, b) /\ lvs[a].prev # None
                               \/ /\ Ahead(R, a, m) /\ Ahead(R, b, m) /\ lvs[b].next # None
                                  /\ m # lvs[b].next => Ahead(R, lvs[b].next, m)
  BY Beside
<1>3. ASSUME NEW j \in A
      PROVE  /\ lvs[j].prev # None => lvs[j].prev \in A /\ lvs[lvs[j].prev].next = j
             /\ lvs[j].next # None => /\ lvs[j].next \in A /\ lvs[lvs[j].next].prev = j
                                      /\ Ahead(R, j, lvs[j].next)
             /\ \A m \in A \ {j} :
                    \/ Ahead(R, m, j) /\ lvs[j].prev # None
                    \/ lvs[j].next # None /\ (m # lvs[j].next => Ahead(R, lvs[j].next, m))
  BY DEF LeavesLinked
<1>4. x # None => x \in A \ {a, b} /\ lvs[x].prev = b /\ Ahead(R, b, x) /\ Ahead(R, a, x)
  BY <1>1, <1>2, <1>3
<1>5. \A j \in A \ {a, b} : /\ lvs2[j].next = lvs[j].next
                            /\ lvs2[j].prev = IF j = x THEN a ELSE lvs[j].prev
  OBVIOUS
<1>6. lvs2[a].prev = lvs[a].prev /\ lvs2[a].next = x /\ lvs[b].next = x
  OBVIOUS
<1> HIDE DEF x
<1>7. /\ \A j, m \in A \ {a, b} : Ahead(R, j, m) => Ahead(Q, j, m)
      /\ \A m \in A \ {a, b} : Ahead(R, a, m) /\ Ahead(R, b, m) => Ahead(Q, a, m)
      /\ \A m \in A \ {a, b} : Ahead(R, m, a) /\ Ahead(R, m, b) => Ahead(Q, m, a)
  BY DEF Ahead, Precedes
<1>8. /\ \A m \in A \ {a, b} : Ahead(R, a, m) => Ahead(Q, a, m)
      /\ \A m \in A \ {a, b} : Ahead(R, m, a) => Ahead(Q, m, a)
  BY <1>1, <1>2, <1>7
<1>9. \A j, m \in B : Ahead(R, j, m) => Ahead(Q, j, m)
  BY <1>1, <1>7, <1>8
<1>10. ASSUME NEW j \in B, lvs2[j].prev # None
       PROVE  lvs2[j].prev \in B /\ lvs2[lvs2[j].prev].next = j
  <2>1. CASE j = x
    BY <1>4, <1>5, <1>6, <2>1
  <2>2. CASE j # x
    <3> DEFINE p == lvs[j].prev
    <3>1. lvs2[j].prev = p /\ p \in A /\ lvs[p].next = j
      BY <1>3, <1>5, <1>6, <1>10, <2>2
    <3>2. p # b /\ p # a
      BY <1>6, <2>2, <3>1
    <3> HIDE DEF p
    <3> QED
      BY <1>5, <3>1, <3>2
  <2> QED
    BY <2>1, <2>2
<1>11. ASSUME NEW j \in B, lvs2[j].next # None
       PROVE  /\ lvs2[j].next \in B /\ lvs2[lvs2[j].next].prev = j
              /\ Ahead(Q, j, lvs2[j].next)
  <2>1. CASE j = a
    BY <1>4, <1>5, <1>6, <1>8, <1>11, <2>1
  <2>2. CASE j # a
    <3> DEFINE y == lvs[j].next
    <3>1. lvs2[j].next = y /\ y \in A /\ lvs[y].prev = j /\ Ahead(R, j, y)
      BY <1>3, <1>5, <1>11, <2>2
    <3>2. y # b /\ y # x
      BY <1>2, <1>4, <2>2, <3>1
    <3> HIDE DEF y
    <3>3. lvs2[y].prev = j
      BY <1>5, <1>6, <3>1, <3>2
    <3> QED
      BY <1>9, <3>1, <3>2, <3>3
  <2> QED
    BY <2>1, <2>2
<1>12. ASSUME NEW j \in B, NEW m \in B \ {j}
       PROVE  \/ Ahead(Q, m, j) /\ lvs2[j].prev # None
              \/ lvs2[j].next # None /\ (m # lvs2[j].next => Ahead(Q, lvs2[j].next, m))
  <2>1. CASE j = a
    <3>1. m \in A \ {a, b}
      BY <2>1
    <3>2. CASE Ahead(R, m, a) /\ lvs[a].prev # None
      BY <1>6, <1>8, <2>1, <3>1, <3>2
    <3>3. CASE x # None /\ (m # x => Ahead(R, x, m))
      BY <1>4, <1>6, <1>9, <2>1, <3>1, <3>3
    <3> QED
      BY <1>2, <1>6, <3>1, <3>2, <3>3
  <2>2. CASE j # a
    <3>1. j \in A \ {a, b} /\ lvs2[j].next = lvs[j].next
      BY <1>5, <2>2
    <3>2. lvs[j].prev # None => lvs2[j].prev # None
      BY <1>5, <3>1
    <3>3. lvs[j].next # b
      BY <1>2, <1>3, <2>2
    <3>4. CASE Ahead(R, m, j) /\ lvs[j].prev # None
      BY <1>9, <3>2, <3>4
    <3>5. CASE lvs[j].next # None /\ (m # lvs[j].next => Ahead(R, lvs[j].next, m))
      <4>1. lvs[j].next \in B
        BY <1>3, <3>1, <3>3, <3>5
      <4> QED
        BY <1>9, <3>1, <3>5, <4>1
    <3> QED
      BY <1>3, <3>1, <3>4, <3>5
  <2> QED
    BY <2>1, <2>2
<1> QED
  BY <1>10, <1>11, <1>12 DEF LeavesLinked

\* The leaves lvs2 are linked as the leaves lvs.
LinksKept(lvs, A, lvs2) ==
    \A j \in A : lvs2[j].next = lvs[j].next /\ lvs2[j].prev = lvs[j].prev

(***************************************************************************)
(* Two neighbours move the border between their keys.                      *)
(***************************************************************************)
LEMMA LinkedShift ==
  ASSUME NEW lvs, NEW A, NEW R, LeavesLinked(lvs, A, R), Ranged(A, R), None \notin A,
         NEW a \in A, NEW b \in A, a # b, lvs[a].next = b,
         NEW lvs2, LinksKept(lvs, A, lvs2),
         NEW Q, \A j \in A \ {a, b} : Q[Leaf(j)] = R[Leaf(j)],
         Q[Leaf(a)] \cup Q[Leaf(b)] = R[Leaf(a)] \cup R[Leaf(b)], Ahead(Q, a, b)
  PROVE  LeavesLinked(lvs2, A, Q)
<1>1. /\ \A i, j \in A : ~(Ahead(R, i, j) /\ Ahead(R, j, i))
      /\ \A i, j, k \in A : Ahead(R, i, j) /\ Ahead(R, j, k) => Ahead(R, i, k)
  BY AheadOrder
<1>2. /\ Ahead(R, a, b) /\ lvs[b].prev = a
      /\ \A m \in A \ {a, b} : \/ Ahead(R, m, a) /\ Ahead(R, m, b)
                               \/ Ahead(R, a, m) /\ Ahead(R, b, m)
  BY Beside
<1>3. ASSUME NEW j \in A, NEW m \in A, Ahead(R, j, m) PROVE Ahead(Q, j, m)
  <2>1. j # m
    BY <1>1, <1>3
  <2>2. CASE j \notin {a, b} /\ m \notin {a, b}
    BY <1>3, <2>2 DEF Ahead
  <2>3. CASE j \in {a, b} /\ m \in {a, b}
    BY <1>1, <1>2, <1>3, <2>1, <2>3
  <2>4. CASE j \in {a, b} /\ m \notin {a, b}
    <3>1. Ahead(R, a, m) /\ Ahead(R, b, m)
      BY <1>1, <1>2, <1>3, <2>4
    <3>2. Q[Leaf(m)] = R[Leaf(m)] /\ Q[Leaf(j)] \subseteq R[Leaf(a)] \cup R[Leaf(b)]
      BY <2>4
    <3> QED
      BY <3>1, <3>2 DEF Ahead, Precedes
  <2>5. CASE j \notin {a, b} /\ m \in {a, b}
    <3>1. Ahead(R, j, a) /\ Ahead(R, j, b)
      BY <1>1, <1>2, <1>3, <2>5
    <3>2. Q[Leaf(j)] = R[Leaf(j)] /\ Q[Leaf(m)] \subseteq R[Leaf(a)] \cup R[Leaf(b)]
      BY <2>5
    <3> QED
      BY <3>1, <3>2 DEF Ahead, Precedes
  <2> QED
    BY <2>2, <2>3, <2>4, <2>5
<1> QED
  BY <1>3 DEF LeavesLinked, LinksKept

\* The same leaves, with the same links and the same keys to get.
LEMMA LinkedSame ==
  ASSUME NEW lvs, NEW A, NEW R, LeavesLinked(lvs, A, R),
         NEW lvs2, LinksKept(lvs, A, lvs2),
         NEW Q, \A j \in A : Q[Leaf(j)] = R[Leaf(j)]
  PROVE  LeavesLinked(lvs2, A, Q)
<1>1. \A i, j \in A : Ahead(Q, i, j) <=> Ahead(R, i, j)
  BY DEF Ahead
<1> QED
  BY <1>1 DEF LeavesLinked, LinksKept
=============================================================================
