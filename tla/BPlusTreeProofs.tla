-------------------------- MODULE BPlusTreeProofs ---------------------------
(***************************************************************************)
(* Proofs about module BPlusTree, for every capacity LEAF_N and INNER_N,   *)
(* every set of keys and values, and every sequence of calls: the types    *)
(* (TypeOK), that no operation overflows a node (NoOverflow), and that all *)
(* leaves lie at one depth (Balanced).                                     *)
(*                                                                         *)
(* The three follow from IInv of BPlusTreeInv, which is inductive.  Good   *)
(* is IInv for given heights h: every step keeps the heights, but for a    *)
(* split, which adds a node at a height it knows.                          *)
(*                                                                         *)
(* First, what the operations on nodes preserve: that a result is a node   *)
(* again, how large it is, and which children an inner node is left with,  *)
(* none of them named twice.  Then, lemmas about the node store as a       *)
(* value, and about paths in it: what writing, adding and linking nodes    *)
(* preserves.                                                              *)
(***************************************************************************)
EXTENDS BPlusTreeInv, SequenceTheorems, FiniteSetTheorems, TLAPS

-----------------------------------------------------------------------------
(* Sequences                                                               *)

\* A cut of a sequence, and its length.
LEMMA CutType ==
  ASSUME NEW S, NEW s \in Seq(S), NEW m \in Nat \ {0}, NEW n \in Nat,
         n <= Len(s), m <= n + 1
  PROVE  /\ SubSeq(s, m, n) \in Seq(S)
         /\ Len(SubSeq(s, m, n)) = n - m + 1
<1>1. \A i \in m .. n : s[i] \in S
  <2>1. TAKE i \in m .. n
  <2>2. Len(s) \in Nat
    BY LenProperties
  <2>3. i \in 1 .. Len(s)
    BY <2>2
  <2> QED
    BY <2>3, ElementOfSeq
<1>2. /\ SubSeq(s, m, n) \in Seq(S)
      /\ Len(SubSeq(s, m, n)) = IF m <= n THEN n - m + 1 ELSE 0
  BY <1>1, SubSeqProperties
<1> QED
  BY <1>2

\* InsertAt: type and length.
LEMMA InsertAtType ==
  ASSUME NEW S, NEW s \in Seq(S), NEW i \in 1 .. Len(s) + 1, NEW e \in S
  PROVE  /\ InsertAt(s, i, e) \in Seq(S)
         /\ Len(InsertAt(s, i, e)) = Len(s) + 1
<1> DEFINE low  == SubSeq(s, 1, i - 1)
           high == SubSeq(s, i, Len(s))
<1>0. Len(s) \in Nat
  BY LenProperties
<1>1. low \in Seq(S) /\ Len(low) = i - 1
  BY <1>0, CutType
<1>2. high \in Seq(S) /\ Len(high) = Len(s) - i + 1
  BY <1>0, CutType
<1>3. <<e>> \in Seq(S) /\ Len(<<e>>) = 1
  OBVIOUS
<1>4. low \o <<e>> \in Seq(S) /\ Len(low \o <<e>>) = i
  <2> HIDE DEF low
  <2> QED
    BY <1>1, <1>3, ConcatProperties
<1>5. /\ (low \o <<e>>) \o high \in Seq(S)
      /\ Len((low \o <<e>>) \o high) = i + (Len(s) - i + 1)
  <2> HIDE DEF low, high
  <2>1. (low \o <<e>>) \o high \in Seq(S)
    BY <1>2, <1>4, ConcatProperties
  <2>2. Len((low \o <<e>>) \o high) = Len(low \o <<e>>) + Len(high)
    BY <1>2, <1>4, ConcatProperties
  <2> QED
    BY <1>2, <1>4, <2>1, <2>2
<1>6. InsertAt(s, i, e) = (low \o <<e>>) \o high
  BY DEF InsertAt
<1> QED
  <2> HIDE DEF low, high
  <2>1. i + (Len(s) - i + 1) = Len(s) + 1
    BY <1>0
  <2> QED
    BY <1>5, <1>6, <2>1

\* RemoveAt: type and length.
LEMMA RemoveAtType ==
  ASSUME NEW S, NEW s \in Seq(S), NEW i \in 1 .. Len(s)
  PROVE  /\ RemoveAt(s, i) \in Seq(S)
         /\ Len(RemoveAt(s, i)) = Len(s) - 1
<1> DEFINE low  == SubSeq(s, 1, i - 1)
           high == SubSeq(s, i + 1, Len(s))
<1>0. Len(s) \in Nat
  BY LenProperties
<1>1. low \in Seq(S) /\ Len(low) = i - 1
  BY <1>0, CutType
<1>2. high \in Seq(S) /\ Len(high) = Len(s) - (i + 1) + 1
  BY <1>0, CutType
<1>3. low \o high \in Seq(S) /\ Len(low \o high) = Len(low) + Len(high)
  <2> HIDE DEF low, high
  <2> QED
    BY <1>1, <1>2, ConcatProperties
<1>4. RemoveAt(s, i) = low \o high
  BY DEF RemoveAt
<1> QED
  <2> HIDE DEF low, high
  <2>1. (i - 1) + (Len(s) - (i + 1) + 1) = Len(s) - 1
    BY <1>0
  <2> QED
    BY <1>1, <1>2, <1>3, <1>4, <2>1

\* The two ends of a sequence.
LEMMA EndsType ==
  ASSUME NEW S, NEW s \in Seq(S), Len(s) > 0
  PROVE  /\ Front(s) \in Seq(S) /\ Len(Front(s)) = Len(s) - 1
         /\ Tail(s) \in Seq(S) /\ Len(Tail(s)) = Len(s) - 1
         /\ s[1] \in S /\ s[Len(s)] \in S
<1>0. Len(s) \in Nat
  BY LenProperties
<1>1. Front(s) \in Seq(S) /\ Len(Front(s)) = Len(s) - 1
  <2>1. /\ SubSeq(s, 1, Len(s) - 1) \in Seq(S)
        /\ Len(SubSeq(s, 1, Len(s) - 1)) = (Len(s) - 1) - 1 + 1
    <3>1. /\ Len(s) - 1 \in Nat /\ 1 \in Nat \ {0}
          /\ Len(s) - 1 <= Len(s) /\ 1 <= (Len(s) - 1) + 1
      BY <1>0
    <3> QED
      BY ONLY <3>1, s \in Seq(S), CutType
  <2> QED
    BY <1>0, <2>1 DEF Front
<1>2. s # <<>>
  BY <1>0
<1>3. Tail(s) \in Seq(S) /\ Len(Tail(s)) = Len(s) - 1
  BY <1>2, HeadTailProperties
<1>4. 1 \in 1 .. Len(s) /\ Len(s) \in 1 .. Len(s)
  BY <1>0
<1>5. s[1] \in S /\ s[Len(s)] \in S
  BY <1>4, ElementOfSeq
<1> QED
  BY <1>1, <1>3, <1>5

\* A sequence with one more element at either end.
LEMMA GrowType ==
  ASSUME NEW S, NEW s \in Seq(S), NEW e \in S
  PROVE  /\ Append(s, e) \in Seq(S) /\ Len(Append(s, e)) = Len(s) + 1
         /\ <<e>> \o s \in Seq(S) /\ Len(<<e>> \o s) = Len(s) + 1
<1>0. Len(s) \in Nat
  BY LenProperties
<1>1. <<e>> \in Seq(S) /\ Len(<<e>>) = 1
  OBVIOUS
<1>2. <<e>> \o s \in Seq(S) /\ Len(<<e>> \o s) = 1 + Len(s)
  BY <1>1, ConcatProperties
<1> QED
  BY <1>0, <1>2

\* One element replaced.
LEMMA PutType ==
  ASSUME NEW S, NEW s \in Seq(S), NEW i \in 1 .. Len(s), NEW e \in S
  PROVE  /\ [s EXCEPT ![i] = e] \in Seq(S)
         /\ Len([s EXCEPT ![i] = e]) = Len(s)
BY ExceptSeq

-----------------------------------------------------------------------------
(* Counts                                                                  *)

\* The sum of a sequence of naturals is a natural.
LEMMA TotalType ==
  ASSUME NEW counts \in Seq(Nat)
  PROVE  Total(counts) \in Nat
<1> DEFINE Piece(i) == {i} \X (1 .. counts[i])
           Pieces   == {Piece(i) : i \in DOMAIN counts}
           piece    == [i \in DOMAIN counts |-> Piece(i)]
<1>1. DOMAIN counts = 1 .. Len(counts) /\ Len(counts) \in Nat
  BY LenProperties
<1>2. IsFiniteSet(DOMAIN counts)
  BY <1>1, FS_Interval
<1>3. piece \in Surjection(DOMAIN counts, Pieces)
  BY DEF Surjection
<1>4. IsFiniteSet(Pieces)
  <2> HIDE DEF piece, Pieces
  <2> QED
    BY <1>2, <1>3, FS_Surjection
<1>5. ASSUME NEW i \in DOMAIN counts
      PROVE  IsFiniteSet(Piece(i))
  <2>1. counts[i] \in Nat
    BY <1>1, ElementOfSeq
  <2>2. IsFiniteSet(1 .. counts[i])
    BY <2>1, FS_Interval
  <2>3. IsFiniteSet({i})
    BY FS_Singleton
  <2> QED
    BY <2>2, <2>3, FS_Product
<1>6. \A p \in Pieces : IsFiniteSet(p)
  BY <1>5
<1>7. IsFiniteSet(UNION Pieces)
  <2> HIDE DEF Pieces
  <2> QED
    BY <1>4, <1>6, FS_UNION
<1>8. Cardinality(UNION Pieces) \in Nat
  <2> HIDE DEF Pieces
  <2> QED
    BY <1>7, FS_CardinalityType
<1> QED
  BY <1>8 DEF Total

\* A query by index goes to a child of the node, or to none.
LEMMA LocateInInnerType ==
  ASSUME NEW counts \in Seq(Nat), NEW idx \in Nat
  PROVE  /\ LocateInInner(idx, counts).child \in DOMAIN counts \cup {0}
         /\ LocateInInner(idx, counts).query \in Nat
<1> DEFINE Before(i) == Total(SubSeq(counts, 1, i - 1))
           Holds == {i \in DOMAIN counts : /\ Before(i) <= idx
                                           /\ idx < Before(i) + counts[i]}
           at == CHOOSE i \in Holds : TRUE
<1>1. CASE Holds = {}
  BY <1>1 DEF LocateInInner
<1>2. CASE Holds # {}
  <2>1. at \in DOMAIN counts /\ Before(at) <= idx
    <3>1. at \in Holds
      BY <1>2
    <3> HIDE DEF at
    <3> QED
      BY <3>1
  <2>2. SubSeq(counts, 1, at - 1) \in Seq(Nat)
    <3> HIDE DEF at
    <3>1. Len(counts) \in Nat /\ at \in 1 .. Len(counts)
      BY <2>1, LenProperties
    <3> QED
      BY <3>1, CutType
  <2>3. Before(at) \in Nat
    BY <2>2, TotalType
  <2>4. LocateInInner(idx, counts) = [child |-> at, query |-> idx - Before(at)]
    BY <1>2 DEF LocateInInner
  <2>5. idx - Before(at) \in Nat
    <3> HIDE DEF Before, at
    <3> QED
      BY <2>1, <2>3
  <2> QED
    <3> HIDE DEF Before, at
    <3> QED
      BY <2>1, <2>4, <2>5
<1> QED
  BY <1>1, <1>2

-----------------------------------------------------------------------------
(* Leaves                                                                  *)

\* The leaves whose entries are in P.
LeafOver(P) == [data : Seq(P), prev : Nat \cup {None}, next : Nat \cup {None}]

\* A search in a leaf yields a slot to insert at; if the key is there, its slot.
LEMMA LocateSlotType ==
  ASSUME NEW P, NEW leaf \in LeafOver(P), NEW k \in Int
  PROVE  /\ LocateSlot(leaf, k) \in 1 .. Len(leaf.data) + 1
         /\ HasKey(leaf, k) => LocateSlot(leaf, k) \in 1 .. Len(leaf.data)
<1> DEFINE n == Len(leaf.data)
           Less == {i \in DOMAIN leaf.data : leaf.data[i][1] < k}
<1>1. leaf.data \in Seq(P) /\ n \in Nat /\ DOMAIN leaf.data = 1 .. n
  <2>1. leaf.data \in Seq(P)
    BY DEF LeafOver
  <2> QED
    BY <2>1, LenProperties
<1>2. IsFiniteSet(1 .. n) /\ Cardinality(1 .. n) = n
  BY <1>1, FS_Interval
<1>3. Less \in SUBSET (1 .. n)
  BY <1>1
<1>4. /\ IsFiniteSet(Less) /\ Cardinality(Less) <= n
      /\ n = Cardinality(Less) => 1 .. n = Less
  <2> HIDE DEF Less
  <2> QED
    BY <1>2, <1>3, FS_Subset
<1>5. Cardinality(Less) \in Nat
  <2> HIDE DEF Less
  <2> QED
    BY <1>4, FS_CardinalityType
<1>6. LocateSlot(leaf, k) = 1 + Cardinality(Less)
  BY DEF LocateSlot
<1>7. LocateSlot(leaf, k) \in 1 .. n + 1
  <2> HIDE DEF Less
  <2> QED
    BY <1>1, <1>4, <1>5, <1>6
<1>8. ASSUME HasKey(leaf, k) PROVE Cardinality(Less) # n
  <2>1. PICK i \in 1 .. n : leaf.data[i][1] = k
    BY <1>1, <1>8 DEF HasKey
  <2>2. SUFFICES ASSUME 1 .. n = Less PROVE FALSE
    <3> HIDE DEF Less
    <3> QED
      BY <1>4
  <2>3. k < k
    BY <2>1, <2>2
  <2> QED
    BY <2>3
<1> QED
  <2> HIDE DEF Less
  <2> QED
    BY <1>1, <1>4, <1>5, <1>6, <1>7, <1>8

\* Operations that keep a leaf's links: only its data change.
LEMMA LeafWithData ==
  ASSUME NEW P, NEW leaf \in LeafOver(P), NEW d \in Seq(P)
  PROVE  /\ [leaf EXCEPT !.data = d] \in LeafOver(P)
         /\ [leaf EXCEPT !.data = d].data = d
BY DEF LeafOver

\* A new value for a slot keeps the size of the leaf.
LEMMA SetValueType ==
  ASSUME NEW P, NEW leaf \in LeafOver(P), NEW slot \in 1 .. Len(leaf.data),
         NEW v, <<leaf.data[slot][1], v>> \in P
  PROVE  /\ SetValue(leaf, slot, v) \in LeafOver(P)
         /\ Len(SetValue(leaf, slot, v).data) = Len(leaf.data)
<1> DEFINE pair == <<leaf.data[slot][1], v>>
           d    == [leaf.data EXCEPT ![slot] = pair]
<1>1. leaf.data \in Seq(P)
  BY DEF LeafOver
<1>2. d \in Seq(P) /\ Len(d) = Len(leaf.data)
  <2>1. pair \in P
    OBVIOUS
  <2> HIDE DEF pair
  <2> QED
    BY <1>1, <2>1, PutType
<1>3. SetValue(leaf, slot, v) = [leaf EXCEPT !.data = d]
  BY DEF SetValue, LeafOver
<1> QED
  <2> HIDE DEF d
  <2> QED
    BY <1>2, <1>3, LeafWithData

\* The insert branch of try_upsert adds one entry.
LEMMA InsertInLeafType ==
  ASSUME NEW P, NEW leaf \in LeafOver(P),
         NEW slot \in 1 .. Len(leaf.data) + 1, NEW item \in P
  PROVE  /\ InsertInLeaf(leaf, slot, item) \in LeafOver(P)
         /\ Len(InsertInLeaf(leaf, slot, item).data) = Len(leaf.data) + 1
<1>1. leaf.data \in Seq(P)
  BY DEF LeafOver
<1>2. /\ InsertAt(leaf.data, slot, item) \in Seq(P)
      /\ Len(InsertAt(leaf.data, slot, item)) = Len(leaf.data) + 1
  BY <1>1, InsertAtType
<1> QED
  BY <1>2, LeafWithData DEF InsertInLeaf

\* delete_at removes one entry.
LEMMA DeleteAtType ==
  ASSUME NEW P, NEW leaf \in LeafOver(P), NEW slot \in 1 .. Len(leaf.data)
  PROVE  /\ DeleteAt(leaf, slot) \in LeafOver(P)
         /\ Len(DeleteAt(leaf, slot).data) = Len(leaf.data) - 1
<1>1. leaf.data \in Seq(P)
  BY DEF LeafOver
<1>2. /\ RemoveAt(leaf.data, slot) \in Seq(P)
      /\ Len(RemoveAt(leaf.data, slot)) = Len(leaf.data) - 1
  BY <1>1, RemoveAtType
<1> QED
  BY <1>2, LeafWithData DEF DeleteAt

\* pop and pop_front of a leaf that is not empty.
LEMMA PopLeafType ==
  ASSUME NEW P, NEW leaf \in LeafOver(P), Len(leaf.data) > 0
  PROVE  /\ PopLeaf(leaf) \in LeafOver(P)
         /\ Len(PopLeaf(leaf).data) = Len(leaf.data) - 1
         /\ PopFrontLeaf(leaf) \in LeafOver(P)
         /\ Len(PopFrontLeaf(leaf).data) = Len(leaf.data) - 1
<1>1. leaf.data \in Seq(P)
  BY DEF LeafOver
<1>2. /\ Front(leaf.data) \in Seq(P) /\ Len(Front(leaf.data)) = Len(leaf.data) - 1
      /\ Tail(leaf.data) \in Seq(P) /\ Len(Tail(leaf.data)) = Len(leaf.data) - 1
  BY <1>1, EndsType
<1> QED
  BY <1>2, LeafWithData DEF PopLeaf, PopFrontLeaf

\* A deletion that a borrowed item makes up for keeps the size.
LEMMA DeleteWithPushType ==
  ASSUME NEW P, NEW leaf \in LeafOver(P), NEW slot \in 1 .. Len(leaf.data),
         NEW item \in P
  PROVE  /\ DeleteWithPush(leaf, slot, item) \in LeafOver(P)
         /\ Len(DeleteWithPush(leaf, slot, item).data) = Len(leaf.data)
         /\ DeleteWithPushFront(leaf, slot, item) \in LeafOver(P)
         /\ Len(DeleteWithPushFront(leaf, slot, item).data) = Len(leaf.data)
<1> DEFINE rest == RemoveAt(leaf.data, slot)
<1>1. leaf.data \in Seq(P) /\ Len(leaf.data) \in Nat
  <2>1. leaf.data \in Seq(P)
    BY DEF LeafOver
  <2> QED
    BY <2>1, LenProperties
<1>2. rest \in Seq(P) /\ Len(rest) = Len(leaf.data) - 1
  BY <1>1, RemoveAtType
<1>3. /\ Append(rest, item) \in Seq(P) /\ Len(Append(rest, item)) = Len(rest) + 1
      /\ <<item>> \o rest \in Seq(P) /\ Len(<<item>> \o rest) = Len(rest) + 1
  <2> HIDE DEF rest
  <2> QED
    BY <1>2, GrowType
<1>4. /\ DeleteWithPush(leaf, slot, item) = [leaf EXCEPT !.data = Append(rest, item)]
      /\ DeleteWithPushFront(leaf, slot, item) = [leaf EXCEPT !.data = <<item>> \o rest]
  BY DEF DeleteWithPush, DeleteWithPushFront, LeafOver
<1>5. Len(rest) + 1 = Len(leaf.data)
  <2> HIDE DEF rest
  <2> QED
    BY <1>1, <1>2
<1>6. /\ DeleteWithPush(leaf, slot, item) \in LeafOver(P)
      /\ DeleteWithPush(leaf, slot, item).data = Append(rest, item)
  <2> DEFINE d == Append(rest, item)
  <2>1. d \in Seq(P)
    BY <1>3
  <2>2. DeleteWithPush(leaf, slot, item) = [leaf EXCEPT !.data = d]
    BY <1>4
  <2> HIDE DEF d
  <2>3. /\ DeleteWithPush(leaf, slot, item) \in LeafOver(P)
        /\ DeleteWithPush(leaf, slot, item).data = d
    BY <2>1, <2>2, LeafWithData
  <2> QED
    BY <2>3 DEF d
<1>7. /\ DeleteWithPushFront(leaf, slot, item) \in LeafOver(P)
      /\ DeleteWithPushFront(leaf, slot, item).data = <<item>> \o rest
  <2> DEFINE d == <<item>> \o rest
  <2>1. d \in Seq(P)
    BY <1>3
  <2>2. DeleteWithPushFront(leaf, slot, item) = [leaf EXCEPT !.data = d]
    BY <1>4
  <2> HIDE DEF d
  <2>3. /\ DeleteWithPushFront(leaf, slot, item) \in LeafOver(P)
        /\ DeleteWithPushFront(leaf, slot, item).data = d
    BY <2>1, <2>2, LeafWithData
  <2> QED
    BY <2>3 DEF d
<1> QED
  <2> HIDE DEF rest
  <2>1. Len(DeleteWithPush(leaf, slot, item).data) = Len(rest) + 1
    BY <1>3, <1>6
  <2>2. Len(DeleteWithPushFront(leaf, slot, item).data) = Len(rest) + 1
    BY <1>3, <1>7
  <2> QED
    BY <1>5, <1>6, <1>7, <2>1, <2>2

\* A merge with the leaf to the right, which loses the entry of slot on the way.
LEMMA MergeRightDeleteFirstType ==
  ASSUME NEW P, NEW leaf \in LeafOver(P), NEW right \in LeafOver(P),
         NEW slot \in 1 .. Len(right.data)
  PROVE  LET m == MergeRightDeleteFirst(leaf, slot, right)
         IN  /\ m \in LeafOver(P)
             /\ Len(m.data) = Len(leaf.data) + Len(right.data) - 1
<1> DEFINE low  == SubSeq(right.data, 1, slot - 1)
           high == SubSeq(right.data, slot + 1, Len(right.data))
           most == leaf.data \o low
           d    == most \o high
           m    == MergeRightDeleteFirst(leaf, slot, right)
<1>1. /\ leaf.data \in Seq(P) /\ right.data \in Seq(P)
      /\ Len(leaf.data) \in Nat /\ Len(right.data) \in Nat
  <2>1. leaf.data \in Seq(P) /\ right.data \in Seq(P)
    BY DEF LeafOver
  <2> QED
    BY <2>1, LenProperties
<1>2. low \in Seq(P) /\ Len(low) = slot - 1
  BY <1>1, CutType
<1>3. high \in Seq(P) /\ Len(high) = Len(right.data) - slot
  <2>1. high \in Seq(P) /\ Len(high) = Len(right.data) - (slot + 1) + 1
    BY <1>1, CutType
  <2> HIDE DEF high
  <2> QED
    BY <1>1, <2>1
<1>4. most \in Seq(P) /\ Len(most) = Len(leaf.data) + Len(low)
  <2> HIDE DEF low
  <2> QED
    BY <1>1, <1>2, ConcatProperties
<1>5. d \in Seq(P) /\ Len(d) = Len(most) + Len(high)
  <2> HIDE DEF most, high
  <2> QED
    BY <1>3, <1>4, ConcatProperties
<1>6. m = [leaf EXCEPT !.data = d, !.next = right.next]
  BY DEF MergeRightDeleteFirst, LeafOver
<1>7. m \in LeafOver(P) /\ m.data = d
  <2> HIDE DEF d, m
  <2> QED
    BY <1>5, <1>6 DEF LeafOver
<1>8. Len(d) = Len(leaf.data) + Len(right.data) - 1
  <2> HIDE DEF d, most, low, high, m
  <2>1. Len(d) = (Len(leaf.data) + (slot - 1)) + (Len(right.data) - slot)
    BY <1>2, <1>3, <1>4, <1>5
  <2>2. \A a, b, c \in Int : (a + (c - 1)) + (b - c) = a + b - 1
    OBVIOUS
  <2>3. slot \in Int /\ Len(leaf.data) \in Int /\ Len(right.data) \in Int
    BY <1>1
  <2> QED
    BY <2>1, <2>2, <2>3
<1> QED
  <2> HIDE DEF d, m
  <2> QED
    BY <1>7, <1>8 DEF m

\* A merge with the leaf to the right has the entries of both.
LEMMA MergeRightType ==
  ASSUME NEW P, NEW leaf \in LeafOver(P), NEW right \in LeafOver(P)
  PROVE  /\ MergeRight(leaf, right) \in LeafOver(P)
         /\ Len(MergeRight(leaf, right).data) = Len(leaf.data) + Len(right.data)
<1> DEFINE d == leaf.data \o right.data
<1>1. d \in Seq(P) /\ Len(d) = Len(leaf.data) + Len(right.data)
  <2>1. leaf.data \in Seq(P) /\ right.data \in Seq(P)
    BY DEF LeafOver
  <2> QED
    BY <2>1, ConcatProperties
<1>2. MergeRight(leaf, right) = [leaf EXCEPT !.data = d, !.next = right.next]
  BY DEF MergeRight, LeafOver
<1>3. MergeRight(leaf, right) \in LeafOver(P) /\ MergeRight(leaf, right).data = d
  <2> HIDE DEF d
  <2> QED
    BY <1>1, <1>2 DEF LeafOver
<1> QED
  BY <1>1, <1>3

(***************************************************************************)
(* The split of a full leaf: both halves fit, and the new one has a first  *)
(* key, which becomes the separator.                                       *)
(***************************************************************************)
LEMMA SplitNewLeafType ==
  ASSUME NEW P, NEW leaf \in LeafOver(P), Len(leaf.data) = LEAF_N,
         NEW slot \in 1 .. LEAF_N + 1, NEW item \in P,
         NEW newId \in Nat, NEW selfId \in Nat
  PROVE  LET s == SplitNewLeaf(leaf, slot, item, newId, selfId)
         IN  /\ s.left \in LeafOver(P) /\ Len(s.left.data) <= LEAF_N
             /\ s.right \in LeafOver(P) /\ Len(s.right.data) \in 1 .. LEAF_N
<1> DEFINE origin == LeafSplitOriginSize
           low    == SubSeq(leaf.data, 1, origin)
           high   == SubSeq(leaf.data, origin + 1, LEAF_N)
           lowD   == IF slot <= origin THEN InsertAt(low, slot, item) ELSE low
           highD  == IF slot <= origin THEN high
                                       ELSE InsertAt(high, slot - origin, item)
           s      == SplitNewLeaf(leaf, slot, item, newId, selfId)
<1>1. origin \in Nat /\ 1 <= origin /\ origin < LEAF_N /\ LEAF_N \in Nat
  BY LeafAssumption DEF LeafSplitOriginSize
<1>2. leaf.data \in Seq(P)
  BY DEF LeafOver
<1>3. low \in Seq(P) /\ Len(low) = origin
  <2> HIDE DEF origin
  <2>1. low \in Seq(P) /\ Len(low) = origin - 1 + 1
    BY <1>1, <1>2, CutType
  <2> QED
    BY <1>1, <2>1
<1>4. high \in Seq(P) /\ Len(high) = LEAF_N - origin
  <2> HIDE DEF origin
  <2>1. high \in Seq(P) /\ Len(high) = LEAF_N - (origin + 1) + 1
    BY <1>1, <1>2, CutType
  <2> QED
    BY <1>1, <2>1
<1>5. lowD \in Seq(P) /\ Len(lowD) <= LEAF_N
  <2> HIDE DEF low, origin
  <2>1. CASE slot <= origin
    <3>1. slot \in 1 .. Len(low) + 1
      BY <1>1, <1>3, <2>1
    <3>2. InsertAt(low, slot, item) \in Seq(P)
          /\ Len(InsertAt(low, slot, item)) = Len(low) + 1
      BY <1>3, <3>1, InsertAtType
    <3> QED
      BY <1>1, <1>3, <2>1, <3>2
  <2>2. CASE ~(slot <= origin)
    BY <1>1, <1>3, <2>2
  <2> QED
    BY <2>1, <2>2
<1>6. highD \in Seq(P) /\ Len(highD) \in 1 .. LEAF_N
  <2> HIDE DEF high, origin
  <2>1. CASE slot <= origin
    BY <1>1, <1>4, <2>1
  <2>2. CASE ~(slot <= origin)
    <3>1. slot - origin \in 1 .. Len(high) + 1
      BY <1>1, <1>4, <2>2
    <3>2. InsertAt(high, slot - origin, item) \in Seq(P)
          /\ Len(InsertAt(high, slot - origin, item)) = Len(high) + 1
      BY <1>4, <3>1, InsertAtType
    <3> QED
      BY <1>1, <1>4, <2>2, <3>2
  <2> QED
    BY <2>1, <2>2
<1>7. /\ s.left  = [data |-> lowD, prev |-> leaf.prev, next |-> newId]
      /\ s.right = [data |-> highD, prev |-> selfId, next |-> leaf.next]
  BY DEF SplitNewLeaf
<1>8. s.left \in LeafOver(P) /\ s.right \in LeafOver(P)
  <2> HIDE DEF lowD, highD, s
  <2> QED
    BY <1>5, <1>6, <1>7 DEF LeafOver
<1> QED
  <2> HIDE DEF lowD, highD, s
  <2>1. Len(s.left.data) <= LEAF_N /\ Len(s.right.data) \in 1 .. LEAF_N
    BY <1>5, <1>6, <1>7
  <2> QED
    BY <1>8, <2>1 DEF s

-----------------------------------------------------------------------------
(* Inner nodes                                                             *)

\* An inner node with keys in K and children in C.
IsInner(n, K, C) ==
    /\ n \in [keys : Seq(K), child : Seq(C), aug : Seq(Nat)]
    /\ Len(n.child) = Len(n.keys) + 1
    /\ Len(n.aug) = Len(n.keys) + 1

\* Its three sequences, and their domains.
LEMMA InnerParts ==
  ASSUME NEW K, NEW C, NEW n, IsInner(n, K, C)
  PROVE  /\ n.keys \in Seq(K) /\ n.child \in Seq(C) /\ n.aug \in Seq(Nat)
         /\ Len(n.keys) \in Nat
         /\ DOMAIN n.keys = 1 .. Len(n.keys)
         /\ DOMAIN n.child = 1 .. Len(n.keys) + 1
         /\ DOMAIN n.aug = 1 .. Len(n.keys) + 1
<1>1. n.keys \in Seq(K) /\ n.child \in Seq(C) /\ n.aug \in Seq(Nat)
  BY DEF IsInner
<1>2. /\ Len(n.keys) \in Nat /\ DOMAIN n.keys = 1 .. Len(n.keys)
      /\ DOMAIN n.child = 1 .. Len(n.child)
      /\ DOMAIN n.aug = 1 .. Len(n.aug)
  BY <1>1, LenProperties
<1> QED
  BY <1>1, <1>2 DEF IsInner

\* A node put together from three sequences of fitting lengths.
LEMMA InnerFrom ==
  ASSUME NEW K, NEW C, NEW ks \in Seq(K), NEW cs \in Seq(C), NEW as \in Seq(Nat),
         Len(cs) = Len(ks) + 1, Len(as) = Len(ks) + 1
  PROVE  /\ IsInner([keys |-> ks, child |-> cs, aug |-> as], K, C)
         /\ [keys |-> ks, child |-> cs, aug |-> as].keys = ks
BY DEF IsInner

\* A descent goes to a child of the node.
LEMMA LocateChildType ==
  ASSUME NEW K, NEW C, NEW n, IsInner(n, K, C), NEW k
  PROVE  LocateChild(n, k) \in DOMAIN n.child
<1> DEFINE AtMost == {i \in DOMAIN n.keys : n.keys[i] <= k}
           L      == Len(n.keys)
<1>1. L \in Nat /\ DOMAIN n.keys = 1 .. L /\ DOMAIN n.child = 1 .. L + 1
  BY InnerParts
<1>2. IsFiniteSet(1 .. L) /\ Cardinality(1 .. L) = L
  BY <1>1, FS_Interval
<1>3. AtMost \in SUBSET (1 .. L)
  BY <1>1
<1>4. IsFiniteSet(AtMost) /\ Cardinality(AtMost) <= L
  <2> HIDE DEF AtMost
  <2> QED
    BY <1>2, <1>3, FS_Subset
<1>5. Cardinality(AtMost) \in Nat
  <2> HIDE DEF AtMost
  <2> QED
    BY <1>4, FS_CardinalityType
<1>6. LocateChild(n, k) = 1 + Cardinality(AtMost)
  BY DEF LocateChild
<1> QED
  <2> HIDE DEF AtMost
  <2> QED
    BY <1>1, <1>4, <1>5, <1>6

\* set_augmentation leaves the keys and the children alone.
LEMMA SetAugmentationType ==
  ASSUME NEW K, NEW C, NEW n, IsInner(n, K, C), NEW c \in DOMAIN n.child, NEW a \in Nat
  PROVE  /\ IsInner(SetAugmentation(n, c, a), K, C)
         /\ SetAugmentation(n, c, a).keys = n.keys
         /\ SetAugmentation(n, c, a).child = n.child
<1> DEFINE as == [n.aug EXCEPT ![c] = a]
<1>1. as \in Seq(Nat) /\ Len(as) = Len(n.aug)
  <2>1. n.aug \in Seq(Nat) /\ c \in 1 .. Len(n.aug)
    BY InnerParts DEF IsInner
  <2> QED
    BY <2>1, PutType
<1>2. SetAugmentation(n, c, a) = [n EXCEPT !.aug = as]
  BY DEF SetAugmentation, IsInner
<1> QED
  <2> HIDE DEF as
  <2> QED
    BY <1>1, <1>2 DEF IsInner

\* set_key leaves the children and the number of keys alone.
LEMMA SetKeyType ==
  ASSUME NEW K, NEW C, NEW n, IsInner(n, K, C), NEW slot \in DOMAIN n.keys, NEW k \in K
  PROVE  /\ IsInner(SetKey(n, slot, k), K, C)
         /\ Len(SetKey(n, slot, k).keys) = Len(n.keys)
         /\ SetKey(n, slot, k).child = n.child
<1> DEFINE ks == [n.keys EXCEPT ![slot] = k]
<1>1. ks \in Seq(K) /\ Len(ks) = Len(n.keys)
  <2>1. n.keys \in Seq(K) /\ slot \in 1 .. Len(n.keys)
    BY InnerParts
  <2> QED
    BY <2>1, PutType
<1>2. SetKey(n, slot, k) = [n EXCEPT !.keys = ks]
  BY DEF SetKey, IsInner
<1> QED
  <2> HIDE DEF ks
  <2> QED
    BY <1>1, <1>2 DEF IsInner

\* insert_at adds one key, one child and one augmentation.
LEMMA InsertSlotType ==
  ASSUME NEW K, NEW C, NEW n, IsInner(n, K, C), NEW slot \in DOMAIN n.child,
         NEW k \in K, NEW child \in C, NEW a \in Nat
  PROVE  /\ IsInner(InsertSlot(n, slot, k, child, a), K, C)
         /\ Len(InsertSlot(n, slot, k, child, a).keys) = Len(n.keys) + 1
<1> DEFINE ks == InsertAt(n.keys, slot, k)
           cs == InsertAt(n.child, slot + 1, child)
           as == InsertAt(n.aug, slot + 1, a)
<1>1. /\ n.keys \in Seq(K) /\ n.child \in Seq(C) /\ n.aug \in Seq(Nat)
      /\ Len(n.keys) \in Nat /\ slot \in 1 .. Len(n.keys) + 1
      /\ Len(n.child) = Len(n.keys) + 1 /\ Len(n.aug) = Len(n.keys) + 1
  BY InnerParts DEF IsInner
<1>2. ks \in Seq(K) /\ Len(ks) = Len(n.keys) + 1
  BY <1>1, InsertAtType
<1>3. slot + 1 \in 1 .. Len(n.child) + 1 /\ slot + 1 \in 1 .. Len(n.aug) + 1
  BY <1>1
<1>4. cs \in Seq(C) /\ Len(cs) = Len(n.child) + 1
  BY ZenonT(60), <1>1, <1>3, InsertAtType
<1>5. as \in Seq(Nat) /\ Len(as) = Len(n.aug) + 1
  BY ZenonT(60), <1>1, <1>3, InsertAtType
<1>6. InsertSlot(n, slot, k, child, a) = [keys |-> ks, child |-> cs, aug |-> as]
  BY DEF InsertSlot
<1> QED
  <2> HIDE DEF ks, cs, as
  <2>1. Len(cs) = Len(ks) + 1 /\ Len(as) = Len(ks) + 1
    BY <1>1, <1>2, <1>4, <1>5
  <2>2. /\ IsInner([keys |-> ks, child |-> cs, aug |-> as], K, C)
        /\ [keys |-> ks, child |-> cs, aug |-> as].keys = ks
    BY <1>2, <1>4, <1>5, <2>1, InnerFrom
  <2> QED
    BY <1>2, <1>6, <2>2

\* remove_slot_with_right removes one key, one child and one augmentation.
LEMMA RemoveSlotWithRightType ==
  ASSUME NEW K, NEW C, NEW n, IsInner(n, K, C), NEW slot \in DOMAIN n.keys
  PROVE  /\ IsInner(RemoveSlotWithRight(n, slot), K, C)
         /\ Len(RemoveSlotWithRight(n, slot).keys) = Len(n.keys) - 1
<1> DEFINE ks == RemoveAt(n.keys, slot)
           cs == RemoveAt(n.child, slot + 1)
           as == RemoveAt(n.aug, slot + 1)
<1>1. /\ n.keys \in Seq(K) /\ n.child \in Seq(C) /\ n.aug \in Seq(Nat)
      /\ Len(n.keys) \in Nat /\ slot \in 1 .. Len(n.keys)
      /\ Len(n.child) = Len(n.keys) + 1 /\ Len(n.aug) = Len(n.keys) + 1
  BY InnerParts DEF IsInner
<1>2. ks \in Seq(K) /\ Len(ks) = Len(n.keys) - 1
  BY <1>1, RemoveAtType
<1>3. slot + 1 \in 1 .. Len(n.child) /\ slot + 1 \in 1 .. Len(n.aug)
  BY <1>1
<1>4. cs \in Seq(C) /\ Len(cs) = Len(n.child) - 1
  BY <1>1, <1>3, RemoveAtType
<1>5. as \in Seq(Nat) /\ Len(as) = Len(n.aug) - 1
  BY <1>1, <1>3, RemoveAtType
<1>6. RemoveSlotWithRight(n, slot) = [keys |-> ks, child |-> cs, aug |-> as]
  BY DEF RemoveSlotWithRight
<1> QED
  <2> HIDE DEF ks, cs, as
  <2>1. Len(cs) = Len(ks) + 1 /\ Len(as) = Len(ks) + 1
    BY <1>1, <1>2, <1>4, <1>5
  <2>2. /\ IsInner([keys |-> ks, child |-> cs, aug |-> as], K, C)
        /\ [keys |-> ks, child |-> cs, aug |-> as].keys = ks
    BY <1>2, <1>4, <1>5, <2>1, InnerFrom
  <2> QED
    BY <1>2, <1>6, <2>2

\* A stretch of a node's keys, with the children around them, is a node.
LEMMA PartType ==
  ASSUME NEW K, NEW C, NEW n, IsInner(n, K, C),
         NEW from \in Nat \ {0}, NEW to \in Nat, to <= Len(n.keys), from <= to + 1
  PROVE  /\ IsInner(Part(n, from, to), K, C)
         /\ Len(Part(n, from, to).keys) = to - from + 1
<1> DEFINE ks == SubSeq(n.keys, from, to)
           cs == SubSeq(n.child, from, to + 1)
           as == SubSeq(n.aug, from, to + 1)
<1>1. /\ n.keys \in Seq(K) /\ n.child \in Seq(C) /\ n.aug \in Seq(Nat)
      /\ Len(n.keys) \in Nat
      /\ Len(n.child) = Len(n.keys) + 1 /\ Len(n.aug) = Len(n.keys) + 1
  BY InnerParts DEF IsInner
<1>2. ks \in Seq(K) /\ Len(ks) = to - from + 1
  BY <1>1, CutType
<1>3. /\ to + 1 \in Nat /\ from <= (to + 1) + 1
      /\ to + 1 <= Len(n.child) /\ to + 1 <= Len(n.aug)
  BY <1>1
<1>4. cs \in Seq(C) /\ Len(cs) = (to + 1) - from + 1
  BY SMTT(60), <1>1, <1>3, CutType
<1>5. as \in Seq(Nat) /\ Len(as) = (to + 1) - from + 1
  BY SMTT(60), <1>1, <1>3, CutType
<1> QED
  <2> HIDE DEF ks, cs, as
  <2>1. Len(cs) = Len(ks) + 1 /\ Len(as) = Len(ks) + 1
    BY <1>2, <1>4, <1>5
  <2>2. /\ IsInner([keys |-> ks, child |-> cs, aug |-> as], K, C)
        /\ [keys |-> ks, child |-> cs, aug |-> as].keys = ks
    BY <1>2, <1>4, <1>5, <2>1, InnerFrom
  <2>3. Part(n, from, to) = [keys |-> ks, child |-> cs, aug |-> as]
    BY DEF Part, ks, cs, as
  <2> QED
    BY <1>2, <2>2, <2>3

\* The keys from a slot on.
LEMMA HighPartType ==
  ASSUME NEW K, NEW C, NEW n, IsInner(n, K, C), Len(n.keys) = INNER_N,
         NEW from \in 1 .. INNER_N + 1
  PROVE  /\ IsInner(Part(n, from, INNER_N), K, C)
         /\ Len(Part(n, from, INNER_N).keys) = INNER_N - from + 1
<1>1. /\ from \in Nat \ {0} /\ INNER_N \in Nat
      /\ INNER_N <= Len(n.keys) /\ from <= INNER_N + 1
  BY InnerAssumption
<1> QED
  BY ONLY <1>1, IsInner(n, K, C), PartType

(***************************************************************************)
(* The split of a full node: both halves are nodes, and they fit.          *)
(***************************************************************************)
LEMMA SplitInnerType ==
  ASSUME NEW K, NEW C, NEW n, IsInner(n, K, C), Len(n.keys) = INNER_N,
         NEW c \in DOMAIN n.child, NEW k \in K, NEW child \in C, NEW a \in Nat
  PROVE  LET s == SplitInner(n, c, k, child, a)
         IN  /\ s.key \in K
             /\ IsInner(s.left, K, C) /\ Len(s.left.keys) <= INNER_N
             /\ IsInner(s.right, K, C) /\ Len(s.right.keys) <= INNER_N
<1> DEFINE o == InnerSplitOriginSize
           s == SplitInner(n, c, k, child, a)
<1>1. o \in Nat /\ 1 <= o /\ o + 2 <= INNER_N /\ INNER_N \in Nat
  BY InnerAssumption DEF InnerSplitOriginSize
<1>0. /\ o - 1 \in Nat /\ 1 \in Nat \ {0}
      /\ o - 1 <= Len(n.keys) /\ o <= Len(n.keys)
      /\ 1 <= (o - 1) + 1 /\ 1 <= o + 1 
      /\ o + 1 \in 1 .. INNER_N + 1 /\ o + 2 \in 1 .. INNER_N + 1
  <2> HIDE DEF o
  <2> QED
    BY <1>1
<1>2. n.keys \in Seq(K) /\ c \in 1 .. INNER_N + 1
  BY InnerParts
<1>3. n.keys[o] \in K /\ n.keys[o + 1] \in K
  <2> HIDE DEF o
  <2>1. o \in 1 .. Len(n.keys) /\ o + 1 \in 1 .. Len(n.keys)
    BY <1>1
  <2> QED
    BY <1>2, <2>1, ElementOfSeq
<1>4. CASE c <= o
  <2> DEFINE p == Part(n, 1, o - 1)
  <2>1. /\ s.key = n.keys[o]
        /\ s.left = InsertSlot(p, c, k, child, a)
        /\ s.right = Part(n, o + 1, INNER_N)
    BY <1>1, <1>2, <1>4 DEF SplitInner
  <2> HIDE DEF o, s
  <2>2. IsInner(p, K, C) /\ Len(p.keys) = (o - 1) - 1 + 1
    BY <1>0, <1>1, PartType
  <2>3. /\ IsInner(Part(n, o + 1, INNER_N), K, C)
        /\ Len(Part(n, o + 1, INNER_N).keys) = INNER_N - (o + 1) + 1
    BY <1>0, HighPartType
  <2> HIDE DEF p
  <2>4. c \in DOMAIN p.child
    <3>1. DOMAIN p.child = 1 .. Len(p.keys) + 1
      BY <2>2, InnerParts
    <3> QED
      BY <1>1, <1>2, <1>4, <2>2, <3>1
  <2>5. IsInner(s.left, K, C) /\ Len(s.left.keys) = Len(p.keys) + 1
    BY <2>1, <2>2, <2>4, InsertSlotType
  <2> QED
    BY <1>1, <1>3, <2>1, <2>2, <2>3, <2>5 DEF s
<1>5. CASE c > o + 1
  <2> DEFINE p == Part(n, o + 2, INNER_N)
  <2>1. /\ s.key = n.keys[o + 1]
        /\ s.left = Part(n, 1, o)
        /\ s.right = InsertSlot(p, c - 1 - o, k, child, a)
    BY <1>1, <1>2, <1>5 DEF SplitInner
  <2> HIDE DEF o, s
  <2>2. IsInner(p, K, C) /\ Len(p.keys) = INNER_N - (o + 2) + 1
    BY <1>0, HighPartType
  <2>3. IsInner(Part(n, 1, o), K, C) /\ Len(Part(n, 1, o).keys) = o - 1 + 1
    BY <1>0, <1>1, PartType
  <2> HIDE DEF p
  <2>4. c - 1 - o \in DOMAIN p.child
    <3>1. DOMAIN p.child = 1 .. Len(p.keys) + 1
      BY <2>2, InnerParts
    <3> QED
      BY <1>1, <1>2, <1>5, <2>2, <3>1
  <2>5. IsInner(s.right, K, C) /\ Len(s.right.keys) = Len(p.keys) + 1
    BY <2>1, <2>2, <2>4, InsertSlotType
  <2> QED
    BY <1>1, <1>3, <2>1, <2>2, <2>3, <2>5 DEF s
<1>6. CASE ~(c <= o) /\ ~(c > o + 1)
  <2> DEFINE p  == Part(n, o + 1, INNER_N)
             cs == [p.child EXCEPT ![1] = child]
             as == [p.aug EXCEPT ![1] = a]
  <2>1. /\ s.key = k
        /\ s.left = Part(n, 1, o)
        /\ s.right = [p EXCEPT !.child[1] = child, !.aug[1] = a]
    BY <1>1, <1>2, <1>6 DEF SplitInner
  <2> HIDE DEF o, s
  <2>2. IsInner(p, K, C) /\ Len(p.keys) = INNER_N - (o + 1) + 1
    BY <1>0, HighPartType
  <2>3. IsInner(Part(n, 1, o), K, C) /\ Len(Part(n, 1, o).keys) = o - 1 + 1
    BY <1>0, <1>1, PartType
  <2> HIDE DEF p
  <2>4. /\ p.child \in Seq(C) /\ 1 \in 1 .. Len(p.child)
        /\ p.aug \in Seq(Nat) /\ 1 \in 1 .. Len(p.aug)
    BY <2>2, InnerParts DEF IsInner
  <2>5. cs \in Seq(C) /\ Len(cs) = Len(p.child)
    BY <2>4, PutType
  <2>6. as \in Seq(Nat) /\ Len(as) = Len(p.aug)
    BY <2>4, PutType
  <2>7. s.right = [p EXCEPT !.child = cs, !.aug = as]
    BY <2>1, <2>2 DEF IsInner
  <2> HIDE DEF cs, as
  <2>8. IsInner(s.right, K, C) /\ Len(s.right.keys) = Len(p.keys)
    BY <2>2, <2>5, <2>6, <2>7 DEF IsInner
  <2> QED
    BY <1>1, <2>1, <2>2, <2>3, <2>8 DEF s
<1> QED
  <2> HIDE DEF o, s
  <2> QED
    BY <1>4, <1>5, <1>6 DEF s

\* How many keys a merge of two nodes has: theirs, and the separator.
MergedSize(n, right) == (Len(n.keys) + 1) + Len(right.keys)

\* A merge with the node to the right, around the separator.
LEMMA MergeNextType ==
  ASSUME NEW K, NEW C, NEW n, NEW right, NEW k \in K,
         IsInner(n, K, C), IsInner(right, K, C)
  PROVE  /\ IsInner(MergeNext(n, k, right), K, C)
         /\ Len(MergeNext(n, k, right).keys) = MergedSize(n, right)
<1> DEFINE low == Append(n.keys, k)
           ks  == low \o right.keys
           cs  == n.child \o right.child
           as  == n.aug \o right.aug
<1>1. /\ n.keys \in Seq(K) /\ n.child \in Seq(C) /\ n.aug \in Seq(Nat)
      /\ Len(n.keys) \in Nat
      /\ Len(n.child) = Len(n.keys) + 1 /\ Len(n.aug) = Len(n.keys) + 1
  BY InnerParts DEF IsInner
<1>2. /\ right.keys \in Seq(K) /\ right.child \in Seq(C) /\ right.aug \in Seq(Nat)
      /\ Len(right.keys) \in Nat
      /\ Len(right.child) = Len(right.keys) + 1 /\ Len(right.aug) = Len(right.keys) + 1
  BY InnerParts DEF IsInner
<1>3. low \in Seq(K) /\ Len(low) = Len(n.keys) + 1
  BY <1>1, GrowType
<1>4. ks \in Seq(K) /\ Len(ks) = Len(low) + Len(right.keys)
  <2> HIDE DEF low
  <2> QED
    BY <1>2, <1>3, ConcatProperties
<1>5. cs \in Seq(C) /\ Len(cs) = Len(n.child) + Len(right.child)
  BY <1>1, <1>2, ConcatProperties
<1>6. as \in Seq(Nat) /\ Len(as) = Len(n.aug) + Len(right.aug)
  BY <1>1, <1>2, ConcatProperties
<1>7. MergeNext(n, k, right) = [keys |-> ks, child |-> cs, aug |-> as]
  BY DEF MergeNext
<1> QED
  <2> HIDE DEF low, ks, cs, as
  <2>0. /\ Len(ks) = (Len(n.keys) + 1) + Len(right.keys)
        /\ Len(cs) = (Len(n.keys) + 1) + (Len(right.keys) + 1)
        /\ Len(as) = (Len(n.keys) + 1) + (Len(right.keys) + 1)
    BY <1>1, <1>2, <1>3, <1>4, <1>5, <1>6
  <2>1. Len(cs) = Len(ks) + 1 /\ Len(as) = Len(ks) + 1
    <3>1. \A x, y \in Nat : (x + 1) + (y + 1) = ((x + 1) + y) + 1
      OBVIOUS
    <3>2. Len(n.keys) \in Nat /\ Len(right.keys) \in Nat
      BY <1>1, <1>2
    <3> QED
      BY <2>0, <3>1, <3>2
  <2>2. /\ IsInner([keys |-> ks, child |-> cs, aug |-> as], K, C)
        /\ [keys |-> ks, child |-> cs, aug |-> as].keys = ks
    BY <1>4, <1>5, <1>6, <2>1, InnerFrom
  <2> QED
    BY <1>3, <1>4, <1>7, <2>2 DEF MergedSize

\* pop and pop_front of a node that has a key.
LEMMA PopInnerType ==
  ASSUME NEW K, NEW C, NEW n, IsInner(n, K, C), Len(n.keys) > 0
  PROVE  /\ IsInner(PopInner(n), K, C)
         /\ Len(PopInner(n).keys) = Len(n.keys) - 1
         /\ IsInner(PopFrontInner(n), K, C)
         /\ Len(PopFrontInner(n).keys) = Len(n.keys) - 1
<1>1. /\ n.keys \in Seq(K) /\ n.child \in Seq(C) /\ n.aug \in Seq(Nat)
      /\ Len(n.keys) \in Nat
      /\ Len(n.child) = Len(n.keys) + 1 /\ Len(n.aug) = Len(n.keys) + 1
  BY InnerParts DEF IsInner
<1>2. Len(n.child) > 0 /\ Len(n.aug) > 0
  BY <1>1
<1>3. /\ Front(n.keys) \in Seq(K) /\ Len(Front(n.keys)) = Len(n.keys) - 1
      /\ Tail(n.keys) \in Seq(K) /\ Len(Tail(n.keys)) = Len(n.keys) - 1
  BY <1>1, EndsType
<1>4. /\ Front(n.child) \in Seq(C) /\ Len(Front(n.child)) = Len(n.child) - 1
      /\ Tail(n.child) \in Seq(C) /\ Len(Tail(n.child)) = Len(n.child) - 1
  BY <1>1, <1>2, EndsType
<1>5. /\ Front(n.aug) \in Seq(Nat) /\ Len(Front(n.aug)) = Len(n.aug) - 1
      /\ Tail(n.aug) \in Seq(Nat) /\ Len(Tail(n.aug)) = Len(n.aug) - 1
  BY <1>1, <1>2, EndsType
<1>6. IsInner(PopInner(n), K, C) /\ PopInner(n).keys = Front(n.keys)
  <2> DEFINE ks == Front(n.keys)
             cs == Front(n.child)
             as == Front(n.aug)
  <2>1. ks \in Seq(K) /\ cs \in Seq(C) /\ as \in Seq(Nat)
    BY <1>3, <1>4, <1>5
  <2>2. Len(cs) = Len(ks) + 1 /\ Len(as) = Len(ks) + 1
    BY <1>1, <1>3, <1>4, <1>5
  <2>3. PopInner(n) = [keys |-> ks, child |-> cs, aug |-> as]
    BY DEF PopInner
  <2> HIDE DEF ks, cs, as
  <2>4. /\ IsInner([keys |-> ks, child |-> cs, aug |-> as], K, C)
        /\ [keys |-> ks, child |-> cs, aug |-> as].keys = ks
    BY <2>1, <2>2, InnerFrom
  <2> QED
    BY <2>3, <2>4 DEF ks
<1>7. IsInner(PopFrontInner(n), K, C) /\ PopFrontInner(n).keys = Tail(n.keys)
  <2> DEFINE ks == Tail(n.keys)
             cs == Tail(n.child)
             as == Tail(n.aug)
  <2>1. ks \in Seq(K) /\ cs \in Seq(C) /\ as \in Seq(Nat)
    BY <1>3, <1>4, <1>5
  <2>2. Len(cs) = Len(ks) + 1 /\ Len(as) = Len(ks) + 1
    BY <1>1, <1>3, <1>4, <1>5
  <2>3. PopFrontInner(n) = [keys |-> ks, child |-> cs, aug |-> as]
    BY DEF PopFrontInner
  <2> HIDE DEF ks, cs, as
  <2>4. /\ IsInner([keys |-> ks, child |-> cs, aug |-> as], K, C)
        /\ [keys |-> ks, child |-> cs, aug |-> as].keys = ks
    BY <2>1, <2>2, InnerFrom
  <2> QED
    BY <2>3, <2>4 DEF ks
<1> QED
  BY <1>3, <1>6, <1>7

\* push and push_front.
LEMMA PushInnerType ==
  ASSUME NEW K, NEW C, NEW n, IsInner(n, K, C), NEW k \in K, NEW child \in C, NEW a \in Nat
  PROVE  /\ IsInner(PushInner(n, k, child, a), K, C)
         /\ Len(PushInner(n, k, child, a).keys) = Len(n.keys) + 1
         /\ IsInner(PushFrontInner(n, k, child, a), K, C)
         /\ Len(PushFrontInner(n, k, child, a).keys) = Len(n.keys) + 1
<1>1. /\ n.keys \in Seq(K) /\ n.child \in Seq(C) /\ n.aug \in Seq(Nat)
      /\ Len(n.keys) \in Nat
      /\ Len(n.child) = Len(n.keys) + 1 /\ Len(n.aug) = Len(n.keys) + 1
  BY InnerParts DEF IsInner
<1>2. /\ Append(n.keys, k) \in Seq(K) /\ Len(Append(n.keys, k)) = Len(n.keys) + 1
      /\ <<k>> \o n.keys \in Seq(K) /\ Len(<<k>> \o n.keys) = Len(n.keys) + 1
  BY <1>1, GrowType
<1>3. /\ Append(n.child, child) \in Seq(C) /\ Len(Append(n.child, child)) = Len(n.child) + 1
      /\ <<child>> \o n.child \in Seq(C) /\ Len(<<child>> \o n.child) = Len(n.child) + 1
  BY <1>1, GrowType
<1>4. /\ Append(n.aug, a) \in Seq(Nat) /\ Len(Append(n.aug, a)) = Len(n.aug) + 1
      /\ <<a>> \o n.aug \in Seq(Nat) /\ Len(<<a>> \o n.aug) = Len(n.aug) + 1
  BY <1>1, GrowType
<1>5. /\ IsInner(PushInner(n, k, child, a), K, C)
      /\ Len(PushInner(n, k, child, a).keys) = Len(n.keys) + 1
  <2> DEFINE ks == Append(n.keys, k)
             cs == Append(n.child, child)
             as == Append(n.aug, a)
  <2>1. /\ ks \in Seq(K) /\ cs \in Seq(C) /\ as \in Seq(Nat)
        /\ Len(ks) = Len(n.keys) + 1
    BY <1>2, <1>3, <1>4
  <2>2. Len(cs) = Len(ks) + 1 /\ Len(as) = Len(ks) + 1
    BY <1>1, <1>2, <1>3, <1>4
  <2>3. PushInner(n, k, child, a) = [keys |-> ks, child |-> cs, aug |-> as]
    BY DEF PushInner
  <2> HIDE DEF ks, cs, as
  <2>4. /\ IsInner([keys |-> ks, child |-> cs, aug |-> as], K, C)
        /\ [keys |-> ks, child |-> cs, aug |-> as].keys = ks
    BY <2>1, <2>2, InnerFrom
  <2> QED
    BY <2>1, <2>3, <2>4
<1>6. /\ IsInner(PushFrontInner(n, k, child, a), K, C)
      /\ Len(PushFrontInner(n, k, child, a).keys) = Len(n.keys) + 1
  <2> DEFINE ks == <<k>> \o n.keys
             cs == <<child>> \o n.child
             as == <<a>> \o n.aug
  <2>1. /\ ks \in Seq(K) /\ cs \in Seq(C) /\ as \in Seq(Nat)
        /\ Len(ks) = Len(n.keys) + 1
    BY <1>2, <1>3, <1>4
  <2>2. Len(cs) = Len(ks) + 1 /\ Len(as) = Len(ks) + 1
    BY <1>1, <1>2, <1>3, <1>4
  <2>3. PushFrontInner(n, k, child, a) = [keys |-> ks, child |-> cs, aug |-> as]
    BY DEF PushFrontInner
  <2> HIDE DEF ks, cs, as
  <2>4. /\ IsInner([keys |-> ks, child |-> cs, aug |-> as], K, C)
        /\ [keys |-> ks, child |-> cs, aug |-> as].keys = ks
    BY <2>1, <2>2, InnerFrom
  <2> QED
    BY <2>1, <2>3, <2>4
<1> QED
  BY <1>5, <1>6

-----------------------------------------------------------------------------
(* Sequences without repetition                                            *)

\* s has no element twice, and its elements are R.
Once(s, R) == IsInjective(s) /\ Range(s) = R

\* A sequence of one.
LEMMA OnceOne ==
  ASSUME NEW S, NEW e \in S
  PROVE  <<e>> \in Seq(S) /\ Once(<<e>>, {e})
<1>1. DOMAIN <<e>> = {1} /\ <<e>>[1] = e
  OBVIOUS
<1> QED
  BY <1>1 DEF Once, IsInjective, Range

\* Two sequences that share nothing.
LEMMA OnceConcat ==
  ASSUME NEW S, NEW s \in Seq(S), NEW t \in Seq(S), NEW R, NEW Q,
         Once(s, R), Once(t, Q), R \cap Q = {}
  PROVE  Once(s \o t, R \cup Q)
<1> DEFINE u == s \o t
<1>1. /\ Len(s) \in Nat /\ DOMAIN s = 1 .. Len(s)
      /\ Len(t) \in Nat /\ DOMAIN t = 1 .. Len(t)
  BY LenProperties
<1>2. /\ u \in Seq(S) /\ Len(u) = Len(s) + Len(t)
      /\ \A i \in 1 .. Len(s) + Len(t) :
             u[i] = IF i <= Len(s) THEN s[i] ELSE t[i - Len(s)]
  BY ConcatProperties
<1>3. DOMAIN u = 1 .. Len(s) + Len(t)
  <2> HIDE DEF u
  <2> QED
    BY <1>2, LenProperties
<1> HIDE DEF u
<1>4. ASSUME NEW i \in DOMAIN u
      PROVE  \/ i \in DOMAIN s /\ i <= Len(s) /\ u[i] = s[i] /\ u[i] \in R
             \/ /\ i - Len(s) \in DOMAIN t /\ ~(i <= Len(s))
                /\ u[i] = t[i - Len(s)] /\ u[i] \in Q
  <2>1. CASE i <= Len(s)
    <3>1. i \in DOMAIN s /\ u[i] = s[i]
      BY <1>1, <1>2, <1>3, <2>1
    <3> QED
      BY <2>1, <3>1 DEF Once, Range
  <2>2. CASE ~(i <= Len(s))
    <3>1. i - Len(s) \in DOMAIN t /\ u[i] = t[i - Len(s)]
      BY <1>1, <1>2, <1>3, <2>2
    <3> QED
      BY <2>2, <3>1 DEF Once, Range
  <2> QED
    BY <2>1, <2>2
<1>5. ASSUME NEW i \in DOMAIN u, NEW j \in DOMAIN u, u[i] = u[j]
      PROVE  i = j
  <2>1. CASE u[i] \in R
    <3>1. /\ i \in DOMAIN s /\ u[i] = s[i]
          /\ j \in DOMAIN s /\ u[j] = s[j]
      BY <1>4, <1>5, <2>1
    <3> QED
      BY <1>5, <3>1 DEF Once, IsInjective
  <2>2. CASE u[i] \in Q
    <3>1. /\ i - Len(s) \in DOMAIN t /\ u[i] = t[i - Len(s)]
          /\ j - Len(s) \in DOMAIN t /\ u[j] = t[j - Len(s)]
      BY <1>4, <1>5, <2>2
    <3>2. i - Len(s) = j - Len(s)
      BY <1>5, <3>1 DEF Once, IsInjective
    <3> QED
      BY <1>1, <1>3, <3>2
  <2> QED
    BY <1>4, <2>1, <2>2
<1>6. Range(s \o t) = Range(s) \cup Range(t)
  BY RangeConcatenation
<1> QED
  BY <1>5, <1>6 DEF Once, IsInjective, u

\* A cut of a sequence.
LEMMA OnceCut ==
  ASSUME NEW S, NEW s \in Seq(S), IsInjective(s), NEW m \in Nat \ {0}, NEW n \in Nat,
         n <= Len(s), m <= n + 1
  PROVE  Once(SubSeq(s, m, n), {s[i] : i \in m .. n})
<1> DEFINE t == SubSeq(s, m, n)
<1>1. Len(s) \in Nat /\ DOMAIN s = 1 .. Len(s)
  BY LenProperties
<1>2. \A i \in m .. n : i \in DOMAIN s /\ s[i] \in S
  <2>1. TAKE i \in m .. n
  <2>2. i \in 1 .. Len(s)
    BY <1>1
  <2> QED
    BY <1>1, <2>2, ElementOfSeq
<1>3. \A i \in 1 .. n - m + 1 : t[i] = s[m + i - 1]
  BY <1>2, SubSeqProperties
<1>4. t \in Seq(S) /\ Len(t) = n - m + 1
  BY CutType
<1> HIDE DEF t
<1>5. DOMAIN t = 1 .. n - m + 1
  BY <1>4, LenProperties
<1>6. \A i \in DOMAIN t : t[i] = s[m + i - 1] /\ m + i - 1 \in m .. n
  BY <1>3, <1>5
<1>7. \A i \in m .. n : i - m + 1 \in DOMAIN t /\ t[i - m + 1] = s[i]
  <2>1. TAKE i \in m .. n
  <2>2. i - m + 1 \in DOMAIN t /\ m + (i - m + 1) - 1 = i
    BY <1>5
  <2> QED
    BY <1>6, <2>2
<1>8. IsInjective(t)
  <2> SUFFICES ASSUME NEW i \in DOMAIN t, NEW j \in DOMAIN t, t[i] = t[j]
               PROVE  i = j
    BY DEF IsInjective
  <2>1. m + i - 1 = m + j - 1
    BY <1>2, <1>6 DEF IsInjective
  <2> QED
    BY <1>5, <2>1
<1>9. Range(t) = {s[i] : i \in m .. n}
  <2>1. Range(t) \subseteq {s[i] : i \in m .. n}
    BY <1>6 DEF Range
  <2>2. {s[i] : i \in m .. n} \subseteq Range(t)
    BY <1>7 DEF Range
  <2> QED
    BY <2>1, <2>2
<1> QED
  BY <1>8, <1>9 DEF Once, t

\* InsertAt of an element that is new.
LEMMA OnceInsert ==
  ASSUME NEW S, NEW s \in Seq(S), IsInjective(s), NEW i \in 1 .. Len(s) + 1,
         NEW e \in S, e \notin Range(s)
  PROVE  Once(InsertAt(s, i, e), Range(s) \cup {e})
<1> DEFINE low  == SubSeq(s, 1, i - 1)
           high == SubSeq(s, i, Len(s))
           LowR == {s[j] : j \in 1 .. i - 1}
           HiR  == {s[j] : j \in i .. Len(s)}
<1>1. /\ Len(s) \in Nat /\ DOMAIN s = 1 .. Len(s)
      /\ i - 1 \in Nat /\ i \in Nat \ {0} /\ i - 1 <= Len(s) /\ 1 <= (i - 1) + 1
      /\ i <= Len(s) + 1
  BY LenProperties
<1>2. low \in Seq(S) /\ Once(low, LowR)
  BY <1>1, CutType, OnceCut
<1>3. high \in Seq(S) /\ Once(high, HiR)
  BY <1>1, CutType, OnceCut
<1>4. <<e>> \in Seq(S) /\ Once(<<e>>, {e})
  BY OnceOne
<1>5. LowR \cap HiR = {} /\ LowR \cup HiR = Range(s)
  BY <1>1 DEF IsInjective, Range
<1>6. InsertAt(s, i, e) = (low \o <<e>>) \o high
  BY DEF InsertAt
<1> HIDE DEF low, high, LowR, HiR
<1>7. low \o <<e>> \in Seq(S) /\ Once(low \o <<e>>, LowR \cup {e})
  <2>1. LowR \cap {e} = {}
    BY <1>5
  <2> QED
    BY <1>2, <1>4, <2>1, ConcatProperties, OnceConcat
<1>8. Once((low \o <<e>>) \o high, (LowR \cup {e}) \cup HiR)
  <2>1. (LowR \cup {e}) \cap HiR = {}
    BY <1>5
  <2> QED
    BY <1>3, <1>7, <2>1, OnceConcat
<1>9. (LowR \cup {e}) \cup HiR = Range(s) \cup {e}
  BY <1>5
<1> QED
  BY <1>6, <1>8, <1>9

\* RemoveAt.
LEMMA OnceRemove ==
  ASSUME NEW S, NEW s \in Seq(S), IsInjective(s), NEW i \in 1 .. Len(s)
  PROVE  Once(RemoveAt(s, i), Range(s) \ {s[i]})
<1> DEFINE low  == SubSeq(s, 1, i - 1)
           high == SubSeq(s, i + 1, Len(s))
           LowR == {s[j] : j \in 1 .. i - 1}
           HiR  == {s[j] : j \in i + 1 .. Len(s)}
<1>1. /\ Len(s) \in Nat /\ DOMAIN s = 1 .. Len(s)
      /\ i - 1 \in Nat /\ i + 1 \in Nat \ {0} /\ i - 1 <= Len(s) /\ 1 <= (i - 1) + 1
      /\ i + 1 <= Len(s) + 1
  BY LenProperties
<1>2. low \in Seq(S) /\ Once(low, LowR)
  BY <1>1, CutType, OnceCut
<1>3. high \in Seq(S) /\ Once(high, HiR)
  BY <1>1, CutType, OnceCut
<1>4. LowR \cap HiR = {} /\ LowR \cup HiR = Range(s) \ {s[i]}
  BY <1>1 DEF IsInjective, Range
<1>5. RemoveAt(s, i) = low \o high
  BY DEF RemoveAt
<1> HIDE DEF low, high, LowR, HiR
<1>6. Once(low \o high, LowR \cup HiR)
  BY <1>2, <1>3, <1>4, OnceConcat
<1> QED
  BY <1>4, <1>5, <1>6

\* Front and Tail.
LEMMA OnceEnds ==
  ASSUME NEW S, NEW s \in Seq(S), IsInjective(s), Len(s) > 0
  PROVE  /\ Once(Front(s), Range(s) \ {s[Len(s)]})
         /\ Once(Tail(s), Range(s) \ {s[1]})
<1>1. Len(s) \in Nat /\ DOMAIN s = 1 .. Len(s) /\ s # <<>>
  BY LenProperties
<1>2. Once(Front(s), Range(s) \ {s[Len(s)]})
  <2>1. /\ Len(s) - 1 \in Nat /\ 1 \in Nat \ {0}
        /\ Len(s) - 1 <= Len(s) /\ 1 <= (Len(s) - 1) + 1
    BY <1>1
  <2>2. Once(SubSeq(s, 1, Len(s) - 1), {s[i] : i \in 1 .. Len(s) - 1})
    BY <2>1, OnceCut
  <2>3. {s[i] : i \in 1 .. Len(s) - 1} = Range(s) \ {s[Len(s)]}
    BY <1>1 DEF IsInjective, Range
  <2> QED
    BY <2>2, <2>3 DEF Front
<1>3. Once(Tail(s), Range(s) \ {s[1]})
  <2>1. 2 \in Nat \ {0} /\ 2 <= Len(s) + 1 /\ Len(s) <= Len(s)
    BY <1>1
  <2>2. Once(SubSeq(s, 2, Len(s)), {s[i] : i \in 2 .. Len(s)})
    BY <1>1, <2>1, OnceCut
  <2>3. {s[i] : i \in 2 .. Len(s)} = Range(s) \ {s[1]}
    BY <1>1 DEF IsInjective, Range
  <2>4. Tail(s) = SubSeq(s, 2, Len(s))
    BY <1>1, TailIsSubSeq
  <2> QED
    BY <2>2, <2>3, <2>4
<1> QED
  BY <1>2, <1>3

\* One more element at either end.
LEMMA OnceGrow ==
  ASSUME NEW S, NEW s \in Seq(S), IsInjective(s), NEW e \in S, e \notin Range(s)
  PROVE  /\ Once(Append(s, e), Range(s) \cup {e})
         /\ Once(<<e>> \o s, Range(s) \cup {e})
<1>1. <<e>> \in Seq(S) /\ Once(<<e>>, {e}) /\ Once(s, Range(s))
  BY OnceOne DEF Once
<1>2. Range(s) \cap {e} = {} /\ {e} \cap Range(s) = {}
  OBVIOUS
<1>3. Once(s \o <<e>>, Range(s) \cup {e})
  BY <1>1, <1>2, OnceConcat
<1>4. Once(<<e>> \o s, {e} \cup Range(s))
  BY <1>1, <1>2, OnceConcat
<1>5. Append(s, e) = s \o <<e>>
  BY AppendIsConcat
<1> QED
  BY <1>3, <1>4, <1>5

\* One element replaced by a new one.
LEMMA OncePut ==
  ASSUME NEW S, NEW s \in Seq(S), IsInjective(s), NEW i \in 1 .. Len(s),
         NEW e \in S, e \notin Range(s)
  PROVE  Once([s EXCEPT ![i] = e], (Range(s) \ {s[i]}) \cup {e})
<1>1. DOMAIN s = 1 .. Len(s)
  BY LenProperties
<1> QED
  BY <1>1 DEF Once, IsInjective, Range

-----------------------------------------------------------------------------
(* The children of inner nodes                                             *)

\* The children of n are R, each once.
Kids(n, R) == Once(n.child, R)

\* insert_at of a child that is new.
LEMMA InsertSlotKids ==
  ASSUME NEW K, NEW C, NEW n, IsInner(n, K, C), NEW R, Kids(n, R),
         NEW slot \in DOMAIN n.child,
         NEW k, NEW child \in C, child \notin R, NEW a
  PROVE  Kids(InsertSlot(n, slot, k, child, a), R \cup {child})
<1>1. n.child \in Seq(C) /\ Len(n.child) \in Nat /\ DOMAIN n.child = 1 .. Len(n.child)
  BY InnerParts, LenProperties
<1>2. slot + 1 \in 1 .. Len(n.child) + 1
  BY <1>1
<1>3. IsInjective(n.child) /\ Range(n.child) = R
  BY DEF Kids, Once
<1>4. Once(InsertAt(n.child, slot + 1, child), R \cup {child})
  BY <1>1, <1>2, <1>3, OnceInsert
<1> QED
  BY <1>4 DEF Kids, InsertSlot

\* remove_slot_with_right.
LEMMA RemoveSlotWithRightKids ==
  ASSUME NEW K, NEW C, NEW n, IsInner(n, K, C), NEW R, Kids(n, R),
         NEW slot \in DOMAIN n.keys
  PROVE  Kids(RemoveSlotWithRight(n, slot), R \ {n.child[slot + 1]})
<1>1. n.child \in Seq(C) /\ slot + 1 \in 1 .. Len(n.child)
  BY InnerParts DEF IsInner
<1>2. IsInjective(n.child) /\ Range(n.child) = R
  BY DEF Kids, Once
<1> QED
  BY <1>1, <1>2, OnceRemove DEF Kids, RemoveSlotWithRight

\* merge_next of two nodes that share no child.
LEMMA MergeNextKids ==
  ASSUME NEW K, NEW C, NEW n, NEW right, NEW k,
         IsInner(n, K, C), IsInner(right, K, C),
         NEW R, NEW Q, Kids(n, R), Kids(right, Q), R \cap Q = {}
  PROVE  Kids(MergeNext(n, k, right), R \cup Q)
<1>1. n.child \in Seq(C) /\ right.child \in Seq(C)
  BY InnerParts
<1>2. Once(n.child \o right.child, R \cup Q)
  BY <1>1, OnceConcat DEF Kids
<1> QED
  BY <1>2 DEF Kids, MergeNext

\* pop and pop_front.
LEMMA PopInnerKids ==
  ASSUME NEW K, NEW C, NEW n, IsInner(n, K, C), NEW R, Kids(n, R)
  PROVE  /\ Kids(PopInner(n), R \ {n.child[Len(n.child)]})
         /\ Kids(PopFrontInner(n), R \ {n.child[1]})
<1>1. n.child \in Seq(C) /\ Len(n.child) > 0
  BY InnerParts DEF IsInner
<1>2. IsInjective(n.child) /\ Range(n.child) = R
  BY DEF Kids, Once
<1>3. /\ Once(Front(n.child), R \ {n.child[Len(n.child)]})
      /\ Once(Tail(n.child), R \ {n.child[1]})
  BY <1>1, <1>2, OnceEnds
<1> QED
  BY <1>3 DEF Kids, PopInner, PopFrontInner

\* push and push_front of a child that is new.
LEMMA PushInnerKids ==
  ASSUME NEW K, NEW C, NEW n, IsInner(n, K, C), NEW R, Kids(n, R),
         NEW k, NEW child \in C, child \notin R, NEW a
  PROVE  /\ Kids(PushInner(n, k, child, a), R \cup {child})
         /\ Kids(PushFrontInner(n, k, child, a), R \cup {child})
<1>1. n.child \in Seq(C)
  BY InnerParts
<1>2. IsInjective(n.child) /\ Range(n.child) = R
  BY DEF Kids, Once
<1>3. /\ Once(Append(n.child, child), R \cup {child})
      /\ Once(<<child>> \o n.child, R \cup {child})
  BY <1>1, <1>2, OnceGrow
<1> QED
  BY <1>3 DEF Kids, PushInner, PushFrontInner

\* A part of a node.
LEMMA PartKids ==
  ASSUME NEW K, NEW C, NEW n, IsInner(n, K, C), IsInjective(n.child),
         NEW from \in Nat \ {0}, NEW to \in Nat, to <= Len(n.keys), from <= to + 1
  PROVE  Kids(Part(n, from, to), {n.child[i] : i \in from .. to + 1})
<1>1. n.child \in Seq(C) /\ Len(n.child) = Len(n.keys) + 1 /\ Len(n.keys) \in Nat
  BY InnerParts DEF IsInner
<1>2. to + 1 \in Nat /\ to + 1 <= Len(n.child) /\ from <= (to + 1) + 1
  BY <1>1
<1>3. Once(SubSeq(n.child, from, to + 1), {n.child[i] : i \in from .. to + 1})
  BY <1>1, <1>2, OnceCut
<1> QED
  BY <1>3 DEF Kids, Part

(***************************************************************************)
(* The split of a full node deals out its children and the new one to the  *)
(* two halves, and gives each half the minimum of keys.                    *)
\* The children R are dealt out to the nodes x and y.
Dealt(R, x, y) == \E Q, P : /\ Kids(x, Q) /\ Kids(y, P)
                            /\ Q \cap P = {} /\ Q \cup P = R

(***************************************************************************)
LEMMA SplitInnerKids ==
  ASSUME NEW K, NEW C, NEW n, IsInner(n, K, C), Len(n.keys) = INNER_N,
         NEW R, Kids(n, R),
         NEW c \in DOMAIN n.child, NEW k \in K, NEW child \in C, child \notin R,
         NEW a \in Nat
  PROVE  LET s == SplitInner(n, c, k, child, a)
         IN  /\ Dealt(R \cup {child}, s.left, s.right)
             /\ Len(s.left.keys) >= MIN_N /\ Len(s.right.keys) >= MIN_N
<1> DEFINE o == InnerSplitOriginSize
           s == SplitInner(n, c, k, child, a)
           Good(x) == /\ Dealt(R \cup {child}, x.left, x.right)
                      /\ Len(x.left.keys) >= MIN_N /\ Len(x.right.keys) >= MIN_N
           At(i, j) == {n.child[x] : x \in i .. j}
<1> SUFFICES Good(s)
  OBVIOUS
<1>1. /\ o \in Nat /\ 1 <= o /\ o + 2 <= INNER_N /\ INNER_N \in Nat
      /\ MIN_N \in Nat /\ o >= MIN_N /\ INNER_N - o >= MIN_N
  BY InnerAssumption DEF InnerSplitOriginSize, MIN_N
<1>2. /\ o - 1 \in Nat /\ 1 \in Nat \ {0}
      /\ o - 1 <= Len(n.keys) /\ o <= Len(n.keys) /\ INNER_N <= Len(n.keys)
      /\ 1 <= (o - 1) + 1 /\ 1 <= o + 1 /\ o + 1 <= INNER_N + 1 /\ o + 2 <= INNER_N + 1
      /\ o + 1 \in Nat \ {0} /\ o + 2 \in Nat \ {0} /\ (o - 1) + 1 = o
      /\ o + 1 \in 1 .. INNER_N + 1 /\ o + 2 \in 1 .. INNER_N + 1
  <2> HIDE DEF o
  <2> QED
    BY <1>1
<1>3. /\ IsInjective(n.child) /\ Range(n.child) = R
      /\ DOMAIN n.child = 1 .. INNER_N + 1 /\ c \in 1 .. INNER_N + 1
  BY InnerParts DEF Kids, Once
<1>4. ASSUME NEW i \in Nat, i <= INNER_N + 1
      PROVE  At(1, i) \cap At(i + 1, INNER_N + 1) = {} /\ At(1, i) \cup At(i + 1, INNER_N + 1) = R
  <2> HIDE DEF o, s, Good
  <2>1. /\ 1 .. i \subseteq DOMAIN n.child /\ i + 1 .. INNER_N + 1 \subseteq DOMAIN n.child
        /\ \A x \in DOMAIN n.child : x \in 1 .. i \/ x \in i + 1 .. INNER_N + 1
        /\ \A x \in 1 .. i, y \in i + 1 .. INNER_N + 1 : x # y
    BY <1>1, <1>3, <1>4
  <2>2. \A x, y \in DOMAIN n.child : n.child[x] = n.child[y] => x = y
    BY <1>3 DEF IsInjective
  <2>3. R = {n.child[x] : x \in DOMAIN n.child}
    BY <1>3 DEF Range
  <2> QED
    BY <2>1, <2>2, <2>3
<1>5. CASE c <= o
  <2> DEFINE p == Part(n, 1, o - 1)
             q == Part(n, o + 1, INNER_N)
  <2>1. s.left = InsertSlot(p, c, k, child, a) /\ s.right = q
    BY <1>1, <1>3, <1>5 DEF SplitInner
  <2> HIDE DEF o, s
  <2>2. /\ IsInner(p, K, C) /\ Len(p.keys) = (o - 1) - 1 + 1
        /\ Kids(p, At(1, o))
    BY <1>1, <1>2, <1>3, PartType, PartKids
  <2>3. /\ Len(q.keys) = INNER_N - (o + 1) + 1
        /\ Kids(q, At(o + 1, INNER_N + 1))
    <3>1. IsInner(q, K, C) /\ Len(q.keys) = INNER_N - (o + 1) + 1
      BY <1>2, HighPartType
    <3>2. Kids(q, At(o + 1, INNER_N + 1))
      BY <1>1, <1>2, <1>3, PartKids
    <3> QED
      BY <3>1, <3>2
  <2> HIDE DEF p, q
  <2>4. c \in DOMAIN p.child
    <3>1. DOMAIN p.child = 1 .. Len(p.keys) + 1
      BY <2>2, InnerParts
    <3> QED
      BY <1>1, <1>3, <1>5, <2>2, <3>1
  <2> HIDE DEF At
  <2>5. At(1, o) \cap At(o + 1, INNER_N + 1) = {} /\ At(1, o) \cup At(o + 1, INNER_N + 1) = R
    <3>1. o <= INNER_N + 1
      BY <1>1
    <3> QED
      BY <1>1, <1>4, <3>1
  <2>6. Kids(s.left, At(1, o) \cup {child}) /\ Len(s.left.keys) = Len(p.keys) + 1
    BY <2>1, <2>2, <2>4, <2>5, InsertSlotType, InsertSlotKids
  <2>7. Len(s.left.keys) >= MIN_N /\ Len(s.right.keys) >= MIN_N
    BY <1>1, <2>1, <2>2, <2>3, <2>6
  <2>8. /\ (At(1, o) \cup {child}) \cap At(o + 1, INNER_N + 1) = {}
        /\ (At(1, o) \cup {child}) \cup At(o + 1, INNER_N + 1) = R \cup {child}
    BY <2>5
  <2> QED
    BY <2>1, <2>3, <2>6, <2>7, <2>8 DEF Dealt
<1>6. CASE c > o + 1
  <2> DEFINE p == Part(n, 1, o)
             q == Part(n, o + 2, INNER_N)
  <2>1. s.left = p /\ s.right = InsertSlot(q, c - 1 - o, k, child, a)
    BY <1>1, <1>3, <1>6 DEF SplitInner
  <2> HIDE DEF o, s
  <2>2. Len(p.keys) = o - 1 + 1 /\ Kids(p, At(1, o + 1))
    <3>1. Len(p.keys) = o - 1 + 1
      BY <1>1, <1>2, PartType
    <3>2. Kids(p, At(1, o + 1))
      BY <1>1, <1>2, <1>3, PartKids
    <3> QED
      BY <3>1, <3>2
  <2>3. /\ IsInner(q, K, C) /\ Len(q.keys) = INNER_N - (o + 2) + 1
        /\ Kids(q, At(o + 2, INNER_N + 1))
    <3>1. IsInner(q, K, C) /\ Len(q.keys) = INNER_N - (o + 2) + 1
      BY <1>2, HighPartType
    <3>2. Kids(q, At(o + 2, INNER_N + 1))
      <4>1. /\ o + 2 \in Nat \ {0} /\ INNER_N \in Nat /\ INNER_N <= Len(n.keys)
            /\ o + 2 <= INNER_N + 1 /\ IsInner(n, K, C) /\ IsInjective(n.child)
        BY <1>1, <1>2, <1>3
      <4> QED
        BY ONLY <4>1, PartKids
    <3> QED
      BY <3>1, <3>2
  <2> HIDE DEF p, q
  <2>4. c - 1 - o \in DOMAIN q.child
    <3>1. DOMAIN q.child = 1 .. Len(q.keys) + 1
      BY <2>3, InnerParts
    <3> QED
      BY <1>1, <1>3, <1>6, <2>3, <3>1
  <2>5. /\ At(1, o + 1) \cap At(o + 2, INNER_N + 1) = {}
        /\ At(1, o + 1) \cup At(o + 2, INNER_N + 1) = R
    <3>1. o + 1 \in Nat /\ o + 1 <= INNER_N + 1 /\ (o + 1) + 1 = o + 2
      BY <1>1
    <3> QED
      BY <1>4, <3>1
  <2> HIDE DEF At
  <2>6. Kids(s.right, At(o + 2, INNER_N + 1) \cup {child}) /\ Len(s.right.keys) = Len(q.keys) + 1
    BY <2>1, <2>3, <2>4, <2>5, InsertSlotType, InsertSlotKids
  <2>7. Len(s.left.keys) >= MIN_N /\ Len(s.right.keys) >= MIN_N
    BY <1>1, <2>1, <2>2, <2>3, <2>6
  <2>8. /\ At(1, o + 1) \cap (At(o + 2, INNER_N + 1) \cup {child}) = {}
        /\ At(1, o + 1) \cup (At(o + 2, INNER_N + 1) \cup {child}) = R \cup {child}
    BY <2>5
  <2> QED
    BY <2>1, <2>2, <2>6, <2>7, <2>8 DEF Dealt
<1>7. CASE ~(c <= o) /\ ~(c > o + 1)
  <2> DEFINE p  == Part(n, 1, o)
             q  == Part(n, o + 1, INNER_N)
             cs == [q.child EXCEPT ![1] = child]
  <2>1. s.left = p /\ s.right = [q EXCEPT !.child[1] = child, !.aug[1] = a]
    BY <1>1, <1>3, <1>7 DEF SplitInner
  <2> HIDE DEF o, s
  <2>2. Len(p.keys) = o - 1 + 1 /\ Kids(p, At(1, o + 1))
    <3>1. Len(p.keys) = o - 1 + 1
      BY <1>1, <1>2, PartType
    <3>2. Kids(p, At(1, o + 1))
      BY <1>1, <1>2, <1>3, PartKids
    <3> QED
      BY <3>1, <3>2
  <2>3. /\ IsInner(q, K, C) /\ Len(q.keys) = INNER_N - (o + 1) + 1
        /\ Kids(q, At(o + 1, INNER_N + 1))
    <3>1. IsInner(q, K, C) /\ Len(q.keys) = INNER_N - (o + 1) + 1
      BY <1>2, HighPartType
    <3>2. Kids(q, At(o + 1, INNER_N + 1))
      BY <1>1, <1>2, <1>3, PartKids
    <3> QED
      BY <3>1, <3>2
  <2>4. q.child[1] = n.child[o + 1]
    <3>1. q.child = SubSeq(n.child, o + 1, INNER_N + 1)
      BY DEF Part
    <3>2. n.child \in Seq(C)
      BY InnerParts
    <3>3. \A i \in o + 1 .. INNER_N + 1 : n.child[i] \in C
      <4>1. Len(n.child) = INNER_N + 1
        BY DEF IsInner
      <4> QED
        BY <1>1, <3>2, <4>1, ElementOfSeq
    <3>4. \A i \in 1 .. (INNER_N + 1) - (o + 1) + 1 :
              SubSeq(n.child, o + 1, INNER_N + 1)[i] = n.child[(o + 1) + i - 1]
      BY <1>1, <3>3, SubSeqProperties
    <3>5. 1 \in 1 .. (INNER_N + 1) - (o + 1) + 1 /\ (o + 1) + 1 - 1 = o + 1
      BY <1>1
    <3> QED
      BY <3>1, <3>4, <3>5
  <2>5. s.right.child = cs /\ s.right.keys = q.keys
    BY <2>1, <2>3 DEF IsInner
  <2> HIDE DEF p, q
  <2>6. q.child \in Seq(C) /\ 1 \in 1 .. Len(q.child)
    BY <2>3, InnerParts DEF IsInner
  <2>7. child \notin At(o + 1, INNER_N + 1)
    BY <1>1, <1>3 DEF Range
  <2>8. /\ At(1, o + 1) \cap (At(o + 1, INNER_N + 1) \ {n.child[o + 1]}) = {}
        /\ At(1, o + 1) \cup (At(o + 1, INNER_N + 1) \ {n.child[o + 1]}) = R
    <3>1. At(o + 1, INNER_N + 1) \ {n.child[o + 1]} = At((o + 1) + 1, INNER_N + 1)
      <4>1. \A x \in o + 1 .. INNER_N + 1 : x # o + 1 => x \in (o + 1) + 1 .. INNER_N + 1
        BY <1>1
      <4>2. \A x \in (o + 1) + 1 .. INNER_N + 1 :
                /\ x # o + 1 /\ x \in o + 1 .. INNER_N + 1
                /\ x \in DOMAIN n.child /\ o + 1 \in DOMAIN n.child
        BY <1>1, <1>3
      <4> QED
        BY <1>3, <4>1, <4>2 DEF IsInjective
    <3>2. o + 1 \in Nat /\ o + 1 <= INNER_N + 1
      BY <1>1
    <3> HIDE DEF At
    <3> QED
      BY <1>4, <3>1, <3>2
  <2> HIDE DEF At
  <2>9. Kids(s.right, (At(o + 1, INNER_N + 1) \ {n.child[o + 1]}) \cup {child})
    BY <2>3, <2>4, <2>5, <2>6, <2>7, OncePut DEF Kids, Once
  <2>10. Len(s.left.keys) >= MIN_N /\ Len(s.right.keys) >= MIN_N
    BY <1>1, <2>1, <2>2, <2>3, <2>5
  <2>11. /\ At(1, o + 1) \cap ((At(o + 1, INNER_N + 1) \ {n.child[o + 1]}) \cup {child}) = {}
         /\ At(1, o + 1) \cup ((At(o + 1, INNER_N + 1) \ {n.child[o + 1]}) \cup {child})
              = R \cup {child}
    BY <2>8
  <2> QED
    BY <2>1, <2>2, <2>9, <2>10, <2>11 DEF Dealt
<1> QED
  <2> HIDE DEF o, s
  <2> QED
    BY <1>1, <1>3, <1>5, <1>6, <1>7

-----------------------------------------------------------------------------
(* The store, as a value                                                   *)

\* The leaves L and the inner nodes I are well formed, with the heights h.
StoreOK(L, I, h) ==
    /\ L \in Seq(LeafRec)
    /\ \A i \in DOMAIN L : Len(L[i].data) <= LEAF_N
    /\ I \in Seq(InnerRec)
    /\ h \in [DOMAIN I -> 1 .. Len(I)]
    /\ \A i \in DOMAIN I : /\ IsInner(I[i], Key, NodesAt(Len(L), h, h[i] - 1))
                           /\ Len(I[i].keys) <= INNER_N

\* The leaves of the type invariant are those of the lemmas on leaves.
LEMMA LeafRecIs == LeafRec = LeafOver(Pair)
BY DEF LeafRec, LeafOver

\* A leaf has a key for every entry.
LEMMA LeafKeysLen ==
  ASSUME NEW leaf \in LeafOver(Pair)
  PROVE  Len(LeafKeys(leaf)) = Len(leaf.data) /\ Len(leaf.data) \in Nat
<1> DEFINE n  == Len(leaf.data)
           ks == [i \in 1 .. n |-> leaf.data[i][1]]
<1>1. leaf.data \in Seq(Pair)
  BY DEF LeafOver
<1>2. n \in Nat /\ DOMAIN leaf.data = 1 .. n
  BY <1>1, LenProperties
<1>3. \A i \in 1 .. n : leaf.data[i][1] \in Key
  <2>1. \A i \in 1 .. n : leaf.data[i] \in Pair
    BY <1>1, ElementOfSeq
  <2> QED
    BY <2>1 DEF Pair
<1>4. ks \in Seq(Key)
  BY <1>2, <1>3, IsASeq
<1>5. Len(ks) = n
  <2>1. DOMAIN ks = 1 .. n
    OBVIOUS
  <2> HIDE DEF ks
  <2>2. DOMAIN ks = 1 .. Len(ks) /\ Len(ks) \in Nat
    BY <1>4, LenProperties
  <2> HIDE DEF n
  <2> QED
    BY <1>2, <2>1, <2>2
<1>6. LeafKeys(leaf) = ks
  BY <1>2 DEF LeafKeys
<1> QED
  BY <1>2, <1>5, <1>6

\* What is known of an id from the height it is at.
LEMMA NodesAtIds ==
  ASSUME NEW n \in Nat, NEW m \in Nat, NEW h \in [1 .. m -> Nat], NEW d \in Nat,
         NEW id \in NodesAt(n, h, d)
  PROVE  /\ id \in NodeId
         /\ HeightOf(h, id) = d
         /\ d = 0 => id.kind = "leaf" /\ id.id \in 1 .. n
         /\ d # 0 => id.kind = "inner" /\ id.id \in 1 .. m /\ h[id.id] = d
<1>1. CASE d = 0
  <2>1. PICK i \in 1 .. n : id = Leaf(i)
    BY <1>1 DEF NodesAt
  <2> QED
    BY <1>1, <2>1 DEF Leaf, NodeId, HeightOf
<1>2. CASE d # 0
  <2>1. PICK i \in 1 .. m : h[i] = d /\ id = Inner(i)
    BY <1>2 DEF NodesAt
  <2> QED
    BY <1>2, <2>1 DEF Inner, NodeId, HeightOf
<1> QED
  BY <1>1, <1>2

\* The parts of a well-formed store.
LEMMA StoreParts ==
  ASSUME NEW L, NEW I, NEW h, StoreOK(L, I, h)
  PROVE  /\ L \in Seq(LeafRec) /\ Len(L) \in Nat /\ DOMAIN L = 1 .. Len(L)
         /\ I \in Seq(InnerRec) /\ Len(I) \in Nat /\ DOMAIN I = 1 .. Len(I)
         /\ h \in [1 .. Len(I) -> 1 .. Len(I)] /\ h \in [1 .. Len(I) -> Nat]
         /\ \A i \in DOMAIN L : L[i] \in LeafOver(Pair)
         /\ \A i \in DOMAIN I : h[i] \in Nat \ {0} /\ h[i] - 1 \in Nat
<1>1. L \in Seq(LeafRec) /\ I \in Seq(InnerRec) /\ h \in [DOMAIN I -> 1 .. Len(I)]
  BY DEF StoreOK
<1>2. /\ Len(L) \in Nat /\ DOMAIN L = 1 .. Len(L)
      /\ Len(I) \in Nat /\ DOMAIN I = 1 .. Len(I)
  BY <1>1, LenProperties
<1>3. \A i \in DOMAIN L : L[i] \in LeafOver(Pair)
  BY <1>1, <1>2, ElementOfSeq, LeafRecIs
<1>4. \A i \in DOMAIN I : h[i] \in Nat \ {0} /\ h[i] - 1 \in Nat
  BY <1>1, <1>2
<1>5. h \in [1 .. Len(I) -> Nat]
  BY <1>1, <1>2
<1> QED
  BY <1>1, <1>2, <1>3, <1>4, <1>5

\* What is known of an id that is in the store at its own height.
LEMMA IdKnown ==
  ASSUME NEW L, NEW I, NEW h, StoreOK(L, I, h),
         NEW id, id \in NodesAt(Len(L), h, HeightOf(h, id))
  PROVE  /\ id \in NodeId /\ HeightOf(h, id) \in Nat
         /\ id.kind = "leaf" => /\ id.id \in DOMAIN L /\ id = Leaf(id.id)
                               /\ HeightOf(h, id) = 0
         /\ id.kind = "inner" => /\ id.id \in DOMAIN I /\ id = Inner(id.id)
                                /\ HeightOf(h, id) = h[id.id]
<1>1. /\ Len(L) \in Nat /\ DOMAIN L = 1 .. Len(L)
      /\ Len(I) \in Nat /\ DOMAIN I = 1 .. Len(I) /\ h \in [1 .. Len(I) -> Nat]
  BY StoreParts
<1>2. CASE HeightOf(h, id) = 0
  <2>1. PICK i \in 1 .. Len(L) : id = Leaf(i)
    BY <1>2 DEF NodesAt
  <2> QED
    BY <1>1, <1>2, <2>1 DEF Leaf, NodeId, HeightOf
<1>3. CASE HeightOf(h, id) # 0
  <2>1. PICK i \in 1 .. Len(I) : h[i] = HeightOf(h, id) /\ id = Inner(i)
    BY <1>1, <1>3 DEF NodesAt
  <2> QED
    BY <1>1, <2>1 DEF Inner, NodeId, HeightOf
<1> QED
  BY <1>2, <1>3

\* A store with one leaf overwritten (the writes of insert_leaf and of the rotations).
LEMMA SetLeafOK ==
  ASSUME NEW L, NEW I, NEW h, StoreOK(L, I, h), NEW i \in DOMAIN L,
         NEW leaf \in LeafOver(Pair), Len(leaf.data) <= LEAF_N
  PROVE  /\ StoreOK([L EXCEPT ![i] = leaf], I, h)
         /\ Len([L EXCEPT ![i] = leaf]) = Len(L)
<1> DEFINE M == [L EXCEPT ![i] = leaf]
<1>1. M \in Seq(LeafRec) /\ Len(M) = Len(L) /\ DOMAIN M = DOMAIN L
  <2>1. L \in Seq(LeafRec) /\ i \in 1 .. Len(L) /\ leaf \in LeafRec
    BY StoreParts, LeafRecIs
  <2>2. M \in Seq(LeafRec) /\ Len(M) = Len(L)
    BY <2>1, PutType
  <2> QED
    BY <2>1, <2>2
<1>2. \A j \in DOMAIN M : Len(M[j].data) <= LEAF_N
  BY <1>1 DEF StoreOK
<1> QED
  <2> HIDE DEF M
  <2>1. StoreOK(M, I, h)
    BY <1>1, <1>2 DEF StoreOK
  <2> QED
    BY <1>1, <2>1 DEF M

\* A node at some height of a store is at that height of the other.
Grows(m, h, n, g) == \A d \in Nat : NodesAt(m, h, d) \subseteq NodesAt(n, g, d)

\* Every store has the heights it has.
LEMMA GrowsNot == \A m, h : Grows(m, h, m, h)
BY DEF Grows

\* A store with one more leaf (reserve_leaf and assign_leaf).
LEMMA AddLeafOK ==
  ASSUME NEW L, NEW I, NEW h, StoreOK(L, I, h),
         NEW leaf \in LeafOver(Pair), Len(leaf.data) <= LEAF_N
  PROVE  /\ StoreOK(Append(L, leaf), I, h)
         /\ Len(Append(L, leaf)) = Len(L) + 1
         /\ Grows(Len(L), h, Len(L) + 1, h)
<1> DEFINE M == Append(L, leaf)
<1>1. /\ M \in Seq(LeafRec) /\ Len(M) = Len(L) + 1 /\ DOMAIN M = 1 .. Len(L) + 1
      /\ Len(L) \in Nat /\ DOMAIN L = 1 .. Len(L)
  BY StoreParts, LeafRecIs
<1>2. \A j \in DOMAIN M : Len(M[j].data) <= LEAF_N
  <2>1. SUFFICES ASSUME NEW j \in 1 .. Len(L) + 1
               PROVE  Len(M[j].data) <= LEAF_N
    BY <1>1
  <2>2. M[j] = IF j = Len(L) + 1 THEN leaf ELSE L[j]
    BY StoreParts
  <2>3. \A i \in 1 .. Len(L) : Len(L[i].data) <= LEAF_N
    BY <1>1 DEF StoreOK
  <2> HIDE DEF M
  <2>4. CASE j = Len(L) + 1
    BY <2>2, <2>4
  <2>5. CASE j # Len(L) + 1
    <3>1. j \in 1 .. Len(L)
      BY <1>1, <2>1, <2>5
    <3> QED
      BY <2>2, <2>3, <2>5, <3>1
  <2> QED
    BY <2>4, <2>5
<1>3. \A d \in Nat : NodesAt(Len(L), h, d) \subseteq NodesAt(Len(L) + 1, h, d)
  BY <1>1 DEF NodesAt
<1>4. \A j \in DOMAIN I : IsInner(I[j], Key, NodesAt(Len(L) + 1, h, h[j] - 1))
  <2>1. TAKE j \in DOMAIN I
  <2>2. NodesAt(Len(L), h, h[j] - 1) \subseteq NodesAt(Len(L) + 1, h, h[j] - 1)
    BY <1>3, StoreParts
  <2>3. IsInner(I[j], Key, NodesAt(Len(L), h, h[j] - 1))
    BY DEF StoreOK
  <2>4. I[j].child \in Seq(NodesAt(Len(L) + 1, h, h[j] - 1))
    BY <2>2, <2>3, InnerParts, SeqMonotonic
  <2> QED
    BY <2>3, <2>4 DEF IsInner
<1> QED
  <2> HIDE DEF M
  <2>1. StoreOK(M, I, h)
    BY <1>1, <1>2, <1>4 DEF StoreOK
  <2> QED
    BY <1>1, <1>3, <2>1 DEF M, Grows

\* A store with one inner node overwritten by a node of the same height.
LEMMA SetInnerOK ==
  ASSUME NEW L, NEW I, NEW h, StoreOK(L, I, h), NEW i \in DOMAIN I,
         NEW n, IsInner(n, Key, NodesAt(Len(L), h, h[i] - 1)), Len(n.keys) <= INNER_N
  PROVE  /\ StoreOK(L, [I EXCEPT ![i] = n], h)
         /\ DOMAIN [I EXCEPT ![i] = n] = DOMAIN I
<1> DEFINE J == [I EXCEPT ![i] = n]
<1>1. J \in Seq(InnerRec) /\ Len(J) = Len(I) /\ DOMAIN J = DOMAIN I
  <2>1. n \in InnerRec
    <3>1. /\ n.keys \in Seq(Key) /\ n.aug \in Seq(Nat)
          /\ n.child \in Seq(NodesAt(Len(L), h, h[i] - 1))
      BY InnerParts
    <3>2. NodesAt(Len(L), h, h[i] - 1) \subseteq NodeId
      <4>1. /\ Len(L) \in Nat /\ Len(I) \in Nat /\ h \in [1 .. Len(I) -> Nat]
            /\ h[i] - 1 \in Nat
        BY StoreParts
      <4> QED
        BY <4>1 DEF NodesAt, Leaf, Inner, NodeId
    <3>3. n.child \in Seq(NodeId)
      BY <3>1, <3>2, SeqMonotonic
    <3> QED
      BY <3>1, <3>3 DEF InnerRec, IsInner
  <2>2. I \in Seq(InnerRec) /\ i \in 1 .. Len(I)
    BY StoreParts
  <2>3. J \in Seq(InnerRec) /\ Len(J) = Len(I)
    BY <2>1, <2>2, PutType
  <2> QED
    BY <2>2, <2>3
<1>2. \A j \in DOMAIN J : /\ IsInner(J[j], Key, NodesAt(Len(L), h, h[j] - 1))
                         /\ Len(J[j].keys) <= INNER_N
  BY <1>1 DEF StoreOK
<1> QED
  <2> HIDE DEF J
  <2>1. StoreOK(L, J, h)
    BY <1>1, <1>2 DEF StoreOK
  <2> QED
    BY <1>1, <2>1 DEF J

\* h, and the height d for one more inner node.
Raised(h, m, d) == [j \in 1 .. m + 1 |-> IF j <= m THEN h[j] ELSE d]

\* A store with one more inner node (add_inner), over children at one height.
LEMMA AddInnerOK ==
  ASSUME NEW L, NEW I, NEW h, StoreOK(L, I, h), NEW d \in 1 .. Len(I) + 1,
         NEW n, IsInner(n, Key, NodesAt(Len(L), h, d - 1)), Len(n.keys) <= INNER_N
  PROVE  LET g == Raised(h, Len(I), d)
         IN  /\ StoreOK(L, Append(I, n), g)
             /\ DOMAIN Append(I, n) = 1 .. Len(I) + 1
             /\ \A i \in DOMAIN I : Append(I, n)[i] = I[i] /\ g[i] = h[i]
             /\ Grows(Len(L), h, Len(L), g)
             /\ Inner(Len(I) + 1) \in NodesAt(Len(L), g, d)
             /\ g[Len(I) + 1] = d
<1> DEFINE J == Append(I, n)
           m == Len(I)
           g == Raised(h, m, d)
<1>1. /\ I \in Seq(InnerRec) /\ m \in Nat /\ DOMAIN I = 1 .. m
      /\ h \in [1 .. m -> 1 .. m] /\ Len(L) \in Nat /\ L \in Seq(LeafRec)
  BY StoreParts
<1>2. /\ g \in [1 .. m + 1 -> 1 .. m + 1] /\ g[m + 1] = d
      /\ \A i \in 1 .. m : g[i] = h[i]
  BY <1>1 DEF Raised
<1>3. \A e \in Nat : NodesAt(Len(L), h, e) \subseteq NodesAt(Len(L), g, e)
  <2> HIDE DEF g
  <2> QED
    BY <1>1, <1>2 DEF NodesAt
<1>4. Inner(m + 1) \in NodesAt(Len(L), g, d)
  <2> HIDE DEF g, m
  <2>1. m + 1 \in DOMAIN g /\ g[m + 1] = d /\ d # 0
    BY <1>1, <1>2
  <2>2. m + 1 \in {j \in DOMAIN g : g[j] = d}
    BY <2>1
  <2> QED
    BY <2>1, <2>2 DEF NodesAt
<1>5. ASSUME NEW x, NEW e \in Nat, IsInner(x, Key, NodesAt(Len(L), h, e))
      PROVE  IsInner(x, Key, NodesAt(Len(L), g, e))
  <2> HIDE DEF g
  <2>1. x.child \in Seq(NodesAt(Len(L), g, e))
    BY <1>3, <1>5, InnerParts, SeqMonotonic
  <2> QED
    BY <1>5, <2>1 DEF IsInner
<1>6. n \in InnerRec
  <2>1. d - 1 \in Nat /\ h \in [1 .. m -> Nat]
    BY <1>1, StoreParts
  <2>2. NodesAt(Len(L), h, d - 1) \subseteq NodeId
    BY <1>1, <2>1, NodesAtIds
  <2>3. n.keys \in Seq(Key) /\ n.aug \in Seq(Nat) /\ n.child \in Seq(NodeId)
    BY <2>2, InnerParts, SeqMonotonic
  <2> QED
    BY <2>3 DEF InnerRec, IsInner
<1>7. /\ J \in Seq(InnerRec) /\ Len(J) = m + 1 /\ DOMAIN J = 1 .. m + 1
      /\ \A i \in 1 .. m + 1 : J[i] = IF i = m + 1 THEN n ELSE I[i]
  BY <1>1, <1>6
<1>8. \A i \in DOMAIN J : /\ IsInner(J[i], Key, NodesAt(Len(L), g, g[i] - 1))
                         /\ Len(J[i].keys) <= INNER_N
  <2> HIDE DEF g, J, m
  <2>1. TAKE i \in DOMAIN J
  <2>2. CASE i = m + 1
    <3>1. IsInner(n, Key, NodesAt(Len(L), g, d - 1))
      BY <1>1, <1>5 DEF m
    <3> QED
      BY <1>1, <1>2, <1>7, <2>2, <3>1
  <2>3. CASE i # m + 1
    <3>1. i \in DOMAIN I /\ J[i] = I[i] /\ g[i] = h[i]
      BY SMTT(30), <1>1, <1>2, <1>7, <2>3
    <3>2. /\ IsInner(I[i], Key, NodesAt(Len(L), h, h[i] - 1))
          /\ Len(I[i].keys) <= INNER_N
      BY <3>1 DEF StoreOK
    <3>3. h[i] - 1 \in Nat
      BY <3>1, StoreParts
    <3>4. IsInner(I[i], Key, NodesAt(Len(L), g, h[i] - 1))
      BY <1>5, <3>2, <3>3
    <3> QED
      BY <3>1, <3>2, <3>4
  <2> QED
    BY <2>2, <2>3
<1>9. StoreOK(L, J, g)
  <2> HIDE DEF g, J
  <2> QED
    BY <1>1, <1>2, <1>7, <1>8 DEF StoreOK
<1> QED
  <2> HIDE DEF J, g
  <2> QED
    BY <1>1, <1>2, <1>3, <1>4, <1>7, <1>9 DEF J, g, Grows

\* The link back that a split or a merge puts in the next leaf.
LEMMA FixPrevOK ==
  ASSUME NEW L, NEW I, NEW h, StoreOK(L, I, h), NEW next, NEW id \in Nat
  PROVE  StoreOK(FixPrev(L, next, id), I, h) /\ Len(FixPrev(L, next, id)) = Len(L)
<1>1. CASE next = None \/ next \notin DOMAIN L
  <2>1. FixPrev(L, next, id) = L
    <3>1. L \in Seq(LeafRec) /\ Len(L) \in Nat
      BY StoreParts
    <3>2. L = [x \in DOMAIN L |-> L[x]]
      BY <3>1
    <3> QED
      BY <1>1, <3>2 DEF FixPrev
  <2> QED
    BY <2>1
<1>2. CASE next # None /\ next \in DOMAIN L
  <2> DEFINE leaf == [L[next] EXCEPT !.prev = id]
  <2>0. L[next] \in LeafOver(Pair)
    BY <1>2, StoreParts
  <2>1. leaf \in LeafOver(Pair) /\ leaf.data = L[next].data
    BY <2>0 DEF LeafOver
  <2>2. Len(leaf.data) <= LEAF_N
    BY <1>2, <2>1 DEF StoreOK
  <2>3. FixPrev(L, next, id) = [L EXCEPT ![next] = leaf]
    BY <1>2 DEF FixPrev
  <2> HIDE DEF leaf
  <2>4. /\ StoreOK([L EXCEPT ![next] = leaf], I, h)
        /\ Len([L EXCEPT ![next] = leaf]) = Len(L)
    BY <1>2, <2>1, <2>2, SetLeafOK
  <2> QED
    BY <2>3, <2>4
<1> QED
  BY <1>1, <1>2

\* A child is one level below its parent.
LEMMA ChildAt ==
  ASSUME NEW L, NEW I, NEW h, StoreOK(L, I, h), NEW i \in DOMAIN I,
         NEW c \in DOMAIN I[i].child
  PROVE  /\ IsInner(I[i], Key, NodesAt(Len(L), h, h[i] - 1))
         /\ Len(I[i].keys) <= INNER_N
         /\ I[i].child[c] \in NodesAt(Len(L), h, h[i] - 1)
         /\ I[i].child[c] \in NodeId
         /\ HeightOf(h, I[i].child[c]) = h[i] - 1
<1>1. IsInner(I[i], Key, NodesAt(Len(L), h, h[i] - 1)) /\ Len(I[i].keys) <= INNER_N
  BY DEF StoreOK
<1>2. I[i].child \in Seq(NodesAt(Len(L), h, h[i] - 1)) /\ c \in 1 .. Len(I[i].child)
  BY <1>1, InnerParts DEF IsInner
<1>3. I[i].child[c] \in NodesAt(Len(L), h, h[i] - 1)
  BY <1>2, ElementOfSeq
<1>4. /\ Len(L) \in Nat /\ Len(I) \in Nat /\ h \in [1 .. Len(I) -> Nat]
      /\ h[i] - 1 \in Nat
  BY StoreParts
<1> QED
  BY <1>1, <1>3, <1>4, NodesAtIds

-----------------------------------------------------------------------------
(* Paths                                                                   *)

\* A path extended by a child of the inner node it leads to.
LEMMA PathPush ==
  ASSUME NEW L, NEW I, NEW h, StoreOK(L, I, h),
         NEW s \in Seq(Entry), NEW rt, IsPath(s, rt, I, h),
         NEW id, EndOf(s, rt) = Inner(id), id \in DOMAIN I,
         NEW c \in DOMAIN I[id].child
  PROVE  LET e == [id |-> id, idx |-> c, child |-> I[id].child[c]]
         IN  /\ Append(s, e) \in Seq(Entry)
             /\ IsPath(Append(s, e), rt, I, h)
             /\ EndOf(Append(s, e), rt) = I[id].child[c]
<1> DEFINE e == [id |-> id, idx |-> c, child |-> I[id].child[c]]
           t == Append(s, e)
           m == Len(s)
<1>1. m \in Nat /\ DOMAIN s = 1 .. m
  BY LenProperties
<1>2. e \in Entry
  <2>1. c \in Nat /\ id \in Nat
    <3>1. IsInner(I[id], Key, NodesAt(Len(L), h, h[id] - 1))
      BY ChildAt
    <3> QED
      BY <3>1, InnerParts, StoreParts
  <2> QED
    BY <2>1, ChildAt DEF Entry
<1>3. /\ t \in Seq(Entry) /\ Len(t) = m + 1 /\ DOMAIN t = 1 .. m + 1
      /\ t[m + 1] = e /\ \A n \in 1 .. m : t[n] = s[n]
  <2> HIDE DEF e
  <2> QED
    BY <1>1, <1>2
<1>4. Inner(e.id) = IF m = 0 THEN rt ELSE s[m].child
  BY <1>1 DEF EndOf
<1>5. \A n \in DOMAIN t : /\ t[n].id \in DOMAIN I
                         /\ t[n].idx \in DOMAIN I[t[n].id].child
                         /\ t[n].child = I[t[n].id].child[t[n].idx]
                         /\ Inner(t[n].id) = IF n = 1 THEN rt ELSE t[n - 1].child
  <2> HIDE DEF t, m
  <2>1. TAKE n \in DOMAIN t
  <2>2. CASE n = m + 1
    <3>1. t[n] = e
      BY <1>3, <2>2
    <3>2. Inner(t[n].id) = IF n = 1 THEN rt ELSE t[n - 1].child
      <4> HIDE DEF e
      <4> QED
        BY <1>1, <1>3, <1>4, <2>2
    <3> QED
      BY <3>1, <3>2
  <2>3. CASE n # m + 1
    <3>1. n \in 1 .. m /\ t[n] = s[n] /\ (n # 1 => t[n - 1] = s[n - 1])
      BY <1>1, <1>3, <2>3
    <3> QED
      BY <1>1, <3>1 DEF IsPath
  <2> QED
    BY <2>2, <2>3
<1>6. ASSUME NEW j \in 1 .. m PROVE h[id] < h[s[j].id]
  <2>1. s[m].id \in DOMAIN I /\ s[m].idx \in DOMAIN I[s[m].id].child
    BY <1>1, <1>6 DEF IsPath
  <2>2. s[m].child = I[s[m].id].child[s[m].idx]
    BY <1>1, <1>6 DEF IsPath
  <2>3. HeightOf(h, s[m].child) = h[s[m].id] - 1
    BY <2>1, <2>2, ChildAt
  <2>4. s[m].child = Inner(id)
    BY <1>1, <1>4
  <2>5. h[id] = h[s[m].id] - 1
    BY <2>3, <2>4 DEF HeightOf, Inner
  <2>6. s[j].id \in DOMAIN I /\ (j < m => h[s[m].id] < h[s[j].id])
    BY <1>1, <1>6 DEF IsPath
  <2>7. h[id] \in Nat /\ h[s[m].id] \in Nat /\ h[s[j].id] \in Nat
    BY <2>1, <2>6, StoreParts
  <2> QED
    BY <1>1, <2>5, <2>6, <2>7
<1>7. \A j, n \in DOMAIN t : j < n => h[t[n].id] < h[t[j].id]
  <2> HIDE DEF t, m
  <2>1. TAKE j, n \in DOMAIN t
  <2>2. HAVE j < n
  <2>3. CASE n = m + 1
    <3>1. j \in 1 .. m /\ t[j] = s[j] /\ t[n].id = id
      BY <1>1, <1>3, <2>2, <2>3
    <3> QED
      BY <1>6, <3>1
  <2>4. CASE n # m + 1
    <3>1. j \in 1 .. m /\ n \in 1 .. m /\ t[j] = s[j] /\ t[n] = s[n]
      BY <1>1, <1>3, <2>2, <2>4
    <3> QED
      BY <1>1, <2>2, <3>1 DEF IsPath
  <2> QED
    BY <2>3, <2>4
<1>8. EndOf(t, rt) = I[id].child[c]
  <2>1. t # <<>> /\ t[Len(t)] = e
    BY <1>1, <1>3
  <2> QED
    BY <2>1 DEF EndOf
<1> QED
  <2> HIDE DEF t
  <2>1. IsPath(t, rt, I, h)
    BY <1>5, <1>7 DEF IsPath
  <2> QED
    BY <1>3, <1>8, <2>1 DEF t

\* J has the nodes of I, at the same heights, and those above height d unchanged.
SameAbove(I, h, J, g, d) ==
    \A i \in DOMAIN I : /\ i \in DOMAIN J /\ g[i] = h[i]
                        /\ d < h[i] => J[i] = I[i]

(***************************************************************************)
(* A path without its last entry, in a store where only nodes at or below  *)
(* the height of that entry's node may have changed.                       *)
(***************************************************************************)
LEMMA PathPop ==
  ASSUME NEW I, NEW h, NEW s \in Seq(Entry), NEW rt, IsPath(s, rt, I, h), s # <<>>,
         NEW J, NEW g, SameAbove(I, h, J, g, h[s[Len(s)].id])
  PROVE  LET t == SubSeq(s, 1, Len(s) - 1)
         IN  /\ t \in Seq(Entry)
             /\ IsPath(t, rt, J, g)
             /\ EndOf(t, rt) = Inner(s[Len(s)].id)
<1> DEFINE m == Len(s)
           t == SubSeq(s, 1, m - 1)
<1>1. m \in Nat /\ m # 0 /\ DOMAIN s = 1 .. m /\ m - 1 \in Nat
  BY EmptySeq, LenProperties
<1>2. t \in Seq(Entry) /\ Len(t) = m - 1 /\ \A n \in 1 .. m - 1 : t[n] = s[n]
  <2>1. \A i \in 1 .. m - 1 : s[i] \in Entry
    BY <1>1, ElementOfSeq
  <2>2. /\ t \in Seq(Entry)
        /\ Len(t) = IF 1 <= m - 1 THEN (m - 1) - 1 + 1 ELSE 0
        /\ \A n \in 1 .. (m - 1) - 1 + 1 : t[n] = s[1 + n - 1]
    <3> HIDE DEF m
    <3>1. 1 \in Int /\ m - 1 \in Int
      BY <1>1
    <3> QED
      BY <2>1, <3>1, SubSeqProperties
  <2> HIDE DEF m, t
  <2>3. Len(t) = m - 1
    BY <1>1, <2>2
  <2>4. (m - 1) - 1 + 1 = m - 1 /\ \A n \in 1 .. m - 1 : 1 + n - 1 = n
    BY <1>1
  <2> QED
    BY <2>2, <2>3, <2>4
<1>3. DOMAIN t = 1 .. m - 1
  <2> HIDE DEF t
  <2> QED
    BY <1>1, <1>2, LenProperties
<1>4. ASSUME NEW n \in 1 .. m - 1
      PROVE  /\ s[n].id \in DOMAIN I /\ s[n].id \in DOMAIN J
             /\ J[s[n].id] = I[s[n].id] /\ g[s[n].id] = h[s[n].id]
  <2>1. n \in 1 .. m /\ m \in 1 .. m /\ n < m
    BY <1>1
  <2>2. s[n].id \in DOMAIN I /\ h[s[m].id] < h[s[n].id]
    BY <1>1, <2>1 DEF IsPath
  <2> QED
    BY <2>2 DEF SameAbove
<1>5. \A n \in DOMAIN t : /\ t[n].id \in DOMAIN J
                         /\ t[n].idx \in DOMAIN J[t[n].id].child
                         /\ t[n].child = J[t[n].id].child[t[n].idx]
                         /\ Inner(t[n].id) = IF n = 1 THEN rt ELSE t[n - 1].child
  <2> HIDE DEF t, m
  <2>1. TAKE n \in DOMAIN t
  <2>2. n \in 1 .. m - 1 /\ n \in 1 .. m /\ t[n] = s[n] /\ (n # 1 => t[n - 1] = s[n - 1])
    BY <1>1, <1>2, <1>3
  <2>3. s[n].id \in DOMAIN J /\ J[s[n].id] = I[s[n].id]
    BY <1>4, <2>2
  <2> QED
    BY <1>1, <2>2, <2>3 DEF IsPath
<1>6. \A j, n \in DOMAIN t : j < n => g[t[n].id] < g[t[j].id]
  <2> HIDE DEF t, m
  <2>1. TAKE j, n \in DOMAIN t
  <2>2. /\ j \in 1 .. m - 1 /\ j \in 1 .. m /\ t[j] = s[j]
        /\ n \in 1 .. m - 1 /\ n \in 1 .. m /\ t[n] = s[n]
    BY <1>1, <1>2, <1>3
  <2> QED
    BY <1>1, <1>4, <2>2 DEF IsPath
<1>7. EndOf(t, rt) = Inner(s[m].id)
  <2>1. Inner(s[m].id) = IF m = 1 THEN rt ELSE s[m - 1].child
    BY <1>1 DEF IsPath
  <2>2. CASE m = 1
    <3>1. t = <<>>
      <4> HIDE DEF t, m
      <4> QED
        BY <1>2, <2>2, EmptySeq
    <3> QED
      BY <2>1, <2>2, <3>1 DEF EndOf
  <2>3. CASE m # 1
    <3> HIDE DEF t, m
    <3>1. t # <<>> /\ t[Len(t)] = s[m - 1]
      BY <1>1, <1>2, <2>3
    <3> QED
      BY <2>1, <2>3, <3>1 DEF EndOf
  <2> QED
    BY <2>2, <2>3
<1> QED
  <2> HIDE DEF t
  <2>1. IsPath(t, rt, J, g)
    BY <1>5, <1>6 DEF IsPath
  <2> QED
    BY <1>2, <1>7, <2>1 DEF t

-----------------------------------------------------------------------------
(* Rewriting a parent, and nodes below it                                  *)

\* One inner node written.
LEMMA WriteOne ==
  ASSUME NEW L, NEW I, NEW h, StoreOK(L, I, h), NEW t \in DOMAIN I,
         NEW z, IsInner(z, Key, NodesAt(Len(L), h, h[t] - 1)), Len(z.keys) <= INNER_N
  PROVE  LET J == [I EXCEPT ![t] = z]
         IN  /\ StoreOK(L, J, h) /\ DOMAIN J = DOMAIN I /\ J[t] = z
             /\ SameAbove(I, h, J, h, h[t])
<1>1. \A i \in DOMAIN I : h[i] \in Nat
  BY StoreParts
<1> QED
  BY <1>1, SetInnerOK DEF SameAbove

\* Two inner nodes written, the second at least as high as the first.
LEMMA WriteTwo ==
  ASSUME NEW L, NEW I, NEW h, StoreOK(L, I, h), NEW t \in DOMAIN I, NEW a \in DOMAIN I,
         NEW z, IsInner(z, Key, NodesAt(Len(L), h, h[t] - 1)), Len(z.keys) <= INNER_N,
         NEW x, IsInner(x, Key, NodesAt(Len(L), h, h[a] - 1)), Len(x.keys) <= INNER_N,
         h[a] <= h[t]
  PROVE  LET J == [I EXCEPT ![a] = x, ![t] = z]
         IN  /\ StoreOK(L, J, h) /\ DOMAIN J = DOMAIN I /\ J[t] = z
             /\ SameAbove(I, h, J, h, h[t])
<1> DEFINE H == [I EXCEPT ![a] = x]
           J == [H EXCEPT ![t] = z]
<1>1. \A i \in DOMAIN I : h[i] \in Nat
  BY StoreParts
<1>2. StoreOK(L, H, h) /\ DOMAIN H = DOMAIN I
  BY SetInnerOK
<1>3. StoreOK(L, J, h) /\ DOMAIN J = DOMAIN I /\ J[t] = z
  <2> HIDE DEF H
  <2> QED
    BY <1>2, SetInnerOK
<1>4. SameAbove(I, h, J, h, h[t])
  BY <1>1 DEF SameAbove
<1>5. [I EXCEPT ![a] = x, ![t] = z] = J
  OBVIOUS
<1> HIDE DEF J
<1> QED
  BY <1>3, <1>4, <1>5

\* Three inner nodes written, the last at least as high as the others.
LEMMA WriteThree ==
  ASSUME NEW L, NEW I, NEW h, StoreOK(L, I, h),
         NEW t \in DOMAIN I, NEW a \in DOMAIN I, NEW b \in DOMAIN I,
         NEW z, IsInner(z, Key, NodesAt(Len(L), h, h[t] - 1)), Len(z.keys) <= INNER_N,
         NEW x, IsInner(x, Key, NodesAt(Len(L), h, h[a] - 1)), Len(x.keys) <= INNER_N,
         NEW y, IsInner(y, Key, NodesAt(Len(L), h, h[b] - 1)), Len(y.keys) <= INNER_N,
         h[a] <= h[t], h[b] <= h[t]
  PROVE  LET J == [I EXCEPT ![a] = x, ![b] = y, ![t] = z]
         IN  /\ StoreOK(L, J, h) /\ DOMAIN J = DOMAIN I /\ J[t] = z
             /\ SameAbove(I, h, J, h, h[t])
<1> DEFINE G == [I EXCEPT ![a] = x]
           H == [G EXCEPT ![b] = y]
           J == [H EXCEPT ![t] = z]
<1>1. \A i \in DOMAIN I : h[i] \in Nat
  BY StoreParts
<1>2. StoreOK(L, G, h) /\ DOMAIN G = DOMAIN I
  BY SetInnerOK
<1>3. StoreOK(L, H, h) /\ DOMAIN H = DOMAIN I
  <2> HIDE DEF G
  <2> QED
    BY <1>2, SetInnerOK
<1>4. StoreOK(L, J, h) /\ DOMAIN J = DOMAIN I /\ J[t] = z
  <2> HIDE DEF H
  <2> QED
    BY <1>3, SetInnerOK
<1>5. SameAbove(I, h, J, h, h[t])
  BY SMTT(30), <1>1 DEF SameAbove
<1>6. [I EXCEPT ![a] = x, ![b] = y, ![t] = z] = J
  OBVIOUS
<1> HIDE DEF J
<1> QED
  BY <1>4, <1>5, <1>6

-----------------------------------------------------------------------------
(* The inductive invariant, for the heights h                              *)

\* The part of TypeOK that is not about the store.
Scalars ==
    /\ root \in NodeId /\ rootAug \in Nat /\ len \in Int
    /\ takenLeaves \subseteq Nat /\ takenInners \subseteq Nat
    /\ cached \in DOMAIN leaves \cup {None}
    /\ pc \in {"idle", "insert_inner", "insert_ascend", "key_to_ref",
               "get_ref_by_augmentation", "remove_ascend", "find_descend"}
    /\ call \in Calls
    /\ node \in NodeId \cup {None}
    /\ stack \in Seq(Entry)
    /\ r \in Results
    /\ ret \in Value \cup Pair \cup {None}

Good(h) ==
    /\ StoreOK(leaves, inners, h)
    /\ IsAt(h, root, HeightOf(h, root))
    /\ Scalars
    /\ Path(h)
    /\ Locals(h)
    /\ ResultOK(h)

\* IInv says that some heights make the state good.
LEMMA GoodIsIInv == IInv <=> \E h : Good(h)
<1>1. ASSUME NEW h \in Heights, TypeOK, NoOverflow, Levelled(h), Path(h), Locals(h),
             ResultOK(h)
      PROVE  Good(h)
  <2>1. ASSUME NEW i \in DOMAIN inners
        PROVE  IsInner(inners[i], Key, NodesAt(Len(leaves), h, h[i] - 1))
    <3>1. inners[i] \in InnerRec
      <4>1. inners \in Seq(InnerRec) /\ i \in 1 .. Len(inners)
        BY <1>1, LenProperties DEF TypeOK
      <4> QED
        BY <4>1, ElementOfSeq
    <3>2. inners[i].child \in Seq(NodesAt(Len(leaves), h, h[i] - 1))
      BY <1>1 DEF Levelled
    <3> QED
      BY <1>1, <3>1, <3>2 DEF IsInner, TypeOK, InnerRec
  <2>2. StoreOK(leaves, inners, h)
    BY <1>1, <2>1 DEF StoreOK, TypeOK, NoOverflow, LeafSize, InnerSize, Heights
  <2> QED
    BY <1>1, <2>2 DEF Good, Scalars, TypeOK, Levelled
<1>2. ASSUME NEW h, Good(h)
      PROVE  /\ h \in Heights /\ TypeOK /\ NoOverflow
             /\ Levelled(h) /\ Path(h) /\ Locals(h) /\ ResultOK(h)
  <2>1. StoreOK(leaves, inners, h) /\ Scalars /\ IsAt(h, root, HeightOf(h, root))
    BY <1>2 DEF Good
  <2>2. h \in Heights /\ NoOverflow
    BY <2>1 DEF StoreOK, Heights, NoOverflow, LeafSize, InnerSize
  <2>3. \A i \in DOMAIN inners :
            /\ inners[i].child \in Seq(NodesAt(Len(leaves), h, h[i] - 1))
            /\ Len(inners[i].child) = Len(inners[i].keys) + 1
            /\ Len(inners[i].aug) = Len(inners[i].keys) + 1
    BY <2>1 DEF StoreOK, IsInner
  <2>4. TypeOK
    BY <2>1, <2>3 DEF TypeOK, Scalars, StoreOK
  <2>5. Levelled(h)
    BY <2>1, <2>3 DEF Levelled
  <2> QED
    BY <1>2, <2>2, <2>4, <2>5 DEF Good
<1> QED
  BY <1>1, <1>2 DEF IInv

-----------------------------------------------------------------------------
(* What a good state knows                                                 *)

\* new_augmentation_for_id of a node in the store is a count.
LEMMA AugOfType ==
  ASSUME NEW h, StoreOK(leaves, inners, h), NEW d \in Nat, NEW id, IsAt(h, id, d)
  PROVE  AugOf(id) \in Nat
<1>0. /\ Len(leaves) \in Nat /\ Len(inners) \in Nat /\ h \in [1 .. Len(inners) -> Nat]
      /\ DOMAIN leaves = 1 .. Len(leaves) /\ DOMAIN inners = 1 .. Len(inners)
  BY StoreParts
<1>1. id \in NodesAt(Len(leaves), h, d)
  BY DEF IsAt
<1>2. CASE d = 0
  <2>1. id.kind = "leaf" /\ id.id \in DOMAIN leaves
    BY <1>0, <1>1, <1>2, NodesAtIds
  <2>2. leaves[id.id] \in LeafOver(Pair)
    BY <2>1, StoreParts
  <2> QED
    BY <2>1, <2>2, LeafKeysLen DEF AugOf, FromLeaf
<1>3. CASE d # 0
  <2>1. id.kind = "inner" /\ id.id \in DOMAIN inners
    BY <1>0, <1>1, <1>3, NodesAtIds
  <2>2. inners[id.id].aug \in Seq(Nat)
    BY <2>1, InnerParts DEF StoreOK
  <2> QED
    BY <2>1, <2>2, TotalType DEF AugOf, FromInner
<1> QED
  BY <1>2, <1>3

\* The node that the path leads to is in the store.
LEMMA CurrentAt ==
  ASSUME NEW h, Good(h)
  PROVE  IsAt(h, Current, HeightOf(h, Current))
<1>1. StoreOK(leaves, inners, h) /\ IsAt(h, root, HeightOf(h, root)) /\ Path(h)
  BY DEF Good
<1>2. stack \in Seq(Entry)
  BY DEF Good, Scalars
<1>3. CASE stack = <<>>
  BY <1>1, <1>3 DEF Current, EndOf
<1>4. CASE stack # <<>>
  <2> DEFINE m == Len(stack)
  <2>1. m \in Nat /\ m # 0 /\ DOMAIN stack = 1 .. m
    BY <1>2, <1>4, EmptySeq, LenProperties
  <2>2. /\ stack[m].id \in DOMAIN inners
        /\ stack[m].idx \in DOMAIN inners[stack[m].id].child
        /\ stack[m].child = inners[stack[m].id].child[stack[m].idx]
    BY <1>1, <2>1 DEF Path, IsPath
  <2> QED
    BY <1>1, <1>4, <2>2, ChildAt DEF Current, EndOf, IsAt
<1> QED
  BY <1>3, <1>4

\* The entry that the ascent pops, and the node it is about.
LEMMA TopFacts ==
  ASSUME NEW h, Good(h), stack # <<>>
  PROVE  /\ Top.id \in DOMAIN inners /\ Top.idx \in 1 .. Len(Parent.keys) + 1
         /\ Top.child = Parent.child[Top.idx] /\ Current = Top.child
         /\ IsInner(Parent, Key, NodesAt(Len(leaves), h, h[Top.id] - 1))
         /\ Len(Parent.keys) <= INNER_N /\ Len(Parent.keys) \in Nat
         /\ DOMAIN Parent.child = 1 .. Len(Parent.keys) + 1
         /\ h[Top.id] \in Nat \ {0} /\ h[Top.id] - 1 \in Nat
         /\ HeightOf(h, Top.child) = h[Top.id] - 1
         /\ AugOf(Top.child) \in Nat
<1>1. StoreOK(leaves, inners, h) /\ Path(h) /\ stack \in Seq(Entry)
  BY DEF Good, Scalars
<1>2. Len(stack) \in DOMAIN stack
  <2>1. Len(stack) \in Nat /\ Len(stack) # 0 /\ DOMAIN stack = 1 .. Len(stack)
    BY <1>1, EmptySeq, LenProperties
  <2> QED
    BY <2>1
<1>3. /\ Top.id \in DOMAIN inners /\ Top.idx \in DOMAIN Parent.child
      /\ Top.child = Parent.child[Top.idx]
  BY <1>1, <1>2 DEF Path, IsPath, Top, Parent
<1>4. Current = Top.child
  BY DEF Current, EndOf, Top
<1>5. /\ IsInner(Parent, Key, NodesAt(Len(leaves), h, h[Top.id] - 1))
      /\ Len(Parent.keys) <= INNER_N
      /\ Parent.child[Top.idx] \in NodesAt(Len(leaves), h, h[Top.id] - 1)
      /\ HeightOf(h, Parent.child[Top.idx]) = h[Top.id] - 1
  BY <1>1, <1>3, ChildAt DEF Parent
<1>6. /\ DOMAIN Parent.child = 1 .. Len(Parent.keys) + 1
      /\ Len(Parent.keys) \in Nat
  BY <1>5, InnerParts
<1>7. h[Top.id] \in Nat \ {0} /\ h[Top.id] - 1 \in Nat
  BY <1>1, <1>3, StoreParts
<1>8. AugOf(Top.child) \in Nat
  BY <1>1, <1>3, <1>5, <1>7, AugOfType DEF IsAt
<1> QED
  BY <1>3, <1>4, <1>5, <1>6, <1>7, <1>8

-----------------------------------------------------------------------------
(* What the parts that the actions share preserve                          *)

\* The loop a call may be in.
Fits(where, c) ==
    \/ where = "insert_inner" /\ c.op = "insert"
    \/ where = "key_to_ref" /\ c.op = "remove"
    \/ /\ where = "get_ref_by_augmentation"
       /\ c.op \in {"remove_by_augmentation", "get_mut_by_augmentation"}
    \/ where = "find_descend" /\ c.op \in {"get", "get_mut"}

\* A call begins.
LEMMA EnterOK ==
  ASSUME NEW h, Good(h), NEW where, NEW c \in Calls, Fits(where, c), Enter(where, c)
  PROVE  Good(h)'
<1>1. /\ StoreOK(leaves, inners, h) /\ IsAt(h, root, HeightOf(h, root)) /\ Scalars
  BY DEF Good
<1>2. UNCHANGED <<root, rootAug, len, leaves, inners, takenLeaves, takenInners, cached>>
  BY DEF Enter, tree, store, taken
<1>3. /\ pc' = where /\ call' = c /\ node' = root
      /\ stack' = <<>> /\ r' = None /\ ret' = None
  BY DEF Enter
<1>4. StoreOK(leaves, inners, h)' /\ IsAt(h, root, HeightOf(h, root))'
  BY <1>1, <1>2 DEF IsAt, HeightOf
<1>5. Scalars'
  BY <1>1, <1>2, <1>3 DEF Scalars, Fits, Results
<1>6. Path(h)'
  BY <1>3 DEF Path, IsPath
<1>7. Locals(h)'
  <2>1. IsAt(h, node, HeightOf(h, node))' /\ node' = Current'
    BY <1>1, <1>2, <1>3 DEF IsAt, HeightOf, Current, EndOf
  <2> QED
    BY <1>3, <2>1 DEF Locals, Fits
<1>8. ResultOK(h)'
  BY <1>3 DEF ResultOK, Fits
<1> QED
  BY <1>4, <1>5, <1>6, <1>7, <1>8 DEF Good

\* A call returns x; its last step may have changed the store and the root.
LEMMA ReturnOK ==
  ASSUME NEW x \in Value \cup Pair \cup {None}, Return(x),
         NEW g, StoreOK(leaves', inners', g),
         root' \in NodesAt(Len(leaves'), g, HeightOf(g, root')),
         rootAug' \in Nat, len' \in Int,
         takenLeaves' \subseteq Nat, takenInners' \subseteq Nat,
         cached' \in DOMAIN leaves' \cup {None}
  PROVE  Good(g)'
<1>1. /\ pc' = "idle" /\ call' = NoCall /\ node' = None
      /\ stack' = <<>> /\ r' = None /\ ret' = x
  BY DEF Return
<1>2. root' \in NodeId
  BY IdKnown
<1>3. IsAt(g, root, HeightOf(g, root))'
  BY DEF IsAt, HeightOf
<1>4. Scalars'
  BY <1>1, <1>2 DEF Scalars, Results, Calls
<1>5. Path(g)'
  BY <1>1 DEF Path, IsPath
<1>6. Locals(g)' /\ ResultOK(g)'
  BY <1>1 DEF Locals, ResultOK, Descending
<1> QED
  BY <1>3, <1>4, <1>5, <1>6 DEF Good

\* The same for a return that leaves the tree alone.
LEMMA ReturnOnlyOK ==
  ASSUME NEW h, Good(h), NEW x \in Value \cup Pair \cup {None}, Return(x), UNCHANGED tree
  PROVE  Good(h)'
<1>1. UNCHANGED <<root, rootAug, len, leaves, inners, takenLeaves, takenInners, cached>>
  BY DEF tree, store, taken
<1>2. StoreOK(leaves, inners, h) /\ IsAt(h, root, HeightOf(h, root)) /\ Scalars
  BY DEF Good
<1>3. /\ StoreOK(leaves', inners', h)
      /\ root' \in NodesAt(Len(leaves'), h, HeightOf(h, root'))
  BY <1>1, <1>2 DEF IsAt
<1>4. /\ rootAug' \in Nat /\ len' \in Int
      /\ takenLeaves' \subseteq Nat /\ takenInners' \subseteq Nat
      /\ cached' \in DOMAIN leaves' \cup {None}
  BY <1>1, <1>2 DEF Scalars
<1> QED
  BY <1>3, <1>4, ReturnOK

\* A descent that keeps its path goes one level down.
LEMMA DescendOK ==
  ASSUME NEW h, Good(h), pc \in Descending, node.kind = "inner",
         NEW c \in DOMAIN inners[node.id].child, Push(c),
         UNCHANGED <<tree, pc, r, ret>>, call' \in Calls, call'.op = call.op
  PROVE  Good(h)'
<1>1. /\ StoreOK(leaves, inners, h) /\ IsAt(h, root, HeightOf(h, root)) /\ Scalars
      /\ Path(h) /\ Locals(h) /\ ResultOK(h)
  BY DEF Good
<1>2. UNCHANGED <<root, rootAug, len, leaves, inners, takenLeaves, takenInners, cached>>
  BY DEF tree, store, taken
<1>3. node = Current /\ IsAt(h, node, HeightOf(h, node))
  BY <1>1, CurrentAt DEF Locals
<1>4. node.id \in DOMAIN inners /\ node = Inner(node.id)
  BY <1>1, <1>3, IdKnown DEF IsAt
<1>5. /\ stack' \in Seq(Entry) /\ IsPath(stack', root, inners, h)
      /\ EndOf(stack', root) = inners[node.id].child[c]
  <2>1. stack' = Append(stack, [id |-> node.id, idx |-> c,
                                child |-> inners[node.id].child[c]])
    BY DEF Push
  <2>2. stack \in Seq(Entry) /\ IsPath(stack, root, inners, h)
    BY <1>1 DEF Scalars, Path
  <2>3. EndOf(stack, root) = Inner(node.id)
    BY <1>3, <1>4 DEF Current
  <2> QED
    BY <1>1, <1>4, <2>1, <2>2, <2>3, PathPush
<1>6. node' = inners[node.id].child[c] /\ node' \in NodeId
  BY <1>1, <1>4, ChildAt DEF Push
<1>7. StoreOK(leaves, inners, h)' /\ IsAt(h, root, HeightOf(h, root))'
  BY <1>1, <1>2 DEF IsAt, HeightOf
<1>8. Scalars'
  BY <1>1, <1>2, <1>5, <1>6 DEF Scalars
<1>9. Path(h)' /\ node' = Current'
  BY <1>2, <1>5, <1>6 DEF Path, Current
<1>10. Locals(h)' /\ ResultOK(h)'
  BY <1>1, <1>9 DEF Locals, ResultOK, Descending
<1> QED
  BY <1>7, <1>8, <1>9, <1>10 DEF Good

(***************************************************************************)
(* One step of an ascent: the top entry is popped, and nodes no higher     *)
(* than its node may have changed.  g are the heights after the step.      *)
(***************************************************************************)
LEMMA AscendOK ==
  ASSUME NEW h, Good(h), stack # <<>>, PopStack,
         pc \in {"insert_ascend", "remove_ascend"},
         UNCHANGED <<root, rootAug, len, pc, call, node, ret>>,
         NEW g, StoreOK(leaves', inners', g),
         SameAbove(inners, h, inners', g, h[Top.id]),
         Grows(Len(leaves), h, Len(leaves'), g),
         takenLeaves' \subseteq Nat, takenInners' \subseteq Nat,
         cached' \in DOMAIN leaves' \cup {None},
         pc = "insert_ascend" =>
             /\ r' \in InsertResults
             /\ r'.tag = "Split" => r'.right \in NodesAt(Len(leaves'), g, h[Top.id]),
         pc = "remove_ascend" =>
             /\ r' \in RemoveResults /\ r'.tag # "LeafUnderSize"
             /\ r'.tag = "InnerUnderSize" => InnerUnderSize(inners'[Top.id])
  PROVE  Good(g)'
<1>1. /\ StoreOK(leaves, inners, h) /\ IsAt(h, root, HeightOf(h, root)) /\ Scalars
      /\ Path(h) /\ Locals(h)
  BY DEF Good
<1>2. Top.id \in DOMAIN inners /\ h[Top.id] \in Nat
  BY TopFacts
<1>3. /\ stack' \in Seq(Entry) /\ IsPath(stack', root, inners', g)
      /\ EndOf(stack', root) = Inner(Top.id)
  <2>1. stack \in Seq(Entry) /\ IsPath(stack, root, inners, h)
    BY <1>1 DEF Scalars, Path
  <2>2. stack' = SubSeq(stack, 1, Len(stack) - 1)
    BY DEF PopStack
  <2>3. SameAbove(inners, h, inners', g, h[stack[Len(stack)].id])
    BY DEF Top
  <2>4. LET t == SubSeq(stack, 1, Len(stack) - 1)
        IN  /\ t \in Seq(Entry)
            /\ IsPath(t, root, inners', g)
            /\ EndOf(t, root) = Inner(stack[Len(stack)].id)
    BY ONLY <2>1, <2>3, stack # <<>>, PathPop
  <2> QED
    BY <2>2, <2>4 DEF Top
<1>4. IsAt(g, root, HeightOf(g, root))'
  <2>1. /\ root \in NodesAt(Len(leaves), h, HeightOf(h, root))
        /\ HeightOf(h, root) \in Nat /\ root \in NodeId
        /\ root.kind = "inner" => root.id \in DOMAIN inners
    BY <1>1, IdKnown DEF IsAt
  <2>2. root \in NodesAt(Len(leaves'), g, HeightOf(h, root))
    BY <2>1 DEF Grows
  <2>3. HeightOf(g, root) = HeightOf(h, root)
    BY <2>1 DEF HeightOf, NodeId, SameAbove
  <2> QED
    BY <2>2, <2>3 DEF IsAt, HeightOf
<1>5. Current' = Inner(Top.id)
  BY <1>3 DEF Current
<1>6. Path(g)'
  BY <1>3 DEF Path
<1>7. Scalars'
  BY <1>1, <1>3 DEF Scalars, Results
<1>8. Locals(g)'
  BY <1>1 DEF Locals, Descending
<1>9. ResultOK(g)'
  <2>1. /\ Current'.kind = "inner" /\ Current'.id = Top.id
        /\ HeightOf(g, Current') = h[Top.id]
    BY <1>2, <1>5 DEF Inner, HeightOf, SameAbove
  <2>2. pc' = "insert_ascend" /\ r'.tag = "Split" => IsAt(g, r.right, HeightOf(g, Current))'
    <3>1. HeightOf(g, Current)' = h[Top.id]
      BY <2>1 DEF HeightOf
    <3> QED
      BY <3>1 DEF IsAt
  <2>3. pc' = "remove_ascend" /\ r'.tag = "InnerUnderSize" =>
            Current'.kind = "inner" /\ InnerUnderSize(inners[Current.id])'
    BY <2>1 DEF InnerUnderSize, InnerSize
  <2>4. pc' = "remove_ascend" => r'.tag # "LeafUnderSize"
    OBVIOUS
  <2> QED
    BY <2>2, <2>3, <2>4 DEF ResultOK
<1> QED
  BY <1>4, <1>6, <1>7, <1>8, <1>9 DEF Good

\* The work on the leaf that ends a descent, with its result for the ascent.
LEMMA LeafStepOK ==
  ASSUME NEW h, Good(h), pc \in Descending, pc' \in {"insert_ascend", "remove_ascend"},
         UNCHANGED <<root, rootAug, len, inners, taken, call, node, stack, ret>>,
         StoreOK(leaves', inners, h),
         Grows(Len(leaves), h, Len(leaves'), h),
         cached' \in DOMAIN leaves' \cup {None},
         node.kind = "leaf",
         pc' = "insert_ascend" =>
             /\ r' \in InsertResults
             /\ r'.tag = "Split" => r'.right \in NodesAt(Len(leaves'), h, 0),
         pc' = "remove_ascend" =>
             /\ call.op \in {"remove", "remove_by_augmentation"}
             /\ r' \in RemoveResults /\ r'.tag # "InnerUnderSize"
             /\ r'.tag = "LeafUnderSize" => /\ r'.slot \in DOMAIN leaves'[node.id].data
                                           /\ ~LeafAbleToLend(leaves'[node.id])
  PROVE  Good(h)'
<1>1. /\ StoreOK(leaves, inners, h) /\ IsAt(h, root, HeightOf(h, root)) /\ Scalars
      /\ Path(h) /\ Locals(h)
  BY DEF Good
<1>2. Current = node /\ Current' = node
  BY <1>1 DEF Locals, Current
<1>3. IsAt(h, root, HeightOf(h, root))'
  <2>1. /\ root \in NodesAt(Len(leaves), h, HeightOf(h, root))
        /\ HeightOf(h, root) \in Nat
    BY <1>1, IdKnown DEF IsAt
  <2> QED
    BY <2>1 DEF IsAt, HeightOf, Grows
<1>4. StoreOK(leaves, inners, h)' /\ Path(h)'
  BY <1>1 DEF Path
<1>5. Scalars'
  BY <1>1 DEF Scalars, Results, taken
<1>6. Locals(h)'
  BY <1>1 DEF Locals, Descending
<1>7. ResultOK(h)'
  <2>1. HeightOf(h, Current)' = 0
    BY <1>2 DEF HeightOf
  <2>2. pc' = "insert_ascend" /\ r'.tag = "Split" => IsAt(h, r.right, HeightOf(h, Current))'
    BY <2>1 DEF IsAt
  <2>3. pc' = "remove_ascend" /\ r'.tag = "LeafUnderSize" =>
            /\ Current'.kind = "leaf"
            /\ r'.slot \in DOMAIN leaves'[Current'.id].data
            /\ ~LeafAbleToLend(leaves[Current.id])'
    BY <1>2 DEF LeafAbleToLend, LeafSize
  <2> QED
    BY <2>2, <2>3 DEF ResultOK
<1> QED
  BY <1>3, <1>4, <1>5, <1>6, <1>7 DEF Good

-----------------------------------------------------------------------------
(* insert                                                                  *)

\* The fields of the call that insert_inner works on.
LEMMA InsertCallFields ==
  ASSUME NEW h, Good(h), pc = "insert_inner"
  PROVE  /\ call.k \in Key /\ call.k \in Int /\ call.v \in Value
         /\ <<call.k, call.v>> \in Pair
<1>1. call \in Calls /\ call.op = "insert"
  BY DEF Good, Scalars, Locals
<1>2. call \in [op : {"insert"}, k : Key, v : Value]
  BY <1>1 DEF Calls, NoCall
<1> QED
  BY <1>2, KeyAssumption DEF Pair

\* The leaf that a descent has reached.
LEMMA LeafReached ==
  ASSUME NEW h, Good(h), pc \in Descending \cup {"find_descend"}, node.kind = "leaf"
  PROVE  /\ node.id \in DOMAIN leaves /\ leaves[node.id] \in LeafOver(Pair)
         /\ Len(leaves[node.id].data) <= LEAF_N
         /\ Len(leaves[node.id].data) \in Nat
         /\ leaves[node.id].data \in Seq(Pair)
         /\ DOMAIN leaves[node.id].data = 1 .. Len(leaves[node.id].data)
<1>1. StoreOK(leaves, inners, h) /\ Locals(h)
  BY DEF Good
<1>2. IsAt(h, node, HeightOf(h, node))
  BY <1>1, CurrentAt DEF Locals
<1>3. node.id \in DOMAIN leaves
  BY <1>1, <1>2, IdKnown DEF IsAt
<1>4. leaves[node.id] \in LeafOver(Pair) /\ Len(leaves[node.id].data) <= LEAF_N
  BY <1>1, <1>3, StoreParts DEF StoreOK
<1>5. leaves[node.id].data \in Seq(Pair)
  BY <1>4 DEF LeafOver
<1> QED
  BY <1>3, <1>4, <1>5, LenProperties

\* The inner node that a descent has reached, and the child it goes to.
LEMMA InnerReached ==
  ASSUME NEW h, Good(h), pc \in Descending \cup {"find_descend"}, node.kind = "inner"
  PROVE  /\ node.id \in DOMAIN inners
         /\ IsInner(inners[node.id], Key, NodesAt(Len(leaves), h, h[node.id] - 1))
<1>1. StoreOK(leaves, inners, h) /\ Locals(h)
  BY DEF Good
<1>2. IsAt(h, node, HeightOf(h, node))
  BY <1>1, CurrentAt DEF Locals
<1>3. node.id \in DOMAIN inners
  BY <1>1, <1>2, IdKnown DEF IsAt
<1> QED
  BY <1>1, <1>3 DEF StoreOK

\* The descent of an insertion.
LEMMA InsertDescendOK ==
  ASSUME NEW h, Good(h), InsertDescend
  PROVE  Good(h)'
<1>1. pc = "insert_inner" /\ pc \in Descending /\ node.kind = "inner"
  BY DEF InsertDescend, AtInner, Descending
<1>2. LocateChild(inners[node.id], call.k) \in DOMAIN inners[node.id].child
  BY <1>1, InnerReached, LocateChildType
<1>3. /\ Push(LocateChild(inners[node.id], call.k))
      /\ UNCHANGED <<tree, pc, r, ret>> /\ call' = call
  BY DEF InsertDescend
<1>4. call' \in Calls /\ call'.op = call.op
  BY <1>3 DEF Good, Scalars
<1> QED
  BY <1>1, <1>2, <1>3, <1>4, DescendOK

\* insert_leaf overwrites the value of a key that is there.
LEMMA InsertLeafUpdateOK ==
  ASSUME NEW h, Good(h), InsertLeafUpdate
  PROVE  Good(h)'
<1> DEFINE leaf == leaves[node.id]
           slot == LocateSlot(leaf, call.k)
           new  == SetValue(leaf, slot, call.v)
<1>1. pc = "insert_inner" /\ pc \in Descending /\ node.kind = "leaf"
  BY DEF InsertLeafUpdate, AtLeaf, Descending
<1>2. /\ HasKey(leaf, call.k)
      /\ leaves' = [leaves EXCEPT ![node.id] = new]
      /\ r' = Updated(leaf.data[slot][2])
      /\ pc' = "insert_ascend"
      /\ UNCHANGED <<root, rootAug, len, inners, taken, cached, call, node, stack, ret>>
  BY DEF InsertLeafUpdate
<1>3. /\ node.id \in DOMAIN leaves /\ leaf \in LeafOver(Pair)
      /\ Len(leaf.data) <= LEAF_N /\ leaf.data \in Seq(Pair)
  BY <1>1, LeafReached
<1>4. call.k \in Int /\ call.v \in Value
  BY <1>1, InsertCallFields
<1>5. slot \in 1 .. Len(leaf.data)
  BY <1>2, <1>3, <1>4, LocateSlotType
<1>6. new \in LeafOver(Pair) /\ Len(new.data) <= LEAF_N
  <2> HIDE DEF leaf, slot
  <2>1. <<leaf.data[slot][1], call.v>> \in Pair
    <3>1. leaf.data[slot] \in Pair
      BY <1>3, <1>5, ElementOfSeq
    <3> QED
      BY <1>4, <3>1 DEF Pair
  <2>2. new \in LeafOver(Pair) /\ Len(new.data) = Len(leaf.data)
    BY <1>3, <1>5, <2>1, SetValueType
  <2> QED
    BY <1>3, <2>2
<1>7. leaf.data[slot][2] \in Value
  <2>1. leaf.data[slot] \in Pair
    BY <1>3, <1>5, ElementOfSeq
  <2> QED
    BY <2>1 DEF Pair
<1> HIDE DEF leaf, slot, new
<1>8. /\ StoreOK(leaves', inners, h) /\ Len(leaves') = Len(leaves)
      /\ Grows(Len(leaves), h, Len(leaves'), h)
  <2>1. StoreOK(leaves, inners, h)
    BY DEF Good
  <2> QED
    BY GrowsNot, <1>2, <1>3, <1>6, <2>1, SetLeafOK
<1>9. cached' \in DOMAIN leaves' \cup {None}
  BY <1>2, <1>8, StoreParts DEF Good, Scalars
<1>10. r' \in InsertResults /\ r'.tag # "Split"
  BY <1>2, <1>7 DEF InsertResults, Updated
<1> QED
  BY <1>1, <1>2, <1>8, <1>9, <1>10, LeafStepOK

\* insert_leaf adds an entry to a leaf that has room.
LEMMA InsertLeafInsertOK ==
  ASSUME NEW h, Good(h), InsertLeafInsert
  PROVE  Good(h)'
<1> DEFINE leaf == leaves[node.id]
           slot == LocateSlot(leaf, call.k)
           new  == InsertInLeaf(leaf, slot, <<call.k, call.v>>)
<1>1. pc = "insert_inner" /\ pc \in Descending /\ node.kind = "leaf"
  BY DEF InsertLeafInsert, AtLeaf, Descending
<1>2. /\ ~LeafIsFull(leaf)
      /\ leaves' = [leaves EXCEPT ![node.id] = new]
      /\ cached' = node.id /\ r' = Inserted
      /\ pc' = "insert_ascend"
      /\ UNCHANGED <<root, rootAug, len, inners, taken, call, node, stack, ret>>
  BY DEF InsertLeafInsert
<1>3. /\ node.id \in DOMAIN leaves /\ leaf \in LeafOver(Pair)
      /\ Len(leaf.data) <= LEAF_N /\ Len(leaf.data) \in Nat
  BY <1>1, LeafReached
<1>4. call.k \in Int /\ <<call.k, call.v>> \in Pair
  BY <1>1, InsertCallFields
<1>5. slot \in 1 .. Len(leaf.data) + 1
  BY <1>3, <1>4, LocateSlotType
<1>6. new \in LeafOver(Pair) /\ Len(new.data) = Len(leaf.data) + 1
  BY <1>3, <1>4, <1>5, InsertInLeafType
<1> HIDE DEF leaf, slot, new
<1>7. Len(new.data) <= LEAF_N
  BY <1>2, <1>3, <1>6, LeafAssumption DEF LeafIsFull, LeafSize
<1>8. /\ StoreOK(leaves', inners, h) /\ Len(leaves') = Len(leaves)
      /\ Grows(Len(leaves), h, Len(leaves'), h)
  <2>1. StoreOK(leaves, inners, h)
    BY DEF Good
  <2> QED
    BY ZenonT(60), GrowsNot, <1>2, <1>3, <1>6, <1>7, <2>1, SetLeafOK
<1>9. cached' \in DOMAIN leaves' \cup {None}
  <2>1. DOMAIN leaves = 1 .. Len(leaves) /\ DOMAIN leaves' = 1 .. Len(leaves')
    BY <1>8, StoreParts DEF Good
  <2> QED
    BY <1>2, <1>3, <1>8, <2>1
<1>10. r' \in InsertResults /\ r'.tag # "Split"
  BY <1>2 DEF InsertResults, Inserted
<1> QED
  BY <1>1, <1>2, <1>8, <1>9, <1>10, LeafStepOK

\* insert_leaf splits a full leaf, and links the new one into the chain.
LEMMA InsertLeafSplitOK ==
  ASSUME NEW h, Good(h), InsertLeafSplit
  PROVE  Good(h)'
<1> DEFINE leaf  == leaves[node.id]
           slot  == LocateSlot(leaf, call.k)
           newId == Len(leaves) + 1
           s     == SplitNewLeaf(leaf, slot, <<call.k, call.v>>, newId, node.id)
           L1    == [leaves EXCEPT ![node.id] = s.left]
           L2    == Append(L1, s.right)
<1>1. pc = "insert_inner" /\ pc \in Descending /\ node.kind = "leaf"
  BY DEF InsertLeafSplit, AtLeaf, Descending
<1>2. /\ LeafIsFull(leaf)
      /\ leaves' = FixPrev(L2, s.right.next, newId)
      /\ cached' = IF slot > LEAF_N \div 2 THEN newId ELSE node.id
      /\ r' = Split(s.right.data[1][1], Leaf(newId))
      /\ pc' = "insert_ascend"
      /\ UNCHANGED <<root, rootAug, len, inners, taken, call, node, stack, ret>>
  BY DEF InsertLeafSplit
<1>3. /\ node.id \in DOMAIN leaves /\ leaf \in LeafOver(Pair)
      /\ Len(leaf.data) = LEAF_N
  BY <1>1, <1>2, LeafReached DEF LeafIsFull, LeafSize
<1>4. call.k \in Int /\ <<call.k, call.v>> \in Pair
  BY <1>1, InsertCallFields
<1>5. slot \in 1 .. LEAF_N + 1
  <2>1. slot \in 1 .. Len(leaf.data) + 1
    BY <1>3, <1>4, LocateSlotType
  <2> QED
    BY <1>3, <2>1
<1>6. StoreOK(leaves, inners, h)
  BY DEF Good
<1>7. Len(leaves) \in Nat /\ DOMAIN leaves = 1 .. Len(leaves) /\ node.id \in Nat
  BY <1>3, <1>6, StoreParts
<1>8. /\ s.left \in LeafOver(Pair) /\ Len(s.left.data) <= LEAF_N
      /\ s.right \in LeafOver(Pair) /\ Len(s.right.data) \in 1 .. LEAF_N
  <2> HIDE DEF leaf, slot
  <2>1. newId \in Nat
    BY <1>7
  <2> QED
    BY <1>3, <1>4, <1>5, <1>7, <2>1, SplitNewLeafType
<1>9. s.right.data[1][1] \in Key
  <2> HIDE DEF s
  <2>1. s.right.data \in Seq(Pair) /\ 1 \in 1 .. Len(s.right.data)
    BY <1>8 DEF LeafOver
  <2>2. s.right.data[1] \in Pair
    BY <2>1, ElementOfSeq
  <2> QED
    BY <2>2 DEF Pair
<1> HIDE DEF leaf, slot, s
<1>10. StoreOK(L1, inners, h) /\ Len(L1) = Len(leaves)
  BY <1>3, <1>6, <1>8, SetLeafOK
<1>11. /\ StoreOK(L2, inners, h) /\ Len(L2) = Len(leaves) + 1
       /\ Grows(Len(leaves), h, Len(leaves) + 1, h)
  <2> HIDE DEF L1
  <2>1. Len(s.right.data) <= LEAF_N
    BY <1>8, LeafAssumption
  <2> QED
    BY <1>8, <1>10, <2>1, AddLeafOK
<1>12. StoreOK(leaves', inners, h) /\ Len(leaves') = Len(leaves) + 1
  <2> HIDE DEF L2
  <2>1. newId \in Nat
    BY <1>7
  <2> HIDE DEF newId
  <2>2. StoreOK(leaves', inners, h) /\ Len(leaves') = Len(L2)
    BY <1>2, <1>11, <2>1, FixPrevOK
  <2> QED
    BY <1>11, <2>2
<1>13. cached' \in DOMAIN leaves' \cup {None}
  <2>1. DOMAIN leaves' = 1 .. Len(leaves')
    BY <1>12, StoreParts
  <2>2. cached' \in {newId, node.id}
    BY <1>2
  <2> QED
    BY <1>3, <1>7, <1>12, <2>1, <2>2
<1>14. /\ r' \in InsertResults
       /\ r'.right \in NodesAt(Len(leaves'), h, 0)
  <2>1. Leaf(newId) \in NodeId
    BY <1>7 DEF Leaf, NodeId
  <2>2. r' \in InsertResults /\ r'.right = Leaf(newId)
    BY <1>2, <1>9, <2>1 DEF InsertResults, Split
  <2>3. Leaf(newId) \in NodesAt(Len(leaves'), h, 0)
    BY <1>7, <1>12 DEF NodesAt
  <2> QED
    BY <2>2, <2>3
<1> QED
  BY <1>1, <1>2, <1>11, <1>12, <1>13, <1>14, LeafStepOK

-----------------------------------------------------------------------------
(* The ascent of insert_inner                                              *)

\* What a split passes up: a separator, and a node beside the one it is about.
LEMMA SplitFields ==
  ASSUME NEW h, Good(h), pc = "insert_ascend", r.tag = "Split"
  PROVE  /\ r.k \in Key /\ AugOf(r.right) \in Nat
         /\ r.right \in NodesAt(Len(leaves), h, HeightOf(h, Current))
<1>1. r \in InsertResults /\ IsAt(h, r.right, HeightOf(h, Current))
  BY DEF Good, Locals, ResultOK
<1>2. r \in [tag : {"Split"}, k : Key, right : NodeId]
  BY <1>1 DEF InsertResults, Inserted
<1>3. HeightOf(h, Current) \in Nat
  BY CurrentAt, IdKnown DEF Good, IsAt
<1>4. AugOf(r.right) \in Nat
  BY <1>1, <1>3, AugOfType DEF Good
<1> QED
  BY <1>1, <1>2, <1>4 DEF IsAt

\* The parent with one augmentation brought up to date.
LEMMA RefreshedOK ==
  ASSUME NEW h, Good(h), stack # <<>>
  PROVE  /\ IsInner(Refreshed, Key, NodesAt(Len(leaves), h, h[Top.id] - 1))
         /\ Refreshed.keys = Parent.keys /\ Refreshed.child = Parent.child
<1>1. /\ IsInner(Parent, Key, NodesAt(Len(leaves), h, h[Top.id] - 1))
      /\ Top.idx \in DOMAIN Parent.child
      /\ AugOf(Top.child) \in Nat
  BY TopFacts
<1> QED
  BY <1>1, SetAugmentationType DEF Refreshed

\* A step of the ascent that writes n to the parent and nothing else.
LEMMA WriteParentOK ==
  ASSUME NEW h, Good(h), stack # <<>>, PopStack,
         pc \in {"insert_ascend", "remove_ascend"},
         NEW n, IsInner(n, Key, NodesAt(Len(leaves), h, h[Top.id] - 1)),
         Len(n.keys) <= INNER_N, inners' = [inners EXCEPT ![Top.id] = n],
         UNCHANGED <<root, rootAug, len, leaves, taken, cached, pc, call, node, ret>>,
         pc = "insert_ascend" => r' \in InsertResults /\ r'.tag # "Split",
         pc = "remove_ascend" =>
             r' \in RemoveResults /\ r'.tag \notin {"LeafUnderSize", "InnerUnderSize"}
  PROVE  Good(h)'
<1>1. StoreOK(leaves, inners, h) /\ Scalars
  BY DEF Good
<1>2. Top.id \in DOMAIN inners
  BY TopFacts
<1>3. StoreOK(leaves', inners', h) /\ SameAbove(inners, h, inners', h, h[Top.id])
  BY <1>1, <1>2, WriteOne
<1>4. /\ takenLeaves' \subseteq Nat /\ takenInners' \subseteq Nat
      /\ cached' \in DOMAIN leaves' \cup {None}
  BY <1>1 DEF Scalars, taken
<1>5. Grows(Len(leaves), h, Len(leaves'), h)
  BY GrowsNot
<1> QED
  BY <1>3, <1>4, <1>5, AscendOK

\* A split child, and room in the parent.
LEMMA InsertAscendSlotOK ==
  ASSUME NEW h, Good(h), InsertAscendSlot
  PROVE  Good(h)'
<1> DEFINE n == InsertSlot(Refreshed, Top.idx, r.k, r.right, AugOf(r.right))
<1>1. /\ pc = "insert_ascend" /\ stack # <<>> /\ r.tag = "Split" /\ PopStack
      /\ ~InnerIsFull(Parent) /\ inners' = [inners EXCEPT ![Top.id] = n]
      /\ r' = Inserted
      /\ UNCHANGED <<root, rootAug, len, leaves, taken, cached, pc, call, node, ret>>
  BY DEF InsertAscendSlot, Ascending
<1>2. /\ r.k \in Key /\ AugOf(r.right) \in Nat
      /\ r.right \in NodesAt(Len(leaves), h, h[Top.id] - 1)
  BY <1>1, SplitFields, TopFacts
<1>3. /\ IsInner(Refreshed, Key, NodesAt(Len(leaves), h, h[Top.id] - 1))
      /\ Refreshed.keys = Parent.keys /\ Top.idx \in DOMAIN Refreshed.child
  BY <1>1, RefreshedOK, TopFacts
<1>4. /\ IsInner(n, Key, NodesAt(Len(leaves), h, h[Top.id] - 1))
      /\ Len(n.keys) = Len(Refreshed.keys) + 1
  BY <1>2, <1>3, InsertSlotType
<1> HIDE DEF n
<1>5. Len(n.keys) <= INNER_N
  <2>1. Len(Parent.keys) <= INNER_N /\ Len(Parent.keys) \in Nat
    BY <1>1, TopFacts
  <2> QED
    BY <1>1, <1>3, <1>4, <2>1, InnerAssumption DEF InnerIsFull, InnerSize
<1>6. r' \in InsertResults /\ r'.tag # "Split"
  BY <1>1 DEF InsertResults, Inserted
<1> QED
  BY <1>1, <1>4, <1>5, <1>6, WriteParentOK

\* The child was not split.
LEMMA InsertAscendInsertedOK ==
  ASSUME NEW h, Good(h), InsertAscendInserted
  PROVE  Good(h)'
<1>1. /\ pc = "insert_ascend" /\ stack # <<>> /\ r.tag = "Inserted" /\ PopStack
      /\ inners' = [inners EXCEPT ![Top.id] = Refreshed] /\ r' = r
      /\ UNCHANGED <<root, rootAug, len, leaves, taken, cached, pc, call, node, ret>>
  BY DEF InsertAscendInserted, Ascending
<1>2. /\ IsInner(Refreshed, Key, NodesAt(Len(leaves), h, h[Top.id] - 1))
      /\ Len(Refreshed.keys) <= INNER_N
  BY <1>1, RefreshedOK, TopFacts
<1>3. r' \in InsertResults /\ r'.tag # "Split"
  BY <1>1 DEF Good, Locals
<1> QED
  BY <1>1, <1>2, <1>3, WriteParentOK

\* A value was replaced: nothing changes on the way up.
LEMMA InsertAscendUpdatedOK ==
  ASSUME NEW h, Good(h), InsertAscendUpdated
  PROVE  Good(h)'
<1>1. /\ pc = "insert_ascend" /\ stack # <<>> /\ r.tag = "Updated" /\ PopStack
      /\ UNCHANGED <<root, rootAug, len, leaves, inners, takenLeaves, takenInners, cached>>
      /\ UNCHANGED <<pc, call, node, r, ret>>
  BY DEF InsertAscendUpdated, Ascending, tree, store, taken
<1>2. StoreOK(leaves', inners', h) /\ SameAbove(inners, h, inners', h, h[Top.id])
  BY <1>1 DEF Good, SameAbove
<1>3. /\ takenLeaves' \subseteq Nat /\ takenInners' \subseteq Nat
      /\ cached' \in DOMAIN leaves' \cup {None}
  BY <1>1 DEF Good, Scalars
<1>4. r' \in InsertResults /\ r'.tag # "Split"
  BY <1>1 DEF Good, Locals
<1>5. Grows(Len(leaves), h, Len(leaves'), h)
  BY <1>1, GrowsNot
<1> QED
  BY <1>1, <1>2, <1>3, <1>4, <1>5, AscendOK

\* A split child and a full parent: the new half of the parent is as high as it.
LEMMA InsertAscendSplitOK ==
  ASSUME NEW h, Good(h), InsertAscendSplit
  PROVE  \E g : Good(g)'
<1> DEFINE s == SplitInner(Refreshed, Top.idx, r.k, r.right, AugOf(r.right))
           I1 == [inners EXCEPT ![Top.id] = s.left]
           d == h[Top.id]
<1>1. /\ pc = "insert_ascend" /\ stack # <<>> /\ r.tag = "Split" /\ PopStack
      /\ InnerIsFull(Parent) /\ inners' = Append(I1, s.right)
      /\ r' = Split(s.key, Inner(Len(inners) + 1))
      /\ UNCHANGED <<root, rootAug, len, leaves, taken, cached, pc, call, node, ret>>
  BY DEF InsertAscendSplit, Ascending
<1>2. /\ r.k \in Key /\ AugOf(r.right) \in Nat
      /\ r.right \in NodesAt(Len(leaves), h, h[Top.id] - 1)
  BY <1>1, SplitFields, TopFacts
<1>3. /\ IsInner(Refreshed, Key, NodesAt(Len(leaves), h, h[Top.id] - 1))
      /\ Len(Refreshed.keys) = INNER_N /\ Top.idx \in DOMAIN Refreshed.child
  BY <1>1, RefreshedOK, TopFacts DEF InnerIsFull, InnerSize
<1>4. /\ s.key \in Key
      /\ IsInner(s.left, Key, NodesAt(Len(leaves), h, h[Top.id] - 1))
      /\ Len(s.left.keys) <= INNER_N
      /\ IsInner(s.right, Key, NodesAt(Len(leaves), h, h[Top.id] - 1))
      /\ Len(s.right.keys) <= INNER_N
  BY <1>2, <1>3, SplitInnerType
<1> HIDE DEF s
<1>5. StoreOK(leaves, inners, h) /\ Top.id \in DOMAIN inners
  BY <1>1, TopFacts DEF Good
<1>6. /\ StoreOK(leaves, I1, h) /\ DOMAIN I1 = DOMAIN inners
      /\ SameAbove(inners, h, I1, h, h[Top.id])
  BY <1>4, <1>5, WriteOne
<1>7. Len(I1) = Len(inners) /\ Len(inners) \in Nat /\ DOMAIN inners = 1 .. Len(inners)
  <2>1. /\ Len(inners) \in Nat /\ DOMAIN inners = 1 .. Len(inners)
        /\ Len(I1) \in Nat /\ DOMAIN I1 = 1 .. Len(I1)
    BY <1>5, <1>6, StoreParts
  <2> HIDE DEF I1
  <2> QED
    BY <1>6, <2>1
<1>8. d \in 1 .. Len(I1) + 1
  BY <1>5, <1>7, StoreParts
<1> HIDE DEF I1
<1>g. PICK g : g = Raised(h, Len(inners), d)
  OBVIOUS
<1>9. /\ StoreOK(leaves, inners', g)
      /\ DOMAIN inners' = 1 .. Len(I1) + 1
      /\ \A i \in DOMAIN I1 : inners'[i] = I1[i] /\ g[i] = h[i]
      /\ Grows(Len(leaves), h, Len(leaves), g)
      /\ Inner(Len(I1) + 1) \in NodesAt(Len(leaves), g, d)
  <2> HIDE DEF d
  <2>1. IsInner(s.right, Key, NodesAt(Len(leaves), h, d - 1))
    BY <1>4 DEF d
  <2>2. inners' = Append(I1, s.right) /\ g = Raised(h, Len(I1), d)
    BY <1>1, <1>7, <1>g
  <2> QED
    BY <1>4, <1>6, <1>8, <2>1, <2>2, AddInnerOK
<1>10. SameAbove(inners, h, inners', g, h[Top.id])
  BY <1>6, <1>7, <1>9 DEF SameAbove
<1>11. /\ takenLeaves' \subseteq Nat /\ takenInners' \subseteq Nat
       /\ cached' \in DOMAIN leaves' \cup {None}
  BY <1>1 DEF Good, Scalars, taken
<1>12. r' \in InsertResults /\ r'.right \in NodesAt(Len(leaves'), g, h[Top.id])
  <2>1. Inner(Len(inners) + 1) \in NodeId
    BY <1>7 DEF Inner, NodeId
  <2> QED
    BY <1>1, <1>4, <1>7, <1>9, <2>1 DEF InsertResults, Split
<1>13. Good(g)'
  <2>1. pc = "insert_ascend" =>
            /\ r' \in InsertResults
            /\ r'.tag = "Split" => r'.right \in NodesAt(Len(leaves'), g, h[Top.id])
    BY <1>12
  <2>2. pc = "remove_ascend" =>
            /\ r' \in RemoveResults /\ r'.tag # "LeafUnderSize"
            /\ r'.tag = "InnerUnderSize" => InnerUnderSize(inners'[Top.id])
    BY <1>1
  <2>3. pc \in {"insert_ascend", "remove_ascend"}
    BY <1>1
  <2>4. UNCHANGED <<root, rootAug, len, pc, call, node, ret>>
    BY <1>1
  <2>5. StoreOK(leaves', inners', g) /\ Grows(Len(leaves), h, Len(leaves'), g)
    BY <1>1, <1>9
  <2> QED
    BY <1>1, <1>10, <1>11, <2>1, <2>2, <2>3, <2>4, <2>5, AscendOK, Zenon
<1> QED
  BY <1>13

-----------------------------------------------------------------------------
(* The return of insert                                                    *)

\* With an empty stack the result is about the root.
LEMMA RootIsCurrent ==
  ASSUME NEW h, Good(h), stack = <<>>
  PROVE  /\ Current = root /\ AugOf(root) \in Nat /\ HeightOf(h, root) \in Nat
         /\ root \in NodesAt(Len(leaves), h, HeightOf(h, root))
<1>1. StoreOK(leaves, inners, h) /\ IsAt(h, root, HeightOf(h, root))
  BY DEF Good
<1>2. HeightOf(h, root) \in Nat
  BY <1>1, IdKnown DEF IsAt
<1>3. AugOf(root) \in Nat
  BY <1>1, <1>2, AugOfType
<1> QED
  BY <1>1, <1>2, <1>3 DEF Current, EndOf, IsAt

\* The key was added under the old root.
LEMMA InsertReturnInsertedOK ==
  ASSUME NEW h, Good(h), InsertReturnInserted
  PROVE  Good(h)'
<1>1. /\ stack = <<>> /\ rootAug' = AugOf(root) /\ len' = len + 1 /\ Return(None)
      /\ UNCHANGED <<root, leaves, inners, takenLeaves, takenInners, cached>>
  BY DEF InsertReturnInserted, AtRoot, store, taken
<1>2. StoreOK(leaves, inners, h) /\ Scalars
  BY DEF Good
<1>3. /\ StoreOK(leaves', inners', h)
      /\ root' \in NodesAt(Len(leaves'), h, HeightOf(h, root'))
      /\ rootAug' \in Nat
  BY <1>1, <1>2, RootIsCurrent
<1>4. /\ len' \in Int /\ takenLeaves' \subseteq Nat /\ takenInners' \subseteq Nat
      /\ cached' \in DOMAIN leaves' \cup {None}
  BY <1>1, <1>2 DEF Scalars
<1>5. None \in Value \cup Pair \cup {None}
  OBVIOUS
<1> QED
  BY <1>1, <1>3, <1>4, <1>5, ReturnOK

\* The value was replaced: insert returns the old one.
LEMMA InsertReturnUpdatedOK ==
  ASSUME NEW h, Good(h), InsertReturnUpdated
  PROVE  Good(h)'
<1>1. pc = "insert_ascend" /\ r.tag = "Updated" /\ Return(r.v) /\ UNCHANGED tree
  BY DEF InsertReturnUpdated, AtRoot
<1>2. r \in InsertResults
  BY <1>1 DEF Good, Locals
<1>3. r.v \in Value \cup Pair \cup {None}
  BY <1>1, <1>2 DEF InsertResults, Inserted
<1> QED
  BY <1>1, <1>3, ReturnOnlyOK

\* The root was split: the new root is one higher than the two halves.
LEMMA InsertReturnSplitOK ==
  ASSUME NEW h, Good(h), InsertReturnSplit
  PROVE  \E g : Good(g)'
<1> DEFINE ks == <<r.k>>
           cs == <<root, r.right>>
           as == <<AugOf(root), AugOf(r.right)>>
           n  == [keys |-> ks, child |-> cs, aug |-> as]
           b  == HeightOf(h, root)
           d  == b + 1
<1>1. /\ pc = "insert_ascend" /\ stack = <<>> /\ r.tag = "Split"
      /\ inners' = Append(inners, n) /\ rootAug' = FromInner(as)
      /\ root' = Inner(Len(inners) + 1) /\ len' = len + 1 /\ Return(None)
      /\ UNCHANGED <<leaves, takenLeaves, takenInners, cached>>
  BY DEF InsertReturnSplit, AtRoot, taken
<1>2. StoreOK(leaves, inners, h) /\ Scalars
  BY DEF Good
<1>3. /\ r.k \in Key /\ AugOf(r.right) \in Nat /\ AugOf(root) \in Nat /\ b \in Nat
      /\ r.right \in NodesAt(Len(leaves), h, b)
      /\ root \in NodesAt(Len(leaves), h, b)
  BY <1>1, SplitFields, RootIsCurrent
<1>4. IsInner(n, Key, NodesAt(Len(leaves), h, b)) /\ n.keys = ks
  <2> HIDE DEF b
  <2>1. ks \in Seq(Key) /\ Len(ks) = 1
    BY <1>3
  <2>2. cs \in Seq(NodesAt(Len(leaves), h, b)) /\ Len(cs) = 2
    BY <1>3
  <2>3. as \in Seq(Nat) /\ Len(as) = 2
    BY <1>3
  <2> HIDE DEF ks, cs, as
  <2>4. Len(cs) = Len(ks) + 1 /\ Len(as) = Len(ks) + 1
    BY <2>1, <2>2, <2>3
  <2> QED
    BY <2>1, <2>2, <2>3, <2>4, InnerFrom
<1>5. Len(n.keys) <= INNER_N
  <2>1. Len(n.keys) = 1
    BY <1>4
  <2> HIDE DEF n
  <2> QED
    BY <2>1, InnerAssumption
<1>6. rootAug' \in Nat
  <2>1. as \in Seq(Nat)
    BY <1>3
  <2> HIDE DEF as
  <2> QED
    BY <1>1, <2>1, TotalType DEF FromInner
<1>7. Len(inners) \in Nat /\ d \in 1 .. Len(inners) + 1 /\ d - 1 = b
  <2>1. /\ Len(inners) \in Nat /\ DOMAIN inners = 1 .. Len(inners)
        /\ h \in [1 .. Len(inners) -> 1 .. Len(inners)]
    BY <1>2, StoreParts
  <2>2. b = 0 \/ b \in 1 .. Len(inners)
    <3>1. \/ root.kind = "leaf" /\ b = 0
          \/ root.kind = "inner" /\ root.id \in DOMAIN inners /\ b = h[root.id]
      BY <1>2, <1>3, IdKnown DEF NodeId
    <3> HIDE DEF b
    <3> QED
      BY <2>1, <3>1
  <2> HIDE DEF b
  <2> QED
    BY <1>3, <2>1, <2>2
<1> HIDE DEF n, b, d
<1>g. PICK g : g = Raised(h, Len(inners), d)
  OBVIOUS
<1>8. /\ StoreOK(leaves, inners', g)
      /\ Inner(Len(inners) + 1) \in NodesAt(Len(leaves), g, d)
      /\ g[Len(inners) + 1] = d
  <2>1. IsInner(n, Key, NodesAt(Len(leaves), h, d - 1))
    BY <1>4, <1>7
  <2> QED
    BY <1>1, <1>2, <1>5, <1>7, <1>g, <2>1, AddInnerOK
<1>9. /\ StoreOK(leaves', inners', g)
      /\ root' \in NodesAt(Len(leaves'), g, HeightOf(g, root'))
  BY <1>1, <1>8 DEF HeightOf, Inner
<1>10. /\ len' \in Int /\ takenLeaves' \subseteq Nat /\ takenInners' \subseteq Nat
       /\ cached' \in DOMAIN leaves' \cup {None}
  BY <1>1, <1>2 DEF Scalars
<1>11. None \in Value \cup Pair \cup {None}
  OBVIOUS
<1>12. Good(g)'
  BY <1>1, <1>6, <1>9, <1>10, <1>11, ReturnOK
<1> QED
  BY <1>12

-----------------------------------------------------------------------------
(* remove, remove_by_augmentation and get_mut_by_augmentation: the path to *)
(* the entry                                                               *)

\* The descent of remove.
LEMMA KeyToRefDescendOK ==
  ASSUME NEW h, Good(h), KeyToRefDescend
  PROVE  Good(h)'
<1>1. pc = "key_to_ref" /\ pc \in Descending /\ node.kind = "inner"
  BY DEF KeyToRefDescend, AtInner, Descending
<1>2. LocateChild(inners[node.id], call.k) \in DOMAIN inners[node.id].child
  BY <1>1, InnerReached, LocateChildType
<1>3. /\ Push(LocateChild(inners[node.id], call.k))
      /\ UNCHANGED <<tree, pc, r, ret>> /\ call' = call
  BY DEF KeyToRefDescend
<1>4. call' \in Calls /\ call'.op = call.op
  BY <1>3 DEF Good, Scalars
<1> QED
  BY <1>1, <1>2, <1>3, <1>4, DescendOK

\* The fields of a call of remove, and of those that search by augmentation.
LEMMA RemoveCallFields ==
  ASSUME NEW h, Good(h)
  PROVE  /\ pc = "key_to_ref" => call.k \in Key /\ call.k \in Int
         /\ pc = "get_ref_by_augmentation" =>
                \/ call \in [op : {"remove_by_augmentation"}, i : Nat, query : Nat]
                \/ call \in [op : {"get_mut_by_augmentation"}, i : Nat, query : Nat,
                             v : Value]
<1>1. /\ call \in Calls
      /\ pc = "key_to_ref" => call.op = "remove"
      /\ pc = "get_ref_by_augmentation" =>
             call.op \in {"remove_by_augmentation", "get_mut_by_augmentation"}
  BY DEF Good, Scalars, Locals
<1>2. call.op = "remove" => call \in [op : {"remove"}, k : Key]
  BY <1>1 DEF Calls, NoCall
<1>3. call.op = "remove_by_augmentation" =>
          call \in [op : {"remove_by_augmentation"}, i : Nat, query : Nat]
  BY <1>1 DEF Calls, NoCall
<1>4. call.op = "get_mut_by_augmentation" =>
          call \in [op : {"get_mut_by_augmentation"}, i : Nat, query : Nat, v : Value]
  BY <1>1 DEF Calls, NoCall
<1> QED
  BY <1>1, <1>2, <1>3, <1>4, KeyAssumption

\* The descent of a search by augmentation, which keeps the rest of the query.
LEMMA AugmentationDescendOK ==
  ASSUME NEW h, Good(h), AugmentationDescend
  PROVE  Good(h)'
<1> DEFINE at == LocateInInner(call.query, inners[node.id].aug)
<1>1. /\ pc = "get_ref_by_augmentation" /\ pc \in Descending /\ node.kind = "inner"
      /\ at.child # 0 /\ Push(at.child)
      /\ call' = [call EXCEPT !.query = at.query]
      /\ UNCHANGED <<tree, pc, r, ret>>
  BY DEF AugmentationDescend, AtInner, Descending
<1>2. \/ call \in [op : {"remove_by_augmentation"}, i : Nat, query : Nat]
      \/ call \in [op : {"get_mut_by_augmentation"}, i : Nat, query : Nat, v : Value]
  BY <1>1, RemoveCallFields
<1>3. IsInner(inners[node.id], Key, NodesAt(Len(leaves), h, h[node.id] - 1))
  BY <1>1, InnerReached
<1>4. /\ inners[node.id].aug \in Seq(Nat)
      /\ DOMAIN inners[node.id].aug = DOMAIN inners[node.id].child
  BY <1>3, InnerParts
<1>5. at.child \in DOMAIN inners[node.id].child /\ at.query \in Nat
  BY <1>1, <1>2, <1>4, LocateInInnerType
<1>6. call' \in Calls /\ call'.op = call.op
  <2> HIDE DEF at
  <2> QED
    BY <1>1, <1>2, <1>5 DEF Calls
<1> HIDE DEF at
<1> QED
  BY <1>1, <1>5, <1>6, DescendOK

\* The key, or the index, is not there.
LEMMA RemoveMissingOK ==
  ASSUME NEW h, Good(h), KeyToRefMissing \/ AugmentationMissing
  PROVE  Good(h)'
<1>1. Return(None) /\ UNCHANGED tree
  BY DEF KeyToRefMissing, AugmentationMissing
<1>2. None \in Value \cup Pair \cup {None}
  OBVIOUS
<1> QED
  BY <1>1, <1>2, ReturnOnlyOK

\* try_delete_at: the entry goes, or the slot is left for the parent to delete.
LEMMA DeleteInLeafOK ==
  ASSUME NEW h, Good(h), pc \in {"key_to_ref", "get_ref_by_augmentation"},
         call.op \in {"remove", "remove_by_augmentation"},
         node.kind = "leaf", NEW slot \in 1 .. Len(leaves[node.id].data),
         DeleteInLeaf(slot), pc' = "remove_ascend",
         UNCHANGED <<root, rootAug, len, inners, taken, cached, call, node, stack, ret>>
  PROVE  Good(h)'
<1> DEFINE leaf == leaves[node.id]
           new  == DeleteAt(leaf, slot)
<1>1. /\ node.id \in DOMAIN leaves /\ leaf \in LeafOver(Pair)
      /\ Len(leaf.data) <= LEAF_N /\ Len(leaf.data) \in Nat
      /\ leaf.data \in Seq(Pair) /\ DOMAIN leaf.data = 1 .. Len(leaf.data)
  BY LeafReached DEF Descending
<1>2. new \in LeafOver(Pair) /\ Len(new.data) <= LEAF_N
  <2> HIDE DEF leaf
  <2>1. new \in LeafOver(Pair) /\ Len(new.data) = Len(leaf.data) - 1
    BY <1>1, DeleteAtType DEF leaf
  <2> HIDE DEF new
  <2> QED
    BY <1>1, <2>1, LeafAssumption
<1>3. StoreOK(leaves, inners, h) /\ cached \in DOMAIN leaves \cup {None}
      /\ call.op \in {"remove", "remove_by_augmentation"}
  BY DEF Good, Scalars, Locals
<1>4. CASE LeafAbleToLend(leaf)
  <2>1. leaves' = [leaves EXCEPT ![node.id] = new] /\ r' = Done(leaf.data[slot])
    BY <1>4 DEF DeleteInLeaf
  <2>2. leaf.data[slot] \in Pair
    BY <1>1, ElementOfSeq
  <2>3. r' \in RemoveResults /\ r'.tag = "Done"
    <3> HIDE DEF leaf
    <3> QED
      BY <2>1, <2>2 DEF RemoveResults, Done
  <2> HIDE DEF new
  <2>4. /\ StoreOK(leaves', inners, h) /\ Len(leaves') = Len(leaves)
        /\ Grows(Len(leaves), h, Len(leaves'), h)
    BY <1>1, <1>2, <1>3, <2>1, SetLeafOK, GrowsNot
  <2>5. cached' \in DOMAIN leaves' \cup {None}
    BY <1>3, <2>1
  <2>6. pc' = "remove_ascend" =>
            /\ call.op \in {"remove", "remove_by_augmentation"}
            /\ r' \in RemoveResults /\ r'.tag # "InnerUnderSize"
            /\ r'.tag = "LeafUnderSize" => /\ r'.slot \in DOMAIN leaves'[node.id].data
                                          /\ ~LeafAbleToLend(leaves'[node.id])
    BY <1>3, <2>3
  <2> QED
    BY <2>4, <2>5, <2>6, LeafStepOK DEF Descending
<1>5. CASE ~LeafAbleToLend(leaf)
  <2>1. leaves' = leaves /\ r' = LeafUnderSized(slot)
    BY <1>5 DEF DeleteInLeaf
  <2>2. slot \in Nat
    BY <1>1
  <2>3. r' \in RemoveResults /\ r'.tag = "LeafUnderSize" /\ r'.slot = slot
    BY <2>1, <2>2 DEF RemoveResults, LeafUnderSized
  <2>4. /\ StoreOK(leaves', inners, h)
        /\ Grows(Len(leaves), h, Len(leaves'), h)
    BY <1>3, <2>1, GrowsNot
  <2>5. cached' \in DOMAIN leaves' \cup {None}
    BY <1>3, <2>1
  <2>6. pc' = "remove_ascend" =>
            /\ call.op \in {"remove", "remove_by_augmentation"}
            /\ r' \in RemoveResults /\ r'.tag # "InnerUnderSize"
            /\ r'.tag = "LeafUnderSize" => /\ r'.slot \in DOMAIN leaves'[node.id].data
                                          /\ ~LeafAbleToLend(leaves'[node.id])
    BY <1>1, <1>3, <1>5, <2>1, <2>3
  <2> QED
    BY <2>4, <2>5, <2>6, LeafStepOK DEF Descending
<1> QED
  BY <1>4, <1>5

\* Both searches end in a slot of the leaf.
LEMMA RemoveInLeafOK ==
  ASSUME NEW h, Good(h), RemoveInLeaf
  PROVE  Good(h)'
<1> DEFINE leaf == leaves[node.id]
           ks   == LeafKeys(leaf)
<1>1. /\ pc' = "remove_ascend"
      /\ UNCHANGED <<root, rootAug, len, inners, taken, cached, call, node, stack, ret>>
  BY DEF RemoveInLeaf
<1>2. CASE /\ AtLeaf("key_to_ref") /\ HasKey(leaf, call.k)
           /\ DeleteInLeaf(LocateSlot(leaf, call.k))
  <2>1. pc = "key_to_ref" /\ node.kind = "leaf"
    BY <1>2 DEF AtLeaf
  <2>2. leaf \in LeafOver(Pair) /\ call.k \in Int
    BY <2>1, LeafReached, RemoveCallFields DEF Descending
  <2>3. LocateSlot(leaf, call.k) \in 1 .. Len(leaf.data)
    BY <1>2, <2>2, LocateSlotType
  <2>4. call.op = "remove"
    BY <2>1 DEF Good, Locals
  <2> QED
    BY <1>1, <1>2, <2>1, <2>3, <2>4, DeleteInLeafOK
<1>3. CASE /\ AtLeaf("get_ref_by_augmentation")
           /\ call.op = "remove_by_augmentation"
           /\ LocateInLeaf(call.query, ks) # 0
           /\ DeleteInLeaf(LocateInLeaf(call.query, ks))
  <2>1. pc = "get_ref_by_augmentation" /\ node.kind = "leaf"
    BY <1>3 DEF AtLeaf
  <2>2. leaf \in LeafOver(Pair) /\ call.query \in Nat
    BY <2>1, LeafReached, RemoveCallFields DEF Descending
  <2>3. Len(ks) = Len(leaf.data) /\ Len(leaf.data) \in Nat
    BY <2>2, LeafKeysLen
  <2>4. LocateInLeaf(call.query, ks) \in 1 .. Len(leaf.data)
    <3> HIDE DEF ks, leaf
    <3> QED
      BY <1>3, <2>2, <2>3 DEF LocateInLeaf
  <2> QED
    BY <1>1, <1>3, <2>1, <2>4, DeleteInLeafOK
<1> QED
  BY <1>2, <1>3 DEF RemoveInLeaf

-----------------------------------------------------------------------------
(* The ascent of remove_by_ref                                             *)

\* What the result of a removal holds.
LEMMA RemoveFields ==
  ASSUME NEW h, Good(h), pc = "remove_ascend"
  PROVE  /\ r.tag \in {"Done", "InnerUnderSize"} => r.kv \in Pair
         /\ r.tag = "InnerUnderSize" =>
                Current.kind = "inner" /\ InnerUnderSize(inners[Current.id])
         /\ r.tag = "LeafUnderSize" =>
                /\ Current.kind = "leaf"
                /\ r.slot \in DOMAIN leaves[Current.id].data
                /\ ~LeafAbleToLend(leaves[Current.id])
<1>1. r \in RemoveResults /\ ResultOK(h)
  BY DEF Good, Locals
<1>2. r.tag \in {"Done", "InnerUnderSize"} => r.kv \in Pair
  BY <1>1 DEF RemoveResults
<1> QED
  BY <1>1, <1>2 DEF ResultOK

\* Nothing is left to fix but the augmentation.
LEMMA RemoveAscendDoneOK ==
  ASSUME NEW h, Good(h), RemoveAscendDone
  PROVE  Good(h)'
<1>1. /\ pc = "remove_ascend" /\ stack # <<>> /\ r.tag = "Done" /\ PopStack
      /\ inners' = [inners EXCEPT ![Top.id] = Refreshed] /\ r' = r
      /\ UNCHANGED <<root, rootAug, len, leaves, taken, cached, pc, call, node, ret>>
  BY DEF RemoveAscendDone, Ascending
<1>2. /\ IsInner(Refreshed, Key, NodesAt(Len(leaves), h, h[Top.id] - 1))
      /\ Len(Refreshed.keys) <= INNER_N
  BY <1>1, RefreshedOK, TopFacts
<1>3. r' \in RemoveResults /\ r'.tag \notin {"LeafUnderSize", "InnerUnderSize"}
  BY <1>1 DEF Good, Locals
<1> QED
  BY <1>1, <1>2, <1>3, WriteParentOK

-----------------------------------------------------------------------------
(* The return of remove_by_ref                                             *)

\* remove answers a value, remove_by_augmentation a pair.
LEMMA RemovedType ==
  ASSUME NEW kv \in Pair
  PROVE  Removed(kv) \in Value \cup Pair \cup {None}
BY DEF Removed, Pair

\* The root needs no change of shape.
LEMMA RemoveReturnDoneOK ==
  ASSUME NEW h, Good(h), RemoveReturnDone
  PROVE  Good(h)'
<1>1. /\ pc = "remove_ascend" /\ stack = <<>> /\ r.tag = "Done"
      /\ rootAug' = AugOf(root) /\ len' = len - 1 /\ Return(Removed(r.kv))
      /\ UNCHANGED <<root, leaves, inners, takenLeaves, takenInners, cached>>
  BY DEF RemoveReturnDone, AtRoot, store, taken
<1>2. StoreOK(leaves, inners, h) /\ Scalars
  BY DEF Good
<1>3. /\ StoreOK(leaves', inners', h)
      /\ root' \in NodesAt(Len(leaves'), h, HeightOf(h, root'))
      /\ rootAug' \in Nat
  BY <1>1, <1>2, RootIsCurrent
<1>4. /\ len' \in Int /\ takenLeaves' \subseteq Nat /\ takenInners' \subseteq Nat
      /\ cached' \in DOMAIN leaves' \cup {None}
  BY <1>1, <1>2 DEF Scalars
<1>5. Removed(r.kv) \in Value \cup Pair \cup {None}
  BY <1>1, RemoveFields, RemovedType
<1> QED
  BY <1>1, <1>3, <1>4, <1>5, ReturnOK

\* A root without keys gives way to its child, which lies one level below.
LEMMA RemoveReturnInnerUnderSizeOK ==
  ASSUME NEW h, Good(h), RemoveReturnInnerUnderSize
  PROVE  Good(h)'
<1>1. /\ pc = "remove_ascend" /\ stack = <<>> /\ r.tag = "InnerUnderSize"
      /\ root' = IF InnerSize(inners[root.id]) = 0 THEN inners[root.id].child[1] ELSE root
      /\ rootAug' = AugOf(root') /\ len' = len - 1 /\ Return(Removed(r.kv))
      /\ UNCHANGED <<leaves, inners, takenLeaves, takenInners, cached>>
  BY DEF RemoveReturnInnerUnderSize, AtRoot, store, taken
<1>2. StoreOK(leaves, inners, h) /\ Scalars
  BY DEF Good
<1>3. /\ Current = root /\ HeightOf(h, root) \in Nat
      /\ root \in NodesAt(Len(leaves), h, HeightOf(h, root))
  BY <1>1, RootIsCurrent
<1>4. root.kind = "inner" /\ root.id \in DOMAIN inners
  BY <1>1, <1>2, <1>3, RemoveFields, IdKnown
<1>5. 1 \in DOMAIN inners[root.id].child
  <2>1. IsInner(inners[root.id], Key, NodesAt(Len(leaves), h, h[root.id] - 1))
    BY <1>2, <1>4 DEF StoreOK
  <2> QED
    BY <2>1, InnerParts
<1>6. root' \in NodesAt(Len(leaves), h, HeightOf(h, root')) /\ HeightOf(h, root') \in Nat
  <2>1. CASE InnerSize(inners[root.id]) = 0
    <3>1. root' = inners[root.id].child[1]
      BY <1>1, <2>1
    <3> QED
      BY <1>2, <1>4, <1>5, <3>1, ChildAt, StoreParts
  <2>2. CASE InnerSize(inners[root.id]) # 0
    BY <1>1, <1>3, <2>2
  <2> QED
    BY <2>1, <2>2
<1>7. AugOf(root') \in Nat
  BY <1>2, <1>6, AugOfType DEF IsAt
<1>8. /\ StoreOK(leaves', inners', h)
      /\ root' \in NodesAt(Len(leaves'), h, HeightOf(h, root'))
      /\ rootAug' \in Nat
  BY <1>1, <1>2, <1>6, <1>7
<1>9. /\ len' \in Int /\ takenLeaves' \subseteq Nat /\ takenInners' \subseteq Nat
      /\ cached' \in DOMAIN leaves' \cup {None}
  BY <1>1, <1>2 DEF Scalars
<1>10. Removed(r.kv) \in Value \cup Pair \cup {None}
  BY <1>1, RemoveFields, RemovedType
<1> QED
  BY <1>1, <1>8, <1>9, <1>10, ReturnOK

\* The root is a leaf.
LEMMA RemoveReturnLeafUnderSizeOK ==
  ASSUME NEW h, Good(h), RemoveReturnLeafUnderSize
  PROVE  Good(h)'
<1> DEFINE old  == leaves[root.id]
           leaf == DeleteAt(old, r.slot)
<1>1. /\ pc = "remove_ascend" /\ stack = <<>> /\ r.tag = "LeafUnderSize"
      /\ leaves' = [leaves EXCEPT ![root.id] = leaf]
      /\ rootAug' = FromLeaf(LeafKeys(leaf)) /\ len' = len - 1
      /\ Return(Removed(old.data[r.slot]))
      /\ UNCHANGED <<root, inners, takenLeaves, takenInners, cached>>
  BY DEF RemoveReturnLeafUnderSize, AtRoot, taken
<1>2. StoreOK(leaves, inners, h) /\ Scalars
  BY DEF Good
<1>3. /\ Current = root
      /\ root \in NodesAt(Len(leaves), h, HeightOf(h, root))
  BY <1>1, RootIsCurrent
<1>4. /\ root.kind = "leaf" /\ root.id \in DOMAIN leaves
      /\ r.slot \in DOMAIN old.data
  BY <1>1, <1>2, <1>3, RemoveFields, IdKnown
<1>5. /\ old \in LeafOver(Pair) /\ Len(old.data) <= LEAF_N
      /\ old.data \in Seq(Pair) /\ r.slot \in 1 .. Len(old.data)
      /\ Len(old.data) \in Nat
  <2>1. old \in LeafOver(Pair) /\ Len(old.data) <= LEAF_N
    BY <1>2, <1>4, StoreParts DEF StoreOK
  <2>2. old.data \in Seq(Pair)
    BY <2>1 DEF LeafOver
  <2> QED
    BY <1>4, <2>1, <2>2, LenProperties
<1>6. old.data[r.slot] \in Pair
  BY <1>5, ElementOfSeq
<1> HIDE DEF old
<1>7. leaf \in LeafOver(Pair) /\ Len(leaf.data) = Len(old.data) - 1
  BY <1>5, DeleteAtType
<1> HIDE DEF leaf
<1>8. Len(leaf.data) <= LEAF_N /\ rootAug' \in Nat
  BY <1>1, <1>5, <1>7, LeafKeysLen, LeafAssumption DEF FromLeaf
<1>9. StoreOK(leaves', inners', h) /\ Len(leaves') = Len(leaves)
  BY <1>1, <1>2, <1>4, <1>7, <1>8, SetLeafOK
<1>10. root' \in NodesAt(Len(leaves'), h, HeightOf(h, root'))
  BY <1>1, <1>3, <1>9
<1>11. /\ len' \in Int /\ takenLeaves' \subseteq Nat /\ takenInners' \subseteq Nat
       /\ cached' \in DOMAIN leaves' \cup {None}
  BY <1>1, <1>2 DEF Scalars
<1>12. Removed(old.data[r.slot]) \in Value \cup Pair \cup {None}
  BY <1>6, RemovedType
<1> QED
  BY <1>1, <1>8, <1>9, <1>10, <1>11, <1>12, ReturnOK

-----------------------------------------------------------------------------
(* Rebalancing leaves                                                      *)

\* The children of a parent whose child c is a leaf are all leaves.
LEMMA LeafSiblings ==
  ASSUME NEW h, Good(h), stack # <<>>, Current.kind = "leaf",
         NEW c \in 1 .. Len(Parent.keys) + 1
  PROVE  /\ Parent.child[c].id \in DOMAIN leaves
         /\ LeafAt(c) = leaves[Parent.child[c].id]
         /\ LeafAt(c) \in LeafOver(Pair) /\ Len(LeafAt(c).data) <= LEAF_N
         /\ Len(LeafAt(c).data) \in Nat
         /\ LeafAt(c).data \in Seq(Pair)
         /\ DOMAIN LeafAt(c).data = 1 .. Len(LeafAt(c).data)
         /\ Parent.child[c].id \in Nat
<1>1. StoreOK(leaves, inners, h)
  BY DEF Good
<1>2. /\ Top.id \in DOMAIN inners /\ c \in DOMAIN Parent.child
      /\ HeightOf(h, Current) = h[Top.id] - 1
  BY TopFacts
<1>3. h[Top.id] - 1 = 0
  BY <1>2 DEF HeightOf
<1>4. Parent.child[c] \in NodesAt(Len(leaves), h, 0)
  BY <1>1, <1>2, <1>3, ChildAt DEF Parent
<1>5. Parent.child[c].id \in 1 .. Len(leaves)
  BY <1>4 DEF NodesAt, Leaf
<1>6. DOMAIN leaves = 1 .. Len(leaves) /\ Len(leaves) \in Nat
  BY <1>1, StoreParts
<1>7. LeafAt(c) \in LeafOver(Pair) /\ Len(LeafAt(c).data) <= LEAF_N
  BY <1>1, <1>5, <1>6, StoreParts DEF LeafAt, StoreOK
<1>8. LeafAt(c).data \in Seq(Pair)
  BY <1>7 DEF LeafOver
<1> QED
  BY <1>5, <1>6, <1>7, <1>8, LenProperties DEF LeafAt

\* Two leaves are written, and the parent; nothing is undersized any more.
LEMMA RotateLeafOK ==
  ASSUME NEW h, Good(h), stack # <<>>, PopStack, pc = "remove_ascend",
         Current.kind = "leaf", NEW slot \in 1 .. Len(Parent.keys),
         NEW left \in LeafOver(Pair), Len(left.data) <= LEAF_N,
         NEW right \in LeafOver(Pair), Len(right.data) <= LEAF_N,
         NEW k \in Key,
         leaves' = [leaves EXCEPT ![Parent.child[slot].id] = left,
                                  ![Parent.child[slot + 1].id] = right],
         inners' = [inners EXCEPT ![Top.id] =
                SetKey(SetAugmentation(
                           SetAugmentation(Parent, slot, FromLeaf(LeafKeys(left))),
                           slot + 1, FromLeaf(LeafKeys(right))),
                       slot, k)],
         cached' \in {Parent.child[slot].id, Parent.child[slot + 1].id},
         NEW kv \in Pair, r' = Done(kv),
         UNCHANGED <<root, rootAug, len, taken, pc, call, node, ret>>
  PROVE  Good(h)'
<1> DEFINE a  == Parent.child[slot].id
           b  == Parent.child[slot + 1].id
           L1 == [leaves EXCEPT ![a] = left]
           L2 == [L1 EXCEPT ![b] = right]
           C  == NodesAt(Len(leaves), h, h[Top.id] - 1)
           p1 == SetAugmentation(Parent, slot, FromLeaf(LeafKeys(left)))
           p2 == SetAugmentation(p1, slot + 1, FromLeaf(LeafKeys(right)))
           p  == SetKey(p2, slot, k)
<1>1. StoreOK(leaves, inners, h) /\ Scalars
  BY DEF Good
<1>2. /\ Top.id \in DOMAIN inners /\ IsInner(Parent, Key, C)
      /\ Len(Parent.keys) <= INNER_N /\ Len(Parent.keys) \in Nat
      /\ DOMAIN Parent.child = 1 .. Len(Parent.keys) + 1
      /\ DOMAIN Parent.keys = 1 .. Len(Parent.keys)
  BY TopFacts, InnerParts
<1>3. slot \in 1 .. Len(Parent.keys) + 1 /\ slot + 1 \in 1 .. Len(Parent.keys) + 1
  BY <1>2
<1>4. a \in DOMAIN leaves /\ b \in DOMAIN leaves
  BY <1>3, LeafSiblings
<1>5. StoreOK(L1, inners, h) /\ Len(L1) = Len(leaves) /\ DOMAIN L1 = DOMAIN leaves
  BY <1>1, <1>4, SetLeafOK
<1>6. StoreOK(L2, inners, h) /\ Len(L2) = Len(leaves) /\ DOMAIN L2 = DOMAIN leaves
  <2> HIDE DEF L1
  <2> QED
    BY ZenonT(60), <1>4, <1>5, SetLeafOK
<1>7. leaves' = L2
  OBVIOUS
<1>8. /\ IsInner(p, Key, C) /\ Len(p.keys) <= INNER_N
  <2>1. FromLeaf(LeafKeys(left)) \in Nat /\ FromLeaf(LeafKeys(right)) \in Nat
    BY LeafKeysLen DEF FromLeaf
  <2> HIDE DEF C
  <2>2. IsInner(p1, Key, C) /\ p1.keys = Parent.keys /\ p1.child = Parent.child
    BY <1>2, <1>3, <2>1, SetAugmentationType
  <2> HIDE DEF p1
  <2>3. IsInner(p2, Key, C) /\ p2.keys = Parent.keys /\ p2.child = Parent.child
    BY <1>2, <1>3, <2>1, <2>2, SetAugmentationType
  <2> HIDE DEF p2
  <2>4. slot \in DOMAIN p2.keys
    BY <1>2, <2>3
  <2>5. IsInner(p, Key, C) /\ Len(p.keys) = Len(p2.keys)
    BY <2>3, <2>4, SetKeyType
  <2> HIDE DEF p
  <2> QED
    BY <1>2, <2>3, <2>5
<1>9. inners' = [inners EXCEPT ![Top.id] = p]
  OBVIOUS
<1> HIDE DEF L1, L2, p1, p2, p, C
<1>10. IsInner(p, Key, NodesAt(Len(leaves'), h, h[Top.id] - 1))
  BY <1>6, <1>7, <1>8 DEF C
<1>11. /\ StoreOK(leaves', inners', h)
       /\ SameAbove(inners, h, inners', h, h[Top.id])
  <2>1. StoreOK(leaves', inners, h)
    BY <1>6, <1>7
  <2> QED
    BY ONLY <1>2, <1>8, <1>9, <1>10, <2>1, WriteOne, KeyAssumption
<1>12. Grows(Len(leaves), h, Len(leaves'), h)
  BY <1>6, <1>7, GrowsNot
<1>13. /\ takenLeaves' \subseteq Nat /\ takenInners' \subseteq Nat
       /\ cached' \in DOMAIN leaves' \cup {None}
  BY <1>1, <1>4, <1>6, <1>7 DEF Scalars, taken
<1>14. r' \in RemoveResults /\ r'.tag = "Done"
  BY DEF RemoveResults, Done
<1> QED
  BY <1>11, <1>12, <1>13, <1>14, AscendOK

\* The last entry of the left leaf moves to the right one.
LEMMA RotateRightLeafOK ==
  ASSUME NEW h, Good(h), RotateRightLeaf
  PROVE  Good(h)'
<1> DEFINE slot  == Top.idx - 1
           kv    == LeafAt(slot).data[LeafSize(LeafAt(slot))]
           left  == PopLeaf(LeafAt(slot))
           right == DeleteWithPushFront(LeafAt(slot + 1), r.slot, kv)
           old   == LeafAt(slot + 1).data[r.slot]
<1>1. /\ pc = "remove_ascend" /\ stack # <<>> /\ r.tag = "LeafUnderSize" /\ PopStack
      /\ PrevLeafLends
      /\ leaves' = [leaves EXCEPT ![Parent.child[slot].id] = left,
                                  ![Parent.child[slot + 1].id] = right]
      /\ inners' = [inners EXCEPT ![Top.id] =
                SetKey(SetAugmentation(
                           SetAugmentation(Parent, slot, FromLeaf(LeafKeys(left))),
                           slot + 1, FromLeaf(LeafKeys(right))),
                       slot, kv[1])]
      /\ cached' = Parent.child[slot + 1].id
      /\ r' = Done(old)
      /\ UNCHANGED <<root, rootAug, len, taken, pc, call, node, ret>>
  BY DEF RotateRightLeaf, Ascending
<1>2. /\ Current.kind = "leaf" /\ r.slot \in DOMAIN leaves[Current.id].data
  BY <1>1, RemoveFields
<1>3. /\ Top.idx \in 1 .. Len(Parent.keys) + 1 /\ Len(Parent.keys) \in Nat
      /\ Current = Parent.child[Top.idx]
  BY <1>1, TopFacts
<1>4. Top.idx > 1 /\ LeafAbleToLend(LeafAt(slot))
  BY <1>1 DEF PrevLeafLends, HasPrev
<1>5. /\ slot \in 1 .. Len(Parent.keys) /\ slot \in 1 .. Len(Parent.keys) + 1
      /\ slot + 1 \in 1 .. Len(Parent.keys) + 1 /\ slot + 1 = Top.idx
  BY <1>3, <1>4
<1> HIDE DEF slot
<1>6. /\ LeafAt(slot) \in LeafOver(Pair) /\ Len(LeafAt(slot).data) <= LEAF_N
      /\ Len(LeafAt(slot).data) \in Nat /\ LeafAt(slot).data \in Seq(Pair)
  BY <1>1, <1>2, <1>5, LeafSiblings
<1>7. /\ LeafAt(slot + 1) \in LeafOver(Pair) /\ Len(LeafAt(slot + 1).data) <= LEAF_N
      /\ LeafAt(slot + 1).data \in Seq(Pair)
      /\ r.slot \in 1 .. Len(LeafAt(slot + 1).data)
  <2>1. /\ LeafAt(slot + 1) = leaves[Parent.child[slot + 1].id]
        /\ LeafAt(slot + 1) \in LeafOver(Pair) /\ Len(LeafAt(slot + 1).data) <= LEAF_N
        /\ LeafAt(slot + 1).data \in Seq(Pair)
        /\ DOMAIN LeafAt(slot + 1).data = 1 .. Len(LeafAt(slot + 1).data)
    BY <1>1, <1>2, <1>5, LeafSiblings
  <2> QED
    BY <1>2, <1>3, <1>5, <2>1
<1>8. Len(LeafAt(slot).data) > 0
  BY <1>4, <1>6, LeafAssumption DEF LeafAbleToLend, LeafSize, LEAF_MIN
<1>9. kv \in Pair
  BY <1>6, <1>8, EndsType DEF LeafSize
<1>10. kv[1] \in Key
  <2> HIDE DEF kv
  <2> QED
    BY <1>9 DEF Pair
<1>11. left \in LeafOver(Pair) /\ Len(left.data) <= LEAF_N
  <2>1. left \in LeafOver(Pair) /\ Len(left.data) = Len(LeafAt(slot).data) - 1
    BY <1>6, <1>8, PopLeafType
  <2> HIDE DEF left
  <2> QED
    BY <1>6, <2>1, LeafAssumption
<1>12. right \in LeafOver(Pair) /\ Len(right.data) <= LEAF_N
  <2> HIDE DEF kv
  <2>1. right \in LeafOver(Pair) /\ Len(right.data) = Len(LeafAt(slot + 1).data)
    BY <1>7, <1>9, DeleteWithPushType
  <2> QED
    BY <1>7, <2>1
<1>13. old \in Pair
  BY <1>7, ElementOfSeq
<1> HIDE DEF kv, left, right, old
<1>14. cached' \in {Parent.child[slot].id, Parent.child[slot + 1].id}
  BY <1>1
<1> QED
  BY <1>1, <1>2, <1>5, <1>10, <1>11, <1>12, <1>13, <1>14, RotateLeafOK

\* The first entry of the right leaf moves to the left one.
LEMMA RotateLeftLeafOK ==
  ASSUME NEW h, Good(h), RotateLeftLeaf
  PROVE  Good(h)'
<1> DEFINE slot  == Top.idx
           kv    == LeafAt(slot + 1).data[1]
           right == PopFrontLeaf(LeafAt(slot + 1))
           left  == DeleteWithPush(LeafAt(slot), r.slot, kv)
           key   == right.data[1][1]
           old   == LeafAt(slot).data[r.slot]
<1>1. /\ pc = "remove_ascend" /\ stack # <<>> /\ r.tag = "LeafUnderSize" /\ PopStack
      /\ NextLeafLends
      /\ leaves' = [leaves EXCEPT ![Parent.child[slot].id] = left,
                                  ![Parent.child[slot + 1].id] = right]
      /\ inners' = [inners EXCEPT ![Top.id] =
                SetKey(SetAugmentation(
                           SetAugmentation(Parent, slot, FromLeaf(LeafKeys(left))),
                           slot + 1, FromLeaf(LeafKeys(right))),
                       slot, key)]
      /\ cached' = Parent.child[slot].id
      /\ r' = Done(old)
      /\ UNCHANGED <<root, rootAug, len, taken, pc, call, node, ret>>
  BY DEF RotateLeftLeaf, Ascending
<1>2. /\ Current.kind = "leaf" /\ r.slot \in DOMAIN leaves[Current.id].data
  BY <1>1, RemoveFields
<1>3. /\ Top.idx \in 1 .. Len(Parent.keys) + 1 /\ Len(Parent.keys) \in Nat
      /\ Current = Parent.child[Top.idx]
  BY <1>1, TopFacts
<1>4. Top.idx <= Len(Parent.keys) /\ LeafAbleToLend(LeafAt(slot + 1))
  BY <1>1 DEF NextLeafLends, HasNext, InnerSize
<1>5. /\ slot \in 1 .. Len(Parent.keys) /\ slot \in 1 .. Len(Parent.keys) + 1
      /\ slot + 1 \in 1 .. Len(Parent.keys) + 1
  BY <1>3, <1>4
<1>6. /\ LeafAt(slot + 1) \in LeafOver(Pair) /\ Len(LeafAt(slot + 1).data) <= LEAF_N
      /\ Len(LeafAt(slot + 1).data) \in Nat /\ LeafAt(slot + 1).data \in Seq(Pair)
  BY <1>1, <1>2, <1>5, LeafSiblings
<1>7. /\ LeafAt(slot) \in LeafOver(Pair) /\ Len(LeafAt(slot).data) <= LEAF_N
      /\ LeafAt(slot).data \in Seq(Pair)
      /\ r.slot \in 1 .. Len(LeafAt(slot).data)
  <2>1. /\ LeafAt(slot) = leaves[Parent.child[slot].id]
        /\ LeafAt(slot) \in LeafOver(Pair) /\ Len(LeafAt(slot).data) <= LEAF_N
        /\ LeafAt(slot).data \in Seq(Pair)
        /\ DOMAIN LeafAt(slot).data = 1 .. Len(LeafAt(slot).data)
    BY <1>1, <1>2, <1>5, LeafSiblings
  <2> QED
    BY <1>2, <1>3, <2>1
<1> HIDE DEF slot
<1>8. Len(LeafAt(slot + 1).data) > 1
  BY <1>4, <1>6, LeafAssumption DEF LeafAbleToLend, LeafSize, LEAF_MIN
<1>9. kv \in Pair /\ Len(LeafAt(slot + 1).data) > 0
  BY <1>6, <1>8, EndsType
<1>10. /\ right \in LeafOver(Pair) /\ Len(right.data) <= LEAF_N
       /\ Len(right.data) > 0
  <2>1. right \in LeafOver(Pair) /\ Len(right.data) = Len(LeafAt(slot + 1).data) - 1
    BY <1>6, <1>9, PopLeafType
  <2> HIDE DEF right
  <2> QED
    BY <1>6, <1>8, <2>1, LeafAssumption
<1>11. key \in Key
  <2> HIDE DEF right
  <2>1. right.data \in Seq(Pair)
    BY <1>10 DEF LeafOver
  <2>2. right.data[1] \in Pair
    BY <1>10, <2>1, EndsType
  <2> QED
    BY <2>2 DEF Pair
<1>12. left \in LeafOver(Pair) /\ Len(left.data) <= LEAF_N
  <2> HIDE DEF kv
  <2>1. left \in LeafOver(Pair) /\ Len(left.data) = Len(LeafAt(slot).data)
    BY <1>7, <1>9, DeleteWithPushType
  <2> QED
    BY <1>7, <2>1
<1>13. old \in Pair
  BY <1>7, ElementOfSeq
<1> HIDE DEF kv, left, key, right, old
<1>14. cached' \in {Parent.child[slot].id, Parent.child[slot + 1].id}
  BY <1>1
<1> QED
  BY <1>1, <1>2, <1>5, <1>10, <1>11, <1>12, <1>13, <1>14, RotateLeafOK

\* What a merge leaves of the parent, and the result it hands to the ascent.
LEMMA AfterMergeOK ==
  ASSUME NEW h, Good(h), stack # <<>>, NEW slot \in 1 .. Len(Parent.keys), NEW a \in Nat,
         NEW kv \in Pair
  PROVE  /\ IsInner(MergedParent(slot, a), Key, NodesAt(Len(leaves), h, h[Top.id] - 1))
         /\ Len(MergedParent(slot, a).keys) <= INNER_N
         /\ AfterMerge(MergedParent(slot, a), kv) \in RemoveResults
         /\ AfterMerge(MergedParent(slot, a), kv).tag # "LeafUnderSize"
         /\ AfterMerge(MergedParent(slot, a), kv).tag = "InnerUnderSize"
                => InnerUnderSize(MergedParent(slot, a))
<1> DEFINE C  == NodesAt(Len(leaves), h, h[Top.id] - 1)
           p1 == SetAugmentation(Parent, slot, a)
           p  == MergedParent(slot, a)
<1>1. /\ IsInner(Parent, Key, C) /\ Len(Parent.keys) <= INNER_N /\ Len(Parent.keys) \in Nat
      /\ DOMAIN Parent.child = 1 .. Len(Parent.keys) + 1
      /\ DOMAIN Parent.keys = 1 .. Len(Parent.keys)
  BY TopFacts, InnerParts
<1> HIDE DEF C, p
<1>2. IsInner(p1, Key, C) /\ p1.keys = Parent.keys /\ p1.child = Parent.child
  <2>1. slot \in DOMAIN Parent.child /\ IsInner(Parent, Key, C)
    BY <1>1
  <2> QED
    BY ONLY <2>1, a \in Nat, SetAugmentationType DEF p1
<1> HIDE DEF p1
<1>3. IsInner(p, Key, C) /\ Len(p.keys) = Len(p1.keys) - 1
  <2>1. slot \in DOMAIN p1.keys
    BY <1>1, <1>2
  <2>2. p = RemoveSlotWithRight(p1, slot)
    BY DEF MergedParent, p1, p
  <2> QED
    BY <1>2, <2>1, <2>2, RemoveSlotWithRightType
<1>4. Len(p.keys) <= INNER_N
  BY <1>1, <1>2, <1>3, InnerAssumption
<1>5. /\ AfterMerge(p, kv) \in RemoveResults
      /\ AfterMerge(p, kv).tag # "LeafUnderSize"
      /\ AfterMerge(p, kv).tag = "InnerUnderSize" => InnerUnderSize(p)
  BY DEF AfterMerge, RemoveResults, InnerUnderSized, Done
<1> QED
  BY <1>3, <1>4, <1>5 DEF p, C

\* The right leaf of two is emptied into the left one, and leaves the parent.
LEMMA MergeLeavesOK ==
  ASSUME NEW h, Good(h), stack # <<>>, PopStack, pc = "remove_ascend",
         Current.kind = "leaf", NEW slot \in 1 .. Len(Parent.keys),
         NEW left \in LeafOver(Pair), Len(left.data) <= LEAF_N, NEW kv \in Pair,
         MergeLeaves(slot, left, kv),
         UNCHANGED <<root, rootAug, len, takenInners, pc, call, node, ret>>
  PROVE  Good(h)'
<1> DEFINE a  == Parent.child[slot].id
           b  == Parent.child[slot + 1].id
           L1 == [leaves EXCEPT ![a] = left]
           L2 == [L1 EXCEPT ![b] = EmptyLeaf]
           L3 == FixPrev(L2, left.next, a)
           p  == MergedParent(slot, FromLeaf(LeafKeys(left)))
<1>1. StoreOK(leaves, inners, h) /\ Scalars
  BY DEF Good
<1>2. Top.id \in DOMAIN inners /\ Len(Parent.keys) \in Nat
  BY TopFacts
<1>3. slot \in 1 .. Len(Parent.keys) + 1 /\ slot + 1 \in 1 .. Len(Parent.keys) + 1
  BY <1>2
<1>4. a \in DOMAIN leaves /\ b \in DOMAIN leaves /\ a \in Nat /\ b \in Nat
  BY <1>3, LeafSiblings
<1>5. StoreOK(L1, inners, h) /\ Len(L1) = Len(leaves) /\ DOMAIN L1 = DOMAIN leaves
  BY <1>1, <1>4, SetLeafOK
<1>6. EmptyLeaf \in LeafOver(Pair) /\ Len(EmptyLeaf.data) <= LEAF_N
  BY LeafAssumption DEF EmptyLeaf, LeafOver
<1>7. StoreOK(L2, inners, h) /\ Len(L2) = Len(leaves)
  <2> HIDE DEF L1
  <2> QED
    BY ZenonT(60), <1>4, <1>5, <1>6, SetLeafOK
<1>8. StoreOK(L3, inners, h) /\ Len(L3) = Len(leaves)
  <2> HIDE DEF L2
  <2> QED
    BY <1>4, <1>7, FixPrevOK
<1>9. FromLeaf(LeafKeys(left)) \in Nat
  BY LeafKeysLen DEF FromLeaf
<1>10. /\ leaves' = L3 /\ inners' = [inners EXCEPT ![Top.id] = p]
       /\ takenLeaves' = takenLeaves \cup {b} /\ cached' = a
       /\ r' = AfterMerge(p, kv)
  BY DEF MergeLeaves
<1> HIDE DEF L1, L2, L3
<1>11. /\ IsInner(p, Key, NodesAt(Len(leaves'), h, h[Top.id] - 1))
       /\ Len(p.keys) <= INNER_N
       /\ r' \in RemoveResults /\ r'.tag # "LeafUnderSize"
       /\ r'.tag = "InnerUnderSize" => InnerUnderSize(p)
  BY <1>8, <1>9, <1>10, AfterMergeOK
<1> HIDE DEF p
<1>12. /\ StoreOK(leaves', inners', h) /\ inners'[Top.id] = p
       /\ SameAbove(inners, h, inners', h, h[Top.id])
  <2>1. StoreOK(leaves', inners, h)
    BY <1>8, <1>10
  <2> QED
    BY ONLY <1>2, <1>10, <1>11, <2>1, WriteOne, KeyAssumption
<1>13. Grows(Len(leaves), h, Len(leaves'), h)
  BY <1>8, <1>10, GrowsNot
<1>14. /\ takenLeaves' \subseteq Nat /\ takenInners' \subseteq Nat
       /\ cached' \in DOMAIN leaves' \cup {None}
  <2>1. DOMAIN leaves' = DOMAIN leaves
    BY <1>1, <1>8, <1>10, StoreParts
  <2> QED
    BY <1>1, <1>4, <1>10, <2>1 DEF Scalars
<1> QED
  BY <1>11, <1>12, <1>13, <1>14, AscendOK DEF taken

(***************************************************************************)
(* The left leaf takes what the right one keeps.  The left one cannot lend *)
(* and the right one is at its minimum, so the two fit in one.             *)
(***************************************************************************)
LEMMA MergeLeafLeftOK ==
  ASSUME NEW h, Good(h), MergeLeafLeft
  PROVE  Good(h)'
<1> DEFINE slot == Top.idx - 1
           left == MergeRightDeleteFirst(LeafAt(slot), r.slot, LeafAt(slot + 1))
           old  == LeafAt(slot + 1).data[r.slot]
<1>1. /\ pc = "remove_ascend" /\ stack # <<>> /\ r.tag = "LeafUnderSize" /\ PopStack
      /\ HasPrev /\ ~PrevLeafLends
      /\ MergeLeaves(slot, left, old)
      /\ UNCHANGED <<root, rootAug, len, takenInners, pc, call, node, ret>>
  BY DEF MergeLeafLeft, Ascending
<1>2. /\ Current.kind = "leaf" /\ r.slot \in DOMAIN leaves[Current.id].data
      /\ ~LeafAbleToLend(leaves[Current.id])
  BY <1>1, RemoveFields
<1>3. /\ Top.idx \in 1 .. Len(Parent.keys) + 1 /\ Len(Parent.keys) \in Nat
      /\ Current = Parent.child[Top.idx]
  BY <1>1, TopFacts
<1>4. Top.idx > 1 /\ ~LeafAbleToLend(LeafAt(slot))
  BY <1>1 DEF PrevLeafLends, HasPrev
<1>5. /\ slot \in 1 .. Len(Parent.keys) /\ slot \in 1 .. Len(Parent.keys) + 1
      /\ slot + 1 \in 1 .. Len(Parent.keys) + 1 /\ slot + 1 = Top.idx
  BY <1>3, <1>4
<1> HIDE DEF slot
<1>6. LeafAt(slot) \in LeafOver(Pair) /\ Len(LeafAt(slot).data) \in Nat
  BY <1>1, <1>2, <1>5, LeafSiblings
<1>7. /\ LeafAt(slot + 1) \in LeafOver(Pair) /\ Len(LeafAt(slot + 1).data) \in Nat
      /\ LeafAt(slot + 1).data \in Seq(Pair)
      /\ r.slot \in 1 .. Len(LeafAt(slot + 1).data)
      /\ ~LeafAbleToLend(LeafAt(slot + 1))
  <2>1. /\ LeafAt(slot + 1) = leaves[Parent.child[slot + 1].id]
        /\ LeafAt(slot + 1) \in LeafOver(Pair) /\ Len(LeafAt(slot + 1).data) \in Nat
        /\ LeafAt(slot + 1).data \in Seq(Pair)
        /\ DOMAIN LeafAt(slot + 1).data = 1 .. Len(LeafAt(slot + 1).data)
    BY <1>1, <1>2, <1>5, LeafSiblings
  <2> QED
    BY <1>2, <1>3, <1>5, <2>1
<1>8. /\ left \in LeafOver(Pair)
      /\ Len(left.data) = Len(LeafAt(slot).data) + Len(LeafAt(slot + 1).data) - 1
  BY <1>6, <1>7, MergeRightDeleteFirstType
<1> HIDE DEF left
<1>9. Len(left.data) <= LEAF_N
  <2>1. \A x, y \in Nat : x <= LEAF_MIN /\ y <= LEAF_MIN => x + y - 1 <= LEAF_N
    BY LeafAssumption DEF LEAF_MIN
  <2>2. Len(LeafAt(slot).data) <= LEAF_MIN /\ Len(LeafAt(slot + 1).data) <= LEAF_MIN
    BY <1>4, <1>6, <1>7, LeafAssumption DEF LeafAbleToLend, LeafSize, LEAF_MIN
  <2> QED
    BY ONLY <1>6, <1>7, <1>8, <2>1, <2>2
<1>10. old \in Pair
  BY <1>7, ElementOfSeq
<1> HIDE DEF old
<1> QED
  BY <1>1, <1>2, <1>5, <1>8, <1>9, <1>10, MergeLeavesOK

\* The first child has no left sibling, and takes the entries of the right one.
LEMMA MergeLeafRightOK ==
  ASSUME NEW h, Good(h), MergeLeafRight
  PROVE  Good(h)'
<1> DEFINE slot == Top.idx
           rest == DeleteAt(LeafAt(slot), r.slot)
           left == MergeRight(rest, LeafAt(slot + 1))
           old  == LeafAt(slot).data[r.slot]
<1>1. /\ pc = "remove_ascend" /\ stack # <<>> /\ r.tag = "LeafUnderSize" /\ PopStack
      /\ HasNext /\ ~NextLeafLends
      /\ MergeLeaves(slot, left, old)
      /\ UNCHANGED <<root, rootAug, len, takenInners, pc, call, node, ret>>
  BY DEF MergeLeafRight, Ascending
<1>2. /\ Current.kind = "leaf" /\ r.slot \in DOMAIN leaves[Current.id].data
      /\ ~LeafAbleToLend(leaves[Current.id])
  BY <1>1, RemoveFields
<1>3. /\ Top.idx \in 1 .. Len(Parent.keys) + 1 /\ Len(Parent.keys) \in Nat
      /\ Current = Parent.child[Top.idx]
  BY <1>1, TopFacts
<1>4. Top.idx <= Len(Parent.keys) /\ ~LeafAbleToLend(LeafAt(slot + 1))
  BY <1>1 DEF NextLeafLends, HasNext, InnerSize
<1>5. /\ slot \in 1 .. Len(Parent.keys) /\ slot \in 1 .. Len(Parent.keys) + 1
      /\ slot + 1 \in 1 .. Len(Parent.keys) + 1
  BY <1>3, <1>4
<1>6. LeafAt(slot + 1) \in LeafOver(Pair) /\ Len(LeafAt(slot + 1).data) \in Nat
  BY <1>1, <1>2, <1>5, LeafSiblings
<1>7. /\ LeafAt(slot) \in LeafOver(Pair) /\ Len(LeafAt(slot).data) \in Nat
      /\ LeafAt(slot).data \in Seq(Pair)
      /\ r.slot \in 1 .. Len(LeafAt(slot).data)
      /\ ~LeafAbleToLend(LeafAt(slot))
  <2>1. /\ LeafAt(slot) = leaves[Parent.child[slot].id]
        /\ LeafAt(slot) \in LeafOver(Pair) /\ Len(LeafAt(slot).data) \in Nat
        /\ LeafAt(slot).data \in Seq(Pair)
        /\ DOMAIN LeafAt(slot).data = 1 .. Len(LeafAt(slot).data)
    BY <1>1, <1>2, <1>5, LeafSiblings
  <2> QED
    BY <1>2, <1>3, <2>1
<1> HIDE DEF slot
<1>8. rest \in LeafOver(Pair) /\ Len(rest.data) = Len(LeafAt(slot).data) - 1
  BY <1>7, DeleteAtType
<1> HIDE DEF rest
<1>9. /\ left \in LeafOver(Pair)
      /\ Len(left.data) = Len(rest.data) + Len(LeafAt(slot + 1).data)
  BY <1>6, <1>8, MergeRightType
<1> HIDE DEF left
<1>10. Len(left.data) <= LEAF_N
  <2>1. \A x, y \in Nat : x <= LEAF_MIN /\ y <= LEAF_MIN => x - 1 + y <= LEAF_N
    BY LeafAssumption DEF LEAF_MIN
  <2>2. Len(LeafAt(slot).data) <= LEAF_MIN /\ Len(LeafAt(slot + 1).data) <= LEAF_MIN
    BY <1>4, <1>6, <1>7, LeafAssumption DEF LeafAbleToLend, LeafSize, LEAF_MIN
  <2> QED
    BY ONLY <1>6, <1>7, <1>8, <1>9, <2>1, <2>2
<1>11. old \in Pair
  BY <1>7, ElementOfSeq
<1> HIDE DEF old
<1> QED
  BY <1>1, <1>2, <1>5, <1>9, <1>10, <1>11, MergeLeavesOK

-----------------------------------------------------------------------------
(* Rebalancing inner nodes                                                 *)

\* The children of a parent whose child is an inner node are all inner nodes.
LEMMA InnerSiblings ==
  ASSUME NEW h, Good(h), stack # <<>>, Current.kind = "inner",
         NEW c \in 1 .. Len(Parent.keys) + 1
  PROVE  /\ Parent.child[c].id \in DOMAIN inners
         /\ Parent.child[c].id \in Nat
         /\ h[Parent.child[c].id] = h[Top.id] - 1
         /\ h[Parent.child[c].id] <= h[Top.id]
         /\ InnerAt(c) = inners[Parent.child[c].id]
         /\ IsInner(InnerAt(c), Key, NodesAt(Len(leaves), h, h[Top.id] - 1 - 1))
         /\ Len(InnerAt(c).keys) <= INNER_N
<1>1. StoreOK(leaves, inners, h)
  BY DEF Good
<1>2. /\ Len(leaves) \in Nat /\ Len(inners) \in Nat /\ DOMAIN inners = 1 .. Len(inners)
      /\ h \in [1 .. Len(inners) -> Nat]
  BY <1>1, StoreParts
<1>3. /\ Top.id \in DOMAIN inners /\ c \in DOMAIN Parent.child
      /\ HeightOf(h, Current) = h[Top.id] - 1
      /\ h[Top.id] \in Nat \ {0} /\ h[Top.id] - 1 \in Nat
  BY TopFacts
<1>4. h[Top.id] - 1 # 0
  <2>1. IsAt(h, Current, HeightOf(h, Current))
    BY CurrentAt
  <2>2. Current \in NodesAt(Len(leaves), h, h[Top.id] - 1)
    BY <1>3, <2>1 DEF IsAt
  <2> QED
    BY <2>2 DEF NodesAt, Leaf
<1>5. Parent.child[c] \in NodesAt(Len(leaves), h, h[Top.id] - 1)
  BY <1>1, <1>3, ChildAt DEF Parent
<1>6. /\ Parent.child[c].id \in 1 .. Len(inners)
      /\ h[Parent.child[c].id] = h[Top.id] - 1
  <2> DEFINE d == h[Top.id] - 1
  <2>1. d \in Nat /\ d # 0 /\ Parent.child[c] \in NodesAt(Len(leaves), h, d)
    BY <1>3, <1>4, <1>5
  <2> HIDE DEF d
  <2>2. Parent.child[c].id \in 1 .. Len(inners) /\ h[Parent.child[c].id] = d
    BY ONLY <1>2, <2>1, NodesAtIds
  <2> QED
    BY <2>2 DEF d
<1>7. /\ IsInner(InnerAt(c), Key, NodesAt(Len(leaves), h, h[Top.id] - 1 - 1))
      /\ Len(InnerAt(c).keys) <= INNER_N
  BY <1>1, <1>2, <1>6 DEF InnerAt, StoreOK
<1> QED
  BY <1>2, <1>3, <1>6, <1>7 DEF InnerAt

\* Two inner nodes are written, and the parent; nothing is undersized any more.
LEMMA RotateInnerOK ==
  ASSUME NEW h, Good(h), stack # <<>>, PopStack, pc = "remove_ascend",
         Current.kind = "inner", NEW slot \in 1 .. Len(Parent.keys),
         NEW left, IsInner(left, Key, NodesAt(Len(leaves), h, h[Top.id] - 1 - 1)),
         Len(left.keys) <= INNER_N,
         NEW right, IsInner(right, Key, NodesAt(Len(leaves), h, h[Top.id] - 1 - 1)),
         Len(right.keys) <= INNER_N,
         NEW k \in Key,
         inners' = [inners EXCEPT
                        ![Parent.child[slot].id] = left,
                        ![Parent.child[slot + 1].id] = right,
                        ![Top.id] = SetAugmentation(
                                        SetAugmentation(SetKey(Parent, slot, k),
                                                        slot, FromInner(left.aug)),
                                        slot + 1, FromInner(right.aug))],
         NEW kv \in Pair, r' = Done(kv),
         UNCHANGED <<root, rootAug, len, leaves, taken, cached, pc, call, node, ret>>
  PROVE  Good(h)'
<1> DEFINE a  == Parent.child[slot].id
           b  == Parent.child[slot + 1].id
           C  == NodesAt(Len(leaves), h, h[Top.id] - 1)
           p0 == SetKey(Parent, slot, k)
           p1 == SetAugmentation(p0, slot, FromInner(left.aug))
           p  == SetAugmentation(p1, slot + 1, FromInner(right.aug))
<1>1. StoreOK(leaves, inners, h) /\ Scalars
  BY DEF Good
<1>2. /\ Top.id \in DOMAIN inners /\ IsInner(Parent, Key, C)
      /\ Len(Parent.keys) <= INNER_N /\ Len(Parent.keys) \in Nat
      /\ DOMAIN Parent.child = 1 .. Len(Parent.keys) + 1
      /\ DOMAIN Parent.keys = 1 .. Len(Parent.keys)
  BY TopFacts, InnerParts
<1>3. slot \in 1 .. Len(Parent.keys) + 1 /\ slot + 1 \in 1 .. Len(Parent.keys) + 1
  BY <1>2
<1>4. /\ a \in DOMAIN inners /\ h[a] = h[Top.id] - 1 /\ h[a] <= h[Top.id]
      /\ b \in DOMAIN inners /\ h[b] = h[Top.id] - 1 /\ h[b] <= h[Top.id]
  BY <1>3, InnerSiblings
<1>5. /\ IsInner(left, Key, NodesAt(Len(leaves), h, h[a] - 1))
      /\ IsInner(right, Key, NodesAt(Len(leaves), h, h[b] - 1))
  BY <1>4
<1>6. IsInner(p, Key, C) /\ Len(p.keys) <= INNER_N
  <2>1. FromInner(left.aug) \in Nat /\ FromInner(right.aug) \in Nat
    BY InnerParts, TotalType DEF FromInner
  <2> HIDE DEF C
  <2>2. /\ IsInner(p0, Key, C) /\ Len(p0.keys) = Len(Parent.keys)
        /\ p0.child = Parent.child
    <3>1. slot \in DOMAIN Parent.keys /\ IsInner(Parent, Key, C)
      BY <1>2
    <3> QED
      BY ONLY <3>1, k \in Key, SetKeyType DEF p0
  <2> HIDE DEF p0
  <2>3. IsInner(p1, Key, C) /\ p1.keys = p0.keys /\ p1.child = p0.child
    <3>1. slot \in DOMAIN p0.child
      BY <1>2, <1>3, <2>2
    <3> QED
      BY ONLY <2>1, <2>2, <3>1, SetAugmentationType DEF p1
  <2> HIDE DEF p1
  <2>4. IsInner(p, Key, C) /\ p.keys = p1.keys
    <3>1. slot + 1 \in DOMAIN p1.child
      BY <1>2, <1>3, <2>2, <2>3
    <3> QED
      BY ONLY <2>1, <2>3, <3>1, SetAugmentationType DEF p
  <2> HIDE DEF p
  <2> QED
    BY <1>2, <2>2, <2>3, <2>4
<1>7. inners' = [inners EXCEPT ![a] = left, ![b] = right, ![Top.id] = p]
  OBVIOUS
<1> HIDE DEF a, b, p0, p1, p
<1>8. /\ StoreOK(leaves, inners', h)
      /\ SameAbove(inners, h, inners', h, h[Top.id])
  <2>1. IsInner(p, Key, NodesAt(Len(leaves), h, h[Top.id] - 1)) /\ Len(p.keys) <= INNER_N
    BY <1>6
  <2>2. /\ StoreOK(leaves, inners, h) /\ Top.id \in DOMAIN inners
        /\ a \in DOMAIN inners /\ b \in DOMAIN inners
        /\ h[a] <= h[Top.id] /\ h[b] <= h[Top.id]
    BY <1>1, <1>2, <1>4
  <2>3. Len(left.keys) <= INNER_N /\ Len(right.keys) <= INNER_N
    OBVIOUS
  <2>4. LET J == [inners EXCEPT ![a] = left, ![b] = right, ![Top.id] = p]
        IN  StoreOK(leaves, J, h) /\ SameAbove(inners, h, J, h, h[Top.id])
    BY ONLY <1>5, <2>1, <2>2, <2>3, WriteThree
  <2> QED
    BY <1>7, <2>4
<1>9. StoreOK(leaves', inners', h) /\ Grows(Len(leaves), h, Len(leaves'), h)
  BY <1>8, GrowsNot
<1>10. /\ takenLeaves' \subseteq Nat /\ takenInners' \subseteq Nat
       /\ cached' \in DOMAIN leaves' \cup {None}
  BY <1>1 DEF Scalars, taken
<1>11. r' \in RemoveResults /\ r'.tag = "Done"
  BY DEF RemoveResults, Done
<1> QED
  BY <1>8, <1>9, <1>10, <1>11, AscendOK

\* The last child of the left node moves to the right one.
LEMMA RotateRightInnerOK ==
  ASSUME NEW h, Good(h), RotateRightInner
  PROVE  Good(h)'
<1> DEFINE slot  == Top.idx - 1
           prev  == InnerAt(slot)
           left  == PopInner(prev)
           child == prev.child[Len(prev.child)]
           aug   == prev.aug[Len(prev.aug)]
           right == PushFrontInner(InnerAt(slot + 1), Parent.keys[slot], child, aug)
           k     == prev.keys[Len(prev.keys)]
           D     == NodesAt(Len(leaves), h, h[Top.id] - 1 - 1)
<1>1. /\ pc = "remove_ascend" /\ stack # <<>> /\ r.tag = "InnerUnderSize" /\ PopStack
      /\ PrevInnerLends
      /\ inners' = [inners EXCEPT
                        ![Parent.child[slot].id] = left,
                        ![Parent.child[slot + 1].id] = right,
                        ![Top.id] = SetAugmentation(
                                        SetAugmentation(SetKey(Parent, slot, k),
                                                        slot, FromInner(left.aug)),
                                        slot + 1, FromInner(right.aug))]
      /\ r' = Done(r.kv)
      /\ UNCHANGED <<root, rootAug, len, leaves, taken, cached, pc, call, node, ret>>
  BY DEF RotateRightInner, Ascending
<1>2. /\ Current.kind = "inner" /\ InnerUnderSize(inners[Current.id]) /\ r.kv \in Pair
  BY <1>1, RemoveFields
<1>3. /\ Top.idx \in 1 .. Len(Parent.keys) + 1 /\ Len(Parent.keys) \in Nat
      /\ Current = Parent.child[Top.idx]
      /\ IsInner(Parent, Key, NodesAt(Len(leaves), h, h[Top.id] - 1))
  BY <1>1, TopFacts
<1>4. Top.idx > 1 /\ InnerAbleToLend(prev)
  BY <1>1 DEF PrevInnerLends, HasPrev
<1>5. /\ slot \in 1 .. Len(Parent.keys) /\ slot \in 1 .. Len(Parent.keys) + 1
      /\ slot + 1 \in 1 .. Len(Parent.keys) + 1 /\ slot + 1 = Top.idx
  BY <1>3, <1>4
<1> HIDE DEF slot
<1>6. IsInner(prev, Key, D) /\ Len(prev.keys) <= INNER_N
  BY <1>1, <1>2, <1>5, InnerSiblings
<1>7. /\ IsInner(InnerAt(slot + 1), Key, D) /\ InnerUnderSize(InnerAt(slot + 1))
  <2>1. /\ InnerAt(slot + 1) = inners[Parent.child[slot + 1].id]
        /\ IsInner(InnerAt(slot + 1), Key, D)
    BY <1>1, <1>2, <1>5, InnerSiblings
  <2> QED
    BY <1>2, <1>3, <1>5, <2>1
<1>8. Parent.keys[slot] \in Key
  BY <1>3, <1>5, InnerParts, ElementOfSeq
<1> HIDE DEF prev, D
<1>9. /\ prev.keys \in Seq(Key) /\ prev.child \in Seq(D) /\ prev.aug \in Seq(Nat)
      /\ Len(prev.keys) \in Nat /\ Len(prev.keys) > 0
      /\ Len(prev.child) > 0 /\ Len(prev.aug) > 0
  BY <1>4, <1>6, InnerParts, InnerAssumption DEF IsInner, InnerAbleToLend, InnerSize, MIN_N
<1>10. k \in Key /\ child \in D /\ aug \in Nat
  BY <1>9, EndsType
<1>11. IsInner(left, Key, D) /\ Len(left.keys) <= INNER_N
  <2>1. IsInner(left, Key, D) /\ Len(left.keys) = Len(prev.keys) - 1
    BY <1>6, <1>9, PopInnerType
  <2> HIDE DEF left
  <2> QED
    BY <1>6, <1>9, <2>1, InnerAssumption
<1>12. IsInner(right, Key, D) /\ Len(right.keys) <= INNER_N
  <2> HIDE DEF child, aug
  <2>1. IsInner(right, Key, D) /\ Len(right.keys) = Len(InnerAt(slot + 1).keys) + 1
    BY ONLY <1>7, <1>8, <1>10, PushInnerType DEF right
  <2>2. Len(InnerAt(slot + 1).keys) \in Nat /\ Len(InnerAt(slot + 1).keys) < MIN_N
    BY <1>7, InnerParts DEF InnerUnderSize, InnerSize
  <2> HIDE DEF right
  <2> QED
    BY <2>1, <2>2, InnerAssumption DEF MIN_N
<1> HIDE DEF k, child, aug, left, right
<1> QED
  BY <1>1, <1>2, <1>5, <1>10, <1>11, <1>12, RotateInnerOK DEF D

\* The first child of the right node moves to the left one.
LEMMA RotateLeftInnerOK ==
  ASSUME NEW h, Good(h), RotateLeftInner
  PROVE  Good(h)'
<1> DEFINE slot  == Top.idx
           next  == InnerAt(slot + 1)
           right == PopFrontInner(next)
           child == next.child[1]
           aug   == next.aug[1]
           left  == PushInner(InnerAt(slot), Parent.keys[slot], child, aug)
           k     == next.keys[1]
           D     == NodesAt(Len(leaves), h, h[Top.id] - 1 - 1)
<1>1. /\ pc = "remove_ascend" /\ stack # <<>> /\ r.tag = "InnerUnderSize" /\ PopStack
      /\ NextInnerLends
      /\ inners' = [inners EXCEPT
                        ![Parent.child[slot].id] = left,
                        ![Parent.child[slot + 1].id] = right,
                        ![Top.id] = SetAugmentation(
                                        SetAugmentation(SetKey(Parent, slot, k),
                                                        slot, FromInner(left.aug)),
                                        slot + 1, FromInner(right.aug))]
      /\ r' = Done(r.kv)
      /\ UNCHANGED <<root, rootAug, len, leaves, taken, cached, pc, call, node, ret>>
  BY DEF RotateLeftInner, Ascending
<1>2. /\ Current.kind = "inner" /\ InnerUnderSize(inners[Current.id]) /\ r.kv \in Pair
  BY <1>1, RemoveFields
<1>3. /\ Top.idx \in 1 .. Len(Parent.keys) + 1 /\ Len(Parent.keys) \in Nat
      /\ Current = Parent.child[Top.idx]
      /\ IsInner(Parent, Key, NodesAt(Len(leaves), h, h[Top.id] - 1))
  BY <1>1, TopFacts
<1>4. Top.idx <= Len(Parent.keys) /\ InnerAbleToLend(next)
  BY <1>1 DEF NextInnerLends, HasNext, InnerSize
<1>5. /\ slot \in 1 .. Len(Parent.keys) /\ slot \in 1 .. Len(Parent.keys) + 1
      /\ slot + 1 \in 1 .. Len(Parent.keys) + 1
  BY <1>3, <1>4
<1>6. IsInner(next, Key, D) /\ Len(next.keys) <= INNER_N
  BY <1>1, <1>2, <1>5, InnerSiblings
<1>7. IsInner(InnerAt(slot), Key, D) /\ InnerUnderSize(InnerAt(slot))
  <2>1. InnerAt(slot) = inners[Parent.child[slot].id] /\ IsInner(InnerAt(slot), Key, D)
    BY <1>1, <1>2, <1>5, InnerSiblings
  <2> QED
    BY <1>2, <1>3, <2>1
<1>8. Parent.keys[slot] \in Key
  BY <1>3, <1>5, InnerParts, ElementOfSeq
<1> HIDE DEF slot, next, D
<1>9. /\ next.keys \in Seq(Key) /\ next.child \in Seq(D) /\ next.aug \in Seq(Nat)
      /\ Len(next.keys) \in Nat /\ Len(next.keys) > 0
      /\ Len(next.child) > 0 /\ Len(next.aug) > 0
  BY <1>4, <1>6, InnerParts, InnerAssumption DEF IsInner, InnerAbleToLend, InnerSize, MIN_N
<1>10. k \in Key /\ child \in D /\ aug \in Nat
  BY <1>9, EndsType
<1>11. IsInner(right, Key, D) /\ Len(right.keys) <= INNER_N
  <2>1. IsInner(right, Key, D) /\ Len(right.keys) = Len(next.keys) - 1
    BY <1>6, <1>9, PopInnerType
  <2> HIDE DEF right
  <2> QED
    BY <1>6, <1>9, <2>1, InnerAssumption
<1>12. IsInner(left, Key, D) /\ Len(left.keys) <= INNER_N
  <2> HIDE DEF child, aug
  <2>1. IsInner(left, Key, D) /\ Len(left.keys) = Len(InnerAt(slot).keys) + 1
    BY ONLY <1>7, <1>8, <1>10, PushInnerType DEF left
  <2>2. Len(InnerAt(slot).keys) \in Nat /\ Len(InnerAt(slot).keys) < MIN_N
    BY <1>7, InnerParts DEF InnerUnderSize, InnerSize
  <2> HIDE DEF left
  <2> QED
    BY <2>1, <2>2, InnerAssumption DEF MIN_N
<1> HIDE DEF k, child, aug, left, right
<1> QED
  BY <1>1, <1>2, <1>5, <1>10, <1>11, <1>12, RotateInnerOK DEF D, next

(***************************************************************************)
(* Two inner nodes become one.  One of the two is undersized and the other *)
(* cannot lend, so they fit in one with the separator between them.        *)
(***************************************************************************)
LEMMA MergeInnerOK ==
  ASSUME NEW h, Good(h), MergeInner
  PROVE  Good(h)'
<1> DEFINE slot == IF HasPrev THEN Top.idx - 1 ELSE Top.idx
           left == MergeNext(InnerAt(slot), Parent.keys[slot], InnerAt(slot + 1))
           p    == MergedParent(slot, FromInner(left.aug))
           a    == Parent.child[slot].id
           b    == Parent.child[slot + 1].id
           D    == NodesAt(Len(leaves), h, h[Top.id] - 1 - 1)
<1>1. /\ pc = "remove_ascend" /\ stack # <<>> /\ r.tag = "InnerUnderSize" /\ PopStack
      /\ ~PrevInnerLends /\ ~NextInnerLends /\ (HasPrev \/ HasNext)
      /\ inners' = [inners EXCEPT ![a] = left, ![Top.id] = p]
      /\ takenInners' = takenInners \cup {b}
      /\ r' = AfterMerge(p, r.kv)
      /\ UNCHANGED <<root, rootAug, len, leaves, takenLeaves, cached, pc, call, node, ret>>
  BY DEF MergeInner, Ascending
<1>2. /\ Current.kind = "inner" /\ InnerUnderSize(inners[Current.id]) /\ r.kv \in Pair
  BY <1>1, RemoveFields
<1>3. /\ Top.idx \in 1 .. Len(Parent.keys) + 1 /\ Len(Parent.keys) \in Nat
      /\ Current = Parent.child[Top.idx] /\ Top.id \in DOMAIN inners
      /\ IsInner(Parent, Key, NodesAt(Len(leaves), h, h[Top.id] - 1))
  BY <1>1, TopFacts
<1>4. /\ slot \in 1 .. Len(Parent.keys) /\ slot \in 1 .. Len(Parent.keys) + 1
      /\ slot + 1 \in 1 .. Len(Parent.keys) + 1
      /\ \/ slot + 1 = Top.idx /\ ~InnerAbleToLend(InnerAt(slot))
         \/ slot = Top.idx /\ ~InnerAbleToLend(InnerAt(slot + 1))
  <2>1. CASE HasPrev
    BY SMTT(60), <1>1, <1>3, <2>1 DEF HasPrev, HasNext, InnerSize, PrevInnerLends
  <2>2. CASE ~HasPrev
    BY SMTT(60), <1>1, <1>3, <2>2 DEF HasPrev, HasNext, InnerSize, NextInnerLends
  <2> QED
    BY <2>1, <2>2
<1> HIDE DEF slot
<1>5. StoreOK(leaves, inners, h) /\ Scalars
  BY DEF Good
<1>6. /\ IsInner(InnerAt(slot), Key, D) /\ InnerAt(slot) = inners[a]
      /\ a \in DOMAIN inners /\ h[a] = h[Top.id] - 1 /\ h[a] <= h[Top.id]
  BY <1>1, <1>2, <1>4, InnerSiblings
<1>7. IsInner(InnerAt(slot + 1), Key, D) /\ InnerAt(slot + 1) = inners[b] /\ b \in Nat
  BY <1>1, <1>2, <1>4, InnerSiblings
<1>8. Parent.keys[slot] \in Key
  BY <1>3, <1>4, InnerParts, ElementOfSeq
<1>9. /\ IsInner(left, Key, D)
      /\ Len(left.keys) = (Len(InnerAt(slot).keys) + 1) + Len(InnerAt(slot + 1).keys)
  <2> DEFINE x == InnerAt(slot)
             y == InnerAt(slot + 1)
             k == Parent.keys[slot]
  <2>1. IsInner(x, Key, D) /\ IsInner(y, Key, D) /\ k \in Key
    BY <1>6, <1>7, <1>8
  <2>2. left = MergeNext(x, k, y)
    OBVIOUS
  <2> HIDE DEF D, x, y, k, left
  <2>3. /\ IsInner(MergeNext(x, k, y), Key, D)
        /\ Len(MergeNext(x, k, y).keys) = MergedSize(x, y)
    BY ONLY <2>1, MergeNextType
  <2> QED
    BY <2>2, <2>3 DEF x, y, MergedSize
<1>10. Len(left.keys) <= INNER_N
  <2>1. Len(InnerAt(slot).keys) \in Nat /\ Len(InnerAt(slot + 1).keys) \in Nat
    BY <1>6, <1>7, InnerParts
  <2>2. \A x, y \in Nat : x <= MIN_N /\ y < MIN_N =>
            (x + 1) + y <= INNER_N /\ (y + 1) + x <= INNER_N
    BY InnerAssumption DEF MIN_N
  <2>3. \/ Len(InnerAt(slot).keys) <= MIN_N /\ Len(InnerAt(slot + 1).keys) < MIN_N
        \/ Len(InnerAt(slot + 1).keys) <= MIN_N /\ Len(InnerAt(slot).keys) < MIN_N
    <3>1. MIN_N \in Nat
      BY InnerAssumption DEF MIN_N
    <3> HIDE DEF left, p
    <3>2. CASE slot + 1 = Top.idx /\ ~InnerAbleToLend(InnerAt(slot))
      <4>1. InnerUnderSize(InnerAt(slot + 1))
        BY <1>2, <1>3, <1>7, <3>2
      <4> QED
        BY <2>1, <3>1, <3>2, <4>1 DEF InnerAbleToLend, InnerUnderSize, InnerSize
    <3>3. CASE slot = Top.idx /\ ~InnerAbleToLend(InnerAt(slot + 1))
      <4>1. InnerUnderSize(InnerAt(slot))
        BY <1>2, <1>3, <1>6, <3>3
      <4> QED
        BY <2>1, <3>1, <3>3, <4>1 DEF InnerAbleToLend, InnerUnderSize, InnerSize
    <3> QED
      BY <1>4, <3>2, <3>3
  <2> QED
    BY ONLY <1>9, <2>1, <2>2, <2>3
<1> HIDE DEF left
<1>11. FromInner(left.aug) \in Nat
  BY <1>9, InnerParts, TotalType DEF FromInner
<1>12. /\ IsInner(p, Key, NodesAt(Len(leaves), h, h[Top.id] - 1))
       /\ Len(p.keys) <= INNER_N
       /\ r' \in RemoveResults /\ r'.tag # "LeafUnderSize"
       /\ r'.tag = "InnerUnderSize" => InnerUnderSize(p)
  BY <1>1, <1>2, <1>4, <1>11, AfterMergeOK
<1> HIDE DEF p
<1>13. IsInner(left, Key, NodesAt(Len(leaves), h, h[a] - 1))
  BY <1>6, <1>9
<1> HIDE DEF a, b, D
<1>14. /\ StoreOK(leaves, inners', h) /\ inners'[Top.id] = p
       /\ SameAbove(inners, h, inners', h, h[Top.id])
  <2>1. inners' = [inners EXCEPT ![a] = left, ![Top.id] = p]
    BY <1>1
  <2> QED
    BY ONLY ZenonT(60), <1>3, <1>5, <1>6, <1>10, <1>12, <1>13, <2>1, WriteTwo
<1>15. StoreOK(leaves', inners', h) /\ Grows(Len(leaves), h, Len(leaves'), h)
  BY <1>1, <1>14, GrowsNot
<1>16. /\ takenLeaves' \subseteq Nat /\ takenInners' \subseteq Nat
       /\ cached' \in DOMAIN leaves' \cup {None}
  BY <1>1, <1>5, <1>7 DEF Scalars
<1> QED
  BY <1>1, <1>12, <1>14, <1>15, <1>16, AscendOK

-----------------------------------------------------------------------------
(* get, get_mut, clear and the calls                                       *)

\* What a lookup in a leaf yields.
LEMMA ValueOfType ==
  ASSUME NEW leaf \in LeafOver(Pair), NEW k \in Key
  PROVE  ValueOf(leaf, k) \in Value \cup Pair \cup {None}
<1>1. CASE HasKey(leaf, k)
  <2>1. k \in Int /\ leaf.data \in Seq(Pair)
    BY KeyAssumption DEF LeafOver
  <2>2. LocateSlot(leaf, k) \in 1 .. Len(leaf.data)
    BY <1>1, <2>1, LocateSlotType
  <2>3. leaf.data[LocateSlot(leaf, k)] \in Pair
    BY <2>1, <2>2, ElementOfSeq
  <2> QED
    BY <1>1, <2>3 DEF ValueOf, Pair
<1>2. CASE ~HasKey(leaf, k)
  BY <1>2 DEF ValueOf
<1> QED
  BY <1>1, <1>2

\* A write to the value of one entry.
LEMMA SetValueOK ==
  ASSUME NEW h, StoreOK(leaves, inners, h), NEW id \in DOMAIN leaves,
         NEW slot \in 1 .. Len(leaves[id].data), NEW v \in Value,
         leaves' = [leaves EXCEPT ![id] = SetValue(leaves[id], slot, v)]
  PROVE  StoreOK(leaves', inners, h) /\ Len(leaves') = Len(leaves)
<1> DEFINE leaf == leaves[id]
           new  == SetValue(leaf, slot, v)
<1>1. leaf \in LeafOver(Pair) /\ Len(leaf.data) <= LEAF_N
  BY StoreParts DEF StoreOK
<1>2. leaf.data \in Seq(Pair)
  BY <1>1 DEF LeafOver
<1>3. leaves' = [leaves EXCEPT ![id] = new]
  OBVIOUS
<1>4. slot \in 1 .. Len(leaf.data)
  OBVIOUS
<1> HIDE DEF leaf
<1>5. leaf.data[slot] \in Pair
  BY <1>2, <1>4, ElementOfSeq
<1>6. <<leaf.data[slot][1], v>> \in Pair
  BY <1>5 DEF Pair
<1>7. new \in LeafOver(Pair) /\ Len(new.data) = Len(leaf.data)
  BY <1>1, <1>4, <1>6, SetValueType
<1>8. Len(new.data) <= LEAF_N
  BY <1>1, <1>7
<1> HIDE DEF new
<1>9. /\ StoreOK([leaves EXCEPT ![id] = new], inners, h)
      /\ Len([leaves EXCEPT ![id] = new]) = Len(leaves)
  <2>1. new \in LeafOver(Pair)
    BY <1>7
  <2> QED
    BY <1>8, <2>1, SetLeafOK
<1> QED
  BY <1>3, <1>9

\* The caller's write through the reference of get_mut.
LEMMA WriteBackOK ==
  ASSUME NEW h, StoreOK(leaves, inners, h), NEW id \in DOMAIN leaves,
         NEW k \in Key, NEW v \in Value, WriteBack(id, k, v)
  PROVE  StoreOK(leaves', inners, h) /\ Len(leaves') = Len(leaves)
<1>1. CASE HasKey(leaves[id], k)
  <2>1. leaves[id] \in LeafOver(Pair)
    BY StoreParts DEF StoreOK
  <2>2. k \in Int
    BY KeyAssumption
  <2>3. LocateSlot(leaves[id], k) \in 1 .. Len(leaves[id].data)
    BY <1>1, <2>1, <2>2, LocateSlotType
  <2>4. leaves' = [leaves EXCEPT ![id] =
                      SetValue(leaves[id], LocateSlot(leaves[id], k), v)]
    BY <1>1 DEF WriteBack
  <2> QED
    BY <2>3, <2>4, SetValueOK
<1>2. CASE ~HasKey(leaves[id], k)
  BY <1>2 DEF WriteBack
<1> QED
  BY <1>1, <1>2

\* What the calls in progress of get and get_mut hold.
LEMMA FindFields ==
  ASSUME NEW h, Good(h), pc = "find_descend"
  PROVE  /\ call.k \in Key /\ call.op \in {"get", "get_mut"}
         /\ call.op = "get_mut" => call.v \in Value
         /\ stack = <<>> /\ node \in NodeId
         /\ node.kind = "leaf" => node.id \in DOMAIN leaves
         /\ node.kind = "inner" => node.id \in DOMAIN inners
<1>1. /\ call \in Calls /\ call.op \in {"get", "get_mut"} /\ stack = <<>>
      /\ StoreOK(leaves, inners, h)
      /\ node \in NodesAt(Len(leaves), h, HeightOf(h, node))
  BY DEF Good, Scalars, Locals, IsAt
<1>2. call.k \in Key /\ (call.op = "get_mut" => call.v \in Value)
  BY <1>1 DEF Calls, NoCall
<1> QED
  BY <1>1, <1>2, IdKnown

\* find_descend goes one level down, and keeps no path.
LEMMA FindDescendOK ==
  ASSUME NEW h, Good(h), FindDescend
  PROVE  Good(h)'
<1>1. /\ pc = "find_descend" /\ node.kind = "inner"
      /\ node' = inners[node.id].child[LocateChild(inners[node.id], call.k)]
      /\ UNCHANGED <<root, rootAug, len, leaves, inners, takenLeaves, takenInners, cached>>
      /\ UNCHANGED <<pc, call, stack, r, ret>>
  BY DEF FindDescend, AtInner, tree, store, taken
<1>2. /\ StoreOK(leaves, inners, h) /\ IsAt(h, root, HeightOf(h, root)) /\ Scalars
      /\ Path(h) /\ Locals(h) /\ ResultOK(h)
  BY DEF Good
<1>3. node.id \in DOMAIN inners
  BY <1>1, FindFields
<1>4. LocateChild(inners[node.id], call.k) \in DOMAIN inners[node.id].child
  <2>1. IsInner(inners[node.id], Key, NodesAt(Len(leaves), h, h[node.id] - 1))
    BY <1>2, <1>3 DEF StoreOK
  <2> QED
    BY <2>1, LocateChildType
<1>5. node' \in NodeId /\ node' \in NodesAt(Len(leaves), h, HeightOf(h, node'))
  BY <1>1, <1>2, <1>3, <1>4, ChildAt
<1>6. StoreOK(leaves, inners, h)' /\ IsAt(h, root, HeightOf(h, root))'
  BY <1>1, <1>2 DEF IsAt, HeightOf
<1>7. Scalars'
  BY <1>1, <1>2, <1>5 DEF Scalars
<1>8. Path(h)'
  BY <1>1, <1>2 DEF Path
<1>9. Locals(h)' /\ ResultOK(h)'
  <2>1. IsAt(h, node, HeightOf(h, node))'
    BY <1>1, <1>5 DEF IsAt, HeightOf
  <2> QED
    BY <1>1, <1>2, <2>1 DEF Locals, ResultOK, Descending
<1> QED
  BY <1>6, <1>7, <1>8, <1>9 DEF Good

\* A lookup ends in the leaf id, which get_mut may write; the tree stays as it is.
LEMMA LookupReturnOK ==
  ASSUME NEW h, Good(h), NEW id \in DOMAIN leaves, NEW k \in Key,
         Return(ValueOf(leaves[id], k)),
         StoreOK(leaves', inners, h), Len(leaves') = Len(leaves), cached' = id,
         UNCHANGED <<root, rootAug, len, inners, taken>>
  PROVE  Good(h)'
<1>1. StoreOK(leaves, inners, h) /\ IsAt(h, root, HeightOf(h, root)) /\ Scalars
  BY DEF Good
<1>2. ValueOf(leaves[id], k) \in Value \cup Pair \cup {None}
  BY <1>1, StoreParts, ValueOfType
<1>3. /\ StoreOK(leaves', inners', h)
      /\ root' \in NodesAt(Len(leaves'), h, HeightOf(h, root'))
  BY <1>1 DEF IsAt
<1>4. /\ rootAug' \in Nat /\ len' \in Int
      /\ takenLeaves' \subseteq Nat /\ takenInners' \subseteq Nat
  BY <1>1 DEF Scalars, taken
<1>5. cached' \in DOMAIN leaves' \cup {None}
  <2>1. DOMAIN leaves' = DOMAIN leaves
    BY <1>1, StoreParts
  <2> QED
    BY <2>1
<1> QED
  BY <1>2, <1>3, <1>4, <1>5, ReturnOK

\* The lookup that ends a descent of get or get_mut.
LEMMA FindInLeafOK ==
  ASSUME NEW h, Good(h), FindInLeaf
  PROVE  Good(h)'
<1>1. /\ pc = "find_descend" /\ node.kind = "leaf" /\ cached' = node.id
      /\ IF call.op = "get_mut" THEN WriteBack(node.id, call.k, call.v)
                                ELSE UNCHANGED leaves
      /\ Return(ValueOf(leaves[node.id], call.k))
      /\ UNCHANGED <<root, rootAug, len, inners, taken>>
  BY DEF FindInLeaf, AtLeaf
<1>2. /\ call.k \in Key /\ node.id \in DOMAIN leaves
      /\ call.op = "get_mut" => call.v \in Value
  BY <1>1, FindFields
<1>3. StoreOK(leaves, inners, h)
  BY DEF Good
<1>4. StoreOK(leaves', inners, h) /\ Len(leaves') = Len(leaves)
  BY <1>1, <1>2, <1>3, WriteBackOK
<1> QED
  BY <1>1, <1>2, <1>4, LookupReturnOK

\* The write through the reference of get_mut_by_augmentation, which returns.
LEMMA GetMutInLeafOK ==
  ASSUME NEW h, Good(h), GetMutInLeaf
  PROVE  Good(h)'
<1> DEFINE leaf == leaves[node.id]
           ks   == LeafKeys(leaf)
           slot == LocateInLeaf(call.query, ks)
<1>1. /\ pc = "get_ref_by_augmentation" /\ node.kind = "leaf"
      /\ call.op = "get_mut_by_augmentation" /\ slot # 0
      /\ leaves' = [leaves EXCEPT ![node.id] = SetValue(leaf, slot, call.v)]
      /\ Return(leaf.data[slot][2])
      /\ UNCHANGED <<root, rootAug, len, inners, taken, cached>>
  BY DEF GetMutInLeaf, AtLeaf
<1>2. /\ leaf \in LeafOver(Pair) /\ node.id \in DOMAIN leaves
      /\ call.query \in Nat /\ call.v \in Value
  BY <1>1, LeafReached, RemoveCallFields DEF Descending
<1>3. Len(ks) = Len(leaf.data) /\ Len(leaf.data) \in Nat /\ leaf.data \in Seq(Pair)
  BY <1>2, LeafKeysLen DEF LeafOver
<1>4. slot \in 1 .. Len(leaf.data)
  <2> HIDE DEF ks, leaf
  <2> QED
    BY <1>1, <1>2, <1>3 DEF LocateInLeaf
<1>5. leaf.data[slot][2] \in Value \cup Pair \cup {None}
  <2> HIDE DEF leaf, slot
  <2>1. leaf.data[slot] \in Pair
    BY <1>3, <1>4, ElementOfSeq
  <2> QED
    BY <2>1 DEF Pair
<1>6. /\ StoreOK(leaves, inners, h) /\ Scalars
      /\ root \in NodesAt(Len(leaves), h, HeightOf(h, root))
  BY DEF Good, IsAt
<1>7. StoreOK(leaves', inners, h) /\ Len(leaves') = Len(leaves)
  <2> HIDE DEF slot
  <2> QED
    BY <1>1, <1>2, <1>4, <1>6, SetValueOK
<1>8. /\ StoreOK(leaves', inners', h)
      /\ root' \in NodesAt(Len(leaves'), h, HeightOf(h, root'))
  BY <1>1, <1>6, <1>7
<1>9. /\ rootAug' \in Nat /\ len' \in Int
      /\ takenLeaves' \subseteq Nat /\ takenInners' \subseteq Nat
      /\ cached' \in DOMAIN leaves' \cup {None}
  BY <1>1, <1>6 DEF Scalars, taken
<1> HIDE DEF leaf, slot
<1> QED
  BY <1>1, <1>5, <1>8, <1>9, ReturnOK

\* The cached leaf answers.
LEMMA GetCachedOK ==
  ASSUME NEW h, Good(h), NEW k \in Key, GetCached(k)
  PROVE  Good(h)'
<1>1. CacheHit(k) /\ Return(ValueOf(leaves[cached], k)) /\ UNCHANGED tree
  BY DEF GetCached
<1>2. StoreOK(leaves, inners, h) /\ cached \in DOMAIN leaves
  BY <1>1 DEF Good, Scalars, CacheHit
<1>3. ValueOf(leaves[cached], k) \in Value \cup Pair \cup {None}
  BY <1>2, StoreParts, ValueOfType
<1> QED
  BY <1>1, <1>3, ReturnOnlyOK

\* The cached leaf answers, and the caller may write through the reference.
LEMMA GetMutCachedOK ==
  ASSUME NEW h, Good(h), NEW k \in Key, NEW v \in Value, GetMutCached(k, v)
  PROVE  Good(h)'
<1>1. /\ CacheHit(k) /\ WriteBack(cached, k, v)
      /\ Return(ValueOf(leaves[cached], k))
      /\ UNCHANGED <<root, rootAug, len, inners, taken, cached>>
  BY DEF GetMutCached
<1>2. StoreOK(leaves, inners, h) /\ cached \in DOMAIN leaves
  BY <1>1 DEF Good, Scalars, CacheHit
<1>3. StoreOK(leaves', inners, h) /\ Len(leaves') = Len(leaves)
  BY <1>1, <1>2, WriteBackOK
<1> QED
  BY <1>1, <1>2, <1>3, LookupReturnOK

\* A tree with one empty leaf, as new and clear make it.
LEMMA EmptyStoreOK ==
  ASSUME NEW L, NEW I, L = <<EmptyLeaf>>, I = <<>>
  PROVE  \E h : StoreOK(L, I, h) /\ Leaf(1) \in NodesAt(Len(L), h, 0)
<1> DEFINE h == [i \in {} |-> 0]
<1>1. EmptyLeaf \in LeafRec /\ Len(EmptyLeaf.data) = 0
  BY DEF EmptyLeaf, LeafRec
<1>2. /\ L \in Seq(LeafRec) /\ Len(L) = 1 /\ DOMAIN L = {1} /\ L[1] = EmptyLeaf
  <2> HIDE DEF h
  <2> QED
    BY <1>1
<1>3. I \in Seq(InnerRec) /\ Len(I) = 0 /\ DOMAIN I = {}
  OBVIOUS
<1>4. h \in [DOMAIN I -> 1 .. Len(I)]
  BY <1>3
<1>5. StoreOK(L, I, h)
  <2> HIDE DEF h
  <2> QED
    BY <1>1, <1>2, <1>3, <1>4, LeafAssumption DEF StoreOK
<1>6. Leaf(1) \in NodesAt(Len(L), h, 0)
  <2> HIDE DEF h
  <2> QED
    BY <1>2 DEF NodesAt
<1> QED
  BY <1>5, <1>6

\* clear leaves a new tree.
LEMMA ClearOK ==
  ASSUME Clear
  PROVE  \E g : Good(g)'
<1>1. /\ leaves' = <<EmptyLeaf>> /\ inners' = <<>>
      /\ takenLeaves' = {} /\ takenInners' = {}
      /\ root' = Leaf(1) /\ rootAug' = 0 /\ len' = 0 /\ cached' = None
      /\ Return(None)
  BY DEF Clear
<1>2. PICK g : StoreOK(leaves', inners', g) /\ Leaf(1) \in NodesAt(Len(leaves'), g, 0)
  BY <1>1, EmptyStoreOK
<1>3. root' \in NodesAt(Len(leaves'), g, HeightOf(g, root'))
  BY <1>1, <1>2 DEF HeightOf, Leaf
<1>4. Good(g)'
  BY <1>1, <1>2, <1>3, ReturnOK
<1> QED
  BY <1>4

\* A new tree is good.
LEMMA InitOK == Init => \E h : Good(h)
<1> SUFFICES ASSUME Init PROVE \E h : Good(h)
  OBVIOUS
<1>1. /\ leaves = <<EmptyLeaf>> /\ inners = <<>> /\ root = Leaf(1)
      /\ takenLeaves = {} /\ takenInners = {} /\ rootAug = 0 /\ len = 0 /\ cached = None
      /\ pc = "idle" /\ call = NoCall /\ node = None
      /\ stack = <<>> /\ r = None /\ ret = None
  BY DEF Init
<1>2. PICK h : StoreOK(leaves, inners, h) /\ Leaf(1) \in NodesAt(Len(leaves), h, 0)
  BY <1>1, EmptyStoreOK
<1>3. IsAt(h, root, HeightOf(h, root))
  BY <1>1, <1>2 DEF IsAt, HeightOf, Leaf
<1>4. Scalars
  BY <1>1 DEF Scalars, Leaf, NodeId, Calls, Results
<1>5. Path(h) /\ Locals(h) /\ ResultOK(h)
  BY <1>1 DEF Path, IsPath, Locals, ResultOK, Descending
<1>6. Good(h)
  BY <1>2, <1>3, <1>4, <1>5 DEF Good
<1> QED
  BY <1>6

\* Every call begins well.
LEMMA CallOK ==
  ASSUME NEW h, Good(h), Call
  PROVE  \E g : Good(g)'
<1>1. ASSUME NEW k \in Key, NEW v \in Value, InsertCall(k, v) PROVE Good(h)'
  <2> DEFINE c == [op |-> "insert", k |-> k, v |-> v]
  <2>1. c \in Calls /\ Fits("insert_inner", c)
    BY DEF Calls, Fits
  <2>2. Enter("insert_inner", c)
    BY <1>1 DEF InsertCall
  <2> QED
    BY <2>1, <2>2, EnterOK
<1>2. ASSUME NEW k \in Key, RemoveCall(k) PROVE Good(h)'
  <2> DEFINE c == [op |-> "remove", k |-> k]
  <2>1. c \in Calls /\ Fits("key_to_ref", c)
    BY DEF Calls, Fits
  <2>2. Enter("key_to_ref", c)
    BY <1>2 DEF RemoveCall
  <2> QED
    BY <2>1, <2>2, EnterOK
<1>3. ASSUME NEW i \in 0 .. len, RemoveByAugmentationCall(i) PROVE Good(h)'
  <2> DEFINE c == [op |-> "remove_by_augmentation", i |-> i, query |-> i]
  <2>1. c \in Calls /\ Fits("get_ref_by_augmentation", c)
    BY DEF Calls, Fits, Good, Scalars
  <2>2. Enter("get_ref_by_augmentation", c)
    BY <1>3 DEF RemoveByAugmentationCall
  <2> QED
    BY <2>1, <2>2, EnterOK
<1>4. ASSUME NEW k \in Key, GetCall(k) PROVE Good(h)'
  <2> DEFINE c == [op |-> "get", k |-> k]
  <2>1. c \in Calls /\ Fits("find_descend", c)
    BY DEF Calls, Fits
  <2>2. Enter("find_descend", c)
    BY <1>4 DEF GetCall
  <2> QED
    BY <2>1, <2>2, EnterOK
<1>5. ASSUME NEW k \in Key, NEW v \in Value, GetMutCall(k, v) PROVE Good(h)'
  <2> DEFINE c == [op |-> "get_mut", k |-> k, v |-> v]
  <2>1. c \in Calls /\ Fits("find_descend", c)
    BY DEF Calls, Fits
  <2>2. Enter("find_descend", c)
    BY <1>5 DEF GetMutCall
  <2> QED
    BY <2>1, <2>2, EnterOK
<1>6. ASSUME NEW k \in Key, GetCached(k) PROVE Good(h)'
  BY <1>6, GetCachedOK
<1>7. ASSUME NEW k \in Key, NEW v \in Value, GetMutCached(k, v) PROVE Good(h)'
  BY <1>7, GetMutCachedOK
<1>8. ASSUME Clear PROVE \E g : Good(g)'
  BY <1>8, ClearOK
<1>9. ASSUME NEW i \in 0 .. len, NEW v \in Value, GetMutByAugmentationCall(i, v)
      PROVE  Good(h)'
  <2> DEFINE c == [op |-> "get_mut_by_augmentation", i |-> i, query |-> i, v |-> v]
  <2>1. c \in Calls /\ Fits("get_ref_by_augmentation", c)
    BY DEF Calls, Fits, Good, Scalars
  <2>2. Enter("get_ref_by_augmentation", c)
    BY <1>9 DEF GetMutByAugmentationCall
  <2> QED
    BY <2>1, <2>2, EnterOK
<1> QED
  BY <1>1, <1>2, <1>3, <1>4, <1>5, <1>6, <1>7, <1>8, <1>9 DEF Call

-----------------------------------------------------------------------------
(* The theorems                                                            *)

\* A step that changes nothing.
LEMMA StutterOK ==
  ASSUME NEW h, Good(h), UNCHANGED vars
  PROVE  Good(h)'
<1>1. /\ UNCHANGED <<root, rootAug, len, leaves, inners, takenLeaves, takenInners, cached>>
      /\ UNCHANGED <<pc, call, node, stack, r, ret>>
  BY DEF vars, tree, frame, store, taken
<1>2. /\ StoreOK(leaves, inners, h) /\ IsAt(h, root, HeightOf(h, root)) /\ Scalars
      /\ Path(h) /\ Locals(h) /\ ResultOK(h)
  BY DEF Good
<1>3. StoreOK(leaves, inners, h)' /\ IsAt(h, root, HeightOf(h, root))'
  BY <1>1, <1>2 DEF IsAt, HeightOf
<1>4. Scalars' /\ Path(h)'
  BY <1>1, <1>2 DEF Scalars, Path
<1>5. Current' = Current
  BY <1>1 DEF Current
<1>6. Locals(h)' /\ ResultOK(h)'
  BY <1>1, <1>2, <1>5 DEF Locals, ResultOK, IsAt, HeightOf
<1> QED
  BY <1>3, <1>4, <1>6 DEF Good

\* Every step of the program leads from a good state to a good state.
LEMMA StepOK ==
  ASSUME NEW h, Good(h), [Next]_vars
  PROVE  \E g : Good(g)'
<1>1. CASE Call
  BY <1>1, CallOK
<1>2. CASE InsertStep
  <2>1. CASE InsertDescend
    BY <2>1, InsertDescendOK
  <2>2. CASE InsertLeafUpdate
    BY <2>2, InsertLeafUpdateOK
  <2>3. CASE InsertLeafInsert
    BY <2>3, InsertLeafInsertOK
  <2>4. CASE InsertLeafSplit
    BY <2>4, InsertLeafSplitOK
  <2>5. CASE InsertAscendSlot
    BY <2>5, InsertAscendSlotOK
  <2>6. CASE InsertAscendSplit
    BY <2>6, InsertAscendSplitOK
  <2>7. CASE InsertAscendInserted
    BY <2>7, InsertAscendInsertedOK
  <2>8. CASE InsertAscendUpdated
    BY <2>8, InsertAscendUpdatedOK
  <2>9. CASE InsertReturnInserted
    BY <2>9, InsertReturnInsertedOK
  <2>10. CASE InsertReturnUpdated
    BY <2>10, InsertReturnUpdatedOK
  <2>11. CASE InsertReturnSplit
    BY <2>11, InsertReturnSplitOK
  <2> QED
    BY <1>2, <2>1, <2>2, <2>3, <2>4, <2>5, <2>6, <2>7, <2>8, <2>9, <2>10, <2>11
       DEF InsertStep
<1>3. CASE RemoveStep
  <2>1. CASE KeyToRefDescend
    BY <2>1, KeyToRefDescendOK
  <2>2. CASE KeyToRefMissing \/ AugmentationMissing
    BY <2>2, RemoveMissingOK
  <2>3. CASE AugmentationDescend
    BY <2>3, AugmentationDescendOK
  <2>4. CASE RemoveInLeaf
    BY <2>4, RemoveInLeafOK
  <2>5. CASE RemoveAscendDone
    BY <2>5, RemoveAscendDoneOK
  <2>6. CASE RotateRightInner
    BY <2>6, RotateRightInnerOK
  <2>7. CASE RotateLeftInner
    BY <2>7, RotateLeftInnerOK
  <2>8. CASE MergeInner
    BY <2>8, MergeInnerOK
  <2>9. CASE RotateRightLeaf
    BY <2>9, RotateRightLeafOK
  <2>10. CASE RotateLeftLeaf
    BY <2>10, RotateLeftLeafOK
  <2>11. CASE MergeLeafLeft
    BY <2>11, MergeLeafLeftOK
  <2>12. CASE MergeLeafRight
    BY <2>12, MergeLeafRightOK
  <2>13. CASE RemoveReturnDone
    BY <2>13, RemoveReturnDoneOK
  <2>14. CASE RemoveReturnInnerUnderSize
    BY <2>14, RemoveReturnInnerUnderSizeOK
  <2>15. CASE RemoveReturnLeafUnderSize
    BY <2>15, RemoveReturnLeafUnderSizeOK
  <2> QED
    BY <1>3, <2>1, <2>2, <2>3, <2>4, <2>5, <2>6, <2>7, <2>8, <2>9, <2>10, <2>11,
       <2>12, <2>13, <2>14, <2>15 DEF RemoveStep
<1>4. CASE FindStep
  BY <1>4, FindDescendOK, FindInLeafOK, GetMutInLeafOK DEF FindStep
<1>5. CASE UNCHANGED vars
  BY <1>5, StutterOK
<1> QED
  BY <1>1, <1>2, <1>3, <1>4, <1>5 DEF Next, Step

(***************************************************************************)
(* The inductive invariant holds at every step of every call, so at every  *)
(* turn of the loops of insert_inner and remove_by_ref.                    *)
(***************************************************************************)
THEOREM Invariance == Spec => []IInv
<1> DEFINE Fine == \E h : Good(h)
<1>1. Init => Fine
  BY InitOK
<1>2. Fine /\ [Next]_vars => Fine'
  <2> SUFFICES ASSUME Fine, [Next]_vars PROVE Fine'
    OBVIOUS
  <2>1. PICK h : Good(h)
    OBVIOUS
  <2>2. PICK g : Good(g)'
    BY <2>1, StepOK
  <2> QED
    BY <2>2
<1>3. Fine => IInv
  BY GoodIsIInv
<1> HIDE DEF Fine
<1> QED
  BY <1>1, <1>2, <1>3, PTL DEF Spec

\* The variables keep their types, and every inner node one more child than keys.
THEOREM TypeCorrect == Spec => []TypeOK
<1>1. IInv => TypeOK
  BY DEF IInv
<1> QED
  BY <1>1, Invariance, PTL

(***************************************************************************)
(* No split, rotation or merge ever writes past the arrays of a node: the  *)
(* unchecked writes of leaf_node.rs and inner_node.rs stay in bounds.      *)
(***************************************************************************)
THEOREM NeverOverflows == Spec => []NoOverflow
<1>1. IInv => NoOverflow
  BY DEF IInv
<1> QED
  BY <1>1, Invariance, PTL

\* All leaves stay at one depth, so siblings are always of one kind.
THEOREM StaysBalanced == Spec => []Balanced
<1>1. IInv => Balanced
  BY DEF IInv, Balanced
<1> QED
  BY <1>1, Invariance, PTL
=============================================================================
