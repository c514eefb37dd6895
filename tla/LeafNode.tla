------------------------------ MODULE LeafNode ------------------------------
(***************************************************************************)
(* A leaf of the tree (src/src/tree/leaf_node.rs) and the operations on it *)
(* as functions from leaf to leaf.  The parallel arrays slot_key and       *)
(* slot_value, cut at size, are one sequence of <<key, value>> pairs;      *)
(* slots count from 1.  Nothing here keeps a sequence within LEAF_N: that  *)
(* the callers never overflow the arrays is a property of the tree.        *)
(***************************************************************************)
EXTENDS Integers, FiniteSets, Sequences, SequencesExt

CONSTANTS LEAF_N,  \* capacity of a leaf (64 in consts.rs)
          None     \* Rust's None

ASSUME LeafAssumption == LEAF_N \in Nat /\ LEAF_N >= 2
ASSUME NoneAssumption == None \notin Nat   \* None is no leaf id

\* LeafNode::new
EmptyLeaf == [data |-> <<>>, prev |-> None, next |-> None]

LeafSize(leaf) == Len(leaf.data)

LeafKeys(leaf) == [i \in DOMAIN leaf.data |-> leaf.data[i][1]]

\* split_origin_size
LeafSplitOriginSize == LEAF_N \div 2

\* minimum_size
LEAF_MIN == IF LEAF_N \div 4 = 0 THEN 1 ELSE LEAF_N \div 4

\* Mutation: full one entry too late.
Mutant_LeafIsFull(leaf) == LeafSize(leaf) > LEAF_N

LeafIsFull(leaf) == LeafSize(leaf) = LEAF_N

\* Mutation: lends at the minimum.
Mutant_LeafAbleToLend(leaf) == LeafSize(leaf) >= LEAF_MIN

LeafAbleToLend(leaf) == LeafSize(leaf) > LEAF_MIN

(***************************************************************************)
(* locate_slot: binary search among the sorted keys.  LocateSlot is the    *)
(* slot of k, or the slot where k is to be inserted; the Ok and Err of the *)
(* code are told apart by HasKey.                                          *)
(***************************************************************************)
LocateSlot(leaf, k) ==
    1 + Cardinality({i \in DOMAIN leaf.data : leaf.data[i][1] < k})

HasKey(leaf, k) == \E i \in DOMAIN leaf.data : leaf.data[i][1] = k

\* locate_slot_with_value: the value of k, or None.
ValueOf(leaf, k) ==
    IF HasKey(leaf, k) THEN leaf.data[LocateSlot(leaf, k)][2] ELSE None

\* Mutation: forgets the upper end.
Mutant_InRange(leaf, k) ==
    /\ leaf.prev # None => leaf.data[1][1] <= k

(***************************************************************************)
(* in_range: the leaf can answer for k without a descent.  A leaf at an    *)
(* end of the chain is unbounded on that side.                             *)
(***************************************************************************)
InRange(leaf, k) ==
    /\ leaf.prev # None => leaf.data[1][1] <= k
    /\ leaf.next # None => k <= leaf.data[LeafSize(leaf)][1]

\* The update branch of try_upsert, and a write through get_mut.
SetValue(leaf, slot, v) == [leaf EXCEPT !.data[slot] = <<@[1], v>>]

\* The insert branch of try_upsert (slice_insert on both arrays).
InsertInLeaf(leaf, slot, item) == [leaf EXCEPT !.data = InsertAt(@, slot, item)]

(***************************************************************************)
(* split_new_leaf: the upper half moves to a new leaf linked between self  *)
(* and self.next, and the item goes to the half its slot falls in.         *)
(***************************************************************************)
SplitNewLeaf(leaf, slot, item, newId, selfId) ==
    LET origin == LeafSplitOriginSize
        low  == SubSeq(leaf.data, 1, origin)
        high == SubSeq(leaf.data, origin + 1, LEAF_N)
    IN  [left  |-> [data |-> IF slot <= origin THEN InsertAt(low, slot, item) ELSE low,
                    prev |-> leaf.prev,
                    next |-> newId],
         right |-> [data |-> IF slot <= origin
                             THEN high ELSE InsertAt(high, slot - origin, item),
                    prev |-> selfId,
                    next |-> leaf.next]]

\* delete_at, and the removal of try_delete_at
DeleteAt(leaf, slot) == [leaf EXCEPT !.data = RemoveAt(@, slot)]

\* pop and pop_front: what stays; the popped pair is Last / Head of the data.
PopLeaf(leaf) == [leaf EXCEPT !.data = Front(@)]
PopFrontLeaf(leaf) == [leaf EXCEPT !.data = Tail(@)]

\* delete_with_push
DeleteWithPush(leaf, slot, item) ==
    [leaf EXCEPT !.data = Append(RemoveAt(@, slot), item)]

\* delete_with_push_front
DeleteWithPushFront(leaf, slot, item) ==
    [leaf EXCEPT !.data = <<item>> \o RemoveAt(@, slot)]

\* Mutation: forgets the deletion.
Mutant_MergeRightDeleteFirst(leaf, slot, right) ==
    [leaf EXCEPT !.data = @ \o right.data, !.next = right.next]

\* merge_right_delete_first: delete in the right leaf, then append it to self.
MergeRightDeleteFirst(leaf, slot, right) ==
    [leaf EXCEPT !.data = (@ \o SubSeq(right.data, 1, slot - 1))
                          \o SubSeq(right.data, slot + 1, Len(right.data)),
                 !.next = right.next]

\* Mutation: leaves the link to the leaf that is gone.
Mutant_MergeRight(leaf, right) == [leaf EXCEPT !.data = @ \o right.data]

\* merge_right
MergeRight(leaf, right) ==
    [leaf EXCEPT !.data = @ \o right.data, !.next = right.next]
=============================================================================
