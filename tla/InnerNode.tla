----------------------------- MODULE InnerNode ------------------------------
(***************************************************************************)
(* An inner node (src/src/tree/inner_node.rs) and the operations on it as  *)
(* functions from node to node: keys separate children, and each child has *)
(* its augmentation beside it, so child and aug are one longer than keys.  *)
(* Slots and children count from 1: slot s lies between children s and     *)
(* s + 1.  As for leaves, nothing here enforces the capacity INNER_N.      *)
(***************************************************************************)
EXTENDS Integers, FiniteSets, Sequences, SequencesExt

CONSTANT INNER_N   \* capacity of an inner node, in keys (64 in consts.rs)

ASSUME InnerAssumption == INNER_N \in Nat /\ INNER_N >= 4

\* consts::MIN_N, the minimum_size of an inner node
MIN_N == INNER_N \div 4

InnerSize(n) == Len(n.keys)

\* split_origin_size
InnerSplitOriginSize == INNER_N \div 2

InnerIsFull(n) == InnerSize(n) = INNER_N

\* Mutation: lends at the minimum.
Mutant_InnerAbleToLend(n) == InnerSize(n) >= MIN_N

InnerAbleToLend(n) == InnerSize(n) > MIN_N

\* Mutation: a key equal to a separator goes to the left of it.
Mutant_LocateChild(n, k) ==
    1 + Cardinality({i \in DOMAIN n.keys : n.keys[i] < k})

(***************************************************************************)
(* locate_child: a key equal to a separator goes to the right of it.       *)
(***************************************************************************)
LocateChild(n, k) == 1 + Cardinality({i \in DOMAIN n.keys : n.keys[i] <= k})

\* Mutation: the augmentation is not stored.
Mutant_SetAugmentation(n, c, a) == n

\* set_augmentation
SetAugmentation(n, c, a) == [n EXCEPT !.aug[c] = a]

\* Mutation: the separator is not replaced.
Mutant_SetKey(n, slot, k) == n

\* set_key
SetKey(n, slot, k) == [n EXCEPT !.keys[slot] = k]

\* insert_at: the key in the slot, its right child after it.
InsertSlot(n, slot, k, child, a) ==
    [keys  |-> InsertAt(n.keys, slot, k),
     child |-> InsertAt(n.child, slot + 1, child),
     aug   |-> InsertAt(n.aug, slot + 1, a)]

\* The keys from .. to of a node, with the children around them (move_to_slice).
Part(n, from, to) == [keys  |-> SubSeq(n.keys, from, to),
                      child |-> SubSeq(n.child, from, to + 1),
                      aug   |-> SubSeq(n.aug, from, to + 1)]

\* Mutation: the new right node takes the augmentations from before the insertion.
Mutant_SplitInner(n, c, k, child, a) ==
    LET o == InnerSplitOriginSize
        w == InsertSlot(n, c, k, child, a)
    IN  [key   |-> w.keys[o + 1],
         left  |-> Part(w, 1, o),
         right |-> [Part(w, o + 2, INNER_N + 1)
                        EXCEPT !.aug = SubSeq(n.aug, o + 1, INNER_N + 1)]]

(***************************************************************************)
(* split: child c of the full node n was split; k and child are its new    *)
(* separator and its new right half.  The three branches of the code: the  *)
(* pair lands in the left node, in the right node, or exactly between.     *)
(***************************************************************************)
SplitInner(n, c, k, child, a) ==
    LET o == InnerSplitOriginSize
    IN  CASE c <= o ->
             [key   |-> n.keys[o],
              left  |-> InsertSlot(Part(n, 1, o - 1), c, k, child, a),
              right |-> Part(n, o + 1, INNER_N)]
          [] c > o + 1 ->
             [key   |-> n.keys[o + 1],
              left  |-> Part(n, 1, o),
              right |-> InsertSlot(Part(n, o + 2, INNER_N), c - 1 - o, k, child, a)]
          [] OTHER ->
             [key   |-> k,
              left  |-> Part(n, 1, o),
              right |-> [Part(n, o + 1, INNER_N) EXCEPT !.child[1] = child,
                                                        !.aug[1] = a]]

\* Mutation: forgets the augmentation of the child that goes.
Mutant_RemoveSlotWithRight(n, slot) ==
    [keys  |-> RemoveAt(n.keys, slot),
     child |-> RemoveAt(n.child, slot + 1),
     aug   |-> n.aug]

\* remove_slot_with_right
RemoveSlotWithRight(n, slot) ==
    [keys  |-> RemoveAt(n.keys, slot),
     child |-> RemoveAt(n.child, slot + 1),
     aug   |-> RemoveAt(n.aug, slot + 1)]

\* Mutation: reports a node one key too late.
Mutant_InnerUnderSize(n) == InnerSize(n) + 1 < MIN_N

\* The InnerMergeResult::UnderSize that remove_slot_with_right reports.
InnerUnderSize(n) == InnerSize(n) < MIN_N

\* merge_next
MergeNext(n, slotKey, right) ==
    [keys  |-> Append(n.keys, slotKey) \o right.keys,
     child |-> n.child \o right.child,
     aug   |-> n.aug \o right.aug]

\* pop, pop_front: the node that stays.
PopInner(n) ==
    [keys |-> Front(n.keys), child |-> Front(n.child), aug |-> Front(n.aug)]
PopFrontInner(n) ==
    [keys |-> Tail(n.keys), child |-> Tail(n.child), aug |-> Tail(n.aug)]

\* push, push_front
PushInner(n, k, child, a) ==
    [keys  |-> Append(n.keys, k),
     child |-> Append(n.child, child),
     aug   |-> Append(n.aug, a)]
PushFrontInner(n, k, child, a) ==
    [keys  |-> <<k>> \o n.keys,
     child |-> <<child>> \o n.child,
     aug   |-> <<a>> \o n.aug]
=============================================================================
