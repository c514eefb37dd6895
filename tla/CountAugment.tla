---------------------------- MODULE CountAugment ----------------------------
(***************************************************************************)
(* The Count augmentation of src/src/augment/count.rs: the number of       *)
(* elements below a node.  It turns the tree into an order statistic tree: *)
(* an element is found by its index, and a key has a rank.                 *)
(*                                                                         *)
(* Sequences count from 1 here and from 0 in the code; an element's index  *)
(* (a query) and a rank are values of the program, and count from 0.       *)
(***************************************************************************)
EXTENDS Integers, FiniteSets, Sequences

(***************************************************************************)
(* The sum of a sequence of naturals, as the size of a disjoint union: the *)
(* value of iter().sum(), in a form whose type needs no induction.         *)
(***************************************************************************)
Total(counts) ==
    Cardinality(UNION { {i} \X (1 .. counts[i]) : i \in DOMAIN counts })

\* Augmentation::from_leaf
FromLeaf(keys) == Len(keys)

\* Augmentation::from_inner
FromInner(counts) == Total(counts)

\* SearchAugmentation::locate_in_leaf: a slot of the leaf, or 0 for None.
LocateInLeaf(idx, keys) == IF idx < Len(keys) THEN idx + 1 ELSE 0

(***************************************************************************)
(* SearchAugmentation::locate_in_inner: the child that holds the element   *)
(* of index idx (0 for None), and the index of that element in the child.  *)
(* The loop subtracts the counts of the children it passes, so it stops at *)
(* the first child whose end lies beyond idx.                              *)
(***************************************************************************)
LocateInInner(idx, counts) ==
    LET Before(i) == Total(SubSeq(counts, 1, i - 1))
        Holds == {i \in DOMAIN counts : /\ Before(i) <= idx
                                        /\ idx < Before(i) + counts[i]}
    IN  IF Holds = {}
        THEN [child |-> 0, query |-> idx]
        ELSE LET i == CHOOSE i \in Holds : TRUE
             IN  [child |-> i, query |-> idx - Before(i)]

\* Mutation: counts the children instead of their elements.
Mutant_FoldInner(rank, counts) == rank + Len(counts)

\* RankAugmentation::fold_inner, over the counts of the previous siblings.
FoldInner(rank, counts) == rank + Total(counts)

\* RankAugmentation::fold_leaf: slot counts from 1, the rank from 0.
FoldLeaf(rank, slot) == rank + slot - 1
=============================================================================
