---------------------------- MODULE GroupAugment ----------------------------
(***************************************************************************)
(* The GroupCount augmentation of src/src/augment/group.rs, for keys whose *)
(* order keeps the members of a group together.  It answers how many       *)
(* groups a subtree has, finds a member of a group by its offset in the    *)
(* group, and ranks a key within its group.                                *)
(*                                                                         *)
(* An augmentation keeps, beside the number of groups, the lowest and the  *)
(* highest group with the number of their members below the node.  Groups  *)
(* are integers; of the keys of a leaf, only the sequence of their groups  *)
(* matters.  A group with a count is a pair <<g, c>>.                      *)
(***************************************************************************)
EXTENDS Integers, FiniteSets, Sequences, SequencesExt, CountAugment

CONSTANT NoGroup   \* Rust's None

\* GroupCount
Zero      == [tag |-> "Zero"]
One(g, c) == [tag |-> "One", g |-> g, c |-> c]
Multiple(min, max, n) == [tag |-> "Multiple", min |-> min, max |-> max, n |-> n]

\* group_count
GroupsIn(a) == CASE a.tag = "Zero"     -> 0
                 [] a.tag = "One"      -> 1
                 [] a.tag = "Multiple" -> a.n

MinGroup(a) == IF a.tag = "One" THEN <<a.g, a.c>> ELSE a.min

\* max_group
MaxGroup(a) == CASE a.tag = "Zero"     -> NoGroup
                 [] a.tag = "One"      -> <<a.g, a.c>>
                 [] a.tag = "Multiple" -> a.max

\* The last group of l goes on in r.
Meets(l, r) == MaxGroup(l)[1] = MinGroup(r)[1]

\* Mutation: counts a group that both sides share twice.
Mutant_MergeWith(l, r) ==
    IF l = Zero THEN r ELSE IF r = Zero THEN l
    ELSE IF l.tag = "One" /\ r.tag = "One" /\ Meets(l, r) THEN One(l.g, l.c + r.c)
    ELSE Multiple(
            IF l.tag = "One" /\ Meets(l, r) THEN <<l.g, l.c + r.min[2]>> ELSE MinGroup(l),
            IF r.tag = "One" /\ Meets(l, r) THEN <<r.g, l.max[2] + r.c>> ELSE MaxGroup(r),
            GroupsIn(l) + GroupsIn(r))

(***************************************************************************)
(* merge_with: a group that both sides share is one group, and if it is    *)
(* the only one of a side, that side's members add to those of the other.  *)
(***************************************************************************)
MergeWith(l, r) ==
    IF l = Zero THEN r ELSE IF r = Zero THEN l
    ELSE IF l.tag = "One" /\ r.tag = "One" /\ Meets(l, r) THEN One(l.g, l.c + r.c)
    ELSE Multiple(
            IF l.tag = "One" /\ Meets(l, r) THEN <<l.g, l.c + r.min[2]>> ELSE MinGroup(l),
            IF r.tag = "One" /\ Meets(l, r) THEN <<r.g, l.max[2] + r.c>> ELSE MaxGroup(r),
            GroupsIn(l) + GroupsIn(r) - (IF Meets(l, r) THEN 1 ELSE 0))

(***************************************************************************)
(* from_leaf: one counter for the members of the first group, and one for  *)
(* those of all later groups, which is not reset when a group begins.      *)
(***************************************************************************)
GroupFromLeaf(gs) ==
    LET more  == {i \in 2 .. Len(gs) : gs[i] # gs[i - 1]}
        again == 2 .. Len(gs) \ more
        first == 1 + Cardinality({i \in again : gs[i] = gs[1]})
        later == 1 + Cardinality({i \in again : gs[i] # gs[1]})
    IN  IF gs = <<>> THEN Zero
        ELSE IF more = {} THEN One(gs[1], first)
        ELSE Multiple(<<gs[1], first>>, <<gs[Len(gs)], later>>, 1 + Cardinality(more))

\* from_inner
GroupFromInner(augs) == FoldLeft(MergeWith, Zero, augs)

-----------------------------------------------------------------------------
(* Queries                                                                 *)

\* The members of group g in the children before c, as far as they are the last
\* group of their child.
Passed(g, augs, c) ==
    Total([i \in 1 .. c - 1 |-> IF MaxGroup(augs[i])[1] = g THEN MaxGroup(augs[i])[2] ELSE 0])

\* locate_in_leaf: a slot, or 0 for None.
GroupLocateInLeaf(g, offset, gs) ==
    LET slots == {i \in DOMAIN gs : /\ gs[i] = g
                                    /\ Cardinality({j \in 1 .. i - 1 : gs[j] = g}) = offset}
    IN  IF slots = {} THEN 0 ELSE Min(slots)

(***************************************************************************)
(* locate_in_inner: the first child that reaches the offset in the group,  *)
(* or goes on to a higher one (unless it has nothing else), and the offset *)
(* that is left there.  No child of an inner node is Zero.                 *)
(***************************************************************************)
GroupLocateInInner(g, offset, augs) ==
    LET at(i)   == MaxGroup(augs[i])
        rest(i) == offset - Passed(g, augs, i)
        here    == {i \in DOMAIN augs :
                        \/ at(i)[1] > g
                        \/ (at(i)[1] = g /\ at(i)[2] > rest(i))}
        child   == IF here = {} THEN 0 ELSE Min(here)
        missing == child = 0 \/ (augs[child].tag = "One" /\ augs[child].g > g)
    IN  [child |-> IF missing THEN 0 ELSE child,
         offset |-> IF missing THEN offset ELSE rest(child)]

\* ExtractGroupSize::visit_inner: the child to go on to, and the members before it.
GroupVisitInner(g, augs) ==
    LET beyond == {i \in DOMAIN augs : MaxGroup(augs[i])[1] > g}
        child  == IF beyond = {} THEN Len(augs) ELSE Min(beyond)
    IN  [child |-> child, count |-> Passed(g, augs, child)]

\* ExtractGroupSize::visit_leaf
GroupVisitLeaf(g, gs) == Cardinality({i \in DOMAIN gs : gs[i] = g})

-----------------------------------------------------------------------------
(* The rank of a key in its group: a group with a count, or None so far    *)

\* Mutation: counts the members in the nearest sibling only.
Mutant_GroupFoldInner(rank, augs) ==
    LET last == MaxGroup(augs[Len(augs)])
    IN  IF augs = <<>> \/ last = NoGroup THEN NoGroup
        ELSE IF rank # NoGroup /\ rank[1] = last[1] THEN <<last[1], rank[2] + last[2]>>
        ELSE last

(***************************************************************************)
(* fold_inner, over the augmentations of the previous siblings: their last *)
(* group, with its members in the siblings that end with it.  Without a    *)
(* previous sibling `rev_iter.next()?` returns None, whatever the rank.    *)
(***************************************************************************)
GroupFoldInner(rank, augs) ==
    LET last == MaxGroup(augs[Len(augs)])
        size == Passed(last[1], augs, Len(augs) + 1)
    IN  IF augs = <<>> \/ last = NoGroup THEN NoGroup
        ELSE IF rank # NoGroup /\ rank[1] = last[1] THEN <<last[1], rank[2] + size>>
        ELSE <<last[1], size>>

\* fold_leaf: g is the key's group and slot its place in the leaf.
GroupFoldLeaf(g, rank, slot, gs) ==
    LET start == IF rank = NoGroup THEN <<gs[1], 0>> ELSE rank
    IN  IF gs = <<>> THEN <<g, 0>>
        ELSE IF start[1] = g THEN <<g, start[2] + slot - 1>>
        ELSE <<g, Cardinality({i \in 1 .. slot - 1 : gs[i] = g})>>
=============================================================================
