---------------------------- MODULE GroupQueries ----------------------------
(***************************************************************************)
(* The queries of a tree whose augmentation is GroupCount.  The tree code  *)
(* treats every augmentation alike: between calls each child's is that of  *)
(* its subtree (AugmentationExact), so here it is computed from the tree   *)
(* of BPlusTree as it stands.                                              *)
(*                                                                         *)
(* A key of two parts (g, x) with x < width, whose group is its first part *)
(* (Tuple2), is the number g * width + x.                                  *)
(***************************************************************************)
EXTENDS TreeProperties, GroupAugment

CONSTANT Widths   \* the widths to group the keys by

\* FromRef::from_ref of Tuple2
GroupOf(width, k) == k \div width

GroupsOf(width, leaf) == [i \in DOMAIN leaf.data |-> GroupOf(width, leaf.data[i][1])]

\* new_augmentation_for_id with GroupCount, from the leaves upwards.
GroupAugs(width) ==
    LET aug[id \in Reachable] ==
            IF id.kind = "leaf" THEN GroupFromLeaf(GroupsOf(width, leaves[id.id]))
            ELSE GroupFromInner([c \in DOMAIN inners[id.id].child |->
                                    aug[inners[id.id].child[c]]])
    IN  [id \in Reachable |-> aug[id]]

\* The augmentations of the children of inner node id, as augs has them.
Beside(augs, id) == [c \in DOMAIN inners[id].child |-> augs[inners[id].child[c]]]

\* get_by_augmentation((g, offset)): the entry, or None.
GetByGroup(width, augs, g, offset) ==
    LET at[d \in 0 .. Len(inners)] ==
            IF d = 0 THEN [id |-> root, offset |-> offset]
            ELSE LET p == at[d - 1]
                 IN  IF p.id = None \/ p.id.kind = "leaf" THEN p
                     ELSE LET l == GroupLocateInInner(g, p.offset, Beside(augs, p.id.id))
                          IN  [id |-> IF l.child = 0 THEN None ELSE inners[p.id.id].child[l.child],
                               offset |-> l.offset]
        end  == at[Len(inners)]
        slot == GroupLocateInLeaf(g, end.offset, GroupsOf(width, leaves[end.id.id]))
    IN  IF end.id = None \/ slot = 0 THEN None ELSE leaves[end.id.id].data[slot]

\* descend_visit(ExtractGroupSize::new(g))
GroupSize(width, augs, g) ==
    LET at[d \in 0 .. Len(inners)] ==
            IF d = 0 THEN [id |-> root, count |-> 0]
            ELSE LET p == at[d - 1]
                 IN  IF p.id.kind = "leaf" THEN p
                     ELSE LET l == GroupVisitInner(g, Beside(augs, p.id.id))
                          IN  [id |-> inners[p.id.id].child[l.child], count |-> p.count + l.count]
        end == at[Len(inners)]
    IN  end.count + GroupVisitLeaf(g, GroupsOf(width, leaves[end.id.id]))

(***************************************************************************)
(* rank_by_augmentation(k), with the ways in which the path forgot a rank: *)
(* a layer without a previous sibling, below one that had some.            *)
(***************************************************************************)
GroupRank(width, augs, k) ==
    LET at[d \in 0 .. Len(inners)] ==
            IF d = 0 THEN [id |-> root, rank |-> NoGroup, forgot |-> FALSE]
            ELSE LET p == at[d - 1]
                 IN  IF p.id.kind = "leaf" THEN p
                     ELSE LET c == LocateChild(inners[p.id.id], k)
                          IN  [id     |-> inners[p.id.id].child[c],
                               rank   |-> GroupFoldInner(p.rank,
                                              SubSeq(Beside(augs, p.id.id), 1, c - 1)),
                               forgot |-> p.forgot \/ (p.rank # NoGroup /\ c = 1)]
        end  == at[Len(inners)]
        leaf == leaves[end.id.id]
    IN  [rank   |-> GroupFoldLeaf(GroupOf(width, k), end.rank, LocateSlot(leaf, k),
                                  GroupsOf(width, leaf)),
         forgot |-> end.forgot]

-----------------------------------------------------------------------------

\* Of the keys ks, those of group g, and the rank that k has, or would have, in its group.
Members(width, ks, g) == {x \in ks : GroupOf(width, x) = g}
TrueRank(width, ks, k) ==
    LET g == GroupOf(width, k)
    IN  <<g, Cardinality({x \in Members(width, ks, g) : x < k})>>

(***************************************************************************)
(* Between calls the root knows the number of groups, each group its size, *)
(* and an offset in a group finds that member of it, or none past its end, *)
(* although a group may begin and end in the middle of leaves and span     *)
(* several nodes of each layer.                                            *)
(***************************************************************************)
GroupStatistics ==
    pc = "idle" =>
        LET map == Contents
            ks  == DOMAIN map
        IN  \A width \in Widths :
                LET augs == GroupAugs(width)
                IN  /\ GroupsIn(augs[root]) = Cardinality({GroupOf(width, k) : k \in ks})
                    /\ \A g \in {GroupOf(width, k) : k \in Key} :
                           LET size == Cardinality(Members(width, ks, g))
                           IN  /\ GroupSize(width, augs, g) = size
                               /\ GetByGroup(width, augs, g, size) = None
                    /\ \A k \in ks :
                           LET rank == TrueRank(width, ks, k)
                           IN  GetByGroup(width, augs, rank[1], rank[2]) = <<k, map[k]>>

(***************************************************************************)
(* rank_by_augmentation gives the number of smaller keys in the key's      *)
(* group, where the path to the key does not forget what it has counted.   *)
(***************************************************************************)
GroupRankKept ==
    pc = "idle" =>
        LET ks == DOMAIN Contents
        IN  \A width \in Widths :
                LET augs == GroupAugs(width)
                IN  \A k \in Key :
                        LET found == GroupRank(width, augs, k)
                        IN  ~found.forgot => found.rank = TrueRank(width, ks, k)

(***************************************************************************)
(* test_group_large_group (group.rs) asserts of every key that its rank is *)
(* its position in its group, and RankAugmentation (mod.rs) says that      *)
(* fold_inner will "combine rank with all ranks for prev sibling           *)
(* augmentations".                                                         *)
(***************************************************************************)
GroupRankExact ==
    pc = "idle" =>
        \A width \in Widths, k \in Key :
            GroupRank(width, GroupAugs(width), k).rank = TrueRank(width, DOMAIN Contents, k)

(***************************************************************************)
(* max_group (group.rs): "Returns max_group and it's item count".          *)
(***************************************************************************)
MaxGroupCounted ==
    pc = "idle" /\ len > 0 =>
        \A width \in Widths :
            LET max == MaxGroup(GroupAugs(width)[root])
            IN  max[2] = Cardinality(Members(width, DOMAIN Contents, max[1]))
=============================================================================
