----------------------------- MODULE BPlusTree ------------------------------
(***************************************************************************)
(* The augmented B+ tree of src/src/tree (mod.rs, tree_remove.rs) over the *)
(* node store of node_stores/vec_backed.rs, with the Count augmentation.   *)
(*                                                                         *)
(* A call of the tree is a sequence of steps, one for each turn of the     *)
(* loops of the code: the call, the descent from the root (pushing the     *)
(* path on the visit stack), the work on the leaf, one step of the ascent  *)
(* for each entry popped from the stack, and the return, which also        *)
(* handles the root.  The variables of the call (call, node, stack, r) are *)
(* the locals of that loop.                                                *)
(***************************************************************************)
EXTENDS CountAugment, LeafNode, InnerNode

CONSTANTS Key,      \* the keys, a set of integers
          Value,    \* the values
          MaxLeaf   \* bound: how many leaves one node store allocates

ASSUME KeyAssumption   == Key \subseteq Int
ASSUME ValueAssumption == None \notin Value
ASSUME BoundAssumption == MaxLeaf \in Nat

VARIABLES
    root,      \* NodeId of the root
    rootAug,   \* root_augmentation
    len,       \* number of elements
    leaves,    \* NodeStoreVec.leaf_nodes: the leaf of each id handed out,
    inners,    \* NodeStoreVec.inner_nodes: and the inner node,
    takenLeaves,  \* but for the slots that take_leaf
    takenInners,  \* and take_inner left None
    cached,    \* NodeStoreVec.cached_leaf: a leaf id, or None (usize::MAX)
    pc,        \* the loop the call in progress is in, or "idle"
    call,      \* the call in progress and its arguments
    node,      \* the NodeId the descent is at
    stack,     \* VisitStack
    r,         \* DescendInsertResult / DeleteDescendResult of the ascent
    ret        \* what the last call returned (None while one is in progress)

taken == <<takenLeaves, takenInners>>
store == <<leaves, inners, taken>>
tree  == <<root, rootAug, len, store, cached>>
frame == <<pc, call, node, stack, r, ret>>
vars  == <<tree, frame>>

-----------------------------------------------------------------------------
(* Node ids, calls and results                                             *)

Inner(id) == [kind |-> "inner", id |-> id]
Leaf(id)  == [kind |-> "leaf",  id |-> id]

NoCall == [op |-> "none"]

\* DescendInsertResult
Inserted          == [tag |-> "Inserted"]
Updated(v)        == [tag |-> "Updated", v |-> v]
Split(k, right)   == [tag |-> "Split", k |-> k, right |-> right]

\* DeleteDescendResult
Done(kv)             == [tag |-> "Done", kv |-> kv]
InnerUnderSized(kv)  == [tag |-> "InnerUnderSize", kv |-> kv]
LeafUnderSized(slot) == [tag |-> "LeafUnderSize", slot |-> slot]

\* new_augmentation_for_id
AugOf(id) == IF id.kind = "inner"
             THEN FromInner(inners[id.id].aug)
             ELSE FromLeaf(LeafKeys(leaves[id.id]))

\* try_cache: the cached leaf, if it is still there and k lies in its range.
CacheHit(k) == /\ cached # None
               /\ cached \notin takenLeaves
               /\ InRange(leaves[cached], k)

Init == /\ leaves = <<EmptyLeaf>> /\ inners = <<>>
        /\ takenLeaves = {} /\ takenInners = {}
        /\ root = Leaf(1) /\ rootAug = 0 /\ len = 0 /\ cached = None
        /\ pc = "idle" /\ call = NoCall /\ node = None
        /\ stack = <<>> /\ r = None /\ ret = None

-----------------------------------------------------------------------------
(* The parts calls share                                                   *)

\* A call enters its first loop at the root, with an empty stack.
Enter(where, c) ==
    /\ pc = "idle"
    /\ pc' = where /\ call' = c /\ node' = root
    /\ stack' = <<>> /\ r' = None /\ ret' = None
    /\ UNCHANGED tree

\* A call ends and returns x.
Return(x) ==
    /\ pc' = "idle" /\ call' = NoCall /\ node' = None
    /\ stack' = <<>> /\ r' = None /\ ret' = x

\* One level down to child c of the current inner node, keeping the path.
Push(c) ==
    LET child == inners[node.id].child[c]
    IN  /\ stack' = Append(stack, [id |-> node.id, idx |-> c, child |-> child])
        /\ node' = child

\* The entry popped by the ascent, and the node it names.
Top    == stack[Len(stack)]
Parent == inners[Top.id]

\* VisitStack::pop
PopStack == stack' = SubSeq(stack, 1, Len(stack) - 1)

AtInner(where) == pc = where /\ node.kind = "inner"
AtLeaf(where)  == pc = where /\ node.kind = "leaf"
Ascending(where, tag) == pc = where /\ stack # <<>> /\ r.tag = tag
AtRoot(where, tag)    == pc = where /\ stack = <<>> /\ r.tag = tag

-----------------------------------------------------------------------------
(* insert                                                                  *)

InsertCall(k, v) ==
    /\ Len(leaves) < MaxLeaf
    /\ Enter("insert_inner", [op |-> "insert", k |-> k, v |-> v])

\* First loop of insert_inner.
InsertDescend ==
    /\ AtInner("insert_inner")
    /\ Push(LocateChild(inners[node.id], call.k))
    /\ UNCHANGED <<tree, pc, call, r, ret>>

\* insert_leaf, LeafUpsertResult::Updated
InsertLeafUpdate ==
    /\ AtLeaf("insert_inner")
    /\ LET leaf == leaves[node.id]
           slot == LocateSlot(leaf, call.k)
       IN  /\ HasKey(leaf, call.k)
           /\ leaves' = [leaves EXCEPT ![node.id] = SetValue(leaf, slot, call.v)]
           /\ r' = Updated(leaf.data[slot][2])
    /\ pc' = "insert_ascend"
    /\ UNCHANGED <<root, rootAug, len, inners, taken, cached, call, node, stack, ret>>

\* insert_leaf, LeafUpsertResult::Inserted
InsertLeafInsert ==
    /\ AtLeaf("insert_inner")
    /\ LET leaf == leaves[node.id]
           slot == LocateSlot(leaf, call.k)
       IN  /\ ~HasKey(leaf, call.k) /\ ~LeafIsFull(leaf)
           /\ leaves' = [leaves EXCEPT
                            ![node.id] = InsertInLeaf(leaf, slot, <<call.k, call.v>>)]
    /\ cached' = node.id
    /\ r' = Inserted
    /\ pc' = "insert_ascend"
    /\ UNCHANGED <<root, rootAug, len, inners, taken, call, node, stack, ret>>

\* Mutation: forgets the link back.
Mutant_FixPrev(lvs, next, id) == lvs

\* The link from the old next leaf back to a leaf that now precedes it.
FixPrev(lvs, next, id) ==
    IF next = None THEN lvs ELSE [lvs EXCEPT ![next].prev = id]

\* insert_leaf, LeafUpsertResult::IsFull: reserve_leaf, split, assign_leaf.
InsertLeafSplit ==
    /\ AtLeaf("insert_inner")
    /\ LET leaf  == leaves[node.id]
           slot  == LocateSlot(leaf, call.k)
           newId == Len(leaves) + 1
           s     == SplitNewLeaf(leaf, slot, <<call.k, call.v>>, newId, node.id)
       IN  /\ ~HasKey(leaf, call.k) /\ LeafIsFull(leaf)
           /\ leaves' = FixPrev(Append([leaves EXCEPT ![node.id] = s.left], s.right),
                                s.right.next, newId)
           /\ cached' = IF slot > LEAF_N \div 2 THEN newId ELSE node.id
           /\ r' = Split(s.right.data[1][1], Leaf(newId))
    /\ pc' = "insert_ascend"
    /\ UNCHANGED <<root, rootAug, len, inners, taken, call, node, stack, ret>>

\* The parent with the augmentation of the child just visited brought up to date.
Refreshed == SetAugmentation(Parent, Top.idx, AugOf(Top.child))

\* The ascent of insert_inner: a split child, room in the parent.
InsertAscendSlot ==
    /\ Ascending("insert_ascend", "Split")
    /\ ~InnerIsFull(Parent)
    /\ inners' = [inners EXCEPT
            ![Top.id] = InsertSlot(Refreshed, Top.idx, r.k, r.right, AugOf(r.right))]
    /\ r' = Inserted
    /\ PopStack
    /\ UNCHANGED <<root, rootAug, len, leaves, taken, cached, pc, call, node, ret>>

\* Mutation: passes up the new right half of the child, not that of the parent.
Mutant_InsertAscendSplit ==
    /\ Ascending("insert_ascend", "Split")
    /\ InnerIsFull(Parent)
    /\ LET s == SplitInner(Refreshed, Top.idx, r.k, r.right, AugOf(r.right))
       IN  /\ inners' = Append([inners EXCEPT ![Top.id] = s.left], s.right)
           /\ r' = Split(s.key, r.right)
    /\ PopStack
    /\ UNCHANGED <<root, rootAug, len, leaves, taken, cached, pc, call, node, ret>>

\* A split child, and a full parent: the parent splits in turn.
InsertAscendSplit ==
    /\ Ascending("insert_ascend", "Split")
    /\ InnerIsFull(Parent)
    /\ LET s == SplitInner(Refreshed, Top.idx, r.k, r.right, AugOf(r.right))
       IN  /\ inners' = Append([inners EXCEPT ![Top.id] = s.left], s.right)
           /\ r' = Split(s.key, Inner(Len(inners) + 1))
    /\ PopStack
    /\ UNCHANGED <<root, rootAug, len, leaves, taken, cached, pc, call, node, ret>>

InsertAscendInserted ==
    /\ Ascending("insert_ascend", "Inserted")
    /\ inners' = [inners EXCEPT ![Top.id] = Refreshed]
    /\ PopStack
    /\ UNCHANGED <<root, rootAug, len, leaves, taken, cached, pc, call, node, r, ret>>

InsertAscendUpdated ==
    /\ Ascending("insert_ascend", "Updated")
    /\ PopStack
    /\ UNCHANGED <<tree, pc, call, node, r, ret>>

\* insert: the key was added without a new root.
InsertReturnInserted ==
    /\ AtRoot("insert_ascend", "Inserted")
    /\ rootAug' = AugOf(root)
    /\ len' = len + 1
    /\ Return(None)
    /\ UNCHANGED <<root, store, cached>>

InsertReturnUpdated ==
    /\ AtRoot("insert_ascend", "Updated")
    /\ Return(r.v)
    /\ UNCHANGED tree

\* insert: the root was split, and a new root takes the two halves.
InsertReturnSplit ==
    /\ AtRoot("insert_ascend", "Split")
    /\ LET newRoot == [keys  |-> <<r.k>>,
                       child |-> <<root, r.right>>,
                       aug   |-> <<AugOf(root), AugOf(r.right)>>]
       IN  /\ inners' = Append(inners, newRoot)
           /\ rootAug' = FromInner(newRoot.aug)
    /\ root' = Inner(Len(inners) + 1)
    /\ len' = len + 1
    /\ Return(None)
    /\ UNCHANGED <<leaves, taken, cached>>

-----------------------------------------------------------------------------
(* remove, remove_by_augmentation and get_mut_by_augmentation: the path to *)
(* the entry                                                               *)

RemoveCall(k) == Enter("key_to_ref", [op |-> "remove", k |-> k])

\* query is what remains of the index i below the current node.
RemoveByAugmentationCall(i) ==
    Enter("get_ref_by_augmentation",
          [op |-> "remove_by_augmentation", i |-> i, query |-> i])

KeyToRefDescend ==
    /\ AtInner("key_to_ref")
    /\ Push(LocateChild(inners[node.id], call.k))
    /\ UNCHANGED <<tree, pc, call, r, ret>>

KeyToRefMissing ==
    /\ AtLeaf("key_to_ref")
    /\ ~HasKey(leaves[node.id], call.k)
    /\ Return(None)
    /\ UNCHANGED tree

GetMutByAugmentationCall(i, v) ==
    Enter("get_ref_by_augmentation",
          [op |-> "get_mut_by_augmentation", i |-> i, query |-> i, v |-> v])

AugmentationDescend ==
    /\ AtInner("get_ref_by_augmentation")
    /\ LET at == LocateInInner(call.query, inners[node.id].aug)
       IN  /\ at.child # 0
           /\ Push(at.child)
           /\ call' = [call EXCEPT !.query = at.query]
    /\ UNCHANGED <<tree, pc, r, ret>>

AugmentationMissing ==
    /\ \/ /\ AtInner("get_ref_by_augmentation")
          /\ LocateInInner(call.query, inners[node.id].aug).child = 0
       \/ /\ AtLeaf("get_ref_by_augmentation")
          /\ LocateInLeaf(call.query, LeafKeys(leaves[node.id])) = 0
    /\ Return(None)
    /\ UNCHANGED tree

(***************************************************************************)
(* The start of remove_by_ref: try_delete_at deletes only from a leaf that *)
(* stays at its minimum; otherwise the parent deletes while it rebalances. *)
(***************************************************************************)
DeleteInLeaf(slot) ==
    LET leaf == leaves[node.id]
    IN  IF LeafAbleToLend(leaf)
        THEN /\ leaves' = [leaves EXCEPT ![node.id] = DeleteAt(leaf, slot)]
             /\ r' = Done(leaf.data[slot])
        ELSE /\ r' = LeafUnderSized(slot)
             /\ UNCHANGED leaves

RemoveInLeaf ==
    /\ \/ /\ AtLeaf("key_to_ref")
          /\ HasKey(leaves[node.id], call.k)
          /\ DeleteInLeaf(LocateSlot(leaves[node.id], call.k))
       \/ /\ AtLeaf("get_ref_by_augmentation")
          /\ call.op = "remove_by_augmentation"
          /\ LocateInLeaf(call.query, LeafKeys(leaves[node.id])) # 0
          /\ DeleteInLeaf(LocateInLeaf(call.query, LeafKeys(leaves[node.id])))
    /\ pc' = "remove_ascend"
    /\ UNCHANGED <<root, rootAug, len, inners, taken, cached, call, node, stack, ret>>

-----------------------------------------------------------------------------
(* The ascent of remove_by_ref                                             *)

\* Nothing left to fix: only the augmentation on the path.
RemoveAscendDone ==
    /\ Ascending("remove_ascend", "Done")
    /\ inners' = [inners EXCEPT ![Top.id] = Refreshed]
    /\ PopStack
    /\ UNCHANGED <<root, rootAug, len, leaves, taken, cached, pc, call, node, r, ret>>

HasPrev == Top.idx > 1
HasNext == Top.idx <= InnerSize(Parent)

\* The child of the parent at c, as an inner node and as a leaf.
InnerAt(c) == inners[Parent.child[c].id]
LeafAt(c)  == leaves[Parent.child[c].id]

\* The parent once the merge of children slot and slot + 1 is recorded in it.
MergedParent(slot, a) == RemoveSlotWithRight(SetAugmentation(Parent, slot, a), slot)

\* Mutation: reports a parent that is just at its minimum.
Mutant_AfterMerge(parent, kv) ==
    IF InnerSize(parent) <= MIN_N THEN InnerUnderSized(kv) ELSE Done(kv)

\* Mutation: never reports the parent.
Mutant_AfterMergeSilent(parent, kv) == Done(kv)

\* Whether remove_slot_with_right left the parent under its minimum.
AfterMerge(parent, kv) == IF InnerUnderSize(parent) THEN InnerUnderSized(kv) ELSE Done(kv)

(***************************************************************************)
(* handle_inner_under_size: borrow from the left sibling, else from the    *)
(* right one, else merge (with the left one if there is one).              *)
(***************************************************************************)
PrevInnerLends == HasPrev /\ InnerAbleToLend(InnerAt(Top.idx - 1))
NextInnerLends == HasNext /\ InnerAbleToLend(InnerAt(Top.idx + 1))

\* try_rotate_right_for_inner_node
RotateRightInner ==
    /\ Ascending("remove_ascend", "InnerUnderSize")
    /\ PrevInnerLends
    /\ LET slot  == Top.idx - 1
           prev  == InnerAt(slot)
           left  == PopInner(prev)
           right == PushFrontInner(InnerAt(slot + 1), Parent.keys[slot],
                                   prev.child[Len(prev.child)], prev.aug[Len(prev.aug)])
           p     == SetKey(Parent, slot, prev.keys[Len(prev.keys)])
       IN  inners' = [inners EXCEPT
                        ![Parent.child[slot].id] = left,
                        ![Parent.child[slot + 1].id] = right,
                        ![Top.id] = SetAugmentation(
                                        SetAugmentation(p, slot, FromInner(left.aug)),
                                        slot + 1, FromInner(right.aug))]
    /\ r' = Done(r.kv)
    /\ PopStack
    /\ UNCHANGED <<root, rootAug, len, leaves, taken, cached, pc, call, node, ret>>

\* try_rotate_left_for_inner_node
RotateLeftInner ==
    /\ Ascending("remove_ascend", "InnerUnderSize")
    /\ ~PrevInnerLends /\ NextInnerLends
    /\ LET slot  == Top.idx
           next  == InnerAt(slot + 1)
           right == PopFrontInner(next)
           left  == PushInner(InnerAt(slot), Parent.keys[slot], next.child[1], next.aug[1])
           p     == SetKey(Parent, slot, next.keys[1])
       IN  inners' = [inners EXCEPT
                        ![Parent.child[slot].id] = left,
                        ![Parent.child[slot + 1].id] = right,
                        ![Top.id] = SetAugmentation(
                                        SetAugmentation(p, slot, FromInner(left.aug)),
                                        slot + 1, FromInner(right.aug))]
    /\ r' = Done(r.kv)
    /\ PopStack
    /\ UNCHANGED <<root, rootAug, len, leaves, taken, cached, pc, call, node, ret>>

(***************************************************************************)
(* merge_inner_node: the right node is taken from the store and its content *)
(* moves left; the stale content of its slot stands for None.  Without a   *)
(* sibling debug_assert!(slot < node.len()) panics: no action is enabled.  *)
(***************************************************************************)
MergeInner ==
    /\ Ascending("remove_ascend", "InnerUnderSize")
    /\ ~PrevInnerLends /\ ~NextInnerLends
    /\ HasPrev \/ HasNext
    /\ LET slot == IF HasPrev THEN Top.idx - 1 ELSE Top.idx
           left == MergeNext(InnerAt(slot), Parent.keys[slot], InnerAt(slot + 1))
           p    == MergedParent(slot, FromInner(left.aug))
       IN  /\ inners' = [inners EXCEPT ![Parent.child[slot].id] = left, ![Top.id] = p]
           /\ takenInners' = takenInners \cup {Parent.child[slot + 1].id}
           /\ r' = AfterMerge(p, r.kv)
    /\ PopStack
    /\ UNCHANGED <<root, rootAug, len, leaves, takenLeaves, cached, pc, call, node, ret>>

(***************************************************************************)
(* handle_leaf_under_size chooses a FixAction from the two siblings.  With *)
(* neither sibling the code reaches unreachable!(): no action is enabled.  *)
(***************************************************************************)
PrevLeafLends == HasPrev /\ LeafAbleToLend(LeafAt(Top.idx - 1))
NextLeafLends == HasNext /\ LeafAbleToLend(LeafAt(Top.idx + 1))
PrevIsLarger  == LeafSize(LeafAt(Top.idx - 1)) > LeafSize(LeafAt(Top.idx + 1))

\* rotate_right_for_leaf: the last pair of the left leaf replaces the deleted one.
RotateRightLeaf ==
    /\ Ascending("remove_ascend", "LeafUnderSize")
    /\ PrevLeafLends
    /\ NextLeafLends => PrevIsLarger
    /\ LET slot  == Top.idx - 1
           kv    == LeafAt(slot).data[LeafSize(LeafAt(slot))]
           left  == PopLeaf(LeafAt(slot))
           right == DeleteWithPushFront(LeafAt(slot + 1), r.slot, kv)
       IN  /\ leaves' = [leaves EXCEPT ![Parent.child[slot].id] = left,
                                       ![Parent.child[slot + 1].id] = right]
           /\ inners' = [inners EXCEPT ![Top.id] =
                SetKey(SetAugmentation(
                           SetAugmentation(Parent, slot, FromLeaf(LeafKeys(left))),
                           slot + 1, FromLeaf(LeafKeys(right))),
                       slot, kv[1])]
           /\ cached' = Parent.child[slot + 1].id
           /\ r' = Done(LeafAt(slot + 1).data[r.slot])
    /\ PopStack
    /\ UNCHANGED <<root, rootAug, len, taken, pc, call, node, ret>>

\* rotate_left_for_leaf: the first pair of the right leaf replaces the deleted one.
RotateLeftLeaf ==
    /\ Ascending("remove_ascend", "LeafUnderSize")
    /\ NextLeafLends
    /\ PrevLeafLends => ~PrevIsLarger
    /\ LET slot  == Top.idx
           kv    == LeafAt(slot + 1).data[1]
           right == PopFrontLeaf(LeafAt(slot + 1))
           left  == DeleteWithPush(LeafAt(slot), r.slot, kv)
       IN  /\ leaves' = [leaves EXCEPT ![Parent.child[slot].id] = left,
                                       ![Parent.child[slot + 1].id] = right]
           /\ inners' = [inners EXCEPT ![Top.id] =
                SetKey(SetAugmentation(
                           SetAugmentation(Parent, slot, FromLeaf(LeafKeys(left))),
                           slot + 1, FromLeaf(LeafKeys(right))),
                       slot, right.data[1][1])]
           /\ cached' = Parent.child[slot].id
           /\ r' = Done(LeafAt(slot).data[r.slot])
    /\ PopStack
    /\ UNCHANGED <<root, rootAug, len, taken, pc, call, node, ret>>

\* What both leaf merges do once left has the content of the two leaves: the
\* right leaf is gone, the chain and the parent no longer name it.
MergeLeaves(slot, left, kv) ==
    LET leftId  == Parent.child[slot].id
        rightId == Parent.child[slot + 1].id
        p       == MergedParent(slot, FromLeaf(LeafKeys(left)))
    IN  /\ leaves' = FixPrev([leaves EXCEPT ![leftId] = left, ![rightId] = EmptyLeaf],
                             left.next, leftId)
        /\ takenLeaves' = takenLeaves \cup {rightId}
        /\ inners' = [inners EXCEPT ![Top.id] = p]
        /\ cached' = leftId
        /\ r' = AfterMerge(p, kv)

\* merge_leaf_node_left
MergeLeafLeft ==
    /\ Ascending("remove_ascend", "LeafUnderSize")
    /\ HasPrev /\ ~PrevLeafLends /\ ~NextLeafLends
    /\ LET slot == Top.idx - 1
       IN  MergeLeaves(slot,
                       MergeRightDeleteFirst(LeafAt(slot), r.slot, LeafAt(slot + 1)),
                       LeafAt(slot + 1).data[r.slot])
    /\ PopStack
    /\ UNCHANGED <<root, rootAug, len, takenInners, pc, call, node, ret>>

\* merge_leaf_node_with_right
MergeLeafRight ==
    /\ Ascending("remove_ascend", "LeafUnderSize")
    /\ ~HasPrev /\ HasNext /\ ~NextLeafLends
    /\ LET slot == Top.idx
       IN  MergeLeaves(slot,
                       MergeRight(DeleteAt(LeafAt(slot), r.slot), LeafAt(slot + 1)),
                       LeafAt(slot).data[r.slot])
    /\ PopStack
    /\ UNCHANGED <<root, rootAug, len, takenInners, pc, call, node, ret>>

-----------------------------------------------------------------------------
(* The return of remove_by_ref: remove maps the pair to its value.         *)

Removed(kv) == IF call.op = "remove" THEN kv[2] ELSE kv

RemoveReturnDone ==
    /\ AtRoot("remove_ascend", "Done")
    /\ rootAug' = AugOf(root)
    /\ len' = len - 1
    /\ Return(Removed(r.kv))
    /\ UNCHANGED <<root, store, cached>>

\* A root without keys gives way to its only child, and stays in the store.
RemoveReturnInnerUnderSize ==
    /\ AtRoot("remove_ascend", "InnerUnderSize")
    /\ root' = IF InnerSize(inners[root.id]) = 0 THEN inners[root.id].child[1] ELSE root
    /\ rootAug' = AugOf(root')
    /\ len' = len - 1
    /\ Return(Removed(r.kv))
    /\ UNCHANGED <<store, cached>>

\* The root is a leaf, which may shrink below the minimum, and to nothing.
RemoveReturnLeafUnderSize ==
    /\ AtRoot("remove_ascend", "LeafUnderSize")
    /\ LET leaf == DeleteAt(leaves[root.id], r.slot)
       IN  /\ leaves' = [leaves EXCEPT ![root.id] = leaf]
           /\ rootAug' = FromLeaf(LeafKeys(leaf))
    /\ len' = len - 1
    /\ Return(Removed(leaves[root.id].data[r.slot]))
    /\ UNCHANGED <<root, inners, taken, cached>>

-----------------------------------------------------------------------------
(* get, get_mut and clear                                                  *)

\* What the caller does with the &mut V of get_mut: it stores v.
WriteBack(id, k, v) ==
    IF HasKey(leaves[id], k)
    THEN leaves' = [leaves EXCEPT ![id] = SetValue(@, LocateSlot(@, k), v)]
    ELSE UNCHANGED leaves

\* get, with the leaf found in the cache.
GetCached(k) ==
    /\ pc = "idle" /\ CacheHit(k)
    /\ Return(ValueOf(leaves[cached], k))
    /\ UNCHANGED tree

\* get_mut, with the leaf found in the cache.
GetMutCached(k, v) ==
    /\ pc = "idle" /\ CacheHit(k)
    /\ WriteBack(cached, k, v)
    /\ Return(ValueOf(leaves[cached], k))
    /\ UNCHANGED <<root, rootAug, len, inners, taken, cached>>

GetCall(k) ==
    /\ ~CacheHit(k)
    /\ Enter("find_descend", [op |-> "get", k |-> k])

GetMutCall(k, v) ==
    /\ ~CacheHit(k)
    /\ Enter("find_descend", [op |-> "get_mut", k |-> k, v |-> v])

\* find_descend and find_descend_mut keep no path.
FindDescend ==
    /\ AtInner("find_descend")
    /\ LET n == inners[node.id] IN node' = n.child[LocateChild(n, call.k)]
    /\ UNCHANGED <<tree, pc, call, stack, r, ret>>

\* find_in_leaf_and_cache_it, find_in_leaf_mut_and_cache_it
FindInLeaf ==
    /\ AtLeaf("find_descend")
    /\ cached' = node.id
    /\ IF call.op = "get_mut" THEN WriteBack(node.id, call.k, call.v) ELSE UNCHANGED leaves
    /\ Return(ValueOf(leaves[node.id], call.k))
    /\ UNCHANGED <<root, rootAug, len, inners, taken>>

\* get_mut_by_ref, the end of get_mut_by_augmentation: the caller stores v.
GetMutInLeaf ==
    /\ AtLeaf("get_ref_by_augmentation") /\ call.op = "get_mut_by_augmentation"
    /\ LET slot == LocateInLeaf(call.query, LeafKeys(leaves[node.id]))
       IN  /\ slot # 0
           /\ leaves' = [leaves EXCEPT ![node.id] = SetValue(@, slot, call.v)]
           /\ Return(leaves[node.id].data[slot][2])
    /\ UNCHANGED <<root, rootAug, len, inners, taken, cached>>

\* clear replaces the tree by a new one over a default store.
Clear ==
    /\ pc = "idle"
    /\ leaves' = <<EmptyLeaf>> /\ inners' = <<>>
    /\ takenLeaves' = {} /\ takenInners' = {}
    /\ root' = Leaf(1) /\ rootAug' = 0 /\ len' = 0 /\ cached' = None
    /\ Return(None)

-----------------------------------------------------------------------------
(* A client calls any operation; a call in progress runs to its end.       *)

Call ==
    \/ \E k \in Key, v \in Value : InsertCall(k, v)
    \/ \E k \in Key : RemoveCall(k)
    \/ \E i \in 0 .. len : RemoveByAugmentationCall(i)
    \/ \E i \in 0 .. len, v \in Value : GetMutByAugmentationCall(i, v)
    \/ \E k \in Key : GetCached(k)
    \/ \E k \in Key : GetCall(k)
    \/ \E k \in Key, v \in Value : GetMutCached(k, v)
    \/ \E k \in Key, v \in Value : GetMutCall(k, v)
    \/ Clear

InsertStep ==
    \/ InsertDescend
    \/ InsertLeafUpdate \/ InsertLeafInsert \/ InsertLeafSplit
    \/ InsertAscendSlot \/ InsertAscendSplit
    \/ InsertAscendInserted \/ InsertAscendUpdated
    \/ InsertReturnInserted \/ InsertReturnUpdated \/ InsertReturnSplit

RemoveStep ==
    \/ KeyToRefDescend \/ KeyToRefMissing
    \/ AugmentationDescend \/ AugmentationMissing
    \/ RemoveInLeaf
    \/ RemoveAscendDone
    \/ RotateRightInner \/ RotateLeftInner \/ MergeInner
    \/ RotateRightLeaf \/ RotateLeftLeaf \/ MergeLeafLeft \/ MergeLeafRight
    \/ RemoveReturnDone \/ RemoveReturnInnerUnderSize \/ RemoveReturnLeafUnderSize

FindStep == FindDescend \/ FindInLeaf \/ GetMutInLeaf

Step == InsertStep \/ RemoveStep \/ FindStep

Next == Call \/ Step

(***************************************************************************)
(* The calling thread runs a call it has begun to its end, so its steps    *)
(* are fair; nothing obliges a client to make another call.                *)
(***************************************************************************)
Spec == Init /\ [][Next]_vars /\ WF_vars(Step)
=============================================================================
