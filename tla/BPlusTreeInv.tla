---------------------------- MODULE BPlusTreeInv ----------------------------
(***************************************************************************)
(* The invariants of module BPlusTree that need no walk over the tree: its *)
(* types, the capacity of its nodes, and what makes the two inductive.     *)
(***************************************************************************)
EXTENDS BPlusTree

-----------------------------------------------------------------------------
(* Types                                                                   *)

NodeId   == [kind : {"inner", "leaf"}, id : Nat]

ASSUME NodeAssumption == None \notin NodeId   \* None is no node

Pair     == Key \X Value
LeafRec  == [data : Seq(Pair), prev : Nat \cup {None}, next : Nat \cup {None}]
InnerRec == [keys : Seq(Key), child : Seq(NodeId), aug : Seq(Nat)]
Entry    == [id : Nat, idx : Nat, child : NodeId]

Calls ==
    {NoCall}
      \cup [op : {"insert"}, k : Key, v : Value]
      \cup [op : {"get_mut"}, k : Key, v : Value]
      \cup [op : {"get"}, k : Key]
      \cup [op : {"remove"}, k : Key]
      \cup [op : {"remove_by_augmentation"}, i : Nat, query : Nat]
      \cup [op : {"get_mut_by_augmentation"}, i : Nat, query : Nat, v : Value]

InsertResults ==
    {Inserted}
      \cup [tag : {"Updated"}, v : Value]
      \cup [tag : {"Split"}, k : Key, right : NodeId]

RemoveResults ==
    [tag : {"Done"}, kv : Pair]
      \cup [tag : {"InnerUnderSize"}, kv : Pair]
      \cup [tag : {"LeafUnderSize"}, slot : Nat]

Results == {None} \cup InsertResults \cup RemoveResults

(***************************************************************************)
(* The type invariant: the variables hold what their comments say, and an  *)
(* inner node has one child and one augmentation more than it has keys.    *)
(***************************************************************************)
TypeOK ==
    /\ root \in NodeId /\ rootAug \in Nat /\ len \in Int
    /\ leaves \in Seq(LeafRec) /\ inners \in Seq(InnerRec)
    /\ takenLeaves \subseteq Nat /\ takenInners \subseteq Nat
    /\ \A i \in DOMAIN inners :
           /\ Len(inners[i].child) = Len(inners[i].keys) + 1
           /\ Len(inners[i].aug) = Len(inners[i].keys) + 1
    /\ cached \in DOMAIN leaves \cup {None}
    /\ pc \in {"idle", "insert_inner", "insert_ascend", "key_to_ref",
               "get_ref_by_augmentation", "remove_ascend", "find_descend"}
    /\ call \in Calls
    /\ node \in NodeId \cup {None}
    /\ stack \in Seq(Entry)
    /\ r \in Results
    /\ ret \in Value \cup Pair \cup {None}

-----------------------------------------------------------------------------
(* Capacity                                                                *)

(***************************************************************************)
(* No operation writes past the arrays of a node: the accesses of          *)
(* leaf_node.rs and inner_node.rs are unchecked (get_unchecked_mut), and   *)
(* only the callers' reading of is_full, able_to_lend and the minimum size *)
(* keeps splits, rotations and merges within them.  Holds at every step.   *)
(***************************************************************************)
NoOverflow ==
    /\ \A i \in DOMAIN leaves : LeafSize(leaves[i]) <= LEAF_N
    /\ \A i \in DOMAIN inners : InnerSize(inners[i]) <= INNER_N

-----------------------------------------------------------------------------
(* Levels                                                                  *)

\* h gives each inner node a height; leaves are at height 0.
HeightOf(h, id) == IF id.kind = "leaf" THEN 0 ELSE h[id.id]

Heights == [DOMAIN inners -> 1 .. Len(inners)]

\* The ids at height d of a store with the leaves 1 .. n and the inner nodes of h.
NodesAt(n, h, d) == IF d = 0 THEN {Leaf(i) : i \in 1 .. n}
                             ELSE {Inner(i) : i \in {j \in DOMAIN h : h[j] = d}}

\* id is in the store, at height d.
IsAt(h, id, d) == id \in NodesAt(Len(leaves), h, d)

\* The children of every inner node are in the store and lie one level below it.
Levelled(h) ==
    /\ IsAt(h, root, HeightOf(h, root))
    /\ \A i \in DOMAIN inners :
           inners[i].child \in Seq(NodesAt(Len(leaves), h, h[i] - 1))

(***************************************************************************)
(* The tree is balanced: one height fits every inner node.  Siblings are   *)
(* then of one kind, so that the unchecked casts leaf_id_unchecked and     *)
(* inner_id_unchecked that tree_remove.rs applies to them are right.       *)
(***************************************************************************)
Balanced == \E h \in Heights : Levelled(h)

-----------------------------------------------------------------------------
(* The call in progress                                                    *)

\* Where the path s from rt leads: the child of its last entry.
EndOf(s, rt) == IF s = <<>> THEN rt ELSE s[Len(s)].child

(***************************************************************************)
(* s is a path from rt down the inner nodes ins: each entry names a child  *)
(* of its node, and the next entry is about that child.  Heights fall      *)
(* along it, so that no node is on it twice.                               *)
(***************************************************************************)
IsPath(s, rt, ins, h) ==
    /\ \A n \in DOMAIN s :
           /\ s[n].id \in DOMAIN ins
           /\ s[n].idx \in DOMAIN ins[s[n].id].child
           /\ s[n].child = ins[s[n].id].child[s[n].idx]
           /\ Inner(s[n].id) = IF n = 1 THEN rt ELSE s[n - 1].child
    /\ \A m, n \in DOMAIN s : m < n => h[s[n].id] < h[s[m].id]

\* The stack is a path from the root, and its parents still name its children.
Path(h) == IsPath(stack, root, inners, h)

\* Where the path leads: the child the ascent comes from, the root if none is left.
Current == EndOf(stack, root)

Descending == {"insert_inner", "key_to_ref", "get_ref_by_augmentation"}

\* What the locals of each loop hold.
Locals(h) ==
    /\ pc \in {"idle", "find_descend"} => stack = <<>>
    /\ pc \in Descending => node = Current
    /\ pc = "find_descend" => IsAt(h, node, HeightOf(h, node))
    /\ pc = "insert_inner" => call.op = "insert"
    /\ pc = "key_to_ref" => call.op = "remove"
    /\ pc = "get_ref_by_augmentation" =>
           call.op \in {"remove_by_augmentation", "get_mut_by_augmentation"}
    /\ pc = "remove_ascend" => call.op \in {"remove", "remove_by_augmentation"}
    /\ pc = "find_descend" => call.op \in {"get", "get_mut"}
    /\ pc = "insert_ascend" => r \in InsertResults
    /\ pc = "remove_ascend" => r \in RemoveResults

\* What the result of the ascent says of the node it comes from.
ResultOK(h) ==
    /\ pc = "insert_ascend" /\ r.tag = "Split" =>
           IsAt(h, r.right, HeightOf(h, Current))
    /\ pc = "remove_ascend" /\ r.tag = "InnerUnderSize" =>
           Current.kind = "inner" /\ InnerUnderSize(inners[Current.id])
    /\ pc = "remove_ascend" /\ r.tag = "LeafUnderSize" =>
           /\ Current.kind = "leaf"
           /\ r.slot \in DOMAIN leaves[Current.id].data
           /\ ~LeafAbleToLend(leaves[Current.id])

(***************************************************************************)
(* The inductive invariant.  NoOverflow needs to know that a merge joins   *)
(* an undersized node and one that cannot lend, hence ResultOK; that the   *)
(* undersized node is the child the parent names, hence Path; and that the *)
(* steps below do not touch the parents on the path, hence the heights.    *)
(***************************************************************************)
IInv ==
    /\ TypeOK
    /\ NoOverflow
    /\ \E h \in Heights : Levelled(h) /\ Path(h) /\ Locals(h) /\ ResultOK(h)
-----------------------------------------------------------------------------
(* Owners                                                                  *)

(***************************************************************************)
(* A node that a removal reports as undersized has a sibling to borrow     *)
(* from or to merge with: the _ => unreachable!() of                       *)
(* handle_leaf_under_size and the debug_assert!(slot < node.len()) of      *)
(* merge_inner_node (tree_remove.rs) say that it never lacks one.          *)
(***************************************************************************)
SiblingAtHand ==
    pc = "remove_ascend" /\ stack # <<>> /\ r.tag # "Done" => HasPrev \/ HasNext

\* An insertion has split a node, and not yet handed the right half to a parent.
IsSplit == pc = "insert_ascend" /\ r.tag = "Split"

(***************************************************************************)
(* The nodes without a parent: the root, and the right half of a node that *)
(* an insertion has split and not yet handed to a parent.                  *)
(***************************************************************************)
Orphans == {root} \cup IF IsSplit THEN {r.right} ELSE {}

(***************************************************************************)
(* Among the inner nodes T of the tree no node has two parents, nor twice  *)
(* the same one; the nodes of orphans have none.                           *)
(***************************************************************************)
Owned(ins, T, orphans) ==
    /\ T \subseteq DOMAIN ins
    /\ \A x \in orphans : x.kind = "inner" => x.id \in T
    /\ \A i \in T :
           /\ IsInjective(ins[i].child)
           /\ Range(ins[i].child) \cap orphans = {}
           /\ \A x \in Range(ins[i].child) : x.kind = "inner" => x.id \in T
    /\ \A i, j \in T : i # j => Range(ins[i].child) \cap Range(ins[j].child) = {}

\* The ascent of a removal is reporting that node i is under its minimum.
IsReported(i) == pc = "remove_ascend" /\ r.tag = "InnerUnderSize" /\ Current = Inner(i)

\* The keys that node i has at least: one less while it is reported.
LeastKeys(i) == (IF Inner(i) = root THEN 1 ELSE MIN_N) - (IF IsReported(i) THEN 1 ELSE 0)

(***************************************************************************)
(* The strengthening of SiblingAtHand: T are the inner nodes of the tree.  *)
(* A merge may leave a parent short, and only the one parent of that one   *)
(* learns of it, hence Owned; a root that gives way and a node merged away *)
(* leave T; the two halves of a split are full enough to become children.  *)
(***************************************************************************)
InnersFilled(T) ==
    /\ Owned(inners, T, Orphans)
    /\ \A i \in T : InnerSize(inners[i]) >= LeastKeys(i)
    /\ \A n \in DOMAIN stack : stack[n].id \in T
    /\ IsSplit =>
           /\ r.right # root
           /\ Current.kind = "inner" => InnerSize(inners[Current.id]) >= MIN_N

\* Some set of inner nodes is the tree.
TreeShaped == \E T \in SUBSET DOMAIN inners : InnersFilled(T)
-----------------------------------------------------------------------------
(* Augmentations                                                           *)

\* The call has changed the leaf, and the ascent tells the parents on the stack.
IsTelling == /\ pc \in {"insert_ascend", "remove_ascend"}
             /\ r.tag \notin {"Updated", "LeafUnderSize"}

(***************************************************************************)
(* The augmentation of a child is that of the node it names, among the     *)
(* inner nodes T, except on the path the ascent has yet to climb.          *)
(***************************************************************************)
Counted(T) ==
    \A i \in T : \A c \in DOMAIN inners[i].child :
        \/ inners[i].aug[c] = AugOf(inners[i].child[c])
        \/ IsTelling /\ \E n \in DOMAIN stack : stack[n].id = i /\ stack[n].idx = c

-----------------------------------------------------------------------------
(* Routes                                                                  *)

LeafAlive == DOMAIN leaves \ takenLeaves

KeysOf(leaf) == {leaf.data[i][1] : i \in DOMAIN leaf.data}

Ascends(data) == \A i, j \in DOMAIN data : i < j => data[i][1] < data[j][1]

\* S lies before U.
Precedes(S, U) == \A a \in S, b \in U : a < b

(***************************************************************************)
(* The leaf chain that iterators and cursors follow, said of one leaf at a *)
(* time: the alive leaves are ordered by their keys, next is the least of  *)
(* the leaves after, prev leads back, and only the ends of the order have  *)
(* an open link.  So next meets every leaf once, in the order of the keys. *)
(***************************************************************************)
LeafChain ==
    \A l \in LeafAlive :
        /\ Ascends(leaves[l].data)
        /\ leaves[l].next # None =>
               /\ leaves[l].next \in LeafAlive
               /\ leaves[leaves[l].next].prev = l
        /\ leaves[l].prev # None =>
               /\ leaves[l].prev \in LeafAlive
               /\ leaves[leaves[l].prev].next = l
        /\ \A m \in LeafAlive \ {l} :
               LET Before(i, j) == Precedes(KeysOf(leaves[i]), KeysOf(leaves[j]))
               IN  /\ KeysOf(leaves[m]) # {}
                   /\ \/ Before(m, l) /\ leaves[l].prev # None
                      \/ Before(l, m) /\ leaves[l].next # None
                   /\ m # leaves[l].next /\ Before(l, m) => Before(leaves[l].next, m)

\* k is the least of B, and what is in A is less.
Separates(k, A, B) ==
    /\ A # {} /\ \A a \in A : a < k
    /\ k \in B /\ \A b \in B : k <= b

\* S has no gap.
IsInterval(S) == \A a, c \in S, b \in Key : a <= b /\ b <= c => b \in S

(***************************************************************************)
(* R gives each node of the tree the keys for which a descent meets it.    *)
(* Node n shares out its keys S: each child x gets W[x], and the keys of   *)
(* the node stand between the children.                                    *)
(***************************************************************************)
Routes(n, S, W) ==
    /\ S = UNION {W[x] : x \in Range(n.child)}
    /\ \A c \in DOMAIN n.keys : Separates(n.keys[c], W[n.child[c]], W[n.child[c + 1]])

\* What parents know: the right half of a split is still part of the left one.
Known(R) == [x \in NodeId |-> IF IsSplit /\ x = Current THEN R[x] \cup R[r.right] ELSE R[x]]

\* The root gets every key, and each node shares out what it gets.
KeysShared(T, R) ==
    /\ Known(R)[root] = Key
    /\ \A i \in T : /\ IsInterval(R[Inner(i)])
                   /\ Routes(inners[i], R[Inner(i)], Known(R))
    /\ IsSplit => Separates(r.k, R[Current], R[r.right])

\* A node of the tree with the inner nodes T.
InTree(T, x) == IF x.kind = "leaf" THEN x.id \in LeafAlive ELSE x.id \in T

\* The leaves of the tree are alive, and a leaf taken from the store once was there.
LeavesKnown(T) ==
    /\ takenLeaves \subseteq DOMAIN leaves
    /\ \A x \in Orphans : InTree(T, x)
    /\ \A i \in T : \A x \in Range(inners[i].child) : InTree(T, x)

\* Each leaf holds keys routed to it, in order, and no other leaf gets these.
LeavesHold(lvs, A, R) ==
    \A l \in A :
        /\ Ascends(lvs[l].data)
        /\ KeysOf(lvs[l]) \subseteq R[Leaf(l)]
        /\ \A m \in A \ {l} : R[Leaf(l)] \cap R[Leaf(m)] = {}

\* Leaf i gets smaller keys than leaf j.
Ahead(R, i, j) == Precedes(R[Leaf(i)], R[Leaf(j)])

\* next is the leaf that gets the next larger keys.
LeavesLinked(lvs, A, R) ==
    \A l \in A :
        /\ lvs[l].prev # None => lvs[l].prev \in A /\ lvs[lvs[l].prev].next = l
        /\ lvs[l].next # None => /\ lvs[l].next \in A /\ lvs[lvs[l].next].prev = l
                                 /\ Ahead(R, l, lvs[l].next)
        /\ \A m \in A \ {l} :
               \/ Ahead(R, m, l) /\ lvs[l].prev # None
               \/ lvs[l].next # None /\ (m # lvs[l].next => Ahead(R, lvs[l].next, m))

\* Every leaf has its minimum, but for a root that is a leaf.
LeavesFilled ==
    \A l \in LeafAlive : \/ Leaf(l) = root /\ ~IsSplit
                         \/ LeafSize(leaves[l]) >= LEAF_MIN

\* A descent for a key is at a node that gets it.
DescentRouted(T, R) ==
    pc \in {"insert_inner", "key_to_ref", "find_descend"} =>
        InTree(T, node) /\ call.k \in R[node]

(***************************************************************************)
(* The tree with the inner nodes T routes keys to leaves as R says.        *)
(***************************************************************************)
InOrder(T, R) ==
    /\ KeysShared(T, R)
    /\ LeavesKnown(T)
    /\ LeavesHold(leaves, LeafAlive, R)
    /\ LeavesLinked(leaves, LeafAlive, R)
    /\ LeavesFilled
    /\ DescentRouted(T, R)
=============================================================================
