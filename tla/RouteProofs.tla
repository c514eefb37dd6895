----------------------------- MODULE RouteProofs ----------------------------
(***************************************************************************)
(* A third induction over module BPlusTree, on top of that of module       *)
(* OwnerProofs: some R gives each node of the tree the keys for which a    *)
(* descent meets it, leaves hold no other keys, and the leaf chain follows *)
(* the order of the routes.                                                *)
(***************************************************************************)
EXTENDS OwnerProofs, OrderProofs

-----------------------------------------------------------------------------
(* What the invariant says of a state                                      *)

\* The keys that each node of a store could get.
Routing == [NodeId -> SUBSET Key]

\* The tree with the inner nodes T, and the keys that lead to its nodes.
Routed(T, R) == InnersFilled(T) /\ R \in Routing /\ InOrder(T, R)

\* What a pointer of the model names is a node.
LEMMA IdsAreNodes == \A i \in Nat : Leaf(i) \in NodeId /\ Inner(i) \in NodeId
BY DEF Leaf, Inner, NodeId

\* Without a split under way parents know all.
LEMMA KnownIs ==
  ASSUME NEW R \in Routing
  PROVE  /\ ~IsSplit => Known(R) = R
         /\ \A x \in NodeId : x # Current => Known(R)[x] = R[x]
         /\ IsSplit /\ Current \in NodeId => Known(R)[Current] = R[Current] \cup R[r.right]
BY DEF Known, Routing

\* The leaves of the store.
LEMMA LeavesAre ==
  ASSUME NEW h, Good(h)
  PROVE  /\ leaves \in Seq(LeafRec) /\ Len(leaves) \in Nat /\ DOMAIN leaves = 1 .. Len(leaves)
         /\ LeafAlive \subseteq DOMAIN leaves /\ LeafAlive \subseteq Nat
         /\ DOMAIN leaves \subseteq Nat /\ None \notin DOMAIN leaves
         /\ \A l \in DOMAIN leaves : /\ leaves[l] \in LeafOver(Pair)
                                    /\ leaves[l].data \in Seq(Pair)
                                    /\ LeafSize(leaves[l]) \in Nat
                                    /\ DOMAIN leaves[l].data = 1 .. LeafSize(leaves[l])
                                    /\ leaves[l].prev \in Nat \cup {None}
                                    /\ leaves[l].next \in Nat \cup {None}
<1>1. /\ leaves \in Seq(LeafRec) /\ Len(leaves) \in Nat /\ DOMAIN leaves = 1 .. Len(leaves)
      /\ \A l \in DOMAIN leaves : leaves[l] \in LeafOver(Pair)
  BY StoreParts DEF Good
<1>2. \A l \in DOMAIN leaves : leaves[l].data \in Seq(Pair)
                              /\ leaves[l].prev \in Nat \cup {None}
                              /\ leaves[l].next \in Nat \cup {None}
  BY <1>1 DEF LeafOver
<1>3. DOMAIN leaves \subseteq Nat /\ None \notin DOMAIN leaves
  BY <1>1, NoneAssumption
<1>4. \A l \in DOMAIN leaves : LeafSize(leaves[l]) \in Nat
                              /\ DOMAIN leaves[l].data = 1 .. LeafSize(leaves[l])
  BY <1>2, LenProperties DEF LeafSize
<1> QED
  BY <1>1, <1>2, <1>3, <1>4 DEF LeafAlive

\* A leaf with an entry gets a key.
LEMMA SizeMeansKeys ==
  ASSUME NEW h, Good(h), NEW l \in DOMAIN leaves, LeafSize(leaves[l]) > 0
  PROVE  KeysOf(leaves[l]) # {} /\ KeysOf(leaves[l]) \subseteq Key
<1>1. /\ leaves[l].data \in Seq(Pair) /\ LeafSize(leaves[l]) \in Nat
      /\ DOMAIN leaves[l].data = 1 .. LeafSize(leaves[l])
  BY LeavesAre
<1>2. \A i \in DOMAIN leaves[l].data : leaves[l].data[i][1] \in Key
  BY <1>1, PairsAt DEF LeafSize
<1>3. 1 \in DOMAIN leaves[l].data
  BY <1>1
<1> QED
  BY <1>2, <1>3 DEF KeysOf

\* A leaf is without a key to get only if there is no key at all.
LEMMA RangedLeaves ==
  ASSUME NEW h, Good(h), NEW T, NEW R, Routed(T, R), Key # {}
  PROVE  Ranged(LeafAlive, R)
<1> SUFFICES ASSUME NEW l \in LeafAlive PROVE R[Leaf(l)] \subseteq Int /\ R[Leaf(l)] # {}
  BY DEF Ranged
<1>1. l \in DOMAIN leaves /\ l \in Nat /\ LeafSize(leaves[l]) \in Nat
  BY LeavesAre
<1>2. R[Leaf(l)] \subseteq Key /\ Key \subseteq Int
  BY <1>1, IdsAreNodes, KeyAssumption DEF Routed, Routing
<1>3. CASE Leaf(l) = root /\ ~IsSplit
  <2>1. R[root] = Key
    BY <1>3, KnownIs DEF Routed, InOrder, KeysShared
  <2> QED
    BY <1>2, <1>3, <2>1
<1>4. CASE LeafSize(leaves[l]) >= LEAF_MIN
  <2>1. LeafSize(leaves[l]) > 0
    BY <1>1, <1>4, LeafMinimumIs
  <2>2. KeysOf(leaves[l]) # {} /\ KeysOf(leaves[l]) \subseteq R[Leaf(l)]
    BY <1>1, <2>1, SizeMeansKeys DEF Routed, InOrder, LeavesHold
  <2> QED
    BY <1>2, <2>2
<1> QED
  BY <1>3, <1>4 DEF Routed, InOrder, LeavesFilled

\* A node of the tree, and what it gets.
LEMMA RangeOf ==
  ASSUME NEW h, Good(h), NEW T, NEW R, Routed(T, R), NEW i \in T
  PROVE  /\ i \in DOMAIN inners /\ i \in Nat /\ Inner(i) \in NodeId
         /\ R[Inner(i)] \subseteq Key /\ IsInterval(R[Inner(i)])
         /\ Routes(inners[i], R[Inner(i)], Known(R))
         /\ IsInner(inners[i], Key, NodesAt(Len(leaves), h, h[i] - 1))
         /\ Kids(inners[i], KidsOf(inners, i))
         /\ ~IsSplit => Routes(inners[i], R[Inner(i)], R)
<1>1. i \in DOMAIN inners
  BY DEF Routed, InnersFilled, Owned
<1>2. i \in Nat /\ IsInner(inners[i], Key, NodesAt(Len(leaves), h, h[i] - 1))
  BY <1>1, StoreParts DEF Good, StoreOK
<1>3. Inner(i) \in NodeId
  BY <1>2, IdsAreNodes
<1>4. R[Inner(i)] \subseteq Key
  BY <1>3 DEF Routed, Routing
<1>5. IsInterval(R[Inner(i)]) /\ Routes(inners[i], R[Inner(i)], Known(R))
  BY DEF Routed, InOrder, KeysShared
<1>6. Kids(inners[i], KidsOf(inners, i))
  BY DEF Routed, InnersFilled, Owned, Kids, Once, KidsOf
<1>7. ~IsSplit => Routes(inners[i], R[Inner(i)], R)
  BY <1>5, KnownIs DEF Routed
<1> QED
  BY <1>1, <1>2, <1>3, <1>4, <1>5, <1>6, <1>7

\* Routes needs only the keys, the children and what these get.
LEMMA RoutesSame ==
  ASSUME NEW n, NEW S, NEW W, Routes(n, S, W), NEW m, m.keys = n.keys, m.child = n.child,
         NEW V, \A x \in Range(n.child) : V[x] = W[x],
         NEW C, IsInner(n, Key, C)
  PROVE  Routes(m, S, V)
<1>1. \A c \in DOMAIN n.keys : c \in DOMAIN n.child /\ c + 1 \in DOMAIN n.child
  BY NodeParts
<1>2. \A c \in DOMAIN n.child : V[n.child[c]] = W[n.child[c]]
  BY DEF Range
<1>3. {V[x] : x \in Range(m.child)} = {W[x] : x \in Range(n.child)}
  OBVIOUS
<1> QED
  BY <1>1, <1>2, <1>3 DEF Routes

\* Node i shares out an interval of keys.
NodeShares(Q, i) == IsInterval(Q[Inner(i)]) /\ Routes(inners[i], Q[Inner(i)], Known(Q))

\* A step keeps the keys and the children of node i, and what they get.
NodeKept(R, Q, i) ==
    /\ Q[Inner(i)] = R[Inner(i)]
    /\ inners'[i].keys = inners[i].keys /\ inners'[i].child = inners[i].child
    /\ \A x \in KidsOf(inners, i) : Known(Q)'[x] = Known(R)[x]

\* An inner node that stays as it was goes on to share its keys among its children.
LEMMA NodeKeptShares ==
  ASSUME NEW h, Good(h), NEW T, NEW R, Routed(T, R), NEW Q, NEW i \in T, NodeKept(R, Q, i)
  PROVE  NodeShares(Q, i)'
<1>1. /\ IsInterval(R[Inner(i)]) /\ Routes(inners[i], R[Inner(i)], Known(R))
      /\ IsInner(inners[i], Key, NodesAt(Len(leaves), h, h[i] - 1))
  BY RangeOf
<1>2. Routes(inners'[i], R[Inner(i)], Known(Q)')
  <2> DEFINE n == inners[i]
             m == inners'[i]
             W == Known(R)
             V == Known(Q)'
             S == R[Inner(i)]
             C == NodesAt(Len(leaves), h, h[i] - 1)
  <2>1. m.keys = n.keys /\ m.child = n.child /\ \A x \in Range(n.child) : V[x] = W[x]
    BY DEF NodeKept, KidsOf
  <2>2. Routes(n, S, W) /\ IsInner(n, Key, C)
    BY <1>1
  <2> HIDE DEF n, m, W, V, S, C
  <2>3. Routes(m, S, V)
    BY ONLY <2>1, <2>2, RoutesSame
  <2> QED
    BY <2>3 DEF m, S, V
<1> QED
  BY <1>1, <1>2 DEF NodeKept, NodeShares

\* KeysShared after a step: the tree is U, and keys lead to its nodes as Q says.
LEMMA SharedAfter ==
  ASSUME NEW h, Good(h), NEW T, NEW R, Routed(T, R), NEW U, NEW Q,
         \A i \in U : (i \in T /\ NodeKept(R, Q, i)) \/ NodeShares(Q, i)',
         Known(Q)'[root'] = Key,
         IsSplit' => Separates(r'.k, Q[Current'], Q[r'.right])
  PROVE  KeysShared(U, Q)'
<1>1. \A i \in U : NodeShares(Q, i)'
  BY NodeKeptShares
<1> QED
  BY <1>1 DEF KeysShared, NodeShares

\* The same where the inner nodes keep their keys and their children.
LEMMA SharedSame ==
  ASSUME NEW h, Good(h), NEW T, NEW R, Routed(T, R), ~IsSplit, ~IsSplit', root' = root,
         \A i \in T : inners'[i].keys = inners[i].keys /\ inners'[i].child = inners[i].child
  PROVE  KeysShared(T, R)'
<1>1. Known(R) = R
  BY KnownIs DEF Routed
<1>2. Known(R)' = R
  BY DEF Known, Routed, Routing
<1>3. R[root] = Key
  BY <1>1 DEF Routed, InOrder, KeysShared
<1>4. \A i \in T : NodeKept(R, R, i)
  BY <1>1, <1>2 DEF NodeKept
<1>5. Known(R)'[root'] = Key
  BY <1>2, <1>3
<1> QED
  BY <1>4, <1>5, SharedAfter

\* The leaves of a tree are alive after a step, if those it got are.
LEMMA KnownAfter ==
  ASSUME NEW U, InnersFilled(U)', takenLeaves' \subseteq DOMAIN leaves',
         \A x \in Orphans' : x.kind = "leaf" => x.id \in LeafAlive',
         \A i \in U : \A x \in KidsOf(inners', i) : x.kind = "leaf" => x.id \in LeafAlive',
         \A x \in Orphans' : x \in NodeId,
         \A i \in U : \A x \in KidsOf(inners', i) : x \in NodeId
  PROVE  LeavesKnown(U)'
<1>1. \A x \in Orphans' : x.kind = "inner" => x.id \in U
  BY DEF InnersFilled, Owned
<1>2. \A i \in U : \A x \in KidsOf(inners', i) : x.kind = "inner" => x.id \in U
  BY DEF InnersFilled, Owned, KidsOf
<1>3. \A x \in NodeId : x.kind \in {"leaf", "inner"}
  BY DEF NodeId
<1> QED
  BY <1>1, <1>2, <1>3 DEF LeavesKnown, InTree, KidsOf

\* The nodes of the tree with the inner nodes T.
NodesOf(T) == Orphans \cup UNION {KidsOf(inners, i) : i \in T}

\* The nodes that the inner nodes of the tree point to are in the tree.
LEMMA NodesOfTree ==
  ASSUME NEW h, Good(h), NEW T, NEW R, Routed(T, R), NEW x \in NodesOf(T)
  PROVE  x \in NodeId /\ InTree(T, x) /\ x.kind \in {"leaf", "inner"}
<1>1. LeavesKnown(T) /\ T \subseteq DOMAIN inners
  BY DEF Routed, InOrder, InnersFilled, Owned
<1>2. InTree(T, x)
  BY <1>1 DEF NodesOf, LeavesKnown, KidsOf
<1>3. CASE x \in Orphans
  <2>1. root \in NodeId
    BY DEF Good, Scalars
  <2>2. IsSplit => r.right \in NodeId
    BY DEF IsSplit, Good, Locals, InsertResults, Inserted
  <2> QED
    BY <1>2, <1>3, <2>1, <2>2 DEF Orphans, NodeId
<1>4. CASE x \in UNION {KidsOf(inners, i) : i \in T}
  <2>1. PICK i \in T : x \in KidsOf(inners, i)
    BY <1>4
  <2>2. x \in NodeId
    BY <1>1, <2>1, KidKnown
  <2> QED
    BY <1>2, <2>2 DEF NodeId
<1> QED
  BY <1>3, <1>4 DEF NodesOf

(***************************************************************************)
(* LeavesKnown after a step whose parents have only nodes of the tree, and *)
(* which takes no leaf.                                                    *)
(***************************************************************************)
LEMMA KnownMoved ==
  ASSUME NEW h, Good(h), NEW T, NEW R, Routed(T, R), LeafAlive \subseteq LeafAlive',
         NEW U, InnersFilled(U)', takenLeaves' \subseteq DOMAIN leaves',
         \A x \in Orphans' : x \in NodesOf(T) \/ InTree(U, x)',
         \A i \in U : \A x \in KidsOf(inners', i) : x \in NodesOf(T) \/ InTree(U, x)'
  PROVE  LeavesKnown(U)'
<1>1. \A x \in Orphans' : x.kind = "inner" => x.id \in U
  BY DEF InnersFilled, Owned
<1>2. \A i \in U : \A x \in KidsOf(inners', i) : x.kind = "inner" => x.id \in U
  BY DEF InnersFilled, Owned, KidsOf
<1>3. \A x \in NodesOf(T) : x.kind \in {"leaf", "inner"} /\ (x.kind = "leaf" => x.id \in LeafAlive')
  BY NodesOfTree DEF InTree
<1> QED
  BY <1>1, <1>2, <1>3 DEF LeavesKnown, InTree, KidsOf

\* A step that keeps the leaves, and deals out the nodes of the tree anew.
LEMMA NodesRouted ==
  ASSUME NEW h, Good(h), NEW T, NEW R, Routed(T, R), UNCHANGED <<leaves, takenLeaves>>,
         NEW U, InnersFilled(U)', NEW Q \in Routing,
         \A l \in LeafAlive : Q[Leaf(l)] = R[Leaf(l)],
         KeysShared(U, Q)',
         Orphans' \subseteq NodesOf(T) \cup {x \in NodeId : InTree(U, x)'},
         \A i \in U : KidsOf(inners', i) \subseteq NodesOf(T) \cup {x \in NodeId : InTree(U, x)'},
         \A l : Leaf(l) = root /\ ~IsSplit => Leaf(l) = root' /\ ~IsSplit',
         DescentRouted(U, Q)'
  PROVE  Routed(U, Q)'
<1>1. LeafAlive' = LeafAlive
  BY DEF LeafAlive
<1>2. LeavesKnown(U)'
  <2>1. takenLeaves' \subseteq DOMAIN leaves'
    BY DEF Routed, InOrder, LeavesKnown
  <2>2. \A x \in Orphans' : x \in NodesOf(T) \/ InTree(U, x)'
    OBVIOUS
  <2>3. \A i \in U : \A x \in KidsOf(inners', i) : x \in NodesOf(T) \/ InTree(U, x)'
    OBVIOUS
  <2>4. LeafAlive \subseteq LeafAlive'
    BY <1>1
  <2> QED
    BY ONLY Good(h), Routed(T, R), InnersFilled(U)', <2>1, <2>2, <2>3, <2>4, KnownMoved
<1>3. LeavesHold(leaves, LeafAlive, Q)'
  BY <1>1 DEF LeavesHold, Routed, InOrder
<1>4. LeavesLinked(leaves, LeafAlive, Q)'
  <2>1. LeavesLinked(leaves, LeafAlive, R)
    BY DEF Routed, InOrder
  <2>2. LeavesLinked(leaves, LeafAlive, Q)
    BY <2>1, LinkedSame DEF LinksKept
  <2> QED
    BY <1>1, <2>2
<1>5. LeavesFilled'
  BY <1>1 DEF LeavesFilled, Routed, InOrder
<1>6. InOrder(U, Q)'
  BY <1>2, <1>3, <1>4, <1>5 DEF InOrder
<1> QED
  BY <1>6 DEF Routed

\* A step that keeps the leaves, the root, and what the inner nodes route.
LEMMA QuietRouted ==
  ASSUME NEW h, Good(h), NEW T, NEW R, Routed(T, R), UNCHANGED <<root, leaves, takenLeaves>>,
         InnersFilled(T)', ~IsSplit, ~IsSplit',
         \A i \in T : inners'[i].keys = inners[i].keys /\ inners'[i].child = inners[i].child,
         DescentRouted(T, R)'
  PROVE  Routed(T, R)'
<1>1. KeysShared(T, R)'
  BY SharedSame
<1>2. Orphans' \subseteq NodesOf(T)
  BY DEF Orphans, NodesOf
<1>3. \A i \in T : KidsOf(inners', i) \subseteq NodesOf(T)
  BY DEF KidsOf, NodesOf
<1>4. R \in Routing
  BY DEF Routed
<1> QED
  BY <1>1, <1>2, <1>3, <1>4, NodesRouted

\* The same where the inner nodes are left alone.
LEMMA StillRouted ==
  ASSUME NEW h, Good(h), NEW T, NEW R, Routed(T, R),
         UNCHANGED <<root, leaves, takenLeaves, inners>>,
         InnersFilled(T)', ~IsSplit, ~IsSplit', DescentRouted(T, R)'
  PROVE  Routed(T, R)'
BY QuietRouted

\* A call begins.
LEMMA EnterRouted ==
  ASSUME NEW h, Good(h), NEW T, NEW R, Routed(T, R), NEW where, NEW c, Enter(where, c),
         where \notin {"insert_ascend", "remove_ascend"},
         where # "get_ref_by_augmentation" => c.k \in Key
  PROVE  Routed(T, R)'
<1>1. /\ UNCHANGED <<root, leaves, takenLeaves, inners>> /\ pc = "idle" /\ pc' = where
      /\ node' = root /\ call' = c
  BY DEF Enter, tree, store, taken
<1>2. ~IsSplit /\ ~IsSplit'
  BY <1>1 DEF IsSplit
<1>3. R[root] = Key
  BY <1>2, KnownIs DEF Routed, InOrder, KeysShared
<1>4. InTree(T, root)
  BY DEF Routed, InOrder, LeavesKnown, Orphans
<1>5. InTree(T, root)'
  BY <1>1, <1>4 DEF InTree, LeafAlive
<1>6. DescentRouted(T, R)'
  BY <1>1, <1>3, <1>5 DEF DescentRouted
<1>7. InnersFilled(T)'
  BY EnterFilled DEF Routed
<1> QED
  BY <1>1, <1>2, <1>6, <1>7, StillRouted

\* A call returns, and leaves the tree alone.
LEMMA ReturnRouted ==
  ASSUME NEW h, Good(h), NEW T, NEW R, Routed(T, R), NEW x, Return(x),
         UNCHANGED <<root, leaves, takenLeaves, inners>>, ~IsShort, ~IsSplit
  PROVE  Routed(T, R)'
<1>1. ~IsSplit' /\ DescentRouted(T, R)'
  BY DEF IsSplit, DescentRouted, Return
<1>2. InnersFilled(T)'
  BY ReturnFilled DEF Routed
<1> QED
  BY <1>1, <1>2, StillRouted

\* A descent for a key stays with the nodes that get the key.
LEMMA DownRouted ==
  ASSUME NEW h, Good(h), NEW T, NEW R, Routed(T, R), ~IsSplit,
         InTree(T, node), node \in NodeId, node.kind = "inner", NEW k \in R[node]
  PROVE  LET x == inners[node.id].child[LocateChild(inners[node.id], k)]
         IN  InTree(T, x) /\ k \in R[x]
<1> DEFINE n == inners[node.id]
           x == n.child[LocateChild(n, k)]
           C == NodesAt(Len(leaves), h, h[node.id] - 1)
<1>1. node.id \in T /\ node = Inner(node.id)
  BY DEF InTree, NodeId, Inner
<1>2. IsInner(n, Key, C) /\ R[node] \subseteq Key /\ Routes(n, R[node], R)
  BY <1>1, RangeOf
<1> HIDE DEF n, C
<1>3. LocateChild(n, k) \in DOMAIN n.child /\ k \in R[x]
  BY <1>2, RouteDown
<1>4. x \in Range(n.child)
  BY <1>3 DEF Range
<1>5. InTree(T, x)
  BY <1>1, <1>4 DEF n, Routed, InOrder, LeavesKnown
<1> QED
  BY <1>3, <1>5 DEF n

-----------------------------------------------------------------------------
(* Steps that leave the routes alone                                       *)

\* Pushing keeps the stack's path, and the descent goes where the code sends it.
LEMMA DescentStepRouted ==
  ASSUME NEW h, Good(h), NEW T, NEW R, Routed(T, R),
         InsertDescend \/ KeyToRefDescend \/ FindDescend
  PROVE  Routed(T, R)'
<1> PICK x : x = inners[node.id].child[LocateChild(inners[node.id], call.k)]
  OBVIOUS
<1>1. /\ UNCHANGED <<root, leaves, takenLeaves, inners, pc, call>> /\ node' = x
      /\ pc \in {"insert_inner", "key_to_ref", "find_descend"} /\ node.kind = "inner"
  BY DEF InsertDescend, KeyToRefDescend, FindDescend, AtInner, Push, tree, store, taken
<1>2. InnersFilled(T)'
  BY DescentFilled DEF Routed, FindStep
<1>3. ~IsSplit /\ ~IsSplit'
  BY <1>1 DEF IsSplit
<1>4. InTree(T, node) /\ call.k \in R[node]
  BY <1>1 DEF Routed, InOrder, DescentRouted
<1>5. node \in NodeId
  <2>1. CASE pc = "find_descend"
    BY <2>1, FindFields
  <2>2. CASE pc \in Descending
    <3>1. node = Current
      BY <2>2 DEF Good, Locals
    <3>2. Current \in NodeId
      BY CurrentAt, IdKnown DEF Good, IsAt
    <3> QED
      BY <3>1, <3>2
  <2> QED
    BY <1>1, <2>1, <2>2 DEF Descending
<1>6. InTree(T, x) /\ call.k \in R[x]
  BY <1>1, <1>3, <1>4, <1>5, DownRouted
<1>7. InTree(T, x)'
  BY <1>1, <1>6 DEF InTree, LeafAlive
<1>8. DescentRouted(T, R)'
  BY <1>1, <1>6, <1>7 DEF DescentRouted, InTree, LeafAlive
<1> QED
  BY <1>1, <1>2, <1>3, <1>8, StillRouted

\* A call by index goes down, or finds nothing.
LEMMA QuietCallRouted ==
  ASSUME NEW h, Good(h), NEW T, NEW R, Routed(T, R),
         AugmentationDescend \/ AugmentationMissing \/ KeyToRefMissing
  PROVE  Routed(T, R)'
<1>1. UNCHANGED <<root, leaves, takenLeaves, inners>>
  BY DEF AugmentationDescend, AugmentationMissing, KeyToRefMissing, tree, store, taken
<1>2. InnersFilled(T)'
  BY DescentFilled DEF Routed
<1>3. ~IsSplit /\ ~IsSplit' /\ DescentRouted(T, R)'
  BY DEF AugmentationDescend, AugmentationMissing, KeyToRefMissing, IsSplit,
         AtInner, AtLeaf, Return, DescentRouted
<1> QED
  BY <1>1, <1>2, <1>3, StillRouted

\* The ascents that refresh the augmentation of a parent, or do nothing.
LEMMA RefreshRouted ==
  ASSUME NEW h, Good(h), NEW T, NEW R, Routed(T, R),
         InsertAscendInserted \/ RemoveAscendDone \/ InsertAscendUpdated
  PROVE  Routed(T, R)'
<1>1. /\ UNCHANGED <<root, leaves, takenLeaves, pc>> /\ stack # <<>>
      /\ pc \in {"insert_ascend", "remove_ascend"}
      /\ inners' \in {inners, [inners EXCEPT ![Top.id] = Refreshed]}
  BY DEF InsertAscendInserted, RemoveAscendDone, InsertAscendUpdated, Ascending,
         tree, store, taken
<1>2. InnersFilled(T)'
  BY RefreshFilled, QuietStepFilled DEF Routed
<1>3. ~IsSplit /\ ~IsSplit'
  BY DEF InsertAscendInserted, RemoveAscendDone, InsertAscendUpdated, Ascending, IsSplit
<1>4. DescentRouted(T, R)'
  BY <1>1 DEF DescentRouted
<1>5. Refreshed.keys = Parent.keys /\ Refreshed.child = Parent.child
  BY <1>1, RefreshedOK
<1>6. \A i \in T : inners'[i].keys = inners[i].keys /\ inners'[i].child = inners[i].child
  BY <1>1, <1>5, RangeOf DEF Parent
<1> QED
  BY <1>1, <1>2, <1>3, <1>4, <1>6, QuietRouted

\* The returns that leave the nodes alone.
LEMMA QuietReturnRouted ==
  ASSUME NEW h, Good(h), NEW T, NEW R, Routed(T, R),
         InsertReturnInserted \/ InsertReturnUpdated \/ RemoveReturnDone
  PROVE  Routed(T, R)'
<1>1. /\ UNCHANGED <<root, leaves, takenLeaves, inners>> /\ ~IsShort /\ ~IsSplit
      /\ \E x : Return(x)
  BY DEF InsertReturnInserted, InsertReturnUpdated, RemoveReturnDone, AtRoot,
         tree, store, taken, IsShort, IsSplit
<1> QED
  BY <1>1, ReturnRouted

\* Where a node's keys are cut: what the store holds of a leaf.
LEMMA LeafHolds ==
  ASSUME NEW h, Good(h), NEW T, NEW R, Routed(T, R), NEW l \in LeafAlive
  PROVE  HoldsPairs(leaves[l], Range(leaves[l].data))
<1>1. leaves[l] \in LeafOver(Pair) /\ leaves[l].data \in Seq(Pair)
  BY LeavesAre
<1>2. Ascends(leaves[l].data)
  BY DEF Routed, InOrder, LeavesHold
<1> QED
  BY <1>1, <1>2 DEF HoldsPairs, Sorted

(***************************************************************************)
(* A step that rewrites one leaf, with keys that were routed to it, and    *)
(* keeps its links.                                                        *)
(***************************************************************************)
LEMMA LeafRewritten ==
  ASSUME NEW h, Good(h), NEW T, NEW R, Routed(T, R), UNCHANGED <<root, inners, takenLeaves>>,
         InnersFilled(T)', ~IsSplit, ~IsSplit', DescentRouted(T, R)',
         NEW l \in LeafAlive, NEW m, leaves' = [leaves EXCEPT ![l] = m],
         m.prev = leaves[l].prev, m.next = leaves[l].next,
         NEW P, HoldsPairs(m, P), FirstOf(P) \subseteq R[Leaf(l)],
         Leaf(l) = root \/ LeafSize(m) >= LEAF_MIN
  PROVE  Routed(T, R)'
<1>1. /\ DOMAIN leaves' = DOMAIN leaves /\ LeafAlive' = LeafAlive /\ l \in DOMAIN leaves
      /\ leaves'[l] = m /\ \A j \in DOMAIN leaves : j # l => leaves'[j] = leaves[j]
      /\ LeafAlive \subseteq DOMAIN leaves
  BY DEF LeafAlive
<1>2. KeysShared(T, R)'
  BY SharedSame
<1>3. LeavesKnown(T)'
  BY <1>1 DEF LeavesKnown, Routed, InOrder, Orphans, InTree
<1>4. LeavesHold(leaves', LeafAlive, R)
  <2>1. LeavesHold(leaves, LeafAlive, R)
    BY DEF Routed, InOrder
  <2>2. Ascends(m.data) /\ KeysOf(m) \subseteq R[Leaf(l)]
    BY KeysOfRange DEF HoldsPairs, Sorted
  <2> QED
    BY <1>1, <2>1, <2>2 DEF LeavesHold
<1>5. LeavesLinked(leaves', LeafAlive, R)
  <2>1. LeavesLinked(leaves, LeafAlive, R)
    BY DEF Routed, InOrder
  <2>2. LinksKept(leaves, LeafAlive, leaves')
    BY <1>1 DEF LinksKept
  <2> QED
    BY <2>1, <2>2, LinkedSame
<1>6. LeavesFilled'
  BY <1>1 DEF LeavesFilled, Routed, InOrder
<1>7. InOrder(T, R)'
  BY <1>1, <1>2, <1>3, <1>4, <1>5, <1>6 DEF InOrder
<1> QED
  BY <1>7 DEF Routed

\* The node that the path leads to is in the tree.
LEMMA CurrentIsNode ==
  ASSUME NEW h, Good(h), NEW T, NEW R, Routed(T, R)
  PROVE  Current \in NodesOf(T) /\ Current \in NodeId /\ InTree(T, Current)
<1>1. CASE stack = <<>>
  BY <1>1, RootIsCurrent, NodesOfTree DEF NodesOf, Orphans
<1>2. CASE stack # <<>>
  <2>1. Current \in KidsOf(inners, Top.id) /\ Top.id \in T
    BY <1>2, ParentFacts DEF Routed
  <2> QED
    BY <2>1, NodesOfTree DEF NodesOf
<1> QED
  BY <1>1, <1>2

\* The leaf that a descent has reached.
LEMMA AtLeafRouted ==
  ASSUME NEW h, Good(h), NEW T, NEW R, Routed(T, R),
         pc \in Descending \cup {"find_descend"}, node.kind = "leaf"
  PROVE  /\ node = Leaf(node.id) /\ node.id \in LeafAlive
         /\ pc \in {"insert_inner", "key_to_ref", "find_descend"} => call.k \in R[node]
<1>1. CASE pc = "find_descend"
  BY <1>1, FindFields DEF Routed, InOrder, DescentRouted, InTree, NodeId, Leaf
<1>2. CASE pc \in Descending
  <2>1. node = Current
    BY <1>2 DEF Good, Locals
  <2> QED
    BY <1>2, <2>1, CurrentIsNode DEF InTree, NodeId, Leaf, Routed, InOrder, DescentRouted
<1> QED
  BY <1>1, <1>2

\* A value is replaced, and no key.
LEMMA SetValueRouted ==
  ASSUME NEW h, Good(h), NEW T, NEW R, Routed(T, R), UNCHANGED <<root, inners, takenLeaves>>,
         InnersFilled(T)', ~IsSplit, ~IsSplit', DescentRouted(T, R)',
         NEW l \in LeafAlive, NEW slot \in 1 .. Len(leaves[l].data), NEW v \in Value,
         leaves' = [leaves EXCEPT ![l] = SetValue(leaves[l], slot, v)]
  PROVE  Routed(T, R)'
<1> DEFINE d == leaves[l].data
           P == Range(d)
           e == <<d[slot][1], v>>
           m == SetValue(leaves[l], slot, v)
           Q == (P \ {d[slot]}) \cup {e}
<1>1. HoldsPairs(leaves[l], P) /\ l \in DOMAIN leaves
  BY LeafHolds, LeavesAre
<1>2. HoldsPairs(m, Q)
  BY <1>1, SetValueHolds
<1>3. FirstOf(P) \subseteq R[Leaf(l)]
  BY KeysOfRange DEF Routed, InOrder, LeavesHold
<1>4. FirstOf(Q) \subseteq R[Leaf(l)]
  <2>1. d[slot] \in P
    BY <1>1, LeavesAre DEF Range
  <2>2. e[1] = d[slot][1]
    OBVIOUS
  <2> QED
    BY <1>3, <2>1, <2>2 DEF FirstOf
<1>5. m.prev = leaves[l].prev /\ m.next = leaves[l].next
  BY <1>1, LeavesAre DEF SetValue, LeafOver
<1>6. LeafSize(m) = LeafSize(leaves[l])
  BY <1>1, <1>2, LeavesAre, PutLen DEF SetValue, LeafSize, LeafOver
<1>7. Leaf(l) = root \/ LeafSize(m) >= LEAF_MIN
  BY <1>6 DEF Routed, InOrder, LeavesFilled
<1> HIDE DEF m, Q, d, P, e
<1> QED
  BY <1>2, <1>4, <1>5, <1>7, LeafRewritten DEF m

\* An entry goes from a leaf that can spare it, or that is the root.
LEMMA DeleteAtRouted ==
  ASSUME NEW h, Good(h), NEW T, NEW R, Routed(T, R), UNCHANGED <<root, inners, takenLeaves>>,
         InnersFilled(T)', ~IsSplit, ~IsSplit', DescentRouted(T, R)',
         NEW l \in LeafAlive, NEW slot \in 1 .. Len(leaves[l].data),
         Leaf(l) = root \/ LeafAbleToLend(leaves[l]),
         leaves' = [leaves EXCEPT ![l] = DeleteAt(leaves[l], slot)]
  PROVE  Routed(T, R)'
<1> DEFINE P == Range(leaves[l].data)
           m == DeleteAt(leaves[l], slot)
           Q == P \ {leaves[l].data[slot]}
<1>1. HoldsPairs(leaves[l], P) /\ l \in DOMAIN leaves
  BY LeafHolds, LeavesAre
<1>2. HoldsPairs(m, Q)
  BY <1>1, DeleteAtHolds
<1>3. FirstOf(Q) \subseteq R[Leaf(l)]
  BY KeysOfRange DEF Routed, InOrder, LeavesHold, FirstOf
<1>4. m.prev = leaves[l].prev /\ m.next = leaves[l].next
  BY <1>1, LeavesAre DEF DeleteAt, LeafOver
<1>5. LeafSize(m) = LeafSize(leaves[l]) - 1 /\ LeafSize(leaves[l]) \in Nat
  BY <1>1, LeavesAre, DeleteAtType DEF LeafSize
<1>6. Leaf(l) = root \/ LeafSize(m) >= LEAF_MIN
  BY <1>5, LeafMinimumIs DEF LeafAbleToLend
<1> HIDE DEF m, Q, P
<1> QED
  BY <1>2, <1>3, <1>4, <1>6, LeafRewritten DEF m

\* insert finds the key in the leaf and replaces its value.
LEMMA InsertLeafUpdateRouted ==
  ASSUME NEW h, Good(h), NEW T, NEW R, Routed(T, R), InsertLeafUpdate
  PROVE  Routed(T, R)'
<1> DEFINE l == node.id
           slot == LocateSlot(leaves[l], call.k)
<1>1. /\ pc = "insert_inner" /\ node.kind = "leaf" /\ pc' = "insert_ascend"
      /\ HasKey(leaves[l], call.k) /\ r'.tag = "Updated"
      /\ leaves' = [leaves EXCEPT ![l] = SetValue(leaves[l], slot, call.v)]
      /\ UNCHANGED <<root, inners, takenLeaves>>
  BY DEF InsertLeafUpdate, AtLeaf, Updated, taken
<1>2. l \in LeafAlive
  BY <1>1, AtLeafRouted DEF Descending
<1>3. call.k \in Int /\ call.v \in Value
  BY <1>1, InsertCallFields
<1>4. slot \in 1 .. Len(leaves[l].data)
  BY <1>1, <1>2, <1>3, LeavesAre, LocateSlotType
<1>5. InnersFilled(T)'
  BY QuietStepFilled DEF Routed
<1>6. ~IsSplit /\ ~IsSplit' /\ DescentRouted(T, R)'
  BY <1>1 DEF IsSplit, DescentRouted
<1> QED
  BY <1>1, <1>2, <1>3, <1>4, <1>5, <1>6, SetValueRouted

\* insert adds an entry to a leaf with room for it.
LEMMA InsertLeafInsertRouted ==
  ASSUME NEW h, Good(h), NEW T, NEW R, Routed(T, R), InsertLeafInsert
  PROVE  Routed(T, R)'
<1> DEFINE l == node.id
           e == <<call.k, call.v>>
           slot == LocateSlot(leaves[l], call.k)
           m == InsertInLeaf(leaves[l], slot, e)
           P == Range(leaves[l].data)
           Q == P \cup {e}
<1>1. /\ pc = "insert_inner" /\ node.kind = "leaf" /\ pc' = "insert_ascend"
      /\ ~HasKey(leaves[l], call.k) /\ r'.tag = "Inserted"
      /\ leaves' = [leaves EXCEPT ![l] = m]
      /\ UNCHANGED <<root, inners, takenLeaves>>
  BY DEF InsertLeafInsert, AtLeaf, Inserted, taken
<1>2. l \in LeafAlive /\ l \in DOMAIN leaves /\ call.k \in R[Leaf(l)]
  BY <1>1, AtLeafRouted, LeavesAre DEF Descending
<1>3. e \in Pair /\ e[1] = call.k /\ call.k \in Int
  BY <1>1, InsertCallFields
<1>4. HoldsPairs(leaves[l], P)
  BY <1>2, LeafHolds
<1>5. HoldsPairs(m, Q)
  BY <1>1, <1>3, <1>4, InsertInLeafHolds
<1>6. FirstOf(Q) \subseteq R[Leaf(l)]
  BY <1>2, <1>3, KeysOfRange DEF Routed, InOrder, LeavesHold, FirstOf
<1>7. m.prev = leaves[l].prev /\ m.next = leaves[l].next
  BY <1>2, LeavesAre DEF InsertInLeaf, LeafOver
<1>8. LeafSize(m) = LeafSize(leaves[l]) + 1 /\ LeafSize(leaves[l]) \in Nat
  <2>1. leaves[l] \in LeafOver(Pair) /\ LeafSize(leaves[l]) \in Nat
    BY <1>2, LeavesAre
  <2>2. slot \in 1 .. Len(leaves[l].data) + 1
    BY <1>3, <2>1, LocateSlotType
  <2>3. Len(m.data) = Len(leaves[l].data) + 1
    BY <1>3, <2>1, <2>2, InsertInLeafType
  <2> QED
    BY <2>1, <2>3 DEF LeafSize
<1>9. Leaf(l) = root \/ LeafSize(m) >= LEAF_MIN
  BY <1>2, <1>8, LeafMinimumIs DEF Routed, InOrder, LeavesFilled
<1>10. InnersFilled(T)'
  BY QuietStepFilled DEF Routed
<1>11. ~IsSplit /\ ~IsSplit' /\ DescentRouted(T, R)'
  BY <1>1 DEF IsSplit, DescentRouted
<1> HIDE DEF m, Q, P
<1> QED
  BY <1>1, <1>2, <1>5, <1>6, <1>7, <1>9, <1>10, <1>11, LeafRewritten

\* remove takes the entry out, or leaves this to the parent of a leaf at its minimum.
LEMMA RemoveInLeafRouted ==
  ASSUME NEW h, Good(h), NEW T, NEW R, Routed(T, R), RemoveInLeaf
  PROVE  Routed(T, R)'
<1> DEFINE l == node.id
           leaf == leaves[l]
<1>1. /\ pc \in {"key_to_ref", "get_ref_by_augmentation"} /\ node.kind = "leaf"
      /\ pc' = "remove_ascend" /\ UNCHANGED <<root, inners, takenLeaves>>
  BY DEF RemoveInLeaf, AtLeaf, taken
<1>2. l \in LeafAlive /\ leaf \in LeafOver(Pair) /\ leaf.data \in Seq(Pair)
  BY <1>1, AtLeafRouted, LeavesAre DEF Descending
<1>3. InnersFilled(T)'
  BY QuietStepFilled DEF Routed
<1>4. ~IsSplit /\ ~IsSplit' /\ DescentRouted(T, R)'
  BY <1>1 DEF IsSplit, DescentRouted
<1>5. ASSUME NEW slot \in 1 .. Len(leaf.data), DeleteInLeaf(slot)
      PROVE  Routed(T, R)'
  <2>1. CASE LeafAbleToLend(leaf)
    <3>1. leaves' = [leaves EXCEPT ![l] = DeleteAt(leaves[l], slot)]
      BY <1>5, <2>1 DEF DeleteInLeaf
    <3> QED
      BY <1>1, <1>2, <1>3, <1>4, <2>1, <3>1, DeleteAtRouted
  <2>2. CASE ~LeafAbleToLend(leaf)
    <3>1. UNCHANGED leaves
      BY <1>5, <2>2 DEF DeleteInLeaf
    <3> QED
      BY <1>1, <1>3, <1>4, <3>1, StillRouted
  <2> QED
    BY <2>1, <2>2
<1>6. CASE /\ pc = "key_to_ref" /\ HasKey(leaf, call.k)
           /\ DeleteInLeaf(LocateSlot(leaf, call.k))
  <2>1. LocateSlot(leaf, call.k) \in 1 .. Len(leaf.data)
    BY <1>2, <1>6, RemoveCallFields, LocateSlotType
  <2> QED
    BY <1>5, <1>6, <2>1
<1>7. CASE /\ pc = "get_ref_by_augmentation"
           /\ LocateInLeaf(call.query, LeafKeys(leaf)) # 0
           /\ DeleteInLeaf(LocateInLeaf(call.query, LeafKeys(leaf)))
  <2>1. call.query \in Nat
    BY <1>7, RemoveCallFields
  <2>2. LocateInLeaf(call.query, LeafKeys(leaf)) \in 1 .. Len(leaf.data)
    BY <1>2, <1>7, <2>1, LeafKeysLen DEF LocateInLeaf
  <2> QED
    BY <1>5, <1>7, <2>2
<1> QED
  BY <1>6, <1>7 DEF RemoveInLeaf, AtLeaf

\* A root that is a leaf at its minimum just loses the entry.
LEMMA RemoveReturnLeafRouted ==
  ASSUME NEW h, Good(h), NEW T, NEW R, Routed(T, R), RemoveReturnLeafUnderSize
  PROVE  Routed(T, R)'
<1> DEFINE l == root.id
<1>1. /\ pc = "remove_ascend" /\ stack = <<>> /\ r.tag = "LeafUnderSize"
      /\ pc' = "idle" /\ UNCHANGED <<root, inners, takenLeaves>>
      /\ leaves' = [leaves EXCEPT ![l] = DeleteAt(leaves[l], r.slot)]
  BY DEF RemoveReturnLeafUnderSize, AtRoot, Return, taken
<1>2. Current = root /\ root.kind = "leaf" /\ r.slot \in DOMAIN leaves[l].data
  BY <1>1, RootIsCurrent, RemoveFields
<1>3. l \in LeafAlive /\ Leaf(l) = root
  BY <1>2, CurrentIsNode DEF InTree, Leaf, NodeId
<1>4. r.slot \in 1 .. Len(leaves[l].data)
  BY <1>2, <1>3, LeavesAre DEF LeafSize
<1>5. InnersFilled(T)'
  BY QuietStepFilled DEF Routed
<1>6. ~IsSplit /\ ~IsSplit' /\ DescentRouted(T, R)'
  BY <1>1 DEF IsSplit, DescentRouted
<1> QED
  BY <1>1, <1>3, <1>4, <1>5, <1>6, DeleteAtRouted

\* What a caller does with the &mut V of get_mut keeps the keys.
LEMMA WriteBackRouted ==
  ASSUME NEW h, Good(h), NEW T, NEW R, Routed(T, R), UNCHANGED <<root, inners, takenLeaves>>,
         InnersFilled(T)', ~IsSplit, ~IsSplit', DescentRouted(T, R)',
         NEW l \in LeafAlive, NEW k \in Key, NEW v \in Value, WriteBack(l, k, v)
  PROVE  Routed(T, R)'
<1> DEFINE slot == LocateSlot(leaves[l], k)
<1>1. CASE HasKey(leaves[l], k)
  <2>1. leaves' = [leaves EXCEPT ![l] = SetValue(leaves[l], slot, v)]
    BY <1>1, LeavesAre DEF WriteBack
  <2>2. slot \in 1 .. Len(leaves[l].data)
    BY <1>1, LeavesAre, KeyAssumption, LocateSlotType
  <2> QED
    BY <2>1, <2>2, SetValueRouted
<1>2. CASE ~HasKey(leaves[l], k)
  <2>1. UNCHANGED leaves
    BY <1>2 DEF WriteBack
  <2> QED
    BY <2>1, StillRouted
<1> QED
  BY <1>1, <1>2

\* get_mut overwrites a value in the leaf that the descent found.
LEMMA FindInLeafRouted ==
  ASSUME NEW h, Good(h), NEW T, NEW R, Routed(T, R), FindInLeaf
  PROVE  Routed(T, R)'
<1>1. /\ pc = "find_descend" /\ node.kind = "leaf" /\ pc' = "idle"
      /\ UNCHANGED <<root, inners, takenLeaves>>
      /\ call.op = "get_mut" => WriteBack(node.id, call.k, call.v)
      /\ call.op # "get_mut" => UNCHANGED leaves
  BY DEF FindInLeaf, AtLeaf, Return, taken
<1>2. node.id \in LeafAlive
  BY <1>1, AtLeafRouted
<1>3. call.k \in Key /\ (call.op = "get_mut" => call.v \in Value)
  BY <1>1, FindFields
<1>4. InnersFilled(T)'
  BY DescentFilled DEF Routed, FindStep
<1>5. ~IsSplit /\ ~IsSplit' /\ DescentRouted(T, R)'
  BY <1>1 DEF IsSplit, DescentRouted
<1> QED
  BY <1>1, <1>2, <1>3, <1>4, <1>5, WriteBackRouted, StillRouted

\* get_mut_by_augmentation overwrites a value by its rank.
LEMMA GetMutInLeafRouted ==
  ASSUME NEW h, Good(h), NEW T, NEW R, Routed(T, R), GetMutInLeaf
  PROVE  Routed(T, R)'
<1> DEFINE l == node.id
           slot == LocateInLeaf(call.query, LeafKeys(leaves[l]))
<1>1. /\ pc = "get_ref_by_augmentation" /\ node.kind = "leaf" /\ pc' = "idle"
      /\ UNCHANGED <<root, inners, takenLeaves>> /\ slot # 0
      /\ leaves' = [leaves EXCEPT ![l] = SetValue(@, slot, call.v)]
      /\ call.op = "get_mut_by_augmentation"
  BY DEF GetMutInLeaf, AtLeaf, Return, taken
<1>2. l \in LeafAlive /\ l \in DOMAIN leaves /\ leaves[l] \in LeafOver(Pair)
  BY <1>1, AtLeafRouted, LeavesAre DEF Descending
<1>3. call.query \in Nat /\ call.v \in Value
  BY <1>1, RemoveCallFields
<1>4. slot \in 1 .. Len(leaves[l].data)
  BY <1>1, <1>2, <1>3, LeafKeysLen DEF LocateInLeaf
<1>5. InnersFilled(T)'
  BY DescentFilled DEF Routed, FindStep
<1>6. ~IsSplit /\ ~IsSplit' /\ DescentRouted(T, R)'
  BY <1>1 DEF IsSplit, DescentRouted
<1>7. leaves' = [leaves EXCEPT ![l] = SetValue(leaves[l], slot, call.v)]
  BY <1>1, <1>2
<1>8. UNCHANGED <<root, inners, takenLeaves>> /\ l \in LeafAlive /\ call.v \in Value
  BY <1>1, <1>2, <1>3
<1> HIDE DEF slot, l
<1> QED
  BY ONLY Good(h), Routed(T, R), <1>4, <1>5, <1>6, <1>7, <1>8, SetValueRouted

\* The calls that the cache answers.
LEMMA CachedRouted ==
  ASSUME NEW h, Good(h), NEW T, NEW R, Routed(T, R), NEW k \in Key,
         \/ GetCached(k)
         \/ \E v \in Value : GetMutCached(k, v)
  PROVE  Routed(T, R)'
<1>1. /\ pc = "idle" /\ CacheHit(k) /\ UNCHANGED <<root, inners, takenLeaves>>
      /\ Return(ValueOf(leaves[cached], k))
      /\ UNCHANGED leaves \/ \E v \in Value : WriteBack(cached, k, v)
  BY DEF GetCached, GetMutCached, tree, store, taken
<1>2. cached \in LeafAlive
  BY <1>1 DEF Good, Scalars, CacheHit, LeafAlive
<1>3. ~IsSplit /\ ~IsShort /\ ~IsSplit' /\ DescentRouted(T, R)'
  BY <1>1 DEF IsSplit, IsShort, DescentRouted, Return
<1>4. InnersFilled(T)'
  BY <1>1, <1>3, ReturnFilled DEF Routed
<1> QED
  BY <1>1, <1>2, <1>3, <1>4, WriteBackRouted, StillRouted

-----------------------------------------------------------------------------
(* A leaf is split                                                         *)

\* The leaves L once leaf l is split into x and the new leaf y.
WithHalves(L, l, x, y, next) == FixPrev(Append([L EXCEPT ![l] = x], y), next, Len(L) + 1)

\* The id that the next leaf gets.
IsNextId(L, n) == n = Len(L) + 1

\* The leaves L2 are L with l rewritten as x and y added as n, before next.
HalvesLinked(L, L2, l, x, y, next, n) ==
    /\ DOMAIN L2 = DOMAIN L \cup {n} /\ n \notin DOMAIN L
    /\ L2[l] = x /\ L2[n] = y
    /\ \A j \in DOMAIN L : j # l =>
           /\ L2[j].data = L[j].data /\ L2[j].next = L[j].next
           /\ L2[j].prev = IF j = next THEN n ELSE L[j].prev

\* The store after split_new_leaf and the correction of the next leaf.
LEMMA SplitLinks ==
  ASSUME NEW L \in Seq(LeafRec), NEW l \in DOMAIN L, NEW x \in LeafRec, NEW y \in LeafRec,
         NEW next, next \in DOMAIN L \ {l} \/ next = None,
         NEW n, IsNextId(L, n)
  PROVE  HalvesLinked(L, WithHalves(L, l, x, y, next), l, x, y, next, n)
<1> DEFINE L1 == Append([L EXCEPT ![l] = x], y)
           L2 == FixPrev(L1, next, n)
<1>0. n = Len(L) + 1
  BY DEF IsNextId
<1>1. /\ Len(L) \in Nat /\ DOMAIN L = 1 .. Len(L) /\ n \in Nat /\ n \notin DOMAIN L
      /\ \A j \in DOMAIN L : L[j] \in LeafRec
  BY <1>0
<1>2. [L EXCEPT ![l] = x] \in Seq(LeafRec) /\ Len([L EXCEPT ![l] = x]) = Len(L)
  BY <1>1, PutType
<1>3. /\ L1 \in Seq(LeafRec) /\ DOMAIN L1 = 1 .. n
      /\ L1[n] = y /\ \A j \in DOMAIN L : L1[j] = [L EXCEPT ![l] = x][j]
  BY <1>0, <1>1, <1>2
<1>4. L1[l] = x /\ \A j \in DOMAIN L : j # l => L1[j] = L[j]
  BY <1>1, <1>3
<1>5. DOMAIN L1 = DOMAIN L \cup {n}
  BY <1>1, <1>3
<1> SUFFICES /\ DOMAIN L2 = DOMAIN L \cup {n} /\ n \notin DOMAIN L
             /\ L2[l] = x /\ L2[n] = y
             /\ \A j \in DOMAIN L : j # l =>
                    /\ L2[j].data = L[j].data /\ L2[j].next = L[j].next
                    /\ L2[j].prev = IF j = next THEN n ELSE L[j].prev
  BY <1>0 DEF WithHalves, HalvesLinked
<1> HIDE DEF L1
<1>6. CASE next = None
  <2>1. L2 = L1
    BY <1>6 DEF FixPrev
  <2>2. \A j \in DOMAIN L : j # next
    BY <1>1, <1>6, NoneAssumption
  <2> HIDE DEF L2
  <2> QED
    BY <1>1, <1>3, <1>4, <1>5, <2>1, <2>2
<1>7. CASE next \in DOMAIN L \ {l}
  <2>1. next # None /\ next # n
    BY <1>1, <1>7, NoneAssumption
  <2>2. L2 = [L1 EXCEPT ![next].prev = n]
    BY <2>1 DEF FixPrev
  <2>3. DOMAIN L2 = DOMAIN L1 /\ \A j \in DOMAIN L1 : j # next => L2[j] = L1[j]
    BY <2>2
  <2>4. next \in DOMAIN L1 /\ L1[next] = L[next] /\ L[next] \in LeafRec
    BY <1>1, <1>4, <1>5, <1>7
  <2>5. L2[next] = [L[next] EXCEPT !.prev = n]
    BY <2>2, <2>4
  <2>6. /\ L2[next].data = L[next].data /\ L2[next].next = L[next].next
        /\ L2[next].prev = n
    BY <2>4, <2>5 DEF LeafRec
  <2> HIDE DEF L2
  <2> QED
    BY <1>1, <1>3, <1>4, <1>5, <1>7, <2>1, <2>3, <2>6
<1> QED
  BY <1>6, <1>7

\* A root that is a leaf is where the path leads.
LEMMA LeafRootIsCurrent ==
  ASSUME NEW h, Good(h), root.kind = "leaf"
  PROVE  Current = root /\ stack = <<>>
<1>1. stack \in Seq(Entry) /\ IsPath(stack, root, inners, h)
  BY DEF Good, Scalars, Path
<1>2. stack # <<>> => 1 \in DOMAIN stack
  BY <1>1
<1>3. stack # <<>> => root = Inner(stack[1].id)
  BY <1>1, <1>2 DEF IsPath
<1> QED
  BY <1>3 DEF Inner, Current, EndOf

\* The next of a leaf of the tree is another one.
LEMMA NextIsOther ==
  ASSUME NEW h, Good(h), NEW T, NEW R, Routed(T, R), Key # {}, NEW l \in LeafAlive
  PROVE  leaves[l].next # None => leaves[l].next \in LeafAlive \ {l}
<1>1. Ranged(LeafAlive, R)
  BY RangedLeaves
<1>2. LeavesLinked(leaves, LeafAlive, R)
  BY DEF Routed, InOrder
<1> QED
  BY <1>1, <1>2, AheadOrder DEF LeavesLinked

\* Leaf l keeps the keys below k, and the new leaf n gets those from k on.
CutAt(R, l, n, k) ==
    [x \in NodeId |-> IF x = Leaf(l) THEN {z \in R[Leaf(l)] : z < k}
                      ELSE IF x = Leaf(n) THEN {z \in R[Leaf(l)] : k <= z} ELSE R[x]]

\* Cutting the route of l at k leaves all other routes alone.
LEMMA CutAtIs ==
  ASSUME NEW R \in Routing, NEW l \in Nat, NEW n \in Nat, l # n, NEW k
  PROVE  LET Q == CutAt(R, l, n, k)
         IN  /\ Q \in Routing
             /\ Q[Leaf(l)] = {z \in R[Leaf(l)] : z < k}
             /\ Q[Leaf(n)] = {z \in R[Leaf(l)] : k <= z}
             /\ \A j \in Nat : j # l /\ j # n => Q[Leaf(j)] = R[Leaf(j)]
             /\ \A i \in Nat : Q[Inner(i)] = R[Inner(i)]
             /\ \A x \in NodeId : x # Leaf(l) /\ x # Leaf(n) => Q[x] = R[x]
<1>1. Leaf(l) # Leaf(n) /\ \A j \in Nat : j # l /\ j # n => Leaf(j) # Leaf(l) /\ Leaf(j) # Leaf(n)
  BY DEF Leaf
<1>2. \A i \in Nat : Inner(i) # Leaf(l) /\ Inner(i) # Leaf(n)
  BY DEF Inner, Leaf
<1>3. R[Leaf(l)] \subseteq Key
  BY IdsAreNodes DEF Routing
<1> QED
  BY <1>1, <1>2, <1>3, IdsAreNodes DEF CutAt, Routing

(***************************************************************************)
(* Leaf x holds the pairs Q1, leaf y the larger ones of Q2, of which k is  *)
(* the first key; all keys are in S.                                       *)
(***************************************************************************)
AreHalves(x, y, Q1, Q2, S, k) ==
    /\ HoldsPairs(x, Q1) /\ HoldsPairs(y, Q2)
    /\ Precedes(FirstOf(Q1), FirstOf(Q2)) /\ FirstOf(Q1 \cup Q2) \subseteq S
    /\ Len(x.data) > 0 /\ Len(y.data) > 0 /\ k = y.data[1][1]

\* Of the leaves A only l gets other keys by Q than by R: n gets those from k on.
CutsRange(Q, R, A, l, n, k) ==
    /\ Q[Leaf(l)] = {z \in R[Leaf(l)] : z < k}
    /\ Q[Leaf(n)] = {z \in R[Leaf(l)] : k <= z}
    /\ \A j \in A \ {l} : Q[Leaf(j)] = R[Leaf(j)]

\* Leaf l and the new leaf n share out by Q the keys that l had by R.
SharedOut(lvs2, A, l, n, k, Q, R) ==
    /\ k \in Key /\ Separates(k, Q[Leaf(l)], Q[Leaf(n)])
    /\ Q[Leaf(l)] \cup Q[Leaf(n)] = R[Leaf(l)]
    /\ Ahead(Q, l, n)
    /\ LeavesHold(lvs2, A \cup {n}, Q)

(***************************************************************************)
(* A full leaf l was split into x, with the keys of Q1, and a new leaf n   *)
(* with the larger ones of Q2; k is the first of these.                    *)
(***************************************************************************)
LEMMA HalvesHold ==
  ASSUME NEW lvs, NEW A, NEW R, LeavesHold(lvs, A, R), A \subseteq Nat,
         NEW l \in A, NEW n \in Nat, n \notin A, R[Leaf(l)] \subseteq Key,
         NEW lvs2, \A j \in A \ {l} : lvs2[j].data = lvs[j].data,
         NEW Q1, NEW Q2, NEW k, AreHalves(lvs2[l], lvs2[n], Q1, Q2, R[Leaf(l)], k),
         NEW Q, CutsRange(Q, R, A, l, n, k)
  PROVE  SharedOut(lvs2, A, l, n, k, Q, R)
<1> DEFINE S == R[Leaf(l)]
           f == lvs2[l].data[1]
           g == lvs2[n].data[1]
<1> /\ Q[Leaf(l)] = {z \in R[Leaf(l)] : z < k}
    /\ Q[Leaf(n)] = {z \in R[Leaf(l)] : k <= z}
    /\ \A j \in A \ {l} : Q[Leaf(j)] = R[Leaf(j)]
  BY DEF CutsRange
<1> /\ HoldsPairs(lvs2[l], Q1) /\ HoldsPairs(lvs2[n], Q2)
    /\ Precedes(FirstOf(Q1), FirstOf(Q2)) /\ FirstOf(Q1 \cup Q2) \subseteq R[Leaf(l)]
    /\ Len(lvs2[l].data) > 0 /\ Len(lvs2[n].data) > 0 /\ k = lvs2[n].data[1][1]
  BY DEF AreHalves
<1>1. FirstOf(Q1) \subseteq S /\ FirstOf(Q2) \subseteq S /\ S \subseteq Int
  BY KeyAssumption DEF FirstOf
<1>2. f \in Q1 /\ g \in Q2 /\ \A p \in Q2 : p # g => g[1] < p[1]
  BY SortedEnds DEF HoldsPairs
<1>3. f[1] \in FirstOf(Q1) /\ g[1] \in FirstOf(Q2) /\ k = g[1]
  BY <1>2 DEF FirstOf
<1>4. k \in S /\ f[1] \in S /\ f[1] < k
  BY <1>1, <1>3 DEF Precedes
<1>5. Separates(k, Q[Leaf(l)], Q[Leaf(n)]) /\ Q[Leaf(l)] \cup Q[Leaf(n)] = S
  <2>1. PICK A1, A2 : A1 = Q[Leaf(l)] /\ A2 = Q[Leaf(n)]
    OBVIOUS
  <2>2. A1 = {z \in S : z < k} /\ A2 = {z \in S : k <= z}
    BY <2>1
  <2> HIDE DEF S, f, g
  <2>3. Separates(k, A1, A2) /\ A1 \cup A2 = S
    BY ONLY <1>1, <1>4, <2>2, SeparatesFrom
  <2> QED
    BY ONLY <2>1, <2>3
<1>6. Ahead(Q, l, n)
  <2>1. Q[Leaf(l)] \subseteq Int /\ Q[Leaf(n)] \subseteq Int
    BY <1>1, <1>5
  <2>2. Precedes(Q[Leaf(l)], Q[Leaf(n)])
    BY ONLY <1>5, <2>1, SeparatesIs
  <2> QED
    BY ONLY <2>2 DEF Ahead
<1>7. FirstOf(Q1) \subseteq Q[Leaf(l)]
  BY <1>1, <1>3 DEF Precedes
<1>8. ASSUME NEW z \in FirstOf(Q2) PROVE k <= z
  <2>1. PICK p \in Q2 : z = p[1]
    BY DEF FirstOf
  <2>2. k \in Int /\ z \in Int
    BY <1>1, <1>4
  <2>3. CASE p = g
    BY <1>3, <2>1, <2>2, <2>3
  <2>4. CASE p # g
    <3>1. g[1] < p[1]
      BY <1>2, <2>4
    <3> QED
      BY <1>3, <2>1, <2>2, <3>1
  <2> QED
    BY <2>3, <2>4
<1>9. FirstOf(Q2) \subseteq Q[Leaf(n)]
  BY <1>1, <1>8
<1>10. KeysOf(lvs2[l]) \subseteq Q[Leaf(l)] /\ KeysOf(lvs2[n]) \subseteq Q[Leaf(n)]
  BY <1>7, <1>9, KeysOfRange DEF HoldsPairs, Sorted
<1>11. Ascends(lvs2[l].data) /\ Ascends(lvs2[n].data)
  BY DEF HoldsPairs, Sorted
<1>12. Q[Leaf(l)] \cap Q[Leaf(n)] = {}
  <2>1. k \in Int
    BY <1>1, <1>4
  <2>2. \A z \in S : ~(z < k /\ k <= z)
    BY <1>1, <2>1
  <2> QED
    BY <2>2
<1>13. \A j \in A \ {l} : /\ Ascends(lvs2[j].data) /\ KeysOf(lvs2[j]) \subseteq Q[Leaf(j)]
                          /\ S \cap Q[Leaf(j)] = {}
                          /\ \A i \in A \ {l, j} : Q[Leaf(i)] \cap Q[Leaf(j)] = {}
  <2>1. \A j \in A : /\ Ascends(lvs[j].data) /\ KeysOf(lvs[j]) \subseteq R[Leaf(j)]
                    /\ \A i \in A \ {j} : R[Leaf(i)] \cap R[Leaf(j)] = {}
    BY DEF LeavesHold
  <2>2. \A j \in A \ {l} : KeysOf(lvs2[j]) = KeysOf(lvs[j])
    BY DEF KeysOf
  <2> QED
    BY <2>1, <2>2
<1>14. Q[Leaf(l)] \subseteq S /\ Q[Leaf(n)] \subseteq S
  OBVIOUS
<1> HIDE DEF S, f, g
<1>15. LeavesHold(lvs2, A \cup {n}, Q)
  BY ONLY <1>10, <1>11, <1>12, <1>13, <1>14, l \in A, n \notin A DEF LeavesHold
<1>16. k \in Key
  BY <1>4 DEF S
<1> QED
  BY <1>5, <1>6, <1>15, <1>16 DEF S, SharedOut

\* Leaf l gives its upper half to the new leaf n, and the path leads to l.
LeafSplits(R, l, n) ==
    /\ l \in LeafAlive /\ n \in Nat /\ n \notin DOMAIN leaves
    /\ Current = Leaf(l) /\ Current' = Leaf(l)
    /\ UNCHANGED <<root, inners, takenLeaves>>
    /\ ~IsSplit /\ IsSplit' /\ pc' = "insert_ascend"
    /\ r' = Split(leaves'[n].data[1][1], Leaf(n))
    /\ DOMAIN leaves' = DOMAIN leaves \cup {n}
    /\ leaves'[l].prev = leaves[l].prev /\ leaves'[l].next = n
    /\ leaves'[n].prev = l /\ leaves'[n].next = leaves[l].next
    /\ \A j \in DOMAIN leaves \ {l} :
           /\ leaves'[j].data = leaves[j].data /\ leaves'[j].next = leaves[j].next
           /\ leaves'[j].prev = IF j = leaves[l].next THEN n ELSE leaves[j].prev
    /\ \E Q1, Q2 :
           /\ HoldsPairs(leaves'[l], Q1) /\ HoldsPairs(leaves'[n], Q2)
           /\ Precedes(FirstOf(Q1), FirstOf(Q2))
           /\ FirstOf(Q1 \cup Q2) \subseteq R[Leaf(l)]
           /\ Q1 \cup Q2 = Range(leaves[l].data) \cup {<<call.k, call.v>>}
           /\ LeafSize(leaves'[l]) >= LEAF_MIN /\ LeafSize(leaves'[n]) >= LEAF_MIN

\* What InsertLeafSplit makes of the store, in terms of the leaves and their chain.
LEMMA LeafSplitFacts ==
  ASSUME NEW h, Good(h), NEW T, NEW R, Routed(T, R), InsertLeafSplit,
         NEW l, l = node.id, NEW n, n = Len(leaves) + 1
  PROVE  LeafSplits(R, l, n)
<1> DEFINE leaf == leaves[l]
           e == <<call.k, call.v>>
           P == Range(leaf.data)
           s == SplitNewLeaf(leaf, LocateSlot(leaf, call.k), e, n, l)
           L2 == WithHalves(leaves, l, s.left, s.right, leaf.next)
<1>1. /\ pc = "insert_inner" /\ node.kind = "leaf" /\ pc' = "insert_ascend"
      /\ UNCHANGED <<root, inners, takenLeaves, stack>>
      /\ ~HasKey(leaf, call.k) /\ LeafSize(leaf) = LEAF_N
      /\ leaves' = FixPrev(Append([leaves EXCEPT ![l] = s.left], s.right), s.right.next, n)
      /\ r' = Split(s.right.data[1][1], Leaf(n))
  BY DEF InsertLeafSplit, AtLeaf, LeafIsFull, taken
<1>2. s.left.prev = leaf.prev /\ s.left.next = n /\ s.right.prev = l /\ s.right.next = leaf.next
  BY DEF SplitNewLeaf
<1>3. l \in LeafAlive /\ node = Leaf(l) /\ call.k \in R[Leaf(l)]
  BY <1>1, AtLeafRouted DEF Descending
<1>4. /\ leaves \in Seq(LeafRec) /\ Len(leaves) \in Nat /\ DOMAIN leaves = 1 .. Len(leaves)
      /\ l \in DOMAIN leaves /\ n \in Nat /\ l \in Nat /\ n \notin DOMAIN leaves
  BY <1>3, LeavesAre
<1>5. Current = node /\ Current' = Current
  BY <1>1 DEF Good, Locals, Descending, Current, EndOf
<1>6. HoldsPairs(leaf, P) /\ e \in Pair /\ e[1] = call.k
  BY <1>1, <1>3, LeafHolds, InsertCallFields
<1>7. PICK Q1, Q2 : /\ HoldsPairs(s.left, Q1) /\ HoldsPairs(s.right, Q2)
                    /\ Q1 \cup Q2 = P \cup {e} /\ Precedes(FirstOf(Q1), FirstOf(Q2))
                    /\ Len(s.left.data) >= LEAF_MIN /\ Len(s.right.data) >= LEAF_MIN
  <2>1. Len(leaf.data) = LEAF_N /\ ~HasKey(leaf, e[1])
    BY <1>1, <1>6 DEF LeafSize
  <2>2. PICK w : w = SplitNewLeaf(leaf, LocateSlot(leaf, e[1]), e, n, l)
    OBVIOUS
  <2>3. w = s
    BY <1>6, <2>2
  <2> HIDE DEF leaf, P, e, s
  <2>4. \E Q1, Q2 :
            /\ HoldsPairs(w.left, Q1) /\ HoldsPairs(w.right, Q2)
            /\ Q1 \cup Q2 = P \cup {e} /\ Precedes(FirstOf(Q1), FirstOf(Q2))
            /\ Len(w.left.data) >= LEAF_MIN /\ Len(w.right.data) >= LEAF_MIN
    BY ONLY <1>4, <1>6, <2>1, <2>2, SplitNewLeafHolds
  <2> QED
    BY <2>3, <2>4
<1>8. FirstOf(Q1 \cup Q2) \subseteq R[Leaf(l)]
  <2>1. FirstOf(P) \subseteq R[Leaf(l)]
    BY <1>3, KeysOfRange DEF Routed, InOrder, LeavesHold
  <2> QED
    BY <1>3, <1>6, <1>7, <2>1 DEF FirstOf
<1>9. Key # {} /\ (leaf.next # None => leaf.next \in LeafAlive \ {l})
  BY <1>1, <1>3, InsertCallFields, NextIsOther
<1>10. leaf.next \in DOMAIN leaves \ {l} \/ leaf.next = None
  BY <1>9, LeavesAre
<1>11. s.left \in LeafRec /\ s.right \in LeafRec
  BY <1>7, LeafRecIs DEF HoldsPairs
<1>12. leaves' = L2
  BY <1>1, <1>2 DEF WithHalves
<1> HIDE DEF s
<1>13. /\ DOMAIN L2 = DOMAIN leaves \cup {n} /\ L2[l] = s.left /\ L2[n] = s.right
       /\ \A j \in DOMAIN leaves : j # l =>
              /\ L2[j].data = leaves[j].data /\ L2[j].next = leaves[j].next
              /\ L2[j].prev = IF j = leaf.next THEN n ELSE leaves[j].prev
  <2>1. PICK x, y, z : x = s.left /\ y = s.right /\ z = leaf.next
    OBVIOUS
  <2>2. x \in LeafRec /\ y \in LeafRec /\ (z \in DOMAIN leaves \ {l} \/ z = None)
    BY <1>10, <1>11, <2>1
  <2>3. HalvesLinked(leaves, WithHalves(leaves, l, x, y, z), l, x, y, z, n)
    <3>1. IsNextId(leaves, n)
      BY DEF IsNextId
    <3> QED
      BY ONLY <3>1, <1>4, <2>2, SplitLinks
  <2> QED
    BY <2>1, <2>3 DEF HalvesLinked
<1>14. ~IsSplit /\ IsSplit'
  BY <1>1 DEF IsSplit, Split
<1> HIDE DEF L2
<1>15. \E U1, U2 :
           /\ HoldsPairs(leaves'[l], U1) /\ HoldsPairs(leaves'[n], U2)
           /\ Precedes(FirstOf(U1), FirstOf(U2))
           /\ FirstOf(U1 \cup U2) \subseteq R[Leaf(l)]
           /\ U1 \cup U2 = Range(leaves[l].data) \cup {<<call.k, call.v>>}
           /\ LeafSize(leaves'[l]) >= LEAF_MIN /\ LeafSize(leaves'[n]) >= LEAF_MIN
  <2>1. leaves'[l] = s.left /\ leaves'[n] = s.right
    BY <1>12, <1>13
  <2> QED
    BY <1>7, <1>8, <2>1 DEF LeafSize
<1>16. /\ DOMAIN leaves' = DOMAIN leaves \cup {n}
       /\ leaves'[l].prev = leaves[l].prev /\ leaves'[l].next = n
       /\ leaves'[n].prev = l /\ leaves'[n].next = leaves[l].next
       /\ \A j \in DOMAIN leaves \ {l} :
              /\ leaves'[j].data = leaves[j].data /\ leaves'[j].next = leaves[j].next
              /\ leaves'[j].prev = IF j = leaves[l].next THEN n ELSE leaves[j].prev
  BY <1>2, <1>12, <1>13
<1>17. r' = Split(leaves'[n].data[1][1], Leaf(n))
  BY <1>1, <1>12, <1>13
<1>18. UNCHANGED <<root, inners, takenLeaves>> /\ pc' = "insert_ascend"
  BY <1>1
<1>19. Current = Leaf(l) /\ Current' = Leaf(l)
  BY <1>3, <1>5
<1> QED
  BY ONLY <1>3, <1>4, <1>14, <1>15, <1>16, <1>17, <1>18, <1>19 DEF LeafSplits

\* A full leaf is split, and the new half waits to be told to the parent.
LEMMA InsertLeafSplitRouted ==
  ASSUME NEW h, Good(h), NEW T, NEW R, Routed(T, R), InsertLeafSplit
  PROVE  \E Q : Routed(T, Q)'
<1>1. PICK l, n : l = node.id /\ n = Len(leaves) + 1
  OBVIOUS
<1>2. LeafSplits(R, l, n)
  BY <1>1, LeafSplitFacts
<1>3. PICK Q1, Q2 : /\ HoldsPairs(leaves'[l], Q1) /\ HoldsPairs(leaves'[n], Q2)
                    /\ Precedes(FirstOf(Q1), FirstOf(Q2))
                    /\ FirstOf(Q1 \cup Q2) \subseteq R[Leaf(l)]
                    /\ LeafSize(leaves'[l]) >= LEAF_MIN /\ LeafSize(leaves'[n]) >= LEAF_MIN
  BY <1>2 DEF LeafSplits
<1>4. PICK k : k = leaves'[n].data[1][1]
  OBVIOUS
<1>5. PICK Q : Q = CutAt(R, l, n, k)
  OBVIOUS
<1>6. /\ l \in Nat /\ l \in DOMAIN leaves /\ LeafAlive \subseteq Nat /\ LeafAlive \subseteq DOMAIN leaves
      /\ n \notin LeafAlive /\ None \notin LeafAlive /\ l # n /\ R \in Routing
  BY <1>2, LeavesAre DEF Routed, LeafSplits
<1>7. /\ Q \in Routing
      /\ Q[Leaf(l)] = {z \in R[Leaf(l)] : z < k}
      /\ Q[Leaf(n)] = {z \in R[Leaf(l)] : k <= z}
      /\ \A j \in Nat : j # l /\ j # n => Q[Leaf(j)] = R[Leaf(j)]
      /\ \A i \in Nat : Q[Inner(i)] = R[Inner(i)]
      /\ \A x \in NodeId : x # Leaf(l) /\ x # Leaf(n) => Q[x] = R[x]
  BY <1>2, <1>5, <1>6, CutAtIs DEF LeafSplits
<1> HIDE <1>5
<1>8. LeafAlive' = LeafAlive \cup {n} /\ n \notin takenLeaves
  BY <1>2 DEF LeafAlive, Routed, InOrder, LeavesKnown, LeafSplits
<1>9. \A j \in LeafAlive \ {l} : leaves'[j].data = leaves[j].data /\ Q[Leaf(j)] = R[Leaf(j)]
  BY <1>2, <1>6, <1>7 DEF LeafSplits
<1>10. /\ k \in Key /\ Separates(k, Q[Leaf(l)], Q[Leaf(n)])
       /\ Q[Leaf(l)] \cup Q[Leaf(n)] = R[Leaf(l)]
       /\ Ahead(Q, l, n)
       /\ LeavesHold(leaves', LeafAlive \cup {n}, Q)
  <2>1. LeavesHold(leaves, LeafAlive, R)
    BY DEF Routed, InOrder
  <2>2. R[Leaf(l)] \subseteq Key
    BY <1>6, IdsAreNodes DEF Routing
  <2>3. Len(leaves'[l].data) > 0 /\ Len(leaves'[n].data) > 0
    BY <1>3, LeafMinimumIs, PairsAt DEF LeafSize, HoldsPairs, Sorted
  <2> QED
    <3>1. PICK A, L, M : A = LeafAlive /\ L = leaves /\ M = leaves'
      OBVIOUS
    <3>2. l \in A /\ n \in Nat /\ n \notin A /\ A \subseteq Nat
      BY <1>2, <1>6, <3>1 DEF LeafSplits
    <3>3. LeavesHold(L, A, R) /\ \A j \in A \ {l} : M[j].data = L[j].data
      BY <1>9, <2>1, <3>1
    <3>6. CutsRange(Q, R, A, l, n, k)
      BY <1>7, <1>9, <3>1 DEF CutsRange
    <3>4. AreHalves(M[l], M[n], Q1, Q2, R[Leaf(l)], k)
      BY <1>3, <1>4, <2>3, <3>1 DEF AreHalves
    <3>5. SharedOut(M, A, l, n, k, Q, R)
      BY ONLY <2>2, <3>6, <3>2, <3>3, <3>4, HalvesHold
    <3> QED
      BY <3>1, <3>5 DEF SharedOut
<1>11. LeavesLinked(leaves', LeafAlive \cup {n}, Q)
  <2>1. LeavesLinked(leaves, LeafAlive, R) /\ Ranged(LeafAlive, R)
    BY <1>10, RangedLeaves DEF Routed, InOrder
  <2>2. n # None
    BY <1>2, NoneAssumption DEF LeafSplits
  <2>3. \A j \in LeafAlive \ {l} :
            /\ leaves'[j].next = leaves[j].next
            /\ leaves'[j].prev = IF j = leaves[l].next THEN n ELSE leaves[j].prev
    BY <1>2, <1>6 DEF LeafSplits
  <2> QED
    <3>1. PICK A, L, M : A = LeafAlive /\ L = leaves /\ M = leaves'
      OBVIOUS
    <3>2. l \in A /\ n \notin A /\ n # None /\ None \notin A
      BY <1>2, <1>6, <2>2, <3>1 DEF LeafSplits
    <3>3. LinksIn(L, A, l, n, M)
      BY <1>2, <2>3, <3>1 DEF LeafSplits, LinksIn
    <3>4. LeavesLinked(L, A, R) /\ Ranged(A, R) /\ \A j \in A \ {l} : Q[Leaf(j)] = R[Leaf(j)]
      BY <1>9, <2>1, <3>1
    <3>5. LeavesLinked(M, A \cup {n}, Q)
      BY ONLY <1>10, <3>2, <3>3, <3>4, LinkedSplit
    <3> QED
      BY <3>1, <3>5
<1>12. InnersFilled(T)'
  BY InsertLeafSplitFilled DEF Routed
<1>13. Known(R) = R /\ \A x \in NodeId : x # Leaf(n) => Known(Q)'[x] = R[x]
  <2>1. Known(R) = R
    BY <1>2, KnownIs DEF Routed, LeafSplits
  <2>2. r'.right = Leaf(n)
    BY <1>2 DEF Split, LeafSplits
  <2>3. ASSUME NEW x \in NodeId, x # Leaf(n) PROVE Known(Q)'[x] = R[x]
    BY <1>2, <1>7, <1>10, <2>2, <2>3 DEF Known, LeafSplits
  <2> QED
    BY <2>1, <2>3
<1>14. root # Leaf(n) /\ root \in NodeId /\ \A i \in T : Leaf(n) \notin KidsOf(inners, i)
  BY <1>1, NewIsFresh, RangeOf DEF Good, Scalars
<1>15. KeysShared(T, Q)'
  <2>1. ASSUME NEW i \in T PROVE NodeKept(R, Q, i)
    <3>1. i \in Nat /\ \A x \in KidsOf(inners, i) : x \in NodeId
      BY RangeOf, KidKnown
    <3>2. inners' = inners
      BY <1>2 DEF LeafSplits
    <3> QED
      BY <1>7, <1>13, <1>14, <3>1, <3>2 DEF NodeKept
  <2>2. Known(Q)'[root'] = Key
    BY <1>2, <1>13, <1>14 DEF Routed, InOrder, KeysShared, LeafSplits
  <2>3. Separates(r'.k, Q[Current'], Q[r'.right])
    BY <1>2, <1>4, <1>10 DEF Split, LeafSplits
  <2> QED
    BY <2>1, <2>2, <2>3, SharedAfter
<1>16. LeavesKnown(T)'
  <2>1. LeafAlive \subseteq LeafAlive' /\ takenLeaves' \subseteq DOMAIN leaves'
    BY <1>2, <1>8 DEF Routed, InOrder, LeavesKnown, LeafSplits
  <2>2. Orphans' = {root, Leaf(n)}
    BY <1>2 DEF Orphans, Split, LeafSplits
  <2>3. InTree(T, Leaf(n))'
    BY <1>8 DEF InTree, Leaf
  <2>4. \A x \in Orphans' : x \in NodesOf(T) \/ InTree(T, x)'
    BY <2>2, <2>3 DEF NodesOf, Orphans
  <2>5. \A i \in T : \A x \in KidsOf(inners', i) : x \in NodesOf(T) \/ InTree(T, x)'
    BY <1>2 DEF NodesOf, LeafSplits
  <2> QED
    BY <1>12, <2>1, <2>4, <2>5, KnownMoved
<1>17. LeavesFilled'
  <2>1. ASSUME NEW j \in LeafAlive, j # l PROVE LeafSize(leaves'[j]) >= LEAF_MIN
    <3>1. Leaf(j) # root
      BY <1>2, <2>1, LeafRootIsCurrent DEF Leaf, LeafSplits
    <3> QED
      BY <1>9, <2>1, <3>1 DEF LeafSize, Routed, InOrder, LeavesFilled
  <2> QED
    BY <1>3, <1>8, <2>1 DEF LeavesFilled
<1>18. DescentRouted(T, Q)'
  BY <1>2 DEF DescentRouted, LeafSplits
<1>19. InOrder(T, Q)'
  BY <1>8, <1>10, <1>11, <1>15, <1>16, <1>17, <1>18 DEF InOrder
<1> QED
  BY <1>7, <1>12, <1>19 DEF Routed

-----------------------------------------------------------------------------
(* A split reaches the parent, and the root                                *)

\* A node of the tree has one parent, and an orphan none.
LEMMA KidOnce ==
  ASSUME NEW T, NEW R, Routed(T, R)
  PROVE  /\ \A i, j \in T : i # j => KidsOf(inners, i) \cap KidsOf(inners, j) = {}
         /\ \A i \in T : KidsOf(inners, i) \cap Orphans = {}
         /\ root \in Orphans /\ (IsSplit => r.right \in Orphans)
BY DEF Routed, InnersFilled, Owned, KidsOf, Orphans

\* The parent that the ascent is at has keys to share out.
LEMMA TopRouted ==
  ASSUME NEW h, Good(h), NEW T, NEW R, Routed(T, R), stack # <<>>
  PROVE  /\ Top.id \in T /\ Top.id \in Nat /\ Parent = inners[Top.id]
         /\ R[Inner(Top.id)] \subseteq Key /\ R[Inner(Top.id)] # {}
         /\ IsInterval(R[Inner(Top.id)])
         /\ Routes(Parent, R[Inner(Top.id)], Known(R))
         /\ Current \in KidsOf(inners, Top.id)
         /\ \A i \in T \ {Top.id} : Current \notin KidsOf(inners, i)
         /\ Current # root
<1>1. /\ Top.id \in T /\ Parent = inners[Top.id] /\ Current \in KidsOf(inners, Top.id)
      /\ DOMAIN Parent.child = 1 .. InnerSize(Parent) + 1
      /\ DOMAIN Parent.keys = 1 .. InnerSize(Parent)
      /\ InnerSize(Parent) >= Least(Top.id, root) /\ InnerSize(Parent) \in Nat
  BY ParentFacts DEF Routed
<1>2. /\ Top.id \in Nat /\ R[Inner(Top.id)] \subseteq Key /\ IsInterval(R[Inner(Top.id)])
      /\ Routes(Parent, R[Inner(Top.id)], Known(R))
  BY <1>1, RangeOf
<1>3. 1 \in DOMAIN Parent.keys /\ 2 \in DOMAIN Parent.child
  <2>1. Least(Top.id, root) \in Nat /\ Least(Top.id, root) >= 1
    BY MinimumIs DEF Least
  <2> QED
    BY <1>1, <2>1
<1>4. Separates(Parent.keys[1], Known(R)[Parent.child[1]], Known(R)[Parent.child[1 + 1]])
  BY <1>2, <1>3 DEF Routes
<1>5. Parent.keys[1] \in Known(R)[Parent.child[2]]
  BY <1>4 DEF Separates
<1>6. Parent.child[2] \in Range(Parent.child)
  BY <1>3 DEF Range
<1>7. R[Inner(Top.id)] # {}
  BY <1>2, <1>5, <1>6 DEF Routes
<1> QED
  BY <1>1, <1>2, <1>7, KidOnce

\* A split child hands its keys from r.k on to the new node.
LEMMA InsertAscendSlotRouted ==
  ASSUME NEW h, Good(h), NEW T, NEW R, Routed(T, R), InsertAscendSlot
  PROVE  Routed(T, R)'
<1>0. PICK t : t = Top.id
  OBVIOUS
<1> DEFINE z == InsertSlot(Refreshed, Top.idx, r.k, r.right, AugOf(r.right))
           K == KidsOf(inners, t)
           C == NodesAt(Len(leaves), h, h[t] - 1)
<1>1. /\ pc = "insert_ascend" /\ stack # <<>> /\ r.tag = "Split"
      /\ inners' = [inners EXCEPT ![t] = z]
      /\ r' = Inserted /\ pc' = pc /\ UNCHANGED <<root, leaves, takenLeaves>>
  BY <1>0 DEF InsertAscendSlot, Ascending, taken
<1>2. /\ r.k \in Key /\ AugOf(r.right) \in Nat /\ r.right # root
      /\ r.right \in C /\ r.right \notin K
  BY <1>0, <1>1, SplitChild DEF Routed
<1>3. /\ IsInner(Refreshed, Key, C) /\ Refreshed.keys = Parent.keys
      /\ Refreshed.child = Parent.child
  BY <1>0, <1>1, RefreshedOK
<1>4. /\ Kids(Parent, K) /\ Top.idx \in DOMAIN Parent.child
      /\ Current = Parent.child[Top.idx]
  BY <1>0, <1>1, ParentFacts DEF Routed
<1>5. /\ t \in T /\ t \in Nat /\ R[Inner(t)] \subseteq Key /\ R[Inner(t)] # {}
      /\ IsInterval(R[Inner(t)]) /\ Routes(Parent, R[Inner(t)], Known(R))
      /\ Current \in K /\ \A i \in T \ {t} : Current \notin KidsOf(inners, i)
      /\ Current # root /\ t \in DOMAIN inners
  BY <1>0, <1>1, TopRouted, ParentFacts DEF Routed
<1>6. /\ IsSplit /\ ~IsSplit' /\ R \in Routing /\ Current \in NodeId
      /\ Orphans' = {root} /\ r.right \in Orphans
  BY <1>1, CurrentIsNode DEF IsSplit, Inserted, Routed, Orphans
<1>7. /\ \A x \in NodeId : x # Current => Known(R)[x] = R[x]
      /\ Known(R)[Current] = R[Current] \cup R[r.right]
      /\ Known(R)' = R
  BY <1>6, KnownIs DEF Known, Routing
<1>8. Separates(r.k, R[Current], R[r.right])
  BY <1>6 DEF Routed, InOrder, KeysShared
<1>9. \A i \in T : \A x \in KidsOf(inners, i) : x \in NodeId
  BY RangeOf, KidKnown
<1>10. Routes(z, R[Inner(t)], R)
  <2> DEFINE n == Refreshed
             c == Top.idx
             x == r.right
             a == AugOf(r.right)
             k == r.k
             S == R[Inner(t)]
             W == Known(R)
  <2>1. /\ IsInner(n, Key, C) /\ Kids(n, K) /\ S \subseteq Key
        /\ c \in DOMAIN n.child /\ k \in Key /\ x \in C /\ x \notin K /\ a \in Nat
    BY <1>2, <1>3, <1>4, <1>5 DEF Kids
  <2>2. Routes(n, S, W)
    BY <1>3, <1>5 DEF Routes
  <2>3. n.child[c] = Current
    BY <1>3, <1>4
  <2>4. /\ \A y \in K \ {n.child[c]} : R[y] = W[y]
        /\ R[n.child[c]] \cup R[x] = W[n.child[c]]
        /\ Separates(k, R[n.child[c]], R[x])
    BY <1>5, <1>7, <1>8, <1>9, <2>3
  <2>5. z = InsertSlot(n, c, k, x, a)
    OBVIOUS
  <2> HIDE DEF n, c, x, a, k, S, W, z, C, K
  <2>6. Routes(InsertSlot(n, c, k, x, a), S, R)
    BY ONLY <2>1, <2>2, <2>4, InsertSlotRoutes
  <2> QED
    BY <2>5, <2>6 DEF S
<1>11. Kids(z, K \cup {r.right})
  <2>1. Kids(Refreshed, K) /\ Top.idx \in DOMAIN Refreshed.child
    BY <1>3, <1>4 DEF Kids
  <2> HIDE DEF C
  <2> QED
    BY <1>2, <1>3, <2>1, InsertSlotKids
<1> HIDE DEF z
<1>12. /\ inners'[t] = z /\ KidsOf(inners', t) = K \cup {r.right}
       /\ \A i \in T \ {t} : inners'[i] = inners[i]
  BY <1>1, <1>5, <1>11, RangeOf DEF KidsOf, Kids, Once
<1>13. KeysShared(T, R)'
  <2>1. ASSUME NEW i \in T \ {t} PROVE NodeKept(R, R, i)
    BY <1>5, <1>7, <1>9, <1>12 DEF NodeKept
  <2>2. NodeShares(R, t)'
    BY <1>5, <1>7, <1>10, <1>12 DEF NodeShares
  <2>3. Known(R)'[root'] = Key
    <3>1. root \in NodeId
      BY DEF Good, Scalars
    <3>2. Known(R)[root] = Key
      BY DEF Routed, InOrder, KeysShared
    <3> QED
      BY <1>1, <1>5, <1>7, <3>1, <3>2
  <2>4. \A i \in T : (i \in T /\ NodeKept(R, R, i)) \/ NodeShares(R, i)'
    BY <2>1, <2>2
  <2> QED
    BY ONLY Good(h), Routed(T, R), <1>6, <2>3, <2>4, SharedAfter
<1>14. /\ Orphans' \subseteq NodesOf(T)
       /\ \A i \in T : KidsOf(inners', i) \subseteq NodesOf(T)
  BY <1>5, <1>6, <1>12, KidOnce DEF NodesOf, KidsOf
<1>15. DescentRouted(T, R)'
  BY <1>1 DEF DescentRouted
<1>16. InnersFilled(T)'
  BY InsertAscendSlotFilled DEF Routed
<1> QED
  BY <1>1, <1>6, <1>13, <1>14, <1>15, <1>16, NodesRouted

\* Q routes A to inner node a, B to inner node b, and for the rest what R does.
Rerouted(R, Q, a, A, b, B) ==
    /\ Q \in Routing /\ Q[Inner(a)] = A /\ Q[Inner(b)] = B
    /\ \A x \in NodeId : x # Inner(a) /\ x # Inner(b) => Q[x] = R[x]

\* Two inner nodes can be given other routes.
LEMMA Reroute ==
  ASSUME NEW R \in Routing, NEW a \in Nat, NEW b \in Nat, NEW A, NEW B,
         A \subseteq Key, B \subseteq Key, a # b
  PROVE  \E Q : Rerouted(R, Q, a, A, b, B)
<1> DEFINE Q == [x \in NodeId |-> IF x = Inner(a) THEN A ELSE IF x = Inner(b) THEN B ELSE R[x]]
<1>1. Inner(a) \in NodeId /\ Inner(b) \in NodeId
  BY IdsAreNodes
<1>2. Inner(a) # Inner(b)
  BY DEF Inner
<1>3. Q \in Routing
  BY DEF Routing
<1>4. Q[Inner(a)] = A /\ Q[Inner(b)] = B
  BY <1>1, <1>2
<1>5. Rerouted(R, Q, a, A, b, B)
  BY <1>3, <1>4 DEF Rerouted
<1> QED
  BY <1>5

\* Leaves get the same keys.
LEMMA LeavesSameRoute ==
  ASSUME NEW R, NEW Q, NEW a, NEW A, NEW b, NEW B, Rerouted(R, Q, a, A, b, B)
  PROVE  \A l \in Nat : Q[Leaf(l)] = R[Leaf(l)]
<1>1. \A l \in Nat : Leaf(l) \in NodeId /\ Leaf(l) # Inner(a) /\ Leaf(l) # Inner(b)
  BY IdsAreNodes DEF Leaf, Inner
<1> QED
  BY <1>1 DEF Rerouted

\* A set of keys cut in two at k.
LEMMA HalfIntervals ==
  ASSUME NEW S, S \subseteq Key, IsInterval(S), NEW A, NEW B, A \cup B = S,
         NEW k, Separates(k, A, B)
  PROVE  IsInterval(A) /\ IsInterval(B) /\ k \in Int /\ A # {} /\ B # {}
<1>1. A \subseteq Int /\ B \subseteq Int
  BY KeyAssumption
<1>2. k \in B /\ k \in Int /\ A # {} /\ \A z \in A : z < k /\ \A y \in B : k <= y
  BY <1>1 DEF Separates
<1>4. ASSUME NEW z \in S PROVE (z \in A <=> z < k) /\ (z \in B <=> k <= z)
  <2>1. (z \in A \/ z \in B) /\ (z \in A => z < k) /\ (z \in B => k <= z)
    BY <1>2
  <2>2. z \in Int /\ k \in Int
    BY <1>1, <1>2
  <2>3. z < k <=> ~(k <= z)
    BY <2>2
  <2> QED
    BY <2>1, <2>3
<1>5. A = {z \in S : z < k} /\ B = {z \in S : k <= z}
  BY <1>4
<1>3. IsInterval({z \in S : z < k}) /\ IsInterval({z \in S : k <= z})
  BY <1>2, IntervalCut
<1> QED
  BY <1>2, <1>3, <1>5

\* A full parent gives its upper half, with the keys from the separator on.
LEMMA InsertAscendSplitRouted ==
  ASSUME NEW h, Good(h), NEW T, NEW R, Routed(T, R), InsertAscendSplit
  PROVE  \E U, Q : U = T \cup {Len(inners) + 1} /\ Routed(U, Q)'
<1>0. PICK t, m : t = Top.id /\ m = Len(inners) + 1
  OBVIOUS
<1> DEFINE K == KidsOf(inners, t)
           C == NodesAt(Len(leaves), h, h[t] - 1)
<1>1. PICK s : /\ s = SplitInner(Refreshed, Top.idx, r.k, r.right, AugOf(r.right))
               /\ pc = "insert_ascend" /\ stack # <<>> /\ r.tag = "Split" /\ InnerIsFull(Parent)
               /\ inners' = Append([inners EXCEPT ![t] = s.left], s.right)
               /\ r' = Split(s.key, Inner(m)) /\ pc' = pc /\ PopStack
               /\ UNCHANGED <<root, leaves, takenLeaves>>
  BY <1>0 DEF InsertAscendSplit, Ascending, taken
<1>2. /\ r.k \in Key /\ AugOf(r.right) \in Nat /\ r.right # root
      /\ r.right \in C /\ r.right \notin K /\ root \notin K
  BY <1>0, <1>1, SplitChild DEF Routed
<1>3. /\ IsInner(Refreshed, Key, C) /\ Refreshed.keys = Parent.keys
      /\ Refreshed.child = Parent.child
  BY <1>0, <1>1, RefreshedOK
<1>4. /\ Kids(Parent, K) /\ Top.idx \in DOMAIN Parent.child
      /\ Current = Parent.child[Top.idx]
  BY <1>0, <1>1, ParentFacts DEF Routed
<1>5. /\ t \in T /\ t \in Nat /\ R[Inner(t)] \subseteq Key /\ R[Inner(t)] # {}
      /\ IsInterval(R[Inner(t)]) /\ Routes(Parent, R[Inner(t)], Known(R))
      /\ Current \in K /\ \A i \in T \ {t} : Current \notin KidsOf(inners, i)
      /\ Current # root /\ t \in DOMAIN inners
  BY <1>0, <1>1, TopRouted, ParentFacts DEF Routed
<1>6. /\ IsSplit /\ IsSplit' /\ R \in Routing /\ Current \in NodeId
      /\ Orphans' = {root, Inner(m)} /\ r.right \in Orphans
      /\ Current' = Inner(t) /\ r'.k = s.key /\ r'.right = Inner(m)
  BY <1>0, <1>1, CurrentIsNode, PopFacts DEF IsSplit, Split, Routed, Orphans
<1>7. /\ \A x \in NodeId : x # Current => Known(R)[x] = R[x]
      /\ Known(R)[Current] = R[Current] \cup R[r.right]
  BY <1>6, KnownIs DEF Routing
<1>8. Separates(r.k, R[Current], R[r.right])
  BY <1>6 DEF Routed, InOrder, KeysShared
<1>9. \A i \in T : \A x \in KidsOf(inners, i) : x \in NodeId
  BY RangeOf, KidKnown
<1>10. /\ inners \in Seq(InnerRec) /\ DOMAIN inners = 1 .. Len(inners) /\ Len(inners) \in Nat
       /\ m \in Nat /\ m \notin DOMAIN inners /\ m # t
  BY <1>0, <1>5, StoreParts DEF Good
<1>11. /\ \A i \in DOMAIN inners : Inner(m) \notin KidsOf(inners, i)
       /\ Inner(m) # root /\ Inner(m) # r.right /\ T \subseteq DOMAIN inners
  BY <1>0, <1>1, NewIsFresh DEF Routed, InnersFilled, Owned
<1>12. \E A, B : /\ A \cup B = R[Inner(t)] /\ Separates(s.key, A, B)
                 /\ Routes(s.left, A, R) /\ Routes(s.right, B, R)
  <2> DEFINE n == Refreshed
             c == Top.idx
             x == r.right
             a == AugOf(r.right)
             k == r.k
             S == R[Inner(t)]
             W == Known(R)
  <2>1. /\ IsInner(n, Key, C) /\ Kids(n, K) /\ S \subseteq Key /\ S # {}
        /\ c \in DOMAIN n.child /\ k \in Key /\ x \in C /\ x \notin K /\ a \in Nat
        /\ Len(n.keys) = INNER_N
    BY <1>1, <1>2, <1>3, <1>4, <1>5 DEF Kids, InnerIsFull, InnerSize
  <2>2. Routes(n, S, W)
    BY <1>3, <1>5 DEF Routes
  <2>3. n.child[c] = Current
    BY <1>3, <1>4
  <2>4. /\ \A y \in K \ {n.child[c]} : R[y] = W[y]
        /\ R[n.child[c]] \cup R[x] = W[n.child[c]]
        /\ Separates(k, R[n.child[c]], R[x])
    BY <1>5, <1>7, <1>8, <1>9, <2>3
  <2>5. s = SplitInner(n, c, k, x, a)
    BY <1>1
  <2> HIDE DEF n, c, x, a, k, S, W, C, K
  <2>6. CutInto(SplitInner(n, c, k, x, a), S, R)
    BY ONLY <2>1, <2>2, <2>4, SplitInnerRoutes
  <2> QED
    BY <2>5, <2>6 DEF S, CutInto
<1>13. PICK A, B : /\ A \cup B = R[Inner(t)] /\ Separates(s.key, A, B)
                   /\ Routes(s.left, A, R) /\ Routes(s.right, B, R)
  BY <1>12
<1>14. A \subseteq Key /\ B \subseteq Key /\ IsInterval(A) /\ IsInterval(B)
  BY <1>5, <1>13, HalfIntervals
<1>15. PICK Q : Rerouted(R, Q, t, A, m, B)
  BY <1>5, <1>6, <1>10, <1>14, Reroute
<1>16. /\ Dealt(K \cup {r.right}, s.left, s.right)
       /\ IsInner(s.left, Key, C) /\ IsInner(s.right, Key, C)
  <2>1. Kids(Refreshed, K) /\ Top.idx \in DOMAIN Refreshed.child /\ Len(Refreshed.keys) = INNER_N
    BY <1>1, <1>3, <1>4 DEF Kids, InnerIsFull, InnerSize
  <2> HIDE DEF C, K
  <2> DEFINE n == Refreshed
             c == Top.idx
             x == r.right
             a == AugOf(r.right)
             k == r.k
  <2>2. /\ IsInner(n, Key, C) /\ Len(n.keys) = INNER_N /\ Kids(n, K)
        /\ c \in DOMAIN n.child /\ k \in Key /\ x \in C /\ x \notin K /\ a \in Nat
    BY <1>2, <1>3, <2>1
  <2>3. s = SplitInner(n, c, k, x, a)
    BY <1>1
  <2> HIDE DEF n, c, x, a, k
  <2>4. Dealt(K \cup {x}, s.left, s.right)
    BY ONLY <2>2, <2>3, SplitInnerKids
  <2>5. IsInner(s.left, Key, C) /\ IsInner(s.right, Key, C)
    BY ONLY <2>2, <2>3, SplitInnerType
  <2> QED
    BY <2>4, <2>5 DEF x
<1>17. /\ inners'[t] = s.left /\ inners'[m] = s.right
       /\ \A i \in DOMAIN inners \ {t} : inners'[i] = inners[i]
  BY <1>0, <1>1, <1>5, <1>10
<1>18. Range(s.left.child) \cup Range(s.right.child) = K \cup {r.right}
  BY <1>16 DEF Dealt, Kids, Once
<1>19. \A x \in NodeId : x # Inner(m) => Known(Q)'[x] = R[x]
  <2>1. Inner(t) \in NodeId
    BY <1>5, IdsAreNodes
  <2> QED
    BY <1>6, <1>13, <1>15, <2>1 DEF Known, Rerouted
<1>20. \A x \in K \cup {r.right} : x \in NodeId /\ x # Inner(m) /\ Known(Q)'[x] = R[x]
  <2>1. r.right \in NodeId
    BY <1>6, NodesOfTree DEF NodesOf
  <2> QED
    BY <1>5, <1>9, <1>11, <1>19, <2>1
<1>21. KeysShared(T \cup {m}, Q)'
  <2>1. ASSUME NEW i \in T \ {t} PROVE NodeKept(R, Q, i)
    <3>1. i \in DOMAIN inners /\ i \in Nat /\ i # m
      BY <1>10, RangeOf
    <3>2. Q[Inner(i)] = R[Inner(i)]
      BY <1>15, <3>1, IdsAreNodes DEF Rerouted, Inner
    <3>3. \A x \in KidsOf(inners, i) : Known(Q)'[x] = Known(R)[x]
      BY <1>5, <1>7, <1>9, <1>11, <1>19, <3>1
    <3> QED
      BY <1>17, <3>1, <3>2, <3>3 DEF NodeKept
  <2>2. PICK V : V = Known(Q)'
    OBVIOUS
  <2> HIDE DEF C, K
  <2>3. Routes(s.left, A, V) /\ Routes(s.right, B, V)
    <3>1. /\ \A x \in Range(s.left.child) : V[x] = R[x]
          /\ \A x \in Range(s.right.child) : V[x] = R[x]
      BY <1>18, <1>20, <2>2
    <3>2. Routes(s.left, A, V)
      BY ONLY <1>13, <1>16, <3>1, RoutesSame
    <3>3. Routes(s.right, B, V)
      BY ONLY <1>13, <1>16, <3>1, RoutesSame
    <3> QED
      BY <3>2, <3>3
  <2>4. NodeShares(Q, t)' /\ NodeShares(Q, m)'
    BY <1>14, <1>15, <1>17, <2>2, <2>3 DEF NodeShares, Rerouted
  <2>5. Known(Q)'[root'] = Key
    <3>1. root \in NodeId
      BY DEF Good, Scalars
    <3>2. Known(R)[root] = Key
      BY DEF Routed, InOrder, KeysShared
    <3> QED
      BY <1>1, <1>5, <1>7, <1>11, <1>19, <3>1, <3>2
  <2>6. \A i \in T \cup {m} : (i \in T /\ NodeKept(R, Q, i)) \/ NodeShares(Q, i)'
    BY <2>1, <2>4
  <2>7. Separates(r'.k, Q[Current'], Q[r'.right])
    BY <1>6, <1>13, <1>15 DEF Rerouted
  <2>8. PICK U : U = T \cup {m}
    OBVIOUS
  <2>9. KeysShared(U, Q)'
    BY ONLY Good(h), Routed(T, R), <2>5, <2>6, <2>7, <2>8, SharedAfter
  <2> QED
    BY <2>8, <2>9
<1>22. PICK U : U = T \cup {m}
  OBVIOUS
<1>23. InnersFilled(U)'
  BY <1>0, <1>22, InsertAscendSplitFilled DEF Routed
<1>24. Inner(m) \in NodeId /\ InTree(U, Inner(m))'
  BY <1>10, <1>22, IdsAreNodes DEF InTree, Inner
<1>25. \A i \in U : KidsOf(inners', i) \subseteq NodesOf(T)
  <2>1. KidsOf(inners', t) \subseteq NodesOf(T) /\ KidsOf(inners', m) \subseteq NodesOf(T)
    BY <1>5, <1>6, <1>17, <1>18 DEF NodesOf, KidsOf
  <2>2. \A i \in T \ {t} : KidsOf(inners', i) \subseteq NodesOf(T)
    BY <1>11, <1>17 DEF NodesOf, KidsOf
  <2> QED
    BY <1>22, <2>1, <2>2
<1>26. Orphans' \subseteq NodesOf(T) \cup {x \in NodeId : InTree(U, x)'}
  BY <1>6, <1>24, KidOnce DEF NodesOf
<1>27. DescentRouted(U, Q)'
  BY <1>1 DEF DescentRouted
<1>28. \A l \in LeafAlive : Q[Leaf(l)] = R[Leaf(l)]
  BY <1>15, LeavesSameRoute, LeavesAre
<1>29. Q \in Routing /\ KeysShared(U, Q)'
  BY <1>15, <1>21, <1>22 DEF Rerouted
<1>30. Routed(U, Q)'
  BY <1>1, <1>6, <1>23, <1>25, <1>26, <1>27, <1>28, <1>29, NodesRouted
<1> QED
  BY <1>0, <1>22, <1>30

\* Where no child is left, a path leads to the root.
LEMMA AtRootFacts ==
  ASSUME NEW h, Good(h), NEW T, NEW R, Routed(T, R), stack = <<>>
  PROVE  /\ Current = root /\ root \in NodeId /\ Known(R)[root] = Key /\ R \in Routing
         /\ \A i \in T : \A x \in KidsOf(inners, i) : /\ x \in NodeId /\ x # root
                                                    /\ Known(R)[x] = R[x]
<1>1. Current = root /\ root \in NodeId /\ R \in Routing
  BY DEF Current, EndOf, Good, Scalars, Routed
<1>2. \A i \in T : \A x \in KidsOf(inners, i) : x \in NodeId /\ x # root
  BY RangeOf, KidKnown, KidOnce
<1>3. Known(R)[root] = Key
  BY DEF Routed, InOrder, KeysShared
<1> QED
  BY <1>1, <1>2, <1>3, KnownIs

\* The new root shares out all keys to the two halves.
LEMMA InsertReturnSplitRouted ==
  ASSUME NEW h, Good(h), NEW T, NEW R, Routed(T, R), InsertReturnSplit
  PROVE  \E U, Q : U = T \cup {Len(inners) + 1} /\ Routed(U, Q)'
<1>0. PICK m, x : m = Len(inners) + 1 /\ x = r.right
  OBVIOUS
<1>1. PICK n : /\ n.keys = <<r.k>> /\ n.child = <<root, x>>
               /\ pc = "insert_ascend" /\ stack = <<>> /\ r.tag = "Split"
               /\ inners' = Append(inners, n) /\ root' = Inner(m) /\ pc' = "idle"
               /\ UNCHANGED <<leaves, takenLeaves>>
  BY <1>0 DEF InsertReturnSplit, AtRoot, Return, taken
<1>2. IsSplit /\ ~IsSplit' /\ Orphans = {root, x} /\ Orphans' = {Inner(m)}
  BY <1>0, <1>1 DEF IsSplit, Orphans
<1>3. /\ inners \in Seq(InnerRec) /\ DOMAIN inners = 1 .. Len(inners) /\ Len(inners) \in Nat
      /\ m \in Nat /\ m \notin DOMAIN inners
  BY <1>0, StoreParts DEF Good
<1>4. /\ \A i \in DOMAIN inners : Inner(m) \notin KidsOf(inners, i)
      /\ Inner(m) # root /\ Inner(m) # x /\ T \subseteq DOMAIN inners
  BY <1>0, <1>1, NewIsFresh DEF Routed, InnersFilled, Owned
<1>5. /\ Current = root /\ root \in NodeId /\ Known(R)[root] = Key /\ R \in Routing
      /\ \A i \in T : \A y \in KidsOf(inners, i) : /\ y \in NodeId /\ y # root
                                                 /\ Known(R)[y] = R[y]
  BY <1>1, AtRootFacts
<1>6. R[root] \cup R[x] = Key /\ Separates(r.k, R[root], R[x]) /\ x \in NodeId
  <2>1. Known(R)[root] = R[root] \cup R[x]
    BY <1>0, <1>2, <1>5, KnownIs
  <2>2. x \in NodesOf(T)
    BY <1>2 DEF NodesOf
  <2> QED
    BY <1>0, <1>2, <1>5, <2>1, <2>2, NodesOfTree DEF Routed, InOrder, KeysShared
<1>7. PICK Q : /\ Q \in Routing /\ Q[Inner(m)] = Key
               /\ \A y \in NodeId : y # Inner(m) => Q[y] = R[y]
  <2> DEFINE Q == [y \in NodeId |-> IF y = Inner(m) THEN Key ELSE R[y]]
  <2>1. Q \in Routing
    BY <1>5 DEF Routing
  <2>2. Q[Inner(m)] = Key /\ \A y \in NodeId : y # Inner(m) => Q[y] = R[y]
    BY <1>3, IdsAreNodes
  <2> HIDE DEF Q
  <2> QED
    BY <2>1, <2>2
<1>8. Known(Q)' = Q
  BY <1>2, <1>7 DEF Known, Routing
<1>9. inners'[m] = n /\ \A i \in DOMAIN inners : inners'[i] = inners[i]
  BY <1>0, <1>1, <1>3
<1>10. Routes(n, Key, Q)
  <2>1. Range(n.child) = {root, x}
    BY <1>1 DEF Range
  <2>2. Q[root] = R[root] /\ Q[x] = R[x]
    BY <1>4, <1>5, <1>6, <1>7
  <2>3. Key = UNION {Q[y] : y \in Range(n.child)}
    BY <1>6, <2>1, <2>2
  <2>4. ASSUME NEW c \in DOMAIN n.keys
        PROVE  Separates(n.keys[c], Q[n.child[c]], Q[n.child[c + 1]])
    <3>1. n.keys[c] = r.k /\ n.child[c] = root /\ n.child[c + 1] = x
      BY <1>1
    <3> QED
      BY <1>6, <2>2, <3>1
  <2> QED
    BY <2>3, <2>4 DEF Routes
<1>11. PICK U : U = T \cup {m}
  OBVIOUS
<1>12. KeysShared(U, Q)'
  <2>1. ASSUME NEW i \in T PROVE NodeKept(R, Q, i)
    <3>1. i \in DOMAIN inners /\ i \in Nat /\ i # m
      BY <1>3, RangeOf
    <3>2. Q[Inner(i)] = R[Inner(i)]
      BY <1>7, <3>1, IdsAreNodes DEF Inner
    <3>3. \A y \in KidsOf(inners, i) : Known(Q)'[y] = Known(R)[y]
      BY <1>4, <1>5, <1>7, <1>8, <3>1
    <3> QED
      BY <1>9, <3>1, <3>2, <3>3 DEF NodeKept
  <2>2. NodeShares(Q, m)'
    BY <1>7, <1>8, <1>9, <1>10 DEF NodeShares, IsInterval
  <2>3. Known(Q)'[root'] = Key
    BY <1>1, <1>7, <1>8
  <2>4. \A i \in U : (i \in T /\ NodeKept(R, Q, i)) \/ NodeShares(Q, i)'
    BY <1>11, <2>1, <2>2
  <2> QED
    BY ONLY Good(h), Routed(T, R), <1>2, <2>3, <2>4, SharedAfter
<1>13. InnersFilled(U)'
  BY <1>0, <1>11, InsertReturnSplitFilled DEF Routed
<1>14. Inner(m) \in NodeId /\ InTree(U, Inner(m))'
  BY <1>3, <1>11, IdsAreNodes DEF InTree, Inner
<1>15. \A i \in U : KidsOf(inners', i) \subseteq NodesOf(T)
  <2>1. KidsOf(inners', m) = {root, x}
    BY <1>1, <1>9 DEF KidsOf, Range
  <2>2. \A i \in T : KidsOf(inners', i) = KidsOf(inners, i)
    BY <1>4, <1>9 DEF KidsOf
  <2> QED
    BY <1>2, <1>11, <2>1, <2>2 DEF NodesOf
<1>16. \A l \in LeafAlive : Q[Leaf(l)] = R[Leaf(l)]
  <2>1. \A l \in Nat : Leaf(l) \in NodeId /\ Leaf(l) # Inner(m)
    BY IdsAreNodes DEF Leaf, Inner
  <2> QED
    BY <1>7, <2>1, LeavesAre
<1>17. DescentRouted(U, Q)' /\ Orphans' \subseteq NodesOf(T) \cup {y \in NodeId : InTree(U, y)'}
  BY <1>1, <1>2, <1>14 DEF DescentRouted
<1>18. Routed(U, Q)'
  BY <1>1, <1>2, <1>7, <1>12, <1>13, <1>15, <1>16, <1>17, NodesRouted
<1> QED
  BY <1>0, <1>11, <1>18

\* A root without keys routes every key to its child.
LEMMA RemoveReturnInnerRouted ==
  ASSUME NEW h, Good(h), NEW T, NEW R, Routed(T, R), RemoveReturnInnerUnderSize
  PROVE  \E U, Q : /\ U = IF InnerSize(inners[root.id]) = 0 THEN T \ {root.id} ELSE T
                   /\ Routed(U, Q)'
<1>0. PICK t, x : t = root.id /\ x = inners[root.id].child[1]
  OBVIOUS
<1>1. /\ pc = "remove_ascend" /\ stack = <<>> /\ r.tag = "InnerUnderSize"
      /\ root' = IF InnerSize(inners[t]) = 0 THEN x ELSE root
      /\ UNCHANGED <<inners, leaves, takenLeaves>> /\ pc' = "idle"
  BY <1>0 DEF RemoveReturnInnerUnderSize, AtRoot, store, Return, taken
<1>2. ~IsSplit /\ ~IsSplit' /\ Orphans = {root} /\ Orphans' = {root'}
  BY <1>1 DEF IsSplit, Orphans
<1>3. PICK U : /\ U = IF InnerSize(inners[t]) = 0 THEN T \ {t} ELSE T
               /\ InnersFilled(U)'
  BY <1>0, RemoveReturnInnerFilled DEF Routed
<1>4. /\ Current = root /\ root \in NodeId /\ Known(R)[root] = Key /\ R \in Routing
      /\ Known(R) = R /\ Known(R)' = R
  BY <1>1, <1>2, AtRootFacts, KnownIs DEF Known, Routing
<1>5. root.kind = "inner" /\ t \in T /\ root = Inner(t)
  <2>1. root.kind = "inner"
    BY <1>1, <1>4, RemoveFields
  <2>2. root \in NodesOf(T) /\ InTree(T, root)
    BY <1>2, NodesOfTree DEF NodesOf
  <2> QED
    BY <1>0, <1>4, <2>1, <2>2 DEF InTree, NodeId, Inner
<1>6. root' \in NodesOf(T) /\ R[root'] = Key
  <2>1. CASE InnerSize(inners[t]) # 0
    BY <1>1, <1>2, <1>4, <2>1 DEF NodesOf
  <2>2. CASE InnerSize(inners[t]) = 0
    <3>1. /\ IsInner(inners[t], Key, NodesAt(Len(leaves), h, h[t] - 1))
          /\ Routes(inners[t], R[Inner(t)], R)
      BY <1>2, <1>5, RangeOf
    <3>2. DOMAIN inners[t].child = {1}
      <4>1. DOMAIN inners[t].child = 1 .. Len(inners[t].keys) + 1
        BY <3>1, NodeParts
      <4> QED
        BY <2>2, <4>1 DEF InnerSize
    <3>3. Range(inners[t].child) = {x}
      BY <1>0, <3>2 DEF Range
    <3>4. R[x] = Key
      BY <1>4, <1>5, <3>1, <3>3 DEF Routes
    <3>5. x \in KidsOf(inners, t)
      BY <3>3 DEF KidsOf
    <3> QED
      BY <1>1, <1>5, <2>2, <3>4, <3>5 DEF NodesOf
  <2> QED
    BY <2>1, <2>2
<1>7. KeysShared(U, R)'
  <2>1. \A i \in U : i \in T /\ NodeKept(R, R, i)
    BY <1>1, <1>3, <1>4 DEF NodeKept
  <2>2. Known(R)'[root'] = Key
    BY <1>4, <1>6
  <2>3. \A i \in U : (i \in T /\ NodeKept(R, R, i)) \/ NodeShares(R, i)'
    BY <2>1
  <2> QED
    BY ONLY Good(h), Routed(T, R), <1>2, <2>2, <2>3, SharedAfter
<1>8. \A l : Leaf(l) = root /\ ~IsSplit => Leaf(l) = root' /\ ~IsSplit'
  BY <1>5 DEF Leaf, Inner
<1>9. \A i \in U : KidsOf(inners', i) \subseteq NodesOf(T)
  BY <1>1, <1>3 DEF NodesOf
<1>10. DescentRouted(U, R)' /\ Orphans' \subseteq NodesOf(T)
  BY <1>1, <1>2, <1>6 DEF DescentRouted
<1>11. Routed(U, R)'
  BY <1>1, <1>3, <1>4, <1>7, <1>8, <1>9, <1>10, NodesRouted
<1> QED
  BY <1>0, <1>3, <1>11

\* A tree that is one empty leaf.
IsFresh == /\ leaves = <<EmptyLeaf>> /\ inners = <<>> /\ takenLeaves = {} /\ root = Leaf(1)
           /\ pc = "idle" /\ stack = <<>>

\* Its leaf gets every key.
LEMMA FreshRouted == IsFresh => \E R : Routed({}, R)
<1> SUFFICES ASSUME IsFresh PROVE \E R : Routed({}, R)
  OBVIOUS
<1> DEFINE R == [x \in NodeId |-> IF x = Leaf(1) THEN Key ELSE {}]
<1>1. R \in Routing /\ Leaf(1) \in NodeId /\ R[Leaf(1)] = Key
  BY IdsAreNodes DEF Routing
<1>2. ~IsSplit /\ Orphans = {Leaf(1)} /\ LeafAlive = {1} /\ DOMAIN leaves = {1}
      /\ leaves[1] = EmptyLeaf
  BY DEF IsSplit, Orphans, LeafAlive, IsFresh
<1>3. Known(R) = R
  BY <1>1, <1>2, KnownIs
<1>4. KeysShared({}, R)
  BY <1>1, <1>2, <1>3 DEF KeysShared, IsFresh
<1>5. LeavesKnown({})
  BY <1>2 DEF LeavesKnown, InTree, Leaf, IsFresh
<1>6. LeavesHold(leaves, LeafAlive, R) /\ LeavesLinked(leaves, LeafAlive, R) /\ LeavesFilled
  BY <1>1, <1>2 DEF LeavesHold, LeavesLinked, LeavesFilled, EmptyLeaf, Ascends, KeysOf, IsFresh
<1>7. DescentRouted({}, R) /\ InnersFilled({})
  BY <1>2 DEF DescentRouted, IsFresh, InnersFilled, Owned, Leaf
<1>8. Routed({}, R)
  BY <1>1, <1>4, <1>5, <1>6, <1>7 DEF Routed, InOrder
<1> QED
  BY <1>8

\* A new tree has its routes: its empty leaf gets every key.
LEMMA InitRouted == Init => \E T, R : Routed(T, R)
BY FreshRouted DEF Init, IsFresh

\* clear replaces the tree by a new one.
LEMMA ClearRouted ==
  ASSUME Clear
  PROVE  (\E R : Routed({}, R))'
<1>1. IsFresh'
  BY DEF Clear, Return, IsFresh
<1> QED
  BY <1>1, FreshRouted, PTL

-----------------------------------------------------------------------------
(* Neighbouring leaves                                                     *)

(***************************************************************************)
(* Leaves a and b are neighbours below the parent; the leaf chain joins    *)
(* them, and the key of the parent stands between them.                    *)
(***************************************************************************)
LeafPair(R, slot, a, b) ==
    /\ a \in LeafAlive /\ b \in LeafAlive /\ a # b
    /\ Parent.child[slot] = Leaf(a) /\ Parent.child[slot + 1] = Leaf(b)
    /\ LeafAt(slot) = leaves[a] /\ LeafAt(slot + 1) = leaves[b]
    /\ leaves[a].next = b /\ Ahead(R, a, b)
    /\ Separates(Parent.keys[slot], R[Leaf(a)], R[Leaf(b)])
    /\ Leaf(a) \in KidsOf(inners, Top.id) /\ Leaf(b) \in KidsOf(inners, Top.id)

\* A leaf whose keys lie between those of a and b has no room if they leave no gap.
LEMMA NothingBetween ==
  ASSUME NEW A, NEW R, NEW a \in A, NEW b \in A, NEW d \in A, a # b, d # a, d # b,
         \A i \in A : R[Leaf(i)] \subseteq Key, Ranged(A, R),
         R[Leaf(a)] \cap R[Leaf(d)] = {}, R[Leaf(b)] \cap R[Leaf(d)] = {},
         IsInterval(R[Leaf(a)] \cup R[Leaf(b)])
  PROVE  ~(Ahead(R, a, d) /\ Ahead(R, d, b))
<1> SUFFICES ASSUME Ahead(R, a, d), Ahead(R, d, b) PROVE FALSE
  OBVIOUS
<1>1. PICK u, w, v : u \in R[Leaf(a)] /\ w \in R[Leaf(d)] /\ v \in R[Leaf(b)]
  BY DEF Ranged
<1>2. u < w /\ w < v /\ u \in Int /\ w \in Int /\ v \in Int
  BY <1>1 DEF Ahead, Precedes, Ranged
<1>3. u <= w /\ w <= v /\ w \in Key
  BY <1>1, <1>2
<1>4. w \in R[Leaf(a)] \cup R[Leaf(b)]
  BY <1>1, <1>3 DEF IsInterval
<1> QED
  BY <1>1, <1>4

\* Two neighbouring children of the parent of a leaf are leaves, one ahead of the other.
LEMMA TwoLeaves ==
  ASSUME NEW h, Good(h), NEW T, NEW R, Routed(T, R), Key # {}, stack # <<>>,
         Current.kind = "leaf", ~IsSplit, NEW slot \in 1 .. Len(Parent.keys),
         NEW a, a = Parent.child[slot].id, NEW b, b = Parent.child[slot + 1].id
  PROVE  LeafPair(R, slot, a, b)
<1>1. PICK t, n, S : t = Top.id /\ n = Parent /\ S = R[Inner(t)]
  OBVIOUS
<1>2. /\ t \in T /\ n = inners[t] /\ S \subseteq Key /\ S # {} /\ IsInterval(S)
      /\ Routes(n, S, R) /\ Known(R) = R /\ Current \in KidsOf(inners, t)
  BY <1>1, TopRouted, KnownIs DEF Routed
<1>3. PICK C : IsInner(n, Key, C)
  BY <1>2, RangeOf
<1>4. /\ DOMAIN n.child = 1 .. Len(n.keys) + 1 /\ DOMAIN n.keys = 1 .. Len(n.keys)
      /\ Len(n.keys) \in Nat /\ slot \in DOMAIN n.keys
      /\ slot \in DOMAIN n.child /\ slot + 1 \in DOMAIN n.child /\ slot < slot + 1
  <2>1. /\ DOMAIN n.child = 1 .. Len(n.keys) + 1 /\ DOMAIN n.keys = 1 .. Len(n.keys)
        /\ Len(n.keys) \in Nat
    BY <1>3, NodeParts
  <2> QED
    BY <1>1, <2>1
<1>5. \A c \in {slot, slot + 1} : n.child[c] \in KidsOf(inners, t)
  BY <1>2, <1>4 DEF KidsOf, Range
<1>6. \A x \in KidsOf(inners, t) : x = Leaf(x.id) /\ x.id \in LeafAlive
  <2>1. t \in DOMAIN inners /\ h[t] \in Nat
    BY <1>2, RangeOf, KidKnown
  <2>2. h[t] - 1 = 0
    <3>1. HeightOf(h, Current) = h[t] - 1
      BY <1>2, <2>1, KidKnown
    <3> QED
      BY <3>1 DEF HeightOf
  <2>3. ASSUME NEW x \in KidsOf(inners, t) PROVE x.kind = "leaf"
    <3>1. /\ x.kind \in {"leaf", "inner"}
          /\ x.kind = "inner" => x.id \in DOMAIN inners /\ h[x.id] = 0
      BY <2>1, <2>2, KidKnown DEF NodeId
    <3>2. \A i \in DOMAIN inners : h[i] # 0
      BY StoreParts DEF Good
    <3> QED
      BY <3>1, <3>2
  <2>4. ASSUME NEW x \in KidsOf(inners, t) PROVE InTree(T, x)
    BY <1>2, NodesOfTree DEF NodesOf
  <2> QED
    BY <2>1, <2>3, <2>4, KidKnown DEF InTree
<1>7. /\ a \in LeafAlive /\ b \in LeafAlive /\ n.child[slot] = Leaf(a) /\ n.child[slot + 1] = Leaf(b)
      /\ Leaf(a) \in KidsOf(inners, t) /\ Leaf(b) \in KidsOf(inners, t)
  BY <1>1, <1>5, <1>6
<1>8. /\ Separates(n.keys[slot], R[Leaf(a)], R[Leaf(b)])
      /\ IsInterval(R[Leaf(a)] \cup R[Leaf(b)]) /\ Ahead(R, a, b)
  <2>1. Separates(n.keys[slot], R[n.child[slot]], R[n.child[slot + 1]])
    BY <1>2, <1>4 DEF Routes
  <2>2. IsInterval(R[n.child[slot]] \cup R[n.child[slot + 1]])
    BY ONLY <1>2, <1>3, <1>4, ChildInterval
  <2>3. \A c, d \in DOMAIN n.child : c < d => Precedes(R[n.child[c]], R[n.child[d]])
    BY ONLY <1>2, <1>3, RoutesApart
  <2>4. Precedes(R[n.child[slot]], R[n.child[slot + 1]])
    BY <1>4, <2>3
  <2> QED
    BY <1>7, <2>1, <2>2, <2>4 DEF Ahead
<1>9. /\ Ranged(LeafAlive, R) /\ \A i \in LeafAlive : R[Leaf(i)] \subseteq Key
      /\ LeavesLinked(leaves, LeafAlive, R) /\ LeavesHold(leaves, LeafAlive, R)
  <2>1. \A i \in LeafAlive : R[Leaf(i)] \subseteq Key
    BY LeavesAre, IdsAreNodes DEF Routed, Routing
  <2> QED
    BY <2>1, RangedLeaves DEF Routed, InOrder
<1>10. a # b /\ ~Ahead(R, b, a)
  BY <1>7, <1>8, <1>9, AheadOrder
<1>11. leaves[a].next = b
  <2>1. /\ leaves[a].next # None => leaves[a].next \in LeafAlive /\ Ahead(R, a, leaves[a].next)
        /\ leaves[a].next # None
        /\ b # leaves[a].next => Ahead(R, leaves[a].next, b)
    BY <1>7, <1>9, <1>10 DEF LeavesLinked
  <2>2. PICK d : d = leaves[a].next
    OBVIOUS
  <2>3. d \in LeafAlive /\ Ahead(R, a, d) /\ (d # b => Ahead(R, d, b)) /\ d # a
    BY <1>7, <1>9, <2>1, <2>2, AheadOrder
  <2>4. ASSUME d # b PROVE FALSE
    <3>1. R[Leaf(a)] \cap R[Leaf(d)] = {} /\ R[Leaf(b)] \cap R[Leaf(d)] = {}
      BY <1>7, <1>9, <2>3, <2>4 DEF LeavesHold
    <3>2. ~(Ahead(R, a, d) /\ Ahead(R, d, b))
      BY ONLY <1>7, <1>8, <1>9, <1>10, <2>3, <2>4, <3>1, NothingBetween
    <3> QED
      BY <2>3, <2>4, <3>2
  <2> QED
    BY <2>2, <2>4
<1>12. LeafAt(slot) = leaves[a] /\ LeafAt(slot + 1) = leaves[b]
  BY DEF LeafAt
<1> QED
  BY <1>1, <1>7, <1>8, <1>10, <1>11, <1>12 DEF LeafPair

\* Q gives leaf a what R gives to a and b.
Joins(Q, R, A, a, b) ==
    /\ Q[Leaf(a)] = R[Leaf(a)] \cup R[Leaf(b)]
    /\ \A j \in A \ {a, b} : Q[Leaf(j)] = R[Leaf(j)]

\* Leaf a may then hold what both may hold.
LEMMA JoinedHold ==
  ASSUME NEW lvs, NEW A, NEW R, LeavesHold(lvs, A, R), NEW a \in A, NEW b \in A, a # b,
         NEW Q, Joins(Q, R, A, a, b)
  PROVE  LeavesHold(lvs, A \ {b}, Q)
<1>1. \A l \in A : /\ Ascends(lvs[l].data) /\ KeysOf(lvs[l]) \subseteq R[Leaf(l)]
                   /\ \A m \in A \ {l} : R[Leaf(l)] \cap R[Leaf(m)] = {}
  BY DEF LeavesHold
<1>2. \A l \in A \ {b} : KeysOf(lvs[l]) \subseteq Q[Leaf(l)]
  BY <1>1 DEF Joins
<1>3. ASSUME NEW l \in A \ {b}, NEW m \in A \ {b}, l # m
      PROVE  Q[Leaf(l)] \cap Q[Leaf(m)] = {}
  <2>1. CASE l # a /\ m # a
    BY <1>1, <1>3, <2>1 DEF Joins
  <2>2. \A j \in A \ {a, b} : Q[Leaf(a)] \cap Q[Leaf(j)] = {}
    BY <1>1 DEF Joins
  <2> QED
    BY <1>3, <2>1, <2>2
<1> QED
  BY <1>1, <1>2, <1>3 DEF LeavesHold

\* A leaf can be given the route of another one as well.
LEMMA JoinExists ==
  ASSUME NEW R \in Routing, NEW a \in Nat, NEW b \in Nat
  PROVE  \E Q \in Routing : /\ Q[Leaf(a)] = R[Leaf(a)] \cup R[Leaf(b)]
                            /\ \A x \in NodeId : x # Leaf(a) => Q[x] = R[x]
<1> DEFINE Q == [x \in NodeId |-> IF x = Leaf(a) THEN R[Leaf(a)] \cup R[Leaf(b)] ELSE R[x]]
<1>1. Leaf(a) \in NodeId /\ Leaf(b) \in NodeId
  BY IdsAreNodes
<1>2. Q \in Routing
  BY <1>1 DEF Routing
<1>3. Q[Leaf(a)] = R[Leaf(a)] \cup R[Leaf(b)] /\ \A x \in NodeId : x # Leaf(a) => Q[x] = R[x]
  BY <1>1
<1> HIDE DEF Q
<1> QED
  BY <1>2, <1>3

\* Then all other leaves get what they got.
LEMMA JoinsIs ==
  ASSUME NEW R, NEW Q, NEW a \in Nat, NEW b, NEW A, A \subseteq Nat,
         Q[Leaf(a)] = R[Leaf(a)] \cup R[Leaf(b)],
         \A x \in NodeId : x # Leaf(a) => Q[x] = R[x]
  PROVE  Joins(Q, R, A, a, b)
<1>1. \A j \in A \ {a, b} : Leaf(j) \in NodeId /\ Leaf(j) # Leaf(a)
  BY IdsAreNodes DEF Leaf
<1> QED
  BY <1>1 DEF Joins

\* Leaves a and b, the children at slot and slot + 1, become x and y, which share the
\* entries of both out at k, and z is the parent with that key.
Shifts(R, slot, a, b, x, y, k, Q1, Q2, z) ==
    /\ LeafPair(R, slot, a, b)
    /\ leaves' = [leaves EXCEPT ![a] = x, ![b] = y]
    /\ x.prev = leaves[a].prev /\ x.next = leaves[a].next
    /\ y.prev = leaves[b].prev /\ y.next = leaves[b].next
    /\ AreHalves(x, y, Q1, Q2, R[Leaf(a)] \cup R[Leaf(b)], k)
    /\ LeafSize(x) >= LEAF_MIN /\ LeafSize(y) >= LEAF_MIN
    /\ z.keys = SetKey(Parent, slot, k).keys /\ z.child = Parent.child
    /\ inners' = [inners EXCEPT ![Top.id] = z]

(***************************************************************************)
(* The keys of the neighbours a and b are shared out anew: those below k   *)
(* go to a, which is now x, and the others to b, which is now y.           *)
(***************************************************************************)
LEMMA LeavesShifted ==
  ASSUME NEW h, Good(h), NEW T, NEW R, Routed(T, R), ~IsSplit, ~IsSplit',
         UNCHANGED <<root, takenLeaves>>, pc' = "remove_ascend", stack # <<>>,
         InnersFilled(T)', NEW slot \in 1 .. Len(Parent.keys), NEW a, NEW b, NEW x, NEW y,
         NEW k, NEW Q1, NEW Q2, NEW z, Shifts(R, slot, a, b, x, y, k, Q1, Q2, z)
  PROVE  \E Q : Routed(T, Q)'
<1>0. PICK t : t = Top.id
  OBVIOUS
<1>sh. /\ LeafPair(R, slot, a, b)
       /\ leaves' = [leaves EXCEPT ![a] = x, ![b] = y]
       /\ x.prev = leaves[a].prev /\ x.next = leaves[a].next
       /\ y.prev = leaves[b].prev /\ y.next = leaves[b].next
       /\ AreHalves(x, y, Q1, Q2, R[Leaf(a)] \cup R[Leaf(b)], k)
       /\ LeafSize(x) >= LEAF_MIN /\ LeafSize(y) >= LEAF_MIN
       /\ z.keys = SetKey(Parent, slot, k).keys /\ z.child = Parent.child
       /\ inners' = [inners EXCEPT ![Top.id] = z]
  BY DEF Shifts
<1> USE <1>sh
<1>1. /\ a \in LeafAlive /\ b \in LeafAlive /\ a # b
      /\ Parent.child[slot] = Leaf(a) /\ Parent.child[slot + 1] = Leaf(b)
      /\ leaves[a].next = b
      /\ Leaf(a) \in KidsOf(inners, t) /\ Leaf(b) \in KidsOf(inners, t)
  BY <1>0 DEF LeafPair
<1>2. /\ t \in T /\ t \in Nat /\ Parent = inners[t] /\ R[Inner(t)] \subseteq Key
      /\ IsInterval(R[Inner(t)]) /\ Routes(Parent, R[Inner(t)], R) /\ Known(R) = R
      /\ R \in Routing
  BY <1>0, TopRouted, KnownIs DEF Routed
<1>3. /\ LeafAlive \subseteq Nat /\ LeafAlive \subseteq DOMAIN leaves /\ None \notin LeafAlive
      /\ a \in Nat /\ b \in Nat
  BY <1>1, LeavesAre
<1>4. PICK R0 \in Routing : /\ Joins(R0, R, LeafAlive, a, b)
                            /\ \A w \in NodeId : w # Leaf(a) => R0[w] = R[w]
  <2>1. PICK R0 \in Routing : /\ R0[Leaf(a)] = R[Leaf(a)] \cup R[Leaf(b)]
                              /\ \A w \in NodeId : w # Leaf(a) => R0[w] = R[w]
    BY <1>2, <1>3, JoinExists
  <2>2. Joins(R0, R, LeafAlive, a, b)
    BY <1>3, <2>1, JoinsIs
  <2> QED
    BY <2>1, <2>2
<1>5. PICK Q : Q = CutAt(R0, a, b, k)
  OBVIOUS
<1>6. /\ Q \in Routing
      /\ Q[Leaf(a)] = {w \in R0[Leaf(a)] : w < k} /\ Q[Leaf(b)] = {w \in R0[Leaf(a)] : k <= w}
      /\ \A j \in Nat : j # a /\ j # b => Q[Leaf(j)] = R0[Leaf(j)]
      /\ \A i \in Nat : Q[Inner(i)] = R0[Inner(i)]
      /\ \A w \in NodeId : w # Leaf(a) /\ w # Leaf(b) => Q[w] = R0[w]
  BY <1>1, <1>3, <1>5, CutAtIs
<1> HIDE <1>5
<1>7. R0[Leaf(a)] = R[Leaf(a)] \cup R[Leaf(b)] /\ R0[Leaf(a)] \subseteq Key
  BY <1>3, <1>4, IdsAreNodes DEF Joins, Routing
<1>8. /\ \A w \in NodeId : w # Leaf(a) /\ w # Leaf(b) => Q[w] = R[w]
      /\ \A i \in Nat : Q[Inner(i)] = R[Inner(i)]
      /\ \A j \in LeafAlive \ {a, b} : Q[Leaf(j)] = R[Leaf(j)]
  <2>1. \A i \in Nat : Inner(i) \in NodeId /\ Leaf(i) \in NodeId /\ Inner(i) # Leaf(a)
    BY IdsAreNodes DEF Inner, Leaf
  <2>2. \A j \in LeafAlive \ {a, b} : Leaf(j) # Leaf(a)
    BY DEF Leaf
  <2> QED
    BY <1>3, <1>4, <1>6, <2>1, <2>2
<1>9. leaves'[a] = x /\ leaves'[b] = y /\ DOMAIN leaves' = DOMAIN leaves
      /\ \A j \in LeafAlive \ {a, b} : leaves'[j] = leaves[j]
  BY <1>1, <1>3
<1>10. LeafAlive' = LeafAlive
  BY <1>9 DEF LeafAlive
<1>11. /\ Separates(k, Q[Leaf(a)], Q[Leaf(b)]) /\ k \in Key
       /\ Q[Leaf(a)] \cup Q[Leaf(b)] = R[Leaf(a)] \cup R[Leaf(b)] /\ Ahead(Q, a, b)
       /\ LeavesHold(leaves', LeafAlive, Q)
  <2>1. PICK A, L, M, B : A = LeafAlive /\ L = leaves /\ M = leaves' /\ B = LeafAlive \ {b}
    OBVIOUS
  <2>2. LeavesHold(L, B, R0)
    <3>1. LeavesHold(L, A, R) /\ a \in A /\ b \in A /\ Joins(R0, R, A, a, b)
      BY <1>1, <1>4, <2>1 DEF Routed, InOrder
    <3>2. LeavesHold(L, A \ {b}, R0)
      BY ONLY <1>1, <3>1, JoinedHold
    <3> QED
      BY <2>1, <3>2
  <2>3. /\ B \subseteq Nat /\ a \in B /\ b \notin B /\ b \in Nat
        /\ \A j \in B \ {a} : M[j].data = L[j].data
    BY <1>1, <1>3, <1>9, <2>1
  <2>4. AreHalves(M[a], M[b], Q1, Q2, R0[Leaf(a)], k)
    BY <1>7, <1>9, <2>1
  <2>5. CutsRange(Q, R0, B, a, b, k)
    BY <1>3, <1>6, <2>1 DEF CutsRange
  <2>6. SharedOut(M, B, a, b, k, Q, R0)
    BY ONLY <1>7, <2>2, <2>3, <2>4, <2>5, HalvesHold
  <2>7. B \cup {b} = A
    BY <1>1, <2>1
  <2> QED
    BY <1>7, <2>1, <2>6, <2>7 DEF SharedOut
<1>12. LeavesLinked(leaves', LeafAlive, Q)
  <2>1. PICK A, L, M : A = LeafAlive /\ L = leaves /\ M = leaves'
    OBVIOUS
  <2>2. Key # {}
    BY <1>11
  <2>3. LeavesLinked(L, A, R) /\ Ranged(A, R) /\ None \notin A /\ a \in A /\ b \in A /\ a # b
    BY <1>1, <1>3, <2>1, <2>2, RangedLeaves DEF Routed, InOrder
  <2>4. L[a].next = b
    BY <1>1, <2>1
  <2>5. LinksKept(L, A, M) /\ \A j \in A \ {a, b} : Q[Leaf(j)] = R[Leaf(j)]
    <3>1. \A j \in A \ {a, b} : M[j] = L[j] /\ Q[Leaf(j)] = R[Leaf(j)]
      BY ONLY <1>8, <1>9, <2>1
    <3>2. /\ M[a].next = L[a].next /\ M[a].prev = L[a].prev
          /\ M[b].next = L[b].next /\ M[b].prev = L[b].prev
      BY ONLY <1>sh, <1>9, <2>1
    <3> QED
      BY ONLY <3>1, <3>2 DEF LinksKept
  <2>6. LeavesLinked(M, A, Q)
    BY ONLY <1>11, <2>3, <2>4, <2>5, LinkedShift
  <2> QED
    BY <2>1, <2>6
<1>13. /\ KidsOf(inners', t) = KidsOf(inners, t) /\ inners'[t] = z
       /\ \A i \in T \ {t} : inners'[i] = inners[i]
  <2>1. t \in DOMAIN inners
    BY <1>2, RangeOf
  <2> QED
    BY <1>0, <1>2, <2>1, RangeOf DEF KidsOf
<1>14. Known(Q)' = Q
  BY <1>6 DEF Known, Routing
<1>15. Routes(z, R[Inner(t)], Q)
  <2>1. PICK n, S, K : n = Parent /\ S = R[Inner(t)] /\ K = KidsOf(inners, t)
    OBVIOUS
  <2>2. PICK C : IsInner(n, Key, C)
    BY <1>2, <2>1, RangeOf
  <2>3. Kids(n, K) /\ S \subseteq Key /\ Routes(n, S, R)
    BY <1>2, <2>1, RangeOf
  <2>4. slot \in DOMAIN n.keys /\ k \in Key
    BY <1>11, <2>1, <2>2, NodeParts
  <2>5. n.child[slot] = Leaf(a) /\ n.child[slot + 1] = Leaf(b)
    BY <1>1, <2>1
  <2>6. /\ \A w \in K \ {n.child[slot], n.child[slot + 1]} : Q[w] = R[w]
        /\ Q[n.child[slot]] \cup Q[n.child[slot + 1]] = R[n.child[slot]] \cup R[n.child[slot + 1]]
        /\ Separates(k, Q[n.child[slot]], Q[n.child[slot + 1]])
    <3>1. \A w \in K : w \in NodeId
      BY <1>2, <2>1, RangeOf, KidKnown
    <3> QED
      BY <1>8, <1>11, <2>5, <3>1
  <2>7. Routes(SetKey(n, slot, k), S, Q)
    BY ONLY <2>2, <2>3, <2>4, <2>6, SetKeyRoutes
  <2>8. z.keys = SetKey(n, slot, k).keys /\ z.child = SetKey(n, slot, k).child
    BY <2>1, <2>2 DEF SetKey, IsInner
  <2> QED
    BY <2>1, <2>7, <2>8 DEF Routes
<1>16. KeysShared(T, Q)'
  <2>1. ASSUME NEW i \in T \ {t} PROVE NodeKept(R, Q, i)
    <3>1. \A w \in KidsOf(inners, i) : w \in NodeId /\ w # Leaf(a) /\ w # Leaf(b)
      BY <1>1, <1>2, RangeOf, KidKnown, KidOnce
    <3>2. i \in Nat
      BY RangeOf
    <3> QED
      BY <1>2, <1>8, <1>13, <1>14, <3>1, <3>2 DEF NodeKept
  <2>2. NodeShares(Q, t)'
    BY <1>2, <1>8, <1>13, <1>14, <1>15 DEF NodeShares
  <2>3. Known(Q)'[root'] = Key
    <3>1. root \in NodeId /\ root # Leaf(a) /\ root # Leaf(b)
      BY <1>1, <1>2, KidOnce DEF Good, Scalars
    <3>2. R[root] = Key
      BY <1>2 DEF Routed, InOrder, KeysShared
    <3> QED
      BY <1>8, <1>14, <3>1, <3>2
  <2>4. \A i \in T : (i \in T /\ NodeKept(R, Q, i)) \/ NodeShares(Q, i)'
    BY <2>1, <2>2
  <2> QED
    BY ONLY Good(h), Routed(T, R), ~IsSplit', <2>3, <2>4, SharedAfter
<1>17. LeavesKnown(T)'
  <2>1. LeafAlive \subseteq LeafAlive' /\ takenLeaves' \subseteq DOMAIN leaves'
    BY <1>9, <1>10 DEF Routed, InOrder, LeavesKnown
  <2>2. \A w \in Orphans' : w \in NodesOf(T)
    BY DEF NodesOf, Orphans
  <2>3. \A i \in T : \A w \in KidsOf(inners', i) : w \in NodesOf(T)
    <3>1. \A i \in T : KidsOf(inners', i) = KidsOf(inners, i)
      BY <1>13 DEF KidsOf
    <3> QED
      BY <3>1 DEF NodesOf
  <2> QED
    BY <2>1, <2>2, <2>3, KnownMoved
<1>18. LeavesFilled'
  <2>1. \A j \in LeafAlive \ {a, b} : Leaf(j) = root \/ LeafSize(leaves[j]) >= LEAF_MIN
    BY DEF Routed, InOrder, LeavesFilled
  <2> QED
    BY <1>9, <1>10, <2>1 DEF LeavesFilled
<1>19. DescentRouted(T, Q)'
  BY DEF DescentRouted
<1>20. InOrder(T, Q)'
  BY <1>10, <1>11, <1>12, <1>16, <1>17, <1>18, <1>19 DEF InOrder
<1> QED
  BY <1>6, <1>20 DEF Routed

-----------------------------------------------------------------------------
(* Leaves lend an entry                                                    *)

\* The leaf that lacks an entry is Current, slot r.slot is the one to delete.
LEMMA ShortLeaf ==
  ASSUME NEW h, Good(h), NEW T, NEW R, Routed(T, R), Ascending("remove_ascend", "LeafUnderSize")
  PROVE  /\ Current.kind = "leaf" /\ ~IsSplit /\ stack # <<>> /\ Key # {}
         /\ r.slot \in DOMAIN leaves[Current.id].data
         /\ Current = Parent.child[Top.idx] /\ Top.idx \in 1 .. Len(Parent.keys) + 1
         /\ Len(Parent.keys) \in Nat /\ Parent.child[Top.idx].id = Current.id
<1>1. pc = "remove_ascend" /\ stack # <<>> /\ r.tag = "LeafUnderSize"
  BY DEF Ascending
<1>2. /\ Current.kind = "leaf" /\ r.slot \in DOMAIN leaves[Current.id].data
  BY <1>1, RemoveFields
<1>3. Current = Parent.child[Top.idx] /\ Top.idx \in 1 .. Len(Parent.keys) + 1 /\ Len(Parent.keys) \in Nat
  BY <1>1, TopFacts
<1>4. Current.id \in DOMAIN leaves
  BY <1>2, <1>3, LeafSiblings, <1>1
<1>5. leaves[Current.id].data[r.slot] \in Pair
  BY <1>2, <1>4, LeavesAre
<1>6. Key # {}
  BY <1>5 DEF Pair
<1> QED
  BY <1>1, <1>2, <1>3, <1>6 DEF IsSplit

\* What neighbouring leaves hold.
PairHolds(R, a, b) ==
    /\ HoldsPairs(leaves[a], Range(leaves[a].data)) /\ HoldsPairs(leaves[b], Range(leaves[b].data))
    /\ FirstOf(Range(leaves[a].data)) \subseteq R[Leaf(a)]
    /\ FirstOf(Range(leaves[b].data)) \subseteq R[Leaf(b)]
    /\ Precedes(FirstOf(Range(leaves[a].data)), FirstOf(Range(leaves[b].data)))
    /\ LeafSize(leaves[a]) \in Nat /\ LeafSize(leaves[b]) \in Nat
    /\ LeafSize(leaves[a]) >= LEAF_MIN /\ LeafSize(leaves[b]) >= LEAF_MIN
    /\ LEAF_MIN \in Nat /\ 1 <= LEAF_MIN

\* What two such leaves hold, and that they have their minimum.
LEMMA PairHoldsIs ==
  ASSUME NEW h, Good(h), NEW T, NEW R, Routed(T, R), stack # <<>>, ~IsSplit,
         NEW slot, NEW a, NEW b, LeafPair(R, slot, a, b)
  PROVE  PairHolds(R, a, b)
<1>1. /\ a \in LeafAlive /\ b \in LeafAlive /\ Ahead(R, a, b) /\ Top.id \in T
      /\ Leaf(a) \in KidsOf(inners, Top.id) /\ Leaf(b) \in KidsOf(inners, Top.id)
  BY TopRouted DEF LeafPair
<1>2. \A j \in {a, b} : /\ HoldsPairs(leaves[j], Range(leaves[j].data))
                        /\ FirstOf(Range(leaves[j].data)) \subseteq R[Leaf(j)]
  BY <1>1, LeafHolds, KeysOfRange DEF Routed, InOrder, LeavesHold
<1>3. \A j \in {a, b} : LeafSize(leaves[j]) \in Nat /\ LeafSize(leaves[j]) >= LEAF_MIN
  <2>1. \A j \in {a, b} : Leaf(j) # root
    BY <1>1, KidOnce
  <2> QED
    BY <1>1, <2>1, LeavesAre DEF Routed, InOrder, LeavesFilled
<1>4. Precedes(FirstOf(Range(leaves[a].data)), FirstOf(Range(leaves[b].data)))
  BY <1>1, <1>2 DEF Ahead, Precedes
<1> QED
  BY <1>2, <1>3, <1>4, LeafMinimumIs DEF PairHolds

\* Pairs with smaller keys are other pairs.
LEMMA PairsApart ==
  ASSUME NEW P, P \subseteq Pair, NEW Q, Precedes(FirstOf(P), FirstOf(Q))
  PROVE  P \cap Q = {}
<1> SUFFICES ASSUME NEW p \in P, p \in Q PROVE FALSE
  OBVIOUS
<1>1. p[1] \in FirstOf(P) /\ p[1] \in FirstOf(Q)
  BY DEF FirstOf
<1>2. p[1] \in Int
  BY KeyAssumption DEF Pair
<1> QED
  BY <1>1, <1>2 DEF Precedes

\* Leaves x and y together hold what L and M did, but for the entry e.
MovedOut(x, y, L, M, e) ==
    Range(x.data) \cup Range(y.data) = (Range(L.data) \cup Range(M.data)) \ {e}

\* The last entry of a goes to b, in place of the one deleted there.
LEMMA LastMoves ==
  ASSUME NEW R, NEW a, NEW b, PairHolds(R, a, b), NEW e, e = leaves[a].data[LeafSize(leaves[a])],
         LeafSize(leaves[a]) > LEAF_MIN, NEW s \in 1 .. LeafSize(leaves[b]),
         NEW x, x = PopLeaf(leaves[a]), NEW y, y = DeleteWithPushFront(leaves[b], s, e)
  PROVE  /\ \E Q1, Q2 : AreHalves(x, y, Q1, Q2, R[Leaf(a)] \cup R[Leaf(b)], e[1])
         /\ LeafSize(x) >= LEAF_MIN /\ LeafSize(y) >= LEAF_MIN
         /\ MovedOut(x, y, leaves[a], leaves[b], leaves[b].data[s])
<1>1. PICK L, M, P, Q : L = leaves[a] /\ M = leaves[b] /\ P = Range(L.data) /\ Q = Range(M.data)
  OBVIOUS
<1>2. /\ HoldsPairs(L, P) /\ HoldsPairs(M, Q) /\ FirstOf(P) \subseteq R[Leaf(a)]
      /\ FirstOf(Q) \subseteq R[Leaf(b)] /\ Precedes(FirstOf(P), FirstOf(Q))
      /\ Len(L.data) \in Nat /\ Len(M.data) \in Nat /\ LEAF_MIN \in Nat /\ 1 <= LEAF_MIN
      /\ Len(M.data) >= LEAF_MIN /\ Len(L.data) > LEAF_MIN /\ Len(L.data) > 0
      /\ e = L.data[Len(L.data)] /\ x = PopLeaf(L) /\ y = DeleteWithPushFront(M, s, e)
      /\ s \in 1 .. Len(M.data)
  BY <1>1 DEF PairHolds, LeafSize
<1>3. e \in P /\ e \in Pair /\ \A p \in P : p # e => p[1] < e[1]
  <2>1. Sorted(L.data, P)
    BY <1>2 DEF HoldsPairs
  <2>2. P \subseteq Pair
    BY <2>1 DEF Sorted, Range
  <2> QED
    BY <1>2, <2>1, <2>2, SortedEnds
<1>4. HoldsPairs(x, P \ {e})
  BY <1>2, PopLeafHolds
<1>5. M.data[s] \in Q
  BY <1>2 DEF HoldsPairs, Sorted, Range
<1>6. HoldsPairs(y, (Q \ {M.data[s]}) \cup {e})
  <2>1. e[1] \in FirstOf(P)
    BY <1>3 DEF FirstOf
  <2>2. Precedes({e[1]}, FirstOf(Q))
    BY <1>2, <2>1 DEF Precedes
  <2>3. HoldsPairs(M, Q) /\ s \in 1 .. Len(M.data) /\ e \in Pair
    BY <1>2, <1>3
  <2>4. HoldsPairs(DeleteWithPushFront(M, s, e), (Q \ {M.data[s]}) \cup {e})
    BY ONLY <2>2, <2>3, DeleteWithPushHolds
  <2> QED
    BY <1>2, <2>4
<1>7. Precedes(FirstOf(P \ {e}), FirstOf((Q \ {M.data[s]}) \cup {e}))
  <2>1. ASSUME NEW p \in P \ {e}, NEW q \in (Q \ {M.data[s]}) \cup {e} PROVE p[1] < q[1]
    <3>1. CASE q = e
      BY <1>3, <3>1
    <3>2. CASE q \in Q
      <4>1. p[1] \in FirstOf(P) /\ q[1] \in FirstOf(Q)
        BY <3>2 DEF FirstOf
      <4> QED
        BY <1>2, <4>1 DEF Precedes
    <3> QED
      BY <3>1, <3>2
  <2> QED
    BY <2>1 DEF Precedes, FirstOf
<1>8. FirstOf((P \ {e}) \cup ((Q \ {M.data[s]}) \cup {e})) \subseteq R[Leaf(a)] \cup R[Leaf(b)]
  BY <1>2, <1>3 DEF FirstOf
<1>9. Len(x.data) = Len(L.data) - 1 /\ Len(y.data) = Len(M.data) /\ y.data[1] = e
  <2>1. L.data \in Seq(Pair) /\ M.data \in Seq(Pair) /\ L \in LeafOver(Pair) /\ M \in LeafOver(Pair)
    BY <1>2 DEF HoldsPairs, Sorted
  <2>2. x.data = Front(L.data) /\ y.data = <<e>> \o RemoveAt(M.data, s)
    BY <1>2, <2>1 DEF PopLeaf, DeleteWithPushFront, LeafOver
  <2>3. Len(Front(L.data)) = Len(L.data) - 1
    BY <1>2, <2>1, EndsType
  <2>4. RemoveAt(M.data, s) \in Seq(Pair) /\ Len(RemoveAt(M.data, s)) = Len(M.data) - 1
    BY <1>2, <2>1, RemoveAtType
  <2> QED
    BY <1>2, <1>3, <2>2, <2>3, <2>4
<1>10. LeafSize(x) >= LEAF_MIN /\ LeafSize(y) >= LEAF_MIN /\ Len(x.data) > 0 /\ Len(y.data) > 0
  BY <1>2, <1>9 DEF LeafSize
<1>11. AreHalves(x, y, P \ {e}, (Q \ {M.data[s]}) \cup {e}, R[Leaf(a)] \cup R[Leaf(b)], e[1])
  BY <1>4, <1>6, <1>7, <1>8, <1>9, <1>10 DEF AreHalves
<1>12. Range(x.data) \cup Range(y.data) = (P \cup Q) \ {M.data[s]}
  <2>1. Range(x.data) = P \ {e} /\ Range(y.data) = (Q \ {M.data[s]}) \cup {e}
    BY <1>4, <1>6 DEF HoldsPairs, Sorted
  <2>2. P \cap Q = {}
    <3>1. P \subseteq Pair
      BY <1>2 DEF HoldsPairs, Sorted, Range
    <3> QED
      BY <1>2, <3>1, PairsApart
  <2> QED
    BY <1>3, <1>5, <2>1, <2>2
<1> QED
  BY <1>1, <1>10, <1>11, <1>12 DEF MovedOut

\* The first entry of b goes to a, in place of the one deleted there.
LEMMA FirstMoves ==
  ASSUME NEW R, NEW a, NEW b, PairHolds(R, a, b), NEW e, e = leaves[b].data[1],
         LeafSize(leaves[b]) > LEAF_MIN, NEW s \in 1 .. LeafSize(leaves[a]),
         NEW x, x = DeleteWithPush(leaves[a], s, e), NEW y, y = PopFrontLeaf(leaves[b])
  PROVE  /\ \E Q1, Q2 : AreHalves(x, y, Q1, Q2, R[Leaf(a)] \cup R[Leaf(b)], y.data[1][1])
         /\ LeafSize(x) >= LEAF_MIN /\ LeafSize(y) >= LEAF_MIN
         /\ MovedOut(x, y, leaves[a], leaves[b], leaves[a].data[s])
<1>1. PICK L, M, P, Q : L = leaves[a] /\ M = leaves[b] /\ P = Range(L.data) /\ Q = Range(M.data)
  OBVIOUS
<1>2. /\ HoldsPairs(L, P) /\ HoldsPairs(M, Q) /\ FirstOf(P) \subseteq R[Leaf(a)]
      /\ FirstOf(Q) \subseteq R[Leaf(b)] /\ Precedes(FirstOf(P), FirstOf(Q))
      /\ Len(L.data) \in Nat /\ Len(M.data) \in Nat /\ LEAF_MIN \in Nat /\ 1 <= LEAF_MIN
      /\ Len(L.data) >= LEAF_MIN /\ Len(M.data) > LEAF_MIN /\ Len(M.data) > 0
      /\ e = M.data[1] /\ x = DeleteWithPush(L, s, e) /\ y = PopFrontLeaf(M)
      /\ s \in 1 .. Len(L.data)
  BY <1>1 DEF PairHolds, LeafSize
<1>3. e \in Q /\ e \in Pair /\ \A p \in Q : p # e => e[1] < p[1]
  <2>1. Sorted(M.data, Q)
    BY <1>2 DEF HoldsPairs
  <2>2. Q \subseteq Pair
    BY <2>1 DEF Sorted, Range
  <2> QED
    BY <1>2, <2>1, <2>2, SortedEnds
<1>4. HoldsPairs(y, Q \ {e})
  BY <1>2, PopLeafHolds
<1>5. HoldsPairs(x, (P \ {L.data[s]}) \cup {e})
  <2>1. e[1] \in FirstOf(Q)
    BY <1>3 DEF FirstOf
  <2>2. Precedes(FirstOf(P), {e[1]})
    BY <1>2, <2>1 DEF Precedes
  <2> QED
    BY <1>2, <1>3, <2>2, DeleteWithPushHolds
<1>6. Precedes(FirstOf((P \ {L.data[s]}) \cup {e}), FirstOf(Q \ {e}))
  <2>1. ASSUME NEW p \in (P \ {L.data[s]}) \cup {e}, NEW q \in Q \ {e} PROVE p[1] < q[1]
    <3>1. CASE p = e
      BY <1>3, <3>1
    <3>2. CASE p \in P
      <4>1. p[1] \in FirstOf(P) /\ q[1] \in FirstOf(Q)
        BY <3>2 DEF FirstOf
      <4> QED
        BY <1>2, <4>1 DEF Precedes
    <3> QED
      BY <3>1, <3>2
  <2> QED
    BY <2>1 DEF Precedes, FirstOf
<1>7. FirstOf(((P \ {L.data[s]}) \cup {e}) \cup (Q \ {e})) \subseteq R[Leaf(a)] \cup R[Leaf(b)]
  BY <1>2, <1>3 DEF FirstOf
<1>8. Len(y.data) = Len(M.data) - 1 /\ Len(x.data) = Len(L.data)
  <2>1. L.data \in Seq(Pair) /\ M.data \in Seq(Pair) /\ L \in LeafOver(Pair) /\ M \in LeafOver(Pair)
    BY <1>2 DEF HoldsPairs, Sorted
  <2>2. y.data = Tail(M.data) /\ x.data = Append(RemoveAt(L.data, s), e)
    BY <1>2, <2>1 DEF PopFrontLeaf, DeleteWithPush, LeafOver
  <2>3. Len(Tail(M.data)) = Len(M.data) - 1
    BY <1>2, <2>1
  <2>4. RemoveAt(L.data, s) \in Seq(Pair) /\ Len(RemoveAt(L.data, s)) = Len(L.data) - 1
    BY <1>2, <2>1, RemoveAtType
  <2> QED
    BY <1>2, <1>3, <2>2, <2>3, <2>4
<1>9. LeafSize(x) >= LEAF_MIN /\ LeafSize(y) >= LEAF_MIN /\ Len(x.data) > 0 /\ Len(y.data) > 0
  BY <1>2, <1>8 DEF LeafSize
<1>10. AreHalves(x, y, (P \ {L.data[s]}) \cup {e}, Q \ {e}, R[Leaf(a)] \cup R[Leaf(b)], y.data[1][1])
  BY <1>4, <1>5, <1>6, <1>7, <1>9 DEF AreHalves
<1>11. Range(x.data) \cup Range(y.data) = (P \cup Q) \ {L.data[s]}
  <2>1. Range(x.data) = (P \ {L.data[s]}) \cup {e} /\ Range(y.data) = Q \ {e}
    BY <1>4, <1>5 DEF HoldsPairs, Sorted
  <2>2. P \cap Q = {} /\ L.data[s] \in P
    <3>1. P \subseteq Pair /\ L.data[s] \in P
      BY <1>2 DEF HoldsPairs, Sorted, Range
    <3> QED
      BY <1>2, <3>1, PairsApart
  <2> QED
    BY <1>3, <2>1, <2>2
<1> QED
  BY <1>1, <1>9, <1>10, <1>11 DEF MovedOut

\* The order in which a rotation writes the parent does not matter.
LEMMA RotatedKeys ==
  ASSUME NEW C, NEW n, IsInner(n, Key, C), NEW slot, NEW k, NEW p, NEW q, NEW c, NEW d
  PROVE  /\ SetKey(SetAugmentation(SetAugmentation(n, c, p), d, q), slot, k).keys
                = SetKey(n, slot, k).keys
         /\ SetKey(SetAugmentation(SetAugmentation(n, c, p), d, q), slot, k).child = n.child
         /\ SetAugmentation(SetAugmentation(SetKey(n, slot, k), c, p), d, q).keys
                = SetKey(n, slot, k).keys
         /\ SetAugmentation(SetAugmentation(SetKey(n, slot, k), c, p), d, q).child = n.child
BY DEF SetKey, SetAugmentation, IsInner

\* Only the data of a leaf changes.
LEMMA LinksOfData ==
  ASSUME NEW leaf, NEW P, HoldsPairs(leaf, P), NEW s, NEW e
  PROVE  /\ PopLeaf(leaf).prev = leaf.prev /\ PopLeaf(leaf).next = leaf.next
         /\ PopFrontLeaf(leaf).prev = leaf.prev /\ PopFrontLeaf(leaf).next = leaf.next
         /\ DeleteAt(leaf, s).prev = leaf.prev /\ DeleteAt(leaf, s).next = leaf.next
         /\ DeleteWithPush(leaf, s, e).prev = leaf.prev
         /\ DeleteWithPush(leaf, s, e).next = leaf.next
         /\ DeleteWithPushFront(leaf, s, e).prev = leaf.prev
         /\ DeleteWithPushFront(leaf, s, e).next = leaf.next
BY DEF HoldsPairs, LeafOver, PopLeaf, PopFrontLeaf, DeleteAt, DeleteWithPush,
       DeleteWithPushFront

\* rotate_right_for_leaf: the entry moves to the leaf that now gets its key.
LEMMA RotateRightLeafRouted ==
  ASSUME NEW h, Good(h), NEW T, NEW R, Routed(T, R), RotateRightLeaf
  PROVE  \E Q : Routed(T, Q)'
<1>1. Ascending("remove_ascend", "LeafUnderSize") /\ pc' = "remove_ascend" /\ ~IsSplit'
      /\ UNCHANGED <<root, takenLeaves>> /\ HasPrev /\ LeafAbleToLend(LeafAt(Top.idx - 1))
  BY DEF RotateRightLeaf, Ascending, IsSplit, PrevLeafLends, taken
<1>2. /\ Current.kind = "leaf" /\ ~IsSplit /\ stack # <<>> /\ Key # {}
      /\ r.slot \in DOMAIN leaves[Current.id].data
      /\ Top.idx \in 1 .. Len(Parent.keys) + 1 /\ Len(Parent.keys) \in Nat
      /\ Parent.child[Top.idx].id = Current.id
  BY <1>1, ShortLeaf
<1>3. PICK slot \in 1 .. Len(Parent.keys) : slot = Top.idx - 1 /\ slot + 1 = Top.idx
  BY <1>1, <1>2 DEF HasPrev
<1>4. PICK a, b : a = Parent.child[slot].id /\ b = Parent.child[slot + 1].id
  OBVIOUS
<1>5. LeafPair(R, slot, a, b)
  BY <1>2, <1>4, TwoLeaves
<1>6. b = Current.id /\ LeafAt(slot) = leaves[a] /\ LeafAt(slot + 1) = leaves[b]
  BY <1>2, <1>3, <1>4, <1>5 DEF LeafPair
<1>7. PairHolds(R, a, b)
  BY <1>2, <1>5, PairHoldsIs
<1>8. PICK e, x, y : /\ e = leaves[a].data[LeafSize(leaves[a])] /\ x = PopLeaf(leaves[a])
                     /\ y = DeleteWithPushFront(leaves[b], r.slot, e)
  OBVIOUS
<1>9. r.slot \in 1 .. LeafSize(leaves[b])
  BY <1>2, <1>6, <1>7 DEF PairHolds, HoldsPairs, Sorted, LeafSize
<1>10. LeafSize(leaves[a]) > LEAF_MIN
  BY <1>1, <1>3, <1>6 DEF LeafAbleToLend
<1>11. /\ \E Q1, Q2 : AreHalves(x, y, Q1, Q2, R[Leaf(a)] \cup R[Leaf(b)], e[1])
       /\ LeafSize(x) >= LEAF_MIN /\ LeafSize(y) >= LEAF_MIN
  BY <1>7, <1>8, <1>9, <1>10, LastMoves
<1>12. PICK k, z : k = e[1] /\ z = SetKey(SetAugmentation(
                           SetAugmentation(Parent, slot, FromLeaf(LeafKeys(x))),
                           slot + 1, FromLeaf(LeafKeys(y))), slot, k)
  OBVIOUS
<1>13. leaves' = [leaves EXCEPT ![a] = x, ![b] = y] /\ inners' = [inners EXCEPT ![Top.id] = z]
  BY <1>3, <1>4, <1>6, <1>8, <1>12 DEF RotateRightLeaf
<1>14. z.keys = SetKey(Parent, slot, k).keys /\ z.child = Parent.child
  <2>1. PICK n : n = Parent
    OBVIOUS
  <2>2. PICK C : IsInner(n, Key, C)
    BY <1>2, <2>1, TopRouted, RangeOf
  <2> QED
    BY <1>12, <2>1, <2>2, RotatedKeys
<1>15. /\ x.prev = leaves[a].prev /\ x.next = leaves[a].next
       /\ y.prev = leaves[b].prev /\ y.next = leaves[b].next
  BY <1>7, <1>8, LinksOfData DEF PairHolds
<1>16. InnersFilled(T)'
  BY RotateLeavesFilled DEF Routed
<1>17. PICK Q1, Q2 : AreHalves(x, y, Q1, Q2, R[Leaf(a)] \cup R[Leaf(b)], k)
  BY <1>11, <1>12
<1>18. Shifts(R, slot, a, b, x, y, k, Q1, Q2, z)
  BY <1>5, <1>11, <1>13, <1>14, <1>15, <1>17 DEF Shifts
<1> QED
  BY ONLY Good(h), Routed(T, R), <1>1, <1>2, <1>3, <1>16, <1>18, LeavesShifted

\* rotate_left_for_leaf
LEMMA RotateLeftLeafRouted ==
  ASSUME NEW h, Good(h), NEW T, NEW R, Routed(T, R), RotateLeftLeaf
  PROVE  \E Q : Routed(T, Q)'
<1>1. Ascending("remove_ascend", "LeafUnderSize") /\ pc' = "remove_ascend" /\ ~IsSplit'
      /\ UNCHANGED <<root, takenLeaves>> /\ HasNext /\ LeafAbleToLend(LeafAt(Top.idx + 1))
  BY DEF RotateLeftLeaf, Ascending, IsSplit, NextLeafLends, taken
<1>2. /\ Current.kind = "leaf" /\ ~IsSplit /\ stack # <<>> /\ Key # {}
      /\ r.slot \in DOMAIN leaves[Current.id].data
      /\ Top.idx \in 1 .. Len(Parent.keys) + 1 /\ Len(Parent.keys) \in Nat
      /\ Parent.child[Top.idx].id = Current.id
  BY <1>1, ShortLeaf
<1>3. PICK slot \in 1 .. Len(Parent.keys) : slot = Top.idx
  BY <1>1, <1>2 DEF HasNext, InnerSize
<1>4. PICK a, b : a = Parent.child[slot].id /\ b = Parent.child[slot + 1].id
  OBVIOUS
<1>5. LeafPair(R, slot, a, b)
  BY <1>2, <1>4, TwoLeaves
<1>6. a = Current.id /\ LeafAt(slot) = leaves[a] /\ LeafAt(slot + 1) = leaves[b]
  BY <1>2, <1>3, <1>4, <1>5 DEF LeafPair
<1>7. PairHolds(R, a, b)
  BY <1>2, <1>5, PairHoldsIs
<1>8. PICK e, x, y : /\ e = leaves[b].data[1] /\ y = PopFrontLeaf(leaves[b])
                     /\ x = DeleteWithPush(leaves[a], r.slot, e)
  OBVIOUS
<1>9. r.slot \in 1 .. LeafSize(leaves[a])
  BY <1>2, <1>6, <1>7 DEF PairHolds, HoldsPairs, Sorted, LeafSize
<1>10. LeafSize(leaves[b]) > LEAF_MIN
  BY <1>1, <1>3, <1>6 DEF LeafAbleToLend
<1>11. /\ \E Q1, Q2 : AreHalves(x, y, Q1, Q2, R[Leaf(a)] \cup R[Leaf(b)], y.data[1][1])
       /\ LeafSize(x) >= LEAF_MIN /\ LeafSize(y) >= LEAF_MIN
  BY <1>7, <1>8, <1>9, <1>10, FirstMoves
<1>12. PICK k, z : k = y.data[1][1] /\ z = SetKey(SetAugmentation(
                           SetAugmentation(Parent, slot, FromLeaf(LeafKeys(x))),
                           slot + 1, FromLeaf(LeafKeys(y))), slot, k)
  OBVIOUS
<1>13. leaves' = [leaves EXCEPT ![a] = x, ![b] = y] /\ inners' = [inners EXCEPT ![Top.id] = z]
  BY <1>3, <1>4, <1>6, <1>8, <1>12 DEF RotateLeftLeaf
<1>14. z.keys = SetKey(Parent, slot, k).keys /\ z.child = Parent.child
  <2>1. PICK n : n = Parent
    OBVIOUS
  <2>2. PICK C : IsInner(n, Key, C)
    BY <1>2, <2>1, TopRouted, RangeOf
  <2> QED
    BY <1>12, <2>1, <2>2, RotatedKeys
<1>15. /\ x.prev = leaves[a].prev /\ x.next = leaves[a].next
       /\ y.prev = leaves[b].prev /\ y.next = leaves[b].next
  BY <1>7, <1>8, LinksOfData DEF PairHolds
<1>16. InnersFilled(T)'
  BY RotateLeavesFilled DEF Routed
<1>17. PICK Q1, Q2 : AreHalves(x, y, Q1, Q2, R[Leaf(a)] \cup R[Leaf(b)], k)
  BY <1>11, <1>12
<1>18. Shifts(R, slot, a, b, x, y, k, Q1, Q2, z)
  BY <1>5, <1>11, <1>13, <1>14, <1>15, <1>17 DEF Shifts
<1> QED
  BY ONLY Good(h), Routed(T, R), <1>1, <1>2, <1>3, <1>16, <1>18, LeavesShifted

-----------------------------------------------------------------------------
(* Leaves are merged                                                       *)

\* The leaves L2 are L with a rewritten as x and b emptied; next leads back to a.
LeafJoined(L, L2, a, b, x, next) ==
    /\ DOMAIN L2 = DOMAIN L /\ L2[a] = x
    /\ \A j \in DOMAIN L \ {a, b} :
           /\ L2[j].data = L[j].data /\ L2[j].next = L[j].next
           /\ L2[j].prev = IF j = next THEN a ELSE L[j].prev

\* The store after merge_right and the correction of the next leaf.
LEMMA MergeLinks ==
  ASSUME NEW L \in Seq(LeafRec), NEW a \in DOMAIN L, NEW b \in DOMAIN L, a # b, NEW x,
         NEW next, next \in DOMAIN L \ {a, b} \/ next = None
  PROVE  LeafJoined(L, FixPrev([L EXCEPT ![a] = x, ![b] = EmptyLeaf], next, a), a, b, x, next)
<1> DEFINE L1 == [L EXCEPT ![a] = x, ![b] = EmptyLeaf]
           L2 == FixPrev(L1, next, a)
<1>1. DOMAIN L \subseteq Nat /\ \A j \in DOMAIN L : L[j] \in LeafRec
  OBVIOUS
<1>2. /\ DOMAIN L1 = DOMAIN L /\ L1[a] = x
      /\ \A j \in DOMAIN L \ {a, b} : L1[j] = L[j]
  OBVIOUS
<1> HIDE DEF L1
<1> SUFFICES LeafJoined(L, L2, a, b, x, next)
  BY DEF L1
<1>3. CASE next = None
  <2>1. L2 = L1
    BY <1>3 DEF FixPrev
  <2>2. \A j \in DOMAIN L : j # next
    BY <1>1, <1>3, NoneAssumption
  <2> HIDE DEF L2
  <2> QED
    BY <1>2, <2>1, <2>2 DEF LeafJoined
<1>4. CASE next \in DOMAIN L \ {a, b}
  <2>1. next # None
    BY <1>1, <1>4, NoneAssumption
  <2>2. L2 = [L1 EXCEPT ![next].prev = a]
    BY <2>1 DEF FixPrev
  <2>3. DOMAIN L2 = DOMAIN L1 /\ \A j \in DOMAIN L1 : j # next => L2[j] = L1[j]
    BY <2>2
  <2>4. next \in DOMAIN L1 /\ L1[next] = L[next] /\ L[next] \in LeafRec
    BY <1>1, <1>2, <1>4
  <2>5. L2[next] = [L[next] EXCEPT !.prev = a]
    BY <2>2, <2>4
  <2>6. /\ L2[next].data = L[next].data /\ L2[next].next = L[next].next
        /\ L2[next].prev = a
    BY <2>4, <2>5 DEF LeafRec
  <2> HIDE DEF L2
  <2>7. DOMAIN L2 = DOMAIN L /\ L2[a] = x
    BY <1>2, <1>4, <2>3
  <2>8. ASSUME NEW j \in DOMAIN L \ {a, b}
        PROVE  /\ L2[j].data = L[j].data /\ L2[j].next = L[j].next
               /\ L2[j].prev = IF j = next THEN a ELSE L[j].prev
    <3>1. CASE j = next
      BY <2>6, <3>1
    <3>2. CASE j # next
      BY <1>2, <2>3, <3>2
    <3> QED
      BY <3>1, <3>2
  <2> QED
    BY <2>7, <2>8 DEF LeafJoined
<1> QED
  BY <1>3, <1>4

\* Leaves a and b, the children at slot and slot + 1, become the one leaf x with the
\* entries P, and z is the parent without b.
Merges(R, slot, a, b, x, P, e, z) ==
    /\ LeafPair(R, slot, a, b)
    /\ HoldsPairs(x, P) /\ FirstOf(P) \subseteq R[Leaf(a)] \cup R[Leaf(b)]
    /\ x.prev = leaves[a].prev /\ x.next = leaves[b].next
    /\ LeafSize(x) >= LEAF_MIN
    /\ leaves' = FixPrev([leaves EXCEPT ![a] = x, ![b] = EmptyLeaf], x.next, a)
    /\ takenLeaves' = takenLeaves \cup {b}
    /\ z = MergedParent(slot, e)
    /\ inners' = [inners EXCEPT ![Top.id] = z]

\* What remains of the parent of two merged children.
LEMMA MergedParentRoutes ==
  ASSUME NEW h, Good(h), NEW T, NEW R, Routed(T, R), stack # <<>>, ~IsSplit,
         NEW slot \in 1 .. Len(Parent.keys), NEW e, NEW z, z = MergedParent(slot, e),
         NEW x, x = Parent.child[slot], NEW y, y = Parent.child[slot + 1],
         NEW Q, Q[x] = R[x] \cup R[y],
         \A w \in KidsOf(inners, Top.id) \ {x, y} : Q[w] = R[w]
  PROVE  Routes(z, R[Inner(Top.id)], Q)
<1>1. PICK n, S, K : n = Parent /\ S = R[Inner(Top.id)] /\ K = KidsOf(inners, Top.id)
  OBVIOUS
<1>2. Kids(n, K) /\ S \subseteq Key /\ Routes(n, S, R)
  BY <1>1, TopRouted, RangeOf
<1>3. PICK C : IsInner(n, Key, C)
  BY <1>1, TopRouted, RangeOf
<1>4. slot \in DOMAIN n.keys
  BY <1>1, <1>3, NodeParts
<1>5. /\ \A w \in K \ {n.child[slot], n.child[slot + 1]} : Q[w] = R[w]
      /\ Q[n.child[slot]] = R[n.child[slot]] \cup R[n.child[slot + 1]]
  BY <1>1
<1>6. Routes(RemoveSlotWithRight(n, slot), S, Q)
  BY ONLY <1>2, <1>3, <1>4, <1>5, RemoveSlotRoutes
<1>7. /\ z.keys = RemoveSlotWithRight(n, slot).keys
      /\ z.child = RemoveSlotWithRight(n, slot).child
  BY <1>1, <1>3 DEF MergedParent, RemoveSlotWithRight, SetAugmentation, IsInner
<1> QED
  BY <1>1, <1>6, <1>7 DEF Routes

(***************************************************************************)
(* Leaf a gets the keys of b as well, and b leaves the tree.               *)
(***************************************************************************)
LEMMA LeavesMerged ==
  ASSUME NEW h, Good(h), NEW T, NEW R, Routed(T, R), ~IsSplit, ~IsSplit',
         UNCHANGED root, pc' = "remove_ascend", stack # <<>>, InnersFilled(T)',
         NEW slot \in 1 .. Len(Parent.keys), NEW a, NEW b, NEW x, NEW P, NEW e, NEW z,
         Merges(R, slot, a, b, x, P, e, z)
  PROVE  \E Q : Routed(T, Q)'
<1>1. PICK t, A, L, M : t = Top.id /\ A = LeafAlive /\ L = leaves /\ M = leaves'
  OBVIOUS
<1>2. /\ a \in A /\ b \in A /\ a # b /\ Ahead(R, a, b)
      /\ Parent.child[slot] = Leaf(a) /\ Parent.child[slot + 1] = Leaf(b)
      /\ leaves[a].next = b
      /\ Leaf(a) \in KidsOf(inners, t) /\ Leaf(b) \in KidsOf(inners, t)
      /\ Separates(Parent.keys[slot], R[Leaf(a)], R[Leaf(b)])
  BY <1>1 DEF Merges, LeafPair
<1>3. /\ t \in T /\ t \in Nat /\ Parent = inners[t] /\ Known(R) = R /\ R \in Routing
      /\ IsInterval(R[Inner(t)])
  BY <1>1, TopRouted, KnownIs DEF Routed
<1>4. /\ A \subseteq Nat /\ A \subseteq DOMAIN L /\ None \notin A /\ L \in Seq(LeafRec)
      /\ Key # {} /\ Ranged(A, R) /\ LeavesLinked(L, A, R) /\ LeavesHold(L, A, R)
  <2>1. A \subseteq Nat /\ A \subseteq DOMAIN L /\ None \notin A /\ L \in Seq(LeafRec)
    BY <1>1, LeavesAre
  <2>2. Parent.keys[slot] \in R[Leaf(b)] /\ Leaf(b) \in NodeId
    BY <1>2, <2>1, IdsAreNodes DEF Separates
  <2>3. Key # {}
    BY <1>3, <2>2 DEF Routing
  <2> QED
    BY <1>1, <2>1, <2>3, RangedLeaves DEF Routed, InOrder
<1>5. PICK Q \in Routing : /\ Joins(Q, R, A, a, b)
                           /\ \A w \in NodeId : w # Leaf(a) => Q[w] = R[w]
  <2>1. a \in Nat /\ b \in Nat
    BY <1>2, <1>4
  <2>2. PICK Q \in Routing : /\ Q[Leaf(a)] = R[Leaf(a)] \cup R[Leaf(b)]
                             /\ \A w \in NodeId : w # Leaf(a) => Q[w] = R[w]
    <3>1. R \in Routing
      BY <1>3
    <3> QED
      BY ONLY <2>1, <3>1, JoinExists
  <2>3. Joins(Q, R, A, a, b)
    <3>1. A \subseteq Nat
      BY <1>4
    <3> QED
      BY ONLY <2>1, <2>2, <3>1, JoinsIs
  <2> QED
    BY <2>2, <2>3
<1>6. x.next \in A \ {a, b} \/ x.next = None
  <2>1. x.next = L[b].next
    BY <1>1 DEF Merges
  <2>2. L[b].next # None => L[b].next \in A \ {b} /\ Ahead(R, b, L[b].next)
    BY <1>1, <1>2, <1>4, NextIsOther DEF LeavesLinked
  <2>3. ~Ahead(R, b, a)
    BY <1>2, <1>4, AheadOrder
  <2> QED
    BY <2>1, <2>2, <2>3
<1>7. LeafJoined(L, M, a, b, x, x.next)
  <2>1. M = FixPrev([L EXCEPT ![a] = x, ![b] = EmptyLeaf], x.next, a)
    BY <1>1 DEF Merges
  <2>2. a \in DOMAIN L /\ b \in DOMAIN L /\ (x.next \in DOMAIN L \ {a, b} \/ x.next = None)
    BY <1>2, <1>4, <1>6
  <2> QED
    BY ONLY <1>2, <1>4, <2>1, <2>2, MergeLinks
<1>8. /\ DOMAIN M = DOMAIN L /\ M[a] = x
      /\ \A j \in A \ {a, b} : M[j].data = L[j].data
      /\ LinksOut(L, A, a, b, M)
  <2>1. x.prev = L[a].prev /\ x.next = L[b].next
    BY <1>1 DEF Merges
  <2>2. /\ DOMAIN M = DOMAIN L /\ M[a] = x
        /\ \A j \in A \ {a, b} :
               /\ M[j].data = L[j].data /\ M[j].next = L[j].next
               /\ M[j].prev = IF j = x.next THEN a ELSE L[j].prev
    BY <1>4, <1>7 DEF LeafJoined
  <2>3. LinksOut(L, A, a, b, M)
    BY <2>1, <2>2 DEF LinksOut
  <2> QED
    BY <2>2, <2>3
<1>9. LeafAlive' = A \ {b} /\ takenLeaves' = takenLeaves \cup {b}
  BY <1>1, <1>8 DEF LeafAlive, Merges
<1>10. LeavesLinked(M, A \ {b}, Q)
  <2>1. /\ \A j \in A \ {a, b} : Q[Leaf(j)] = R[Leaf(j)]
        /\ Q[Leaf(a)] = R[Leaf(a)] \cup R[Leaf(b)]
    BY <1>5 DEF Joins
  <2>2. a \in A /\ b \in A /\ a # b /\ L[a].next = b
    BY <1>1, <1>2
  <2>3. LeavesLinked(L, A, R) /\ Ranged(A, R) /\ None \notin A /\ LinksOut(L, A, a, b, M)
    BY <1>4, <1>8
  <2> QED
    BY ONLY <2>1, <2>2, <2>3, LinkedMerge
<1>11. LeavesHold(M, A \ {b}, Q)
  <2>1. LeavesHold(L, A \ {b}, Q)
    BY ONLY <1>2, <1>4, <1>5, JoinedHold
  <2>2. Ascends(x.data) /\ KeysOf(x) \subseteq Q[Leaf(a)]
    <3>1. Sorted(x.data, P) /\ FirstOf(P) \subseteq R[Leaf(a)] \cup R[Leaf(b)]
      BY DEF Merges, HoldsPairs
    <3> QED
      BY <1>5, <3>1, KeysOfRange DEF Sorted, Joins
  <2>3. \A j \in A \ {a, b} : KeysOf(M[j]) = KeysOf(L[j])
    BY <1>8 DEF KeysOf
  <2> QED
    BY <1>2, <1>8, <2>1, <2>2, <2>3 DEF LeavesHold
<1>12. Known(Q)' = Q
  BY <1>5 DEF Known, Routing
<1>13. /\ inners'[t] = z /\ Routes(z, R[Inner(t)], Q)
       /\ KidsOf(inners', t) = KidsOf(inners, t) \ {Leaf(b)}
       /\ \A i \in T \ {t} : inners'[i] = inners[i]
  <2>1. inners' = [inners EXCEPT ![t] = z] /\ z = MergedParent(slot, e) /\ t \in DOMAIN inners
    BY <1>1, <1>3, RangeOf DEF Merges
  <2>2. inners'[t] = z /\ \A i \in T \ {t} : inners'[i] = inners[i]
    BY <1>3, <2>1, RangeOf
  <2>3. Kids(z, KidsOf(inners, t) \ {Leaf(b)})
    BY <1>1, <1>2, <2>1, MergedParentFilled DEF Routed
  <2>4. KidsOf(inners', t) = KidsOf(inners, t) \ {Leaf(b)}
    BY <2>2, <2>3 DEF Kids, Once, KidsOf
  <2>5. /\ Q[Leaf(a)] = R[Leaf(a)] \cup R[Leaf(b)]
        /\ \A w \in KidsOf(inners, t) \ {Leaf(a), Leaf(b)} : Q[w] = R[w]
    <3>1. \A w \in KidsOf(inners, t) : w \in NodeId
      BY <1>3, RangeOf, KidKnown
    <3> QED
      BY <1>5, <3>1 DEF Joins
  <2>6. Routes(z, R[Inner(t)], Q)
    BY <1>1, <1>2, <2>1, <2>5, MergedParentRoutes
  <2> QED
    BY <2>2, <2>4, <2>6
<1>14. \A i \in Nat : Inner(i) \in NodeId /\ Inner(i) # Leaf(a) /\ Q[Inner(i)] = R[Inner(i)]
  BY <1>5, IdsAreNodes DEF Inner, Leaf
<1>15. KeysShared(T, Q)'
  <2>1. ASSUME NEW i \in T \ {t} PROVE NodeKept(R, Q, i)
    <3>1. \A w \in KidsOf(inners, i) : w \in NodeId /\ w # Leaf(a)
      BY <1>2, <1>3, RangeOf, KidKnown, KidOnce
    <3>2. i \in Nat
      BY RangeOf
    <3> QED
      BY <1>3, <1>5, <1>12, <1>13, <1>14, <3>1, <3>2 DEF NodeKept
  <2>2. NodeShares(Q, t)'
    BY <1>3, <1>12, <1>13, <1>14 DEF NodeShares
  <2>3. Known(Q)'[root'] = Key
    <3>1. root \in NodeId /\ root # Leaf(a)
      BY <1>2, <1>3, KidOnce DEF Good, Scalars
    <3>2. R[root] = Key
      BY <1>3 DEF Routed, InOrder, KeysShared
    <3> QED
      BY <1>5, <1>12, <3>1, <3>2
  <2>4. \A i \in T : (i \in T /\ NodeKept(R, Q, i)) \/ NodeShares(Q, i)'
    BY <2>1, <2>2
  <2> QED
    BY ONLY Good(h), Routed(T, R), ~IsSplit', <2>3, <2>4, SharedAfter
<1>16. LeavesKnown(T)'
  <2>1. takenLeaves' \subseteq DOMAIN leaves'
    BY <1>1, <1>2, <1>4, <1>8, <1>9 DEF Routed, InOrder, LeavesKnown
  <2>2. \A w \in NodesOf(T) : w.kind = "leaf" => w.id \in LeafAlive
    BY NodesOfTree DEF InTree
  <2>3. Orphans' = {root} /\ root \in NodesOf(T) /\ root # Leaf(b) /\ root \in NodeId
    BY <1>2, <1>3, KidOnce DEF Orphans, NodesOf, Good, Scalars
  <2>4. ASSUME NEW i \in T, NEW w \in KidsOf(inners', i)
        PROVE  w \in NodeId /\ w \in NodesOf(T) /\ w # Leaf(b)
    <3>1. w \in KidsOf(inners, i) /\ w # Leaf(b)
      <4>1. CASE i = t
        BY <1>13, <4>1
      <4>2. CASE i # t
        BY <1>2, <1>3, <1>13, <4>2, KidOnce DEF KidsOf
      <4> QED
        BY <4>1, <4>2
    <3> QED
      BY <3>1, RangeOf, KidKnown DEF NodesOf
  <2>5. \A w \in NodeId : w.kind = "leaf" /\ w # Leaf(b) => w.id # b
    BY DEF NodeId, Leaf
  <2>6. \A w \in NodesOf(T) : w \in NodeId /\ w.kind = "leaf" /\ w # Leaf(b) => w.id \in LeafAlive'
    BY <1>1, <1>9, <2>2, <2>5
  <2>7. \A w \in Orphans' : w \in NodeId /\ (w.kind = "leaf" => w.id \in LeafAlive')
    BY <2>3, <2>6
  <2>8. \A i \in T : \A w \in KidsOf(inners', i) :
            w \in NodeId /\ (w.kind = "leaf" => w.id \in LeafAlive')
    BY <2>4, <2>6
  <2> QED
    BY <2>1, <2>7, <2>8, KnownAfter
<1>17. LeavesFilled'
  <2>1. \A j \in A \ {a, b} : Leaf(j) = root \/ LeafSize(M[j]) >= LEAF_MIN
    BY <1>1, <1>8 DEF Routed, InOrder, LeavesFilled, LeafSize
  <2>2. LeafSize(M[a]) >= LEAF_MIN
    BY <1>8 DEF Merges
  <2> QED
    BY <1>1, <1>9, <2>1, <2>2 DEF LeavesFilled
<1>18. DescentRouted(T, Q)'
  BY DEF DescentRouted
<1>19. InOrder(T, Q)'
  BY <1>1, <1>9, <1>10, <1>11, <1>15, <1>16, <1>17, <1>18 DEF InOrder
<1> QED
  BY <1>5, <1>19 DEF Routed

\* Two that have the minimum still have it without one.
LEMMA BothHaveEnough ==
  ASSUME NEW p \in Nat, NEW q \in Nat, NEW m \in Nat, 1 <= m, p >= m, q >= m
  PROVE  p + q - 1 >= m /\ p - 1 + q >= m
OBVIOUS

\* Both leaves together but for one entry of b, or but for one of a.
LEMMA JoinedLeaf ==
  ASSUME NEW R, NEW a, NEW b, PairHolds(R, a, b)
  PROVE  /\ \A s \in 1 .. LeafSize(leaves[b]) :
                LET x == MergeRightDeleteFirst(leaves[a], s, leaves[b])
                IN  /\ \E P : HoldsPairs(x, P) /\ FirstOf(P) \subseteq R[Leaf(a)] \cup R[Leaf(b)]
                    /\ x.prev = leaves[a].prev /\ x.next = leaves[b].next
                    /\ LeafSize(x) >= LEAF_MIN
                    /\ Range(x.data) = (Range(leaves[a].data) \cup Range(leaves[b].data))
                                          \ {leaves[b].data[s]}
         /\ \A s \in 1 .. LeafSize(leaves[a]) :
                LET x == MergeRight(DeleteAt(leaves[a], s), leaves[b])
                IN  /\ \E P : HoldsPairs(x, P) /\ FirstOf(P) \subseteq R[Leaf(a)] \cup R[Leaf(b)]
                    /\ x.prev = leaves[a].prev /\ x.next = leaves[b].next
                    /\ LeafSize(x) >= LEAF_MIN
                    /\ Range(x.data) = (Range(leaves[a].data) \cup Range(leaves[b].data))
                                          \ {leaves[a].data[s]}
<1>1. PICK L, M, P, Q : L = leaves[a] /\ M = leaves[b] /\ P = Range(L.data) /\ Q = Range(M.data)
  OBVIOUS
<1>2. /\ HoldsPairs(L, P) /\ HoldsPairs(M, Q) /\ FirstOf(P) \subseteq R[Leaf(a)]
      /\ FirstOf(Q) \subseteq R[Leaf(b)] /\ Precedes(FirstOf(P), FirstOf(Q))
      /\ Len(L.data) \in Nat /\ Len(M.data) \in Nat /\ LEAF_MIN \in Nat /\ 1 <= LEAF_MIN
      /\ Len(L.data) >= LEAF_MIN /\ Len(M.data) >= LEAF_MIN
      /\ L \in LeafOver(Pair) /\ M \in LeafOver(Pair)
  BY <1>1 DEF PairHolds, LeafSize, HoldsPairs
<1>3. P \cap Q = {}
  <2>1. P \subseteq Pair
    BY <1>2 DEF HoldsPairs, Sorted, Range
  <2> QED
    BY <1>2, <2>1, PairsApart
<1>4. ASSUME NEW s \in 1 .. Len(M.data), NEW x, x = MergeRightDeleteFirst(L, s, M)
      PROVE  /\ \E U : HoldsPairs(x, U) /\ FirstOf(U) \subseteq R[Leaf(a)] \cup R[Leaf(b)]
             /\ x.prev = L.prev /\ x.next = M.next
             /\ LeafSize(x) >= LEAF_MIN
             /\ Range(x.data) = (P \cup Q) \ {M.data[s]}
  <2>1. HoldsPairs(x, P \cup (Q \ {M.data[s]}))
    BY <1>2, <1>4, MergeRightHolds
  <2>2. FirstOf(P \cup (Q \ {M.data[s]})) \subseteq R[Leaf(a)] \cup R[Leaf(b)]
    BY <1>2 DEF FirstOf
  <2>3. x.prev = L.prev /\ x.next = M.next
    BY <1>2, <1>4 DEF MergeRightDeleteFirst, LeafOver
  <2>4. Len(x.data) = Len(L.data) + Len(M.data) - 1
    BY <1>2, <1>4, MergeRightDeleteFirstType
  <2>5. Len(x.data) >= LEAF_MIN
    <3>1. /\ Len(L.data) \in Nat /\ Len(M.data) \in Nat /\ LEAF_MIN \in Nat /\ 1 <= LEAF_MIN
          /\ Len(L.data) >= LEAF_MIN /\ Len(M.data) >= LEAF_MIN
      BY <1>2
    <3>2. Len(L.data) + Len(M.data) - 1 >= LEAF_MIN
      BY ONLY <3>1, BothHaveEnough
    <3> QED
      BY ONLY <2>4, <3>2
  <2>6. Range(x.data) = (P \cup Q) \ {M.data[s]}
    <3>1. Range(x.data) = P \cup (Q \ {M.data[s]}) /\ M.data[s] \in Q
      BY <1>2, <2>1 DEF HoldsPairs, Sorted, Range
    <3> QED
      BY <1>3, <3>1
  <2> QED
    BY <2>1, <2>2, <2>3, <2>5, <2>6 DEF LeafSize
<1>5. ASSUME NEW s \in 1 .. Len(L.data), NEW x, x = MergeRight(DeleteAt(L, s), M)
      PROVE  /\ \E U : HoldsPairs(x, U) /\ FirstOf(U) \subseteq R[Leaf(a)] \cup R[Leaf(b)]
             /\ x.prev = L.prev /\ x.next = M.next
             /\ LeafSize(x) >= LEAF_MIN
             /\ Range(x.data) = (P \cup Q) \ {L.data[s]}
  <2>1. PICK K, V : K = DeleteAt(L, s) /\ V = P \ {L.data[s]}
    OBVIOUS
  <2>2. HoldsPairs(K, V) /\ K \in LeafOver(Pair)
    <3>1. HoldsPairs(DeleteAt(L, s), P \ {L.data[s]})
      BY <1>2, <1>5, DeleteAtHolds
    <3> QED
      BY <2>1, <3>1 DEF HoldsPairs
  <2>3. Precedes(FirstOf(V), FirstOf(Q))
    BY <1>2, <2>1 DEF Precedes, FirstOf
  <2>4. HoldsPairs(x, V \cup Q)
    BY <1>2, <1>5, <2>1, <2>2, <2>3, MergeRightHolds
  <2>5. FirstOf(V \cup Q) \subseteq R[Leaf(a)] \cup R[Leaf(b)]
    BY <1>2, <2>1 DEF FirstOf
  <2>6. K.prev = L.prev
    BY <1>2, <2>1, LinksOfData
  <2>7. x.prev = K.prev /\ x.next = M.next
    BY <1>2, <1>5, <2>1, <2>2 DEF MergeRight, LeafOver
  <2>8. Len(K.data) = Len(L.data) - 1
    <3>1. L.data \in Seq(Pair) /\ K.data = RemoveAt(L.data, s)
      BY <1>2, <2>1 DEF DeleteAt, LeafOver
    <3> QED
      BY <1>5, <3>1, RemoveAtType
  <2>9. Len(x.data) = Len(K.data) + Len(M.data)
    BY <1>2, <1>5, <2>1, <2>2, MergeRightType
  <2>10. Len(x.data) >= LEAF_MIN
    <3>1. /\ Len(L.data) \in Nat /\ Len(M.data) \in Nat /\ LEAF_MIN \in Nat /\ 1 <= LEAF_MIN
          /\ Len(L.data) >= LEAF_MIN /\ Len(M.data) >= LEAF_MIN
      BY <1>2
    <3>2. Len(L.data) - 1 + Len(M.data) >= LEAF_MIN
      BY ONLY <3>1, BothHaveEnough
    <3> QED
      BY ONLY <2>8, <2>9, <3>2
  <2>11. Range(x.data) = (P \cup Q) \ {L.data[s]}
    <3>1. Range(x.data) = V \cup Q /\ L.data[s] \in P
      BY <1>2, <2>4 DEF HoldsPairs, Sorted, Range
    <3> QED
      BY <1>3, <2>1, <3>1
  <2> QED
    BY <2>4, <2>5, <2>6, <2>7, <2>10, <2>11 DEF LeafSize
<1> QED
  BY <1>1, <1>4, <1>5 DEF LeafSize

\* merge_leaf_node_left and merge_leaf_node_with_right.
LEMMA MergeLeafRouted ==
  ASSUME NEW h, Good(h), NEW T, NEW R, Routed(T, R), MergeLeafLeft \/ MergeLeafRight
  PROVE  \E Q : Routed(T, Q)'
<1>1. /\ Ascending("remove_ascend", "LeafUnderSize") /\ pc' = "remove_ascend" /\ ~IsSplit'
      /\ UNCHANGED root
  BY DEF MergeLeafLeft, MergeLeafRight, Ascending, IsSplit
<1>2. /\ Current.kind = "leaf" /\ ~IsSplit /\ stack # <<>> /\ Key # {}
      /\ r.slot \in DOMAIN leaves[Current.id].data
      /\ Top.idx \in 1 .. Len(Parent.keys) + 1 /\ Len(Parent.keys) \in Nat
      /\ Parent.child[Top.idx].id = Current.id
  BY <1>1, ShortLeaf
<1>3. PICK slot, x, kv :
          /\ MergeLeaves(slot, x, kv)
          /\ \/ /\ HasPrev /\ slot = Top.idx - 1
                /\ x = MergeRightDeleteFirst(LeafAt(slot), r.slot, LeafAt(slot + 1))
             \/ /\ HasNext /\ slot = Top.idx
                /\ x = MergeRight(DeleteAt(LeafAt(slot), r.slot), LeafAt(slot + 1))
  BY DEF MergeLeafLeft, MergeLeafRight
<1>4. slot \in 1 .. Len(Parent.keys) /\ (slot = Top.idx - 1 => slot + 1 = Top.idx)
  BY <1>2, <1>3 DEF HasPrev, HasNext, InnerSize
<1>5. PICK a, b : a = Parent.child[slot].id /\ b = Parent.child[slot + 1].id
  OBVIOUS
<1>6. LeafPair(R, slot, a, b)
  BY <1>2, <1>4, <1>5, TwoLeaves
<1>7. PairHolds(R, a, b)
  BY <1>2, <1>4, <1>6, PairHoldsIs
<1>8. LeafAt(slot) = leaves[a] /\ LeafAt(slot + 1) = leaves[b]
  BY <1>6 DEF LeafPair
<1>9. /\ DOMAIN leaves[a].data = 1 .. LeafSize(leaves[a])
      /\ DOMAIN leaves[b].data = 1 .. LeafSize(leaves[b])
  BY <1>7 DEF PairHolds, HoldsPairs, Sorted, LeafSize
<1>10. /\ \E P : HoldsPairs(x, P) /\ FirstOf(P) \subseteq R[Leaf(a)] \cup R[Leaf(b)]
       /\ x.prev = leaves[a].prev /\ x.next = leaves[b].next
       /\ LeafSize(x) >= LEAF_MIN
  <2>1. CASE slot = Top.idx - 1 /\ x = MergeRightDeleteFirst(leaves[a], r.slot, leaves[b])
    <3>1. r.slot \in 1 .. LeafSize(leaves[b])
      BY <1>2, <1>4, <1>5, <1>9, <2>1
    <3> QED
      BY <1>7, <2>1, <3>1, JoinedLeaf
  <2>2. CASE slot = Top.idx /\ x = MergeRight(DeleteAt(leaves[a], r.slot), leaves[b])
    <3>1. r.slot \in 1 .. LeafSize(leaves[a])
      BY <1>2, <1>5, <1>9, <2>2
    <3> QED
      BY <1>7, <2>2, <3>1, JoinedLeaf
  <2> QED
    BY <1>3, <1>8, <2>1, <2>2
<1>11. PICK P : HoldsPairs(x, P) /\ FirstOf(P) \subseteq R[Leaf(a)] \cup R[Leaf(b)]
  BY <1>10
<1>12. PICK e, z : e = FromLeaf(LeafKeys(x)) /\ z = MergedParent(slot, e)
  OBVIOUS
<1>13. Merges(R, slot, a, b, x, P, e, z)
  BY <1>3, <1>5, <1>6, <1>10, <1>11, <1>12 DEF Merges, MergeLeaves
<1>14. InnersFilled(T)'
  BY MergeLeafFilled DEF Routed
<1> QED
  BY ONLY Good(h), Routed(T, R), <1>1, <1>2, <1>4, <1>13, <1>14, LeavesMerged

-----------------------------------------------------------------------------
(* Neighbouring inner nodes                                                *)

\* The keys from which on a part is cut off and handed to the neighbour.
LEMMA SeparatesMoved ==
  ASSUME NEW A, NEW D, NEW B, A \subseteq Int, D \subseteq Int, B \subseteq Int,
         NEW j, NEW k, Separates(j, A, D), Separates(k, A \cup D, B)
  PROVE  Separates(k, D, B) /\ Separates(j, A, D \cup B)
<1>1. /\ j \in D /\ k \in B /\ j \in Int /\ k \in Int /\ j < k /\ A # {}
      /\ (\A b \in B : k <= b) /\ (\A d \in D : j <= d /\ d < k) /\ \A a \in A : a < j
  BY DEF Separates
<1>2. \A b \in B : j <= b
  BY <1>1
<1> QED
  BY <1>1, <1>2 DEF Separates

\* The separators when the keys D go from the right node to the left one.
LEMMA SeparatesMovedBack ==
  ASSUME NEW A, NEW D, NEW B, A \subseteq Int, D \subseteq Int, B \subseteq Int,
         NEW j, NEW k, Separates(j, D, B), Separates(k, A, D \cup B)
  PROVE  Separates(k, A, D) /\ Separates(j, A \cup D, B)
<1>1. /\ j \in B /\ k \in D \cup B /\ j \in Int /\ k \in Int /\ A # {} /\ D # {}
      /\ (\A b \in B : j <= b /\ k <= b) /\ (\A d \in D : d < j /\ k <= d) /\ \A a \in A : a < k
  BY DEF Separates
<1>2. PICK d \in D : d < j /\ k <= d
  BY <1>1
<1>3. k < j /\ d \in Int
  BY <1>1, <1>2
<1>4. k \in D
  BY <1>1, <1>3
<1>5. \A a \in A : a < j
  BY <1>1, <1>3
<1> QED
  BY <1>1, <1>4, <1>5 DEF Separates

\* Neighbouring nodes x and y share out A and B, cut at k.
SharesTwo(x, y, A, B, k, W) ==
    /\ Separates(k, A, B) /\ Routes(x, A, W) /\ Routes(y, B, W)

\* The last child of n goes to m.
LEMMA LastChildMoves ==
  ASSUME NEW C, NEW n, IsInner(n, Key, C), NEW m, IsInner(m, Key, C), Len(n.keys) > 0,
         NEW A, A \subseteq Key, NEW B, B \subseteq Key, NEW k \in Key, NEW W,
         SharesTwo(n, m, A, B, k, W), NEW g \in Nat
  PROVE  LET x == PopInner(n)
             y == PushFrontInner(m, k, n.child[Len(n.child)], g)
         IN  \E A2, B2 : /\ A2 \cup B2 = A \cup B
                         /\ SharesTwo(x, y, A2, B2, n.keys[Len(n.keys)], W)
<1>1. PICK L, c : L = Len(n.keys) /\ c = n.child[L + 1]
  OBVIOUS
<1>2. /\ L \in Nat /\ Len(n.child) = L + 1 /\ c \in C /\ L \in 1 .. Len(n.keys)
  <2>1. n.child \in Seq(C) /\ Len(n.child) = Len(n.keys) + 1 /\ Len(n.keys) \in Nat
    BY NodeParts
  <2>2. DOMAIN n.child = 1 .. Len(n.keys) + 1
    BY NodeParts
  <2>3. L + 1 \in DOMAIN n.child
    BY <1>1, <2>1, <2>2
  <2> QED
    BY <1>1, <2>1, <2>3
<1>3. /\ Separates(k, A, B) /\ Routes(n, A, W) /\ Routes(m, B, W) /\ A # {}
  BY DEF SharesTwo, Separates
<1>4. PICK A2 : /\ A2 \cup W[c] = A /\ Separates(n.keys[L], A2, W[c])
                /\ Routes(PopInner(n), A2, W)
  BY <1>1, <1>3, PopRoutes
<1>5. A2 \subseteq Int /\ W[c] \subseteq Int /\ B \subseteq Int /\ W[c] \subseteq Key
  BY <1>4, KeyAssumption
<1>6. Separates(k, W[c], B) /\ Separates(n.keys[L], A2, W[c] \cup B)
  BY ONLY <1>3, <1>4, <1>5, SeparatesMoved
<1>7. Routes(PushFrontInner(m, k, c, g), W[c] \cup B, W)
  BY <1>2, <1>3, <1>5, <1>6, PushRoutes
<1>8. /\ A2 \cup (W[c] \cup B) = A \cup B
      /\ SharesTwo(PopInner(n), PushFrontInner(m, k, c, g), A2, W[c] \cup B, n.keys[L], W)
  BY <1>4, <1>6, <1>7 DEF SharesTwo
<1> QED
  BY <1>1, <1>2, <1>8

\* The first child of m goes to n.
LEMMA FirstChildMoves ==
  ASSUME NEW C, NEW n, IsInner(n, Key, C), NEW m, IsInner(m, Key, C), Len(m.keys) > 0,
         NEW A, A \subseteq Key, NEW B, B \subseteq Key, NEW k \in Key, NEW W,
         SharesTwo(n, m, A, B, k, W), NEW g \in Nat
  PROVE  LET x == PushInner(n, k, m.child[1], g)
             y == PopFrontInner(m)
         IN  \E A2, B2 : /\ A2 \cup B2 = A \cup B
                         /\ SharesTwo(x, y, A2, B2, m.keys[1], W)
<1>1. PICK c : c = m.child[1]
  OBVIOUS
<1>2. c \in C
  <2>1. m.child \in Seq(C) /\ DOMAIN m.child = 1 .. Len(m.keys) + 1 /\ Len(m.keys) \in Nat
    BY NodeParts
  <2>2. 1 \in DOMAIN m.child
    BY <2>1
  <2> QED
    BY <1>1, <2>1, <2>2
<1>3. /\ Separates(k, A, B) /\ Routes(n, A, W) /\ Routes(m, B, W) /\ B # {}
  BY DEF SharesTwo, Separates
<1>4. PICK B2 : /\ W[c] \cup B2 = B /\ Separates(m.keys[1], W[c], B2)
                /\ Routes(PopFrontInner(m), B2, W)
  BY <1>1, <1>3, PopRoutes
<1>5. B2 \subseteq Int /\ W[c] \subseteq Int /\ A \subseteq Int /\ W[c] \subseteq Key
  BY <1>4, KeyAssumption
<1>6. Separates(k, A, W[c]) /\ Separates(m.keys[1], A \cup W[c], B2)
  BY ONLY <1>3, <1>4, <1>5, SeparatesMovedBack
<1>7. Routes(PushInner(n, k, c, g), A \cup W[c], W)
  BY <1>2, <1>3, <1>5, <1>6, PushRoutes
<1>8. /\ (A \cup W[c]) \cup B2 = A \cup B
      /\ SharesTwo(PushInner(n, k, c, g), PopFrontInner(m), A \cup W[c], B2, m.keys[1], W)
  BY <1>4, <1>6, <1>7 DEF SharesTwo
<1> QED
  BY <1>1, <1>8

\* The inner nodes a and b are neighbouring children of the parent.
InnerPair(T, R, slot, a, b, D) ==
    /\ a \in T /\ b \in T /\ a # b /\ a # Top.id /\ b # Top.id
    /\ Parent.child[slot] = Inner(a) /\ Parent.child[slot + 1] = Inner(b)
    /\ InnerAt(slot) = inners[a] /\ InnerAt(slot + 1) = inners[b]
    /\ IsInner(inners[a], Key, D) /\ IsInner(inners[b], Key, D)
    /\ Parent.keys[slot] \in Key
    /\ R[Inner(a)] \subseteq Key /\ R[Inner(b)] \subseteq Key
    /\ SharesTwo(inners[a], inners[b], R[Inner(a)], R[Inner(b)], Parent.keys[slot], R)
    /\ IsInterval(R[Inner(a)] \cup R[Inner(b)])
    /\ Inner(a) \in KidsOf(inners, Top.id) /\ Inner(b) \in KidsOf(inners, Top.id)

\* Two neighbouring children of the parent of an inner node are inner nodes of one height.
LEMMA TwoInners ==
  ASSUME NEW h, Good(h), NEW T, NEW R, Routed(T, R), stack # <<>>, Current.kind = "inner",
         ~IsSplit, NEW slot \in 1 .. Len(Parent.keys),
         NEW a, a = Parent.child[slot].id, NEW b, b = Parent.child[slot + 1].id
  PROVE  \E D : InnerPair(T, R, slot, a, b, D)
<1>1. PICK t, n, S, D : /\ t = Top.id /\ n = Parent /\ S = R[Inner(t)]
                        /\ D = NodesAt(Len(leaves), h, h[Top.id] - 1 - 1)
  OBVIOUS
<1>2. /\ t \in T /\ n = inners[t] /\ S \subseteq Key /\ S # {} /\ IsInterval(S)
      /\ Routes(n, S, R)
  BY <1>1, TopRouted, KnownIs DEF Routed
<1>3. PICK C : IsInner(n, Key, C)
  BY <1>2, RangeOf
<1>4. /\ DOMAIN n.child = 1 .. Len(n.keys) + 1 /\ DOMAIN n.keys = 1 .. Len(n.keys)
      /\ Len(n.keys) \in Nat /\ \A i \in 1 .. Len(n.keys) : n.keys[i] \in Key
  BY <1>3, NodeParts
<1>5. /\ slot \in DOMAIN n.keys /\ slot \in DOMAIN n.child /\ slot + 1 \in DOMAIN n.child
      /\ n.keys[slot] \in Key
  BY <1>1, <1>4
<1>6. slot \in 1 .. Len(Parent.keys) + 1 /\ slot + 1 \in 1 .. Len(Parent.keys) + 1
  BY <1>1, <1>4
<1>7. /\ a \in T /\ a # t /\ n.child[slot] = Inner(a) /\ InnerAt(slot) = inners[a]
      /\ IsInner(inners[a], Key, D)
  BY <1>1, <1>6, SiblingFacts DEF Routed
<1>8. /\ b \in T /\ b # t /\ n.child[slot + 1] = Inner(b) /\ InnerAt(slot + 1) = inners[b]
      /\ IsInner(inners[b], Key, D)
  BY <1>1, <1>6, SiblingFacts DEF Routed
<1>9. a # b
  BY TwoSiblings DEF Routed
<1>10. Inner(a) \in KidsOf(inners, t) /\ Inner(b) \in KidsOf(inners, t)
  BY <1>2, <1>5, <1>7, <1>8 DEF KidsOf, Range
<1>11. Separates(n.keys[slot], R[Inner(a)], R[Inner(b)])
  BY <1>2, <1>5, <1>7, <1>8 DEF Routes
<1>12. IsInterval(R[Inner(a)] \cup R[Inner(b)])
  <2>1. IsInterval(R[n.child[slot]] \cup R[n.child[slot + 1]])
    BY ONLY <1>2, <1>3, <1>5, ChildInterval
  <2> QED
    BY <1>7, <1>8, <2>1
<1>13. \A i \in {a, b} : R[Inner(i)] \subseteq Key /\ Routes(inners[i], R[Inner(i)], R)
  BY <1>7, <1>8, RangeOf
<1>14. InnerPair(T, R, slot, a, b, D)
  BY <1>1, <1>5, <1>7, <1>8, <1>9, <1>10, <1>11, <1>12, <1>13 DEF InnerPair, SharesTwo
<1> QED
  BY <1>14

\* The inner nodes a and b become x and y, which get A and B instead, cut at k, and z is
\* the parent with that key.
InnersShift(T, R, slot, a, b, D, x, y, A, B, k, z) ==
    /\ InnerPair(T, R, slot, a, b, D)
    /\ A \cup B = R[Inner(a)] \cup R[Inner(b)]
    /\ SharesTwo(x, y, A, B, k, R) /\ IsInner(x, Key, D) /\ IsInner(y, Key, D)
    /\ Range(x.child) \cup Range(y.child) \subseteq KidsOf(inners, a) \cup KidsOf(inners, b)
    /\ z.keys = SetKey(Parent, slot, k).keys /\ z.child = Parent.child
    /\ inners' = [inners EXCEPT ![a] = x, ![b] = y, ![Top.id] = z]

(***************************************************************************)
(* The neighbours a and b share out the same keys as before.               *)
(***************************************************************************)
LEMMA InnersShifted ==
  ASSUME NEW h, Good(h), NEW T, NEW R, Routed(T, R), ~IsSplit, ~IsSplit',
         UNCHANGED <<root, leaves, takenLeaves>>, pc' = "remove_ascend", stack # <<>>,
         InnersFilled(T)', NEW slot \in 1 .. Len(Parent.keys), NEW a, NEW b, NEW D,
         NEW x, NEW y, NEW A, NEW B, NEW k, NEW z,
         InnersShift(T, R, slot, a, b, D, x, y, A, B, k, z)
  PROVE  \E Q : Routed(T, Q)'
<1>1. PICK t : t = Top.id
  OBVIOUS
<1>2. /\ a \in T /\ b \in T /\ a # b /\ a # t /\ b # t
      /\ Parent.child[slot] = Inner(a) /\ Parent.child[slot + 1] = Inner(b)
      /\ R[Inner(a)] \subseteq Key /\ R[Inner(b)] \subseteq Key
      /\ IsInterval(R[Inner(a)] \cup R[Inner(b)])
      /\ Inner(a) \in KidsOf(inners, t) /\ Inner(b) \in KidsOf(inners, t)
      /\ A \cup B = R[Inner(a)] \cup R[Inner(b)]
      /\ Separates(k, A, B) /\ Routes(x, A, R) /\ Routes(y, B, R)
      /\ IsInner(x, Key, D) /\ IsInner(y, Key, D)
  BY <1>1 DEF InnersShift, InnerPair, SharesTwo
<1>3. /\ t \in T /\ t \in Nat /\ Parent = inners[t] /\ Known(R) = R /\ R \in Routing
      /\ IsInterval(R[Inner(t)])
  BY <1>1, TopRouted, KnownIs DEF Routed
<1>4. A \subseteq Key /\ B \subseteq Key /\ IsInterval(A) /\ IsInterval(B) /\ k \in Key
  <2>1. PICK S : S = R[Inner(a)] \cup R[Inner(b)]
    OBVIOUS
  <2>2. S \subseteq Key /\ IsInterval(S) /\ A \cup B = S
    BY <1>2, <2>1
  <2>3. IsInterval(A) /\ IsInterval(B)
    BY ONLY <1>2, <2>2, HalfIntervals
  <2> QED
    BY <1>2, <2>2, <2>3 DEF Separates
<1>5. PICK Q : Rerouted(R, Q, a, A, b, B)
  BY <1>2, <1>3, <1>4, RangeOf, Reroute
<1>6. /\ Q \in Routing /\ Q[Inner(a)] = A /\ Q[Inner(b)] = B
      /\ \A w \in NodeId : w # Inner(a) /\ w # Inner(b) => Q[w] = R[w]
  BY <1>5 DEF Rerouted
<1>7. Known(Q)' = Q
  BY <1>6 DEF Known, Routing
<1>8. \A i \in T \ {t} : \A w \in KidsOf(inners, i) :
          w \in NodeId /\ w # Inner(a) /\ w # Inner(b) /\ Q[w] = R[w]
  BY <1>2, <1>3, <1>6, RangeOf, KidKnown, KidOnce
<1>9. /\ inners'[t] = z /\ inners'[a] = x /\ inners'[b] = y
      /\ \A i \in T \ {t, a, b} : inners'[i] = inners[i]
  <2>1. inners' = [inners EXCEPT ![a] = x, ![b] = y, ![t] = z]
    BY <1>1 DEF InnersShift
  <2>2. T \subseteq DOMAIN inners
    BY RangeOf
  <2> QED
    BY <1>2, <1>3, <2>1, <2>2
<1>10. Routes(x, A, Q) /\ Routes(y, B, Q)
  <2>1. Range(x.child) \cup Range(y.child) \subseteq KidsOf(inners, a) \cup KidsOf(inners, b)
    BY DEF InnersShift
  <2>2. (\A w \in Range(x.child) : Q[w] = R[w]) /\ (\A w \in Range(y.child) : Q[w] = R[w])
    BY <1>2, <1>8, <2>1
  <2>3. Routes(x, A, Q)
    BY ONLY <1>2, <2>2, RoutesSame
  <2>4. Routes(y, B, Q)
    BY ONLY <1>2, <2>2, RoutesSame
  <2> QED
    BY <2>3, <2>4
<1>11. Routes(z, R[Inner(t)], Q)
  <2>1. PICK n, S, K : n = Parent /\ S = R[Inner(t)] /\ K = KidsOf(inners, t)
    OBVIOUS
  <2>2. PICK C : IsInner(n, Key, C)
    BY <1>3, <2>1, RangeOf
  <2>3. Kids(n, K) /\ S \subseteq Key /\ Routes(n, S, R)
    BY <1>3, <2>1, RangeOf
  <2>4. slot \in DOMAIN n.keys /\ k \in Key
    BY <1>4, <2>1, <2>2, NodeParts
  <2>5. n.child[slot] = Inner(a) /\ n.child[slot + 1] = Inner(b)
    BY <1>2, <2>1
  <2>6. /\ \A w \in K \ {n.child[slot], n.child[slot + 1]} : Q[w] = R[w]
        /\ Q[n.child[slot]] \cup Q[n.child[slot + 1]] = R[n.child[slot]] \cup R[n.child[slot + 1]]
        /\ Separates(k, Q[n.child[slot]], Q[n.child[slot + 1]])
    <3>1. \A w \in K : w \in NodeId
      BY <1>3, <2>1, RangeOf, KidKnown
    <3> QED
      BY <1>2, <1>6, <2>5, <3>1
  <2>7. Routes(SetKey(n, slot, k), S, Q)
    BY ONLY <2>2, <2>3, <2>4, <2>6, SetKeyRoutes
  <2>8. z.keys = SetKey(n, slot, k).keys /\ z.child = SetKey(n, slot, k).child
    BY <2>1, <2>2 DEF SetKey, IsInner, InnersShift
  <2> QED
    BY <2>1, <2>7, <2>8 DEF Routes
<1>12. \A i \in T \ {a, b} : Q[Inner(i)] = R[Inner(i)]
  <2>1. \A i \in T \ {a, b} : Inner(i) \in NodeId /\ Inner(i) # Inner(a) /\ Inner(i) # Inner(b)
    BY RangeOf DEF Inner
  <2> QED
    BY <1>6, <2>1
<1>13. KeysShared(T, Q)'
  <2>1. ASSUME NEW i \in T \ {t, a, b} PROVE NodeKept(R, Q, i)
    BY <1>3, <1>7, <1>8, <1>9, <1>12 DEF NodeKept
  <2>2. NodeShares(Q, t)' /\ NodeShares(Q, a)' /\ NodeShares(Q, b)'
    BY <1>2, <1>3, <1>4, <1>6, <1>7, <1>9, <1>10, <1>11, <1>12 DEF NodeShares
  <2>3. Known(Q)'[root'] = Key
    <3>1. root \in NodeId /\ root # Inner(a) /\ root # Inner(b)
      BY <1>2, <1>3, KidOnce DEF Good, Scalars
    <3>2. R[root] = Key
      BY <1>3 DEF Routed, InOrder, KeysShared
    <3> QED
      BY <1>6, <1>7, <3>1, <3>2
  <2>4. \A i \in T : (i \in T /\ NodeKept(R, Q, i)) \/ NodeShares(Q, i)'
    BY <2>1, <2>2
  <2> QED
    BY ONLY Good(h), Routed(T, R), ~IsSplit', <2>3, <2>4, SharedAfter
<1>14. \A i \in T : KidsOf(inners', i) \subseteq NodesOf(T)
  <2>1. ASSUME NEW i \in T PROVE KidsOf(inners', i) \subseteq UNION {KidsOf(inners, j) : j \in T}
    <3>1. CASE i \in {a, b}
      <4>1. KidsOf(inners', i) \subseteq KidsOf(inners, a) \cup KidsOf(inners, b)
        BY <1>9, <3>1 DEF InnersShift, KidsOf
      <4> QED
        BY <1>2, <4>1
    <3>2. CASE i \notin {a, b}
      <4>1. KidsOf(inners', i) = KidsOf(inners, i)
        BY <1>3, <1>9, <3>2 DEF InnersShift, KidsOf
      <4> QED
        BY <4>1
    <3> QED
      BY <3>1, <3>2
  <2> QED
    BY <2>1 DEF NodesOf
<1>15. \A l \in LeafAlive : Q[Leaf(l)] = R[Leaf(l)]
  BY <1>5, LeavesSameRoute, LeavesAre
<1>16. Orphans' \subseteq NodesOf(T)
  BY DEF Orphans, NodesOf
<1>17. DescentRouted(T, Q)'
  BY DEF DescentRouted
<1>18. Routed(T, Q)'
  BY <1>6, <1>13, <1>14, <1>15, <1>16, <1>17, NodesRouted
<1> QED
  BY <1>18

\* try_rotate_right_for_inner_node
LEMMA RotateRightInnerRouted ==
  ASSUME NEW h, Good(h), NEW T, NEW R, Routed(T, R), RotateRightInner
  PROVE  \E Q : Routed(T, Q)'
<1>1. /\ pc = "remove_ascend" /\ stack # <<>> /\ r.tag = "InnerUnderSize" /\ ~IsSplit
      /\ pc' = "remove_ascend" /\ ~IsSplit' /\ HasPrev /\ InnerAbleToLend(InnerAt(Top.idx - 1))
      /\ UNCHANGED <<root, leaves, takenLeaves>>
  BY DEF RotateRightInner, Ascending, IsSplit, PrevInnerLends, taken
<1>2. Current.kind = "inner"
  BY <1>1, RemoveFields
<1>3. Top.idx \in 1 .. Len(Parent.keys) + 1 /\ Len(Parent.keys) \in Nat
  BY <1>1, TopFacts
<1>4. PICK slot \in 1 .. Len(Parent.keys) : slot = Top.idx - 1
  BY <1>1, <1>3 DEF HasPrev
<1>5. PICK a, b : a = Parent.child[slot].id /\ b = Parent.child[slot + 1].id
  OBVIOUS
<1>6. PICK D : InnerPair(T, R, slot, a, b, D)
  BY <1>1, <1>2, <1>5, TwoInners
<1>7. PICK n, m, s, A0, B0 : /\ n = inners[a] /\ m = inners[b] /\ s = Parent.keys[slot]
                             /\ A0 = R[Inner(a)] /\ B0 = R[Inner(b)]
  OBVIOUS
<1>8. /\ IsInner(n, Key, D) /\ IsInner(m, Key, D) /\ s \in Key /\ A0 \subseteq Key /\ B0 \subseteq Key
      /\ SharesTwo(n, m, A0, B0, s, R) /\ InnerAt(slot) = n /\ InnerAt(slot + 1) = m
      /\ a \in T /\ b \in T /\ Inner(a) \in KidsOf(inners, Top.id)
  BY <1>6, <1>7 DEF InnerPair
<1>9. Len(n.keys) > 0
  <2>1. Inner(a) # root /\ InnerSize(inners[a]) \in Nat
    BY <1>1, <1>7, <1>8, TopRouted, KidOnce, NodeParts DEF InnerSize
  <2> QED
    BY <1>1, <1>4, <1>7, <1>8, <2>1, LendAndBorrow DEF Routed
<1>10. PICK c, g : c = n.child[Len(n.child)] /\ g = n.aug[Len(n.aug)]
  OBVIOUS
<1>11. PICK x, y, k : /\ x = PopInner(n) /\ y = PushFrontInner(m, s, c, g)
                      /\ k = n.keys[Len(n.keys)]
  OBVIOUS
<1>12. PICK z : z = SetAugmentation(SetAugmentation(SetKey(Parent, slot, k),
                                                    slot, FromInner(x.aug)),
                                    slot + 1, FromInner(y.aug))
  OBVIOUS
<1>13. inners' = [inners EXCEPT ![a] = x, ![b] = y, ![Top.id] = z]
  BY <1>4, <1>5, <1>7, <1>8, <1>10, <1>11, <1>12 DEF RotateRightInner
<1>14. g \in Nat /\ c \in D /\ c \in KidsOf(inners, a)
  <2>1. /\ n.child \in Seq(D) /\ n.aug \in Seq(Nat) /\ Len(n.child) > 0 /\ Len(n.aug) > 0
    BY <1>8, InnerParts DEF IsInner
  <2>2. Len(n.child) \in DOMAIN n.child
    BY <2>1, LenProperties
  <2> QED
    BY <1>7, <1>10, <2>1, <2>2, EndsType DEF KidsOf, Range
<1>15. PICK A, B : A \cup B = A0 \cup B0 /\ SharesTwo(x, y, A, B, k, R)
  BY <1>8, <1>9, <1>10, <1>11, <1>14, LastChildMoves
<1>16. IsInner(x, Key, D) /\ IsInner(y, Key, D)
  BY <1>8, <1>9, <1>11, <1>14, PopInnerType, PushInnerType
<1>17. Range(x.child) \cup Range(y.child) \subseteq KidsOf(inners, a) \cup KidsOf(inners, b)
  <2>1. Kids(n, KidsOf(inners, a)) /\ Kids(m, KidsOf(inners, b))
    BY <1>7, <1>8, RangeOf
  <2>2. Kids(x, KidsOf(inners, a) \ {c})
    BY <1>8, <1>10, <1>11, <2>1, PopInnerKids
  <2>3. Kids(y, KidsOf(inners, b) \cup {c})
    <3>1. c \notin KidsOf(inners, b)
      BY <1>6, <1>14, KidOnce DEF InnerPair
    <3> QED
      BY <1>8, <1>11, <1>14, <2>1, <3>1, PushInnerKids
  <2> QED
    BY <1>14, <2>2, <2>3 DEF Kids, Once
<1>18. z.keys = SetKey(Parent, slot, k).keys /\ z.child = Parent.child
  <2>1. PICK p, C : p = Parent /\ IsInner(p, Key, C)
    BY <1>1, TopRouted, RangeOf
  <2> QED
    BY <1>12, <2>1, RotatedKeys
<1>19. InnersShift(T, R, slot, a, b, D, x, y, A, B, k, z)
  BY <1>6, <1>7, <1>13, <1>15, <1>16, <1>17, <1>18 DEF InnersShift
<1>20. InnersFilled(T)'
  BY RotateRightInnerFilled DEF Routed
<1> QED
  BY ONLY Good(h), Routed(T, R), <1>1, <1>4, <1>19, <1>20, InnersShifted

\* try_rotate_left_for_inner_node
LEMMA RotateLeftInnerRouted ==
  ASSUME NEW h, Good(h), NEW T, NEW R, Routed(T, R), RotateLeftInner
  PROVE  \E Q : Routed(T, Q)'
<1>1. /\ pc = "remove_ascend" /\ stack # <<>> /\ r.tag = "InnerUnderSize" /\ ~IsSplit
      /\ pc' = "remove_ascend" /\ ~IsSplit' /\ HasNext /\ InnerAbleToLend(InnerAt(Top.idx + 1))
      /\ UNCHANGED <<root, leaves, takenLeaves>>
  BY DEF RotateLeftInner, Ascending, IsSplit, NextInnerLends, taken
<1>2. Current.kind = "inner"
  BY <1>1, RemoveFields
<1>3. Top.idx \in 1 .. Len(Parent.keys) + 1 /\ Len(Parent.keys) \in Nat
  BY <1>1, TopFacts
<1>4. PICK slot \in 1 .. Len(Parent.keys) : slot = Top.idx
  BY <1>1, <1>3 DEF HasNext, InnerSize
<1>5. PICK a, b : a = Parent.child[slot].id /\ b = Parent.child[slot + 1].id
  OBVIOUS
<1>6. PICK D : InnerPair(T, R, slot, a, b, D)
  BY <1>1, <1>2, <1>5, TwoInners
<1>7. PICK n, m, s, A0, B0 : /\ n = inners[a] /\ m = inners[b] /\ s = Parent.keys[slot]
                             /\ A0 = R[Inner(a)] /\ B0 = R[Inner(b)]
  OBVIOUS
<1>8. /\ IsInner(n, Key, D) /\ IsInner(m, Key, D) /\ s \in Key /\ A0 \subseteq Key /\ B0 \subseteq Key
      /\ SharesTwo(n, m, A0, B0, s, R) /\ InnerAt(slot) = n /\ InnerAt(slot + 1) = m
      /\ a \in T /\ b \in T /\ Inner(b) \in KidsOf(inners, Top.id)
  BY <1>6, <1>7 DEF InnerPair
<1>9. Len(m.keys) > 0
  <2>1. Inner(b) # root /\ InnerSize(inners[b]) \in Nat
    BY <1>1, <1>7, <1>8, TopRouted, KidOnce, NodeParts DEF InnerSize
  <2> QED
    BY <1>1, <1>4, <1>7, <1>8, <2>1, LendAndBorrow DEF Routed
<1>10. PICK c, g : c = m.child[1] /\ g = m.aug[1]
  OBVIOUS
<1>11. PICK x, y, k : /\ x = PushInner(n, s, c, g) /\ y = PopFrontInner(m) /\ k = m.keys[1]
  OBVIOUS
<1>12. PICK z : z = SetAugmentation(SetAugmentation(SetKey(Parent, slot, k),
                                                    slot, FromInner(x.aug)),
                                    slot + 1, FromInner(y.aug))
  OBVIOUS
<1>13. inners' = [inners EXCEPT ![a] = x, ![b] = y, ![Top.id] = z]
  BY <1>4, <1>5, <1>7, <1>8, <1>10, <1>11, <1>12 DEF RotateLeftInner
<1>14. g \in Nat /\ c \in D /\ c \in KidsOf(inners, b)
  <2>1. /\ m.child \in Seq(D) /\ m.aug \in Seq(Nat) /\ Len(m.child) > 0 /\ Len(m.aug) > 0
    BY <1>8, InnerParts DEF IsInner
  <2>2. 1 \in DOMAIN m.child
    BY <2>1, LenProperties
  <2> QED
    BY <1>7, <1>10, <2>1, <2>2, EndsType DEF KidsOf, Range
<1>15. PICK A, B : A \cup B = A0 \cup B0 /\ SharesTwo(x, y, A, B, k, R)
  BY <1>8, <1>9, <1>10, <1>11, <1>14, FirstChildMoves
<1>16. IsInner(x, Key, D) /\ IsInner(y, Key, D)
  BY <1>8, <1>9, <1>11, <1>14, PopInnerType, PushInnerType
<1>17. Range(x.child) \cup Range(y.child) \subseteq KidsOf(inners, a) \cup KidsOf(inners, b)
  <2>1. Kids(n, KidsOf(inners, a)) /\ Kids(m, KidsOf(inners, b))
    BY <1>7, <1>8, RangeOf
  <2>2. Kids(y, KidsOf(inners, b) \ {c})
    BY <1>8, <1>10, <1>11, <2>1, PopInnerKids
  <2>3. Kids(x, KidsOf(inners, a) \cup {c})
    <3>1. c \notin KidsOf(inners, a)
      BY <1>6, <1>14, KidOnce DEF InnerPair
    <3> QED
      BY <1>8, <1>11, <1>14, <2>1, <3>1, PushInnerKids
  <2> QED
    BY <1>14, <2>2, <2>3 DEF Kids, Once
<1>18. z.keys = SetKey(Parent, slot, k).keys /\ z.child = Parent.child
  <2>1. PICK p, C : p = Parent /\ IsInner(p, Key, C)
    BY <1>1, TopRouted, RangeOf
  <2> QED
    BY <1>12, <2>1, RotatedKeys
<1>19. InnersShift(T, R, slot, a, b, D, x, y, A, B, k, z)
  BY <1>6, <1>7, <1>13, <1>15, <1>16, <1>17, <1>18 DEF InnersShift
<1>20. InnersFilled(T)'
  BY RotateLeftInnerFilled DEF Routed
<1> QED
  BY ONLY Good(h), Routed(T, R), <1>1, <1>4, <1>19, <1>20, InnersShifted

\* merge_inner_node: the left node gets the keys of both.
LEMMA MergeInnerRouted ==
  ASSUME NEW h, Good(h), NEW T, NEW R, Routed(T, R), MergeInner
  PROVE  LET slot == IF HasPrev THEN Top.idx - 1 ELSE Top.idx
         IN  \E U, Q : U = T \ {Parent.child[slot + 1].id} /\ Routed(U, Q)'
<1>1. /\ pc = "remove_ascend" /\ stack # <<>> /\ r.tag = "InnerUnderSize" /\ ~IsSplit
      /\ pc' = "remove_ascend" /\ ~IsSplit' /\ (HasPrev \/ HasNext)
      /\ UNCHANGED <<root, leaves, takenLeaves>>
  BY DEF MergeInner, Ascending, IsSplit
<1>2. Current.kind = "inner"
  BY <1>1, RemoveFields
<1>3. Top.idx \in 1 .. Len(Parent.keys) + 1 /\ Len(Parent.keys) \in Nat
  BY <1>1, TopFacts
<1>4. PICK slot \in 1 .. Len(Parent.keys) : slot = IF HasPrev THEN Top.idx - 1 ELSE Top.idx
  BY <1>1, <1>3 DEF HasPrev, HasNext, InnerSize
<1>5. PICK t, a, b : /\ t = Top.id /\ a = Parent.child[slot].id
                     /\ b = Parent.child[slot + 1].id
  OBVIOUS
<1>6. PICK D : InnerPair(T, R, slot, a, b, D)
  BY <1>1, <1>2, <1>5, TwoInners
<1>7. PICK n, m, s, A, B : /\ n = inners[a] /\ m = inners[b] /\ s = Parent.keys[slot]
                           /\ A = R[Inner(a)] /\ B = R[Inner(b)]
  OBVIOUS
<1>8. /\ IsInner(n, Key, D) /\ IsInner(m, Key, D) /\ s \in Key /\ A \subseteq Key /\ B \subseteq Key
      /\ Separates(s, A, B) /\ Routes(n, A, R) /\ Routes(m, B, R) /\ IsInterval(A \cup B)
      /\ InnerAt(slot) = n /\ InnerAt(slot + 1) = m
      /\ a \in T /\ b \in T /\ a # b /\ a # t /\ b # t
      /\ Parent.child[slot] = Inner(a) /\ Parent.child[slot + 1] = Inner(b)
      /\ Inner(a) \in KidsOf(inners, t) /\ Inner(b) \in KidsOf(inners, t)
  BY <1>5, <1>6, <1>7 DEF InnerPair, SharesTwo
<1>9. /\ t \in T /\ t \in Nat /\ Parent = inners[t] /\ Known(R) = R /\ R \in Routing
      /\ IsInterval(R[Inner(t)])
  BY <1>1, <1>5, TopRouted, KnownIs DEF Routed
<1>10. PICK x, e, z : /\ x = MergeNext(n, s, m) /\ e = FromInner(x.aug)
                      /\ z = MergedParent(slot, e)
  OBVIOUS
<1>11. inners' = [inners EXCEPT ![a] = x, ![t] = z]
  BY <1>4, <1>5, <1>7, <1>8, <1>10 DEF MergeInner
<1>12. PICK Q : Rerouted(R, Q, a, A \cup B, b, {})
  BY <1>8, <1>9, RangeOf, Reroute
<1>13. /\ Q \in Routing /\ Q[Inner(a)] = A \cup B
       /\ \A w \in NodeId : w # Inner(a) /\ w # Inner(b) => Q[w] = R[w]
  BY <1>12 DEF Rerouted
<1>14. Known(Q)' = Q
  BY <1>1, <1>13 DEF Known, Routing
<1>15. \A i \in T \ {t} : \A w \in KidsOf(inners, i) :
           w \in NodeId /\ w # Inner(a) /\ w # Inner(b) /\ Q[w] = R[w]
  BY <1>8, <1>9, <1>13, RangeOf, KidKnown, KidOnce
<1>16. PICK U : U = T \ {b} /\ InnersFilled(U)'
  BY <1>4, <1>5, MergeInnerFilled DEF Routed
<1>17. /\ inners'[t] = z /\ inners'[a] = x /\ \A i \in T \ {t, a} : inners'[i] = inners[i]
  <2>1. T \subseteq DOMAIN inners
    BY RangeOf
  <2> QED
    BY <1>8, <1>9, <1>11, <2>1
<1>18. /\ Routes(x, A \cup B, Q)
       /\ Range(x.child) \subseteq KidsOf(inners, a) \cup KidsOf(inners, b)
  <2>1. Routes(x, A \cup B, R)
    BY ONLY <1>8, <1>10, MergeNextRoutes
  <2>2. IsInner(x, Key, D)
    BY <1>8, <1>10, MergeNextType
  <2>3. Kids(n, KidsOf(inners, a)) /\ Kids(m, KidsOf(inners, b))
    BY <1>7, <1>8, RangeOf
  <2>4. KidsOf(inners, a) \cap KidsOf(inners, b) = {}
    BY <1>8, KidOnce
  <2>5. Kids(x, KidsOf(inners, a) \cup KidsOf(inners, b))
    BY <1>8, <1>10, <2>3, <2>4, MergeNextKids
  <2>6. Range(x.child) = KidsOf(inners, a) \cup KidsOf(inners, b)
    BY <2>5 DEF Kids, Once
  <2>7. \A w \in Range(x.child) : Q[w] = R[w]
    BY <1>8, <1>15, <2>6
  <2>8. Routes(x, A \cup B, Q)
    BY ONLY <2>1, <2>2, <2>7, RoutesSame
  <2> QED
    BY <2>6, <2>8
<1>19. Routes(z, R[Inner(t)], Q)
  <2>1. \A w \in KidsOf(inners, t) \ {Inner(a), Inner(b)} : Q[w] = R[w]
    BY <1>9, <1>13, RangeOf, KidKnown
  <2>2. PICK c, d : c = Parent.child[slot] /\ d = Parent.child[slot + 1]
    OBVIOUS
  <2>3. Q[c] = R[c] \cup R[d]
    BY <1>7, <1>8, <1>13, <2>2
  <2>4. \A w \in KidsOf(inners, Top.id) \ {c, d} : Q[w] = R[w]
    BY <1>5, <1>8, <2>1, <2>2
  <2>5. Routes(z, R[Inner(Top.id)], Q)
    BY ONLY Good(h), Routed(T, R), <1>1, <1>4, <1>10, <2>2, <2>3, <2>4, MergedParentRoutes
  <2> QED
    BY <1>5, <2>5
<1>20. \A i \in T \ {a, b} : Q[Inner(i)] = R[Inner(i)]
  <2>1. \A i \in T \ {a, b} : Inner(i) \in NodeId /\ Inner(i) # Inner(a) /\ Inner(i) # Inner(b)
    BY RangeOf DEF Inner
  <2> QED
    BY <1>13, <2>1
<1>21. KeysShared(U, Q)'
  <2>1. ASSUME NEW i \in T \ {t, a, b} PROVE NodeKept(R, Q, i)
    BY <1>9, <1>14, <1>15, <1>17, <1>20 DEF NodeKept
  <2>2. NodeShares(Q, t)' /\ NodeShares(Q, a)'
    BY <1>8, <1>9, <1>13, <1>14, <1>17, <1>18, <1>19, <1>20 DEF NodeShares
  <2>3. Known(Q)'[root'] = Key
    <3>1. root \in NodeId /\ root # Inner(a) /\ root # Inner(b)
      BY <1>8, <1>9, KidOnce DEF Good, Scalars
    <3>2. R[root] = Key
      BY <1>9 DEF Routed, InOrder, KeysShared
    <3> QED
      BY <1>1, <1>13, <1>14, <3>1, <3>2
  <2>4. \A i \in U : (i \in T /\ NodeKept(R, Q, i)) \/ NodeShares(Q, i)'
    BY <1>16, <2>1, <2>2
  <2> QED
    BY ONLY Good(h), Routed(T, R), <1>1, <2>3, <2>4, SharedAfter
<1>22. \A i \in U : KidsOf(inners', i) \subseteq NodesOf(T)
  <2>1. ASSUME NEW i \in U PROVE KidsOf(inners', i) \subseteq UNION {KidsOf(inners, j) : j \in T}
    <3>1. CASE i = a
      BY <1>8, <1>17, <1>18, <3>1 DEF KidsOf
    <3>2. CASE i = t
      <4>1. Kids(z, KidsOf(inners, t) \ {Parent.child[slot + 1]})
        BY <1>1, <1>5, <1>10, MergedParentFilled DEF Routed
      <4>2. KidsOf(inners', t) \subseteq KidsOf(inners, t)
        BY <1>17, <4>1 DEF Kids, Once, KidsOf
      <4> QED
        BY <1>9, <3>2, <4>2
    <3>3. CASE i \notin {t, a}
      BY <1>16, <1>17, <3>3 DEF KidsOf
    <3> QED
      BY <3>1, <3>2, <3>3
  <2> QED
    BY <2>1 DEF NodesOf
<1>23. \A l \in LeafAlive : Q[Leaf(l)] = R[Leaf(l)]
  BY <1>12, LeavesSameRoute, LeavesAre
<1>24. Orphans' \subseteq NodesOf(T)
  BY <1>1 DEF Orphans, NodesOf
<1>25. DescentRouted(U, Q)'
  BY <1>1 DEF DescentRouted
<1>26. Routed(U, Q)'
  BY <1>1, <1>13, <1>16, <1>21, <1>22, <1>23, <1>24, <1>25, NodesRouted
<1> QED
  BY <1>4, <1>5, <1>16, <1>26

-----------------------------------------------------------------------------
(* Every step                                                              *)

\* A call that begins a descent, or that the cache answers.
LEMMA CallRouted ==
  ASSUME NEW h, Good(h), NEW T, NEW R, Routed(T, R), Call, ~Clear
  PROVE  Routed(T, R)'
<1>1. ASSUME NEW k \in Key, NEW v \in Value, InsertCall(k, v)
      PROVE  Routed(T, R)'
  BY <1>1, EnterRouted DEF InsertCall
<1>2. ASSUME NEW k \in Key, RemoveCall(k) PROVE Routed(T, R)'
  BY <1>2, EnterRouted DEF RemoveCall
<1>3. ASSUME NEW i, RemoveByAugmentationCall(i) PROVE Routed(T, R)'
  BY <1>3, EnterRouted DEF RemoveByAugmentationCall
<1>4. ASSUME NEW i, NEW v, GetMutByAugmentationCall(i, v) PROVE Routed(T, R)'
  BY <1>4, EnterRouted DEF GetMutByAugmentationCall
<1>5. ASSUME NEW k \in Key, \/ GetCached(k)
                            \/ \E v \in Value : GetMutCached(k, v)
      PROVE  Routed(T, R)'
  BY <1>5, CachedRouted
<1>6. ASSUME NEW k \in Key, GetCall(k) PROVE Routed(T, R)'
  BY <1>6, EnterRouted DEF GetCall
<1>7. ASSUME NEW k \in Key, NEW v, GetMutCall(k, v) PROVE Routed(T, R)'
  BY <1>7, EnterRouted DEF GetMutCall
<1> QED
  BY <1>1, <1>2, <1>3, <1>4, <1>5, <1>6, <1>7 DEF Call

\* A stuttering step.
LEMMA StutterRouted ==
  ASSUME NEW h, Good(h), NEW T, NEW R, Routed(T, R), UNCHANGED vars
  PROVE  Routed(T, R)'
<1>1. UNCHANGED <<root, leaves, inners, takenLeaves, pc, node, call, stack, r>>
  BY DEF vars, tree, frame, store, taken
<1>2. Current' = Current /\ LeafAlive' = LeafAlive /\ IsSplit' = IsSplit
  BY <1>1 DEF Current, IsSplit, LeafAlive
<1>3. Orphans' = Orphans
  BY <1>1, <1>2 DEF Orphans
<1>4. \A i : LeastKeys(i)' = LeastKeys(i)
  BY <1>1, <1>2 DEF LeastKeys, IsReported
<1>5. InnersFilled(T)'
  BY <1>1, <1>2, <1>3, <1>4 DEF InnersFilled, InnerSize, Routed
<1>6. Known(R)' = Known(R)
  BY <1>1, <1>2 DEF Known
<1>7. KeysShared(T, R)'
  BY <1>1, <1>2, <1>6 DEF KeysShared, Routed, InOrder
<1>8. \A x : InTree(T, x)' <=> InTree(T, x)
  BY <1>1, <1>2 DEF InTree
<1>9. LeavesKnown(T)' /\ DescentRouted(T, R)'
  BY <1>1, <1>3, <1>8 DEF LeavesKnown, DescentRouted, Routed, InOrder
<1>10. LeavesFilled'
  BY <1>1, <1>2 DEF LeavesFilled, Routed, InOrder, LeafSize
<1>11. LeavesHold(leaves', LeafAlive', R) /\ LeavesLinked(leaves', LeafAlive', R)
  BY <1>1, <1>2 DEF Routed, InOrder
<1> QED
  BY <1>5, <1>7, <1>9, <1>10, <1>11 DEF Routed, InOrder

\* No step loses a route: some T and R serve again.
LEMMA StepRouted ==
  ASSUME NEW h, Good(h), NEW T, NEW R, Routed(T, R), [Next]_vars
  PROVE  \E U, Q : Routed(U, Q)'
<1>1. CASE Call
  BY <1>1, CallRouted, ClearRouted
<1>2. CASE InsertStep
  <2>1. CASE InsertDescend
    BY <2>1, DescentStepRouted
  <2>2. CASE InsertLeafUpdate
    BY <2>2, InsertLeafUpdateRouted
  <2>3. CASE InsertLeafInsert
    BY <2>3, InsertLeafInsertRouted
  <2>4. CASE InsertLeafSplit
    BY <2>4, InsertLeafSplitRouted
  <2>5. CASE InsertAscendSlot
    BY <2>5, InsertAscendSlotRouted
  <2>6. CASE InsertAscendSplit
    BY <2>6, InsertAscendSplitRouted
  <2>7. CASE InsertAscendInserted \/ InsertAscendUpdated
    BY <2>7, RefreshRouted
  <2>8. CASE InsertReturnInserted \/ InsertReturnUpdated
    BY <2>8, QuietReturnRouted
  <2>9. CASE InsertReturnSplit
    BY <2>9, InsertReturnSplitRouted
  <2> QED
    BY <1>2, <2>1, <2>2, <2>3, <2>4, <2>5, <2>6, <2>7, <2>8, <2>9 DEF InsertStep
<1>3. CASE RemoveStep
  <2>1. CASE KeyToRefDescend
    BY <2>1, DescentStepRouted
  <2>2. CASE KeyToRefMissing \/ AugmentationDescend \/ AugmentationMissing
    BY <2>2, QuietCallRouted
  <2>3. CASE RemoveInLeaf
    BY <2>3, RemoveInLeafRouted
  <2>4. CASE RemoveAscendDone
    BY <2>4, RefreshRouted
  <2>5. CASE RotateRightInner
    BY <2>5, RotateRightInnerRouted
  <2>6. CASE RotateLeftInner
    BY <2>6, RotateLeftInnerRouted
  <2>7. CASE MergeInner
    BY <2>7, MergeInnerRouted
  <2>8. CASE RotateRightLeaf
    BY <2>8, RotateRightLeafRouted
  <2>9. CASE RotateLeftLeaf
    BY <2>9, RotateLeftLeafRouted
  <2>10. CASE MergeLeafLeft \/ MergeLeafRight
    BY <2>10, MergeLeafRouted
  <2>11. CASE RemoveReturnDone
    BY <2>11, QuietReturnRouted
  <2>12. CASE RemoveReturnInnerUnderSize
    BY <2>12, RemoveReturnInnerRouted
  <2>13. CASE RemoveReturnLeafUnderSize
    BY <2>13, RemoveReturnLeafRouted
  <2> QED
    BY <1>3, <2>1, <2>2, <2>3, <2>4, <2>5, <2>6, <2>7, <2>8, <2>9, <2>10, <2>11, <2>12, <2>13
    DEF RemoveStep
<1>4. CASE FindStep
  <2>1. CASE FindDescend
    BY <2>1, DescentStepRouted
  <2>2. CASE FindInLeaf
    BY <2>2, FindInLeafRouted
  <2>3. CASE GetMutInLeaf
    BY <2>3, GetMutInLeafRouted
  <2> QED
    BY <1>4, <2>1, <2>2, <2>3 DEF FindStep
<1>5. CASE UNCHANGED vars
  BY <1>5, StutterRouted
<1> QED
  BY <1>1, <1>2, <1>3, <1>4, <1>5 DEF Next, Step

\* Fine is what the proof carries from step to step.
LEMMA RoutedForever == Spec => []((\E h : Good(h)) /\ (\E T, R : Routed(T, R)))
<1> DEFINE Fine == (\E h : Good(h)) /\ (\E T, R : Routed(T, R))
<1>1. Init => Fine
  BY InitOK, InitRouted
<1>2. Fine /\ [Next]_vars => Fine'
  <2> SUFFICES ASSUME Fine, [Next]_vars PROVE Fine'
    OBVIOUS
  <2>1. PICK h : Good(h)
    OBVIOUS
  <2>2. PICK T, R : Routed(T, R)
    OBVIOUS
  <2>3. PICK g : Good(g)'
    BY <2>1, StepOK
  <2>4. PICK U, Q : Routed(U, Q)'
    BY <2>1, <2>2, StepRouted
  <2> QED
    BY <2>3, <2>4
<1> HIDE DEF Fine
<1>3. Spec => []Fine
  BY <1>1, <1>2, PTL DEF Spec
<1> QED
  BY <1>3 DEF Fine
=============================================================================
