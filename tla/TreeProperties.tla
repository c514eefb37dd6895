--------------------------- MODULE TreeProperties ---------------------------
(***************************************************************************)
(* What must hold of the tree of module BPlusTree, stated over its shape:  *)
(* the nodes below the root, the leaf chain, the routes of the descents.   *)
(***************************************************************************)
EXTENDS BPlusTreeInv

-----------------------------------------------------------------------------
(* The shape of the tree                                                   *)

\* The nodes at each depth from left to right; a leaf stays for lower depths.
Below(s) == FlattenSeq([i \in DOMAIN s |->
                IF s[i].kind = "inner" THEN inners[s[i].id].child ELSE <<s[i]>>])

Level ==
    LET level[d \in 0 .. Len(inners)] ==
            IF d = 0 THEN <<root>> ELSE Below(level[d - 1])
    IN  level

\* The nodes of the tree.
Reachable == LET level == Level IN UNION { ToSet(level[d]) : d \in DOMAIN level }

InnerOfTree == {id.id : id \in {x \in Reachable : x.kind = "inner"}}

\* The leaves along next, from the first leaf of the tree.
Chain ==
    LET first == Level[Len(inners)][1].id
        along[n \in 1 .. Len(leaves)] ==
            IF n = 1 THEN <<first>>
            ELSE LET s == along[n - 1]
                     next == leaves[s[Len(s)]].next
                 IN  IF next = None THEN s ELSE Append(s, next)
    IN  along[Len(leaves)]

\* The entries in the order iteration visits them.
Entries == LET chain == Chain
           IN  FlattenSeq([i \in DOMAIN chain |-> leaves[chain[i]].data])

\* The leaf in which a descent ends that goes on to child Choose(n) of a node n.
DescendBy(Choose(_)) ==
    LET at[d \in 0 .. Len(inners)] ==
            IF d = 0 THEN root
            ELSE LET id == at[d - 1]
                 IN  IF id.kind = "leaf" THEN id
                     ELSE inners[id.id].child[Choose(inners[id.id])]
    IN  at[Len(inners)].id

\* The leaf a descent for k ends in: locate_leaf without the cache.
LeafFor(k) == DescendBy(LAMBDA n : LocateChild(n, k))

\* first_leaf
FirstLeaf == DescendBy(LAMBDA n : 1)

\* last_leaf
LastLeaf == DescendBy(LAMBDA n : InnerSize(n) + 1)

\* first and last: a pair of key and value, or None.
FirstEntry == IF len = 0 THEN None ELSE leaves[FirstLeaf].data[1]
LastEntry  == IF len = 0 THEN None ELSE leaves[LastLeaf].data[LeafSize(leaves[LastLeaf])]

-----------------------------------------------------------------------------
(* Safety                                                                  *)

(***************************************************************************)
(* Every node below the root keeps its minimum at every step, but for the  *)
(* inner node whose InnerUnderSize the ascent of a removal is reporting.   *)
(* It bounds the depth of the tree (VisitStack holds MAX_DEPTH entries),   *)
(* and gives every undersized leaf a sibling to borrow from or merge with. *)
(***************************************************************************)
Filled ==
    \A id \in Reachable \ {root} :
        IF id.kind = "leaf"
        THEN LeafSize(leaves[id.id]) >= LEAF_MIN
        ELSE InnerSize(inners[id.id]) >= IF pc = "remove_ascend" /\ r.tag = "InnerUnderSize"
                                         THEN MIN_N - 1 ELSE MIN_N

(***************************************************************************)
(* The leaf chain that iterators, cursors and validate() follow: at every  *)
(* step, also while a new leaf is not yet in its parent, next meets every  *)
(* leaf of the store once, prev leads back, the ends are open, and the     *)
(* keys ascend strictly across leaf boundaries.                            *)
(***************************************************************************)
ChainOrdered ==
    LET chain == Chain
        es    == Entries
    IN  /\ ToSet(chain) = LeafAlive
        /\ Len(chain) = Cardinality(LeafAlive)
        /\ \A n \in DOMAIN chain :
               leaves[chain[n]].prev = IF n = 1 THEN None ELSE chain[n - 1]
        /\ leaves[chain[Len(chain)]].next = None
        /\ \A n \in 1 .. Len(es) - 1 : es[n][1] < es[n + 1][1]

(***************************************************************************)
(* Between calls the tree and the chain agree: the leaves below the root,  *)
(* from left to right, are the chain, and all lie at one depth, so that    *)
(* the unchecked casts leaf_id_unchecked and inner_id_unchecked of a       *)
(* sibling are right.  No inner node outside the tree holds a key: only    *)
(* the roots that gave way to their child stay behind in the store.        *)
(***************************************************************************)
TreeIsChain ==
    pc = "idle" =>
        LET level == Level
            below == level[Len(inners)]
        IN  /\ [i \in DOMAIN below |-> below[i].id] = Chain
            /\ \A d \in DOMAIN level : \A a, b \in ToSet(level[d]) : a.kind = b.kind
            /\ InnerOfTree \cap takenInners = {}
            /\ \A i \in DOMAIN inners \ (InnerOfTree \cup takenInners) :
                   InnerSize(inners[i]) = 0

(***************************************************************************)
(* Between calls the separators route every stored key to the leaf that    *)
(* holds it, although removals leave separators behind that are no longer  *)
(* keys, and rotations replace them.                                       *)
(***************************************************************************)
EveryKeyIsFound ==
    pc = "idle" =>
        \A l \in LeafAlive : \A i \in DOMAIN leaves[l].data :
            LeafFor(leaves[l].data[i][1]) = l

(***************************************************************************)
(* A cache hit answers as the descent would, for present and absent keys:  *)
(* try_cache looks only at the cached leaf's own first and last key, and   *)
(* splits, rotations and merges change these under it.                     *)
(***************************************************************************)
CacheSound ==
    pc = "idle" => \A k \in Key : CacheHit(k) => LeafFor(k) = cached

(***************************************************************************)
(* The augmentation of a child is that of the subtree it names, except on  *)
(* the path that an ascent, after the leaf has changed, has yet to climb.  *)
(***************************************************************************)
AugmentationExact == Counted(InnerOfTree)

(***************************************************************************)
(* The nodes a descent for k meets at each depth, and the keys for which   *)
(* it meets each node; the right half of a split is met as if its parent   *)
(* knew of it.                                                             *)
(***************************************************************************)
RouteOf(k) ==
    LET Half(x) == IF IsSplit /\ x = Current /\ r.k <= k THEN r.right ELSE x
        at[d \in 0 .. Len(inners)] ==
            IF d = 0 THEN Half(root)
            ELSE LET x == at[d - 1]
                 IN  IF x.kind = "leaf" THEN x
                     ELSE Half(inners[x.id].child[LocateChild(inners[x.id], k)])
    IN  Range(at)

Ranges == LET routes == {[key |-> k, nodes |-> RouteOf(k)] : k \in Key}
              ids    == {Leaf(l) : l \in DOMAIN leaves} \cup {Inner(i) : i \in DOMAIN inners}
          IN  [x \in ids |-> {route.key : route \in {m \in routes : x \in m.nodes}}]

(***************************************************************************)
(* The strengthening of EveryKeyIsFound that holds at every step: the keys *)
(* which the separators route to a node are those its parent gives it, no  *)
(* node is without some, leaves hold no others, and the chain follows the  *)
(* order of the routes.                                                    *)
(***************************************************************************)
KeysRouted == LET R == Ranges
                  T == {i \in DOMAIN inners : R[Inner(i)] # {}}
              IN  InnersFilled(T) /\ InOrder(T, R)

-----------------------------------------------------------------------------
(* Queries by index and by rank                                            *)

(***************************************************************************)
(* get_ref_by_augmentation with a Count query: the entry of index i, or    *)
(* None.  at is the node reached at each depth and what is left of i.      *)
(***************************************************************************)
GetByIndex(i) ==
    LET at[d \in 0 .. Len(inners)] ==
            IF d = 0 THEN [id |-> root, query |-> i]
            ELSE LET p == at[d - 1]
                 IN  IF p.id = None \/ p.id.kind = "leaf" THEN p
                     ELSE LET n == inners[p.id.id]
                              l == LocateInInner(p.query, n.aug)
                          IN  [id    |-> IF l.child = 0 THEN None ELSE n.child[l.child],
                               query |-> l.query]
        end  == at[Len(inners)]
        slot == LocateInLeaf(end.query, LeafKeys(leaves[end.id.id]))
    IN  IF end.id = None \/ slot = 0 THEN None ELSE leaves[end.id.id].data[slot]

(***************************************************************************)
(* rank_by_augmentation: the number of elements before k.  at is the node  *)
(* reached at each depth and the rank folded on the way.                   *)
(***************************************************************************)
RankOf(k) ==
    LET at[d \in 0 .. Len(inners)] ==
            IF d = 0 THEN [id |-> root, rank |-> 0]
            ELSE LET p == at[d - 1]
                 IN  IF p.id.kind = "leaf" THEN p
                     ELSE LET n == inners[p.id.id]
                              c == LocateChild(n, k)
                          IN  [id   |-> n.child[c],
                               rank |-> FoldInner(p.rank, SubSeq(n.aug, 1, c - 1))]
        end == at[Len(inners)]
    IN  FoldLeaf(end.rank, LocateSlot(leaves[end.id.id], k))

(***************************************************************************)
(* Between calls len, the root's count and the order statistics agree with *)
(* the entries in iteration order: index i finds the i-th entry, one past  *)
(* the end finds none, a key's rank is the number of smaller keys, and     *)
(* first and last are the entries of the first and the last index.         *)
(***************************************************************************)
OrderStatistics ==
    pc = "idle" =>
        LET es == Entries
        IN  /\ len = Len(es) /\ rootAug = len
            /\ \A i \in 0 .. len - 1 : GetByIndex(i) = es[i + 1]
            /\ GetByIndex(len) = None
            /\ \A k \in Key : RankOf(k) = Cardinality({n \in 1 .. len : es[n][1] < k})
            /\ FirstEntry = GetByIndex(0)
            /\ LastEntry = IF len = 0 THEN None ELSE GetByIndex(len - 1)

-----------------------------------------------------------------------------
(* The tree implements an ordered map                                      *)

\* The map the leaves of the store hold.
Contents ==
    LET pairs == UNION { ToSet(leaves[l].data) : l \in LeafAlive }
    IN  [k \in {p[1] : p \in pairs} |-> (CHOOSE p \in pairs : p[1] = k)[2]]

Took(x) == [op |-> "took", answer |-> x]

\* The call in progress, as the map knows it.
Request ==
    CASE call.op = "remove_by_augmentation" -> [op |-> call.op, i |-> call.i]
      [] call.op = "get_mut_by_augmentation" ->
             [op |-> call.op, i |-> call.i, v |-> call.v]
      [] OTHER -> call

\* The call in progress, until its effect on the leaves; then its answer.
Pending ==
    IF pc = "insert_ascend" THEN Took(IF r.tag = "Updated" THEN r.v ELSE None)
    ELSE IF pc = "remove_ascend" /\ r.tag # "LeafUnderSize" THEN Took(Removed(r.kv))
    ELSE Request

Map == INSTANCE OrderedMap
       WITH dict <- Contents, size <- len, pending <- Pending, answer <- ret

(***************************************************************************)
(* Every behaviour of the tree is one of the ordered map: each call takes  *)
(* effect at once, in the step that changes the leaves (for a removal that *)
(* rebalances, the step that rotates or merges), answers what the map held *)
(* then, and leaves len() equal to the number of entries.                  *)
(***************************************************************************)
ImplementsMap == Map!MapSpec

-----------------------------------------------------------------------------
(* Liveness                                                                *)

(***************************************************************************)
(* Every call returns: no descent runs in a circle, and the ascent of a    *)
(* removal never meets the undersized leaf without a sibling for which     *)
(* handle_leaf_under_size has only unreachable!().                         *)
(***************************************************************************)
EveryCallReturns == pc # "idle" ~> pc = "idle"
=============================================================================
