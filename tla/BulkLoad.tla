------------------------------ MODULE BulkLoad ------------------------------
(***************************************************************************)
(* bulk_load (src/src/tree/bulk_load.rs): a tree built bottom up from data *)
(* sorted by key, and from_iter of the map and the set, which sort first.  *)
(* Leaves are filled to the brim from left to right, then each layer of    *)
(* inner nodes takes the nodes of the layer below in chunks of INNER_N + 1 *)
(* children, until a layer has one node.  The last leaf and the last chunk *)
(* of a layer get what is left over.  A tree that is loaded begins its     *)
(* life so, and goes on as any other.                                      *)
(***************************************************************************)
EXTENDS BPlusTree

CONSTANT Loads    \* the inputs of from_iter: sequences of pairs

\* Mutation: keeps the first of neighbours with the same key.
Mutant_DedupKeepLast(items) ==
    LET First(i) == i = 1 \/ items[i][1] # items[i - 1][1]
        at       == SelectSeq([i \in DOMAIN items |-> i], First)
    IN  [n \in DOMAIN at |-> items[at[n]]]

\* DeDupKeepLast: of neighbours with the same key, the last.
DedupKeepLast(items) ==
    LET IsLast(i) == i = Len(items) \/ items[i][1] # items[i + 1][1]
        at        == SelectSeq([i \in DOMAIN items |-> i], IsLast)
    IN  [n \in DOMAIN at |-> items[at[n]]]

\* s cut into pieces of the given size, the last of which may be shorter.
Chunks(s, size) ==
    [n \in 1 .. (Len(s) + size - 1) \div size |->
        SubSeq(s, (n - 1) * size + 1,
                  IF n * size <= Len(s) THEN n * size ELSE Len(s))]

\* set_data, set_prev and set_next for every leaf.
LoadedLeaves(items) ==
    LET chunks == Chunks(items, LEAF_N)
    IN  [n \in DOMAIN chunks |->
            [data |-> chunks[n],
             prev |-> IF n = 1 THEN None ELSE n - 1,
             next |-> IF n = Len(chunks) THEN None ELSE n + 1]]

\* What a layer passes up for each of its nodes: id, start key, augmentation.
LeafLayer(lvs) ==
    [n \in DOMAIN lvs |-> [id    |-> Leaf(n),
                           start |-> lvs[n].data[1][1],
                           aug   |-> FromLeaf(LeafKeys(lvs[n]))]]

\* Mutation: separators from the child to their left.
Mutant_InnerOver(childs) ==
    [keys  |-> [n \in 1 .. Len(childs) - 1 |-> childs[n].start],
     child |-> [n \in DOMAIN childs |-> childs[n].id],
     aug   |-> [n \in DOMAIN childs |-> childs[n].aug]]

\* InnerNode::new_from_iter over one chunk of a layer.
InnerOver(childs) ==
    [keys  |-> [n \in 1 .. Len(childs) - 1 |-> childs[n + 1].start],
     child |-> [n \in DOMAIN childs |-> childs[n].id],
     aug   |-> [n \in DOMAIN childs |-> childs[n].aug]]

\* Mutation: the augmentation of a new node counts its children.
Mutant_InnerLayer(built) ==
    IF Len(built.layer) = 1 THEN built
    ELSE LET chunks == Chunks(built.layer, INNER_N + 1)
             nodes  == [n \in DOMAIN chunks |-> InnerOver(chunks[n])]
         IN  [inners |-> built.inners \o nodes,
              layer  |-> [n \in DOMAIN chunks |->
                             [id    |-> Inner(Len(built.inners) + n),
                              start |-> chunks[n][1].start,
                              aug   |-> Len(chunks[n])]]]

\* One turn of build_inner_layer: a layer of one node is the root.
InnerLayer(built) ==
    IF Len(built.layer) = 1 THEN built
    ELSE LET chunks == Chunks(built.layer, INNER_N + 1)
             nodes  == [n \in DOMAIN chunks |-> InnerOver(chunks[n])]
         IN  [inners |-> built.inners \o nodes,
              layer  |-> [n \in DOMAIN chunks |->
                             [id    |-> Inner(Len(built.inners) + n),
                              start |-> chunks[n][1].start,
                              aug   |-> FromInner(nodes[n].aug)]]]

\* build_inner_layer: turns until one node is left; further turns change nothing.
BuildInnerLayers(layer) ==
    FoldLeft(LAMBDA built, turn : InnerLayer(built),
             [inners |-> <<>>, layer |-> layer], layer)

\* A node store of bulk_load, and the id of the root over it.
Loaded(items) ==
    LET lvs   == LoadedLeaves(DedupKeepLast(items))
        built == BuildInnerLayers(LeafLayer(lvs))
    IN  [leaves |-> lvs, inners |-> built.inners, root |-> built.layer[1].id]

\* bulk_load and new_from_parts: the tree a client gets for the input items.
LoadInit(items) ==
    IF items = <<>> THEN Init
    ELSE LET loaded == Loaded(items)
         IN  /\ leaves = loaded.leaves /\ inners = loaded.inners
             /\ takenLeaves = {} /\ takenInners = {}
             /\ root = loaded.root /\ rootAug = AugOf(root)
             /\ len = Len(DedupKeepLast(items)) /\ cached = None
             /\ pc = "idle" /\ call = NoCall /\ node = None
             /\ stack = <<>> /\ r = None /\ ret = None

\* Mutation: a sort that may turn pairs with one key around.
Mutant_SortByKey(items) ==
    LET Before(i, j) == \/ items[i][1] < items[j][1]
                        \/ items[i][1] = items[j][1] /\ i > j
        order == SortSeq([i \in DOMAIN items |-> i], Before)
    IN  [n \in DOMAIN items |-> items[order[n]]]

\* Vec::sort_by on the keys, which is stable: pairs with one key keep their order.
SortByKey(items) ==
    LET Before(i, j) == \/ items[i][1] < items[j][1]
                        \/ items[i][1] = items[j][1] /\ i < j
        order == SortSeq([i \in DOMAIN items |-> i], Before)
    IN  [n \in DOMAIN items |-> items[order[n]]]

\* FromIterator of the map and of the set: sort, then bulk_load.
FromIter(items) == LoadInit(SortByKey(items))

BulkInit == \E items \in Loads : FromIter(items)

BulkSpec == BulkInit /\ [][Next]_vars /\ WF_vars(Step)
=============================================================================
