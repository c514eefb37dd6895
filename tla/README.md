# A TLA+ verification of sweep-bptree

sweep-bptree is an in-memory B+ tree library in Rust.  Each inner node keeps,
beside every child, an *augmentation* of that child's subtree (a count, a
number of groups), so that the tree also answers queries by index and by rank.
This directory holds TLA+ modules translated from the source, TLC models that
check them, and TLAPS proofs about them.  Paths below are relative to
`src/src/`.

Contents: 1 the system; 2 the modules; 3 how the model corresponds to the
code; 4 the runs; 5 the proofs; 6 the disagreements found; 7 what is not
modelled.

## 1. The system

| Component | State | Operations | Interacts with |
|---|---|---|---|
| Tree (`tree/mod.rs`, `tree/tree_remove.rs`) | root id, root augmentation, length | insert, get, get_mut, remove, remove_by_augmentation, get_by_augmentation, get_mut_by_augmentation, rank_by_augmentation, first, last, clear | asks the store for nodes by id, calls node operations, calls the augmentation |
| Visit stack, entry ref (`tree/entry_ref.rs`) | the path of a descent, at most MAX_DEPTH entries | push, pop | filled by a descent, emptied by the ascent of the same call; an EntryRef carries it from the search to the removal |
| Leaf node (`tree/leaf_node.rs`) | size, keys, values, prev, next | upsert, split, delete, pop, push, merge, in_range | called by the tree; linked into a chain |
| Inner node (`tree/inner_node.rs`) | size, keys, children, augmentations | locate, insert, split, remove slot, merge, pop, push | called by the tree |
| Node store (`tree/node_stores/vec_backed.rs`) | a vector of leaves, one of inner nodes, the cached leaf | allocate, get, take, assign, cache_leaf, try_cache | owned by the tree |
| Count (`augment/count.rs`) | a number | from_leaf, from_inner, locate, fold | called by the tree |
| Group count (`augment/group.rs`) | number of groups, outermost groups with their counts | the same | called by the tree |
| Bulk loading (`tree/bulk_load.rs`) | a tree under construction | dedup, leaf layer, inner layers | called by `map.rs`, `set.rs` |
| Cursors (`tree/cursor.rs`) | a key, a leaf hint, an offset hint | first, last, prev, next, value | outlive changes of the tree |
| Iterators (`tree/iterator.rs`) | a position from the front, one from the back, a count | next, next_back, drop of what is left | follow the leaf chain |
| Merge iterator, set operations (`merge_iter.rs`, `set.rs`) | one item held back | nexts, lens | two iterators |
| Map and set (`map.rs`, `set.rs`) | a tree | delegation | the tree |

**What is hard here.**  Nothing is persisted, and a call that changes the tree
has it to itself; the difficulty lies in long sequences of calls and in what one
call does in several steps:

* A removal that would leave a leaf under its minimum does *not* delete: it
  passes a slot to its parent, and the entry goes while the parent rotates or
  merges (`LeafDeleteResult::UnderSize`).  The repair of an inner node
  is passed up in the same way.
* Node arrays are written through unchecked slices.  That nothing overflows is
  nowhere checked; it follows from what `is_full`, `able_to_lend` and the
  minimum sizes say in different files, at different steps.
* A cached leaf id survives splits, rotations and merges, and is trusted from
  the leaf's own first and last key.
* Separators are copies of keys that may be gone.
* Augmentations on the path are stale until the ascent has passed.
* Prev and next links, parents and children are patched by separate writes.
* `bulk_load` builds nodes that insertion never builds.
* A group of keys may begin and end in the middle of leaves and span nodes of
  every layer; group counts are merged, searched and ranked across them.
* A cursor does not borrow the tree: its leaf may be split, merged, taken or
  refilled before it is used again.
* `get` takes `&self` and yet stores the cached leaf, so that threads that share
  a tree write it under one another's lookups.
* `IntoIter` moves pairs out of their slots from both ends and leaves the rest to
  its drop; nothing but a count keeps the ends apart.

Properties that make each component correct: the tree is an ordered map
(results, contents, length); its nodes neither overflow nor fall under their
minimum; its leaves lie at one depth and form an ordered, doubly linked chain;
separators route every key to its leaf; the cache answers as a descent would;
augmentations describe the subtrees they stand beside, hence indices and ranks
are right; every call returns.  A cursor behaves as its key would in the map as
it is now; an iterator gives every entry once and in order; readers that share
the tree read what the map holds.  `PROJECT.json` lists the hazards, at their
lines, each with the properties that cover it.

## 2. The modules

| Module | Models |
|---|---|
| `CountAugment` | `augment/count.rs`: the five functions of Count |
| `LeafNode`, `InnerNode` | the operations of the two kinds of node, as operators from node to node |
| `BPlusTree` | the tree over its store and cache: one action per turn of each loop of the code |
| `BPlusTreeInv` | types, capacity, balance, parents and siblings, and the inductive invariants |
| `TreeProperties` | shape, chain, routes, cache, augmentations, order statistics, the refinement mapping, liveness |
| `OrderedMap` | the abstract specification: a finite map of which each call takes effect at one instant |
| `BulkLoad` | `tree/bulk_load.rs` and `from_iter` of map and set, as another way a tree's life begins |
| `GroupAugment` | `augment/group.rs`: group counts, their merge, search, rank and visitor |
| `GroupQueries` | the queries of a tree with group counts, and their properties |
| `Cursor` | `tree/cursor.rs`: a client with a cursor, beside the calls of the tree |
| `Iterators` | `tree/iterator.rs`: `Iter` and `IntoIter` from both ends, the drop of a tree |
| `Readers` | threads in `get` on a shared tree, one action per access to the cached leaf |
| `MergeIter` | `merge_iter.rs` and `Union` of `set.rs` |
| `MCBPlusTree`, `MCGrowShrink`, `MCScripted`, `MCBulk`, `MCViews` | instances for TLC |
| `BPlusTreeProofs` | lemmas on node operations and on the store, and the first theorems of the specification |
| `OwnerProofs` | theorems on parents and siblings |
| `OrderProofs`, `RouteProofs` | lemmas on the order of keys in nodes and of leaves in the chain; the induction over the routes of keys |
| `CountProofs` | the theorems that follow from the routes; the augmentations |
| `MapProofs` | the refinement: the tree implements the ordered map |
| `QueryProofs` | the chain of leaves as a walk, the entries along it, the order statistics, the routes from the root down, the levels |
| `ViewProofs` | theorems on the readers, the cursors, the iterators and the union |

`BPlusTree` extends `CountAugment`, `LeafNode` and `InnerNode`; `TreeProperties`
extends it through `BPlusTreeInv` and instantiates `OrderedMap` with a
refinement mapping; `BulkLoad` extends `BPlusTree` and reuses all its actions.
`Cursor`, `Iterators` and `Readers` extend `TreeProperties` and add the variables
of a client to those of the tree; each says which of its steps may interleave with
the tree's.  `MCViews` puts them, `BulkLoad` and `MergeIter` together, with one kind of
client in each behaviour.  `GroupQueries` extends `TreeProperties` and `GroupAugment`;
`MCBulk` extends it and `BulkLoad`.

## 3. How the model corresponds to the code

**State.**  `leaves[i]` is slot i of `leaf_nodes`: the pairs `slot_key[..size]`
with `slot_value[..size]` as one sequence `data`, and `prev`, `next`.
`inners[i]` is slot i of `inner_nodes`: `keys`, `child`, `aug`.  Ids, slots and
child positions count from 1; indices and ranks, which are answers of the
program, from 0.  A slot that `take_leaf` or `take_inner` emptied is in
`takenLeaves` or `takenInners`; ids are never reused, as in the code.
`cached` is `cached_leaf`, with `None` for `usize::MAX`.  `root`, `rootAug` and
`len` are the fields of the tree.

**Calls.**  `pc` names the loop a call is in; `call`, `node`, `stack` and `r`
are that loop's locals, and `ret` is what the call returned.  One step is one
turn of a loop:

| Code | Actions |
|---|---|
| `insert`, first loop of `insert_inner` | `InsertCall`, `InsertDescend` |
| `insert_leaf`: updated, inserted, full | `InsertLeafUpdate`, `InsertLeafInsert`, `InsertLeafSplit` |
| second loop of `insert_inner` | `InsertAscendSlot`, `InsertAscendSplit`, `InsertAscendInserted`, `InsertAscendUpdated` |
| return of `insert` | `InsertReturnInserted`, `InsertReturnUpdated`, `InsertReturnSplit` |
| `remove`, `key_to_ref` | `RemoveCall`, `KeyToRefDescend`, `KeyToRefMissing` |
| `remove_by_augmentation`, `get_ref_by_augmentation` | `RemoveByAugmentationCall`, `AugmentationDescend`, `AugmentationMissing` |
| `get_mut_by_augmentation` | `GetMutByAugmentationCall`, `AugmentationDescend`, `AugmentationMissing`, `GetMutInLeaf` |
| start of `remove_by_ref` (`try_delete_at`) | `RemoveInLeaf` |
| its ascent | `RemoveAscendDone`; `RotateRightInner`, `RotateLeftInner`, `MergeInner` (`handle_inner_under_size`); `RotateRightLeaf`, `RotateLeftLeaf`, `MergeLeafLeft`, `MergeLeafRight` (`handle_leaf_under_size`) |
| its handling of the root | `RemoveReturnDone`, `RemoveReturnInnerUnderSize`, `RemoveReturnLeafUnderSize` |
| `get`, `get_mut` | `GetCached`, `GetMutCached` (a cache hit), `GetCall`, `GetMutCall`, `FindDescend`, `FindInLeaf` |
| `clear` | `Clear` |
| `bulk_load`, `new_from_parts` | `LoadInit`, an initial state |
| `from_iter` of map and set | `FromIter`, an initial state |
| `Cursor::first`, `last`, `next`, `prev`, `value`, `exists`; `get_cursor` | `CursorFirst`, `CursorLast`, `CursorNext`, `CursorPrev`, `CursorValue`, `GetCursor` |
| `Iter::new`, `next`, `next_back` | `IterNew`, `IterNext`, `IterNextBack` |
| `IntoIter::new`, `next`, `next_back`, `drop`; `BPlusTree::drop` | `IntoIterNew`, `IntoIterCall`; `IntoNextTake`, `IntoNextLeaf`, `IntoBackTake`, `IntoBackLeaf`, `IntoIterDropped` |
| `get` among other threads | `ReaderCall`, `ReaderTryCache`, `ReaderDescend`, `ReaderCacheLeaf`, `ReaderFindInLeaf`, `ReaderReturn` |
| `Union::next` over `MergeIterInner::nexts` | `UnionNext` |

The steps are finer than what a client can see, since a call borrows the tree;
they are there because the intermediate states are where the invariants are
hard, and because each loop has its own way of going wrong.  Where the code
panics (`unreachable!()`, `debug_assert!`) no action is enabled, so that a
panic shows as a call that never returns.

**Clients beside the tree.**  A cursor and an iterator only read, so a use of one
is one step (a turn of the recursion, for `IntoIter`) between calls.  The cursor is
kept while calls run; an iterator borrows or owns the tree, so no call runs while
there is one.  `IntoIter` records the places it took pairs from, in `front` and
`back`.  In `Readers` the tree is shared: no call changes it, and all that changes is
the cached leaf, one atomic whose accesses are relaxed.  Accesses to a single location
have a total order also when relaxed, so interleaving them loses nothing.

**Groups.**  The tree treats every augmentation alike, and `AugmentationExact`
shows that between calls each child's is that of its subtree.  `GroupQueries`
therefore computes group counts from the tree as it stands, with `GroupFromLeaf`
and `GroupFromInner`, and runs the searches on them.  A key of two parts (g, x),
x < width, is the integer g * width + x.

**Data.**  Keys are integers and values are model values.  A binary search is
the count of the smaller keys, which is what it returns on sorted keys (that
they are sorted is checked: `ChainOrdered`).  `iter().sum()` over counts is the
cardinality of a disjoint union (`Total`), which needs no recursion.  The
statistic counters and the formatting are left out.

**Constants.**  `LEAF_N` and `INNER_N` are parameters (64 in `consts.rs`); the
minimum sizes are computed from them as in the code.  The proofs assume
`LEAF_N >= 2`, `INNER_N >= 4` (so that an inner node's minimum is not zero),
that keys are integers, and that `None` is neither a value, nor a node or the number
of one, nor the state of an iterator (`NodeAssumption`, `IteratorAssumption`: in the code
these are `Option`s).  `MaxLeaf` bounds how
many leaves one store allocates; it guards only `InsertCall`.

## 4. The runs

| Run | Instance | Checks |
|---|---|---|
| `small_tree` | LEAF_N 2, INNER_N 4, five keys, at most five leaves allocated; exhaustive, about 349 000 states | `TypeOK`, `IInv`, `ChainOrdered`, `LeafChain`, `CacheSound`, `OrderStatistics` |
| `map_small` | as above, four keys, two values, four leaves; about 267 000 states | `ImplementsMap`, `EveryCallReturns` |
| `two_levels` | LEAF_N 2, INNER_N 4, eight keys, seven leaves; a client that inserts ascending keys and removes any; exhaustive, 290 001 states | `IInv`, `Balanced`, `TreeShaped`, `SiblingAtHand`, `KeysRouted` |
| `tall` | 19 keys inserted, some removed, then any two calls; three levels of inner nodes | `Filled`, `TreeIsChain`, `EveryKeyIsFound`, `AugmentationExact`, `ImplementsMap` |
| `quarter_min` | LEAF_N = INNER_N = 8, 45 keys inserted, some removed, then any call | `NoOverflow`, `Filled`, `OrderStatistics` |
| `bulk` | LEAF_N 4, INNER_N 8, loads of 16, 41 and 44 keys, sorted, or unsorted with two values each; some removed, then any call | `SiblingAtHand`, `EveryKeyIsFound`, `LoadedMap`, `EveryCallReturns` |
| `bulk_layers` | LEAF_N 2, INNER_N 4, unsorted loads of 10, 23 and 63 keys with two values each, then any call; groups of 3 and of 17 keys | `OrderStatistics`, `GroupStatistics`, `GroupRankKept`, `LoadedMap` |
| `views` | LEAF_N 2, INNER_N 4, loads of 0, 3 and 13 keys, up to three calls, and a client: a cursor, an iterator of either kind, two threads, or a union of two sets of keys 1..4 | `CursorIsItsKey`, `IterInOrder`, `MovedOutOnce`, `IntoIterReturns`, `ReadersSeeTheMap`, `EveryReaderReturns`, `UnionInOrder`, `SizeHintBounds` |
| `bulk_lone_child` | LEAF_N 2, INNER_N 4, loads that leave a lone child | `SiblingAtHand` is violated |
| `group_rank` | as `bulk_layers`, loads of 10 and 23 keys, all in one group | `GroupRankExact` is violated |
| `group_three` | LEAF_N 4, loads of 3 and 4 keys, groups of 2 keys | `MaxGroupCounted` is violated |
| `cursor_empty` | as `views`, with a cursor | `CursorFirstExists` is violated |

**Properties.**
`IInv` is the first of the inductive invariants of section 5, `KeysRouted` the part
of the third that says where keys are: the separators share the keys out among the
children of each node, leaves hold no keys but their share, and next is the leaf with
the next share; at every step, also while a half of a split is not yet in its parent.
`ChainOrdered`: next meets every leaf of the store once, prev leads back, the
ends are open, the keys ascend across leaves; at every step.
`LeafChain`: the same without a walk, in the form that is proved: the leaves are
ordered by their keys, next is the least of the later ones, prev leads back, only the
ends of the order have an open link.
`CacheSound`: a cache hit names the leaf the descent would find, for present
and absent keys.
`OrderStatistics`: length, root count, index queries and ranks agree with the
entries in iteration order; first and last are its ends.
`Filled`: no node but the root falls under its minimum, save by one key while
the ascent reports it; with it the depth is bounded and undersized nodes have
siblings.
`Balanced`: one height fits every inner node.
`TreeIsChain`: the leaves under the root, left to right, are the chain, at one
depth; nodes that left the tree hold nothing.
`EveryKeyIsFound`: separators route each stored key to its leaf.
`AugmentationExact`: each augmentation is that of its child, except on the path
still to be ascended.
`SiblingAtHand`: an undersized node that is not the root has a sibling.
`TreeShaped`: no node of the tree has two parents or is twice the child of one, and
each inner node has its minimum of keys, save the one that the ascent reports.
`ImplementsMap`: every behaviour is one of `OrderedMap` under the mapping
`Contents`, `len`, `Pending`, `ret`; each call takes effect in the one step that
changes the leaves, and answers what the map held then.
`LoadedMap`: the same after `from_iter`, which yields the last value of each key.
`EveryCallReturns`: a call in progress ends.
`GroupStatistics`: the root knows the number of groups, each group its size, and an
offset in a group finds that member, or none past its end.
`GroupRankKept`: a key's rank in its group is right wherever the path to it does not
forget what it has counted (section 6 has the paths that do).
`CursorIsItsKey`: next, prev and value of a cursor answer from the map as it is now,
whatever calls came since the cursor was made.
`IterInOrder`: either end of `Iter` gives the entries in order from its end and stops
only at the other end of the tree.
`MovedOutOnce`, `IntoIterReturns`: every mix of next, next_back and drop of an
`IntoIter` moves each pair out of its slot exactly once, and never meets an
`unreachable!()`.
`ReadersSeeTheMap`, `EveryReaderReturns`: gets of threads that share the tree and
overwrite its cached leaf answer from the map, and end.
`UnionInOrder`, `SizeHintBounds`: the union ascends and is complete; its size hint
bounds what is left.

**Bounds, and why they are enough.**  The code compares sizes with two
thresholds, capacity and minimum, and looks at one sibling on each side; what
matters is that each side of each comparison, each sibling configuration and
each cascade occurs.
*Capacity 2 and 4* make the minima 1 and 1: every removal from a one-entry leaf
borrows or merges.  An exhaustive search over five keys covers every order of
leaf splits, rotations and merges under a root that appears and collapses.  An
inner split needs six leaves alive, too many for a search over all calls.
`two_levels` reaches it, and every order of the rotations and merges of inner
nodes that follow, with a client that makes fewer calls.  `tall` begins with a
script (executed by the same actions, so its steps are checked too) that puts a
taller tree where removals cascade, and then lets a client make any two calls:
two suffice for a removal that cascades to the root and a call on what it left.
*Capacity 8* separates the minimum (2) from one and half of the capacity from the
minimum, as 64 and 16 do; there siblings may differ in size, which decides
between the two rotations of a leaf, and a merge is not always of nearly empty nodes.
*The loads* leave last leaves and last chunks of several lengths; 16, 41 and 44
at capacity 4 and 8 give one layer, and two layers whose last chunk has two and
few children; 10, 23 and 63 at 2 and 4 give one to three layers.  `bulk` and
`bulk_layers` leave out the loads of section 6, where a chunk has a lone child.
Groups of three keys end in the middle of leaves of two; groups of 17 begin in one
inner node and end in another, at both layers.  No leaf of two keys has three groups,
which is `group_three`'s.
*The views* are of an empty tree, a tree of two leaves, where three calls split, merge
and refill the leaf of a cursor, and one of seven leaves under two layers of inner
nodes, where the client names the keys around the separators of the root (`MCAsked`)
and makes one call.  Two threads suffice for a cached leaf that changes between a
load and its use: what a third one stores differs in nothing from what the second does.
Subsets of four keys give a union every alternation of the sides, and the empty side.
`views` leaves out the loads of section 6 as well (11 and 12 keys at this capacity).
*MaxLeaf* limits insertions only (a store never reuses ids); at each bound
removals, gets and clear go on, so no behaviour ends because of it.

**Deadlock** is checked in every run.  In the scripted instances a client that
has made its calls may stop (`Finished`), and in `MCViews` a union that has given
its last item, or a tree that its `IntoIter` has consumed, may rest (`Over`): these
are the only idle stutters.

**Fairness.**  `WF_vars(Step)`: a call that has begun continues.  The code is
sequential and never waits, so the thread that made the call runs it to its end;
`Step` has at most one way to go in any state.  No fairness is assumed of
clients: `Call` may never happen.
`WF(IntoIterTurn)` and `WF(ReaderTurn(t))` of each thread: a `next`, `next_back`,
`drop` or `get` that has begun continues.  None of them waits for anything, so each
thread that the system schedules runs on.  No fairness is assumed of the
calls (`IntoIterCall`, `ReaderCall`), nor of any change by another thread.

Each property also has a mutation of the code (`Mutant_...`, listed in
`PROJECT.json`) under which the run finds it violated: a dropped guard, a link
or augmentation not written, a threshold off by one.

## 5. The proofs

`BPlusTreeProofs` proves, for every `LEAF_N >= 2`, `INNER_N >= 4`, set of integer
keys, set of values and `MaxLeaf`:

* `Invariance`: `Spec => []IInv`
* `TypeCorrect`: `Spec => []TypeOK`
* `NeverOverflows`: `Spec => []NoOverflow`
* `StaysBalanced`: `Spec => []Balanced`

`OwnerProofs` proves, under the same assumptions:

* `SiblingAlwaysAtHand`: `Spec => []SiblingAtHand`
* `StaysShaped`: `Spec => []TreeShaped`

`CountProofs` proves, under the same assumptions:

* `KeysStayFound`: `Spec => []EveryKeyIsFound`
* `CacheStaysSound`: `Spec => []CacheSound`
* `ChainStaysOrdered`: `Spec => []LeafChain`
* `StaysFilled`: `Spec => []Filled`
* `AugmentationsStayExact`: `Spec => []AugmentationExact`

`MapProofs` proves, under the same assumptions, the refinement:

* `TreeImplementsMap`: `Spec => ImplementsMap`

`QueryProofs` proves, under the same assumptions:

* `ChainStaysWhole`: `Spec => []ChainOrdered`
* `OrderStatisticsHold`: `Spec => []OrderStatistics`
* `RoutesStayWhole`: `Spec => []KeysRouted`
* `TreeStaysChain`: `Spec => []TreeIsChain`

`ViewProofs` proves, under the same assumptions, for the tree beside its clients:

* `ReadersAlwaysSeeTheMap`: `ReadersSpec => []ReadersSeeTheMap`
* `CursorsStayTheirKeys`: `CursorSpec => []CursorIsItsKey`
* `IterStaysInOrder`: `IteratorsSpec => []IterInOrder`
* `EachIsMovedOutOnce`: `IteratorsSpec => []MovedOutOnce`

and of the union of any two ascending sequences of integers:

* `UnionIsOrdered`: `UnionSpec => []UnionInOrder`
* `SizeHintIsRight`: `UnionSpec => []SizeHintBounds`

**The argument.**  That no array overflows is not inductive.  A merge joins a
node that was reported undersized with one that could not lend: at most
minimum + minimum entries (and the separator), which fits.  For this the
invariant must know, at the moment of the merge, that

1. what the ascent reports is true of the node it comes from (`ResultOK`): an
   `InnerUnderSize` node is under its minimum, a `LeafUnderSize` leaf cannot lend
   and has the slot;
2. this node is the child that the popped entry names (`Path`: the stack is a
   path from the root, each entry is about the child the next one is in); and
3. the changes made further down did not disturb the entries further up.  They
   are different nodes because heights fall along the path, hence a function
   from inner nodes to heights (`Levelled`), which must be carried through
   every step: a new right sibling has its left one's height (`ResultOK` again), a
   new root is one higher than the old one.

`IInv` is the conjunction of `TypeOK`, `NoOverflow` and the existence of heights
with these facts; `Balanced` is its weakening to the heights alone.  The heights
also give what the unchecked casts of siblings suppose: all children of a node
are of one kind.

**Layout.**  `BPlusTreeProofs` first states for every node operator its type and its size
(with lemmas about `InsertAt`, `RemoveAt`, `SubSeq`, `Front` and `Tail`), then shows what replacing or appending a node does to types,
capacity, heights and paths; last it has `InitOK`, one lemma per group of
actions, `StepOK`, and the temporal theorems.

**Parents and siblings.**  `SiblingAtHand` needs each parent to have a key, and that
is not inductive: a merge takes a key from a node, and only the entry that the visit
stack has for that node learns that it fell under its minimum.  If another node had
the same child, or a node were reached by two ways, a node could stay short unseen.
`InnersFilled(T)` therefore says of a set T of inner nodes that holds the root and is
closed under children that

1. no node of T shares a child with another, has a child twice, or has the root as a
   child, nor the right half of a split that no parent has yet (`Owned`);
2. each has its minimum of keys, the root one, and one less while the ascent reports
   just that node (`LeastKeys`);
3. the entries of the stack are about nodes of T, and both halves of a split are
   full enough to become children.

A root that gives way and a node merged away leave T, a new half or a new root enters.
Every action that changes children takes them from some nodes and deals them out
to others (`Pool`, `Dealt`); what each node operation leaves to whom is in
`BPlusTreeProofs`, and `OwnerProofs` has the lemma that dealing out keeps `Owned`, one
lemma per group of actions (`StepFilled`), and the temporal theorems, which combine
this induction with that of `IInv`.  Both theorems are about trees grown
from the empty one; in bulk-loaded ones a node may have no key (section 6).

**Routes.**  That a key is found where it lies says nothing of absent keys, of the
leaves without it, or of the middle of a call; it is far from inductive.  The third
invariant, `Routed(T, R)`, is about a function R from nodes to sets of keys, the keys
for which a descent meets the node.  It says, with `InnersFilled(T)`,

1. the root gets every key; the keys of each node of T are an interval, shared out
   completely among its children, and separator c is the *least* key of child c + 1 and
   above all of child c, although it need not be stored any more (`KeysShared`);
2. every leaf holds keys of its share only, in ascending order, and shares are disjoint
   (`LeavesHold`);
3. the shares of leaves are ordered, next is the leaf with the next larger share, prev
   leads back, and only the first and the last leaf have an open end (`LeavesLinked`);
4. every leaf but a lone root has its minimum (`LeavesFilled`), so that shares on
   both sides of a separator are never empty;
5. a descent for a key is at a node that gets it (`DescentRouted`).

While a split is on its way up, the parent still gives the left half the share of both:
this is what `Known(R)` says, and the separator that travels with the result (`r.k`) parts
the two.  An operation changes R where it changes separators: a split cuts the share
of a node in two, a rotation moves the boundary between two shares, a merge joins them;
for all other nodes R stays.  `OrderProofs` has what each operation on a leaf does to
its entries and their order, what each operation on an inner node does to `Routes`,
and what splits and merges do to the chain; `RouteProofs` goes through the actions
(`StepRouted`) and has the temporal step (`RoutedForever`).

`CountProofs` draws the conclusions.  A descent stays on nodes that get its key, so
it ends in the one leaf that does (`LeafForRouted`); what a leaf holds is in its share.  A
cached leaf that encloses a key with its own entries, or with an open end, must get that
key, since every other leaf's share lies wholly before or after it.  An
induction over the depth or the length, for which the library's theorems cannot be
used, is by a least counterexample (`CountUp`), and `LeafFor`, `Level` and `FlattenSeq`,
recursive functions, are shown to exist the same way.

**Augmentations.**  `Counted(T)` says of the inner nodes T that the augmentation
beside each child is that of the node the child names, unless the ascent of a call
that has changed its leaf has an entry on the stack for just that node and child
(`IsTelling`).  With `InnersFilled(T)` and `IInv` it is inductive.  A step writes a few
nodes, and those are right because every operation on an inner node moves children and
augmentations alike (`Along`, `Matched`), or sets what it has just computed.  For every
other node one must know that the augmentations of its children are what they were:
a child that was written has the written parent as its only parent (`TreeShaped` again),
and the node popped from the stack has its own parent in the next entry, because the stack
is a path from the root (`EndParent`).  `CountedKept` says this once, `AscendCounted` for
the steps of an ascent; `CountProofs` then has one lemma per group of actions, `StepCounted`
and the temporal theorem.  That the property excepts only the path still to be climbed, and
only while a change is being told, is what an earlier form of it left open: it excused
every entry of a stack at all times.

**The refinement.**  `ImplementsMap` asks that every step of the tree is a step of the
ordered map or leaves it as it is, under the mapping that takes the map from the leaves of
the store.  `MapProofs` sees it as the set of their pairs (`Stored`, `DictOf`).  Routes
make the shares of leaves disjoint, so no key is in two pairs, and a step that replaces
one leaf, or two neighbours by others with the same pairs but for one, puts one pair
(`StoredPut`) or drops one (`StoredDrop`), whatever splits, rotations and merges do besides.
That such a step is the effect of *this* call, and the answer what the map held then,
needs an invariant about the call in progress, `MapInv`, which joins to `IInv`, the routes
and the counts

1. `SizeRight`: `len`, which the code changes when a call returns, is the number of entries
   when the one that the call has put or taken is reckoned in;
2. `TargetSought`: the slot that waits in a `LeafUnderSize` for the parent to delete it
   holds the entry asked for, the one of the key or the one of the index;
3. `Aimed(R)`: in a descent by index, what is left of the index and the number of keys that
   are stored before the node make up the index of the call, and below the root the rest is
   smaller than the number of keys under the node.

`Aimed` is where the augmentations count.  `CountIsUnder` shows, from `Counted` and by
induction over the heights, that the count of a node is the number of stored keys among its
share, `LocateInInnerFinds` that the loop of `locate_in_inner` subtracts just the counts of the
children it passes; so the descent keeps its aim (`AugmentationDescendMaps`), ends at the entry
that has that many smaller keys (`IndexInLeaf`), and fails only at the root, for an index
past the end (`MissingIndex`).  Each action has a lemma that names the step of the map it
is: a call's begin, its effect, its return, several of these at once, or none.

**The readers.**  What makes `get` safe to share is that a thread trusts nothing of the
cache but what it checks itself.  `ReadersInv` therefore says nothing of `cached`, beyond
that it names a slot: while a thread is in a get the tree rests, the node its descent is
at gets its key (`ReaderKnows`, with the routes of the tree), and what it has found is what
the map holds.  A store to the cache by another thread, between any two of its steps,
changes none of this (`CachedMoves`); a leaf from the cache enters only through `InRange`,
and a leaf whose range holds a key is the one the key is routed to (`InRangeRouted`).

**The cursors.**  Likewise `CursorInv` asks of a cursor only that its key is a key and its
offset hint an offset: nothing ties the hints to the tree, which may have changed at will.
What a use answers is then a matter of the tree as it is.  A hint that names a leaf of the
tree with the key in its range leads to the leaf the key is routed to, any other is given
up for a descent (`HintIsRight`).  From there the neighbour of the key in the map, which
need not hold the key any more, is in the same leaf, or at the near end of the next one
along the list, or nowhere (`KeyAbove`, `KeyBelow`; that the next leaf is not empty is
`LeavesFilled`).  `first` and `last` go down the leftmost and the rightmost children, to the
leaf that no leaf precedes or follows (`EndLeafIs`, below).

**The chain as a walk.**  `LeafChain` relates each leaf to its neighbours; `ChainOrdered`
is about `Chain`, the walk along next, and the entries met on it.  One key out of the
share of each leaf numbers the leaves in their order (`Orders`); next leads to the leaf with
the next larger number, so a walk from the least one meets each leaf once and ends at the
largest (`Meets`).  That `FirstLeaf`, the end of a descent along leftmost children, is the
least one is `EndLeafIs`: an induction over the height, once more by a least
counterexample, in which the shares of the nodes on the way stay at that end of the keys.  On the right side this fails in the middle of a split, when the last leaf
may not be under the root yet, so the lemma excepts that case, and `ChainOrdered` does not
speak of `LastLeaf`.  The other half is about sequences: `FlattenSeq` of the leaves'
entries is described by the offset at which each leaf begins (`Offsets`, `JoinsTo`,
`FlattenIs`), and it ascends because each piece does and each ends below the next one's
beginning.  Where there are no keys at all (`Key = {}`), shares do not tell leaves
apart, and `ChainInv` needs that the root is then the only leaf (`EmptyWithoutKeys`).

**Order statistics.**  Along the chain the i-th entry has i - 1 smaller keys
(`RankByPosition`), so that an index or a rank can be spoken of as a number of stored keys.
`GetByIndex` and `RankOf` are descents, modelled as recursive functions on how far there is to
go; the invariant of the one is that what is left of the index and the keys stored before the
node make up the index (`Sought`, cf. `Aimed` above), of the other that what was counted on
the way is the number of keys stored before the node (`Ranked`).  Both are kept by a step
(`FindStays`, `RankStays`), as counts beside children are exact between calls, and at
the leaf the rest is an offset into it.  `StatisticsInv` joins to `MapInv` that the augmentation
of the root is `len`.

**Routes from the root down.**  `KeysRouted` computes the keys of each node by the descents of
all keys, where `Routed` supposes a function R.  The two agree: a descent for a key meets
only nodes that get it (`NodesFor`), and meets each of them (`RouteMeets`): one leaf gets
the key, and a node that gets it leads on to a child that is met, to which no other
node leads (an induction over the height).  Every node of the tree gets
some key (`NodesGetKeys`): one with a separator gets that; only a node that the ascent
reports may have none, and what its one child gets is its own.

**The levels.**  `TreeIsChain` says what becomes of nodes that leave the tree, which no
other invariant does.  `Spared(T)` is that: a taken inner node is not in T, and one
that is neither in T nor taken has no key left, as it was a root that gave way to its only
child.  So the steps of the induction must say which nodes T gains and loses
(`StepKept`), not only that there is a T again.  Between calls, a level of the tree lists
nodes of one height from left to right, each with keys of its own (`IsOrdered`); the
next level, which puts the children of each in its place, does so too (`NextLevel`,
with `FlattenInSequence`).  At the depth of the last one only leaves are left.  Every node
of T is on the route of some key, and a route goes through the levels (`NodesInLevels`),
so the inner nodes met are just T (`InnerOfTreeIs`).  The last level and the chain list
the same leaves in the same order, and two such lists are one (`ListsAreOne`).

**The iterators.**  `Places`, the slots of the entries in the order of the chain, do not
change while an iterator is there.  The positions an iterator keeps are what its ends
have given, in disguise: after n calls of next the front is at place n + 1 (`IterAt`), after n
calls of next_back the back is at the n-th from the last; so are `pos` and `end` of an
`IntoIter` (`IntoAt`), except that it may stand one past the end of a leaf and move on in a
turn of its own.  What makes these inductive is that a step to the next place is a
step within a leaf, or from the last place of a leaf to the first place of the next one
(`StepOn`, `StepBack`): which needs that the next leaf is not empty.  The two ends of an
`IntoIter` cannot pass each other, since `len` says how many places are between them.

**The union.**  The item held back is in neither source, which is what makes both
properties false as inductive claims.  `ViewProofs` puts it back in front of
its source (`LeftA`, `LeftB`): these two sequences ascend, all their items are
larger than what has been given, and the two sets are what has been given
and what is left in them (`UnionInv`).  `UnionInOrder` follows when nothing is left.  For
the size hint, an ascending sequence has as many items as its length says, and the
cardinality of a union of two sets lies between the larger one's and their sum.

**Only model-checked.**  Liveness (`EveryCallReturns`, `IntoIterReturns`,
`EveryReaderReturns`), which is out of the prover's reach.  `GroupStatistics` and `GroupRankKept` are
no theorems for every value of the constants: with `LEAF_N` of 3 or more and small groups
both fall to the miscounted leaves of `group_three` (section 6); run `bulk_layers` checks
them where a leaf has at most two groups.  `BulkLoad`, and with it `LoadedMap`, is outside the theorems, which are
about trees that grow from the empty one; a loaded tree may violate `SiblingAtHand`
(section 6), though the loads of run `bulk` do not.

## 6. Disagreements

**A lone child after bulk loading** (`bulk_lone_child`).
`handle_leaf_under_size` calls an undersized leaf without a sibling
`unreachable!()` (`tree/tree_remove.rs:186`). `build_inner_layer` cuts each
layer into chunks of INNER_N + 1 nodes; when one node is left over it becomes
the only child of an inner node without keys. In the run `bulk_lone_child` a
load of 11 keys (six leaves of two, the last of one, at five children to a node)
and the removal of key 11 reach the state in which the code panics. At the real
sizes that is a load of 65 * 64 + 1 to 65 * 64 + 64 distinct keys, through
`bulk_load` itself or `FromIterator` of map and set, followed by removals of its
greatest keys. The comment in `bulk_load.rs` (lines 9 and 10) admits only an
undersized last leaf, which by itself is harmless: the runs `bulk` and
`bulk_layers` load undersized last leaves and undersized last chunks of two
children and more, and hold.

**Ranks in a group that spans layers** (`group_rank`).  `fold_inner` of
`GroupCount` begins with `rev_iter.next()?` (`augment/group.rs:293`): where the
child on the path is the first of its node, the rank so far is dropped, although
the trait asks to "combine rank with all ranks for prev sibling augmentations"
(`augment/mod.rs:52`).  A group that fills several nodes of the lower of two layers
then restarts its ranks in the first child of each of them.  `test_group_large_group`
asserts the ranks of groups of 500 keys, but the nodes it builds form one layer.
`GroupRankKept` shows that, with at most two groups in a leaf, this is the only way
a rank goes wrong.

**Three groups in a leaf** (`group_three`).  `from_leaf` has one counter for all
groups after the first and does not reset it (`augment/group.rs:175`), so the
members of the middle groups, but for the first of each, are counted for the last,
whose count `max_group` documents as "it's item count" (`augment/group.rs:43`).
The run sees the count at the root; searches and ranks across leaves rest on it.

**A cursor on nothing** (`cursor_empty`).  `cursor_first` promises a cursor "from
first elem if exists" (`tree/mod.rs:623`), but an empty tree has a first leaf, and
`Cursor::first` reads its entry 0 (`tree/cursor.rs:46`), which was never written or
has been removed.  `Cursor::last` subtracts one from its length
(`tree/cursor.rs:66`).

**Not stated anywhere in the repository**, hence no run: the two ends of one `Iter`
do not know of each other.  `next_back` does not count down `len` and does not stop
where `next` has got to, so that using both gives entries twice, against the
contract of Rust's `DoubleEndedIterator`.  `IterInOrder` says what each end gives.

## 7. Not modelled

* **Ownership of array slots.**  An operator on sequences moves an entry without
  leaving a copy behind, so which slot owns a key, a value or an augmentation while
  a node is taken, merged or dropped is not in the model, nor are `Drop` and `Clone`
  of nodes.  `merge_next` moves the right node's augmentations away, sets its size
  to 0, and `Drop` still drops size + 1 of them: it is listed as a hazard without a
  property.  For a Count, which is Copy, it has no effect.  What `IntoIter` moves
  out of its slots is modelled.
* **Panics of caller code** in `Ord`, `Clone` and `Drop`, and allocation failure.
  A call of the model runs to its end.
* **Wrappers.**  The functions of `map.rs` and `set.rs` other than `from_iter` and
  `union` hand each call to the tree; `Clone`, `Hash`, `PartialEq` and `Debug` copy, compare
  or print the entries in order.  The augmentation `()` is empty.
* **Real sizes.**  Capacities are parameters; TLC uses 2, 4 and 8, the proofs
  cover all.  The depth bound MAX_DEPTH of the visit stack is a constant of the
  code for 64-entry nodes; the model's stack is unbounded, and `Filled`
  is what bounds the depth.
* **Statistics and formatting, benchmarks, examples and scripts.**

What could follow: proofs about the group counts of leaves with at most two groups, and that a bulk load establishes the
invariants of section 5; a module of slot ownership.
