----------------------------- MODULE ViewProofs -----------------------------
(***************************************************************************)
(* What the tree shows those who look at it from outside: threads that     *)
(* share it and get keys through the cached leaf, cursors that outlive the *)
(* calls after which they are used, iterators that are moved from both     *)
(* ends, and the union of two sets over their iterators.                   *)
(*                                                                         *)
(* All rest on what is proved of the tree, and on as little as can be of   *)
(* their own.  A thread knows that the node it is at gets its key; it      *)
(* knows nothing of the cache, which another thread may have written       *)
(* since, so a leaf from there counts only once its range has been seen to *)
(* hold the key.  A cursor knows its key and nothing of the leaf and the   *)
(* offset it remembers: where these are out of date it descends again, and *)
(* where they are not, the neighbour of the key is in the same leaf or in  *)
(* the next one along the list.  An iterator is at the place where what    *)
(* its two ends have given says: so many places from the first, and so     *)
(* many from the last (IterAt, IntoAt), while the tree rests.              *)
(*                                                                         *)
(* The union is an argument about two sequences.  Put the item held back   *)
(* in front of its source again: of the two sequences one has then, a call *)
(* of next gives the smaller head, and takes it off both if they are       *)
(* equal; which item is held where makes no difference any more.           *)
(***************************************************************************)
EXTENDS QueryProofs, Cursor, Readers, Iterators, MergeIter

-----------------------------------------------------------------------------
(* Threads that share the tree                                             *)

(***************************************************************************)
(* What thread t knows: while it is in a get the tree rests, its descent   *)
(* is at a node that gets its key, and so is the leaf it is about to       *)
(* search, whether the cache or a descent gave it; what it has found is    *)
(* what the map holds.  The cached leaf is not among it.                   *)
(***************************************************************************)
ReaderKnows(T, R, t) ==
    /\ at[t] # "away" => pc = "idle" /\ wants[t] \in Key
    /\ at[t] = "descend" =>
           goes[t] \in NodeId /\ InTree(T, goes[t]) /\ wants[t] \in R[goes[t]]
    /\ at[t] = "find_in_leaf" =>
           \E l \in LeafAlive : goes[t] = Leaf(l) /\ wants[t] \in R[Leaf(l)]
    /\ at[t] = "answered" => got[t] = Map!Lookup(wants[t])

ReadersTyped == /\ at \in [Reader -> {"away", "try_cache", "descend", "find_in_leaf", "answered"}]
                /\ DOMAIN wants = Reader /\ DOMAIN goes = Reader /\ DOMAIN got = Reader
                /\ wants = [t \in Reader |-> wants[t]]
                /\ goes = [t \in Reader |-> goes[t]]
                /\ got = [t \in Reader |-> got[t]]

\* The inductive invariant of the threads.
ReadersInv == /\ \E h : Good(h)
              /\ \E T, R : Routed(T, R) /\ \A t \in Reader : ReaderKnows(T, R, t)
              /\ ReadersTyped

\* Between calls the cached leaf is the only thing that may change unnoticed.
LEMMA CachedMoves ==
  ASSUME NEW h, Good(h), NEW T, NEW R, Routed(T, R), pc = "idle",
         UNCHANGED <<root, rootAug, len, store, frame>>, cached' \in DOMAIN leaves
  PROVE  Good(h)' /\ Routed(T, R)'
<1>1. /\ UNCHANGED <<root, rootAug, len, leaves, inners, takenLeaves, takenInners,
                     pc, call, node, stack, r, ret>>
  BY DEF store, taken, frame
<1>2. Good(h)'
  <2>1. StoreOK(leaves, inners, h)' /\ IsAt(h, root, HeightOf(h, root))'
    BY <1>1 DEF Good, IsAt, HeightOf
  <2>2. Scalars'
    BY <1>1 DEF Good, Scalars
  <2>3. Path(h)' /\ Locals(h)' /\ ResultOK(h)'
    <3>1. Current' = Current
      BY <1>1 DEF Current, EndOf
    <3> QED
      BY <1>1, <3>1 DEF Good, Path, Locals, ResultOK, IsAt
  <2> QED
    BY <2>1, <2>2, <2>3, <1>1 DEF Good, IsAt, HeightOf
<1>3. ~IsSplit /\ ~IsSplit' /\ ~IsShort /\ ~IsShort'
  BY <1>1 DEF IsSplit, IsShort
<1>4. InnersFilled(T)'
  BY <1>1, <1>3, QuietFilled DEF Routed, InnersFilled
<1>5. DescentRouted(T, R)'
  BY <1>1 DEF DescentRouted
<1> QED
  BY <1>1, <1>2, <1>3, <1>4, <1>5, StillRouted

\* The threads that know nothing of the tree do not mind what it becomes.
LEMMA UnsharedKnow ==
  ASSUME ReadersTyped, Unshared, UNCHANGED readerVars, NEW U, NEW Q
  PROVE  \A t \in Reader : ReaderKnows(U, Q, t)'
BY DEF Unshared, readerVars, ReaderKnows

\* What a thread knows that takes no step: the tree rests, and so does its part.
LEMMA OthersKnow ==
  ASSUME NEW h, Good(h), NEW T, NEW R, Routed(T, R), NEW t, ReaderKnows(T, R, t),
         UNCHANGED <<root, leaves, inners, takenLeaves, pc>>,
         at'[t] = at[t], wants'[t] = wants[t], goes'[t] = goes[t], got'[t] = got[t]
  PROVE  ReaderKnows(T, R, t)'
<1>1. Stored' = Stored /\ Contents' = Contents /\ StoredKeys' = StoredKeys
  BY StoredKept, KeepIs
<1>2. Map!Lookup(wants[t])' = Map!Lookup(wants[t])
  BY <1>1 DEF Map!Lookup, Map!Keys
<1>3. LeafAlive' = LeafAlive /\ \A x : InTree(T, x)' = InTree(T, x)
  BY DEF LeafAlive, InTree
<1> QED
  BY <1>1, <1>2, <1>3 DEF ReaderKnows, Map!Lookup, Map!Keys

\* The lookup of one step further: the cache, a child, the leaf.
LEMMA ReaderTurns ==
  ASSUME NEW h, Good(h), NEW T, NEW R, Routed(T, R), ReadersTyped,
         NEW t \in Reader, ReaderKnows(T, R, t),
         \/ ReaderTryCache(t) \/ ReaderDescend(t) \/ ReaderCacheLeaf(t)
         \/ ReaderFindInLeaf(t) \/ ReaderReturn(t) \/ \E k \in Key : ReaderCall(t, k)
  PROVE  ReaderKnows(T, R, t)'
<1>1. /\ UNCHANGED <<root, leaves, inners, takenLeaves, pc>>
      /\ at'[t] # "away" => pc = "idle"
  <2>1. at[t] # "away" \/ \E k \in Key : ReaderCall(t, k)
    BY DEF ReaderTryCache, ReaderDescend, ReaderCacheLeaf, ReaderFindInLeaf, ReaderReturn, Go
  <2>2. pc = "idle"
    BY <2>1 DEF ReaderKnows, ReaderCall
  <2>3. UNCHANGED <<root, leaves, inners, takenLeaves, pc>>
    BY DEF ReaderTryCache, ReaderDescend, ReaderCacheLeaf, ReaderFindInLeaf, ReaderReturn,
           ReaderCall, vars, tree, frame, store, taken
  <2> QED
    BY <2>2, <2>3
<1>2. LeafAlive' = LeafAlive /\ \A x : InTree(T, x)' = InTree(T, x)
  BY <1>1 DEF LeafAlive, InTree
<1>3. /\ t \in DOMAIN at /\ t \in DOMAIN wants /\ t \in DOMAIN goes /\ t \in DOMAIN got
  BY DEF ReadersTyped
<1>4. CASE \E k \in Key : ReaderCall(t, k)
  <2>1. at'[t] = "try_cache" /\ wants'[t] \in Key
    BY <1>3, <1>4 DEF ReaderCall, Go
  <2> QED
    BY <1>1, <2>1 DEF ReaderKnows
<1>5. CASE ReaderTryCache(t)
  <2>1. at[t] = "try_cache" /\ pc = "idle" /\ wants[t] \in Key /\ wants'[t] = wants[t]
    BY <1>5 DEF ReaderTryCache, ReaderKnows
  <2>2. ~IsSplit
    BY <2>1 DEF IsSplit
  <2>3. CASE CacheHit(wants[t])
    <3>1. cached \in LeafAlive /\ wants[t] \in R[Leaf(cached)]
      BY <2>1, <2>3, CachedLeaf
    <3>2. at'[t] = "find_in_leaf" /\ goes'[t] = Leaf(cached)
      BY <1>3, <1>5, <2>3 DEF ReaderTryCache
    <3> QED
      BY <1>1, <1>2, <2>1, <3>1, <3>2 DEF ReaderKnows
  <2>4. CASE ~CacheHit(wants[t])
    <3>1. at'[t] = "descend" /\ goes'[t] = root
      BY <1>3, <1>5, <2>4 DEF ReaderTryCache
    <3>2. root \in NodeId /\ InTree(T, root) /\ R[root] = Key
      <4>1. root \in NodeId /\ InTree(T, root)
        BY DEF Good, Scalars, Routed, InOrder, LeavesKnown, Orphans
      <4>2. R[root] = Key
        BY <2>2, KnownIs DEF Routed, InOrder, KeysShared
      <4> QED
        BY <4>1, <4>2
    <3> QED
      BY <1>1, <1>2, <2>1, <3>1, <3>2 DEF ReaderKnows
  <2> QED
    BY <2>3, <2>4
<1>6. CASE ReaderDescend(t)
  <2>1. /\ at[t] = "descend" /\ pc = "idle" /\ wants[t] \in Key /\ wants'[t] = wants[t]
        /\ at'[t] = "descend" /\ goes[t].kind = "inner"
    BY <1>6 DEF ReaderDescend, ReaderKnows
  <2>2. PICK x, k : x = goes[t] /\ k = wants[t]
    OBVIOUS
  <2>3. x \in NodeId /\ InTree(T, x) /\ k \in R[x] /\ ~IsSplit
    BY <2>1, <2>2 DEF ReaderKnows, IsSplit
  <2>4. goes'[t] = Down(k, x)
    BY <1>3, <1>6, <2>1, <2>2 DEF ReaderDescend, Down
  <2>5. Down(k, x) \in NodeId /\ InTree(T, Down(k, x)) /\ k \in R[Down(k, x)]
    BY <2>1, <2>2, <2>3, DownStays
  <2> QED
    BY <1>1, <1>2, <2>1, <2>2, <2>4, <2>5 DEF ReaderKnows
<1>7. CASE ReaderCacheLeaf(t)
  <2>1. /\ at[t] = "descend" /\ pc = "idle" /\ wants[t] \in Key /\ wants'[t] = wants[t]
        /\ at'[t] = "find_in_leaf" /\ goes[t].kind = "leaf" /\ goes'[t] = goes[t]
    BY <1>3, <1>7 DEF ReaderCacheLeaf, Go, ReaderKnows
  <2>2. goes[t] = Leaf(goes[t].id) /\ goes[t].id \in LeafAlive /\ wants[t] \in R[goes[t]]
    BY <2>1 DEF ReaderKnows, InTree, NodeId, Leaf
  <2> QED
    BY <1>1, <1>2, <2>1, <2>2 DEF ReaderKnows
<1>8. CASE ReaderFindInLeaf(t)
  <2>1. /\ at[t] = "find_in_leaf" /\ pc = "idle" /\ wants[t] \in Key /\ wants'[t] = wants[t]
        /\ at'[t] = "answered" /\ got'[t] = ValueOf(leaves[goes[t].id], wants[t])
    BY <1>3, <1>8 DEF ReaderFindInLeaf, Go, ReaderKnows
  <2>2. PICK l \in LeafAlive : goes[t] = Leaf(l) /\ wants[t] \in R[Leaf(l)]
    BY <2>1 DEF ReaderKnows
  <2>3. got'[t] = Map!Lookup(wants[t])
    BY <2>1, <2>2, LookupIs DEF Leaf
  <2>4. Contents' = Contents
    BY <1>1, StoredKept, KeepIs
  <2>5. got'[t] = Map!Lookup(wants[t])'
    BY <2>1, <2>3, <2>4 DEF Map!Lookup, Map!Keys
  <2> QED
    BY <1>1, <2>1, <2>5 DEF ReaderKnows
<1>9. CASE ReaderReturn(t)
  BY <1>3, <1>9 DEF ReaderReturn, Go, ReaderKnows
<1> QED
  BY <1>4, <1>5, <1>6, <1>7, <1>8, <1>9

\* A step of one thread leaves the others where they are.
LEMMA ReaderStepIs ==
  ASSUME ReadersTyped, NEW t \in Reader,
         \/ ReaderTurn(t) \/ \E k \in Key : ReaderCall(t, k)
  PROVE  /\ ReadersTyped'
         /\ \A u \in Reader \ {t} : /\ at'[u] = at[u] /\ wants'[u] = wants[u]
                                   /\ goes'[u] = goes[u] /\ got'[u] = got[u]
         /\ UNCHANGED vars \/ ReaderCacheLeaf(t)
<1>1. CASE \E k \in Key : ReaderCall(t, k)
  BY <1>1 DEF ReaderCall, Go, ReadersTyped
<1>2. CASE ReaderTryCache(t)
  BY <1>2 DEF ReaderTryCache, Go, ReadersTyped
<1>3. CASE ReaderDescend(t)
  BY <1>3 DEF ReaderDescend, Go, ReadersTyped
<1>4. CASE ReaderCacheLeaf(t)
  BY <1>4 DEF ReaderCacheLeaf, Go, ReadersTyped
<1>5. CASE ReaderFindInLeaf(t)
  BY <1>5 DEF ReaderFindInLeaf, Go, ReadersTyped
<1>6. CASE ReaderReturn(t)
  BY <1>6 DEF ReaderReturn, Go, ReadersTyped
<1> QED
  BY <1>1, <1>2, <1>3, <1>4, <1>5, <1>6 DEF ReaderTurn

\* What the threads know survives every step, theirs and those of a call.
LEMMA ReadersStep ==
  ReadersInv /\ [ReaderStep \/ (Unshared /\ Next /\ UNCHANGED readerVars)]_<<vars, readerVars>>
      => ReadersInv'
<1> SUFFICES ASSUME ReadersInv,
                    [ReaderStep \/ (Unshared /\ Next /\ UNCHANGED readerVars)]_<<vars, readerVars>>
             PROVE  ReadersInv'
  OBVIOUS
<1>1. PICK h : Good(h)
  BY DEF ReadersInv
<1>2. PICK T, R : Routed(T, R) /\ \A t \in Reader : ReaderKnows(T, R, t)
  BY DEF ReadersInv
<1>3. ReadersTyped
  BY DEF ReadersInv
<1>4. CASE ReaderStep
  <2>1. PICK t \in Reader : ReaderTurn(t) \/ \E k \in Key : ReaderCall(t, k)
    BY <1>4 DEF ReaderStep
  <2>2. /\ ReadersTyped'
        /\ \A u \in Reader \ {t} : /\ at'[u] = at[u] /\ wants'[u] = wants[u]
                                  /\ goes'[u] = goes[u] /\ got'[u] = got[u]
        /\ UNCHANGED vars \/ ReaderCacheLeaf(t)
    BY <1>3, <2>1, ReaderStepIs
  <2>3. (\E g : Good(g)') /\ Routed(T, R)'
    <3>1. CASE UNCHANGED vars
      BY <1>1, <1>2, <3>1, StepOK, StutterRouted
    <3>2. CASE ReaderCacheLeaf(t)
      <4>1. at[t] = "descend" /\ goes[t].kind = "leaf" /\ cached' = goes[t].id
        BY <3>2 DEF ReaderCacheLeaf, Go
      <4>2. goes[t].id \in DOMAIN leaves /\ pc = "idle"
        BY <1>2, <4>1 DEF ReaderKnows, InTree, LeafAlive
      <4>3. UNCHANGED <<root, rootAug, len, store, frame>>
        BY <3>2 DEF ReaderCacheLeaf
      <4> QED
        BY <1>1, <1>2, <4>1, <4>2, <4>3, CachedMoves
    <3> QED
      BY <2>2, <3>1, <3>2
  <2>4. UNCHANGED <<root, leaves, inners, takenLeaves, pc>>
    BY <2>2 DEF ReaderCacheLeaf, vars, tree, frame, store, taken
  <2>5. ReaderKnows(T, R, t)'
    BY <1>1, <1>2, <1>3, <2>1, ReaderTurns DEF ReaderTurn
  <2>6. ASSUME NEW u \in Reader, u # t PROVE ReaderKnows(T, R, u)'
    BY <1>1, <1>2, <2>2, <2>4, <2>6, OthersKnow
  <2> QED
    BY <2>2, <2>3, <2>5, <2>6 DEF ReadersInv
<1>5. CASE Unshared /\ Next /\ UNCHANGED readerVars
  <2>1. \E g : Good(g)'
    BY <1>1, <1>5, StepOK
  <2>2. PICK U, Q : Routed(U, Q)'
    BY <1>1, <1>2, <1>5, StepRouted
  <2>3. \A t \in Reader : ReaderKnows(U, Q, t)'
    BY <1>3, <1>5, UnsharedKnow
  <2>4. ReadersTyped'
    BY <1>3, <1>5 DEF ReadersTyped, readerVars
  <2> QED
    BY <2>1, <2>2, <2>3, <2>4 DEF ReadersInv
<1>6. CASE UNCHANGED <<vars, readerVars>>
  <2>1. (\E g : Good(g)') /\ Routed(T, R)'
    BY <1>1, <1>2, <1>6, StepOK, StutterRouted
  <2>2. /\ UNCHANGED <<root, leaves, inners, takenLeaves, pc>>
        /\ UNCHANGED <<at, wants, goes, got>>
    BY <1>6 DEF readerVars, vars, tree, frame, store, taken
  <2>3. \A t \in Reader : ReaderKnows(T, R, t)'
    BY <1>1, <1>2, <2>2, OthersKnow
  <2>4. ReadersTyped'
    BY <1>3, <2>2 DEF ReadersTyped
  <2> QED
    BY <2>1, <2>3, <2>4 DEF ReadersInv
<1> QED
  BY <1>4, <1>5, <1>6

\* Before the first call no thread is in a get.
LEMMA ReadersStart == Init /\ ReadersInit => ReadersInv
<1> SUFFICES ASSUME Init, ReadersInit PROVE ReadersInv
  OBVIOUS
<1>1. (\E h : Good(h)) /\ \E T, R : Routed(T, R)
  BY InitOK, InitRouted
<1>2. ReadersTyped /\ \A t \in Reader : at[t] = "away"
  BY DEF ReadersInit, ReadersTyped
<1> QED
  BY <1>1, <1>2 DEF ReadersInv, ReaderKnows

\* However many threads share the tree, and however the cached leaf changes under
\* a get of one of them, it answers what the map holds for its key.
THEOREM ReadersAlwaysSeeTheMap == ReadersSpec => []ReadersSeeTheMap
<1>1. ReadersInv => ReadersSeeTheMap
  BY DEF ReadersInv, ReaderKnows, ReadersSeeTheMap, Map!Lookup, Map!Keys
<1> QED
  BY <1>1, ReadersStart, ReadersStep, PTL DEF ReadersSpec

-----------------------------------------------------------------------------
(* Neighbours in the order of the keys                                     *)

\* Leaf l gets only smaller keys than x, or only larger ones.
LeafBelow(R, l, x) == \A s \in R[Leaf(l)] : s < x
LeafAbove(R, l, x) == \A s \in R[Leaf(l)] : x < s

\* What the entries of a leaf are to the map.
LEMMA EntriesOfLeaf ==
  ASSUME NEW h, Good(h), NEW T, NEW R, Routed(T, R), NEW l \in LeafAlive
  PROVE  /\ leaves[l] \in LeafOver(Pair) /\ Ascends(leaves[l].data)
         /\ Len(leaves[l].data) \in Nat /\ DOMAIN leaves[l].data = 1 .. Len(leaves[l].data)
         /\ \A i \in 1 .. Len(leaves[l].data) :
                LET p == leaves[l].data[i]
                IN  /\ p = <<p[1], p[2]>> /\ p[1] \in Key /\ p[1] \in Int
                    /\ p[1] \in R[Leaf(l)] /\ p[1] \in KeysOf(leaves[l])
                    /\ p[1] \in StoredKeys /\ Contents[p[1]] = p[2]
<1>1. /\ leaves[l] \in LeafOver(Pair) /\ leaves[l].data \in Seq(Pair)
      /\ Ascends(leaves[l].data)
  BY LeavesAre DEF Routed, InOrder, LeavesHold
<1>2. Len(leaves[l].data) \in Nat /\ DOMAIN leaves[l].data = 1 .. Len(leaves[l].data)
  BY <1>1, PairsAt
<1>3. ASSUME NEW i \in 1 .. Len(leaves[l].data), NEW p, p = leaves[l].data[i]
      PROVE  /\ p = <<p[1], p[2]>> /\ p[1] \in Key /\ p[1] \in Int
             /\ p[1] \in R[Leaf(l)] /\ p[1] \in KeysOf(leaves[l])
             /\ p[1] \in StoredKeys /\ Contents[p[1]] = p[2]
  <2>1. p \in Pair /\ p[1] \in Key /\ p[1] \in Int
    BY <1>1, <1>3, PairsAt
  <2>2. p = <<p[1], p[2]>>
    BY <2>1 DEF Pair
  <2>3. p[1] \in KeysOf(leaves[l]) /\ p[1] \in R[Leaf(l)]
    BY <1>2, <1>3, RoutedMeans DEF KeysOf
  <2>4. p \in Stored
    BY <1>3, EntryStored
  <2> QED
    BY <2>1, <2>2, <2>3, <2>4, MapIs
<1> QED
  BY <1>1, <1>2, <1>3

\* A key of the map is in a leaf that gets it.
LEMMA StoredIn ==
  ASSUME NEW h, Good(h), NEW T, NEW R, Routed(T, R), NEW x \in StoredKeys
  PROVE  /\ x \in Key /\ x \in Int /\ Key # {}
         /\ \E m \in LeafAlive : x \in KeysOf(leaves[m]) /\ x \in R[Leaf(m)]
<1>1. x \in Key /\ x \in Int
  BY StoredFinite
<1>2. PICK p \in Stored : p[1] = x
  BY DEF StoredKeys, FirstOf
<1>3. PICK m \in LeafAlive : p \in Range(leaves[m].data)
  BY DEF Stored, PairsIn
<1>4. x \in KeysOf(leaves[m])
  BY <1>2, <1>3 DEF KeysOf, Range
<1> QED
  BY <1>1, <1>4, RoutedMeans

\* The leaves next to a leaf.
LEMMA LinkedLeaves ==
  ASSUME NEW h, Good(h), NEW T, NEW R, Routed(T, R), Key # {}, NEW l \in LeafAlive
  PROVE  /\ leaves[l].next # None =>
                /\ leaves[l].next \in LeafAlive \ {l} /\ Ahead(R, l, leaves[l].next)
                /\ LeafSize(leaves[leaves[l].next]) > 0
         /\ leaves[l].prev # None =>
                /\ leaves[l].prev \in LeafAlive \ {l} /\ Ahead(R, leaves[l].prev, l)
                /\ leaves[leaves[l].prev].next = l
                /\ LeafSize(leaves[leaves[l].prev]) > 0
<1>1. LeavesLinked(leaves, LeafAlive, R) /\ Ranged(LeafAlive, R) /\ None \notin LeafAlive
  BY RangedLeaves, LeavesAre DEF Routed, InOrder
<1>2. \A m \in LeafAlive : ~Ahead(R, m, m)
  BY <1>1, AheadOrder
<1>3. ASSUME NEW n, n = leaves[l].next, n # None
      PROVE  n \in LeafAlive \ {l} /\ Ahead(R, l, n) /\ LeafSize(leaves[n]) > 0
  <2>1. n \in LeafAlive /\ Ahead(R, l, n)
    BY <1>1, <1>3 DEF LeavesLinked
  <2> QED
    BY <1>2, <2>1, OthersHoldKeys
<1>4. ASSUME NEW p, p = leaves[l].prev, p # None
      PROVE  /\ p \in LeafAlive \ {l} /\ Ahead(R, p, l) /\ leaves[p].next = l
             /\ LeafSize(leaves[p]) > 0
  <2>1. p \in LeafAlive /\ leaves[p].next = l
    BY <1>1, <1>4 DEF LeavesLinked
  <2>2. Ahead(R, p, l)
    BY <1>1, <2>1 DEF LeavesLinked
  <2> QED
    BY <1>2, <2>1, <2>2, OthersHoldKeys
<1> QED
  BY <1>3, <1>4

(***************************************************************************)
(* A stored key above a key of leaf l is in l, or in the next leaf, or     *)
(* above both.                                                             *)
(***************************************************************************)
LEMMA KeyAbove ==
  ASSUME NEW h, Good(h), NEW T, NEW R, Routed(T, R), NEW l \in LeafAlive, NEW k \in R[Leaf(l)],
         NEW x \in StoredKeys, k < x
  PROVE  \/ x \in KeysOf(leaves[l])
         \/ /\ LeafBelow(R, l, x) /\ leaves[l].next # None
            /\ x \in KeysOf(leaves[leaves[l].next]) \/ LeafBelow(R, leaves[l].next, x)
<1>1. x \in Int /\ Key # {}
  BY StoredIn
<1>2. PICK m \in LeafAlive : x \in KeysOf(leaves[m]) /\ x \in R[Leaf(m)]
  BY StoredIn
<1>3. LeavesLinked(leaves, LeafAlive, R) /\ Ranged(LeafAlive, R)
  BY <1>1, RangedLeaves DEF Routed, InOrder
<1>4. SUFFICES ASSUME m # l
               PROVE  /\ LeafBelow(R, l, x) /\ leaves[l].next # None
                      /\ x \in KeysOf(leaves[leaves[l].next]) \/ LeafBelow(R, leaves[l].next, x)
  BY <1>2
<1>5. k \in Int /\ ~Ahead(R, m, l)
  BY <1>1, <1>2, <1>3 DEF Ahead, Precedes, Ranged
<1>6. Ahead(R, l, m)
  BY <1>1, <1>4, <1>5, LeavesApart
<1>7. leaves[l].next # None /\ (m # leaves[l].next => Ahead(R, leaves[l].next, m))
  BY <1>3, <1>4, <1>5 DEF LeavesLinked
<1> QED
  BY <1>2, <1>6, <1>7 DEF Ahead, Precedes, LeafBelow

\* And one below it in l, or in the previous leaf, or below both.
LEMMA KeyBelow ==
  ASSUME NEW h, Good(h), NEW T, NEW R, Routed(T, R), NEW l \in LeafAlive, NEW k \in R[Leaf(l)],
         NEW x \in StoredKeys, x < k
  PROVE  \/ x \in KeysOf(leaves[l])
         \/ /\ LeafAbove(R, l, x) /\ leaves[l].prev # None
            /\ x \in KeysOf(leaves[leaves[l].prev]) \/ LeafAbove(R, leaves[l].prev, x)
<1>1. x \in Int /\ Key # {}
  BY StoredIn
<1>2. PICK m \in LeafAlive : x \in KeysOf(leaves[m]) /\ x \in R[Leaf(m)]
  BY StoredIn
<1>3. LeavesLinked(leaves, LeafAlive, R) /\ Ranged(LeafAlive, R)
  BY <1>1, RangedLeaves DEF Routed, InOrder
<1>4. SUFFICES ASSUME m # l
               PROVE  /\ LeafAbove(R, l, x) /\ leaves[l].prev # None
                      /\ x \in KeysOf(leaves[leaves[l].prev]) \/ LeafAbove(R, leaves[l].prev, x)
  BY <1>2
<1>5. k \in Int /\ ~Ahead(R, l, m)
  BY <1>1, <1>2, <1>3 DEF Ahead, Precedes, Ranged
<1>6. Ahead(R, m, l)
  BY <1>1, <1>4, <1>5, LeavesApart
<1>7. leaves[l].prev # None
  <2>1. ASSUME leaves[l].next # None, m # leaves[l].next => Ahead(R, leaves[l].next, m)
        PROVE  FALSE
    BY <1>1, <1>3, <1>5, <2>1, LinkedLeaves, AheadOrder
  <2> QED
    BY <1>3, <1>4, <2>1 DEF LeavesLinked
<1>8. PICK p : p = leaves[l].prev
  OBVIOUS
<1>9. p \in LeafAlive /\ leaves[p].next = l
  BY <1>1, <1>7, <1>8, LinkedLeaves
<1>10. m = p \/ Ahead(R, m, p)
  <2>1. ASSUME m # p, ~Ahead(R, m, p) PROVE FALSE
    BY <1>3, <1>4, <1>5, <1>9, <2>1 DEF LeavesLinked
  <2> QED
    BY <2>1
<1> QED
  BY <1>2, <1>6, <1>7, <1>8, <1>10 DEF Ahead, Precedes, LeafAbove

-----------------------------------------------------------------------------
(* Cursors                                                                 *)

\* What the hint of a cursor must be: nothing but a number.
CursorOK(c) == c.k \in Key /\ c.offset \in Nat \ {0}

\* The entry that Pick chooses.
LEMMA EntryOfIs ==
  ASSUME NEW S, S \subseteq Int, NEW k \in S, NEW p, p = <<k, Contents[k]>>
  PROVE  /\ (\A x \in S : k <= x) => EntryOf(Contents, S, Min) = p
         /\ (\A x \in S : x <= k) => EntryOf(Contents, S, Max) = p
<1>1. ASSUME \A x \in S : k <= x PROVE Min(S) = k
  <2>1. \A y \in S : (\A x \in S : y <= x) => y = k
    BY <1>1
  <2> QED
    BY <1>1, <2>1 DEF Min
<1>2. ASSUME \A x \in S : x <= k PROVE Max(S) = k
  <2>1. \A y \in S : (\A x \in S : y >= x) => y = k
    BY <1>2
  <2>2. \A x \in S : k >= x
    BY <1>2
  <2> QED
    BY <2>1, <2>2 DEF Max
<1> QED
  BY <1>1, <1>2 DEF EntryOf

\* No entry is asked for where there is no key.
LEMMA NoEntry == /\ EntryOf(Contents, {}, Min) = None
                 /\ EntryOf(Contents, {}, Max) = None
BY DEF EntryOf

\* The keys of the map on either side of k.
KeysAfter(k) == {x \in DOMAIN Contents : x > k}
KeysAhead(k) == {x \in DOMAIN Contents : x < k}

\* They are the stored keys on either side of k.
LEMMA SidesAre ==
  ASSUME NEW h, Good(h), NEW T, NEW R, Routed(T, R), NEW k \in Key
  PROVE  /\ DOMAIN Contents = StoredKeys /\ k \in Int
         /\ KeysAfter(k) = {x \in StoredKeys : k < x}
         /\ KeysAhead(k) = {x \in StoredKeys : x < k}
         /\ StoredKeys \subseteq Int /\ KeysAfter(k) \subseteq Int /\ KeysAhead(k) \subseteq Int
<1>1. DOMAIN Contents = StoredKeys
  BY MapIs DEF Map!Keys
<1>2. StoredKeys \subseteq Int /\ k \in Int
  BY StoredFinite, KeyAssumption
<1> QED
  BY <1>1, <1>2 DEF KeysAfter, KeysAhead

\* The cursor's leaf is the one that gets its key, whatever its hint says.
LEMMA HintIsRight ==
  ASSUME NEW h, Good(h), NEW T, NEW R, Routed(T, R), pc = "idle", NEW c, CursorOK(c)
  PROVE  /\ LocateByHint(c) \in LeafAlive /\ c.k \in R[Leaf(LocateByHint(c))]
         /\ OffsetIn(c, leaves[LocateByHint(c)]) = LocateSlot(leaves[LocateByHint(c)], c.k)
<1>1. ~IsSplit /\ c.k \in Key /\ c.k \in Int
  BY KeyAssumption DEF IsSplit, CursorOK
<1>2. LocateByHint(c) \in LeafAlive /\ c.k \in R[Leaf(LocateByHint(c))]
  <2>1. CASE c.leaf \in LeafAlive /\ InRange(leaves[c.leaf], c.k)
    <3>1. LeafFor(c.k) = c.leaf
      BY <1>1, <2>1, InRangeRouted
    <3> QED
      BY <1>1, <2>1, <3>1, LeafForRouted DEF LocateByHint
  <2>2. CASE ~(c.leaf \in LeafAlive /\ InRange(leaves[c.leaf], c.k)) /\ CacheHit(c.k)
    BY <1>1, <2>2, CachedLeaf DEF LocateByHint
  <2>3. CASE ~(c.leaf \in LeafAlive /\ InRange(leaves[c.leaf], c.k)) /\ ~CacheHit(c.k)
    BY <1>1, <2>3, LeafForRouted DEF LocateByHint
  <2> QED
    BY <2>1, <2>2, <2>3
<1>3. PICK leaf, k, o : leaf = leaves[LocateByHint(c)] /\ k = c.k /\ o = c.offset
  OBVIOUS
<1>4. OffsetIn(c, leaf) = LocateSlot(leaf, k)
  <2>1. CASE ~HintHolds(c, leaf)
    BY <1>3, <2>1 DEF OffsetIn
  <2>2. CASE HintHolds(c, leaf)
    <3>1. /\ leaf \in LeafOver(Pair) /\ Ascends(leaf.data) /\ Len(leaf.data) \in Nat
          /\ DOMAIN leaf.data = 1 .. Len(leaf.data)
          /\ \A i \in 1 .. Len(leaf.data) : leaf.data[i][1] \in Int
      BY <1>2, <1>3, EntriesOfLeaf
    <3>2. o \in 1 .. Len(leaf.data) /\ leaf.data[o][1] = k
      BY <1>3, <2>2, <3>1 DEF HintHolds, LeafSize, CursorOK
    <3>3. HasKey(leaf, k)
      BY <3>1, <3>2 DEF HasKey
    <3>4. PICK s : s = LocateSlot(leaf, k)
      OBVIOUS
    <3>5. s \in 1 .. Len(leaf.data) /\ leaf.data[s][1] = k
      BY <1>1, <1>3, <3>1, <3>3, <3>4, LocateSlotIs
    <3>6. s = o
      BY <3>1, <3>2, <3>5 DEF Ascends
    <3> QED
      BY <1>3, <2>2, <3>4, <3>6 DEF OffsetIn
  <2> QED
    BY <2>1, <2>2
<1> QED
  BY <1>2, <1>3, <1>4

\* Key k of leaf l stands, or would stand, at slot s of the entries d.
StandsAt(l, k, d, s) ==
    /\ k \in Key /\ k \in Int /\ Len(d) \in Nat /\ s \in 1 .. Len(d) + 1
    /\ \A i \in 1 .. Len(d) : d[i][1] \in Int
    /\ \A i, j \in 1 .. Len(d) : i < j => d[i][1] < d[j][1]
    /\ \A i \in 1 .. Len(d) : i < s => d[i][1] < k
    /\ \A i \in 1 .. Len(d) : s < i => k < d[i][1]
    /\ s \in 1 .. Len(d) => IF HasKey(leaves[l], k) THEN d[s][1] = k ELSE k < d[s][1]
    /\ HasKey(leaves[l], k) => s \in 1 .. Len(d)
    /\ \A x \in KeysOf(leaves[l]) : \E i \in 1 .. Len(d) : d[i][1] = x

\* Where a key stands among the entries of the leaf that gets it.
LEMMA SlotSplits ==
  ASSUME NEW h, Good(h), NEW T, NEW R, Routed(T, R), NEW l \in LeafAlive, NEW k \in R[Leaf(l)],
         NEW d, d = leaves[l].data, NEW s, s = LocateSlot(leaves[l], k)
  PROVE  StandsAt(l, k, d, s)
<1>1. /\ leaves[l] \in LeafOver(Pair) /\ Ascends(d) /\ Len(d) \in Nat
      /\ DOMAIN d = 1 .. Len(d) /\ \A i \in 1 .. Len(d) : d[i][1] \in Int
  BY EntriesOfLeaf
<1>2. k \in Key /\ k \in Int
  BY KeyInLeaf
<1>3. /\ s \in 1 .. Len(d) + 1
      /\ \A j \in 1 .. s - 1 : d[j][1] < k
      /\ \A j \in s .. Len(d) : k <= d[j][1]
      /\ ~HasKey(leaves[l], k) => \A j \in s .. Len(d) : k < d[j][1]
      /\ HasKey(leaves[l], k) => s \in 1 .. Len(d) /\ d[s][1] = k
  BY <1>1, <1>2, LocateSlotIs
<1>4. \A i, j \in 1 .. Len(d) : i < j => d[i][1] < d[j][1]
  BY <1>1 DEF Ascends
<1>5. ASSUME NEW i \in 1 .. Len(d), s < i PROVE k < d[i][1]
  <2>1. s \in 1 .. Len(d) /\ s \in s .. Len(d)
    BY <1>1, <1>3, <1>5
  <2>2. k <= d[s][1] /\ d[s][1] < d[i][1]
    BY <1>3, <1>4, <1>5, <2>1
  <2> QED
    BY <1>1, <1>2, <2>1, <2>2
<1>6. \A x \in KeysOf(leaves[l]) : \E i \in 1 .. Len(d) : d[i][1] = x
  BY <1>1 DEF KeysOf
<1>7. \A i \in 1 .. Len(d) : i < s => d[i][1] < k
  BY <1>1, <1>3
<1>8. s \in 1 .. Len(d) => IF HasKey(leaves[l], k) THEN d[s][1] = k ELSE k < d[s][1]
  BY <1>1, <1>3
<1> QED
  BY <1>1, <1>2, <1>3, <1>4, <1>5, <1>6, <1>7, <1>8 DEF StandsAt

\* A place to land on.
LEMMA LandingIs ==
  ASSUME NEW h, Good(h), NEW T, NEW R, Routed(T, R), NEW id, NEW l \in LeafAlive,
         NEW i \in 1 .. Len(leaves[l].data)
  PROVE  LET g == Landing(id, leaves[l], i)
             k == leaves[l].data[i][1]
         IN  /\ CursorOK(g.cursor) /\ g.cursor.k = k
             /\ g.pair = <<k, Contents[k]>> /\ k \in StoredKeys
<1>1. PICK p : p = leaves[l].data[i]
  OBVIOUS
<1>2. /\ p = <<p[1], p[2]>> /\ p[1] \in Key /\ p[1] \in StoredKeys
      /\ Contents[p[1]] = p[2]
  BY <1>1, EntriesOfLeaf
<1>3. i \in Nat \ {0}
  BY EntriesOfLeaf
<1> QED
  BY <1>1, <1>2, <1>3 DEF Landing, CursorAt, CursorOK

\* A landing, or none, on the entry of the key of S that Pick chooses.
LandsOn(g, e) == g.pair = e /\ (g = Nowhere \/ CursorOK(g.cursor))

\* next gives the entry of the smallest larger key,
LEMMA FollowingIs ==
  ASSUME NEW h, Good(h), NEW T, NEW R, Routed(T, R), pc = "idle", NEW c, CursorOK(c)
  PROVE  LandsOn(Following(c), EntryOf(Contents, KeysAfter(c.k), Min))
<1>1. PICK l, k : l = LocateByHint(c) /\ k = c.k
  OBVIOUS
<1>2. PICK d, s : d = leaves[l].data /\ s = LocateSlot(leaves[l], k)
  OBVIOUS
<1>3. PICK o : o = s + (IF HasKey(leaves[l], k) THEN 1 ELSE 0)
  OBVIOUS
<1>4. l \in LeafAlive /\ k \in R[Leaf(l)] /\ OffsetIn(c, leaves[l]) = s /\ k \in Key
  BY <1>1, <1>2, HintIsRight DEF CursorOK
<1>5. Following(c) = IF o <= LeafSize(leaves[l]) THEN Landing(l, leaves[l], o)
                     ELSE IF leaves[l].next = None THEN Nowhere
                     ELSE Landing(leaves[l].next, leaves[leaves[l].next], 1)
  BY <1>1, <1>2, <1>3, <1>4 DEF Following
<1>6. StandsAt(l, k, d, s)
  BY <1>2, <1>4, SlotSplits
<1>7. /\ o \in Nat \ {0} /\ \A i \in 1 .. Len(d) : k < d[i][1] <=> o <= i
  <2>1. CASE HasKey(leaves[l], k)
    BY <1>3, <1>6, <2>1 DEF StandsAt
  <2>2. CASE ~HasKey(leaves[l], k)
    BY <1>3, <1>6, <2>2 DEF StandsAt
  <2> QED
    BY <2>1, <2>2
<1>8. PICK S : S = KeysAfter(k)
  OBVIOUS
<1>9. S = {x \in StoredKeys : k < x} /\ S \subseteq Int
  BY <1>4, <1>8, SidesAre
<1>10. CASE o <= LeafSize(leaves[l])
  <2>1. o \in 1 .. Len(d)
    BY <1>2, <1>6, <1>7, <1>10 DEF LeafSize, StandsAt
  <2>2. PICK g : g = Landing(l, leaves[l], o)
    OBVIOUS
  <2>3. CursorOK(g.cursor) /\ g.pair = <<d[o][1], Contents[d[o][1]]>> /\ d[o][1] \in StoredKeys
    BY <1>2, <1>4, <2>1, <2>2, LandingIs
  <2>4. d[o][1] \in S
    BY <1>7, <1>9, <2>1, <2>3
  <2>5. ASSUME NEW x \in S PROVE d[o][1] <= x
    <3>1. x \in KeysOf(leaves[l]) \/ LeafBelow(R, l, x)
      BY <1>4, <1>9, KeyAbove
    <3>2. CASE x \in KeysOf(leaves[l])
      <4>1. PICK i \in 1 .. Len(d) : d[i][1] = x
        BY <1>6, <3>2 DEF StandsAt
      <4>2. o <= i
        BY <1>7, <1>9, <4>1
      <4> QED
        BY <1>6, <2>1, <4>1, <4>2 DEF StandsAt
    <3>3. CASE LeafBelow(R, l, x)
      <4>1. d[o][1] \in R[Leaf(l)]
        BY <1>2, <1>4, <2>1, EntriesOfLeaf
      <4> QED
        BY <1>6, <1>9, <2>1, <3>3, <4>1 DEF LeafBelow, StandsAt
    <3> QED
      BY <3>1, <3>2, <3>3
  <2>6. EntryOf(Contents, S, Min) = g.pair
    BY <1>9, <2>3, <2>4, <2>5, EntryOfIs
  <2> QED
    BY <1>1, <1>5, <1>8, <1>10, <2>2, <2>3, <2>6 DEF LandsOn
<1>11. CASE ~(o <= LeafSize(leaves[l]))
  <2>1. ASSUME NEW x \in S PROVE x \notin KeysOf(leaves[l])
    <3>1. SUFFICES ASSUME x \in KeysOf(leaves[l]) PROVE FALSE
      OBVIOUS
    <3>2. PICK i \in 1 .. Len(d) : d[i][1] = x
      BY <1>6, <3>1 DEF StandsAt
    <3>3. o <= i
      BY <1>7, <1>9, <3>2
    <3>4. Len(d) \in Nat /\ ~(o <= Len(d))
      BY <1>2, <1>6, <1>11 DEF LeafSize, StandsAt
    <3> QED
      BY <1>7, <3>2, <3>3, <3>4
  <2>2. \A x \in S : leaves[l].next # None
    BY <1>4, <1>9, <2>1, KeyAbove
  <2>3. CASE leaves[l].next = None
    <3>1. S = {}
      BY <2>2, <2>3
    <3> QED
      BY <1>1, <1>5, <1>8, <1>11, <2>3, <3>1, NoEntry DEF LandsOn, Nowhere
  <2>4. CASE leaves[l].next # None
    <3>1. PICK n : n = leaves[l].next
      OBVIOUS
    <3>2. n \in LeafAlive /\ Ahead(R, l, n) /\ LeafSize(leaves[n]) > 0
      BY <1>4, <2>4, <3>1, LinkedLeaves
    <3>3. PICK e : e = leaves[n].data
      OBVIOUS
    <3>4. 1 \in 1 .. Len(e) /\ Ascends(e) /\ DOMAIN e = 1 .. Len(e) /\ Len(e) \in Nat
      BY <3>2, <3>3, EntriesOfLeaf DEF LeafSize
    <3>5. e[1][1] \in R[Leaf(n)] /\ \A i \in 1 .. Len(e) : e[i][1] \in Int
      BY <3>2, <3>3, <3>4, EntriesOfLeaf
    <3>6. PICK g : g = Landing(n, leaves[n], 1)
      OBVIOUS
    <3>7. CursorOK(g.cursor) /\ g.pair = <<e[1][1], Contents[e[1][1]]>> /\ e[1][1] \in StoredKeys
      BY <3>2, <3>3, <3>4, <3>6, LandingIs
    <3>8. e[1][1] \in S
      BY <1>4, <1>9, <3>2, <3>5, <3>7 DEF Ahead, Precedes
    <3>9. ASSUME NEW x \in S PROVE e[1][1] <= x
      <4>1. x \in KeysOf(leaves[n]) \/ LeafBelow(R, n, x)
        BY <1>4, <1>9, <2>1, <3>1, KeyAbove
      <4>2. CASE x \in KeysOf(leaves[n])
        <5>1. PICK i \in 1 .. Len(e) : e[i][1] = x
          BY <3>3, <3>4, <4>2 DEF KeysOf
        <5>2. i = 1 \/ e[1][1] < e[i][1]
          BY <3>4 DEF Ascends
        <5> QED
          BY <3>5, <5>1, <5>2
      <4>3. CASE LeafBelow(R, n, x)
        BY <1>9, <3>4, <3>5, <4>3 DEF LeafBelow
      <4> QED
        BY <4>1, <4>2, <4>3
    <3>10. EntryOf(Contents, S, Min) = g.pair
      BY <1>9, <3>7, <3>8, <3>9, EntryOfIs
    <3> QED
      BY <1>1, <1>5, <1>8, <1>11, <2>4, <3>1, <3>6, <3>7, <3>10 DEF LandsOn
  <2> QED
    BY <2>3, <2>4
<1> QED
  BY <1>10, <1>11

\* prev that of the largest smaller key,
LEMMA PrecedingIs ==
  ASSUME NEW h, Good(h), NEW T, NEW R, Routed(T, R), pc = "idle", NEW c, CursorOK(c)
  PROVE  LandsOn(Preceding(c), EntryOf(Contents, KeysAhead(c.k), Max))
<1>1. PICK l, k : l = LocateByHint(c) /\ k = c.k
  OBVIOUS
<1>2. PICK d, s : d = leaves[l].data /\ s = LocateSlot(leaves[l], k)
  OBVIOUS
<1>3. PICK o : o = s - 1
  OBVIOUS
<1>4. l \in LeafAlive /\ k \in R[Leaf(l)] /\ OffsetIn(c, leaves[l]) = s /\ k \in Key
  BY <1>1, <1>2, HintIsRight DEF CursorOK
<1>5. Preceding(c) = IF o >= 1 THEN Landing(l, leaves[l], o)
                     ELSE IF leaves[l].prev = None THEN Nowhere
                     ELSE Landing(l, leaves[leaves[l].prev], LeafSize(leaves[leaves[l].prev]))
  BY <1>1, <1>2, <1>3, <1>4 DEF Preceding
<1>6. StandsAt(l, k, d, s)
  BY <1>2, <1>4, SlotSplits
<1>7. o \in Nat /\ o <= Len(d) /\ \A i \in 1 .. Len(d) : d[i][1] < k <=> i <= o
  <2>1. CASE HasKey(leaves[l], k)
    BY <1>3, <1>6, <2>1 DEF StandsAt
  <2>2. CASE ~HasKey(leaves[l], k)
    BY <1>3, <1>6, <2>2 DEF StandsAt
  <2> QED
    BY <2>1, <2>2
<1>8. PICK S : S = KeysAhead(k)
  OBVIOUS
<1>9. S = {x \in StoredKeys : x < k} /\ S \subseteq Int
  BY <1>4, <1>8, SidesAre
<1>10. CASE o >= 1
  <2>1. o \in 1 .. Len(d)
    BY <1>6, <1>7, <1>10 DEF StandsAt
  <2>2. PICK g : g = Landing(l, leaves[l], o)
    OBVIOUS
  <2>3. CursorOK(g.cursor) /\ g.pair = <<d[o][1], Contents[d[o][1]]>> /\ d[o][1] \in StoredKeys
    BY <1>2, <1>4, <2>1, <2>2, LandingIs
  <2>4. d[o][1] \in S
    BY <1>7, <1>9, <2>1, <2>3
  <2>5. ASSUME NEW x \in S PROVE x <= d[o][1]
    <3>1. x \in KeysOf(leaves[l]) \/ LeafAbove(R, l, x)
      BY <1>4, <1>9, KeyBelow
    <3>2. CASE x \in KeysOf(leaves[l])
      <4>1. PICK i \in 1 .. Len(d) : d[i][1] = x
        BY <1>6, <3>2 DEF StandsAt
      <4>2. i <= o
        BY <1>7, <1>9, <4>1
      <4> QED
        BY <1>6, <2>1, <4>1, <4>2 DEF StandsAt
    <3>3. CASE LeafAbove(R, l, x)
      <4>1. d[o][1] \in R[Leaf(l)]
        BY <1>2, <1>4, <2>1, EntriesOfLeaf
      <4> QED
        BY <1>6, <1>9, <2>1, <3>3, <4>1 DEF LeafAbove, StandsAt
    <3> QED
      BY <3>1, <3>2, <3>3
  <2>6. EntryOf(Contents, S, Max) = g.pair
    BY <1>9, <2>3, <2>4, <2>5, EntryOfIs
  <2> QED
    BY <1>1, <1>5, <1>8, <1>10, <2>2, <2>3, <2>6 DEF LandsOn
<1>11. CASE ~(o >= 1)
  <2>1. \A x \in S : x \notin KeysOf(leaves[l])
    BY <1>6, <1>7, <1>9, <1>11 DEF StandsAt
  <2>2. \A x \in S : leaves[l].prev # None
    BY <1>4, <1>9, <2>1, KeyBelow
  <2>3. CASE leaves[l].prev = None
    <3>1. S = {}
      BY <2>2, <2>3
    <3> QED
      BY <1>1, <1>5, <1>8, <1>11, <2>3, <3>1, NoEntry DEF LandsOn, Nowhere
  <2>4. CASE leaves[l].prev # None
    <3>1. PICK n : n = leaves[l].prev
      OBVIOUS
    <3>2. n \in LeafAlive /\ Ahead(R, n, l) /\ LeafSize(leaves[n]) > 0
      BY <1>4, <2>4, <3>1, LinkedLeaves
    <3>3. PICK e, z : e = leaves[n].data /\ z = LeafSize(leaves[n])
      OBVIOUS
    <3>4. /\ z \in 1 .. Len(e) /\ z = Len(e) /\ Ascends(e) /\ DOMAIN e = 1 .. Len(e)
          /\ Len(e) \in Nat
      BY <3>2, <3>3, EntriesOfLeaf DEF LeafSize
    <3>5. e[z][1] \in R[Leaf(n)] /\ \A i \in 1 .. Len(e) : e[i][1] \in Int
      BY <3>2, <3>3, <3>4, EntriesOfLeaf
    <3>6. PICK g : g = Landing(l, leaves[n], z)
      OBVIOUS
    <3>7. CursorOK(g.cursor) /\ g.pair = <<e[z][1], Contents[e[z][1]]>> /\ e[z][1] \in StoredKeys
      BY <3>2, <3>3, <3>4, <3>6, LandingIs
    <3>8. e[z][1] \in S
      BY <1>4, <1>9, <3>2, <3>5, <3>7 DEF Ahead, Precedes
    <3>9. ASSUME NEW x \in S PROVE x <= e[z][1]
      <4>1. x \in KeysOf(leaves[n]) \/ LeafAbove(R, n, x)
        BY <1>4, <1>9, <2>1, <3>1, KeyBelow
      <4>2. CASE x \in KeysOf(leaves[n])
        <5>1. PICK i \in 1 .. Len(e) : e[i][1] = x
          BY <3>3, <3>4, <4>2 DEF KeysOf
        <5>2. i = z \/ e[i][1] < e[z][1]
          BY <3>4 DEF Ascends
        <5> QED
          BY <3>4, <3>5, <5>1, <5>2
      <4>3. CASE LeafAbove(R, n, x)
        BY <1>9, <3>4, <3>5, <4>3 DEF LeafAbove
      <4> QED
        BY <4>1, <4>2, <4>3
    <3>10. EntryOf(Contents, S, Max) = g.pair
      BY <1>9, <3>7, <3>8, <3>9, EntryOfIs
    <3> QED
      BY <1>1, <1>5, <1>8, <1>11, <2>4, <3>1, <3>3, <3>6, <3>7, <3>10 DEF LandsOn
  <2> QED
    BY <2>3, <2>4
<1> QED
  BY <1>10, <1>11

\* and value what the map holds.
LEMMA ValueAtIs ==
  ASSUME NEW h, Good(h), NEW T, NEW R, Routed(T, R), pc = "idle", NEW c, CursorOK(c)
  PROVE  ValueAt(c) = Map!Lookup(c.k)
<1>1. PICK l, k : l = LocateByHint(c) /\ k = c.k
  OBVIOUS
<1>2. l \in LeafAlive /\ k \in R[Leaf(l)] /\ k \in Key
  BY <1>1, HintIsRight DEF CursorOK
<1>3. CASE HintHolds(c, leaves[l])
  <2>1. PICK o : o = c.offset
    OBVIOUS
  <2>2. o \in 1 .. Len(leaves[l].data) /\ leaves[l].data[o][1] = k
    BY <1>1, <1>2, <1>3, <2>1, EntriesOfLeaf DEF HintHolds, LeafSize, CursorOK
  <2>3. k \in StoredKeys /\ Contents[k] = leaves[l].data[o][2]
    BY <1>2, <2>2, EntriesOfLeaf
  <2>4. ValueAt(c) = leaves[l].data[o][2]
    BY <1>1, <1>3, <2>1 DEF ValueAt
  <2> QED
    BY <1>1, <2>3, <2>4, MapIs
<1>4. CASE ~HintHolds(c, leaves[l])
  <2>1. ValueAt(c) = ValueOf(leaves[l], k)
    BY <1>1, <1>4 DEF ValueAt
  <2> QED
    BY <1>1, <1>2, <2>1, LookupIs
<1> QED
  BY <1>3, <1>4

\* Leaf l gets only keys nearer to that end of the order than x.
LeafNearer(R, l, x, last) == IF last THEN LeafAbove(R, l, x) ELSE LeafBelow(R, l, x)

\* The leaf at an end of the tree holds the entry at that end of the map.
LEMMA EndHolds ==
  ASSUME NEW h, Good(h), NEW T, NEW R, Routed(T, R), ~IsSplit, NEW last \in BOOLEAN,
         NEW l, l = EndLeaf(last), NEW x \in StoredKeys
  PROVE  /\ l \in LeafAlive /\ LeafSize(leaves[l]) > 0
         /\ \/ x \in KeysOf(leaves[l])
            \/ LeafNearer(R, l, x, last)
<1>1. l \in LeafAlive /\ AtEnd(R, Leaf(l), last)
  BY EndLeafIs
<1>2. x \in Key /\ x \in Int /\ Key # {}
  BY StoredIn
<1>3. PICK m \in LeafAlive : x \in KeysOf(leaves[m]) /\ x \in R[Leaf(m)]
  BY StoredIn
<1>4. CASE m = l
  <2>1. PICK i \in DOMAIN leaves[l].data : leaves[l].data[i][1] = x
    BY <1>3, <1>4 DEF KeysOf
  <2>2. LeafSize(leaves[l]) > 0
    BY <1>1, <2>1, EntriesOfLeaf DEF LeafSize
  <2> QED
    BY <1>1, <1>3, <1>4, <2>2
<1>5. CASE m # l
  <2>1. LeafSize(leaves[l]) > 0
    BY <1>1, <1>5, OthersHoldKeys
  <2>2. x \notin R[Leaf(l)]
    BY <1>1, <1>3, <1>5, RoutedMeans
  <2>3. \A s \in R[Leaf(l)] : ~(IF last THEN s < x ELSE x < s)
    BY <1>1, <1>2, <2>2 DEF AtEnd
  <2>4. Ranged(LeafAlive, R)
    BY <1>2, RangedLeaves
  <2>5. Ahead(R, l, m) \/ Ahead(R, m, l)
    BY <1>1, <1>2, <1>5, LeavesApart
  <2>6. PICK s : s \in R[Leaf(l)]
    BY <1>1, <2>4 DEF Ranged
  <2>7. CASE last
    BY <1>1, <1>3, <2>1, <2>3, <2>5, <2>6, <2>7 DEF Ahead, Precedes, LeafAbove, LeafNearer
  <2>8. CASE ~last
    BY <1>1, <1>3, <2>1, <2>3, <2>5, <2>6, <2>8 DEF Ahead, Precedes, LeafBelow, LeafNearer
  <2> QED
    BY <2>7, <2>8
<1> QED
  BY <1>4, <1>5

\* first and last, if there is an entry to point to.
LEMMA EndEntries ==
  ASSUME NEW h, Good(h), NEW T, NEW R, Routed(T, R), ~IsSplit, NEW last \in BOOLEAN,
         NEW l, l = EndLeaf(last)
  PROVE  /\ LeafSize(leaves[l]) > 0 =>
                LET g == Landing(l, leaves[l], IF last THEN LeafSize(leaves[l]) ELSE 1)
                IN  /\ CursorOK(g.cursor)
                    /\ last => g.pair = EntryOf(Contents, DOMAIN Contents, Max)
                    /\ ~last => g.pair = EntryOf(Contents, DOMAIN Contents, Min)
         /\ ~(LeafSize(leaves[l]) > 0) => DOMAIN Contents = {}
<1>1. l \in LeafAlive
  BY EndLeafIs
<1>2. PICK S : S = DOMAIN Contents
  OBVIOUS
<1>3. S = StoredKeys /\ S \subseteq Int
  BY <1>2, MapIs, StoredFinite DEF Map!Keys
<1>4. ASSUME ~(LeafSize(leaves[l]) > 0) PROVE S = {}
  BY <1>3, <1>4, EndHolds
<1>5. ASSUME LeafSize(leaves[l]) > 0,
             NEW o, o = IF last THEN LeafSize(leaves[l]) ELSE 1,
             NEW g, g = Landing(l, leaves[l], o)
      PROVE  /\ CursorOK(g.cursor)
             /\ last => g.pair = EntryOf(Contents, S, Max)
             /\ ~last => g.pair = EntryOf(Contents, S, Min)
  <2>1. PICK d : d = leaves[l].data
    OBVIOUS
  <2>2. Ascends(d) /\ DOMAIN d = 1 .. Len(d) /\ Len(d) \in Nat /\ o \in 1 .. Len(d)
    BY <1>1, <1>5, <2>1, EntriesOfLeaf DEF LeafSize
  <2>3. /\ CursorOK(g.cursor) /\ g.pair = <<d[o][1], Contents[d[o][1]]>>
        /\ d[o][1] \in StoredKeys
    <3>1. g = Landing(l, leaves[l], o) /\ o \in 1 .. Len(leaves[l].data)
      BY <1>5, <2>1, <2>2
    <3> QED
      BY <1>1, <2>1, <3>1, LandingIs
  <2>4. d[o][1] \in R[Leaf(l)] /\ \A i \in 1 .. Len(d) : d[i][1] \in Int
    BY <1>1, <2>1, <2>2, EntriesOfLeaf
  <2>5. ASSUME NEW x \in S PROVE IF last THEN x <= d[o][1] ELSE d[o][1] <= x
    <3>1. CASE x \in KeysOf(leaves[l])
      <4>1. PICK i \in 1 .. Len(d) : d[i][1] = x
        BY <2>1, <2>2, <3>1 DEF KeysOf
      <4>2. i = o \/ IF last THEN d[i][1] < d[o][1] ELSE d[o][1] < d[i][1]
        BY <1>5, <2>1, <2>2, <4>1 DEF Ascends, LeafSize
      <4> QED
        BY <2>2, <2>4, <4>1, <4>2
    <3>2. CASE LeafNearer(R, l, x, last)
      <4>1. x \in Int /\ d[o][1] \in Int
        BY <1>3, <2>2, <2>4
      <4>2. CASE last
        <5>1. x < d[o][1]
          BY <2>4, <3>2, <4>2 DEF LeafAbove, LeafNearer
        <5> QED
          BY <4>1, <4>2, <5>1
      <4>3. CASE ~last
        <5>1. d[o][1] < x
          BY <2>4, <3>2, <4>3 DEF LeafBelow, LeafNearer
        <5> QED
          BY <4>1, <4>3, <5>1
      <4> QED
        BY <4>2, <4>3
    <3>3. x \in StoredKeys
      BY <1>3
    <3>4. x \in KeysOf(leaves[l]) \/ LeafNearer(R, l, x, last)
      BY <3>3, EndHolds
    <3> QED
      BY <3>1, <3>2, <3>4
  <2>6. last => EntryOf(Contents, S, Max) = g.pair
    BY <1>3, <2>3, <2>5, EntryOfIs
  <2>7. ~last => EntryOf(Contents, S, Min) = g.pair
    BY <1>3, <2>3, <2>5, EntryOfIs
  <2> QED
    BY <2>3, <2>6, <2>7
<1> QED
  BY <1>2, <1>4, <1>5

\* The use s of a cursor answered as the map would.
SeenRight(map, s) ==
    CASE s.op = "next"  -> s.pair = EntryOf(map, {x \in DOMAIN map : x > s.k}, Min)
      [] s.op = "prev"  -> s.pair = EntryOf(map, {x \in DOMAIN map : x < s.k}, Max)
      [] s.op = "value" -> s.pair[2] = IF s.k \in DOMAIN map THEN map[s.k] ELSE None
      [] s.op = "last"  -> s.pair = EntryOf(map, DOMAIN map, Max)
      [] s.op = "first" -> DOMAIN map # {} => s.pair = EntryOf(map, DOMAIN map, Min)

\* The inductive invariant of the cursor.
CursorInv == /\ \E h : Good(h)
             /\ \E T, R : Routed(T, R)
             /\ cursor # None => CursorOK(cursor)
             /\ seen # None => SeenRight(Contents, seen)

\* What a use of the cursor notes is right when its answer is what the map has.
LEMMA UseIs ==
  ASSUME NEW op, NEW k, NEW to, NEW pair, Use(op, k, to, pair)
  PROVE  /\ pc = "idle" /\ cursor' = to /\ UNCHANGED vars
         /\ op = "next" => (pair = EntryOf(Contents, KeysAfter(k), Min)
                                => SeenRight(Contents, seen'))
         /\ op = "prev" => (pair = EntryOf(Contents, KeysAhead(k), Max)
                                => SeenRight(Contents, seen'))
         /\ op = "value" => (pair[2] = Map!Lookup(k) => SeenRight(Contents, seen'))
         /\ op = "last" => (pair = EntryOf(Contents, DOMAIN Contents, Max)
                                => SeenRight(Contents, seen'))
         /\ op = "first" => ((DOMAIN Contents # {} =>
                                  pair = EntryOf(Contents, DOMAIN Contents, Min))
                                => SeenRight(Contents, seen'))
<1>1. pc = "idle" /\ cursor' = to /\ UNCHANGED vars
  BY DEF Use
<1>2. seen'.op = op /\ seen'.k = k /\ seen'.pair = pair
  BY DEF Use
<1>3. op = "next" => (pair = EntryOf(Contents, KeysAfter(k), Min) => SeenRight(Contents, seen'))
  BY <1>2 DEF SeenRight, KeysAfter
<1>4. op = "prev" => (pair = EntryOf(Contents, KeysAhead(k), Max) => SeenRight(Contents, seen'))
  BY <1>2 DEF SeenRight, KeysAhead
<1>5. op = "value" => (pair[2] = Map!Lookup(k) => SeenRight(Contents, seen'))
  BY <1>2 DEF SeenRight, Map!Lookup, Map!Keys
<1>6. op = "last" => (pair = EntryOf(Contents, DOMAIN Contents, Max)
                          => SeenRight(Contents, seen'))
  BY <1>2 DEF SeenRight
<1>7. op = "first" => ((DOMAIN Contents # {} =>
                            pair = EntryOf(Contents, DOMAIN Contents, Min))
                          => SeenRight(Contents, seen'))
  BY <1>2 DEF SeenRight
<1> QED
  BY <1>1, <1>3, <1>4, <1>5, <1>6, <1>7

\* A move to where a cursor lands, if it lands.
LEMMA MoveToIs ==
  ASSUME NEW op, NEW l, NEW e, LandsOn(l, e), CursorOK(cursor), MoveTo(op, l),
         (op = "next" /\ e = EntryOf(Contents, KeysAfter(cursor.k), Min))
           \/ (op = "prev" /\ e = EntryOf(Contents, KeysAhead(cursor.k), Max))
  PROVE  CursorOK(cursor') /\ SeenRight(Contents, seen')
<1>1. PICK to, k, p : /\ to = (IF l = Nowhere THEN cursor ELSE l.cursor)
                      /\ k = cursor.k /\ p = l.pair
  OBVIOUS
<1>2. Use(op, k, to, p)
  BY <1>1 DEF MoveTo
<1>3. CursorOK(to) /\ p = e
  BY <1>1 DEF LandsOn
<1>4. cursor' = to
  BY <1>2, UseIs
<1>5. SeenRight(Contents, seen')
  BY <1>1, <1>2, <1>3, UseIs
<1> QED
  BY <1>3, <1>4, <1>5

\* Every use of a cursor answers as the map would, and leaves a cursor behind.
LEMMA UsesAreRight ==
  ASSUME NEW h, Good(h), NEW T, NEW R, Routed(T, R), cursor # None => CursorOK(cursor),
         CursorStep
  PROVE  CursorOK(cursor') /\ SeenRight(Contents, seen')
<1>1. pc = "idle" /\ ~IsSplit
  BY DEF CursorStep, CursorMove, CursorFirst, CursorLast, CursorNext, CursorPrev, CursorValue,
         MoveTo, GetCursor, Use, IsSplit
<1>2. CASE CursorFirst
  <2>1. PICK id : id = FirstLeaf
    OBVIOUS
  <2>2. id = EndLeaf(FALSE)
    BY <2>1 DEF EndLeaf
  <2>3. CASE LeafSize(leaves[id]) > 0
    <3>1. PICK l : l = Landing(id, leaves[id], 1)
      OBVIOUS
    <3>2. Use("first", l.cursor.k, l.cursor, l.pair)
      BY <1>2, <2>1, <2>3, <3>1 DEF CursorFirst
    <3>3. CursorOK(l.cursor) /\ l.pair = EntryOf(Contents, DOMAIN Contents, Min)
      BY <2>2, <2>3, <3>1, <1>1, EndEntries
    <3> QED
      BY <3>2, <3>3, UseIs
  <2>4. CASE ~(LeafSize(leaves[id]) > 0)
    <3>1. PICK k \in Key, v \in Value : Use("first", k, CursorAt(k, id, 1), <<k, v>>)
      BY <1>2, <2>1, <2>4 DEF CursorFirst
    <3>2. DOMAIN Contents = {}
      BY <2>2, <2>4, <1>1, EndEntries
    <3>3. cursor' = CursorAt(k, id, 1) /\ SeenRight(Contents, seen')
      BY <3>1, <3>2, UseIs
    <3> QED
      BY <3>3 DEF CursorOK, CursorAt
  <2> QED
    BY <2>3, <2>4
<1>3. CASE CursorLast
  <2>1. PICK id : id = LastLeaf
    OBVIOUS
  <2>2. id = EndLeaf(TRUE)
    BY <2>1 DEF EndLeaf
  <2>3. PICK l : l = Landing(id, leaves[id], LeafSize(leaves[id]))
    OBVIOUS
  <2>4. LeafSize(leaves[id]) > 0 /\ Use("last", l.cursor.k, l.cursor, l.pair)
    BY <1>3, <2>1, <2>3 DEF CursorLast
  <2>5. CursorOK(l.cursor) /\ l.pair = EntryOf(Contents, DOMAIN Contents, Max)
    BY <2>2, <2>3, <2>4, <1>1, EndEntries
  <2> QED
    BY <2>4, <2>5, UseIs
<1>4. CASE CursorNext
  <2>1. CursorOK(cursor) /\ MoveTo("next", Following(cursor))
    BY <1>4 DEF CursorNext
  <2>2. LandsOn(Following(cursor), EntryOf(Contents, KeysAfter(cursor.k), Min))
    BY <1>1, <2>1, FollowingIs
  <2> QED
    BY <2>1, <2>2, MoveToIs
<1>5. CASE CursorPrev
  <2>1. CursorOK(cursor) /\ MoveTo("prev", Preceding(cursor))
    BY <1>5 DEF CursorPrev
  <2>2. LandsOn(Preceding(cursor), EntryOf(Contents, KeysAhead(cursor.k), Max))
    BY <1>1, <2>1, PrecedingIs
  <2> QED
    BY <2>1, <2>2, MoveToIs
<1>6. CASE CursorValue
  <2>1. CursorOK(cursor) /\ Use("value", cursor.k, cursor, <<cursor.k, ValueAt(cursor)>>)
    BY <1>6 DEF CursorValue
  <2>2. PICK c, p : c = cursor /\ p = <<cursor.k, ValueAt(cursor)>>
    OBVIOUS
  <2>3. Use("value", c.k, c, p) /\ CursorOK(c) /\ p[2] = ValueAt(c)
    BY <2>1, <2>2
  <2>4. ValueAt(c) = Map!Lookup(c.k)
    BY <1>1, <2>3, ValueAtIs
  <2> QED
    BY <2>3, <2>4, UseIs
<1>7. CASE \E k \in Key : GetCursor(k)
  <2>1. PICK k \in Key : GetCursor(k)
    BY <1>7
  <2>2. PICK id, s, p : /\ id = LeafFor(k) /\ s = LocateSlot(leaves[id], k)
                        /\ p = <<k, ValueOf(leaves[id], k)>>
    OBVIOUS
  <2>3. Use("value", k, CursorAt(k, id, s), p) /\ p[2] = ValueOf(leaves[id], k)
    BY <2>1, <2>2 DEF GetCursor
  <2>4. id \in LeafAlive /\ k \in R[Leaf(id)]
    BY <1>1, <2>2, LeafForRouted
  <2>5. p[2] = Map!Lookup(k)
    BY <2>3, <2>4, LookupIs
  <2>6. s \in Nat \ {0}
    <3>1. StandsAt(id, k, leaves[id].data, s)
      BY <2>2, <2>4, SlotSplits
    <3> QED
      BY <3>1 DEF StandsAt
  <2>7. cursor' = CursorAt(k, id, s) /\ SeenRight(Contents, seen')
    BY <2>3, <2>5, UseIs
  <2> QED
    BY <2>6, <2>7 DEF CursorOK, CursorAt
<1> QED
  BY <1>2, <1>3, <1>4, <1>5, <1>6, <1>7 DEF CursorStep, CursorMove

\* No step, of the tree or of the cursor, disturbs the invariant.
LEMMA CursorsStep ==
  CursorInv /\ [CursorStep \/ (Next /\ CursorKept)]_<<vars, cursorVars>> => CursorInv'
<1> SUFFICES ASSUME CursorInv, [CursorStep \/ (Next /\ CursorKept)]_<<vars, cursorVars>>
             PROVE  CursorInv'
  OBVIOUS
<1>1. PICK h : Good(h)
  BY DEF CursorInv
<1>2. PICK T, R : Routed(T, R)
  BY DEF CursorInv
<1>3. CASE UNCHANGED vars /\ (CursorStep \/ UNCHANGED cursorVars)
  <2>1. (\E g : Good(g)') /\ (\E U, Q : Routed(U, Q)')
    BY <1>1, <1>2, <1>3, StepOK, StutterRouted
  <2>2. Contents' = Contents
    BY <1>3, StoredKept, KeepIs DEF vars, tree, store, taken
  <2>3. /\ cursor' # None => CursorOK(cursor')
        /\ seen' # None => SeenRight(Contents, seen')
    <3>1. CASE CursorStep
      BY <1>1, <1>2, <3>1, UsesAreRight DEF CursorInv
    <3>2. CASE UNCHANGED cursorVars
      BY <3>2 DEF CursorInv, cursorVars
    <3> QED
      BY <1>3, <3>1, <3>2
  <2>4. seen' # None => SeenRight(Contents', seen')
    BY <2>2, <2>3
  <2> QED
    BY <2>1, <2>3, <2>4 DEF CursorInv, CursorOK, SeenRight
<1>4. CASE Next /\ CursorKept
  <2>1. (\E g : Good(g)') /\ (\E U, Q : Routed(U, Q)')
    BY <1>1, <1>2, <1>4, StepOK, StepRouted
  <2>2. seen' = None /\ (cursor' # None => CursorOK(cursor'))
    BY <1>4 DEF CursorKept, CursorInv
  <2> QED
    BY <2>1, <2>2 DEF CursorInv, CursorOK
<1> QED
  <2>1. CursorStep => UNCHANGED vars
    BY DEF CursorStep, CursorMove, CursorFirst, CursorLast, CursorNext, CursorPrev, CursorValue,
           MoveTo, GetCursor, Use
  <2> QED
    BY <1>3, <1>4, <2>1

\* There is no cursor before the first call.
LEMMA CursorsStart == Init /\ CursorInit => CursorInv
BY InitOK, InitRouted DEF CursorInit, CursorInv

\* Whatever calls the tree has seen since a cursor was made, its uses answer as
\* the map would for its key.
THEOREM CursorsStayTheirKeys == CursorSpec => []CursorIsItsKey
<1>1. CursorInv => CursorIsItsKey
  BY DEF CursorInv, SeenRight, CursorIsItsKey
<1> QED
  BY <1>1, CursorsStart, CursorsStep, PTL DEF CursorSpec

-----------------------------------------------------------------------------
(* Iterators                                                               *)

\* s are the first places of P.
Taken(s, P) == /\ s \in Seq(Place) /\ Len(s) <= Len(P)
               /\ \A j \in 1 .. Len(s) : s[j] = P[j]

\* s are the last places of P, from the last one back.
TakenBack(s, P) == /\ s \in Seq(Place) /\ Len(s) <= Len(P)
                   /\ \A j \in 1 .. Len(s) : s[j] = P[Len(P) - j + 1]

\* Reading a sequence from its end.
LEMMA ReverseIs ==
  ASSUME NEW S, NEW P \in Seq(S)
  PROVE  /\ Reverse(P) \in Seq(S) /\ Len(Reverse(P)) = Len(P) /\ Len(P) \in Nat
         /\ \A j \in 1 .. Len(P) : Reverse(P)[j] = P[Len(P) - j + 1]
<1>1. PICK n : n = Len(P)
  OBVIOUS
<1>2. n \in Nat /\ \A j \in 1 .. n : P[j] \in S
  BY <1>1, ElementOfSeq, LenProperties
<1>3. PICK w : w = Reverse(P)
  OBVIOUS
<1>4. w = [i \in 1 .. n |-> P[(n - i) + 1]]
  BY <1>1, <1>3 DEF Reverse
<1>5. \A j \in 1 .. n : (n - j) + 1 \in 1 .. n
  BY <1>2
<1>6. \A j \in 1 .. n : w[j] = P[(n - j) + 1]
  BY <1>4
<1>7. \A j \in 1 .. n : w[j] \in S
  BY <1>2, <1>5, <1>6
<1>8. w = [j \in 1 .. n |-> w[j]] /\ DOMAIN w = 1 .. n
  BY <1>4
<1>9. w \in Seq(S) /\ Len(w) = n
  BY ONLY <1>2, <1>7, <1>8
<1> QED
  BY <1>1, <1>2, <1>3, <1>6, <1>9

\* Sequences with the same items at the same places are one.
LEMMA SameSequence ==
  ASSUME NEW S, NEW s \in Seq(S), NEW t \in Seq(S), Len(s) = Len(t),
         \A j \in 1 .. Len(s) : s[j] = t[j]
  PROVE  s = t
<1>1. DOMAIN s = 1 .. Len(s) /\ DOMAIN t = 1 .. Len(s)
  BY LenProperties
<1>2. s = [j \in DOMAIN s |-> s[j]] /\ t = [j \in DOMAIN t |-> t[j]]
  OBVIOUS
<1> QED
  BY <1>1, <1>2

\* Sequences that agree on the items of the shorter.
LEMMA PrefixIs ==
  ASSUME NEW S, NEW s \in Seq(S), NEW t \in Seq(S), Len(s) <= Len(t),
         \A j \in 1 .. Len(s) : s[j] = t[j]
  PROVE  IsPrefix(s, t) /\ (Len(s) = Len(t) => s = t)
<1>1. PICK n : n = Len(s)
  OBVIOUS
<1>2. n \in Nat /\ n <= Len(t) /\ Len(t) \in Nat
  BY <1>1, LenProperties
<1>3. SubSeq(s, 1, n) = SubSeq(t, 1, n)
  BY <1>1, <1>2
<1>4. Len(s) = Len(t) => s = t
  BY SameSequence
<1> QED
  BY <1>1, <1>3, <1>4 DEF IsPrefix

\* What has been taken from an end is a prefix from that end; all of it is all.
LEMMA TakenIs ==
  ASSUME NEW P \in Seq(Place), NEW s, Taken(s, P)
  PROVE  IsPrefix(s, P) /\ (Len(s) = Len(P) => s = P)
BY PrefixIs DEF Taken

\* And from the other end.
LEMMA TakenBackIs ==
  ASSUME NEW P \in Seq(Place), NEW s, TakenBack(s, P)
  PROVE  IsPrefix(s, Reverse(P)) /\ (Len(s) = Len(P) => s = Reverse(P))
<1>1. PICK w : w = Reverse(P)
  OBVIOUS
<1>2. w \in Seq(Place) /\ Len(w) = Len(P) /\ Len(P) \in Nat
      /\ \A j \in 1 .. Len(P) : w[j] = P[Len(P) - j + 1]
  BY <1>1, ReverseIs
<1>3. s \in Seq(Place) /\ Len(s) <= Len(w) /\ Len(s) \in Nat
  BY <1>2, LenProperties DEF TakenBack
<1>4. \A j \in 1 .. Len(s) : s[j] = w[j]
  BY <1>2, <1>3 DEF TakenBack
<1>5. IsPrefix(s, w) /\ (Len(s) = Len(w) => s = w)
  BY <1>2, <1>3, <1>4, PrefixIs
<1> QED
  BY <1>1, <1>2, <1>5

\* Taking one more place.
LEMMA TakeOne ==
  ASSUME NEW P \in Seq(Place), NEW s, Len(s) < Len(P), NEW x,
         \/ Taken(s, P) /\ x = P[Len(s) + 1]
         \/ TakenBack(s, P) /\ x = P[Len(P) - Len(s)]
  PROVE  /\ Len(s) \in Nat /\ Len(P) \in Nat /\ Len(Append(s, x)) = Len(s) + 1
         /\ Taken(s, P) /\ x = P[Len(s) + 1] => Taken(Append(s, x), P)
         /\ TakenBack(s, P) /\ x = P[Len(P) - Len(s)] => TakenBack(Append(s, x), P)
<1>1. PICK n, N : n = Len(s) /\ N = Len(P)
  OBVIOUS
<1>2. s \in Seq(Place) /\ n \in Nat /\ N \in Nat /\ n < N
  BY <1>1, LenProperties DEF Taken, TakenBack
<1>3. n + 1 \in 1 .. N /\ N - n \in 1 .. N
  BY <1>2
<1>4. x \in Place
  BY <1>1, <1>3, ElementOfSeq
<1>5. PICK t : t = Append(s, x)
  OBVIOUS
<1>6. /\ t \in Seq(Place) /\ Len(t) = n + 1 /\ t[n + 1] = x
      /\ \A j \in 1 .. n : t[j] = s[j]
  BY <1>1, <1>2, <1>4, <1>5, AppendProperties
<1>7. n + 1 <= N /\ \A j \in 1 .. n + 1 : j \in 1 .. n \/ j = n + 1
  BY <1>2
<1>8. Taken(s, P) /\ x = P[n + 1] => Taken(t, P)
  BY <1>1, <1>6, <1>7 DEF Taken
<1>9. TakenBack(s, P) /\ x = P[N - n] => TakenBack(t, P)
  <2>1. N - (n + 1) + 1 = N - n
    BY <1>2
  <2> QED
    BY <1>1, <1>6, <1>7, <2>1 DEF TakenBack
<1> QED
  BY <1>1, <1>2, <1>5, <1>6, <1>8, <1>9

\* What has been taken from the front, with the rest from the back, is all.
LEMMA TakenFromBothEnds ==
  ASSUME NEW P \in Seq(Place), NEW s, NEW t, Taken(s, P), TakenBack(t, P),
         Len(s) + Len(t) = Len(P)
  PROVE  s \o Reverse(t) = P
<1>1. PICK n, m, N : n = Len(s) /\ m = Len(t) /\ N = Len(P)
  OBVIOUS
<1>2. /\ s \in Seq(Place) /\ t \in Seq(Place) /\ n \in Nat /\ m \in Nat /\ N \in Nat
      /\ n + m = N
  BY <1>1, LenProperties DEF Taken, TakenBack
<1>3. PICK w : w = Reverse(t)
  OBVIOUS
<1>4. w \in Seq(Place) /\ Len(w) = m /\ \A j \in 1 .. m : w[j] = t[m - j + 1]
  BY <1>1, <1>2, <1>3, ReverseIs
<1>5. /\ s \o w \in Seq(Place) /\ Len(s \o w) = N
      /\ \A j \in 1 .. N : (s \o w)[j] = IF j <= n THEN s[j] ELSE w[j - n]
  BY <1>1, <1>2, <1>4, ConcatProperties
<1>6. ASSUME NEW j \in 1 .. N PROVE (s \o w)[j] = P[j]
  <2>1. CASE j <= n
    BY <1>1, <1>2, <1>5, <2>1 DEF Taken
  <2>2. CASE ~(j <= n)
    <3>1. PICK i, k : i = j - n /\ k = m - i + 1
      OBVIOUS
    <3>2. i \in 1 .. m /\ k \in 1 .. m /\ N - k + 1 = j
      BY <1>2, <2>2, <3>1
    <3>3. w[i] = t[k] /\ t[k] = P[N - k + 1]
      BY <1>1, <1>4, <3>1, <3>2 DEF TakenBack
    <3> QED
      BY <1>5, <2>2, <3>1, <3>2, <3>3
  <2> QED
    BY <2>1, <2>2
<1> QED
  BY <1>1, <1>3, <1>5, <1>6, SameSequence

(***************************************************************************)
(* Where an Iter is when it has given front and back: its next item is the *)
(* place after front, and end is the place last given from the back.       *)
(***************************************************************************)
IterAt(P) ==
    /\ iter \in IterRecord
    /\ Taken(front, P) /\ TakenBack(back, P)
    /\ iter.len = Len(P) - Len(front)
    /\ iter.len > 0 => <<iter.leaf, iter.offset>> = P[Len(front) + 1]
    /\ IF Len(back) = 0 THEN iter.end = None
       ELSE /\ iter.end \in IterPlace
            /\ <<iter.end.leaf, iter.end.offset>> = P[Len(P) - Len(back) + 1]

(***************************************************************************)
(* Where an IntoIter is: either end is at the place it takes next, or just *)
(* past the one it took last, which may be outside of the leaf.            *)
(***************************************************************************)
IntoAt(P) ==
    /\ into \in IntoRecord
    /\ Taken(front, P) /\ TakenBack(back, P)
    /\ into.len = Len(P) - Len(front) - Len(back)
    /\ into.len > 0 =>
           /\ \/ into.pos = P[Len(front) + 1]
              \/ /\ Len(front) >= 1
                 /\ into.pos = <<P[Len(front)][1], P[Len(front)][2] + 1>>
           /\ \/ into.end = P[Len(P) - Len(back)]
              \/ /\ Len(back) >= 1
                 /\ into.end = <<P[Len(P) - Len(back) + 1][1], P[Len(P) - Len(back) + 1][2] - 1>>
    /\ into.busy = "dropped" => into.len = 0

\* The records are not None.
LEMMA RecordsAreSome ==
  (\A x \in IterPlace : x # None) /\ (\A x \in IterRecord : x # None)
  /\ \A x \in IntoRecord : x # None
BY IteratorAssumption

\* A place of the entries, and the one after it.
LEMMA PlaceIs ==
  ASSUME NEW h, Good(h), NEW P, PlacesRight(P), NEW j \in 1 .. Len(P)
  PROVE  /\ Len(P) \in Nat
         /\ P[j][1] \in LeafAlive /\ P[j][1] \in Nat /\ P[j][2] \in Nat
         /\ P[j] = <<P[j][1], P[j][2]>>
         /\ P[j] \in Place /\ P[j] \in Nat \X Nat
         /\ LeafSize(leaves[P[j][1]]) \in Nat
         /\ P[j][2] >= 1 /\ P[j][2] <= LeafSize(leaves[P[j][1]])
         /\ leaves[P[j][1]].next \in Nat \cup {None} /\ leaves[P[j][1]].prev \in Nat \cup {None}
         /\ j < Len(P) => StepOn(P[j], P[j + 1]) /\ StepBack(P[j], P[j + 1])
<1>1. Len(P) \in Nat /\ P[j] \in Place
  BY ElementOfSeq, LenProperties DEF PlacesRight
<1>2. PICK l, n : l = P[j][1] /\ n = P[j][2]
  OBVIOUS
<1>3. P[j] = <<l, n>> /\ l \in LeafAlive /\ n \in Nat
  BY <1>1, <1>2 DEF Place, PlacesRight
<1>4. /\ l \in Nat /\ LeafSize(leaves[l]) \in Nat
      /\ leaves[l].next \in Nat \cup {None} /\ leaves[l].prev \in Nat \cup {None}
  BY <1>3, LeavesAre
<1>5. n \in 1 .. LeafSize(leaves[l])
  <2>1. P[j][2] \in 1 .. LeafSize(leaves[P[j][1]])
    BY DEF PlacesRight
  <2> QED
    BY <1>2, <2>1
<1>6. P[j][1] = l /\ P[j][2] = n
  BY <1>2
<1>7. n >= 1 /\ n <= LeafSize(leaves[l])
  BY <1>4, <1>5
<1>8. P[j] \in Nat \X Nat /\ P[j] = <<P[j][1], P[j][2]>>
  BY <1>3, <1>4, <1>6
<1>9. j < Len(P) => StepOn(P[j], P[j + 1]) /\ StepBack(P[j], P[j + 1])
  BY DEF PlacesRight
<1> QED
  BY <1>1, <1>3, <1>4, <1>6, <1>7, <1>8, <1>9

\* The ends of the places are the ends of the tree.
LEMMA PlacesEnd ==
  ASSUME NEW h, Good(h), NEW T, NEW R, Routed(T, R), ~IsSplit, NEW P, PlacesRight(P)
  PROVE  /\ FirstLeaf \in Nat /\ LastLeaf \in Nat /\ LeafSize(leaves[LastLeaf]) \in Nat
         /\ Len(P) > 0 => /\ P[1] = <<FirstLeaf, 1>> /\ leaves[FirstLeaf].prev = None
                          /\ P[Len(P)] = <<LastLeaf, LeafSize(leaves[LastLeaf])>>
<1>1. EndLeaf(TRUE) = LastLeaf /\ EndLeaf(FALSE) = FirstLeaf
  BY DEF EndLeaf
<1>2. LastLeaf \in LeafAlive /\ FirstLeaf \in LeafAlive
  BY <1>1, EndLeafIs
<1>3. Len(P) \in Nat
  BY LenProperties DEF PlacesRight
<1> QED
  BY <1>2, <1>3, LeavesAre DEF PlacesRight

\* A new Iter.
LEMMA IterBegins ==
  ASSUME NEW h, Good(h), NEW T, NEW R, Routed(T, R), ~IsSplit, NEW P, PlacesRight(P),
         front = <<>>, back = <<>>, len = Len(P), IterNew
  PROVE  IterAt(P)'
<1>1. /\ iter' = [len |-> len, leaf |-> FirstLeaf, offset |-> 1, end |-> None]
      /\ front' = <<>> /\ back' = <<>>
  BY DEF IterNew
<1>2. FirstLeaf \in Nat /\ Len(P) \in Nat /\ (Len(P) > 0 => P[1] = <<FirstLeaf, 1>>)
  BY PlacesEnd, LenProperties DEF PlacesRight
<1>3. iter' \in IterRecord
  BY <1>1, <1>2 DEF IterRecord
<1>4. Taken(front, P)' /\ TakenBack(back, P)' /\ Len(front') = 0 /\ Len(back') = 0
  BY <1>1, <1>2 DEF Taken, TakenBack
<1> QED
  BY <1>1, <1>2, <1>3, <1>4 DEF IterAt

\* Iter::next gives the next place.
LEMMA IterGoesOn ==
  ASSUME NEW h, Good(h), NEW P, PlacesRight(P), IterAt(P), IterNext
  PROVE  IterAt(P)'
<1>1. PICK n, N, m : n = Len(front) /\ N = Len(P) /\ m = Len(back)
  OBVIOUS
<1>2. iter \in IterRecord /\ iter.len > 0 /\ iter.len = N - n
  BY <1>1 DEF IterAt, IterNext
<1>3. n \in Nat /\ N \in Nat /\ n + 1 \in 1 .. N /\ P \in Seq(Place) /\ n < N
  BY <1>1, <1>2, LenProperties DEF IterAt, Taken, PlacesRight
<1>4. PICK x : x = P[n + 1]
  OBVIOUS
<1>5. <<iter.leaf, iter.offset>> = x /\ iter.leaf = x[1] /\ iter.offset = x[2]
  BY <1>1, <1>2, <1>4 DEF IterAt
<1>6. front' = Append(front, x) /\ back' = back
  BY <1>5 DEF IterNext
<1>7. Taken(front, P)' /\ Len(front') = n + 1 /\ TakenBack(back, P)'
  <2>1. PICK f : f = Append(front, x)
    OBVIOUS
  <2>2. Taken(f, P) /\ Len(f) = n + 1
    BY <1>1, <1>3, <1>4, <2>1, TakeOne DEF IterAt
  <2>3. TakenBack(back, P)
    BY DEF IterAt
  <2> QED
    BY <1>6, <2>1, <2>2, <2>3 DEF Taken, TakenBack
<1>8. PICK to : to = IterAfter(iter)
  OBVIOUS
<1>9. /\ x[1] \in LeafAlive /\ x[2] \in Nat /\ LeafSize(leaves[x[1]]) \in Nat
      /\ x[2] <= LeafSize(leaves[x[1]])
      /\ leaves[x[1]].next \in Nat \cup {None} /\ x = <<x[1], x[2]>>
      /\ n + 1 < N => StepOn(x, P[n + 2])
  <2>1. (n + 1) + 1 = n + 2
    BY <1>3
  <2> QED
    BY <1>1, <1>3, <1>4, <2>1, PlaceIs
<1>10. /\ to \in IterRecord /\ to.len = iter.len /\ to.end = iter.end
       /\ <<to.leaf, to.offset>> = IF x[2] + 1 <= LeafSize(leaves[x[1]]) THEN <<x[1], x[2] + 1>>
                                   ELSE <<leaves[x[1]].next, 1>>
  <2>1. CASE x[2] + 1 <= LeafSize(leaves[x[1]])
    <3>1. to = [iter EXCEPT !.offset = @ + 1]
      BY <1>5, <1>8, <2>1 DEF IterAfter
    <3> QED
      BY <1>2, <1>5, <1>9, <2>1, <3>1 DEF IterRecord
  <2>2. CASE ~(x[2] + 1 <= LeafSize(leaves[x[1]]))
    <3>1. to = [iter EXCEPT !.leaf = leaves[x[1]].next, !.offset = 1]
      BY <1>5, <1>8, <2>2 DEF IterAfter
    <3> QED
      BY <1>2, <1>5, <1>9, <2>2, <3>1 DEF IterRecord
  <2> QED
    BY <2>1, <2>2
<1>11. n + 1 < N => <<to.leaf, to.offset>> = P[n + 2]
  BY <1>9, <1>10 DEF StepOn
<1>12. /\ iter' \in IterRecord /\ iter'.len = N - (n + 1)
       /\ iter'.leaf = to.leaf /\ iter'.offset = to.offset /\ iter'.end = iter.end
  <2>1. PICK new : new = [to EXCEPT !.len = @ - 1]
    OBVIOUS
  <2>2. iter' = new
    BY <1>8, <2>1 DEF IterNext
  <2>3. to.len - 1 \in Nat /\ to.len - 1 = N - (n + 1)
    BY <1>2, <1>3, <1>10
  <2>4. new \in IterRecord /\ new.len = N - (n + 1)
        /\ new.leaf = to.leaf /\ new.offset = to.offset /\ new.end = iter.end
    BY <1>10, <2>1, <2>3 DEF IterRecord
  <2> QED
    BY <2>2, <2>4
<1>13. iter'.len > 0 => <<iter'.leaf, iter'.offset>> = P[Len(front') + 1]
  <2>1. iter'.len > 0 => n + 1 < N
    BY <1>3, <1>12
  <2>2. Len(front') + 1 = n + 2
    BY <1>3, <1>7
  <2> QED
    BY <1>11, <1>12, <2>1, <2>2
<1> QED
  BY <1>1, <1>6, <1>7, <1>12, <1>13 DEF IterAt

\* The next place from the back, or None where none is left.
LEMMA BackAfterIs ==
  ASSUME NEW h, Good(h), NEW T, NEW R, Routed(T, R), ~IsSplit, NEW P, PlacesRight(P),
         IterAt(P), Len(P) > 0
  PROVE  IF Len(back) < Len(P)
         THEN /\ BackAfter(iter.end) \in IterPlace
              /\ <<BackAfter(iter.end).leaf, BackAfter(iter.end).offset>> = P[Len(P) - Len(back)]
         ELSE BackAfter(iter.end) = None
<1>1. PICK m, N : m = Len(back) /\ N = Len(P)
  OBVIOUS
<1>2. m \in Nat /\ N \in Nat /\ m <= N /\ N > 0
  BY <1>1, LenProperties DEF IterAt, TakenBack, PlacesRight
<1>3. PICK e, to : e = iter.end /\ to = BackAfter(e)
  OBVIOUS
<1>4. CASE m = 0
  <2>1. to = [leaf |-> LastLeaf, offset |-> LeafSize(leaves[LastLeaf])]
    BY <1>1, <1>3, <1>4 DEF IterAt, BackAfter
  <2>2. to \in IterPlace /\ <<to.leaf, to.offset>> = P[N]
    BY <1>1, <1>2, <2>1, PlacesEnd DEF IterPlace
  <2>3. m < N /\ N - m = N
    BY <1>2, <1>4
  <2> QED
    BY <1>1, <1>3, <2>2, <2>3
<1>5. CASE m # 0
  <2>1. PICK j, y : j = N - m + 1 /\ y = P[j]
    OBVIOUS
  <2>2. j \in 1 .. N /\ (j = 1 <=> m = N)
    BY <1>2, <1>5, <2>1
  <2>3. e \in IterPlace /\ <<e.leaf, e.offset>> = y /\ e # None
    BY <1>1, <1>3, <1>5, <2>1, RecordsAreSome DEF IterAt
  <2>4. e.leaf = y[1] /\ e.offset = y[2] /\ y[2] \in Nat /\ y[1] \in Nat /\ y[2] >= 1
    BY <1>1, <2>1, <2>2, <2>3, PlaceIs
  <2>5. CASE m < N
    <3>1. PICK x : x = P[N - m]
      OBVIOUS
    <3>2. N - m \in 1 .. N /\ N - m < N /\ (N - m) + 1 = j
      BY <1>2, <1>5, <2>1, <2>5
    <3>3. StepBack(x, y)
      BY <1>1, <2>1, <3>1, <3>2, PlaceIs
    <3>4. x[1] \in Nat /\ x[2] \in Nat
      BY <1>1, <3>1, <3>2, PlaceIs
    <3>5. CASE y[2] > 1
      <4>1. to = [e EXCEPT !.offset = @ - 1]
        BY <1>3, <2>3, <2>4, <3>5 DEF BackAfter
      <4>2. to \in IterPlace /\ <<to.leaf, to.offset>> = <<y[1], y[2] - 1>>
        BY <2>3, <2>4, <3>5, <4>1 DEF IterPlace
      <4> QED
        BY <1>1, <1>3, <2>5, <3>1, <3>3, <3>5, <4>2 DEF StepBack
    <3>6. CASE ~(y[2] > 1)
      <4>1. /\ leaves[y[1]].prev # None
            /\ x = <<leaves[y[1]].prev, LeafSize(leaves[leaves[y[1]].prev])>>
        BY <3>3, <3>6 DEF StepBack
      <4>2. to = [leaf |-> x[1], offset |-> x[2]]
        BY <1>3, <2>3, <2>4, <3>6, <4>1 DEF BackAfter
      <4>3. to \in IterPlace /\ <<to.leaf, to.offset>> = x
        BY <3>4, <4>1, <4>2 DEF IterPlace
      <4> QED
        BY <1>1, <1>3, <2>5, <3>1, <4>3
    <3> QED
      BY <3>5, <3>6
  <2>6. CASE ~(m < N)
    <3>1. y = P[1]
      BY <1>2, <2>1, <2>2, <2>6
    <3>2. y = <<FirstLeaf, 1>> /\ leaves[FirstLeaf].prev = None
      BY <1>1, <1>2, <3>1, PlacesEnd
    <3>3. to = None
      BY <1>3, <2>3, <2>4, <3>2 DEF BackAfter
    <3> QED
      BY <1>1, <1>3, <2>6, <3>3
  <2> QED
    BY <2>5, <2>6
<1> QED
  BY <1>4, <1>5

\* Iter::next_back gives the next place from the back.
LEMMA IterGoesBack ==
  ASSUME NEW h, Good(h), NEW T, NEW R, Routed(T, R), ~IsSplit, NEW P, PlacesRight(P),
         IterAt(P), IterNextBack
  PROVE  IterAt(P)'
<1>1. PICK n, N, m : n = Len(front) /\ N = Len(P) /\ m = Len(back)
  OBVIOUS
<1>2. iter \in IterRecord /\ iter.len > 0 /\ iter.len = N - n
  BY <1>1 DEF IterAt, IterNextBack
<1>3. n \in Nat /\ m \in Nat /\ N \in Nat /\ m <= N /\ N > 0 /\ P \in Seq(Place)
  BY <1>1, <1>2, LenProperties DEF IterAt, Taken, TakenBack, PlacesRight
<1>4. PICK to : to = BackAfter(iter.end)
  OBVIOUS
<1>5. /\ to # None /\ back' = Append(back, <<to.leaf, to.offset>>)
      /\ iter' = [iter EXCEPT !.end = to] /\ front' = front
  BY <1>4 DEF IterNextBack
<1>6. m < N
  BY <1>1, <1>3, <1>4, <1>5, BackAfterIs
<1>7. to \in IterPlace /\ <<to.leaf, to.offset>> = P[N - m]
  BY <1>1, <1>3, <1>4, <1>6, BackAfterIs
<1>8. TakenBack(back, P)' /\ Len(back') = m + 1
  <2>1. PICK f : f = Append(back, <<to.leaf, to.offset>>)
    OBVIOUS
  <2>2. TakenBack(f, P) /\ Len(f) = m + 1
    BY <1>1, <1>3, <1>6, <1>7, <2>1, TakeOne DEF IterAt
  <2> QED
    BY <1>5, <2>1, <2>2 DEF TakenBack
<1>9. Taken(front, P)' /\ Len(front') = n
  <2>1. Taken(front, P) /\ front' = front
    BY <1>5 DEF IterAt
  <2> QED
    BY <1>1, <2>1 DEF Taken
<1>10. /\ iter' \in IterRecord /\ iter'.len = iter.len /\ iter'.end = to
       /\ iter'.leaf = iter.leaf /\ iter'.offset = iter.offset
  BY <1>2, <1>5, <1>7 DEF IterRecord
<1>11. N - (m + 1) + 1 = N - m /\ m + 1 # 0
  BY <1>3
<1>12. iter.len > 0 => <<iter.leaf, iter.offset>> = P[n + 1]
  BY <1>1 DEF IterAt
<1> QED
  BY <1>1, <1>2, <1>7, <1>8, <1>9, <1>10, <1>11, <1>12 DEF IterAt

\* A new IntoIter.
LEMMA IntoBegins ==
  ASSUME NEW h, Good(h), NEW T, NEW R, Routed(T, R), ~IsSplit, NEW P, PlacesRight(P),
         front = <<>>, back = <<>>, len = Len(P), IntoIterNew
  PROVE  IntoAt(P)'
<1>1. PICK s : s = LeafSize(leaves[LastLeaf])
  OBVIOUS
<1>2. /\ into' = [len |-> len, pos |-> <<FirstLeaf, 1>>, end |-> <<LastLeaf, s>>, busy |-> "no"]
      /\ front' = <<>> /\ back' = <<>>
  BY <1>1 DEF IntoIterNew, IntoIterOf
<1>3. /\ FirstLeaf \in Nat /\ LastLeaf \in Nat /\ s \in Nat /\ Len(P) \in Nat
      /\ Len(P) > 0 => P[1] = <<FirstLeaf, 1>> /\ P[Len(P)] = <<LastLeaf, s>>
  BY <1>1, PlacesEnd, LenProperties DEF PlacesRight
<1>4. into' \in IntoRecord
  BY <1>2, <1>3 DEF IntoRecord
<1>5. Taken(front, P)' /\ TakenBack(back, P)' /\ Len(front') = 0 /\ Len(back') = 0
  BY <1>2, <1>3 DEF Taken, TakenBack
<1> QED
  BY <1>2, <1>3, <1>4, <1>5 DEF IntoAt

\* What a turn of an IntoIter starts from.
LEMMA IntoHas ==
  ASSUME NEW h, Good(h), NEW P, PlacesRight(P), IntoAt(P), into.len > 0
  PROVE  /\ P \in Seq(Place) /\ Len(P) \in Nat /\ Len(front) \in Nat /\ Len(back) \in Nat
         /\ into.len = Len(P) - Len(front) - Len(back) /\ into \in IntoRecord
         /\ Len(front) < Len(P) /\ Len(front) + 1 \in 1 .. Len(P)
         /\ Len(back) < Len(P) /\ Len(P) - Len(back) \in 1 .. Len(P)
<1>1. P \in Seq(Place) /\ front \in Seq(Place) /\ back \in Seq(Place)
  BY DEF PlacesRight, IntoAt, Taken, TakenBack
<1>2. Len(P) \in Nat /\ Len(front) \in Nat /\ Len(back) \in Nat
  BY <1>1, LenProperties
<1>3. into.len = Len(P) - Len(front) - Len(back) /\ into \in IntoRecord
  BY DEF IntoAt
<1> QED
  BY <1>1, <1>2, <1>3

\* Within the leaf, and only there, the front is at the next place.
LEMMA IntoFrontIs ==
  ASSUME NEW h, Good(h), NEW P, PlacesRight(P), IntoAt(P), into.len > 0
  PROVE  IF into.pos[2] <= LeafSize(leaves[into.pos[1]])
         THEN into.pos = P[Len(front) + 1]
         ELSE <<leaves[into.pos[1]].next, 1>> = P[Len(front) + 1]
<1>1. PICK n, N, y : n = Len(front) /\ N = Len(P) /\ y = P[n + 1]
  OBVIOUS
<1>2. n \in Nat /\ N \in Nat /\ n < N /\ n + 1 \in 1 .. N
  BY <1>1, IntoHas
<1>3. PICK pos : pos = into.pos
  OBVIOUS
<1>4. CASE pos = y
  <2>1. pos[2] <= LeafSize(leaves[pos[1]])
    BY <1>1, <1>2, <1>4, PlaceIs
  <2> QED
    BY <1>1, <1>3, <1>4, <2>1
<1>5. CASE pos # y
  <2>1. PICK x : x = P[n]
    OBVIOUS
  <2>2. n >= 1 /\ pos = <<x[1], x[2] + 1>>
    BY <1>1, <1>3, <1>5, <2>1 DEF IntoAt
  <2>3. n \in 1 .. N
    BY <1>2, <2>2
  <2>4. StepOn(x, y) /\ x[2] \in Nat /\ LeafSize(leaves[x[1]]) \in Nat
    BY <1>1, <1>2, <2>1, <2>3, PlaceIs
  <2>5. pos[1] = x[1] /\ pos[2] = x[2] + 1
    BY <2>2
  <2>6. pos[2] <= LeafSize(leaves[pos[1]]) <=> x[2] < LeafSize(leaves[x[1]])
    BY <2>4, <2>5
  <2> QED
    BY <1>1, <1>3, <2>2, <2>4, <2>5, <2>6 DEF StepOn
<1> QED
  BY <1>4, <1>5

\* Within the leaf, and only there, the back is at the next place from the back.
LEMMA IntoBackIs ==
  ASSUME NEW h, Good(h), NEW P, PlacesRight(P), IntoAt(P), into.len > 0
  PROVE  LET prev == leaves[into.end[1]].prev
         IN  IF into.end[2] > 0
             THEN into.end = P[Len(P) - Len(back)]
             ELSE <<prev, LeafSize(leaves[prev])>> = P[Len(P) - Len(back)]
<1>1. PICK m, N, x : m = Len(back) /\ N = Len(P) /\ x = P[N - m]
  OBVIOUS
<1>2. m \in Nat /\ N \in Nat /\ m < N /\ N - m \in 1 .. N
  BY <1>1, IntoHas
<1>3. PICK end : end = into.end
  OBVIOUS
<1>4. CASE end = x
  <2>1. end[2] > 0
    BY <1>1, <1>2, <1>4, PlaceIs
  <2> QED
    BY <1>1, <1>3, <1>4, <2>1
<1>5. CASE end # x
  <2>1. PICK y : y = P[N - m + 1]
    OBVIOUS
  <2>2. m >= 1 /\ end = <<y[1], y[2] - 1>>
    BY <1>1, <1>3, <1>5, <2>1 DEF IntoAt
  <2>3. N - m + 1 \in 1 .. N /\ N - m < N
    BY <1>2, <2>2
  <2>4. StepBack(x, y) /\ y[2] \in Nat
    BY <1>1, <1>2, <2>1, <2>3, PlaceIs
  <2>5. end[1] = y[1] /\ end[2] = y[2] - 1
    BY <2>2
  <2>6. end[2] > 0 <=> y[2] > 1
    BY <2>4, <2>5
  <2> QED
    BY <1>1, <1>3, <2>2, <2>4, <2>5, <2>6 DEF StepBack
<1> QED
  BY <1>4, <1>5

\* Taking an item with next, also in the drop.
LEMMA IntoTakes ==
  ASSUME NEW h, Good(h), NEW P, PlacesRight(P), IntoAt(P), IntoNextTake
  PROVE  IntoAt(P)'
<1>1. PICK n, N, m : n = Len(front) /\ N = Len(P) /\ m = Len(back)
  OBVIOUS
<1>2. into.len > 0 /\ into.busy \in {"next", "drop"} /\ front' = Append(front, into.pos)
  BY DEF IntoNextTake
<1>3. /\ P \in Seq(Place) /\ N \in Nat /\ n \in Nat /\ m \in Nat
      /\ into.len = N - n - m /\ into \in IntoRecord /\ n < N /\ n + 1 \in 1 .. N
  BY <1>1, <1>2, IntoHas
<1>4. PICK x : x = P[n + 1]
  OBVIOUS
<1>5. into.pos = x
  <2>1. into.pos[2] <= LeafSize(leaves[into.pos[1]])
    BY DEF IntoNextTake
  <2> QED
    BY <1>1, <1>2, <1>4, <2>1, IntoFrontIs
<1>6. x \in Nat \X Nat /\ x[1] \in Nat /\ x[2] \in Nat /\ x = <<x[1], x[2]>>
  BY <1>1, <1>3, <1>4, PlaceIs
<1>7. PICK f : f = Append(front, x)
  OBVIOUS
<1>8. Taken(f, P) /\ Len(f) = n + 1
  BY <1>1, <1>3, <1>4, <1>7, TakeOne DEF IntoAt
<1>9. front' = f /\ back' = back /\ Taken(front, P)' /\ Len(front') = n + 1
      /\ TakenBack(back, P)' /\ Len(back') = m
  <2>1. front' = f /\ back' = back /\ TakenBack(back, P)
    BY <1>2, <1>5, <1>7 DEF IntoNextTake, IntoAt
  <2> QED
    BY <1>1, <1>8, <2>1 DEF Taken, TakenBack
<1>10. PICK still : still = StillBusy
  OBVIOUS
<1>11. still \in {"no", "next", "next_back", "drop"}
  BY <1>10 DEF StillBusy
<1>12. PICK new : new = [into EXCEPT !.len = @ - 1, !.pos[2] = @ + 1, !.busy = still]
  OBVIOUS
<1>13. into' = new
  BY <1>10, <1>12 DEF IntoNextTake
<1>14. into.len - 1 \in Nat /\ into.len - 1 = N - (n + 1) - m
  BY <1>2, <1>3
<1>15. [x EXCEPT ![2] = @ + 1] = <<x[1], x[2] + 1>> /\ <<x[1], x[2] + 1>> \in Nat \X Nat
  BY <1>6
<1>16. /\ new.len = N - (n + 1) - m /\ new.pos = <<x[1], x[2] + 1>>
       /\ new.end = into.end /\ new.busy = still
  BY <1>3, <1>5, <1>12, <1>14, <1>15 DEF IntoRecord
<1>17. new \in IntoRecord
  BY <1>3, <1>5, <1>11, <1>12, <1>14, <1>15 DEF IntoRecord
<1>18. /\ \/ into.end = P[N - m]
          \/ m >= 1 /\ into.end = <<P[N - m + 1][1], P[N - m + 1][2] - 1>>
       /\ n + 1 >= 1 /\ still # "dropped"
  BY <1>1, <1>2, <1>3, <1>11 DEF IntoAt
<1> QED
  BY <1>1, <1>4, <1>9, <1>13, <1>16, <1>17, <1>18 DEF IntoAt

\* Going on to the next leaf.
LEMMA IntoMovesOn ==
  ASSUME NEW h, Good(h), NEW P, PlacesRight(P), IntoAt(P), IntoNextLeaf
  PROVE  IntoAt(P)'
<1>1. PICK n, N, m : n = Len(front) /\ N = Len(P) /\ m = Len(back)
  OBVIOUS
<1>2. into.len > 0 /\ into.busy \in {"next", "drop"} /\ front' = front /\ back' = back
  BY DEF IntoNextLeaf
<1>3. /\ P \in Seq(Place) /\ N \in Nat /\ n \in Nat /\ m \in Nat
      /\ into.len = N - n - m /\ into \in IntoRecord /\ n < N /\ n + 1 \in 1 .. N
      /\ into.pos \in Nat \X Nat
  BY <1>1, <1>2, IntoHas DEF IntoRecord
<1>4. PICK x : x = P[n + 1]
  OBVIOUS
<1>5. PICK new : new = [into EXCEPT !.pos = <<leaves[into.pos[1]].next, 1>>]
  OBVIOUS
<1>6. into' = new
  BY <1>5 DEF IntoNextLeaf
<1>7. <<leaves[into.pos[1]].next, 1>> = x
  <2>1. into.pos[2] > LeafSize(leaves[into.pos[1]])
    BY DEF IntoNextLeaf
  <2>2. into.pos[2] <= LeafSize(leaves[into.pos[1]]) => into.pos = x
    BY <1>1, <1>2, <1>4, IntoFrontIs
  <2>3. x[2] \in Nat /\ LeafSize(leaves[x[1]]) \in Nat /\ x[2] <= LeafSize(leaves[x[1]])
    BY <1>1, <1>3, <1>4, PlaceIs
  <2>4. CASE into.pos = x
    BY <2>1, <2>3, <2>4
  <2>5. CASE into.pos # x
    BY <1>1, <1>2, <1>4, <2>2, <2>5, IntoFrontIs
  <2> QED
    BY <2>4, <2>5
<1>8. x \in Nat \X Nat
  BY <1>1, <1>3, <1>4, PlaceIs
<1>9. /\ new \in IntoRecord /\ new.len = into.len /\ new.pos = x
      /\ new.end = into.end /\ new.busy = into.busy
  BY <1>3, <1>5, <1>7, <1>8 DEF IntoRecord
<1>10. Taken(front, P)' /\ TakenBack(back, P)' /\ Len(front') = n /\ Len(back') = m
  <2>1. Taken(front, P) /\ TakenBack(back, P)
    BY DEF IntoAt
  <2> QED
    BY <1>1, <1>2, <2>1 DEF Taken, TakenBack
<1>11. \/ into.end = P[N - m]
       \/ m >= 1 /\ into.end = <<P[N - m + 1][1], P[N - m + 1][2] - 1>>
  BY <1>1, <1>2 DEF IntoAt
<1> QED
  BY <1>1, <1>2, <1>3, <1>4, <1>6, <1>9, <1>10, <1>11 DEF IntoAt

\* Taking an item with next_back.
LEMMA IntoTakesBack ==
  ASSUME NEW h, Good(h), NEW P, PlacesRight(P), IntoAt(P), IntoBackTake
  PROVE  IntoAt(P)'
<1>1. PICK n, N, m : n = Len(front) /\ N = Len(P) /\ m = Len(back)
  OBVIOUS
<1>2. into.len > 0 /\ into.end[2] > 0 /\ back' = Append(back, into.end) /\ front' = front
  BY DEF IntoBackTake
<1>3. /\ P \in Seq(Place) /\ N \in Nat /\ n \in Nat /\ m \in Nat
      /\ into.len = N - n - m /\ into \in IntoRecord /\ m < N /\ N - m \in 1 .. N
  BY <1>1, <1>2, IntoHas
<1>4. PICK x : x = P[N - m]
  OBVIOUS
<1>5. into.end = x
  BY <1>1, <1>2, <1>4, IntoBackIs
<1>6. x \in Nat \X Nat /\ x[1] \in Nat /\ x[2] \in Nat /\ x[2] >= 1 /\ x = <<x[1], x[2]>>
  BY <1>1, <1>3, <1>4, PlaceIs
<1>7. PICK f : f = Append(back, x)
  OBVIOUS
<1>8. TakenBack(f, P) /\ Len(f) = m + 1
  BY <1>1, <1>3, <1>4, <1>7, TakeOne DEF IntoAt
<1>9. back' = f /\ Taken(front, P)' /\ Len(front') = n
      /\ TakenBack(back, P)' /\ Len(back') = m + 1
  <2>1. back' = f /\ front' = front /\ Taken(front, P)
    BY <1>2, <1>5, <1>7 DEF IntoAt
  <2> QED
    BY <1>1, <1>8, <2>1 DEF Taken, TakenBack
<1>10. PICK new : new = [into EXCEPT !.len = @ - 1, !.end[2] = @ - 1, !.busy = "no"]
  OBVIOUS
<1>11. into' = new
  BY <1>10 DEF IntoBackTake
<1>12. into.len - 1 \in Nat /\ into.len - 1 = N - n - (m + 1)
  BY <1>2, <1>3
<1>13. [x EXCEPT ![2] = @ - 1] = <<x[1], x[2] - 1>> /\ <<x[1], x[2] - 1>> \in Nat \X Nat
  BY <1>6
<1>14. /\ new.len = N - n - (m + 1) /\ new.end = <<x[1], x[2] - 1>>
       /\ new.pos = into.pos /\ new.busy = "no"
  BY <1>3, <1>5, <1>10, <1>12, <1>13 DEF IntoRecord
<1>15. new \in IntoRecord
  BY <1>3, <1>5, <1>10, <1>12, <1>13 DEF IntoRecord
<1>16. /\ \/ into.pos = P[n + 1]
          \/ n >= 1 /\ into.pos = <<P[n][1], P[n][2] + 1>>
       /\ m + 1 >= 1 /\ N - (m + 1) + 1 = N - m
  BY <1>1, <1>2, <1>3 DEF IntoAt
<1> QED
  BY <1>1, <1>4, <1>9, <1>11, <1>14, <1>15, <1>16 DEF IntoAt

\* Going on to the leaf before.
LEMMA IntoMovesBack ==
  ASSUME NEW h, Good(h), NEW P, PlacesRight(P), IntoAt(P), IntoBackLeaf
  PROVE  IntoAt(P)'
<1>1. PICK n, N, m : n = Len(front) /\ N = Len(P) /\ m = Len(back)
  OBVIOUS
<1>2. /\ into.len > 0 /\ into.busy = "next_back" /\ into.end[2] = 0
      /\ front' = front /\ back' = back
  BY DEF IntoBackLeaf
<1>3. /\ P \in Seq(Place) /\ N \in Nat /\ n \in Nat /\ m \in Nat
      /\ into.len = N - n - m /\ into \in IntoRecord /\ m < N /\ N - m \in 1 .. N
  BY <1>1, <1>2, IntoHas
<1>4. PICK x : x = P[N - m]
  OBVIOUS
<1>5. PICK prev : prev = leaves[into.end[1]].prev
  OBVIOUS
<1>6. PICK new : new = [into EXCEPT !.end = <<prev, LeafSize(leaves[prev])>>]
  OBVIOUS
<1>7. into' = new
  BY <1>5, <1>6 DEF IntoBackLeaf
<1>8. <<prev, LeafSize(leaves[prev])>> = x
  BY <1>1, <1>2, <1>4, <1>5, IntoBackIs
<1>9. x \in Nat \X Nat
  BY <1>1, <1>3, <1>4, PlaceIs
<1>10. /\ new \in IntoRecord /\ new.len = into.len /\ new.end = x
       /\ new.pos = into.pos /\ new.busy = into.busy
  BY <1>3, <1>6, <1>8, <1>9 DEF IntoRecord
<1>11. Taken(front, P)' /\ TakenBack(back, P)' /\ Len(front') = n /\ Len(back') = m
  <2>1. Taken(front, P) /\ TakenBack(back, P)
    BY DEF IntoAt
  <2> QED
    BY <1>1, <1>2, <2>1 DEF Taken, TakenBack
<1>12. \/ into.pos = P[n + 1]
       \/ n >= 1 /\ into.pos = <<P[n][1], P[n][2] + 1>>
  BY <1>1, <1>2 DEF IntoAt
<1> QED
  BY <1>1, <1>2, <1>3, <1>4, <1>7, <1>10, <1>11, <1>12 DEF IntoAt

\* A call begins, or the drop is over.
LEMMA IntoIsCalled ==
  ASSUME NEW P, IntoAt(P),
         IntoIterDropped \/ \E what \in {"next", "next_back", "drop"} : IntoIterCall(what)
  PROVE  IntoAt(P)'
<1>1. PICK still \in {"next", "next_back", "drop", "dropped"} :
          /\ into' = [into EXCEPT !.busy = still] /\ front' = front /\ back' = back
          /\ still = "dropped" => into.len = 0
  BY DEF IntoIterDropped, IntoIterCall
<1>2. into \in IntoRecord
  BY DEF IntoAt
<1>3. /\ into' \in IntoRecord /\ into'.len = into.len /\ into'.pos = into.pos
      /\ into'.end = into.end /\ into'.busy = still
  BY <1>1, <1>2 DEF IntoRecord
<1> QED
  BY <1>1, <1>3 DEF IntoAt, Taken, TakenBack

(***************************************************************************)
(* The inductive invariant of a tree with an iterator: while there is one  *)
(* the tree makes no calls, and the iterator is where its items say.       *)
(***************************************************************************)
IteratorsInv ==
    /\ MapInv /\ EmptyWithoutKeys
    /\ iter # None \/ into # None => pc = "idle"
    /\ iter # None => into = None /\ \E P : P = Places /\ IterAt(P)
    /\ into # None => iter = None /\ \E P : P = Places /\ IntoAt(P)
    /\ iter = None /\ into = None => front = <<>> /\ back = <<>>

\* Between calls the places of the chain are those of the entries, of which len knows the number.
LEMMA PlacesBetweenCalls ==
  ASSUME MapInv, EmptyWithoutKeys, pc = "idle"
  PROVE  /\ PlacesRight(Places) /\ len = Len(Places)
         /\ \E h : Good(h) /\ \E T, R : Routed(T, R) /\ ~IsSplit
<1>1. PICK h : Good(h)
  BY DEF MapInv
<1>2. PICK T, R : Routed(T, R)
  BY DEF MapInv
<1>3. ~IsSplit /\ Cardinality(StoredKeys) = len
  BY DEF IsSplit, MapInv, SizeRight, LenToBe
<1>4. PlacesRight(FlattenSeq(PlacesOf(Chain)))
  BY <1>1, <1>2, <1>3, PlacesFollow
<1>5. Places = FlattenSeq(PlacesOf(Chain))
  BY DEF Places, PlacesOf
<1>6. PlacesRight(Places)
  BY <1>4, <1>5
<1>7. Len(Places) = Cardinality(StoredKeys)
  BY <1>6 DEF PlacesRight
<1> QED
  BY <1>1, <1>2, <1>3, <1>6, <1>7

\* An iterator leaves the tree as it is, and so the places.
LEMMA TreeRests ==
  ASSUME UNCHANGED vars
  PROVE  /\ Places' = Places /\ pc' = pc
         /\ MapInv => MapInv' /\ (EmptyWithoutKeys => EmptyWithoutKeys')
<1>1. /\ leaves' = leaves /\ inners' = inners /\ root' = root /\ pc' = pc
      /\ takenLeaves' = takenLeaves
  BY DEF vars, tree, frame, store, taken
<1>2. Places' = Places
  BY <1>1 DEF Places, Chain, Level, Below, LeafSize
<1>3. MapInv => MapInv'
  BY NextMaps
<1>4. EmptyWithoutKeys => EmptyWithoutKeys'
  BY <1>1 DEF EmptyWithoutKeys
<1> QED
  BY <1>1, <1>2, <1>3, <1>4

\* A step of an iterator.
LEMMA IteratorSteps ==
  ASSUME IteratorsInv, IterStep \/ IntoIterStep
  PROVE  IteratorsInv'
<1>1. UNCHANGED vars
  BY DEF IterStep, IterNew, IterNext, IterNextBack, IterDrop, IntoIterStep, IntoIterTurn,
         IntoIterNew, IntoIterCall, IntoNextTake, IntoNextLeaf, IntoBackTake, IntoBackLeaf,
         IntoIterDropped
<1>2. MapInv /\ EmptyWithoutKeys /\ pc = "idle"
  BY DEF IteratorsInv, IterStep, IterNew, IterNext, IterNextBack, IterDrop, IntoIterStep,
         IntoIterTurn, IntoIterNew, IntoIterCall, IntoNextTake, IntoNextLeaf, IntoBackTake,
         IntoBackLeaf, IntoIterDropped
<1>3. MapInv' /\ EmptyWithoutKeys' /\ pc' = "idle" /\ Places' = Places
  BY <1>1, <1>2, TreeRests
<1>4. PICK P : P = Places
  OBVIOUS
<1>5. PlacesRight(P) /\ len = Len(P)
  BY <1>2, <1>4, PlacesBetweenCalls
<1>6. PICK h : Good(h)
  BY <1>2, PlacesBetweenCalls
<1>7. PICK T, R : Routed(T, R) /\ ~IsSplit
  BY <1>2, PlacesBetweenCalls
<1>8. Places' = P
  BY <1>3, <1>4
<1>9. CASE IterNew
  <2>1. iter = None /\ into = None /\ into' = None /\ front = <<>> /\ back = <<>>
        /\ front' = <<>> /\ back' = <<>>
    BY <1>9 DEF IterNew, IteratorsInv
  <2>2. IterAt(P)'
    BY <1>5, <1>6, <1>7, <1>9, <2>1, IterBegins
  <2> QED
    BY <1>3, <1>8, <2>1, <2>2 DEF IteratorsInv
<1>10. CASE IterNext \/ IterNextBack
  <2>1. iter # None /\ into = None /\ into' = into
    BY <1>10 DEF IterNext, IterNextBack, IteratorsInv
  <2>2. IterAt(P)
    BY <1>4, <2>1 DEF IteratorsInv
  <2>3. IterAt(P)'
    BY <1>5, <1>6, <1>7, <1>10, <2>2, IterGoesOn, IterGoesBack
  <2>4. iter' # None
    <3>1. iter' \in IterRecord
      BY <2>3 DEF IterAt
    <3> QED
      BY <3>1, RecordsAreSome
  <2> QED
    BY <1>3, <1>8, <2>1, <2>3, <2>4 DEF IteratorsInv
<1>11. CASE IterDrop
  <2>1. /\ iter # None /\ iter' = None /\ front' = <<>> /\ back' = <<>> /\ into' = into
        /\ into = None
    BY <1>11 DEF IterDrop, IteratorsInv
  <2> QED
    BY <1>3, <2>1 DEF IteratorsInv
<1>12. CASE IntoIterNew
  <2>1. iter = None /\ into = None /\ iter' = None /\ front = <<>> /\ back = <<>>
        /\ front' = <<>> /\ back' = <<>>
    BY <1>12 DEF IntoIterNew, IteratorsInv
  <2>2. IntoAt(P)'
    BY <1>5, <1>6, <1>7, <1>12, <2>1, IntoBegins
  <2> QED
    BY <1>3, <1>8, <2>1, <2>2 DEF IteratorsInv
<1>13. CASE IntoIterTurn \/ \E what \in {"next", "next_back", "drop"} : IntoIterCall(what)
  <2>1. into # None /\ iter = None /\ iter' = iter
    BY <1>13 DEF IteratorsInv, IntoIterTurn, IntoIterCall, IntoNextTake, IntoNextLeaf,
                 IntoBackTake, IntoBackLeaf, IntoIterDropped
  <2>2. IntoAt(P)
    BY <1>4, <2>1 DEF IteratorsInv
  <2>3. IntoAt(P)'
    BY <1>5, <1>6, <1>13, <2>2, IntoTakes, IntoMovesOn, IntoTakesBack, IntoMovesBack,
       IntoIsCalled DEF IntoIterTurn
  <2>4. into' # None
    <3>1. into' \in IntoRecord
      BY <2>3 DEF IntoAt
    <3> QED
      BY <3>1, RecordsAreSome
  <2> QED
    BY <1>3, <1>8, <2>1, <2>3, <2>4 DEF IteratorsInv
<1> QED
  BY <1>9, <1>10, <1>11, <1>12, <1>13 DEF IterStep, IntoIterStep

IteratorsNext == \/ IterStep \/ IntoIterStep
                 \/ iter = None /\ into = None /\ Next /\ UNCHANGED iterVars

\* Every step, of an iterator or of the tree.
LEMMA IteratorsInvHolds ==
  /\ Init /\ IterInit => IteratorsInv
  /\ IteratorsInv /\ [IteratorsNext]_<<vars, iterVars>> => IteratorsInv'
<1>1. ASSUME Init, IterInit PROVE IteratorsInv
  <2>1. MapInv /\ EmptyWithoutKeys
    BY <1>1, InitMaps DEF Init, EmptyWithoutKeys
  <2> QED
    BY <1>1, <2>1 DEF IterInit, IteratorsInv
<1>2. ASSUME IteratorsInv, [IteratorsNext]_<<vars, iterVars>> PROVE IteratorsInv'
  <2>1. CASE IterStep \/ IntoIterStep
    BY <1>2, <2>1, IteratorSteps
  <2>2. CASE iter = None /\ into = None /\ Next /\ UNCHANGED iterVars
    <3>1. MapInv /\ EmptyWithoutKeys /\ front = <<>> /\ back = <<>>
      BY <1>2, <2>2 DEF IteratorsInv
    <3>2. PICK h : Good(h)
      BY <3>1 DEF MapInv
    <3>3. PICK T, R : Routed(T, R)
      BY <3>1 DEF MapInv
    <3>4. MapInv'
      BY <2>2, <3>1, NextMaps
    <3>5. EmptyWithoutKeys'
      BY <2>2, <3>1, <3>2, <3>3, EmptyWithoutKeysKept
    <3>6. iter' = None /\ into' = None /\ front' = <<>> /\ back' = <<>>
      BY <2>2, <3>1 DEF iterVars
    <3> QED
      BY <3>4, <3>5, <3>6 DEF IteratorsInv
  <2>3. CASE UNCHANGED <<vars, iterVars>>
    <3>1. Places' = Places /\ pc' = pc /\ MapInv' /\ EmptyWithoutKeys'
      BY <1>2, <2>3, TreeRests DEF IteratorsInv
    <3>2. iter' = iter /\ into' = into /\ front' = front /\ back' = back
      BY <2>3 DEF iterVars
    <3> QED
      BY <1>2, <3>1, <3>2 DEF IteratorsInv, IterAt, IntoAt, Taken, TakenBack
  <2> QED
    BY <1>2, <2>1, <2>2, <2>3 DEF IteratorsNext
<1> QED
  BY <1>1, <1>2

\* What the invariant says of an Iter.
LEMMA IterIsInOrder == IteratorsInv => IterInOrder
<1> SUFFICES ASSUME IteratorsInv, iter # None
             PROVE  /\ IsPrefix(front, Places) /\ IsPrefix(back, Reverse(Places))
                    /\ iter.len = Len(Places) - Len(front)
                    /\ FrontIsOver => front = Places
                    /\ BackIsOver  => back = Reverse(Places) \/ front = Places
  BY DEF IterInOrder
<1>1. PICK P : P = Places /\ IterAt(P)
  BY DEF IteratorsInv
<1>2. MapInv /\ EmptyWithoutKeys /\ pc = "idle"
  BY DEF IteratorsInv
<1>3. PlacesRight(P)
  BY <1>1, <1>2, PlacesBetweenCalls
<1>4. PICK h : Good(h)
  BY <1>2, PlacesBetweenCalls
<1>5. PICK T, R : Routed(T, R) /\ ~IsSplit
  BY <1>2, PlacesBetweenCalls
<1>6. P \in Seq(Place) /\ Taken(front, P) /\ TakenBack(back, P) /\ iter.len = Len(P) - Len(front)
  BY <1>1, <1>3 DEF PlacesRight, IterAt
<1>7. /\ IsPrefix(front, P) /\ (Len(front) = Len(P) => front = P)
      /\ IsPrefix(back, Reverse(P)) /\ (Len(back) = Len(P) => back = Reverse(P))
  BY <1>6, TakenIs, TakenBackIs
<1>8. /\ Len(P) \in Nat /\ Len(front) \in Nat /\ Len(back) \in Nat
      /\ Len(front) <= Len(P) /\ Len(back) <= Len(P)
  BY <1>6, LenProperties DEF Taken, TakenBack
<1>9. iter.len = 0 => front = P
  BY <1>6, <1>7, <1>8
<1>10. iter.len # 0 => Len(P) > 0 /\ iter.leaf # None
  <2> SUFFICES ASSUME iter.len # 0 PROVE Len(P) > 0 /\ iter.leaf # None
    OBVIOUS
  <2>1. iter.len > 0 /\ Len(P) > 0 /\ Len(front) + 1 \in 1 .. Len(P)
    BY <1>6, <1>8
  <2>2. <<iter.leaf, iter.offset>> = P[Len(front) + 1]
    BY <1>1, <2>1 DEF IterAt
  <2>3. P[Len(front) + 1][1] \in LeafAlive
    BY <1>3, <1>4, <2>1, PlaceIs
  <2>4. iter.leaf \in LeafAlive
    BY <2>2, <2>3
  <2>5. \A l \in LeafAlive : l # None
    BY <1>4, LeavesAre
  <2> QED
    BY <2>1, <2>4, <2>5
<1>11. FrontIsOver => front = P
  BY <1>9, <1>10 DEF FrontIsOver
<1>12. BackIsOver => back = Reverse(P) \/ front = P
  <2> SUFFICES ASSUME iter.len # 0, BackAfter(iter.end) = None PROVE back = Reverse(P)
    BY <1>9 DEF BackIsOver
  <2>1. Len(back) < Len(P) => BackAfter(iter.end) # None
    BY <1>1, <1>3, <1>4, <1>5, <1>10, BackAfterIs, RecordsAreSome
  <2> QED
    BY <1>7, <1>8, <2>1
<1> QED
  BY <1>1, <1>6, <1>7, <1>11, <1>12

\* What the invariant says of an IntoIter.
LEMMA IntoIsMovedOut == IteratorsInv => MovedOutOnce
<1> SUFFICES ASSUME IteratorsInv, into # None
             PROVE  /\ into.len = Len(Places) - Len(front) - Len(back)
                    /\ IsPrefix(front, Places) /\ IsPrefix(back, Reverse(Places))
                    /\ into.busy = "dropped" => front \o Reverse(back) = Places
  BY DEF MovedOutOnce
<1>1. PICK P : P = Places /\ IntoAt(P)
  BY DEF IteratorsInv
<1>2. PlacesRight(P)
  BY <1>1, PlacesBetweenCalls DEF IteratorsInv
<1>3. P \in Seq(Place) /\ Taken(front, P) /\ TakenBack(back, P)
      /\ into.len = Len(P) - Len(front) - Len(back)
  BY <1>1, <1>2 DEF PlacesRight, IntoAt
<1>4. IsPrefix(front, P) /\ IsPrefix(back, Reverse(P))
  BY <1>3, TakenIs, TakenBackIs
<1>5. into.busy = "dropped" => front \o Reverse(back) = P
  <2> SUFFICES ASSUME into.busy = "dropped" PROVE front \o Reverse(back) = P
    OBVIOUS
  <2>1. into.len = 0
    BY <1>1 DEF IntoAt
  <2>2. Len(P) \in Nat /\ Len(front) \in Nat /\ Len(back) \in Nat
    BY <1>3, LenProperties DEF Taken, TakenBack
  <2>3. Len(front) + Len(back) = Len(P)
    BY <1>3, <2>1, <2>2
  <2> QED
    BY <1>3, <2>3, TakenFromBothEnds
<1> QED
  BY <1>1, <1>3, <1>4, <1>5

(***************************************************************************)
(* Whatever calls built the tree, either end of an Iter gives the entries  *)
(* in order, none skipped where leaves meet, and knows where to stop.      *)
(***************************************************************************)
THEOREM IterStaysInOrder == IteratorsSpec => []IterInOrder
<1>1. Init /\ IterInit => IteratorsInv
  BY IteratorsInvHolds
<1>2. IteratorsInv /\ [IteratorsNext]_<<vars, iterVars>> => IteratorsInv'
  BY IteratorsInvHolds
<1> QED
  BY <1>1, <1>2, IterIsInOrder, PTL DEF IteratorsSpec, IteratorsNext

(***************************************************************************)
(* However next, next_back and the drop of what is left follow one         *)
(* another, an IntoIter moves no pair out twice and in the end has moved   *)
(* out every one.                                                          *)
(***************************************************************************)
THEOREM EachIsMovedOutOnce == IteratorsSpec => []MovedOutOnce
<1>1. Init /\ IterInit => IteratorsInv
  BY IteratorsInvHolds
<1>2. IteratorsInv /\ [IteratorsNext]_<<vars, iterVars>> => IteratorsInv'
  BY IteratorsInvHolds
<1> QED
  BY <1>1, <1>2, IntoIsMovedOut, PTL DEF IteratorsSpec, IteratorsNext

-----------------------------------------------------------------------------
(* The union of two sets                                                   *)

\* What a side has yet to give, with the item held back.
LeftA == IF PeekedA THEN <<peeked.item>> \o a ELSE a
LeftB == IF PeekedB THEN <<peeked.item>> \o b ELSE b

Held == [side : {"A", "B"}, item : Int]

(***************************************************************************)
(* The inductive invariant.  UnionInOrder alone is not one: that what has  *)
(* been given ascends needs to know that it lies below all that is left.   *)
(***************************************************************************)
UnionInv ==
    /\ a \in Seq(Int) /\ b \in Seq(Int) /\ given \in Seq(Int)
    /\ peeked \in Held \cup {NoItem}
    /\ StrictlyAscending(LeftA) /\ StrictlyAscending(LeftB) /\ StrictlyAscending(given)
    /\ whole = Items(given) \cup Items(LeftA) \cup Items(LeftB)
    /\ \A x \in Items(given), y \in Items(LeftA) \cup Items(LeftB) : x < y

-----------------------------------------------------------------------------
(* Ascending sequences                                                     *)

\* The head of an ascending sequence lies below the items of its tail.
LEMMA TakeHead ==
  ASSUME NEW s \in Seq(Int), s # <<>>, StrictlyAscending(s)
  PROVE  /\ Tail(s) \in Seq(Int) /\ StrictlyAscending(Tail(s))
         /\ Head(s) \in Int
         /\ Items(s) = {Head(s)} \cup Items(Tail(s))
         /\ \A y \in Items(Tail(s)) : y \in Int /\ Head(s) < y
<1>1. /\ Len(s) \in Nat /\ Len(s) >= 1
      /\ Tail(s) \in Seq(Int) /\ Len(Tail(s)) = Len(s) - 1
      /\ Head(s) = s[1] /\ Head(s) \in Int
      /\ \A i \in 1 .. Len(s) - 1 : Tail(s)[i] = s[i + 1]
      /\ DOMAIN s = 1 .. Len(s) /\ DOMAIN Tail(s) = 1 .. Len(s) - 1
      /\ \A i \in 1 .. Len(s) : s[i] \in Int
  OBVIOUS
<1>2. StrictlyAscending(Tail(s))
  BY <1>1 DEF StrictlyAscending
<1>3. \A y \in Items(Tail(s)) : y \in Int /\ Head(s) < y
  BY <1>1 DEF StrictlyAscending, Items
<1>4. Items(s) = {Head(s)} \cup Items(Tail(s))
  <2>1. ASSUME NEW y \in Items(s) PROVE y \in {Head(s)} \cup Items(Tail(s))
    <3>1. PICK i \in 1 .. Len(s) : y = s[i]
      BY <1>1 DEF Items
    <3>2. CASE i = 1
      BY <1>1, <3>1, <3>2
    <3>3. CASE i # 1
      <4>1. i - 1 \in DOMAIN Tail(s) /\ Tail(s)[i - 1] = y
        BY <1>1, <3>1, <3>3
      <4> QED
        BY <4>1 DEF Items
    <3> QED
      BY <3>2, <3>3
  <2>2. ASSUME NEW y \in {Head(s)} \cup Items(Tail(s)) PROVE y \in Items(s)
    <3>1. CASE y = Head(s)
      <4>1. 1 \in DOMAIN s /\ y = s[1]
        BY <1>1, <3>1
      <4> QED
        BY <4>1 DEF Items
    <3>2. CASE y \in Items(Tail(s))
      <4>1. PICK i \in 1 .. Len(s) - 1 : y = Tail(s)[i]
        BY <1>1, <3>2 DEF Items
      <4>2. i + 1 \in DOMAIN s /\ y = s[i + 1]
        BY <1>1, <4>1
      <4> QED
        BY <4>2 DEF Items
    <3> QED
      BY <2>2, <3>1, <3>2
  <2> QED
    BY <2>1, <2>2
<1> QED
  BY <1>1, <1>2, <1>3, <1>4

\* An item put in front of a sequence is its head, and what is behind it its tail.
LEMMA PutInFront ==
  ASSUME NEW s \in Seq(Int), NEW x \in Int
  PROVE  /\ <<x>> \o s \in Seq(Int) /\ <<x>> \o s # <<>>
         /\ Head(<<x>> \o s) = x /\ Tail(<<x>> \o s) = s
         /\ Len(<<x>> \o s) = Len(s) + 1
  OBVIOUS

\* Taking the head off and putting it back changes nothing.
LEMMA PutBack ==
  ASSUME NEW s \in Seq(Int), s # <<>>
  PROVE  <<Head(s)>> \o Tail(s) = s
  OBVIOUS

\* An item above all others may follow them.
LEMMA AppendAscends ==
  ASSUME NEW s \in Seq(Int), NEW g \in Int, StrictlyAscending(s),
         \A x \in Items(s) : x < g
  PROVE  /\ Append(s, g) \in Seq(Int)
         /\ StrictlyAscending(Append(s, g))
         /\ Items(Append(s, g)) = Items(s) \cup {g}
<1> DEFINE t == Append(s, g)
<1>1. /\ Len(s) \in Nat /\ DOMAIN s = 1 .. Len(s) /\ t \in Seq(Int)
      /\ Len(t) = Len(s) + 1 /\ DOMAIN t = 1 .. Len(s) + 1
      /\ \A i \in 1 .. Len(s) : t[i] = s[i]
      /\ t[Len(s) + 1] = g
  OBVIOUS
<1>2. \A i \in 1 .. Len(s) : s[i] < g
  BY <1>1 DEF Items
<1> HIDE DEF t
<1>3. StrictlyAscending(t)
  <2> SUFFICES ASSUME NEW i \in DOMAIN t, NEW j \in DOMAIN t, i < j PROVE t[i] < t[j]
    BY DEF StrictlyAscending
  <2>1. i \in 1 .. Len(s) /\ t[i] = s[i]
    BY <1>1
  <2>2. CASE j = Len(s) + 1
    BY <1>1, <1>2, <2>1, <2>2
  <2>3. CASE j \in 1 .. Len(s)
    BY <1>1, <2>1, <2>3 DEF StrictlyAscending
  <2> QED
    BY <1>1, <2>2, <2>3
<1>4. Items(t) = Items(s) \cup {g}
  <2>1. ASSUME NEW y \in Items(t) PROVE y \in Items(s) \cup {g}
    BY <1>1, <2>1 DEF Items
  <2>2. ASSUME NEW y \in Items(s) PROVE y \in Items(t)
    BY <1>1, <2>2 DEF Items
  <2>3. g \in Items(t)
    BY <1>1 DEF Items
  <2> QED
    BY <2>1, <2>2, <2>3
<1> QED
  BY <1>1, <1>3, <1>4 DEF t

-----------------------------------------------------------------------------
(* The two sides                                                           *)

\* The next item of a source, and what it leaves.
LEMMA NextOfIs ==
  ASSUME NEW s \in Seq(Int)
  PROVE  /\ s = <<>> => NextOf(s) = NoItem /\ After(s) = <<>>
         /\ s # <<>> => NextOf(s) = Head(s) /\ Head(s) \in Int /\ After(s) = Tail(s)
         /\ NextOf(s) = NoItem => s = <<>>
         /\ After(s) \in Seq(Int)
  BY NoItemAssumption DEF NextOf, After

\* nexts and lens see the sides as if nothing were held back.
LEMMA Sides ==
  ASSUME UnionInv
  PROVE  /\ LeftA \in Seq(Int) /\ LeftB \in Seq(Int)
         /\ ANext = NextOf(LeftA) /\ BNext = NextOf(LeftB)
         /\ (IF PeekedA THEN a ELSE After(a)) = After(LeftA)
         /\ (IF PeekedB THEN b ELSE After(b)) = After(LeftB)
         /\ Lens.a = Len(LeftA) /\ Lens.b = Len(LeftB)
<1>1. /\ a \in Seq(Int) /\ b \in Seq(Int)
      /\ PeekedA \/ PeekedB => peeked.item \in Int
  BY DEF UnionInv, PeekedA, PeekedB, Held
<1>2. /\ LeftA \in Seq(Int) /\ ANext = NextOf(LeftA) /\ Lens.a = Len(LeftA)
      /\ (IF PeekedA THEN a ELSE After(a)) = After(LeftA)
  <2>1. CASE PeekedA
    <3>1. LeftA = <<peeked.item>> \o a /\ ANext = peeked.item /\ Lens.a = Len(a) + 1
      BY <2>1 DEF LeftA, ANext, Lens
    <3>2. /\ LeftA \in Seq(Int) /\ LeftA # <<>> /\ Head(LeftA) = peeked.item
          /\ Tail(LeftA) = a /\ Len(LeftA) = Len(a) + 1
      BY <1>1, <2>1, <3>1, PutInFront
    <3> QED
      BY <2>1, <3>1, <3>2 DEF NextOf, After
  <2>2. CASE ~PeekedA
    BY <1>1, <2>2 DEF LeftA, ANext, Lens
  <2> QED
    BY <2>1, <2>2
<1>3. /\ LeftB \in Seq(Int) /\ BNext = NextOf(LeftB) /\ Lens.b = Len(LeftB)
      /\ (IF PeekedB THEN b ELSE After(b)) = After(LeftB)
  <2>1. CASE PeekedB
    <3>1. LeftB = <<peeked.item>> \o b /\ BNext = peeked.item /\ Lens.b = Len(b) + 1
      BY <2>1 DEF LeftB, BNext, Lens
    <3>2. /\ LeftB \in Seq(Int) /\ LeftB # <<>> /\ Head(LeftB) = peeked.item
          /\ Tail(LeftB) = b /\ Len(LeftB) = Len(b) + 1
      BY <1>1, <2>1, <3>1, PutInFront
    <3> QED
      BY <2>1, <3>1, <3>2 DEF NextOf, After
  <2>2. CASE ~PeekedB
    BY <1>1, <2>2 DEF LeftB, BNext, Lens
  <2> QED
    BY <2>1, <2>2
<1> QED
  BY <1>2, <1>3

\* What is held back after a pair of nexts, and what is given of them.
LEMMA HoldAndGive ==
  ASSUME NEW x \in Int \cup {NoItem}, NEW y \in Int \cup {NoItem},
         x # NoItem \/ y # NoItem
  PROVE  /\ Hold(x, y) \in Held \cup {NoItem}
         /\ x = NoItem => Hold(x, y) = NoItem /\ Give(x, y) = y
         /\ y = NoItem => Hold(x, y) = NoItem /\ Give(x, y) = x
         /\ x = y => Hold(x, y) = NoItem /\ Give(x, y) = x
         /\ x \in Int /\ y \in Int /\ x < y =>
                Hold(x, y) = [side |-> "B", item |-> y] /\ Give(x, y) = x
         /\ x \in Int /\ y \in Int /\ y < x =>
                Hold(x, y) = [side |-> "A", item |-> x] /\ Give(x, y) = y
  BY NoItemAssumption DEF Hold, Give, Held

-----------------------------------------------------------------------------
(* The invariant is inductive                                              *)

\* MergeIterInner::new holds nothing back.
LEMMA InitHolds ==
  ASSUME NEW s \in Seq(Int), NEW t \in Seq(Int),
         StrictlyAscending(s), StrictlyAscending(t), UnionInit(s, t)
  PROVE  UnionInv
<1>1. /\ a = s /\ b = t /\ peeked = NoItem /\ given = <<>>
      /\ whole = Items(s) \cup Items(t)
  BY DEF UnionInit
<1>2. LeftA = s /\ LeftB = t
  BY <1>1 DEF LeftA, LeftB, PeekedA, PeekedB
<1>3. given \in Seq(Int) /\ Items(given) = {} /\ StrictlyAscending(given)
  BY <1>1 DEF Items, StrictlyAscending
<1>4. whole = Items(given) \cup Items(LeftA) \cup Items(LeftB)
  BY <1>1, <1>2, <1>3
<1> QED
  BY <1>1, <1>2, <1>3, <1>4 DEF UnionInv

\* To give the least item that is left keeps the invariant.
LEMMA GiveLeast ==
  ASSUME UnionInv, NEW g \in Int, given' = Append(given, g), whole' = whole,
         a' \in Seq(Int), b' \in Seq(Int), peeked' \in Held \cup {NoItem},
         StrictlyAscending(LeftA'), StrictlyAscending(LeftB'),
         {g} \cup Items(LeftA') \cup Items(LeftB') = Items(LeftA) \cup Items(LeftB),
         \A y \in Items(LeftA') \cup Items(LeftB') : y \in Int /\ g < y
  PROVE  UnionInv'
<1>1. /\ given \in Seq(Int) /\ StrictlyAscending(given)
      /\ whole = Items(given) \cup Items(LeftA) \cup Items(LeftB)
      /\ \A x \in Items(given), y \in Items(LeftA) \cup Items(LeftB) : x < y
  BY DEF UnionInv
<1>2. \A x \in Items(given) : x \in Int /\ x < g
  <2>1. g \in Items(LeftA) \cup Items(LeftB)
    OBVIOUS
  <2>2. \A x \in Items(given) : x \in Int
    BY <1>1 DEF Items
  <2> QED
    BY <1>1, <2>1, <2>2
<1>3. /\ given' \in Seq(Int) /\ StrictlyAscending(given')
      /\ Items(given') = Items(given) \cup {g}
  BY <1>1, <1>2, AppendAscends
<1>4. whole' = Items(given') \cup Items(LeftA') \cup Items(LeftB')
  BY <1>1, <1>3
<1>5. \A x \in Items(given'), y \in Items(LeftA') \cup Items(LeftB') : x < y
  BY <1>2, <1>3
<1>6. /\ StrictlyAscending(given)' /\ StrictlyAscending(LeftA)' /\ StrictlyAscending(LeftB)'
      /\ Items(given') = Items(given)' /\ Items(LeftA') = Items(LeftA)'
      /\ Items(LeftB') = Items(LeftB)'
  BY <1>3 DEF StrictlyAscending, Items
<1> QED
  BY <1>3, <1>4, <1>5, <1>6 DEF UnionInv

\* A call of next: one side is at its end, or one head is smaller, or they are equal.
LEMMA NextKeeps ==
  ASSUME UnionInv, UnionNext
  PROVE  UnionInv'
<1> DEFINE x == ANext
           y == BNext
           g == Give(x, y)
           p == LeftA
           q == LeftB
<1>1. /\ p \in Seq(Int) /\ q \in Seq(Int) /\ x = NextOf(p) /\ y = NextOf(q)
      /\ StrictlyAscending(p) /\ StrictlyAscending(q)
  BY Sides DEF UnionInv
<1>2. /\ x # NoItem \/ y # NoItem
      /\ a' = After(p) /\ b' = After(q) /\ peeked' = Hold(x, y)
      /\ given' = Append(given, g) /\ whole' = whole
  BY Sides DEF UnionNext
<1>3. /\ p = <<>> => x = NoItem /\ After(p) = <<>>
      /\ q = <<>> => y = NoItem /\ After(q) = <<>>
      /\ p # <<>> => x = Head(p) /\ x \in Int /\ After(p) = Tail(p)
      /\ q # <<>> => y = Head(q) /\ y \in Int /\ After(q) = Tail(q)
      /\ After(p) \in Seq(Int) /\ After(q) \in Seq(Int)
  BY <1>1, NextOfIs
<1>4. /\ LeftA' = IF peeked' # NoItem /\ peeked'.side = "A"
                  THEN <<peeked'.item>> \o After(p) ELSE After(p)
      /\ LeftB' = IF peeked' # NoItem /\ peeked'.side = "B"
                  THEN <<peeked'.item>> \o After(q) ELSE After(q)
  BY <1>2 DEF LeftA, LeftB, PeekedA, PeekedB
<1> HIDE DEF x, y, p, q
<1>5. x \in Int \cup {NoItem} /\ y \in Int \cup {NoItem}
  BY <1>3
<1>6. peeked' \in Held \cup {NoItem}
  BY <1>2, <1>5, HoldAndGive
<1>7. p # <<>> => /\ StrictlyAscending(Tail(p)) /\ Items(p) = {x} \cup Items(Tail(p))
                  /\ \A z \in Items(Tail(p)) : z \in Int /\ x < z
  BY <1>1, <1>3, TakeHead
<1>8. q # <<>> => /\ StrictlyAscending(Tail(q)) /\ Items(q) = {y} \cup Items(Tail(q))
                  /\ \A z \in Items(Tail(q)) : z \in Int /\ y < z
  BY <1>1, <1>3, TakeHead
<1>9. Items(<<>>) = {} /\ StrictlyAscending(<<>>)
  BY DEF Items, StrictlyAscending
<1> DEFINE Smallest(u, v, m) ==
               /\ m \in Int /\ StrictlyAscending(u) /\ StrictlyAscending(v)
               /\ {m} \cup Items(u) \cup Items(v) = Items(p) \cup Items(q)
               /\ \A z \in Items(u) \cup Items(v) : z \in Int /\ m < z
<1>10. Smallest(LeftA', LeftB', g)
  <2>1. CASE p = <<>> /\ q # <<>>
    <3>1. g = y /\ peeked' = NoItem
      BY <1>2, <1>3, <1>5, <2>1, HoldAndGive
    <3>2. LeftA' = <<>> /\ LeftB' = Tail(q)
      BY <1>3, <1>4, <2>1, <3>1
    <3> QED
      BY <1>3, <1>8, <1>9, <2>1, <3>1, <3>2
  <2>2. CASE q = <<>> /\ p # <<>>
    <3>1. g = x /\ peeked' = NoItem
      BY <1>2, <1>3, <1>5, <2>2, HoldAndGive
    <3>2. LeftA' = Tail(p) /\ LeftB' = <<>>
      BY <1>3, <1>4, <2>2, <3>1
    <3> QED
      BY <1>3, <1>7, <1>9, <2>2, <3>1, <3>2
  <2>3. CASE p # <<>> /\ q # <<>> /\ x = y
    <3>1. g = x /\ peeked' = NoItem
      BY <1>2, <1>5, <2>3, HoldAndGive
    <3>2. LeftA' = Tail(p) /\ LeftB' = Tail(q)
      BY <1>3, <1>4, <2>3, <3>1
    <3> QED
      BY <1>3, <1>7, <1>8, <2>3, <3>1, <3>2
  <2>4. CASE p # <<>> /\ q # <<>> /\ x < y
    <3>1. g = x /\ peeked' = [side |-> "B", item |-> y] /\ peeked' # NoItem
      BY <1>2, <1>3, <1>5, <2>4, HoldAndGive, NoItemAssumption
    <3>2. LeftA' = Tail(p) /\ LeftB' = <<y>> \o Tail(q)
      BY <1>3, <1>4, <2>4, <3>1
    <3>3. LeftB' = q
      BY <1>1, <1>3, <2>4, <3>2, PutBack
    <3>4. \A z \in Items(q) : z \in Int /\ x < z
      BY <1>3, <1>8, <2>4
    <3>5. {g} \cup Items(LeftA') \cup Items(LeftB') = Items(p) \cup Items(q)
      BY <1>7, <2>4, <3>1, <3>2, <3>3
    <3>6. \A z \in Items(LeftA') \cup Items(LeftB') : z \in Int /\ g < z
      BY <1>7, <2>4, <3>1, <3>2, <3>3, <3>4
    <3> QED
      BY <1>1, <1>3, <1>7, <2>4, <3>1, <3>2, <3>3, <3>5, <3>6
  <2>5. CASE p # <<>> /\ q # <<>> /\ y < x
    <3>1. g = y /\ peeked' = [side |-> "A", item |-> x] /\ peeked' # NoItem
      BY <1>2, <1>3, <1>5, <2>5, HoldAndGive, NoItemAssumption
    <3>2. LeftA' = <<x>> \o Tail(p) /\ LeftB' = Tail(q)
      BY <1>3, <1>4, <2>5, <3>1
    <3>3. LeftA' = p
      BY <1>1, <1>3, <2>5, <3>2, PutBack
    <3>4. \A z \in Items(p) : z \in Int /\ y < z
      BY <1>3, <1>7, <2>5
    <3>5. {g} \cup Items(LeftA') \cup Items(LeftB') = Items(p) \cup Items(q)
      BY <1>8, <2>5, <3>1, <3>2, <3>3
    <3>6. \A z \in Items(LeftA') \cup Items(LeftB') : z \in Int /\ g < z
      BY <1>8, <2>5, <3>1, <3>2, <3>3, <3>4
    <3> QED
      BY <1>1, <1>3, <1>8, <2>5, <3>1, <3>2, <3>3, <3>5, <3>6
  <2> QED
    BY <1>2, <1>3, <2>1, <2>2, <2>3, <2>4, <2>5
<1> HIDE DEF g
<1> QED
  BY <1>2, <1>3, <1>6, <1>10, GiveLeast DEF p, q

\* Nothing happens.
LEMMA StutterKeeps ==
  ASSUME UnionInv, UNCHANGED unionVars
  PROVE  UnionInv'
<1>1. a' = a /\ b' = b /\ peeked' = peeked /\ given' = given /\ whole' = whole
  BY DEF unionVars
<1>2. LeftA' = LeftA /\ LeftB' = LeftB
  BY <1>1 DEF LeftA, LeftB, PeekedA, PeekedB
<1>3. /\ Items(LeftA)' = Items(LeftA) /\ Items(LeftB)' = Items(LeftB)
      /\ Items(given)' = Items(given)
  BY <1>1, <1>2 DEF Items
<1>4. /\ StrictlyAscending(LeftA)' /\ StrictlyAscending(LeftB)'
      /\ StrictlyAscending(given)'
  BY <1>1, <1>2 DEF StrictlyAscending, UnionInv
<1> QED
  BY <1>1, <1>3, <1>4 DEF UnionInv

\* The invariant holds whatever the two sets are.
LEMMA UnionInvariance == UnionSpec => []UnionInv
<1> DEFINE Start == \E s, t \in Seq(Int) : /\ StrictlyAscending(s) /\ StrictlyAscending(t)
                                           /\ UnionInit(s, t)
<1>1. Start => UnionInv
  BY InitHolds
<1>2. UnionInv /\ [UnionNext]_unionVars => UnionInv'
  BY NextKeeps, StutterKeeps
<1>3. UnionSpec => Start /\ [][UnionNext]_unionVars
  BY DEF UnionSpec
<1> HIDE DEF Start
<1> QED
  BY <1>1, <1>2, <1>3, PTL

-----------------------------------------------------------------------------
(* The theorems                                                            *)

(***************************************************************************)
(* BPlusTreeSet::union gives the keys of both sets in ascending order,     *)
(* each once, and leaves none out, for any two sets.                       *)
(***************************************************************************)
THEOREM UnionIsOrdered == UnionSpec => []UnionInOrder
<1>1. UnionInv => UnionInOrder
  <2> SUFFICES ASSUME UnionInv PROVE UnionInOrder
    OBVIOUS
  <2>1. /\ StrictlyAscending(given)
        /\ whole = Items(given) \cup Items(LeftA) \cup Items(LeftB)
    BY DEF UnionInv
  <2>2. ASSUME ANext = NoItem, BNext = NoItem PROVE Items(given) = whole
    <3>1. LeftA = <<>> /\ LeftB = <<>>
      BY <2>2, Sides, NextOfIs
    <3>2. Items(<<>>) = {}
      BY DEF Items
    <3> QED
      BY <2>1, <3>1, <3>2
  <2> QED
    BY <2>1, <2>2 DEF UnionInOrder
<1> QED
  BY <1>1, UnionInvariance, PTL

\* An ascending sequence has as many items as places.
LEMMA ItemsCounted ==
  ASSUME NEW s \in Seq(Int), StrictlyAscending(s)
  PROVE  IsFiniteSet(Items(s)) /\ Cardinality(Items(s)) = Len(s)
<1>1. /\ Len(s) \in Nat /\ DOMAIN s = 1 .. Len(s)
      /\ \A i \in 1 .. Len(s) : s[i] \in Int
  OBVIOUS
<1>2. s \in [1 .. Len(s) -> Items(s)]
  BY <1>1 DEF Items
<1>3. \A i, j \in 1 .. Len(s) : s[i] = s[j] => i = j
  BY <1>1 DEF StrictlyAscending
<1>4. \A y \in Items(s) : \E i \in 1 .. Len(s) : s[i] = y
  BY <1>1 DEF Items
<1>5. s \in Bijection(1 .. Len(s), Items(s))
  BY <1>2, <1>3, <1>4 DEF Bijection, Injection, Surjection, IsInjective
<1>6. ExistsBijection(1 .. Len(s), Items(s))
  BY <1>5 DEF ExistsBijection
<1> DEFINE n == Len(s)
           S == Items(s)
<1>7. n \in Nat /\ ExistsBijection(1 .. n, S)
  BY <1>1, <1>6
<1> HIDE DEF n, S
<1>8. IsFiniteSet(S) /\ Cardinality(S) = n
  BY <1>7, FS_CountingElements, FS_NatBijection
<1> QED
  BY <1>8 DEF n, S

(***************************************************************************)
(* Union::size_hint bounds the number of keys to come at every moment, for *)
(* any two sets: the longer side must come, and both sides together at     *)
(* most.                                                                   *)
(***************************************************************************)
THEOREM SizeHintIsRight == UnionSpec => []SizeHintBounds
<1>1. UnionInv => SizeHintBounds
  <2> SUFFICES ASSUME UnionInv PROVE SizeHintBounds
    OBVIOUS
  <2> DEFINE A    == Items(LeftA)
             B    == Items(LeftB)
             left == whole \ Items(given)
  <2>1. /\ whole = Items(given) \cup A \cup B /\ given \in Seq(Int)
        /\ \A x \in Items(given), y \in A \cup B : x < y
        /\ StrictlyAscending(LeftA) /\ StrictlyAscending(LeftB)
    BY DEF UnionInv
  <2>2. \A x \in Items(given) : x \in Int
    BY <2>1 DEF Items
  <2>3. \A x \in Items(given) : ~(x < x)
    BY <2>2
  <2>4. left = A \cup B
    BY <2>1, <2>3
  <2>5. /\ IsFiniteSet(A) /\ Cardinality(A) = Lens.a
        /\ IsFiniteSet(B) /\ Cardinality(B) = Lens.b
    BY <2>1, Sides, ItemsCounted
  <2> HIDE DEF A, B
  <2>6. /\ IsFiniteSet(A \cup B) /\ IsFiniteSet(A \cap B)
        /\ Cardinality(A \cup B) = Cardinality(A) + Cardinality(B) - Cardinality(A \cap B)
    BY <2>5, FS_Union, FS_Intersection
  <2>7. /\ Cardinality(A) \in Nat /\ Cardinality(B) \in Nat
        /\ Cardinality(A \cap B) \in Nat
        /\ Cardinality(A \cap B) <= Cardinality(A)
        /\ Cardinality(A \cap B) <= Cardinality(B)
    <3>1. A \cap B \subseteq A /\ A \cap B \subseteq B
      OBVIOUS
    <3> QED
      BY <2>5, <2>6, <3>1, FS_Subset, FS_CardinalityType
  <2>8. /\ SizeHint.upper = Lens.a + Lens.b
        /\ SizeHint.lower = IF Lens.a >= Lens.b THEN Lens.a ELSE Lens.b
    BY DEF SizeHint
  <2>9. Cardinality(left) = Cardinality(A) + Cardinality(B) - Cardinality(A \cap B)
    BY <2>4, <2>6
  <2> HIDE DEF left
  <2>10. /\ SizeHint.lower <= Cardinality(left)
         /\ Cardinality(left) <= SizeHint.upper
    BY <2>5, <2>7, <2>8, <2>9
  <2> QED
    BY <2>10 DEF SizeHintBounds, left
<1> QED
  BY <1>1, UnionInvariance, PTL
=============================================================================
