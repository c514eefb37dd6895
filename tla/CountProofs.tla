---------------------------- MODULE CountProofs -----------------------------
(***************************************************************************)
(* What users of the tree have from its shape: no key that it holds is     *)
(* ever missed, a cached leaf answers as the descent would, iteration is   *)
(* in order, the nodes keep their minimum (this from the routes of module  *)
(* RouteProofs), and the augmentations are exact.                          *)
(*                                                                         *)
(* The last is Counted: beside each child of an inner node of the tree     *)
(* stands the augmentation of the node it names, at every step, but for    *)
(* the children on the path of a call that has changed a leaf and has yet  *)
(* to tell its parents.  A step writes some inner nodes, the parent at the *)
(* top of the stack among them; those are right by what the operations on  *)
(* a node do (Matched).  The others name the children they named before,   *)
(* and a child whose augmentation is another now is one whose parent is on *)
(* the path, since no node of the tree has two parents.                    *)
(***************************************************************************)
EXTENDS RouteProofs, TreeProperties

-----------------------------------------------------------------------------
(* The walk of locate_leaf                                                 *)

\* Induction over 0 .. n, said of a set.
LEMMA CountUp ==
  ASSUME NEW n \in Nat, NEW A, 0 \in A, \A d \in 1 .. n : d - 1 \in A => d \in A
  PROVE  0 .. n \subseteq A
<1> DEFINE B == {d \in 0 .. n : d \notin A}
<1> SUFFICES ASSUME B # {} PROVE FALSE
  OBVIOUS
<1>1. B \subseteq Nat
  OBVIOUS
<1>2. PICK d \in B : \A e \in B : d <= e
  BY <1>1, LeastNat
<1>3. d \in 1 .. n /\ d - 1 \in 0 .. n /\ ~(d <= d - 1) /\ d \notin A
  BY <1>2
<1>4. d - 1 \in A
  BY <1>2, <1>3
<1> QED
  BY <1>3, <1>4

\* The next node of a descent for k.
Down(k, x) == IF x.kind = "leaf" THEN x
              ELSE inners[x.id].child[LocateChild(inners[x.id], k)]

\* f is a descent for k of n steps.
IsDescent(f, k, n) == f = [d \in 0 .. n |-> IF d = 0 THEN root ELSE Down(k, f[d - 1])]

\* There is such a descent, so the CHOOSE in LeafFor has something to choose.
LEMMA DescentExists ==
  ASSUME NEW k, NEW n \in Nat
  PROVE  \E f : IsDescent(f, k, n)
<1> DEFINE B == {m \in Nat : ~ \E f : IsDescent(f, k, m)}
<1> SUFFICES ASSUME B # {} PROVE FALSE
  OBVIOUS
<1>1. PICK m \in B : \A j \in B : m <= j
  BY LeastNat
<1>2. CASE m = 0
  <2>1. IsDescent([d \in 0 .. 0 |-> root], k, 0)
    BY DEF IsDescent
  <2> QED
    BY <1>1, <1>2, <2>1
<1>3. CASE m # 0
  <2>1. m - 1 \in Nat /\ m \in Nat /\ ~(m <= m - 1)
    BY <1>1, <1>3
  <2>2. PICK f : IsDescent(f, k, m - 1)
    BY <1>1, <2>1
  <2> DEFINE g == [d \in 0 .. m |-> IF d = m THEN Down(k, f[m - 1]) ELSE f[d]]
  <2>3. \A d \in 0 .. m - 1 : g[d] = f[d]
    BY <2>1
  <2>4. \A d \in 0 .. m : g[d] = IF d = 0 THEN root ELSE Down(k, g[d - 1])
    <3> SUFFICES ASSUME NEW d \in 0 .. m
                 PROVE  g[d] = IF d = 0 THEN root ELSE Down(k, g[d - 1])
      OBVIOUS
    <3>1. CASE d = m
      <4>1. m - 1 \in 0 .. m - 1
        BY <2>1
      <4>2. g[m] = Down(k, f[m - 1])
        BY <2>1
      <4>3. g[m - 1] = f[m - 1]
        BY <2>3, <4>1
      <4> HIDE DEF g
      <4> QED
        BY <1>3, <3>1, <4>2, <4>3
    <3>2. CASE d # m
      <4>1. d \in 0 .. m - 1
        BY <2>1, <3>2
      <4>2. f[d] = IF d = 0 THEN root ELSE Down(k, f[d - 1])
        BY <2>2, <4>1 DEF IsDescent
      <4>3. d # 0 => d - 1 \in 0 .. m - 1
        BY <2>1, <4>1
      <4> HIDE DEF g
      <4> QED
        BY <2>3, <4>1, <4>2, <4>3
    <3> QED
      BY <3>1, <3>2
  <2>5. DOMAIN g = 0 .. m /\ g = [d \in 0 .. m |-> g[d]]
    OBVIOUS
  <2> HIDE DEF g
  <2>6. IsDescent(g, k, m)
    BY <2>4, <2>5 DEF IsDescent
  <2> QED
    BY <1>1, <2>6
<1> QED
  BY <1>2, <1>3

\* LeafFor takes the leaf where a descent of Len(inners) steps ends.
LEMMA LeafForIsDescent ==
  ASSUME NEW k, Len(inners) \in Nat
  PROVE  \E f : IsDescent(f, k, Len(inners)) /\ LeafFor(k) = f[Len(inners)].id
<1> DEFINE f == CHOOSE f : IsDescent(f, k, Len(inners))
<1>1. IsDescent(f, k, Len(inners))
  BY DescentExists
<1>2. LeafFor(k) = f[Len(inners)].id
  BY DEF LeafFor, DescendBy, IsDescent, Down
<1> QED
  BY <1>1, <1>2

\* A step of a descent keeps to the nodes that get the key.
LEMMA DownStays ==
  ASSUME NEW h, Good(h), NEW T, NEW R, Routed(T, R), ~IsSplit, NEW k,
         NEW x \in NodeId, InTree(T, x), k \in R[x], x.kind = "inner"
  PROVE  /\ Down(k, x) \in NodeId /\ InTree(T, Down(k, x)) /\ k \in R[Down(k, x)]
         /\ HeightOf(h, Down(k, x)) = h[x.id] - 1
         /\ h[x.id] \in 1 .. Len(inners)
<1> DEFINE n == inners[x.id]
           y == n.child[LocateChild(n, k)]
           C == NodesAt(Len(leaves), h, h[x.id] - 1)
<1>1. x.id \in T /\ x = Inner(x.id)
  BY DEF InTree, NodeId, Inner
<1>2. IsInner(n, Key, C) /\ R[x] \subseteq Key /\ Routes(n, R[x], R) /\ x.id \in DOMAIN inners
  BY <1>1, RangeOf
<1>3. h[x.id] \in 1 .. Len(inners)
  BY <1>2 DEF Good, StoreOK
<1> HIDE DEF n, C
<1>4. LocateChild(n, k) \in DOMAIN n.child /\ k \in R[y]
  BY <1>2, RouteDown
<1>5. y \in Range(n.child)
  BY <1>4 DEF Range
<1>6. InTree(T, y)
  BY <1>1, <1>5 DEF n, Routed, InOrder, LeavesKnown
<1>7. y \in C
  BY <1>2, <1>4, ElementOfSeq DEF IsInner
<1>8. y \in NodeId /\ HeightOf(h, y) = h[x.id] - 1
  BY <1>3, <1>7 DEF C, NodesAt, NodeId, HeightOf, Leaf, Inner, Good, StoreOK
<1>9. Down(k, x) = y
  BY DEF Down, n
<1> HIDE DEF y
<1> QED
  BY <1>3, <1>4, <1>6, <1>8, <1>9

\* locate_leaf ends in the leaf that gets the key.
LEMMA LeafForRouted ==
  ASSUME NEW h, Good(h), NEW T, NEW R, Routed(T, R), ~IsSplit, NEW k \in Key
  PROVE  LeafFor(k) \in LeafAlive /\ k \in R[Leaf(LeafFor(k))]
<1>1. Len(inners) \in Nat /\ root \in NodeId
  BY LenProperties DEF Good, Scalars
<1>2. PICK f : IsDescent(f, k, Len(inners)) /\ LeafFor(k) = f[Len(inners)].id
  BY <1>1, LeafForIsDescent
<1>3. PICK N \in Nat : N = Len(inners)
  BY <1>1
<1> DEFINE Met(d) == /\ f[d] \in NodeId /\ InTree(T, f[d]) /\ k \in R[f[d]]
                     /\ HeightOf(h, f[d]) <= N - d
           B == {d \in 0 .. N : ~ Met(d)}
<1>4. Met(0)
  <2>1. f[0] = root
    BY <1>2, <1>3 DEF IsDescent
  <2>2. InTree(T, root) /\ k \in R[root]
    BY KnownIs DEF Routed, InOrder, KeysShared, LeavesKnown, Orphans
  <2>3. HeightOf(h, root) <= N
    <3>1. CASE root.kind = "leaf"
      BY <1>3, <3>1 DEF HeightOf
    <3>2. CASE root.kind # "leaf"
      <4>1. root.id \in DOMAIN inners
        BY <2>2, <3>2 DEF InTree, Routed, InnersFilled, Owned
      <4>2. h[root.id] \in 1 .. Len(inners)
        BY <4>1 DEF Good, StoreOK
      <4> QED
        BY <1>3, <3>2, <4>2 DEF HeightOf
    <3> QED
      BY <3>1, <3>2
  <2> QED
    BY <1>1, <2>1, <2>2, <2>3
<1>5. ASSUME NEW d \in 0 .. N, d # 0, Met(d - 1) PROVE Met(d)
  <2>1. d - 1 \in 0 .. N
    BY <1>5
  <2>2. PICK x : x = f[d - 1]
    OBVIOUS
  <2>3. f[d] = Down(k, x)
    BY <1>2, <1>3, <1>5, <2>2 DEF IsDescent
  <2>4. /\ x \in NodeId /\ InTree(T, x) /\ k \in R[x] /\ HeightOf(h, x) <= N - (d - 1)
    BY <1>5, <2>2
  <2> HIDE DEF Met
  <2>5. CASE x.kind = "leaf"
    <3>1. Down(k, x) = x /\ HeightOf(h, x) = 0
      BY <2>5 DEF Down, HeightOf
    <3>2. 0 <= N - d
      OBVIOUS
    <3> QED
      BY <2>3, <2>4, <3>1, <3>2 DEF Met
  <2>6. CASE x.kind = "inner"
    <3>1. /\ Down(k, x) \in NodeId /\ InTree(T, Down(k, x)) /\ k \in R[Down(k, x)]
          /\ HeightOf(h, Down(k, x)) = h[x.id] - 1
          /\ h[x.id] \in 1 .. Len(inners)
      BY <2>4, <2>6, DownStays
    <3>2. HeightOf(h, x) = h[x.id] /\ h[x.id] \in Int
      BY <1>3, <2>6, <3>1 DEF HeightOf
    <3>3. h[x.id] - 1 <= N - d
      BY <2>4, <3>2
    <3> QED
      BY <2>3, <3>1, <3>3 DEF Met
  <2> QED
    BY <2>4, <2>5, <2>6 DEF NodeId
<1>6. B = {}
  <2> SUFFICES ASSUME B # {} PROVE FALSE
    OBVIOUS
  <2>1. B \subseteq Nat
    OBVIOUS
  <2>2. PICK d \in B : \A e \in B : d <= e
    BY <2>1, LeastNat
  <2>3. d \in 0 .. N /\ ~Met(d) /\ d # 0
    BY <1>4, <2>2
  <2>4. d - 1 \in 0 .. N /\ ~(d <= d - 1)
    BY <2>3
  <2>5. Met(d - 1)
    BY <2>2, <2>4
  <2> QED
    BY <1>5, <2>3, <2>5
<1>7. Met(N)
  BY <1>6
<1>8. PICK x : x = f[N]
  OBVIOUS
<1>9. x \in NodeId /\ InTree(T, x) /\ k \in R[x] /\ HeightOf(h, x) <= 0
  BY <1>7, <1>8
<1>10. x.kind = "leaf"
  <2> SUFFICES ASSUME x.kind = "inner" PROVE FALSE
    BY <1>9 DEF NodeId
  <2>1. h[x.id] \in 1 .. Len(inners)
    BY <1>9, DownStays
  <2> QED
    BY <1>3, <1>9, <2>1 DEF HeightOf
<1>11. x = Leaf(x.id) /\ x.id \in LeafAlive
  BY <1>9, <1>10 DEF NodeId, Leaf, InTree
<1> QED
  BY <1>2, <1>3, <1>8, <1>9, <1>11

\* With a leaf for root, it is the only leaf; the others hold a key.
LEMMA OthersHoldKeys ==
  ASSUME NEW h, Good(h), NEW T, NEW R, Routed(T, R), NEW l \in LeafAlive, NEW m \in LeafAlive,
         l # m
  PROVE  /\ KeysOf(leaves[l]) # {} /\ KeysOf(leaves[l]) \subseteq R[Leaf(l)]
         /\ LeafSize(leaves[l]) > 0
<1>1. ASSUME NEW j \in LeafAlive, LeafSize(leaves[j]) >= LEAF_MIN
      PROVE  /\ KeysOf(leaves[j]) # {} /\ KeysOf(leaves[j]) \subseteq Key
             /\ LeafSize(leaves[j]) > 0
  <2>1. j \in DOMAIN leaves /\ LeafSize(leaves[j]) \in Nat
    BY LeavesAre
  <2>2. LeafSize(leaves[j]) > 0
    BY <1>1, <2>1, LeafMinimumIs
  <2> QED
    BY <2>1, <2>2, SizeMeansKeys
<1>2. \A j \in LeafAlive : KeysOf(leaves[j]) \subseteq R[Leaf(j)]
  BY DEF Routed, InOrder, LeavesHold
<1>3. R[Leaf(l)] \cap R[Leaf(m)] = {}
  BY DEF Routed, InOrder, LeavesHold
<1>4. ~(Leaf(l) = root /\ ~IsSplit)
  <2> SUFFICES ASSUME Leaf(l) = root, ~IsSplit PROVE FALSE
    OBVIOUS
  <2>1. R[Leaf(l)] = Key
    BY KnownIs DEF Routed, InOrder, KeysShared
  <2>2. Leaf(m) # root
    BY DEF Leaf
  <2>3. LeafSize(leaves[m]) >= LEAF_MIN
    BY <2>2 DEF Routed, InOrder, LeavesFilled
  <2>4. KeysOf(leaves[m]) # {} /\ KeysOf(leaves[m]) \subseteq Key
    BY <1>1, <2>3
  <2> QED
    BY <1>2, <1>3, <2>1, <2>4
<1>5. LeafSize(leaves[l]) >= LEAF_MIN
  BY <1>4 DEF Routed, InOrder, LeavesFilled
<1> QED
  BY <1>1, <1>2, <1>5

-----------------------------------------------------------------------------
(* What the routes mean                                                    *)

\* What a leaf holds is routed to it; between calls no node is split.
LEMMA RoutedMeans ==
  ASSUME NEW h, Good(h), NEW T, NEW R, Routed(T, R)
  PROVE  /\ \A l \in LeafAlive : KeysOf(leaves[l]) \subseteq R[Leaf(l)]
         /\ \A l, m \in LeafAlive : l # m => R[Leaf(l)] \cap R[Leaf(m)] = {}
         /\ pc = "idle" => ~IsSplit
BY DEF Routed, InOrder, LeavesHold, IsSplit

\* Sets of keys one before the other: transitive past a set that has a key, and one way only.
LEMMA PrecedesOrder ==
  ASSUME NEW A, NEW B, NEW C, A \subseteq Int, B \subseteq Int, C \subseteq Int,
         B # {}, Precedes(A, B)
  PROVE  /\ Precedes(B, C) => Precedes(A, C)
         /\ A # {} => ~Precedes(B, A)
<1>1. PICK b \in B : b \in Int
  OBVIOUS
<1>2. \A a \in A : a \in Int /\ a < b
  BY <1>1 DEF Precedes
<1>3. ASSUME Precedes(B, C) PROVE Precedes(A, C)
  <2> SUFFICES ASSUME NEW a \in A, NEW c \in C PROVE a < c
    BY DEF Precedes
  <2>1. c \in Int /\ b < c
    BY <1>1, <1>3 DEF Precedes
  <2> QED
    BY <1>1, <1>2, <2>1
<1>4. ASSUME A # {}, Precedes(B, A) PROVE FALSE
  <2>1. PICK a \in A : a \in Int
    BY <1>4
  <2>2. a < b /\ b < a
    BY <1>1, <1>2, <1>4, <2>1 DEF Precedes
  <2> QED
    BY <1>1, <2>1, <2>2
<1> QED
  BY <1>3, <1>4

\* The routes of the leaves are in the order of the chain, and so are the keys they hold.
LEMMA RoutedChain ==
  ASSUME NEW h, Good(h), NEW T, NEW R, Routed(T, R)
  PROVE  LeafChain
<1>1. LeavesLinked(leaves, LeafAlive, R) /\ LeavesHold(leaves, LeafAlive, R)
  BY DEF Routed, InOrder
<1> DEFINE Before(i, j) == Precedes(KeysOf(leaves[i]), KeysOf(leaves[j]))
<1>2. \A i, j \in LeafAlive : Ahead(R, i, j) => Before(i, j)
  BY RoutedMeans DEF Ahead, Precedes
<1>3. ASSUME NEW l \in LeafAlive, NEW m \in LeafAlive \ {l}
      PROVE  /\ KeysOf(leaves[m]) # {}
             /\ \/ Before(m, l) /\ leaves[l].prev # None
                \/ Before(l, m) /\ leaves[l].next # None
             /\ m # leaves[l].next /\ Before(l, m) => Before(leaves[l].next, m)
  <2>1. PICK A, B : A = KeysOf(leaves[l]) /\ B = KeysOf(leaves[m])
    OBVIOUS
  <2>2. A # {} /\ B # {}
    BY <2>1, OthersHoldKeys
  <2>3. A \subseteq Int /\ B \subseteq Int
    <3>1. l \in Nat /\ m \in Nat
      BY LeavesAre
    <3>2. R[Leaf(l)] \subseteq Key /\ R[Leaf(m)] \subseteq Key
      BY <3>1, IdsAreNodes DEF Routed, Routing
    <3> QED
      BY <2>1, <3>2, RoutedMeans, KeyAssumption
  <2>4. ~(Precedes(A, B) /\ Precedes(B, A))
    BY <2>2, <2>3, PrecedesOrder
  <2>5. CASE Ahead(R, m, l) /\ leaves[l].prev # None
    <3>1. Before(m, l)
      BY <1>2, <2>5
    <3>2. ~Before(l, m)
      BY <2>1, <2>4, <3>1
    <3> QED
      BY <2>1, <2>2, <2>5, <3>1, <3>2
  <2>6. CASE leaves[l].next # None /\ (m # leaves[l].next => Ahead(R, leaves[l].next, m))
    <3>1. PICK n : n = leaves[l].next
      OBVIOUS
    <3>2. n \in LeafAlive /\ Ahead(R, l, n)
      BY <1>1, <2>6, <3>1 DEF LeavesLinked
    <3>3. m # n => Ahead(R, n, m)
      BY <2>6, <3>1
    <3>4. Before(l, n) /\ (m # n => Before(n, m))
      BY <1>2, <3>2, <3>3
    <3>5. Before(l, m)
      <4>1. CASE m = n
        BY <3>4, <4>1
      <4>2. CASE m # n
        <5>1. PICK C : C = KeysOf(leaves[n])
          OBVIOUS
        <5>2. C # {}
          BY <3>2, <4>2, <5>1, OthersHoldKeys
        <5>3. C \subseteq Int
          <6>1. n \in Nat
            BY <3>2, LeavesAre
          <6>2. R[Leaf(n)] \subseteq Key
            BY <6>1, IdsAreNodes DEF Routed, Routing
          <6> QED
            BY <3>2, <5>1, <6>2, RoutedMeans, KeyAssumption
        <5>4. Precedes(A, C) /\ Precedes(C, B)
          BY <2>1, <3>4, <4>2, <5>1
        <5>5. Precedes(A, B)
          BY <2>3, <5>2, <5>3, <5>4, PrecedesOrder
        <5> QED
          BY <2>1, <5>5
      <4> QED
        BY <4>1, <4>2
    <3> QED
      BY <2>1, <2>2, <2>6, <3>1, <3>4, <3>5
  <2> QED
    BY <1>1, <2>5, <2>6 DEF LeavesLinked
<1>4. ASSUME NEW l \in LeafAlive
      PROVE  /\ Ascends(leaves[l].data)
             /\ leaves[l].next # None =>
                    /\ leaves[l].next \in LeafAlive
                    /\ leaves[leaves[l].next].prev = l
             /\ leaves[l].prev # None =>
                    /\ leaves[l].prev \in LeafAlive
                    /\ leaves[leaves[l].prev].next = l
  BY <1>1 DEF LeavesLinked, LeavesHold
<1> QED
  BY <1>3, <1>4 DEF LeafChain

\* The descent for a key in a leaf ends in this leaf.
LEMMA RoutedFound ==
  ASSUME NEW h, Good(h), NEW T, NEW R, Routed(T, R)
  PROVE  EveryKeyIsFound
<1> SUFFICES ASSUME pc = "idle", NEW l \in LeafAlive, NEW i \in DOMAIN leaves[l].data
             PROVE  LeafFor(leaves[l].data[i][1]) = l
  BY DEF EveryKeyIsFound
<1>1. PICK k : k = leaves[l].data[i][1]
  OBVIOUS
<1>2. k \in R[Leaf(l)]
  BY <1>1, RoutedMeans DEF KeysOf
<1>3. k \in Key
  <2>1. l \in Nat
    BY LeavesAre
  <2>2. R[Leaf(l)] \subseteq Key
    BY <2>1, IdsAreNodes DEF Routed, Routing
  <2> QED
    BY <1>2, <2>2
<1>4. LeafFor(k) \in LeafAlive /\ k \in R[Leaf(LeafFor(k))]
  BY <1>3, RoutedMeans, LeafForRouted
<1> QED
  BY <1>1, <1>2, <1>4, RoutedMeans

\* A leaf with a key in its range is the one a descent finds.
LEMMA InRangeRouted ==
  ASSUME NEW h, Good(h), NEW T, NEW R, Routed(T, R), ~IsSplit,
         NEW l \in LeafAlive, NEW k \in Key, InRange(leaves[l], k)
  PROVE  LeafFor(k) = l
<1> SUFFICES ASSUME LeafFor(k) # l PROVE FALSE
  OBVIOUS
<1>1. PICK m : m = LeafFor(k)
  OBVIOUS
<1>2. l \in LeafAlive /\ InRange(leaves[l], k)
  OBVIOUS
<1>3. m \in LeafAlive /\ k \in R[Leaf(m)] /\ m # l
  BY <1>1, LeafForRouted
<1>4. KeysOf(leaves[l]) \subseteq R[Leaf(l)] /\ LeafSize(leaves[l]) > 0
  BY <1>2, <1>3, OthersHoldKeys
<1>5. PICK n, d : n = LeafSize(leaves[l]) /\ d = leaves[l].data
  OBVIOUS
<1>6. n \in Nat /\ n > 0 /\ DOMAIN d = 1 .. n
  BY <1>2, <1>4, <1>5, LeavesAre
<1>7. d[1][1] \in R[Leaf(l)] /\ d[n][1] \in R[Leaf(l)]
  BY <1>4, <1>5, <1>6 DEF KeysOf
<1>8. Key \subseteq Int /\ \A j \in LeafAlive : R[Leaf(j)] \subseteq Int /\ R[Leaf(j)] # {}
  BY KeyAssumption, RangedLeaves DEF Ranged
<1>9. CASE Ahead(R, m, l) /\ leaves[l].prev # None
  <2>1. k < d[1][1] /\ d[1][1] <= k
    BY <1>2, <1>3, <1>5, <1>7, <1>9 DEF Ahead, Precedes, InRange
  <2> QED
    BY <1>2, <1>7, <1>8, <2>1
<1>10. CASE leaves[l].next # None /\ (m # leaves[l].next => Ahead(R, leaves[l].next, m))
  <2>1. PICK x : x = leaves[l].next
    OBVIOUS
  <2>2. x \in LeafAlive /\ Ahead(R, l, x) /\ (m # x => Ahead(R, x, m))
    BY <1>2, <1>10, <2>1 DEF LeavesLinked, Routed, InOrder
  <2>3. Ahead(R, l, m)
    <3>1. PICK A, B, C : A = R[Leaf(l)] /\ B = R[Leaf(x)] /\ C = R[Leaf(m)]
      OBVIOUS
    <3>2. /\ A \subseteq Int /\ B \subseteq Int /\ C \subseteq Int /\ B # {}
          /\ Precedes(A, B) /\ (m # x => Precedes(B, C)) /\ (m = x => B = C)
      BY <1>2, <1>3, <1>8, <2>2, <3>1 DEF Ahead
    <3>3. Precedes(A, C)
      BY <3>2, PrecedesOrder
    <3> QED
      BY <3>1, <3>3 DEF Ahead
  <2>4. d[n][1] < k /\ k <= d[n][1]
    BY <1>2, <1>3, <1>5, <1>7, <1>10, <2>3 DEF Ahead, Precedes, InRange
  <2> QED
    BY <1>2, <1>7, <1>8, <2>4
<1> QED
  BY <1>2, <1>3, <1>9, <1>10 DEF LeavesLinked, Routed, InOrder

\* A cached leaf whose ends enclose k gets k: no other leaf can.
LEMMA RoutedCache ==
  ASSUME NEW h, Good(h), NEW T, NEW R, Routed(T, R)
  PROVE  CacheSound
<1> SUFFICES ASSUME pc = "idle", NEW k \in Key, CacheHit(k) PROVE LeafFor(k) = cached
  BY DEF CacheSound
<1>1. cached \in LeafAlive /\ InRange(leaves[cached], k) /\ ~IsSplit
  BY DEF CacheHit, LeafAlive, Good, Scalars, IsSplit
<1> QED
  BY <1>1, InRangeRouted

-----------------------------------------------------------------------------
(* The nodes below the root                                                *)

\* f joins the first sequences of s.
JoinedUp(f, s, n) == f = [i \in 1 .. n |-> IF i = 1 THEN s[i] ELSE f[i - 1] \o s[i]]

\* There is such a function, so FlattenSeq has something to choose.
LEMMA JoinedUpExists ==
  ASSUME NEW s, NEW n \in Nat
  PROVE  \E f : JoinedUp(f, s, n)
<1> DEFINE A == {m \in Nat : \E f : JoinedUp(f, s, m)}
<1>1. 0 \in A
  <2>1. JoinedUp([i \in 1 .. 0 |-> s[i]], s, 0)
    BY DEF JoinedUp
  <2> QED
    BY <2>1
<1>2. ASSUME NEW m \in 1 .. n, m - 1 \in A PROVE m \in A
  <2>1. PICK f : JoinedUp(f, s, m - 1)
    BY <1>2
  <2> DEFINE g == [i \in 1 .. m |->
                     IF i = m THEN (IF i = 1 THEN s[i] ELSE f[i - 1] \o s[i]) ELSE f[i]]
  <2>2. \A i \in 1 .. m : g[i] = IF i = 1 THEN s[i] ELSE g[i - 1] \o s[i]
    <3> SUFFICES ASSUME NEW i \in 1 .. m
                 PROVE  g[i] = IF i = 1 THEN s[i] ELSE g[i - 1] \o s[i]
      OBVIOUS
    <3>1. i # 1 => i - 1 \in 1 .. m /\ i - 1 # m
      OBVIOUS
    <3>2. i # 1 => g[i - 1] = f[i - 1]
      BY <3>1
    <3>3. CASE i = m
      <4>1. g[i] = IF i = 1 THEN s[i] ELSE f[i - 1] \o s[i]
        BY <3>3
      <4> HIDE DEF g
      <4> QED
        BY <3>2, <4>1
    <3>4. CASE i # m
      <4>1. i \in 1 .. m - 1
        BY <3>4
      <4>2. g[i] = f[i]
        BY <3>4
      <4>3. f[i] = IF i = 1 THEN s[i] ELSE f[i - 1] \o s[i]
        BY <2>1, <4>1 DEF JoinedUp
      <4> HIDE DEF g
      <4> QED
        BY <3>2, <4>2, <4>3
    <3> QED
      BY <3>3, <3>4
  <2>3. g = [i \in 1 .. m |-> g[i]]
    OBVIOUS
  <2> HIDE DEF g
  <2>4. JoinedUp(g, s, m)
    BY <2>2, <2>3 DEF JoinedUp
  <2> QED
    BY <2>4
<1> HIDE DEF A
<1>3. 0 .. n \subseteq A
  BY <1>1, <1>2, CountUp
<1>4. n \in A
  BY <1>3
<1>5. \E f : JoinedUp(f, s, n)
  BY <1>4 DEF A
<1> QED
  BY <1>5

\* Sequences over S are joined to a sequence over S.
LEMMA FlattenType ==
  ASSUME NEW S, NEW s \in Seq(Seq(S))
  PROVE  FlattenSeq(s) \in Seq(S)
<1>1. PICK n \in Nat : n = Len(s)
  OBVIOUS
<1>2. CASE n = 0
  <2>1. s = <<>>
    BY <1>1, <1>2, EmptySeq
  <2> QED
    BY <2>1 DEF FlattenSeq
<1>3. CASE n > 0
  <2> DEFINE f == CHOOSE f : JoinedUp(f, s, n)
             A == {0} \cup {i \in 1 .. n : f[i] \in Seq(S)}
  <2>1. JoinedUp(f, s, n)
    <3>1. \E g : JoinedUp(g, s, n)
      BY JoinedUpExists
    <3> QED
      BY <3>1
  <2>2. FlattenSeq(s) = f[n]
    BY <1>1, <1>3 DEF FlattenSeq, JoinedUp
  <2> HIDE DEF f
  <2>3. ASSUME NEW i \in 1 .. n, i - 1 \in A PROVE i \in A
    <3>1. s[i] \in Seq(S)
      BY <1>1, ElementOfSeq
    <3>2. f[i] = IF i = 1 THEN s[i] ELSE f[i - 1] \o s[i]
      BY <2>1 DEF JoinedUp
    <3>3. i # 1 => f[i - 1] \in Seq(S)
      BY <2>3
    <3>4. f[i] \in Seq(S)
      BY <3>1, <3>2, <3>3, ConcatProperties
    <3> QED
      BY <3>4
  <2>4. 0 .. n \subseteq A
    <3> HIDE DEF A
    <3>1. 0 \in A
      BY DEF A
    <3> QED
      BY <2>3, <3>1, CountUp
  <2>5. n \in A
    BY <2>4
  <2> QED
    BY <1>3, <2>2, <2>5
<1> QED
  BY <1>1, <1>2, <1>3

\* level is the nodes at the depths 0 .. n.
IsLevel(level, n) == level = [d \in 0 .. n |-> IF d = 0 THEN <<root>> ELSE Below(level[d - 1])]

\* There is such a function, so Level has something to choose.
LEMMA LevelExists ==
  ASSUME NEW n \in Nat
  PROVE  \E level : IsLevel(level, n)
<1> DEFINE A == {m \in Nat : \E f : IsLevel(f, m)}
<1>1. 0 \in A
  <2>1. IsLevel([d \in 0 .. 0 |-> <<root>>], 0)
    BY DEF IsLevel
  <2> QED
    BY <2>1
<1>2. ASSUME NEW m \in 1 .. n, m - 1 \in A PROVE m \in A
  <2>1. PICK f : IsLevel(f, m - 1)
    BY <1>2
  <2> DEFINE g == [d \in 0 .. m |-> IF d = m THEN Below(f[d - 1]) ELSE f[d]]
  <2>2. \A d \in 0 .. m : g[d] = IF d = 0 THEN <<root>> ELSE Below(g[d - 1])
    <3> SUFFICES ASSUME NEW d \in 0 .. m
                 PROVE  g[d] = IF d = 0 THEN <<root>> ELSE Below(g[d - 1])
      OBVIOUS
    <3>1. d # 0 => d - 1 \in 0 .. m /\ d - 1 # m
      OBVIOUS
    <3>2. d # 0 => g[d - 1] = f[d - 1]
      BY <3>1
    <3>3. CASE d = m
      <4>1. g[d] = Below(f[d - 1]) /\ d # 0
        BY <3>3
      <4> HIDE DEF g
      <4> QED
        BY <3>2, <4>1
    <3>4. CASE d # m
      <4>1. d \in 0 .. m - 1
        BY <3>4
      <4>2. g[d] = f[d]
        BY <3>4
      <4>3. f[d] = IF d = 0 THEN <<root>> ELSE Below(f[d - 1])
        BY <2>1, <4>1 DEF IsLevel
      <4> HIDE DEF g
      <4> QED
        BY <3>2, <4>2, <4>3
    <3> QED
      BY <3>3, <3>4
  <2>3. g = [d \in 0 .. m |-> g[d]]
    OBVIOUS
  <2> HIDE DEF g
  <2>4. IsLevel(g, m)
    BY <2>2, <2>3 DEF IsLevel
  <2> QED
    BY <2>4
<1> HIDE DEF A
<1>3. 0 .. n \subseteq A
  BY <1>1, <1>2, CountUp
<1> QED
  BY <1>3 DEF A

\* Level is one.
LEMMA LevelIs ==
  ASSUME Len(inners) \in Nat
  PROVE  IsLevel(Level, Len(inners))
<1> DEFINE f == CHOOSE f : IsLevel(f, Len(inners))
<1>1. IsLevel(f, Len(inners))
  BY LevelExists
<1>2. Level = f
  BY DEF Level, IsLevel
<1> QED
  BY <1>1, <1>2

\* Every node below the root is one of T, or an alive leaf.
LEMMA ReachableInTree ==
  ASSUME NEW h, Good(h), NEW T, NEW R, Routed(T, R)
  PROVE  \A x \in Reachable : InTree(T, x) /\ x \in NodeId
<1> DEFINE S == {x \in NodeId : InTree(T, x)}
<1>1. PICK n \in Nat : n = Len(inners)
  BY LenProperties DEF Good, StoreOK
<1>2. PICK level : level = Level
  OBVIOUS
<1>3. IsLevel(level, n)
  BY <1>1, <1>2, LevelIs
<1>4. root \in S
  BY DEF Routed, InOrder, LeavesKnown, Orphans, Good, Scalars
<1>5. ASSUME NEW x \in S, x.kind = "inner" PROVE inners[x.id].child \in Seq(S)
  <2>1. x.id \in T
    BY <1>5 DEF InTree
  <2>2. PICK C : IsInner(inners[x.id], Key, C)
    BY <2>1, RangeOf
  <2>3. PICK c : c = inners[x.id].child
    OBVIOUS
  <2>4. c \in Seq(C)
    BY <2>2, <2>3 DEF IsInner
  <2>5. \A i \in 1 .. Len(c) : c[i] \in S
    <3>1. \A y \in KidsOf(inners, x.id) : y \in NodeId /\ InTree(T, y)
      BY <2>1, NodesOfTree DEF NodesOf
    <3>2. \A i \in 1 .. Len(c) : c[i] \in KidsOf(inners, x.id)
      BY <2>3, <2>4 DEF KidsOf, Range
    <3> QED
      BY <3>1, <3>2
  <2> HIDE DEF S
  <2>6. c \in Seq(S)
    BY <2>4, <2>5, LenProperties, IsASeq
  <2> QED
    BY <2>3, <2>6
<1> HIDE DEF S
<1>6. ASSUME NEW s \in Seq(S) PROVE Below(s) \in Seq(S)
  <2>1. \A i \in DOMAIN s :
            (IF s[i].kind = "inner" THEN inners[s[i].id].child ELSE <<s[i]>>) \in Seq(S)
    <3>1. \A i \in DOMAIN s : s[i] \in S
      OBVIOUS
    <3> QED
      BY <1>5, <3>1
  <2> DEFINE t == [i \in DOMAIN s |->
                     IF s[i].kind = "inner" THEN inners[s[i].id].child ELSE <<s[i]>>]
  <2>2. DOMAIN s = 1 .. Len(s) /\ Len(s) \in Nat
    OBVIOUS
  <2>3. DOMAIN t = 1 .. Len(s) /\ \A i \in 1 .. Len(s) : t[i] \in Seq(S)
    BY <2>1, <2>2
  <2>4. t = [i \in 1 .. Len(s) |-> t[i]]
    BY <2>2
  <2> HIDE DEF t
  <2>5. t \in Seq(Seq(S))
    BY <2>2, <2>3, <2>4, IsASeq
  <2>6. Below(s) = FlattenSeq(t)
    BY DEF Below, t
  <2> QED
    BY <2>5, <2>6, FlattenType
<1> DEFINE A == {d \in 0 .. n : level[d] \in Seq(S)}
<1>7. 0 \in A
  BY <1>3, <1>4 DEF IsLevel
<1>8. ASSUME NEW d \in 1 .. n, d - 1 \in A PROVE d \in A
  <2>1. level[d] = Below(level[d - 1])
    BY <1>3 DEF IsLevel
  <2>2. level[d - 1] \in Seq(S)
    BY <1>8
  <2> QED
    BY <1>6, <2>1, <2>2
<1>9. 0 .. n \subseteq A
  <2> HIDE DEF A
  <2> QED
    BY <1>7, <1>8, CountUp
<1>10. ASSUME NEW d \in DOMAIN level, NEW x \in ToSet(level[d]) PROVE x \in S
  <2>1. level[d] \in Seq(S)
    BY <1>3, <1>9 DEF IsLevel
  <2> QED
    BY <1>10, <2>1 DEF ToSet
<1>11. \A x \in Reachable : x \in S
  BY <1>2, <1>10 DEF Reachable
<1> QED
  BY <1>11 DEF S

\* Nodes below the root keep their minimum.
LEMMA RoutedIsFilled ==
  ASSUME NEW h, Good(h), NEW T, NEW R, Routed(T, R)
  PROVE  Filled
<1> SUFFICES ASSUME NEW x \in Reachable, x # root
             PROVE  IF x.kind = "leaf" THEN LeafSize(leaves[x.id]) >= LEAF_MIN
                    ELSE InnerSize(inners[x.id]) >=
                             IF pc = "remove_ascend" /\ r.tag = "InnerUnderSize"
                             THEN MIN_N - 1 ELSE MIN_N
  BY DEF Filled
<1>1. x \in NodeId /\ InTree(T, x)
  BY ReachableInTree
<1>2. CASE x.kind = "leaf"
  <2>1. x = Leaf(x.id) /\ x.id \in LeafAlive
    BY <1>1, <1>2 DEF InTree, NodeId, Leaf
  <2> QED
    BY <1>2, <2>1 DEF Routed, InOrder, LeavesFilled
<1>3. CASE x.kind = "inner"
  <2>1. x = Inner(x.id) /\ x.id \in T
    BY <1>1, <1>3 DEF InTree, NodeId, Inner
  <2>2. InnerSize(inners[x.id]) \in Nat /\ MIN_N \in Nat
    BY <2>1, RangeOf, NodeParts, MinimumIs DEF InnerSize
  <2>3. InnerSize(inners[x.id]) >= MIN_N - (IF IsReported(x.id) THEN 1 ELSE 0)
    BY <2>1 DEF Routed, InnersFilled, LeastKeys
  <2>4. IsReported(x.id) => pc = "remove_ascend" /\ r.tag = "InnerUnderSize"
    BY DEF IsReported
  <2> QED
    BY <1>3, <2>2, <2>3, <2>4
<1> QED
  BY <1>1, <1>2, <1>3 DEF NodeId

-----------------------------------------------------------------------------
(* The theorems                                                            *)

\* What the inductive invariant of RouteProofs gives in a state.
LEMMA RoutedHolds == (\E h : Good(h)) /\ (\E T, R : Routed(T, R))
                         => LeafChain /\ EveryKeyIsFound /\ CacheSound /\ Filled
<1> SUFFICES ASSUME NEW h, Good(h), NEW T, NEW R, Routed(T, R)
             PROVE  LeafChain /\ EveryKeyIsFound /\ CacheSound /\ Filled
  OBVIOUS
<1> QED
  BY RoutedChain, RoutedFound, RoutedCache, RoutedIsFilled

\* Whatever is inserted and removed, and in the middle of an ascent too, the prev
\* and next pointers of the leaves agree and follow the order of the keys: an
\* iteration from the first leaf meets every key once, in order (mod.rs, leaf_node.rs).
THEOREM ChainStaysOrdered == Spec => []LeafChain
BY RoutedForever, RoutedHolds, PTL

\* Between calls, locate_leaf takes each key that a leaf holds to this leaf: no
\* entry is out of the reach of get, remove or a second insert.
THEOREM KeysStayFound == Spec => []EveryKeyIsFound
BY RoutedForever, RoutedHolds, PTL

\* Between calls, a leaf that the cache offers for a key is the one a descent
\* would find: splits, loans and merges never leave a misleading cached leaf.
THEOREM CacheStaysSound == Spec => []CacheSound
BY RoutedForever, RoutedHolds, PTL

\* Every node below the root keeps its minimum, but for the one inner node that
\* an ascent has reported and is about to fill or merge away.
THEOREM StaysFilled == Spec => []Filled
BY RoutedForever, RoutedHolds, PTL

-----------------------------------------------------------------------------
(* Augmentations beside the children                                       *)

\* Beside each element x of s stands W[x].
Along(s, t, W) == Len(t) = Len(s) /\ \A i \in DOMAIN s : t[i] = W[s[i]]

\* The same, with the domain as an interval.
LEMMA AlongIs ==
  ASSUME NEW C, NEW s \in Seq(C), NEW t, NEW W
  PROVE  Along(s, t, W) <=> Len(t) = Len(s) /\ \A i \in 1 .. Len(s) : t[i] = W[s[i]]
BY DEF Along

\* A part of both sequences.
LEMMA AlongCut ==
  ASSUME NEW C, NEW s \in Seq(C), NEW t \in Seq(Nat), NEW W, Along(s, t, W),
         NEW m \in Nat \ {0}, NEW n \in Nat, n <= Len(s), m <= n + 1
  PROVE  Along(SubSeq(s, m, n), SubSeq(t, m, n), W)
<1>1. /\ SubSeq(s, m, n) \in Seq(C) /\ Len(SubSeq(s, m, n)) = n - m + 1
      /\ \A j \in 1 .. n - m + 1 : SubSeq(s, m, n)[j] = s[m + j - 1]
  <2>1. Len(SubSeq(s, m, n)) = n - m + 1 /\ SubSeq(s, m, n) \in Seq(C)
    BY CutType
  <2> QED
    BY <2>1, CutElems
<1>2. /\ Len(t) = Len(s) /\ Len(s) \in Nat /\ n <= Len(t)
      /\ \A i \in 1 .. Len(s) : t[i] = W[s[i]]
  BY DEF Along
<1>3. /\ Len(SubSeq(t, m, n)) = n - m + 1
      /\ \A j \in 1 .. n - m + 1 : SubSeq(t, m, n)[j] = t[m + j - 1]
  <2>1. Len(SubSeq(t, m, n)) = n - m + 1
    BY <1>2, CutType
  <2> QED
    BY <1>2, <2>1, CutElems
<1>4. \A j \in 1 .. n - m + 1 : m + j - 1 \in 1 .. Len(s)
  BY <1>2
<1>5. PICK p : p = SubSeq(s, m, n)
  OBVIOUS
<1>6. PICK q : q = SubSeq(t, m, n)
  OBVIOUS
<1>7. p \in Seq(C) /\ Len(p) = n - m + 1 /\ \A j \in 1 .. n - m + 1 : p[j] = s[m + j - 1]
  BY ONLY <1>1, <1>5
<1>8. Len(q) = n - m + 1 /\ \A j \in 1 .. n - m + 1 : q[j] = t[m + j - 1]
  BY ONLY <1>3, <1>6
<1>9. \A j \in 1 .. n - m + 1 : q[j] = W[p[j]]
  BY ONLY <1>2, <1>4, <1>7, <1>8
<1>10. Along(p, q, W)
  <2>1. Len(q) = Len(p) /\ \A j \in 1 .. Len(p) : q[j] = W[p[j]]
    BY ONLY <1>7, <1>8, <1>9
  <2> QED
    BY ONLY <1>7, <2>1, AlongIs
<1> QED
  BY ONLY <1>5, <1>6, <1>10

\* One more element, and W of it.
LEMMA AlongInsert ==
  ASSUME NEW C, NEW s \in Seq(C), NEW t \in Seq(Nat), NEW W, Along(s, t, W),
         NEW i \in 1 .. Len(s) + 1, NEW x \in C, W[x] \in Nat
  PROVE  Along(InsertAt(s, i, x), InsertAt(t, i, W[x]), W)
<1>1. /\ Len(t) = Len(s) /\ Len(s) \in Nat /\ i \in 1 .. Len(t) + 1
      /\ \A j \in 1 .. Len(s) : t[j] = W[s[j]]
  BY DEF Along
<1>2. PICK p : p = InsertAt(s, i, x)
  OBVIOUS
<1>3. PICK q : q = InsertAt(t, i, W[x])
  OBVIOUS
<1>4. /\ p \in Seq(C) /\ Len(p) = Len(s) + 1
      /\ \A j \in 1 .. Len(s) + 1 : p[j] = IF j < i THEN s[j] ELSE IF j = i THEN x ELSE s[j - 1]
  <2>1. p \in Seq(C) /\ Len(p) = Len(s) + 1
    BY <1>2, InsertAtType
  <2> QED
    BY <1>2, <2>1, InsertAtElems
<1>5. PICK e \in Nat : e = W[x]
  OBVIOUS
<1>6. Len(q) = Len(t) + 1
  BY <1>1, <1>3, <1>5, InsertAtType
<1>7. \A j \in 1 .. Len(t) + 1 : q[j] = IF j < i THEN t[j] ELSE IF j = i THEN e ELSE t[j - 1]
  <2>0. PICK N : N = Nat
    OBVIOUS
  <2>1. q = InsertAt(t, i, e) /\ t \in Seq(N) /\ e \in N /\ i \in 1 .. Len(t) + 1
    BY <1>1, <1>3, <1>5, <2>0
  <2>2. \A j \in 1 .. Len(t) + 1 :
            InsertAt(t, i, e)[j] = IF j < i THEN t[j] ELSE IF j = i THEN e ELSE t[j - 1]
    BY ONLY <2>1, InsertAtElems
  <2> QED
    BY <2>1, <2>2
<1>8. ASSUME NEW j \in 1 .. Len(s) + 1 PROVE q[j] = W[p[j]]
  <2>1. CASE j < i
    <3>1. j \in 1 .. Len(s)
      BY <1>1, <2>1
    <3> QED
      BY <1>1, <1>4, <1>7, <2>1, <3>1
  <2>2. CASE j = i
    <3>1. ~(j < i)
      BY <2>2
    <3> QED
      BY <1>1, <1>4, <1>5, <1>7, <2>2, <3>1
  <2>3. CASE ~(j < i) /\ j # i
    <3>1. j - 1 \in 1 .. Len(s)
      BY <1>1, <2>3
    <3> QED
      BY <1>1, <1>4, <1>7, <2>3, <3>1
  <2> QED
    BY <2>1, <2>2, <2>3
<1>9. Along(p, q, W)
  BY <1>1, <1>4, <1>6, <1>8, AlongIs
<1> QED
  BY <1>2, <1>3, <1>9

\* One element less; what stands beside it may have been anything.
LEMMA AlongRemove ==
  ASSUME NEW C, NEW s \in Seq(C), NEW t \in Seq(Nat), NEW W, Len(t) = Len(s),
         NEW i \in 1 .. Len(s), \A j \in DOMAIN s : j # i => t[j] = W[s[j]]
  PROVE  Along(RemoveAt(s, i), RemoveAt(t, i), W)
<1>1. Len(s) \in Nat /\ i \in 1 .. Len(t) /\ DOMAIN s = 1 .. Len(s)
  OBVIOUS
<1>2. PICK p : p = RemoveAt(s, i)
  OBVIOUS
<1>3. PICK q : q = RemoveAt(t, i)
  OBVIOUS
<1>4. /\ p \in Seq(C) /\ Len(p) = Len(s) - 1
      /\ \A j \in 1 .. Len(s) - 1 : p[j] = IF j < i THEN s[j] ELSE s[j + 1]
  <2>1. p \in Seq(C) /\ Len(p) = Len(s) - 1
    BY <1>2, RemoveAtType
  <2> QED
    BY <1>2, <2>1, RemoveAtElems
<1>5. Len(q) = Len(t) - 1
  BY <1>1, <1>3, RemoveAtType
<1>6. \A j \in 1 .. Len(t) - 1 : q[j] = IF j < i THEN t[j] ELSE t[j + 1]
  BY <1>1, <1>3, RemoveAtElems
<1>7. ASSUME NEW j \in 1 .. Len(s) - 1 PROVE q[j] = W[p[j]]
  <2>1. CASE j < i
    <3>1. j \in 1 .. Len(s) /\ j # i
      BY <1>1, <2>1
    <3> QED
      BY <1>1, <1>4, <1>6, <2>1, <3>1
  <2>2. CASE ~(j < i)
    <3>1. j + 1 \in 1 .. Len(s) /\ j + 1 # i
      BY <1>1, <2>2
    <3> QED
      BY <1>1, <1>4, <1>6, <2>2, <3>1
  <2> QED
    BY <2>1, <2>2
<1>8. Along(p, q, W)
  <2>1. p \in Seq(C) /\ Len(q) = Len(p) /\ \A j \in 1 .. Len(p) : q[j] = W[p[j]]
    BY ONLY Len(t) = Len(s), <1>4, <1>5, <1>7
  <2> QED
    BY ONLY <2>1, AlongIs
<1> QED
  BY <1>2, <1>3, <1>8

\* Two sequences one after the other.
LEMMA AlongConcat ==
  ASSUME NEW C, NEW s \in Seq(C), NEW t \in Seq(Nat), NEW u \in Seq(C), NEW v \in Seq(Nat),
         NEW W, Along(s, t, W), Along(u, v, W)
  PROVE  Along(s \o u, t \o v, W)
<1>1. Len(t) = Len(s) /\ \A j \in 1 .. Len(s) : t[j] = W[s[j]]
  BY ONLY s \in Seq(C), Along(s, t, W), AlongIs
<1>2. Len(v) = Len(u) /\ \A j \in 1 .. Len(u) : v[j] = W[u[j]]
  BY ONLY u \in Seq(C), Along(u, v, W), AlongIs
<1>3. PICK p : p = s \o u
  OBVIOUS
<1>4. PICK q : q = t \o v
  OBVIOUS
<1>5. /\ p \in Seq(C) /\ Len(p) = Len(s) + Len(u)
      /\ \A i \in 1 .. Len(s) + Len(u) : p[i] = IF i <= Len(s) THEN s[i] ELSE u[i - Len(s)]
  BY <1>3, ConcatProperties
<1>6. /\ Len(q) = Len(t) + Len(v)
      /\ \A i \in 1 .. Len(t) + Len(v) : q[i] = IF i <= Len(t) THEN t[i] ELSE v[i - Len(t)]
  BY <1>4, ConcatProperties
<1>7. Len(s) \in Nat /\ Len(u) \in Nat
  BY LenProperties
<1>8. ASSUME NEW j \in 1 .. Len(s) + Len(u) PROVE q[j] = W[p[j]]
  <2>1. CASE j <= Len(s)
    <3>1. j \in 1 .. Len(s)
      BY <1>7, <2>1
    <3> QED
      BY ONLY <1>1, <1>2, <1>5, <1>6, <1>8, <2>1, <3>1
  <2>2. CASE ~(j <= Len(s))
    <3>1. j - Len(s) \in 1 .. Len(u)
      BY <1>7, <2>2
    <3>2. p[j] = u[j - Len(s)]
      BY ONLY <1>5, <1>8, <2>2
    <3>3. q[j] = v[j - Len(s)]
      <4>1. j \in 1 .. Len(t) + Len(v) /\ ~(j <= Len(t)) /\ Len(t) = Len(s)
        BY <1>1, <1>2, <1>8, <2>2
      <4> QED
        BY ONLY <1>6, <4>1
    <3>4. v[j - Len(s)] = W[u[j - Len(s)]]
      BY ONLY <1>2, <3>1
    <3> QED
      BY ONLY <3>2, <3>3, <3>4
  <2> QED
    BY <2>1, <2>2
<1>9. Along(p, q, W)
  <2>1. Len(q) = Len(p)
    BY <1>1, <1>2, <1>5, <1>6
  <2>2. \A j \in 1 .. Len(p) : q[j] = W[p[j]]
    BY <1>5, <1>8
  <2> QED
    BY <1>5, <2>1, <2>2, AlongIs
<1> QED
  BY <1>3, <1>4, <1>9

\* One element.
LEMMA AlongOne ==
  ASSUME NEW C, NEW x \in C, NEW W, W[x] \in Nat
  PROVE  /\ <<x>> \in Seq(C) /\ <<W[x]>> \in Seq(Nat) /\ Along(<<x>>, <<W[x]>>, W)
BY DEF Along

\* One more element at the end, and at the front.
LEMMA AlongGrow ==
  ASSUME NEW C, NEW s \in Seq(C), NEW t \in Seq(Nat), NEW W, Along(s, t, W),
         NEW x \in C, W[x] \in Nat
  PROVE  /\ Along(Append(s, x), Append(t, W[x]), W)
         /\ Along(<<x>> \o s, <<W[x]>> \o t, W)
<1>1. <<x>> \in Seq(C) /\ <<W[x]>> \in Seq(Nat) /\ Along(<<x>>, <<W[x]>>, W)
  BY AlongOne
<1>2. Along(<<x>> \o s, <<W[x]>> \o t, W)
  BY <1>1, AlongConcat
<1>3. Append(s, x) = s \o <<x>> /\ Append(t, W[x]) = t \o <<W[x]>>
  BY AppendIsConcat
<1>4. Along(s \o <<x>>, t \o <<W[x]>>, W)
  BY <1>1, AlongConcat
<1> QED
  BY <1>2, <1>3, <1>4

\* Without the last element, and without the first.
LEMMA AlongEnds ==
  ASSUME NEW C, NEW s \in Seq(C), NEW t \in Seq(Nat), NEW W, Along(s, t, W), Len(s) > 0
  PROVE  Along(Front(s), Front(t), W) /\ Along(Tail(s), Tail(t), W)
<1>1. /\ Len(t) = Len(s) /\ Len(s) \in Nat /\ Len(t) > 0 /\ Len(s) > 0
      /\ \A j \in 1 .. Len(s) : t[j] = W[s[j]]
  BY DEF Along
<1>2. PICK p : p = Front(s)
  OBVIOUS
<1>3. PICK q : q = Front(t)
  OBVIOUS
<1>4. PICK u : u = Tail(s)
  OBVIOUS
<1>5. PICK v : v = Tail(t)
  OBVIOUS
<1>6. p \in Seq(C) /\ Len(p) = Len(s) - 1 /\ u \in Seq(C) /\ Len(u) = Len(s) - 1
  BY <1>2, <1>4, EndsType
<1>7. Len(q) = Len(t) - 1 /\ Len(v) = Len(t) - 1
  BY <1>1, <1>3, <1>5, EndsType
<1>8. \A j \in 1 .. Len(s) - 1 : p[j] = s[j] /\ u[j] = s[j + 1]
  BY <1>2, <1>4, EndsElems
<1>9. \A j \in 1 .. Len(t) - 1 : q[j] = t[j] /\ v[j] = t[j + 1]
  BY <1>1, <1>3, <1>5, EndsElems
<1>10. \A j \in 1 .. Len(s) - 1 : j \in 1 .. Len(s) /\ j + 1 \in 1 .. Len(s)
  BY <1>1
<1>11. \A j \in 1 .. Len(s) - 1 : q[j] = W[p[j]] /\ v[j] = W[u[j]]
  BY <1>1, <1>8, <1>9, <1>10
<1>12. Along(p, q, W)
  <2>1. Len(q) = Len(p) /\ \A j \in 1 .. Len(p) : q[j] = W[p[j]]
    BY <1>1, <1>6, <1>7, <1>11
  <2> QED
    BY <1>6, <2>1, AlongIs
<1>13. Along(u, v, W)
  <2>1. Len(v) = Len(u) /\ \A j \in 1 .. Len(u) : v[j] = W[u[j]]
    BY <1>1, <1>6, <1>7, <1>11
  <2> QED
    BY <1>6, <2>1, AlongIs
<1> QED
  BY <1>2, <1>3, <1>4, <1>5, <1>12, <1>13

\* Another element in place c.
LEMMA AlongPut ==
  ASSUME NEW C, NEW s \in Seq(C), NEW t \in Seq(Nat), NEW W, Len(t) = Len(s),
         NEW c \in 1 .. Len(s), NEW x, \A j \in DOMAIN s : j # c => t[j] = W[s[j]]
  PROVE  Along([s EXCEPT ![c] = x], [t EXCEPT ![c] = W[x]], W)
<1>1. Len(s) \in Nat /\ DOMAIN s = 1 .. Len(s) /\ DOMAIN t = 1 .. Len(s)
  OBVIOUS
<1>2. Len([s EXCEPT ![c] = x]) = Len(s) /\ Len([t EXCEPT ![c] = W[x]]) = Len(t)
  BY PutLen
<1> QED
  BY <1>1, <1>2 DEF Along

\* Beside each child of n stands W of it.
Matched(n, W) == Along(n.child, n.aug, W)

\* The same, but for the children in the places X.
MatchedBut(n, X, W) == \A j \in DOMAIN n.child : j \in X \/ n.aug[j] = W[n.child[j]]

\* Of a well-formed node, the lengths need no mention.
LEMMA MatchedIs ==
  ASSUME NEW K, NEW C, NEW n, IsInner(n, K, C), NEW W
  PROVE  Matched(n, W) <=> \A j \in DOMAIN n.child : n.aug[j] = W[n.child[j]]
<1>1. Len(n.aug) = Len(n.child)
  BY DEF IsInner
<1> QED
  BY <1>1 DEF Matched, Along

\* Setting the augmentation of a child settles it.
LEMMA SetAugmentationMatched ==
  ASSUME NEW K, NEW C, NEW n, IsInner(n, K, C), NEW W, NEW X, MatchedBut(n, X, W),
         NEW c \in DOMAIN n.child, NEW a, a = W[n.child[c]]
  PROVE  MatchedBut(SetAugmentation(n, c, a), X \ {c}, W)
<1>1. DOMAIN n.aug = DOMAIN n.child
  BY InnerParts
<1>2. n.aug \in Seq(Nat) /\ n \in [keys : Seq(K), child : Seq(C), aug : Seq(Nat)]
  BY DEF IsInner
<1>3. /\ SetAugmentation(n, c, a).child = n.child
      /\ \A j \in DOMAIN n.child :
             SetAugmentation(n, c, a).aug[j] = IF j = c THEN a ELSE n.aug[j]
  BY <1>1, <1>2 DEF SetAugmentation
<1> QED
  BY <1>3 DEF MatchedBut

\* With no exception left, all are settled.
LEMMA MatchedButNone ==
  ASSUME NEW K, NEW C, NEW n, IsInner(n, K, C), NEW W, NEW X, MatchedBut(n, X, W), X = {}
  PROVE  Matched(n, W)
BY MatchedIs DEF MatchedBut

\* insert_at: the new child comes with its augmentation.
LEMMA InsertSlotMatched ==
  ASSUME NEW K, NEW C, NEW n, IsInner(n, K, C), NEW W, Matched(n, W),
         NEW slot \in DOMAIN n.child, NEW k, NEW child \in C,
         NEW a \in Nat, a = W[child]
  PROVE  Matched(InsertSlot(n, slot, k, child, a), W)
<1>1. n.child \in Seq(C) /\ n.aug \in Seq(Nat)
  BY InnerParts
<1>2. slot + 1 \in 1 .. Len(n.child) + 1
  BY <1>1
<1>3. Along(InsertAt(n.child, slot + 1, child), InsertAt(n.aug, slot + 1, W[child]), W)
  BY <1>1, <1>2, AlongInsert DEF Matched
<1> QED
  BY <1>3 DEF Matched, InsertSlot

\* remove_slot: the child that goes takes its augmentation along, right or not.
LEMMA RemoveSlotMatched ==
  ASSUME NEW K, NEW C, NEW n, IsInner(n, K, C), NEW W,
         NEW slot \in DOMAIN n.keys, MatchedBut(n, {slot + 1}, W)
  PROVE  Matched(RemoveSlotWithRight(n, slot), W)
<1>1. n.child \in Seq(C) /\ n.aug \in Seq(Nat) /\ Len(n.aug) = Len(n.child)
  BY InnerParts DEF IsInner
<1>2. slot + 1 \in 1 .. Len(n.child)
  BY DEF IsInner
<1>3. PICK i : i = slot + 1
  OBVIOUS
<1>4. \A j \in DOMAIN n.child : j # i => n.aug[j] = W[n.child[j]]
  BY <1>3 DEF MatchedBut
<1>5. Along(RemoveAt(n.child, i), RemoveAt(n.aug, i), W)
  BY <1>1, <1>2, <1>3, <1>4, AlongRemove
<1> QED
  BY <1>3, <1>5 DEF Matched, RemoveSlotWithRight

\* merge_next.
LEMMA MergeNextMatched ==
  ASSUME NEW K, NEW C, NEW n, NEW right, IsInner(n, K, C), IsInner(right, K, C),
         NEW W, Matched(n, W), Matched(right, W), NEW k
  PROVE  Matched(MergeNext(n, k, right), W)
<1>1. /\ n.child \in Seq(C) /\ n.aug \in Seq(Nat)
      /\ right.child \in Seq(C) /\ right.aug \in Seq(Nat)
  BY InnerParts
<1>2. Along(n.child \o right.child, n.aug \o right.aug, W)
  BY <1>1, AlongConcat DEF Matched
<1> QED
  BY <1>2 DEF Matched, MergeNext

\* pop and pop_front.
LEMMA PopInnerMatched ==
  ASSUME NEW K, NEW C, NEW n, IsInner(n, K, C), NEW W, Matched(n, W)
  PROVE  Matched(PopInner(n), W) /\ Matched(PopFrontInner(n), W)
<1>1. n.child \in Seq(C) /\ n.aug \in Seq(Nat) /\ Len(n.child) > 0
  BY InnerParts DEF IsInner
<1>2. /\ Along(Front(n.child), Front(n.aug), W)
      /\ Along(Tail(n.child), Tail(n.aug), W)
  BY <1>1, AlongEnds DEF Matched
<1> QED
  BY <1>2 DEF Matched, PopInner, PopFrontInner

\* push and push_front: the new child comes with its augmentation.
LEMMA PushInnerMatched ==
  ASSUME NEW K, NEW C, NEW n, IsInner(n, K, C), NEW W, Matched(n, W),
         NEW k, NEW child \in C, NEW a \in Nat, a = W[child]
  PROVE  /\ Matched(PushInner(n, k, child, a), W)
         /\ Matched(PushFrontInner(n, k, child, a), W)
<1>1. n.child \in Seq(C) /\ n.aug \in Seq(Nat)
  BY InnerParts
<1>2. /\ Along(Append(n.child, child), Append(n.aug, W[child]), W)
      /\ Along(<<child>> \o n.child, <<W[child]>> \o n.aug, W)
  BY <1>1, AlongGrow DEF Matched
<1> QED
  BY <1>2 DEF Matched, PushInner, PushFrontInner

\* A part of a node, as split leaves it.
LEMMA PartMatched ==
  ASSUME NEW K, NEW C, NEW n, IsInner(n, K, C), NEW W, Matched(n, W),
         NEW from \in Nat \ {0}, NEW to \in Nat, to <= Len(n.keys), from <= to + 1
  PROVE  Matched(Part(n, from, to), W)
<1>1. n.child \in Seq(C) /\ n.aug \in Seq(Nat)
  BY InnerParts
<1>2. PICK m \in Nat : m = to + 1
  OBVIOUS
<1>3. m <= Len(n.child) /\ from <= m + 1
  BY <1>2 DEF IsInner
<1>4. Along(SubSeq(n.child, from, m), SubSeq(n.aug, from, m), W)
  BY <1>1, <1>3, AlongCut DEF Matched
<1> QED
  BY <1>2, <1>4 DEF Matched, Part

\* split: both halves stay right, whichever of them receives the new child.
LEMMA SplitInnerMatched ==
  ASSUME NEW K, NEW C, NEW n, IsInner(n, K, C), Len(n.keys) = INNER_N,
         NEW W, Matched(n, W), NEW c \in DOMAIN n.child, NEW k \in K, NEW child \in C,
         NEW a \in Nat, a = W[child]
  PROVE  LET s == SplitInner(n, c, k, child, a)
         IN  Matched(s.left, W) /\ Matched(s.right, W)
<1> DEFINE o == InnerSplitOriginSize
<1>1. /\ o \in Nat /\ o >= 2 /\ INNER_N \in Nat /\ o + 2 <= INNER_N
  BY InnerAssumption DEF InnerSplitOriginSize
<1>2. c \in 1 .. INNER_N + 1
  BY InnerParts
<1> HIDE DEF o
<1>3. CASE c <= o
  <2>1. IsInner(Part(n, 1, o - 1), K, C) /\ Len(Part(n, 1, o - 1).keys) = o - 1
    BY <1>1, PartType
  <2>2. Matched(Part(n, 1, o - 1), W) /\ Matched(Part(n, o + 1, INNER_N), W)
    BY <1>1, PartMatched
  <2>3. c \in DOMAIN Part(n, 1, o - 1).child
    BY <1>1, <1>2, <1>3, <2>1, InnerParts
  <2>4. Matched(InsertSlot(Part(n, 1, o - 1), c, k, child, a), W)
    BY <2>1, <2>2, <2>3, InsertSlotMatched
  <2>5. /\ SplitInner(n, c, k, child, a).left = InsertSlot(Part(n, 1, o - 1), c, k, child, a)
        /\ SplitInner(n, c, k, child, a).right = Part(n, o + 1, INNER_N)
    BY <1>1, <1>2, <1>3 DEF SplitInner, o
  <2> QED
    BY <2>2, <2>4, <2>5
<1>4. CASE c > o + 1
  <2>1. /\ IsInner(Part(n, o + 2, INNER_N), K, C)
        /\ Len(Part(n, o + 2, INNER_N).keys) = INNER_N - (o + 2) + 1
    <3>1. o + 2 \in 1 .. INNER_N + 1
      BY <1>1
    <3> QED
      BY <3>1, HighPartType
  <2>2. Matched(Part(n, 1, o), W) /\ Matched(Part(n, o + 2, INNER_N), W)
    BY <1>1, PartMatched
  <2>3. c - 1 - o \in DOMAIN Part(n, o + 2, INNER_N).child
    BY <1>1, <1>2, <1>4, <2>1, InnerParts
  <2>4. Matched(InsertSlot(Part(n, o + 2, INNER_N), c - 1 - o, k, child, a), W)
    BY <2>1, <2>2, <2>3, InsertSlotMatched
  <2>5. /\ SplitInner(n, c, k, child, a).left = Part(n, 1, o)
        /\ SplitInner(n, c, k, child, a).right =
               InsertSlot(Part(n, o + 2, INNER_N), c - 1 - o, k, child, a)
    BY <1>1, <1>2, <1>4 DEF SplitInner, o
  <2> QED
    BY <2>2, <2>4, <2>5
<1>5. CASE c = o + 1
  <2>1. PICK p : p = Part(n, o + 1, INNER_N)
    OBVIOUS
  <2>2. IsInner(p, K, C) /\ Matched(p, W) /\ Matched(Part(n, 1, o), W)
    BY <1>1, <2>1, PartType, PartMatched
  <2>3. p.child \in Seq(C) /\ Len(p.aug) = Len(p.child) /\ 1 \in 1 .. Len(p.child)
        /\ p.aug \in Seq(Nat) /\ p \in [keys : Seq(K), child : Seq(C), aug : Seq(Nat)]
    BY <2>2, InnerParts DEF IsInner
  <2>4. \A j \in DOMAIN p.child : j # 1 => p.aug[j] = W[p.child[j]]
    BY <2>2 DEF Matched, Along
  <2>5. Along([p.child EXCEPT ![1] = child], [p.aug EXCEPT ![1] = W[child]], W)
    BY <2>3, <2>4, AlongPut
  <2>6. /\ SplitInner(n, c, k, child, a).left = Part(n, 1, o)
        /\ SplitInner(n, c, k, child, a).right = [p EXCEPT !.child[1] = child, !.aug[1] = a]
    BY <1>1, <1>5, <2>1 DEF SplitInner, o
  <2>7. /\ [p EXCEPT !.child[1] = child, !.aug[1] = a].child = [p.child EXCEPT ![1] = child]
        /\ [p EXCEPT !.child[1] = child, !.aug[1] = a].aug = [p.aug EXCEPT ![1] = a]
    BY <2>3
  <2> QED
    BY <2>2, <2>5, <2>6, <2>7 DEF Matched
<1> QED
  BY <1>1, <1>2, <1>3, <1>4, <1>5

\* Weights that agree on the children.
LEMMA MatchedSame ==
  ASSUME NEW n, NEW W, NEW V, Matched(n, W), \A x \in Range(n.child) : V[x] = W[x]
  PROVE  Matched(n, V)
<1>1. \A j \in DOMAIN n.child : n.child[j] \in Range(n.child)
  BY DEF Range
<1> QED
  BY <1>1 DEF Matched, Along

-----------------------------------------------------------------------------
(* The counts of a store                                                   *)

\* The augmentations of the nodes of a store.
Counts(L, I) == [x \in NodeId |-> IF x.kind = "inner" THEN FromInner(I[x.id].aug)
                                                     ELSE FromLeaf(LeafKeys(L[x.id]))]

\* The nodes of the store.
Ids == {Leaf(l) : l \in DOMAIN leaves} \cup {Inner(i) : i \in DOMAIN inners}

\* The path has yet to tell the inner node i about its child c.
OnPath(i, c) == \E n \in DOMAIN stack : stack[n].id = i /\ stack[n].idx = c

\* The children in a store are nodes.
LEMMA ChildIsNode ==
  ASSUME NEW L, NEW I, NEW h, StoreOK(L, I, h), NEW i \in DOMAIN I, NEW c \in DOMAIN I[i].child
  PROVE  /\ I[i].child[c] \in NodeId /\ DOMAIN I[i].aug = DOMAIN I[i].child
         /\ IsInner(I[i], Key, NodesAt(Len(L), h, h[i] - 1))
<1>1. /\ I[i].child[c] \in NodesAt(Len(L), h, h[i] - 1)
      /\ IsInner(I[i], Key, NodesAt(Len(L), h, h[i] - 1))
  BY ChildAt
<1>2. /\ Len(L) \in Nat /\ Len(I) \in Nat /\ h \in [1 .. Len(I) -> Nat]
      /\ h[i] - 1 \in Nat
  BY StoreParts
<1>3. I[i].child[c] \in NodeId
  BY <1>1, <1>2, NodesAtIds
<1> QED
  BY <1>1, <1>3, InnerParts

\* A child is a node of the store, and not its own parent.
LEMMA KidInIds ==
  ASSUME NEW h, Good(h), NEW i \in DOMAIN inners, NEW x \in KidsOf(inners, i)
  PROVE  x \in Ids /\ x \in NodeId /\ x # Inner(i)
<1>1. /\ x \in NodeId /\ HeightOf(h, x) = h[i] - 1 /\ h[i] \in Nat
      /\ x.kind = "inner" => x = Inner(x.id) /\ x.id \in DOMAIN inners
      /\ x.kind = "leaf" => x = Leaf(x.id) /\ x.id \in DOMAIN leaves
  BY KidKnown
<1>2. HeightOf(h, Inner(i)) = h[i]
  BY DEF HeightOf, Inner
<1>3. x.kind \in {"inner", "leaf"}
  BY <1>1 DEF NodeId
<1> QED
  BY <1>1, <1>2, <1>3 DEF Ids

\* Only the end of a path down the tree is the node where it ends.
LEMMA EndParent ==
  ASSUME NEW T, InnersFilled(T), NEW h, NEW s \in Seq(Entry), IsPath(s, root, inners, h),
         \A n \in DOMAIN s : s[n].id \in T,
         NEW i \in T, NEW c \in DOMAIN inners[i].child, inners[i].child[c] = EndOf(s, root)
  PROVE  \E n \in DOMAIN s : s[n].id = i /\ s[n].idx = c
<1>1. inners[i].child[c] \in KidsOf(inners, i)
  BY DEF KidsOf, Range
<1>2. root \notin KidsOf(inners, i)
  BY DEF InnersFilled, Owned, Orphans, KidsOf
<1>3. s # <<>>
  BY <1>1, <1>2 DEF EndOf
<1>4. Len(s) \in DOMAIN s
  BY <1>3, EmptySeq, LenProperties
<1>5. PICK e : e = s[Len(s)]
  OBVIOUS
<1>6. /\ e.id \in T /\ e.idx \in DOMAIN inners[e.id].child
      /\ e.child = inners[e.id].child[e.idx] /\ EndOf(s, root) = e.child
  BY <1>3, <1>4, <1>5 DEF IsPath, EndOf
<1>7. e.child \in KidsOf(inners, e.id)
  BY <1>6 DEF KidsOf, Range
<1>8. e.id = i
  BY <1>1, <1>6, <1>7 DEF InnersFilled, Owned, KidsOf
<1>9. IsInjective(inners[i].child)
  BY DEF InnersFilled, Owned
<1>10. e.idx = c
  BY <1>6, <1>8, <1>9 DEF IsInjective
<1> QED
  BY <1>4, <1>5, <1>8, <1>10

\* What the path still misses: nothing below its last entry, and one place in its node.
LEMMA PathHas ==
  ASSUME NEW h, Good(h), stack # <<>>, NEW i, NEW c, OnPath(i, c)
  PROVE  h[Top.id] <= h[i] /\ (i = Top.id => c = Top.idx)
<1>1. PICK n \in DOMAIN stack : stack[n].id = i /\ stack[n].idx = c
  BY DEF OnPath
<1>2. PICK m : m = Len(stack)
  OBVIOUS
<1>3. stack \in Seq(Entry) /\ IsPath(stack, root, inners, h)
  BY DEF Good, Scalars, Path
<1>4. m \in DOMAIN stack /\ Top = stack[m] /\ (n = m \/ n < m) /\ m \in Nat
  BY <1>2, <1>3, EmptySeq, LenProperties DEF Top
<1>5. h[stack[m].id] \in Int
  BY <1>4, TopFacts
<1>6. stack[n].id \in DOMAIN inners
  BY <1>3 DEF IsPath
<1>7. h[stack[n].id] \in Int
  BY <1>6 DEF Good, StoreOK
<1>8. n < m => h[stack[m].id] < h[stack[n].id]
  BY <1>3, <1>4 DEF IsPath
<1> QED
  BY <1>1, <1>4, <1>5, <1>7, <1>8

\* An inner node that is not on the path has the augmentations of its children.
LEMMA OffPath ==
  ASSUME NEW h, Good(h), NEW T, InnersFilled(T), Counted(T), NEW i \in T,
         ~IsTelling \/ \A c \in DOMAIN inners[i].child : ~OnPath(i, c)
  PROVE  Matched(inners[i], Counts(leaves, inners))
<1>1. i \in DOMAIN inners
  BY DEF InnersFilled, Owned
<1>2. \A c \in DOMAIN inners[i].child :
          /\ inners[i].aug[c] = AugOf(inners[i].child[c])
          /\ inners[i].child[c] \in NodeId
          /\ IsInner(inners[i], Key, NodesAt(Len(leaves), h, h[i] - 1))
  BY <1>1, ChildIsNode DEF Counted, OnPath, Good
<1>3. \A c \in DOMAIN inners[i].child : inners[i].aug[c] = Counts(leaves, inners)[inners[i].child[c]]
  BY <1>2 DEF AugOf, Counts
<1>4. IsInner(inners[i], Key, NodesAt(Len(leaves), h, h[i] - 1))
  BY <1>1 DEF Good, StoreOK
<1> QED
  BY <1>3, <1>4, MatchedIs

\* The parent is right but for the child that the ascent comes from.
LEMMA ParentCounted ==
  ASSUME NEW h, Good(h), NEW T, InnersFilled(T), Counted(T), stack # <<>>
  PROVE  MatchedBut(Parent, {Top.idx}, Counts(leaves, inners))
<1>1. Top.id \in T /\ Top.id \in DOMAIN inners /\ Parent = inners[Top.id]
  BY ParentFacts
<1>2. PICK i : i = Top.id
  OBVIOUS
<1>3. SUFFICES ASSUME NEW c \in DOMAIN inners[i].child, c # Top.idx
               PROVE  inners[i].aug[c] = Counts(leaves, inners)[inners[i].child[c]]
  BY <1>1, <1>2 DEF MatchedBut
<1>4. ~OnPath(i, c)
  BY <1>2, <1>3, PathHas
<1>5. inners[i].aug[c] = AugOf(inners[i].child[c])
  BY <1>1, <1>2, <1>4 DEF Counted, OnPath
<1>6. inners[i].child[c] \in NodeId
  BY <1>1, <1>2, ChildIsNode DEF Good
<1> QED
  BY <1>5, <1>6 DEF AugOf, Counts

\* Siblings of the child that the ascent comes from are right.
LEMMA BelowCounted ==
  ASSUME NEW h, Good(h), NEW T, InnersFilled(T), Counted(T), stack # <<>>,
         NEW i \in T, h[i] < h[Top.id]
  PROVE  Matched(inners[i], Counts(leaves, inners))
<1>1. i \in DOMAIN inners
  BY DEF InnersFilled, Owned
<1>2. h[i] \in Int /\ h[Top.id] \in Int
  BY <1>1, TopFacts DEF Good, StoreOK
<1>3. \A c : ~OnPath(i, c)
  BY <1>2, PathHas
<1> QED
  BY <1>3, OffPath

(***************************************************************************)
(* The nodes D of the new tree V are right; the others are as they were,   *)
(* and a child whose augmentation is another now is on the path.           *)
(***************************************************************************)
LEMMA CountedKept ==
  ASSUME NEW h, Good(h), NEW T, InnersFilled(T), Counted(T),
         NEW g, StoreOK(leaves', inners', g), NEW V, V \subseteq DOMAIN inners', NEW D,
         \A i \in V \ D : i \in T /\ inners'[i] = inners[i],
         \A i \in V \cap D : Matched(inners'[i], Counts(leaves', inners')),
         NEW X,
         \A x \in Ids \ X : Counts(leaves', inners')[x] = Counts(leaves, inners)[x],
         \A i \in V \ D : \A c \in DOMAIN inners[i].child :
             inners[i].child[c] \in X \/ (IsTelling /\ OnPath(i, c))
                 => IsTelling' /\ OnPath(i, c)'
  PROVE  Counted(V)'
<1> SUFFICES ASSUME NEW i \in V, NEW c \in DOMAIN inners'[i].child
             PROVE  \/ inners'[i].aug[c] = AugOf(inners[i].child[c])'
                    \/ IsTelling' /\ OnPath(i, c)'
  BY DEF Counted, OnPath
<1>1. inners'[i].child[c] \in NodeId
  BY ChildIsNode
<1>2. AugOf(inners[i].child[c])' = Counts(leaves', inners')[inners'[i].child[c]]
  BY <1>1 DEF AugOf, Counts
<1>3. CASE i \in D
  BY <1>2, <1>3 DEF Matched, Along
<1>4. CASE i \notin D
  <2>1. i \in T /\ inners'[i] = inners[i] /\ c \in DOMAIN inners[i].child
    BY <1>4
  <2>2. i \in DOMAIN inners
    BY <2>1 DEF InnersFilled, Owned
  <2>3. PICK x : x = inners[i].child[c]
    OBVIOUS
  <2>4. x \in KidsOf(inners, i)
    BY <2>1, <2>3 DEF KidsOf, Range
  <2>5. x \in Ids /\ x \in NodeId
    BY <2>2, <2>4, KidInIds
  <2>6. CASE x \in X \/ (IsTelling /\ OnPath(i, c))
    BY <1>4, <2>1, <2>3, <2>6
  <2>7. CASE x \notin X /\ ~(IsTelling /\ OnPath(i, c))
    <3>1. inners[i].aug[c] = AugOf(x)
      BY <2>1, <2>3, <2>7 DEF Counted, OnPath
    <3>2. AugOf(x) = Counts(leaves, inners)[x]
      BY <2>5 DEF AugOf, Counts
    <3>3. Counts(leaves', inners')[x] = Counts(leaves, inners)[x]
      BY <2>5, <2>7
    <3> QED
      BY <1>2, <2>1, <2>3, <3>1, <3>2, <3>3
  <2> QED
    BY <2>6, <2>7
<1> QED
  BY <1>3, <1>4

\* What a node of the store is.
LEMMA IdsAre ==
  ASSUME NEW h, Good(h), NEW x \in Ids
  PROVE  /\ x \in NodeId
         /\ x.kind = "inner" => x.id \in DOMAIN inners /\ x = Inner(x.id)
         /\ x.kind # "inner" => x.id \in DOMAIN leaves /\ x = Leaf(x.id)
<1>1. DOMAIN leaves \subseteq Nat /\ DOMAIN inners \subseteq Nat
  BY StoreParts DEF Good
<1>2. CASE \E l \in DOMAIN leaves : x = Leaf(l)
  BY <1>1, <1>2 DEF NodeId, Leaf, Inner
<1>3. CASE \E i \in DOMAIN inners : x = Inner(i)
  BY <1>1, <1>3 DEF NodeId, Leaf, Inner
<1> QED
  BY <1>2, <1>3 DEF Ids

\* What counts of a leaf is its size.
LEMMA CountsAre ==
  ASSUME NEW L, NEW I, NEW x \in NodeId
  PROVE  Counts(L, I)[x] = IF x.kind = "inner" THEN FromInner(I[x.id].aug)
                                              ELSE Len(L[x.id].data)
<1>1. Len(LeafKeys(L[x.id])) = Len(L[x.id].data)
  BY DEF LeafKeys
<1> QED
  BY <1>1 DEF Counts, FromLeaf

\* A step that does not ascend, and changes no child of a node it keeps.
LEMMA QuietCounted ==
  ASSUME NEW h, Good(h), NEW T, InnersFilled(T), Counted(T), ~IsTelling \/ stack = <<>>,
         NEW g, StoreOK(leaves', inners', g), NEW V, V \subseteq DOMAIN inners', NEW D,
         \A i \in V \ D : i \in T /\ inners'[i] = inners[i],
         \A i \in V \cap D : Matched(inners'[i], Counts(leaves', inners')),
         NEW X, \A i \in T : KidsOf(inners, i) \cap X = {},
         \A x \in Ids \ X : Counts(leaves', inners')[x] = Counts(leaves, inners)[x]
  PROVE  Counted(V)'
<1>1. \A i \in V \ D : \A c \in DOMAIN inners[i].child :
          inners[i].child[c] \in X \/ (IsTelling /\ OnPath(i, c))
              => IsTelling' /\ OnPath(i, c)'
  <2> SUFFICES ASSUME NEW i \in V \ D, NEW c \in DOMAIN inners[i].child
               PROVE  inners[i].child[c] \notin X /\ ~(IsTelling /\ OnPath(i, c))
    OBVIOUS
  <2>1. inners[i].child[c] \in KidsOf(inners, i) /\ i \in T
    BY DEF KidsOf, Range
  <2>2. ~(IsTelling /\ OnPath(i, c))
    BY DEF OnPath
  <2> QED
    BY <2>1, <2>2
<1> QED
  BY <1>1, CountedKept

\* A step that changes no more than the value of an entry, if anything.
LEMMA SameCounted ==
  ASSUME NEW h, Good(h), NEW T, InnersFilled(T), Counted(T), ~IsTelling \/ stack = <<>>,
         InnersFilled(T)', UNCHANGED inners, NEW g, StoreOK(leaves', inners, g),
         \A l \in DOMAIN leaves : Len(leaves'[l].data) = Len(leaves[l].data)
  PROVE  Counted(T)'
<1>1. \A x \in Ids : Counts(leaves', inners')[x] = Counts(leaves, inners)[x]
  <2> SUFFICES ASSUME NEW x \in Ids PROVE Counts(leaves', inners')[x] = Counts(leaves, inners)[x]
    OBVIOUS
  <2> QED
    BY IdsAre, CountsAre
<1>2. T \subseteq DOMAIN inners'
  BY DEF InnersFilled, Owned
<1>3. \A i \in T \ {} : i \in T /\ inners'[i] = inners[i]
  OBVIOUS
<1>4. /\ StoreOK(leaves', inners', g)
      /\ \A i \in T \cap {} : Matched(inners'[i], Counts(leaves', inners'))
      /\ \A i \in T : KidsOf(inners, i) \cap {} = {}
      /\ \A x \in Ids \ {} : Counts(leaves', inners')[x] = Counts(leaves, inners)[x]
  BY <1>1
<1> QED
  BY ONLY Good(h), InnersFilled(T), Counted(T), ~IsTelling \/ stack = <<>>,
          <1>2, <1>3, <1>4, QuietCounted

\* The work on the leaf where a descent ends: its ancestors are on the stack.
LEMMA LeafCounted ==
  ASSUME NEW h, Good(h), NEW T, InnersFilled(T), Counted(T), UNCHANGED <<inners, stack>>,
         InnersFilled(T)', IsTelling', NEW g, StoreOK(leaves', inners, g),
         \A l \in DOMAIN leaves :
             Leaf(l) # Current => Len(leaves'[l].data) = Len(leaves[l].data)
  PROVE  Counted(T)'
<1>1. \A x \in Ids \ {Current} : Counts(leaves', inners')[x] = Counts(leaves, inners)[x]
  <2> SUFFICES ASSUME NEW x \in Ids \ {Current}
               PROVE  Counts(leaves', inners')[x] = Counts(leaves, inners)[x]
    OBVIOUS
  <2> QED
    BY IdsAre, CountsAre
<1>2. T \subseteq DOMAIN inners' /\ StoreOK(leaves', inners', g)
  BY DEF InnersFilled, Owned
<1>3. ASSUME NEW i \in T, NEW c \in DOMAIN inners[i].child,
             inners[i].child[c] = Current \/ (IsTelling /\ OnPath(i, c))
      PROVE  OnPath(i, c)'
  <2>1. CASE inners[i].child[c] = Current
    <3>1. /\ stack \in Seq(Entry) /\ IsPath(stack, root, inners, h)
          /\ \A n \in DOMAIN stack : stack[n].id \in T
          /\ inners[i].child[c] = EndOf(stack, root)
      BY <2>1 DEF Good, Scalars, Path, InnersFilled, Current
    <3>2. \E n \in DOMAIN stack : stack[n].id = i /\ stack[n].idx = c
      BY <3>1, EndParent
    <3> QED
      BY <3>2 DEF OnPath
  <2>2. CASE OnPath(i, c)
    BY <2>2 DEF OnPath
  <2> QED
    BY <1>3, <2>1, <2>2
<1>4. PICK X, D : X = {Current} /\ D = {}
  OBVIOUS
<1>5. /\ \A i \in T \ D : i \in T /\ inners'[i] = inners[i]
      /\ \A i \in T \cap D : Matched(inners'[i], Counts(leaves', inners'))
      /\ \A x \in Ids \ X : Counts(leaves', inners')[x] = Counts(leaves, inners)[x]
  BY <1>1, <1>4
<1>6. \A i \in T \ D : \A c \in DOMAIN inners[i].child :
          inners[i].child[c] \in X \/ (IsTelling /\ OnPath(i, c))
              => IsTelling' /\ OnPath(i, c)'
  BY <1>3, <1>4
<1> QED
  BY ONLY Good(h), InnersFilled(T), Counted(T), <1>2, <1>5, <1>6, CountedKept

(***************************************************************************)
(* A step of the ascent: the nodes D that it writes, the parent among      *)
(* them, are right; below, only children of the parent have changed.       *)
(***************************************************************************)
LEMMA AscendCounted ==
  ASSUME NEW h, Good(h), NEW T, InnersFilled(T), Counted(T), stack # <<>>, PopStack,
         UNCHANGED root, IsTelling',
         NEW g, StoreOK(leaves', inners', g), NEW V, V \subseteq DOMAIN inners',
         NEW D, Top.id \in D,
         \A i \in V \ D : i \in T /\ inners'[i] = inners[i],
         \A i \in V \cap D : Matched(inners'[i], Counts(leaves', inners')),
         \A x \in Ids : x # Inner(Top.id) /\ x \notin KidsOf(inners, Top.id)
             => Counts(leaves', inners')[x] = Counts(leaves, inners)[x]
  PROVE  Counted(V)'
<1>1. PICK X : X = KidsOf(inners, Top.id) \cup {Inner(Top.id)}
  OBVIOUS
<1>2. \A x \in Ids \ X : Counts(leaves', inners')[x] = Counts(leaves, inners)[x]
  BY <1>1
<1>3. /\ Top.id \in T /\ Top.id \in DOMAIN inners
      /\ stack \in Seq(Entry) /\ IsPath(stack, root, inners, h)
  BY ParentFacts DEF Good, Scalars, Path
<1>4. LET t == SubSeq(stack, 1, Len(stack) - 1)
      IN  /\ t \in Seq(Entry)
          /\ IsPath(t, root, inners, h)
          /\ EndOf(t, root) = Inner(stack[Len(stack)].id)
  <2>1. SameAbove(inners, h, inners, h, h[stack[Len(stack)].id])
    BY DEF SameAbove
  <2> QED
    BY ONLY <1>3, <2>1, stack # <<>>, PathPop
<1>5. PICK s : s = stack'
  OBVIOUS
<1>6. /\ s \in Seq(Entry) /\ IsPath(s, root, inners, h)
      /\ EndOf(s, root) = Inner(Top.id)
      /\ \A n \in DOMAIN s : n \in DOMAIN stack /\ s[n] = stack[n]
  BY <1>4, <1>5, PopFacts DEF PopStack, Top
<1>7. \A n \in DOMAIN s : s[n].id \in T
  BY <1>6 DEF InnersFilled
<1>8. ASSUME NEW i \in V \ D, NEW c \in DOMAIN inners[i].child,
             inners[i].child[c] \in X \/ (IsTelling /\ OnPath(i, c))
      PROVE  OnPath(i, c)'
  <2>1. i \in T /\ i # Top.id
    BY <1>8
  <2>2. inners[i].child[c] \in KidsOf(inners, i)
    BY <1>8 DEF KidsOf, Range
  <2>3. inners[i].child[c] \notin KidsOf(inners, Top.id)
    BY <1>3, <2>1, <2>2 DEF InnersFilled, Owned, KidsOf
  <2>4. CASE inners[i].child[c] = Inner(Top.id)
    <3>1. inners[i].child[c] = EndOf(s, root)
      BY <1>6, <2>4
    <3>2. \E n \in DOMAIN s : s[n].id = i /\ s[n].idx = c
      BY ONLY InnersFilled(T), <1>6, <1>7, <1>8, <2>1, <3>1, EndParent
    <3> QED
      BY <1>5, <3>2 DEF OnPath
  <2>5. CASE OnPath(i, c)
    <3>1. PICK n \in DOMAIN stack : stack[n].id = i /\ stack[n].idx = c
      BY <2>5 DEF OnPath
    <3>2. n # Len(stack)
      BY <2>1, <3>1 DEF Top
    <3>3. n \in DOMAIN stack'
      <4>1. PICK m \in Nat : m = Len(stack) /\ DOMAIN stack = 1 .. m
        BY <1>3, LenProperties
      <4>2. n \in 1 .. m - 1 /\ m - 1 \in Nat /\ m - 1 <= m /\ 1 <= m
        BY <3>1, <3>2, <4>1
      <4>3. stack' = SubSeq(stack, 1, m - 1) /\ m - 1 <= Len(stack) /\ 1 <= (m - 1) + 1
        BY <4>1, <4>2 DEF PopStack
      <4>4. Len(SubSeq(stack, 1, m - 1)) = (m - 1) - 1 + 1 /\ SubSeq(stack, 1, m - 1) \in Seq(Entry)
        BY <1>3, <4>2, <4>3, CutType
      <4>5. Len(stack') = m - 1 /\ stack' \in Seq(Entry)
        BY <4>2, <4>3, <4>4
      <4>6. DOMAIN stack' = 1 .. m - 1
        BY <4>5, LenProperties
      <4> QED
        BY <4>2, <4>6
    <3>4. s[n] = stack[n]
      BY <1>5, <1>6, <3>3
    <3> QED
      BY <1>5, <3>1, <3>3, <3>4 DEF OnPath
  <2> QED
    BY <1>1, <1>8, <2>3, <2>4, <2>5
<1>9. \A i \in V \ D : \A c \in DOMAIN inners[i].child :
          inners[i].child[c] \in X \/ (IsTelling /\ OnPath(i, c))
              => IsTelling' /\ OnPath(i, c)'
  BY <1>8
<1> QED
  BY <1>2, <1>9, CountedKept

-----------------------------------------------------------------------------
(* Steps that leave the inner nodes alone                                  *)

\* Every leaf of the store is as large in M as it is in L.
SameSizes(L, M) == \A l \in DOMAIN L : Len(M[l].data) = Len(L[l].data)

\* Setting a value leaves the sizes alone.
LEMMA SetValueSizes ==
  ASSUME NEW h, Good(h), NEW id, NEW slot, NEW v
  PROVE  SameSizes(leaves, [leaves EXCEPT ![id] = SetValue(leaves[id], slot, v)])
<1>1. \A l \in DOMAIN leaves : leaves[l] \in LeafOver(Pair)
  BY StoreParts DEF Good
<1>2. SUFFICES ASSUME NEW l \in DOMAIN leaves, l = id
               PROVE  Len(SetValue(leaves[l], slot, v).data) = Len(leaves[l].data)
  BY DEF SameSizes
<1>3. PICK leaf \in LeafOver(Pair) : leaf = leaves[l]
  BY <1>1
<1>4. leaf.data \in Seq(Pair) /\ leaf \in [data : Seq(Pair), prev : Nat \cup {None}, next : Nat \cup {None}]
  BY DEF LeafOver
<1>5. PICK d \in Seq(Pair) : d = leaf.data
  BY <1>4
<1>6. SetValue(leaf, slot, v).data = [d EXCEPT ![slot] = <<d[slot][1], v>>]
  BY <1>4, <1>5 DEF SetValue
<1>7. CASE slot \in 1 .. Len(d)
  <2>1. PICK e : e = <<d[slot][1], v>>
    OBVIOUS
  <2>2. Len([d EXCEPT ![slot] = e]) = Len(d)
    BY <1>7, PutLen
  <2> QED
    BY <1>3, <1>5, <1>6, <2>1, <2>2
<1>8. CASE slot \notin 1 .. Len(d)
  <2>1. slot \notin DOMAIN d
    BY <1>8
  <2>2. [d EXCEPT ![slot] = <<d[slot][1], v>>] = d
    BY <2>1
  <2> QED
    BY <1>3, <1>5, <1>6, <2>2
<1> QED
  BY <1>7, <1>8

\* A value written through a reference leaves the sizes alone.
LEMMA WriteBackSizes ==
  ASSUME NEW h, Good(h), NEW id, NEW k, NEW v, WriteBack(id, k, v)
  PROVE  SameSizes(leaves, leaves')
<1>1. CASE HasKey(leaves[id], k)
  <2>1. leaves' = [leaves EXCEPT ![id] = SetValue(leaves[id], LocateSlot(leaves[id], k), v)]
    BY <1>1 DEF WriteBack
  <2> QED
    BY <2>1, SetValueSizes
<1>2. CASE ~HasKey(leaves[id], k)
  BY <1>2 DEF WriteBack, SameSizes
<1> QED
  BY <1>1, <1>2

\* Calls, descents, lookups, and the ascents and returns that leave the leaf's size.
LEMMA QuietSizes ==
  ASSUME NEW h, Good(h),
         \/ Call /\ ~Clear
         \/ InsertDescend \/ KeyToRefDescend \/ AugmentationDescend \/ KeyToRefMissing
         \/ AugmentationMissing \/ FindStep
         \/ InsertLeafUpdate \/ InsertAscendUpdated
         \/ InsertReturnInserted \/ InsertReturnUpdated \/ RemoveReturnDone
  PROVE  UNCHANGED inners /\ SameSizes(leaves, leaves') /\ (~IsTelling \/ stack = <<>>)
<1> DEFINE Fine == UNCHANGED inners /\ SameSizes(leaves, leaves') /\ (~IsTelling \/ stack = <<>>)
<1>1. ASSUME UNCHANGED tree, ~IsTelling \/ stack = <<>> PROVE Fine
  BY <1>1 DEF tree, store, SameSizes
<1>2. ASSUME pc \notin {"insert_ascend", "remove_ascend"} PROVE ~IsTelling
  BY <1>2 DEF IsTelling
<1>3. CASE Call /\ ~Clear
  <2>1. pc = "idle"
    BY <1>3 DEF Call, InsertCall, RemoveCall, RemoveByAugmentationCall,
                GetMutByAugmentationCall, GetCached, GetCall, GetMutCached, GetMutCall, Enter
  <2>2. ~IsTelling
    BY <1>2, <2>1
  <2>3. ASSUME NEW k, NEW v, GetMutCached(k, v) PROVE Fine
    BY <2>2, <2>3, WriteBackSizes DEF GetMutCached
  <2>4. (\E k, v : GetMutCached(k, v)) \/ UNCHANGED tree
    BY <1>3 DEF Call, InsertCall, RemoveCall, RemoveByAugmentationCall,
                GetMutByAugmentationCall, GetCached, GetCall, GetMutCall, Enter
  <2> QED
    BY <1>1, <2>2, <2>3, <2>4
<1>4. CASE InsertDescend \/ KeyToRefDescend \/ AugmentationDescend \/ KeyToRefMissing
           \/ AugmentationMissing
  <2>1. pc \in {"insert_inner", "key_to_ref", "get_ref_by_augmentation"} /\ UNCHANGED tree
    BY <1>4 DEF InsertDescend, KeyToRefDescend, AugmentationDescend, KeyToRefMissing,
                AugmentationMissing, AtInner, AtLeaf
  <2> QED
    BY <1>1, <1>2, <2>1
<1>5. CASE FindDescend
  BY <1>1, <1>2, <1>5 DEF FindDescend, AtInner
<1>6. CASE FindInLeaf
  <2>1. pc = "find_descend" /\ UNCHANGED inners
    BY <1>6 DEF FindInLeaf, AtLeaf
  <2>2. WriteBack(node.id, call.k, call.v) \/ UNCHANGED leaves
    BY <1>6 DEF FindInLeaf
  <2>3. SameSizes(leaves, leaves')
    BY <2>2, WriteBackSizes DEF SameSizes
  <2> QED
    BY <1>2, <2>1, <2>3
<1>7. CASE GetMutInLeaf
  <2>1. PICK slot : leaves' = [leaves EXCEPT ![node.id] = SetValue(leaves[node.id], slot, call.v)]
    BY <1>7 DEF GetMutInLeaf
  <2>2. pc = "get_ref_by_augmentation" /\ UNCHANGED inners
    BY <1>7 DEF GetMutInLeaf, AtLeaf
  <2> QED
    BY <1>2, <2>1, <2>2, SetValueSizes
<1>8. CASE InsertLeafUpdate
  <2>1. PICK slot : leaves' = [leaves EXCEPT ![node.id] = SetValue(leaves[node.id], slot, call.v)]
    BY <1>8 DEF InsertLeafUpdate
  <2>2. pc = "insert_inner" /\ UNCHANGED inners
    BY <1>8 DEF InsertLeafUpdate, AtLeaf
  <2> QED
    BY <1>2, <2>1, <2>2, SetValueSizes
<1>9. CASE InsertAscendUpdated \/ InsertReturnUpdated
  <2>1. r.tag = "Updated" /\ UNCHANGED tree
    BY <1>9 DEF InsertAscendUpdated, InsertReturnUpdated, Ascending, AtRoot
  <2> QED
    BY <1>1, <2>1 DEF IsTelling
<1>10. CASE InsertReturnInserted \/ RemoveReturnDone
  <2>1. stack = <<>> /\ UNCHANGED <<leaves, inners>>
    BY <1>10 DEF InsertReturnInserted, RemoveReturnDone, AtRoot, store
  <2> QED
    BY <2>1 DEF SameSizes
<1> QED
  BY <1>3, <1>4, <1>5, <1>6, <1>7, <1>8, <1>9, <1>10 DEF FindStep

\* A step that changes no size outside the ascent.
LEMMA QuietStepCounted ==
  ASSUME NEW h, Good(h), NEW T, InnersFilled(T), Counted(T), NEW g, Good(g)',
         InnersFilled(T)', UNCHANGED inners, SameSizes(leaves, leaves'),
         ~IsTelling \/ stack = <<>>
  PROVE  Counted(T)'
<1>1. StoreOK(leaves', inners, g)
  BY DEF Good
<1> QED
  BY <1>1, SameCounted DEF SameSizes

\* insert_leaf and try_delete_at: the size of the leaf changes, or another takes half.
LEMMA InsertLeafInsertCounted ==
  ASSUME NEW h, Good(h), NEW T, InnersFilled(T), Counted(T), InsertLeafInsert
  PROVE  Counted(T)'
<1>1. /\ pc = "insert_inner" /\ node.kind = "leaf" /\ UNCHANGED <<inners, stack>>
      /\ pc' = "insert_ascend" /\ r' = Inserted
      /\ \E leaf : leaves' = [leaves EXCEPT ![node.id] = leaf]
  BY DEF InsertLeafInsert, AtLeaf
<1>2. node = Current
  BY <1>1 DEF Good, Locals, Descending
<1>3. StoreOK(leaves', inners', h)
  BY InsertLeafInsertOK DEF Good
<1>4. \A l \in DOMAIN leaves : Leaf(l) # Current => Len(leaves'[l].data) = Len(leaves[l].data)
  <2>1. \A l \in DOMAIN leaves : l = node.id => Leaf(l) = node
    BY <1>1, <1>2, CurrentAt, IdKnown DEF Good, IsAt
  <2> QED
    BY <1>1, <1>2, <2>1
<1>5. InnersFilled(T)'
  BY QuietStepFilled
<1>6. IsTelling'
  BY <1>1 DEF IsTelling, Inserted
<1> QED
  BY <1>1, <1>3, <1>4, <1>5, <1>6, LeafCounted

\* A removal from a leaf: its parents are on the stack.
LEMMA RemoveInLeafCounted ==
  ASSUME NEW h, Good(h), NEW T, InnersFilled(T), Counted(T), RemoveInLeaf
  PROVE  Counted(T)'
<1>1. /\ pc \in {"key_to_ref", "get_ref_by_augmentation"} /\ node.kind = "leaf"
      /\ UNCHANGED <<inners, stack>> /\ pc' = "remove_ascend"
      /\ \E slot : DeleteInLeaf(slot)
  BY DEF RemoveInLeaf, AtLeaf
<1>2. node = Current
  BY <1>1 DEF Good, Locals, Descending
<1>3. StoreOK(leaves', inners', h) /\ InnersFilled(T)'
  BY RemoveInLeafOK, QuietStepFilled DEF Good
<1>4. CASE UNCHANGED leaves
  <2>1. ~IsTelling
    BY <1>1 DEF IsTelling
  <2>2. \A l \in DOMAIN leaves : Len(leaves'[l].data) = Len(leaves[l].data)
    BY <1>4
  <2>3. UNCHANGED inners /\ StoreOK(leaves', inners, h)
    BY <1>1, <1>3
  <2> QED
    BY <1>3, <2>1, <2>2, <2>3, SameCounted
<1>5. CASE ~UNCHANGED leaves
  <2>1. /\ \E leaf : leaves' = [leaves EXCEPT ![node.id] = leaf]
        /\ \E kv : r' = Done(kv)
    BY <1>1, <1>5 DEF DeleteInLeaf
  <2>2. \A l \in DOMAIN leaves : Leaf(l) # Current => Len(leaves'[l].data) = Len(leaves[l].data)
    <3>1. \A l \in DOMAIN leaves : l = node.id => Leaf(l) = node
      BY <1>1, <1>2, CurrentAt, IdKnown DEF Good, IsAt
    <3> QED
      BY <1>2, <2>1, <3>1
  <2>3. IsTelling'
    BY <1>1, <2>1 DEF IsTelling, Done
  <2> QED
    BY <1>1, <1>3, <2>2, <2>3, LeafCounted
<1> QED
  BY <1>4, <1>5

\* FixPrev writes no entries.
LEMMA FixPrevSizes ==
  ASSUME NEW L, NEW next, NEW id, NEW l \in DOMAIN L
  PROVE  FixPrev(L, next, id)[l].data = L[l].data
BY DEF FixPrev

\* The split of a leaf: the left half keeps its id, and its parents are on the stack.
LEMMA InsertLeafSplitCounted ==
  ASSUME NEW h, Good(h), NEW T, InnersFilled(T), Counted(T), InsertLeafSplit
  PROVE  Counted(T)'
<1>1. /\ pc = "insert_inner" /\ node.kind = "leaf" /\ UNCHANGED <<inners, stack>>
      /\ pc' = "insert_ascend" /\ \E k, x : r' = Split(k, x)
      /\ \E x, y, next, id : leaves' = FixPrev(Append([leaves EXCEPT ![node.id] = x], y), next, id)
  BY DEF InsertLeafSplit, AtLeaf
<1>2. node = Current
  BY <1>1 DEF Good, Locals, Descending
<1>3. StoreOK(leaves', inners', h)
  BY InsertLeafSplitOK DEF Good
<1>4. \A l \in DOMAIN leaves : Leaf(l) # Current => Len(leaves'[l].data) = Len(leaves[l].data)
  <2> SUFFICES ASSUME NEW l \in DOMAIN leaves, Leaf(l) # Current
               PROVE  leaves'[l].data = leaves[l].data
    OBVIOUS
  <2>1. l # node.id
    BY <1>1, <1>2, CurrentAt, IdKnown DEF Good, IsAt
  <2>2. PICK x, y, next, id :
            leaves' = FixPrev(Append([leaves EXCEPT ![node.id] = x], y), next, id)
    BY <1>1
  <2>3. PICK M : M = Append([leaves EXCEPT ![node.id] = x], y)
    OBVIOUS
  <2>4. leaves \in Seq(LeafRec) /\ DOMAIN leaves = 1 .. Len(leaves) /\ Len(leaves) \in Nat
    BY StoreParts DEF Good
  <2>5. l \in DOMAIN M /\ M[l] = leaves[l]
    BY <2>1, <2>3, <2>4
  <2>6. leaves' = FixPrev(M, next, id)
    BY ONLY <2>2, <2>3
  <2>7. FixPrev(M, next, id)[l].data = M[l].data
    BY ONLY <2>5, FixPrevSizes
  <2> QED
    BY ONLY <2>5, <2>6, <2>7
<1>5. InnersFilled(T)'
  BY InsertLeafSplitFilled
<1>6. IsTelling'
  BY <1>1 DEF IsTelling, Split
<1> QED
  BY <1>1, <1>3, <1>4, <1>5, <1>6, LeafCounted

-----------------------------------------------------------------------------
(* The ascent, one parent at a time                                        *)

\* What lies at a height is a node of the store.
LEMMA AtInIds ==
  ASSUME NEW h, Good(h), NEW d \in Nat, NEW x \in NodesAt(Len(leaves), h, d)
  PROVE  x \in Ids /\ x \in NodeId /\ HeightOf(h, x) = d
<1>1. /\ Len(leaves) \in Nat /\ Len(inners) \in Nat /\ h \in [1 .. Len(inners) -> Nat]
      /\ DOMAIN leaves = 1 .. Len(leaves) /\ DOMAIN inners = 1 .. Len(inners)
  BY StoreParts DEF Good
<1>2. x \in NodeId /\ HeightOf(h, x) = d
  BY <1>1, NodesAtIds
<1>3. x \in Ids
  BY <1>1 DEF NodesAt, Ids
<1> QED
  BY <1>2, <1>3

\* The nodes one level below the parent: a write of the parent does not change them.
LEMMA BelowSame ==
  ASSUME NEW h, Good(h), stack # <<>>, NEW x \in NodesAt(Len(leaves), h, h[Top.id] - 1)
  PROVE  /\ x \in Ids /\ x \in NodeId /\ x # Inner(Top.id)
         /\ AugOf(x) = Counts(leaves, inners)[x]
<1>1. /\ h[Top.id] - 1 \in Nat /\ h[Top.id] \in Nat /\ Top.id \in DOMAIN inners
  BY TopFacts
<1>2. x \in Ids /\ x \in NodeId /\ HeightOf(h, x) = h[Top.id] - 1
  BY <1>1, AtInIds
<1>3. x # Inner(Top.id)
  BY <1>1, <1>2 DEF Inner, HeightOf
<1> QED
  BY <1>2, <1>3 DEF AugOf, Counts

\* A step of the ascent that writes the parent, and of the leaves only its children.
LEMMA WriteParentCounted ==
  ASSUME NEW h, Good(h), NEW T, InnersFilled(T), Counted(T), stack # <<>>, PopStack,
         UNCHANGED root, IsTelling', InnersFilled(T)',
         NEW g, StoreOK(leaves', inners', g),
         NEW z, inners' = [inners EXCEPT ![Top.id] = z],
         Matched(z, Counts(leaves', inners')),
         \A l \in DOMAIN leaves : Leaf(l) \notin KidsOf(inners, Top.id)
                                      => Len(leaves'[l].data) = Len(leaves[l].data)
  PROVE  Counted(T)'
<1>1. /\ Top.id \in T /\ Top.id \in DOMAIN inners /\ T \subseteq DOMAIN inners'
      /\ T \subseteq DOMAIN inners
  BY ParentFacts DEF InnersFilled, Owned
<1>2. PICK D : D = {Top.id}
  OBVIOUS
<1>3. /\ Top.id \in D
      /\ \A i \in T \ D : i \in T /\ inners'[i] = inners[i]
      /\ \A i \in T \cap D : Matched(inners'[i], Counts(leaves', inners'))
  BY <1>1, <1>2
<1>4. \A x \in Ids : x # Inner(Top.id) /\ x \notin KidsOf(inners, Top.id)
          => Counts(leaves', inners')[x] = Counts(leaves, inners)[x]
  <2> SUFFICES ASSUME NEW x \in Ids, x # Inner(Top.id), x \notin KidsOf(inners, Top.id)
               PROVE  Counts(leaves', inners')[x] = Counts(leaves, inners)[x]
    OBVIOUS
  <2>1. CASE x.kind = "inner"
    <3>1. x.id \in DOMAIN inners /\ x = Inner(x.id) /\ x \in NodeId
      BY <2>1, IdsAre
    <3>2. x.id # Top.id
      BY <3>1
    <3>3. inners'[x.id] = inners[x.id]
      BY <3>1, <3>2
    <3> QED
      BY ONLY <2>1, <3>1, <3>3, CountsAre
  <2>2. CASE x.kind # "inner"
    <3>1. x.id \in DOMAIN leaves /\ x = Leaf(x.id) /\ x \in NodeId
      BY <2>2, IdsAre
    <3> QED
      BY <2>2, <3>1, CountsAre
  <2> QED
    BY <2>1, <2>2
<1> QED
  BY ONLY Good(h), InnersFilled(T), Counted(T), stack # <<>>, PopStack, UNCHANGED root,
          IsTelling', StoreOK(leaves', inners', g), <1>1, <1>3, <1>4, AscendCounted

\* The same, with the leaves as they were: the children of the parent have not changed.
LEMMA WriteOnlyParentCounted ==
  ASSUME NEW h, Good(h), NEW T, InnersFilled(T), Counted(T), stack # <<>>, PopStack,
         UNCHANGED <<root, leaves>>, IsTelling', InnersFilled(T)',
         NEW g, StoreOK(leaves', inners', g),
         NEW z, inners' = [inners EXCEPT ![Top.id] = z],
         IsInner(z, Key, NodesAt(Len(leaves), h, h[Top.id] - 1)),
         Matched(z, Counts(leaves, inners))
  PROVE  Counted(T)'
<1>1. \A x \in Range(z.child) : Counts(leaves', inners')[x] = Counts(leaves, inners)[x]
  <2> SUFFICES ASSUME NEW x \in Range(z.child)
               PROVE  Counts(leaves', inners')[x] = Counts(leaves, inners)[x]
    OBVIOUS
  <2>1. x \in NodesAt(Len(leaves), h, h[Top.id] - 1)
    BY InnerParts, ElementOfSeq DEF Range
  <2>2. x \in Ids /\ x \in NodeId /\ x # Inner(Top.id)
    BY <2>1, BelowSame
  <2>3. CASE x.kind = "inner"
    <3>1. x.id \in DOMAIN inners /\ x = Inner(x.id) /\ x.id # Top.id
      BY <2>2, <2>3, IdsAre
    <3>2. inners'[x.id] = inners[x.id]
      BY <3>1
    <3>3. Counts(leaves', inners')[x] = FromInner(inners'[x.id].aug)
      BY ONLY <2>2, <2>3, CountsAre
    <3>4. Counts(leaves, inners)[x] = FromInner(inners[x.id].aug)
      BY ONLY <2>2, <2>3, CountsAre
    <3> QED
      BY ONLY <3>2, <3>3, <3>4
  <2>4. CASE x.kind # "inner"
    BY <2>2, <2>4, CountsAre
  <2> QED
    BY <2>3, <2>4
<1>2. Matched(z, Counts(leaves', inners'))
  BY <1>1, MatchedSame
<1> QED
  BY <1>2, WriteParentCounted

\* What refresh leaves is right: the child that the ascent comes from was all it lacked.
LEMMA RefreshedMatched ==
  ASSUME NEW h, Good(h), NEW T, InnersFilled(T), Counted(T), stack # <<>>
  PROVE  Matched(Refreshed, Counts(leaves, inners))
<1> DEFINE C == NodesAt(Len(leaves), h, h[Top.id] - 1)
           W == Counts(leaves, inners)
           a == AugOf(Top.child)
<1>1. /\ IsInner(Parent, Key, C) /\ Top.idx \in DOMAIN Parent.child
      /\ Top.child = Parent.child[Top.idx]
  BY TopFacts
<1>2. Top.child \in C
  BY <1>1, InnerParts, ElementOfSeq
<1>3. a = W[Parent.child[Top.idx]]
  BY <1>1, <1>2, BelowSame
<1>4. MatchedBut(Parent, {Top.idx}, W)
  BY ParentCounted
<1>5. IsInner(Refreshed, Key, C)
  BY RefreshedOK
<1>6. Refreshed = SetAugmentation(Parent, Top.idx, a)
  BY DEF Refreshed
<1> HIDE DEF C, W, a
<1>7. MatchedBut(SetAugmentation(Parent, Top.idx, a), {Top.idx} \ {Top.idx}, W)
  BY ONLY <1>1, <1>3, <1>4, SetAugmentationMatched
<1> QED
  BY <1>5, <1>6, <1>7, MatchedButNone DEF W

\* The ascent that only refreshes the augmentation of the child.
LEMMA RefreshCounted ==
  ASSUME NEW h, Good(h), NEW T, InnersFilled(T), Counted(T),
         InsertAscendInserted \/ RemoveAscendDone
  PROVE  Counted(T)'
<1>1. /\ stack # <<>> /\ PopStack /\ UNCHANGED <<root, leaves, r, pc>>
      /\ inners' = [inners EXCEPT ![Top.id] = Refreshed]
      /\ pc \in {"insert_ascend", "remove_ascend"} /\ r.tag \in {"Inserted", "Done"}
  BY DEF InsertAscendInserted, RemoveAscendDone, Ascending
<1>2. IsTelling'
  BY <1>1 DEF IsTelling
<1>3. StoreOK(leaves', inners', h)
  BY InsertAscendInsertedOK, RemoveAscendDoneOK DEF Good
<1>4. InnersFilled(T)'
  BY RefreshFilled
<1>5. /\ IsInner(Refreshed, Key, NodesAt(Len(leaves), h, h[Top.id] - 1))
      /\ Matched(Refreshed, Counts(leaves, inners))
  BY <1>1, RefreshedOK, RefreshedMatched
<1> QED
  BY <1>1, <1>2, <1>3, <1>4, <1>5, WriteOnlyParentCounted

\* The ascent that puts the new child into a parent with room.
LEMMA InsertAscendSlotCounted ==
  ASSUME NEW h, Good(h), NEW T, InnersFilled(T), Counted(T), InsertAscendSlot
  PROVE  Counted(T)'
<1> DEFINE C == NodesAt(Len(leaves), h, h[Top.id] - 1)
           W == Counts(leaves, inners)
           a == AugOf(r.right)
           z == InsertSlot(Refreshed, Top.idx, r.k, r.right, a)
<1>1. /\ stack # <<>> /\ PopStack /\ UNCHANGED <<root, leaves, pc>>
      /\ inners' = [inners EXCEPT ![Top.id] = z]
      /\ pc = "insert_ascend" /\ r.tag = "Split" /\ r' = Inserted
  BY DEF InsertAscendSlot, Ascending
<1>2. IsTelling'
  BY <1>1 DEF IsTelling, Inserted
<1>3. StoreOK(leaves', inners', h) /\ InnersFilled(T)'
  BY InsertAscendSlotOK, InsertAscendSlotFilled DEF Good
<1>4. /\ IsInner(Refreshed, Key, C) /\ Matched(Refreshed, W)
      /\ Refreshed.child = Parent.child
  BY <1>1, RefreshedOK, RefreshedMatched
<1>5. r.k \in Key /\ a \in Nat /\ r.right \in C
  BY <1>1, SplitChild
<1>6. a = W[r.right]
  BY <1>1, <1>5, BelowSame
<1>7. Top.idx \in DOMAIN Refreshed.child
  BY <1>1, <1>4, TopFacts
<1>8. Refreshed.child = Parent.child /\ Len(Refreshed.keys) + 1 = Len(Refreshed.child)
  BY <1>4 DEF IsInner
<1>9. Top.idx \in 1 .. Len(Refreshed.keys) + 1
  BY <1>4, <1>7, InnerParts
<1> HIDE DEF C, W, a
<1>10. IsInner(z, Key, C)
  BY ONLY <1>4, <1>5, <1>7, InsertSlotType
<1>11. Matched(z, W)
  BY ONLY <1>4, <1>5, <1>6, <1>7, InsertSlotMatched
<1> HIDE DEF z
<1> QED
  BY <1>1, <1>2, <1>3, <1>10, <1>11, WriteOnlyParentCounted DEF C, W

\* The nodes that a step writes, and the counts of the other ones.
LEMMA CountsKept ==
  ASSUME NEW h, Good(h), NEW x \in Ids,
         x.kind = "inner" => inners'[x.id].aug = inners[x.id].aug,
         x.kind # "inner" => Len(leaves'[x.id].data) = Len(leaves[x.id].data)
  PROVE  Counts(leaves', inners')[x] = Counts(leaves, inners)[x]
<1>1. x \in NodeId
  BY IdsAre
<1> QED
  BY ONLY <1>1, CountsAre, x.kind = "inner" => inners'[x.id].aug = inners[x.id].aug,
          x.kind # "inner" => Len(leaves'[x.id].data) = Len(leaves[x.id].data)

\* The removal of an entry from a leaf that is the root.
LEMMA RemoveReturnLeafCounted ==
  ASSUME NEW h, Good(h), NEW T, InnersFilled(T), Counted(T), RemoveReturnLeafUnderSize
  PROVE  Counted(T)'
<1>1. /\ stack = <<>> /\ UNCHANGED <<inners, root>>
      /\ \E z : leaves' = [leaves EXCEPT ![root.id] = z]
      /\ pc = "remove_ascend" /\ r.tag = "LeafUnderSize"
  BY DEF RemoveReturnLeafUnderSize, AtRoot
<1>2. StoreOK(leaves', inners', h) /\ InnersFilled(T)'
  BY RemoveReturnLeafUnderSizeOK, QuietStepFilled DEF Good
<1>3. T \subseteq DOMAIN inners'
  BY <1>2 DEF InnersFilled, Owned
<1>4. \A i \in T : KidsOf(inners, i) \cap {root} = {}
  BY DEF InnersFilled, Owned, Orphans, KidsOf
<1>5. \A x \in Ids \ {root} : Counts(leaves', inners')[x] = Counts(leaves, inners)[x]
  <2> SUFFICES ASSUME NEW x \in Ids \ {root}
               PROVE  Counts(leaves', inners')[x] = Counts(leaves, inners)[x]
    OBVIOUS
  <2>1. CASE x.kind = "inner"
    BY <1>1, <2>1, CountsKept
  <2>2. CASE x.kind # "inner"
    <3>1. x.id \in DOMAIN leaves /\ x = Leaf(x.id)
      BY <2>2, IdsAre
    <3>2. root.kind = "leaf" /\ root = Leaf(root.id)
      <4>1. Current = root
        BY <1>1 DEF Current, EndOf
      <4>2. Current.kind = "leaf"
        BY <1>1, RemoveFields
      <4> QED
        BY <4>1, <4>2, IdKnown DEF Good, IsAt
    <3>3. x.id # root.id
      BY <3>1, <3>2
    <3>4. leaves'[x.id] = leaves[x.id]
      BY <1>1, <3>1, <3>3
    <3> QED
      BY ONLY Good(h), x \in Ids, <2>2, <3>4, CountsKept
  <2> QED
    BY <2>1, <2>2
<1>6. PICK V, X, D : V = T /\ X = {root} /\ D = {}
  OBVIOUS
<1>7. /\ \A i \in V \ D : i \in T /\ inners'[i] = inners[i]
      /\ \A i \in V \cap D : Matched(inners'[i], Counts(leaves', inners'))
      /\ \A i \in T : KidsOf(inners, i) \cap X = {}
      /\ \A x \in Ids \ X : Counts(leaves', inners')[x] = Counts(leaves, inners)[x]
      /\ V \subseteq DOMAIN inners'
  BY <1>1, <1>3, <1>4, <1>5, <1>6
<1>8. stack = <<>>
  BY <1>1
<1>9. Counted(V)'
  BY ONLY Good(h), InnersFilled(T), Counted(T), <1>2, <1>7, <1>8, QuietCounted
<1> QED
  BY <1>6, <1>9

\* A root that gives way leaves the others as they were.
LEMMA RemoveReturnInnerCounted ==
  ASSUME NEW h, Good(h), NEW T, InnersFilled(T), Counted(T), RemoveReturnInnerUnderSize
  PROVE  \E V : InnersFilled(V)' /\ Counted(V)'
<1>1. /\ stack = <<>> /\ UNCHANGED <<leaves, inners>>
  BY DEF RemoveReturnInnerUnderSize, AtRoot, store
<1>2. PICK V : V \subseteq T /\ InnersFilled(V)'
  BY RemoveReturnInnerFilled
<1>3. StoreOK(leaves', inners', h)
  BY <1>1 DEF Good
<1>4. V \subseteq DOMAIN inners'
  BY <1>2 DEF InnersFilled, Owned
<1>5. PICK X, D : X = {} /\ D = {}
  OBVIOUS
<1>6. /\ \A i \in V \ D : i \in T /\ inners'[i] = inners[i]
      /\ \A i \in V \cap D : Matched(inners'[i], Counts(leaves', inners'))
      /\ \A i \in T : KidsOf(inners, i) \cap X = {}
      /\ \A x \in Ids \ X : Counts(leaves', inners')[x] = Counts(leaves, inners)[x]
  BY <1>1, <1>2, <1>5
<1>7. Counted(V)'
  BY ONLY Good(h), InnersFilled(T), Counted(T), <1>1, <1>3, <1>4, <1>6, QuietCounted
<1> QED
  BY <1>2, <1>7

\* A new root counts the two halves of the old one.
LEMMA InsertReturnSplitCounted ==
  ASSUME NEW h, Good(h), NEW T, InnersFilled(T), Counted(T), InsertReturnSplit
  PROVE  \E V : InnersFilled(V)' /\ Counted(V)'
<1> DEFINE m == Len(inners) + 1
           z == [keys |-> <<r.k>>, child |-> <<root, r.right>>,
                 aug |-> <<AugOf(root), AugOf(r.right)>>]
           W == Counts(leaves, inners)
<1>1. /\ stack = <<>> /\ UNCHANGED leaves /\ inners' = Append(inners, z)
      /\ pc = "insert_ascend" /\ r.tag = "Split"
  BY DEF InsertReturnSplit, AtRoot
<1>2. PICK V : V = T \cup {m} /\ InnersFilled(V)'
  BY InsertReturnSplitFilled
<1>3. PICK g : StoreOK(leaves', inners', g)
  BY InsertReturnSplitOK DEF Good
<1>4. /\ V \subseteq DOMAIN inners' /\ T \subseteq DOMAIN inners
      /\ m \notin DOMAIN inners
  BY <1>2, NewIsFresh DEF InnersFilled, Owned
<1>5. inners \in Seq(InnerRec) /\ DOMAIN inners = 1 .. Len(inners) /\ Len(inners) \in Nat
  BY StoreParts DEF Good, StoreOK
<1> HIDE DEF z
<1>6. /\ inners'[m] = z /\ \A i \in DOMAIN inners : inners'[i] = inners[i]
  BY <1>1, <1>5
<1>7. /\ root \in NodeId /\ r.right \in NodeId
      /\ root \in Ids /\ r.right \in Ids
  <2>1. Current = root
    BY <1>1 DEF Current, EndOf
  <2>2. r.right \in NodesAt(Len(leaves), h, HeightOf(h, Current))
    BY <1>1, SplitFields DEF IsAt
  <2>3. root \in NodesAt(Len(leaves), h, HeightOf(h, root))
    BY DEF Good, IsAt
  <2>4. HeightOf(h, root) \in Nat
    BY <2>3, IdKnown DEF Good
  <2> QED
    BY <2>1, <2>2, <2>3, <2>4, AtInIds
<1>8. \A x \in Ids : Counts(leaves', inners')[x] = W[x]
  <2> SUFFICES ASSUME NEW x \in Ids PROVE Counts(leaves', inners')[x] = Counts(leaves, inners)[x]
    OBVIOUS
  <2>1. x.kind = "inner" => inners'[x.id] = inners[x.id]
    BY <1>6, IdsAre
  <2>2. leaves' = leaves
    BY <1>1
  <2> QED
    BY ONLY Good(h), x \in Ids, <2>1, <2>2, CountsKept
<1>9. AugOf(root) = W[root] /\ AugOf(r.right) = W[r.right]
  BY <1>7 DEF AugOf, Counts
<1>10. Matched(z, Counts(leaves', inners'))
  BY <1>7, <1>8, <1>9 DEF Matched, Along, z
<1> HIDE DEF m, W
<1>11. PICK X, D : X = {} /\ D = {m}
  OBVIOUS
<1>12. /\ \A i \in V \ D : i \in T /\ inners'[i] = inners[i]
       /\ \A i \in V \cap D : Matched(inners'[i], Counts(leaves', inners'))
       /\ \A i \in T : KidsOf(inners, i) \cap X = {}
       /\ \A x \in Ids \ X : Counts(leaves', inners')[x] = Counts(leaves, inners)[x]
  BY <1>2, <1>4, <1>6, <1>8, <1>10, <1>11 DEF W
<1>13. Counted(V)'
  BY ONLY Good(h), InnersFilled(T), Counted(T), <1>1, <1>3, <1>4, <1>12, QuietCounted
<1> QED
  BY <1>2, <1>13

-----------------------------------------------------------------------------
(* Rotations and merges of leaves                                          *)

\* A key of its own does not touch the augmentations.
LEMMA SetKeyMatched ==
  ASSUME NEW K, NEW C, NEW n, IsInner(n, K, C), NEW slot, NEW k, NEW W, NEW X
  PROVE  /\ Matched(n, W) => Matched(SetKey(n, slot, k), W)
         /\ MatchedBut(n, X, W) => MatchedBut(SetKey(n, slot, k), X, W)
<1>1. SetKey(n, slot, k).child = n.child /\ SetKey(n, slot, k).aug = n.aug
  BY DEF SetKey, IsInner
<1> QED
  BY <1>1 DEF Matched, MatchedBut

\* The augmentations of two neighbours are set, those of the others are right.
LEMMA SetTwoMatched ==
  ASSUME NEW K, NEW C, NEW n, IsInner(n, K, C), NEW W, NEW slot \in DOMAIN n.keys,
         MatchedBut(n, {slot, slot + 1}, W), NEW a, NEW b, a \in Nat, b \in Nat,
         a = W[n.child[slot]], b = W[n.child[slot + 1]]
  PROVE  /\ Matched(SetAugmentation(SetAugmentation(n, slot, a), slot + 1, b), W)
         /\ IsInner(SetAugmentation(SetAugmentation(n, slot, a), slot + 1, b), K, C)
<1> DEFINE m == SetAugmentation(n, slot, a)
           z == SetAugmentation(m, slot + 1, b)
<1>1. slot \in DOMAIN n.child /\ slot + 1 \in DOMAIN n.child
  BY InnerParts
<1>2. IsInner(m, K, C) /\ m.child = n.child
  BY <1>1, SetAugmentationType
<1>3. MatchedBut(m, {slot, slot + 1} \ {slot}, W)
  BY <1>1, SetAugmentationMatched
<1>4. slot + 1 \in DOMAIN m.child /\ b = W[m.child[slot + 1]]
  BY <1>1, <1>2
<1> HIDE DEF m
<1>5. IsInner(z, K, C)
  BY <1>2, <1>4, SetAugmentationType
<1>6. PICK X : X = {slot, slot + 1} \ {slot}
  OBVIOUS
<1>7. MatchedBut(z, X \ {slot + 1}, W)
  BY ONLY <1>2, <1>3, <1>4, <1>6, SetAugmentationMatched
<1>8. X \ {slot + 1} = {}
  BY <1>6
<1> HIDE DEF z
<1>9. Matched(z, W)
  BY ONLY <1>5, <1>7, <1>8, MatchedButNone
<1> QED
  BY <1>5, <1>9 DEF z, m

\* The same for a merge of the two, which keeps the left one.
LEMMA MergedParentMatched ==
  ASSUME NEW K, NEW C, IsInner(Parent, K, C), NEW W, NEW slot \in DOMAIN Parent.keys,
         MatchedBut(Parent, {slot, slot + 1}, W), NEW a, a \in Nat,
         a = W[Parent.child[slot]]
  PROVE  Matched(MergedParent(slot, a), W)
<1> DEFINE m == SetAugmentation(Parent, slot, a)
<1>1. slot \in DOMAIN Parent.child
  BY InnerParts
<1>2. IsInner(m, K, C) /\ m.child = Parent.child /\ m.keys = Parent.keys
  BY <1>1, SetAugmentationType
<1>3. MatchedBut(m, {slot, slot + 1} \ {slot}, W)
  BY <1>1, SetAugmentationMatched
<1> HIDE DEF m
<1>4. MatchedBut(m, {slot + 1}, W)
  BY <1>3 DEF MatchedBut
<1>5. Matched(RemoveSlotWithRight(m, slot), W)
  BY <1>2, <1>4, RemoveSlotMatched
<1> QED
  BY <1>5 DEF MergedParent, m

\* When the ascent comes from one of two neighbours, a parent is right about the others.
LEMMA ParentButTwo ==
  ASSUME NEW h, Good(h), NEW T, InnersFilled(T), Counted(T), stack # <<>>,
         NEW slot \in 1 .. Len(Parent.keys), Top.idx \in {slot, slot + 1},
         NEW W, \A j \in DOMAIN Parent.child \ {slot, slot + 1} :
                    W[Parent.child[j]] = Counts(leaves, inners)[Parent.child[j]]
  PROVE  MatchedBut(Parent, {slot, slot + 1}, W)
<1>1. MatchedBut(Parent, {Top.idx}, Counts(leaves, inners))
  BY ParentCounted
<1> QED
  BY <1>1 DEF MatchedBut

\* Two neighbours among leaves: distinct nodes, and the others are other leaves.
LEMMA LeafNeighbours ==
  ASSUME NEW h, Good(h), NEW T, InnersFilled(T), stack # <<>>, Current.kind = "leaf",
         NEW slot \in 1 .. Len(Parent.keys),
         NEW a, a = Parent.child[slot].id, NEW b, b = Parent.child[slot + 1].id
  PROVE  /\ a \in DOMAIN leaves /\ b \in DOMAIN leaves /\ a # b
         /\ Parent.child[slot] = Leaf(a) /\ Parent.child[slot + 1] = Leaf(b)
         /\ Leaf(a) \in KidsOf(inners, Top.id) /\ Leaf(b) \in KidsOf(inners, Top.id)
         /\ \A j \in DOMAIN Parent.child \ {slot, slot + 1} :
                /\ Parent.child[j] \in Ids /\ Parent.child[j].kind = "leaf"
                /\ Parent.child[j].id \notin {a, b}
<1>1. /\ DOMAIN Parent.child = 1 .. Len(Parent.keys) + 1 /\ Len(Parent.keys) \in Nat
      /\ \A c \in 1 .. Len(Parent.keys) + 1 : Parent.child[c] \in KidsOf(inners, Top.id)
      /\ Kids(Parent, KidsOf(inners, Top.id)) /\ Top.id \in DOMAIN inners
  BY ParentFacts, TopFacts DEF InnerSize
<1>2. \A c \in DOMAIN Parent.child :
          /\ Parent.child[c] \in Ids /\ Parent.child[c].kind = "leaf"
          /\ Parent.child[c].id \in DOMAIN leaves /\ Parent.child[c] = Leaf(Parent.child[c].id)
  <2> SUFFICES ASSUME NEW c \in DOMAIN Parent.child
               PROVE  /\ Parent.child[c] \in Ids /\ Parent.child[c].kind = "leaf"
                      /\ Parent.child[c].id \in DOMAIN leaves
                      /\ Parent.child[c] = Leaf(Parent.child[c].id)
    OBVIOUS
  <2>1. c \in 1 .. Len(Parent.keys) + 1 /\ Parent.child[c] \in KidsOf(inners, Top.id)
    BY <1>1
  <2>2. Parent.child[c].kind = "leaf"
    <3>1. h[Top.id] - 1 = 0
      BY TopFacts DEF HeightOf
    <3>2. Parent.child[c] \in NodesAt(Len(leaves), h, 0)
      BY <1>1, <3>1, ChildAt DEF Parent, Good
    <3> QED
      BY <3>2 DEF NodesAt, Leaf
  <2>3. Parent.child[c] \in Ids
    BY <1>1, <2>1, KidInIds
  <2>4. Parent.child[c].id \in DOMAIN leaves /\ Parent.child[c] = Leaf(Parent.child[c].id)
    BY <2>2, <2>3, IdsAre
  <2> QED
    BY <2>2, <2>3, <2>4
<1>3. \A i, j \in DOMAIN Parent.child : Parent.child[i] = Parent.child[j] => i = j
  BY <1>1 DEF Kids, Once, IsInjective
<1>4. slot \in DOMAIN Parent.child /\ slot + 1 \in DOMAIN Parent.child /\ slot # slot + 1
  BY <1>1
<1>5. \A i, j \in DOMAIN Parent.child : Parent.child[i].id = Parent.child[j].id => i = j
  BY <1>2, <1>3
<1> QED
  BY <1>1, <1>2, <1>4, <1>5

\* A rotation between two leaves: the parent takes the counts of both.
LEMMA RotateLeafCounted ==
  ASSUME NEW h, Good(h), NEW T, InnersFilled(T), Counted(T), stack # <<>>, PopStack,
         UNCHANGED root, IsTelling', InnersFilled(T)', Current.kind = "leaf",
         StoreOK(leaves', inners', h),
         NEW slot \in 1 .. Len(Parent.keys), Top.idx \in {slot, slot + 1},
         NEW left, NEW right, NEW k,
         leaves' = [leaves EXCEPT ![Parent.child[slot].id] = left,
                                  ![Parent.child[slot + 1].id] = right],
         inners' = [inners EXCEPT ![Top.id] =
                SetKey(SetAugmentation(
                           SetAugmentation(Parent, slot, FromLeaf(LeafKeys(left))),
                           slot + 1, FromLeaf(LeafKeys(right))),
                       slot, k)]
  PROVE  Counted(T)'
<1>1. PICK a, b : a = Parent.child[slot].id /\ b = Parent.child[slot + 1].id
  OBVIOUS
<1>2. /\ a \in DOMAIN leaves /\ b \in DOMAIN leaves /\ a # b
      /\ Parent.child[slot] = Leaf(a) /\ Parent.child[slot + 1] = Leaf(b)
      /\ Leaf(a) \in KidsOf(inners, Top.id) /\ Leaf(b) \in KidsOf(inners, Top.id)
      /\ \A j \in DOMAIN Parent.child \ {slot, slot + 1} :
             /\ Parent.child[j] \in Ids /\ Parent.child[j].kind = "leaf"
             /\ Parent.child[j].id \notin {a, b}
  BY ONLY Good(h), InnersFilled(T), stack # <<>>, Current.kind = "leaf",
          slot \in 1 .. Len(Parent.keys), <1>1, LeafNeighbours
<1>3. PICK M : M = leaves'
  OBVIOUS
<1>4. /\ M[a] = left /\ M[b] = right
      /\ \A l \in DOMAIN leaves \ {a, b} : M[l] = leaves[l]
      /\ DOMAIN M = DOMAIN leaves
  BY <1>1, <1>2, <1>3
<1>5. PICK W : W = Counts(leaves', inners')
  OBVIOUS
<1>6. \A j \in DOMAIN Parent.child \ {slot, slot + 1} :
          W[Parent.child[j]] = Counts(leaves, inners)[Parent.child[j]]
  <2> SUFFICES ASSUME NEW j \in DOMAIN Parent.child \ {slot, slot + 1}
               PROVE  Counts(leaves', inners')[Parent.child[j]]
                          = Counts(leaves, inners)[Parent.child[j]]
    BY <1>5
  <2>1. PICK x : x = Parent.child[j]
    OBVIOUS
  <2>2. x \in Ids /\ x.kind = "leaf" /\ x.id \notin {a, b}
    BY <1>2, <2>1
  <2>3. x.id \in DOMAIN leaves
    BY <2>2, IdsAre
  <2>4. leaves'[x.id] = leaves[x.id]
    BY ONLY <1>3, <1>4, <2>2, <2>3
  <2>5. Counts(leaves', inners')[x] = Counts(leaves, inners)[x]
    BY ONLY Good(h), <2>2, <2>4, CountsKept
  <2> QED
    BY <2>1, <2>5
<1>7. MatchedBut(Parent, {slot, slot + 1}, W)
  BY ONLY Good(h), InnersFilled(T), Counted(T), stack # <<>>, slot \in 1 .. Len(Parent.keys),
          Top.idx \in {slot, slot + 1}, <1>6, ParentButTwo
<1>8. PICK e, f : e = FromLeaf(LeafKeys(left)) /\ f = FromLeaf(LeafKeys(right))
  OBVIOUS
<1>9. e = W[Leaf(a)] /\ f = W[Leaf(b)]
  <2>1. Leaf(a) \in NodeId /\ Leaf(b) \in NodeId
    BY <1>2, KidInIds, TopFacts
  <2>2. Leaf(a).kind # "inner" /\ Leaf(a).id = a /\ Leaf(b).kind # "inner" /\ Leaf(b).id = b
    BY DEF Leaf
  <2>3. /\ Counts(leaves', inners')[Leaf(a)] = FromLeaf(LeafKeys(leaves'[a]))
        /\ Counts(leaves', inners')[Leaf(b)] = FromLeaf(LeafKeys(leaves'[b]))
    BY ONLY <2>1, <2>2 DEF Counts
  <2> QED
    BY ONLY <1>3, <1>4, <1>5, <1>8, <2>3
<1>10. e \in Nat /\ f \in Nat
  <2>1. M[a] \in LeafOver(Pair) /\ M[b] \in LeafOver(Pair)
    BY <1>2, <1>3, <1>4, StoreParts
  <2> QED
    BY <1>4, <1>8, <2>1, LeafKeysLen DEF FromLeaf
<1>11. IsInner(Parent, Key, NodesAt(Len(leaves), h, h[Top.id] - 1))
       /\ slot \in DOMAIN Parent.keys
  BY TopFacts, InnerParts
<1>12. PICK p : p = SetAugmentation(SetAugmentation(Parent, slot, e), slot + 1, f)
  OBVIOUS
<1>13. Matched(p, W) /\ IsInner(p, Key, NodesAt(Len(leaves), h, h[Top.id] - 1))
  BY ONLY <1>2, <1>7, <1>9, <1>10, <1>11, <1>12, SetTwoMatched
<1>14. Matched(SetKey(p, slot, k), W)
  BY ONLY <1>13, SetKeyMatched
<1>15. inners' = [inners EXCEPT ![Top.id] = SetKey(p, slot, k)]
  BY <1>8, <1>12
<1>16. Matched(SetKey(p, slot, k), Counts(leaves', inners'))
  BY <1>5, <1>14
<1>17. \A l \in DOMAIN leaves : Leaf(l) \notin KidsOf(inners, Top.id)
                                      => Len(leaves'[l].data) = Len(leaves[l].data)
  BY <1>2, <1>3, <1>4
<1> QED
  BY ONLY Good(h), InnersFilled(T), Counted(T), stack # <<>>, PopStack, UNCHANGED root,
          IsTelling', InnersFilled(T)', StoreOK(leaves', inners', h),
          <1>15, <1>16, <1>17, WriteParentCounted

\* The rotation of leaves, from either side.
LEMMA RotateLeavesCounted ==
  ASSUME NEW h, Good(h), NEW T, InnersFilled(T), Counted(T), RotateRightLeaf \/ RotateLeftLeaf
  PROVE  Counted(T)'
<1>1. /\ stack # <<>> /\ PopStack /\ UNCHANGED root
      /\ pc = "remove_ascend" /\ pc' = pc /\ r.tag = "LeafUnderSize"
      /\ \E kv : r' = Done(kv)
  BY DEF RotateRightLeaf, RotateLeftLeaf, Ascending
<1>2. Top.idx \in 1 .. Len(Parent.keys) + 1 /\ Len(Parent.keys) \in Nat
  BY <1>1, TopFacts
<1>3. InnersFilled(T)' /\ StoreOK(leaves', inners', h)
  BY RotateLeavesFilled, RotateRightLeafOK, RotateLeftLeafOK DEF Good
<1>4. IsTelling'
  BY <1>1 DEF IsTelling, Done
<1>5. Current.kind = "leaf"
  BY <1>1, RemoveFields
<1>6. PICK slot : /\ \/ slot = Top.idx - 1 /\ HasPrev
                     \/ slot = Top.idx /\ HasNext
                  /\ \E left, right, k :
                         /\ leaves' = [leaves EXCEPT ![Parent.child[slot].id] = left,
                                                     ![Parent.child[slot + 1].id] = right]
                         /\ inners' = [inners EXCEPT ![Top.id] =
                                SetKey(SetAugmentation(
                                           SetAugmentation(Parent, slot, FromLeaf(LeafKeys(left))),
                                           slot + 1, FromLeaf(LeafKeys(right))),
                                       slot, k)]
  <2>1. CASE RotateRightLeaf
    BY <2>1 DEF RotateRightLeaf, PrevLeafLends
  <2>2. CASE RotateLeftLeaf
    BY <2>2 DEF RotateLeftLeaf, NextLeafLends
  <2> QED
    BY <2>1, <2>2
<1>7. slot \in 1 .. Len(Parent.keys) /\ Top.idx \in {slot, slot + 1}
  BY <1>2, <1>6 DEF HasPrev, HasNext, InnerSize
<1>8. PICK left, right, k :
          /\ leaves' = [leaves EXCEPT ![Parent.child[slot].id] = left,
                                      ![Parent.child[slot + 1].id] = right]
          /\ inners' = [inners EXCEPT ![Top.id] =
                 SetKey(SetAugmentation(
                            SetAugmentation(Parent, slot, FromLeaf(LeafKeys(left))),
                            slot + 1, FromLeaf(LeafKeys(right))),
                        slot, k)]
  BY <1>6
<1>9. stack # <<>> /\ PopStack /\ UNCHANGED root
  BY <1>1
<1> QED
  BY ONLY Good(h), InnersFilled(T), Counted(T), <1>3, <1>4, <1>5, <1>7, <1>8, <1>9,
          RotateLeafCounted

\* A merge of two leaves: the parent takes the count of the one that stays.
LEMMA MergeLeavesCounted ==
  ASSUME NEW h, Good(h), NEW T, InnersFilled(T), Counted(T), stack # <<>>, PopStack,
         UNCHANGED root, IsTelling', InnersFilled(T)', Current.kind = "leaf",
         StoreOK(leaves', inners', h),
         NEW slot \in 1 .. Len(Parent.keys), Top.idx \in {slot, slot + 1},
         NEW left, NEW kv, MergeLeaves(slot, left, kv)
  PROVE  Counted(T)'
<1>1. PICK a, b : a = Parent.child[slot].id /\ b = Parent.child[slot + 1].id
  OBVIOUS
<1>2. /\ a \in DOMAIN leaves /\ b \in DOMAIN leaves /\ a # b
      /\ Parent.child[slot] = Leaf(a) /\ Parent.child[slot + 1] = Leaf(b)
      /\ Leaf(a) \in KidsOf(inners, Top.id) /\ Leaf(b) \in KidsOf(inners, Top.id)
      /\ \A j \in DOMAIN Parent.child \ {slot, slot + 1} :
             /\ Parent.child[j] \in Ids /\ Parent.child[j].kind = "leaf"
             /\ Parent.child[j].id \notin {a, b}
  BY ONLY Good(h), InnersFilled(T), stack # <<>>, Current.kind = "leaf",
          slot \in 1 .. Len(Parent.keys), <1>1, LeafNeighbours
<1>3. PICK M, N : /\ M = leaves' /\ N = [leaves EXCEPT ![a] = left, ![b] = EmptyLeaf]
                  /\ M = FixPrev(N, left.next, a)
  BY <1>1 DEF MergeLeaves
<1>4. /\ N[a] = left /\ \A l \in DOMAIN leaves \ {a, b} : N[l] = leaves[l]
      /\ DOMAIN N = DOMAIN leaves
  BY <1>2, <1>3
<1>5. \A l \in DOMAIN leaves : M[l].data = N[l].data
  <2> SUFFICES ASSUME NEW l \in DOMAIN leaves PROVE M[l].data = N[l].data
    OBVIOUS
  <2>1. PICK next : next = left.next
    OBVIOUS
  <2>2. l \in DOMAIN N /\ M = FixPrev(N, next, a)
    BY ONLY l \in DOMAIN leaves, <1>3, <1>4, <2>1
  <2>3. FixPrev(N, next, a)[l].data = N[l].data
    BY ONLY <2>2, FixPrevSizes
  <2> QED
    BY ONLY <2>2, <2>3
<1>6. PICK W : W = Counts(leaves', inners')
  OBVIOUS
<1>7. \A j \in DOMAIN Parent.child \ {slot, slot + 1} :
          W[Parent.child[j]] = Counts(leaves, inners)[Parent.child[j]]
  <2> SUFFICES ASSUME NEW j \in DOMAIN Parent.child \ {slot, slot + 1}
               PROVE  Counts(leaves', inners')[Parent.child[j]]
                          = Counts(leaves, inners)[Parent.child[j]]
    BY <1>6
  <2>1. PICK x : x = Parent.child[j]
    OBVIOUS
  <2>2. x \in Ids /\ x.kind = "leaf" /\ x.id \notin {a, b}
    BY <1>2, <2>1
  <2>3. x.id \in DOMAIN leaves
    BY <2>2, IdsAre
  <2>4. Len(leaves'[x.id].data) = Len(leaves[x.id].data)
    BY ONLY <1>3, <1>4, <1>5, <2>2, <2>3
  <2>5. Counts(leaves', inners')[x] = Counts(leaves, inners)[x]
    BY ONLY Good(h), <2>2, <2>4, CountsKept
  <2> QED
    BY <2>1, <2>5
<1>8. MatchedBut(Parent, {slot, slot + 1}, W)
  BY ONLY Good(h), InnersFilled(T), Counted(T), stack # <<>>, slot \in 1 .. Len(Parent.keys),
          Top.idx \in {slot, slot + 1}, <1>7, ParentButTwo
<1>9. PICK e : e = FromLeaf(LeafKeys(left))
  OBVIOUS
<1>10. LeafKeys(M[a]) = LeafKeys(left)
  BY <1>2, <1>4, <1>5 DEF LeafKeys
<1>11. e = W[Leaf(a)]
  <2>1. Leaf(a) \in NodeId
    BY <1>2, KidInIds, TopFacts
  <2>2. Leaf(a).kind # "inner" /\ Leaf(a).id = a
    BY DEF Leaf
  <2>3. Counts(leaves', inners')[Leaf(a)] = FromLeaf(LeafKeys(leaves'[a]))
    BY ONLY <2>1, <2>2 DEF Counts
  <2> QED
    BY ONLY <1>3, <1>6, <1>9, <1>10, <2>3
<1>12. e \in Nat
  <2>1. DOMAIN M = DOMAIN leaves
    BY ONLY <1>3, <1>4 DEF FixPrev
  <2>2. M[a] \in LeafOver(Pair)
    BY <1>2, <1>3, <2>1, StoreParts
  <2> QED
    BY <1>9, <1>10, <2>2, LeafKeysLen DEF FromLeaf
<1>13. IsInner(Parent, Key, NodesAt(Len(leaves), h, h[Top.id] - 1))
       /\ slot \in DOMAIN Parent.keys
  BY TopFacts, InnerParts
<1>14. Matched(MergedParent(slot, e), W)
  BY ONLY <1>2, <1>8, <1>11, <1>12, <1>13, MergedParentMatched
<1>15. inners' = [inners EXCEPT ![Top.id] = MergedParent(slot, e)]
  BY <1>9 DEF MergeLeaves
<1>16. Matched(MergedParent(slot, e), Counts(leaves', inners'))
  BY <1>6, <1>14
<1>17. \A l \in DOMAIN leaves : Leaf(l) \notin KidsOf(inners, Top.id)
                                      => Len(leaves'[l].data) = Len(leaves[l].data)
  BY <1>2, <1>3, <1>4, <1>5
<1> QED
  BY ONLY Good(h), InnersFilled(T), Counted(T), stack # <<>>, PopStack, UNCHANGED root,
          IsTelling', InnersFilled(T)', StoreOK(leaves', inners', h),
          <1>15, <1>16, <1>17, WriteParentCounted

\* The merge of leaves, with either neighbour.
LEMMA MergeLeafCounted ==
  ASSUME NEW h, Good(h), NEW T, InnersFilled(T), Counted(T), MergeLeafLeft \/ MergeLeafRight
  PROVE  Counted(T)'
<1>1. /\ stack # <<>> /\ PopStack /\ UNCHANGED root
      /\ pc = "remove_ascend" /\ pc' = pc /\ r.tag = "LeafUnderSize"
  BY DEF MergeLeafLeft, MergeLeafRight, Ascending
<1>2. Top.idx \in 1 .. Len(Parent.keys) + 1 /\ Len(Parent.keys) \in Nat
  BY <1>1, TopFacts
<1>3. InnersFilled(T)' /\ StoreOK(leaves', inners', h)
  BY MergeLeafFilled, MergeLeafLeftOK, MergeLeafRightOK DEF Good
<1>4. PICK slot : /\ \/ slot = Top.idx - 1 /\ HasPrev
                     \/ slot = Top.idx /\ HasNext
                  /\ \E left, kv : MergeLeaves(slot, left, kv)
  BY DEF MergeLeafLeft, MergeLeafRight
<1>5. slot \in 1 .. Len(Parent.keys) /\ Top.idx \in {slot, slot + 1}
  BY <1>2, <1>4 DEF HasPrev, HasNext, InnerSize
<1>6. Current.kind = "leaf"
  BY <1>1, RemoveFields
<1>7. IsTelling'
  BY <1>1, <1>4 DEF IsTelling, MergeLeaves, AfterMerge, Done, InnerUnderSized
<1> QED
  BY ONLY Good(h), InnersFilled(T), Counted(T), <1>1, <1>3, <1>4, <1>5, <1>6, <1>7,
          MergeLeavesCounted

-----------------------------------------------------------------------------
(* Splits, rotations and merges of inner nodes                             *)

\* A node is right for as long as its children are what they were.
LEMMA MatchedKept ==
  ASSUME NEW K, NEW C, NEW n, IsInner(n, K, C), NEW W, Matched(n, W),
         NEW V, \A x \in C : V[x] = W[x]
  PROVE  Matched(n, V)
<1>1. \A x \in Range(n.child) : x \in C
  BY InnerParts, ElementOfSeq DEF Range
<1> QED
  BY <1>1, MatchedSame

\* The ascent that splits a full parent: the new node joins the tree.
LEMMA InsertAscendSplitCounted ==
  ASSUME NEW h, Good(h), NEW T, InnersFilled(T), Counted(T), InsertAscendSplit
  PROVE  \E V : InnersFilled(V)' /\ Counted(V)'
<1> DEFINE t == Top.id
           m == Len(inners) + 1
           s == SplitInner(Refreshed, Top.idx, r.k, r.right, AugOf(r.right))
           C == NodesAt(Len(leaves), h, h[Top.id] - 1)
           W == Counts(leaves, inners)
<1>1. /\ pc = "insert_ascend" /\ stack # <<>> /\ r.tag = "Split" /\ InnerIsFull(Parent)
      /\ inners' = Append([inners EXCEPT ![t] = s.left], s.right)
      /\ r'.tag = "Split" /\ PopStack /\ UNCHANGED <<root, pc, leaves>>
  BY DEF InsertAscendSplit, Ascending, Split
<1>2. r.k \in Key /\ AugOf(r.right) \in Nat /\ r.right \in C
  BY <1>1, SplitChild
<1>3. /\ IsInner(Refreshed, Key, C) /\ Refreshed.keys = Parent.keys
      /\ Refreshed.child = Parent.child /\ Matched(Refreshed, W)
  BY <1>1, RefreshedOK, RefreshedMatched
<1>4. /\ t \in T /\ t \in DOMAIN inners /\ Top.idx \in DOMAIN Parent.child
  BY <1>1, ParentFacts
<1>5. Top.idx \in DOMAIN Refreshed.child /\ Len(Refreshed.keys) = INNER_N
  BY <1>1, <1>3, <1>4 DEF InnerIsFull, InnerSize
<1>6. /\ inners \in Seq(InnerRec) /\ DOMAIN inners = 1 .. Len(inners) /\ Len(inners) \in Nat
  BY StoreParts DEF Good
<1>7. AugOf(r.right) = W[r.right]
  BY <1>1, <1>2, BelowSame
<1> HIDE DEF C, W
<1>8. /\ IsInner(s.left, Key, C) /\ IsInner(s.right, Key, C)
      /\ Matched(s.left, W) /\ Matched(s.right, W)
  <2> DEFINE n == Refreshed
             c == Top.idx
             x == r.right
             a == AugOf(r.right)
             k == r.k
  <2>1. /\ IsInner(n, Key, C) /\ Len(n.keys) = INNER_N /\ Matched(n, W)
        /\ c \in DOMAIN n.child /\ k \in Key /\ x \in C /\ a \in Nat /\ a = W[x]
    BY <1>2, <1>3, <1>5, <1>7
  <2>2. s = SplitInner(n, c, k, x, a)
    OBVIOUS
  <2> HIDE DEF n, c, x, a, k, s
  <2>3. Matched(s.left, W) /\ Matched(s.right, W)
    BY ONLY <2>1, <2>2, SplitInnerMatched
  <2>4. IsInner(s.left, Key, C) /\ IsInner(s.right, Key, C)
    BY ONLY <2>1, <2>2, SplitInnerType
  <2> QED
    BY <2>3, <2>4
<1> HIDE DEF s
<1>9. /\ DOMAIN inners' = DOMAIN inners \cup {m} /\ m \notin DOMAIN inners
      /\ inners'[t] = s.left /\ inners'[m] = s.right
      /\ \A i \in DOMAIN inners \ {t} : inners'[i] = inners[i]
  BY <1>1, <1>4, <1>6
<1>10. PICK V : V = T \cup {m} /\ InnersFilled(V)'
  BY InsertAscendSplitFilled
<1>11. PICK g : StoreOK(leaves', inners', g)
  BY InsertAscendSplitOK DEF Good
<1>12. \A x \in Ids : x # Inner(t) => Counts(leaves', inners')[x] = W[x]
  <2> SUFFICES ASSUME NEW x \in Ids, x # Inner(t)
               PROVE  Counts(leaves', inners')[x] = Counts(leaves, inners)[x]
    BY DEF W
  <2>1. x.kind = "inner" => x.id \in DOMAIN inners /\ x = Inner(x.id)
    BY IdsAre
  <2>2. x.kind = "inner" => inners'[x.id] = inners[x.id]
    BY <1>9, <2>1
  <2>3. leaves' = leaves
    BY <1>1
  <2> QED
    BY ONLY Good(h), x \in Ids, <2>2, <2>3, CountsKept
<1>13. \A x \in C : Counts(leaves', inners')[x] = W[x]
  <2> SUFFICES ASSUME NEW x \in C PROVE Counts(leaves', inners')[x] = W[x]
    OBVIOUS
  <2>1. x \in Ids /\ x # Inner(t)
    BY <1>1, BelowSame DEF C
  <2> QED
    BY <1>12, <2>1
<1>14. Matched(s.left, Counts(leaves', inners')) /\ Matched(s.right, Counts(leaves', inners'))
  <2>1. PICK U : U = Counts(leaves', inners')
    OBVIOUS
  <2>2. \A x \in C : U[x] = W[x]
    BY <1>13, <2>1
  <2>3. Matched(s.left, U) /\ Matched(s.right, U)
    BY ONLY <1>8, <2>2, MatchedKept
  <2> QED
    BY <2>1, <2>3
<1> HIDE DEF m
<1>15. PICK D : D = {t, m}
  OBVIOUS
<1>16. T \subseteq DOMAIN inners /\ V \subseteq DOMAIN inners'
  BY <1>10 DEF InnersFilled, Owned
<1>17. /\ Top.id \in D
       /\ \A i \in V \ D : i \in T /\ inners'[i] = inners[i]
       /\ \A i \in V \cap D : Matched(inners'[i], Counts(leaves', inners'))
       /\ \A x \in Ids : x # Inner(Top.id) /\ x \notin KidsOf(inners, Top.id)
             => Counts(leaves', inners')[x] = Counts(leaves, inners)[x]
  BY <1>9, <1>10, <1>12, <1>14, <1>15, <1>16 DEF W
<1>18. IsTelling'
  BY <1>1 DEF IsTelling
<1>19. stack # <<>> /\ PopStack /\ UNCHANGED root
  BY <1>1
<1>20. Counted(V)'
  BY ONLY Good(h), InnersFilled(T), Counted(T), <1>11, <1>16, <1>17, <1>18, <1>19,
          AscendCounted
<1> QED
  BY <1>10, <1>20

\* Two neighbours among inner nodes: right, distinct, and the others are other nodes.
LEMMA InnerNeighbours ==
  ASSUME NEW h, Good(h), NEW T, InnersFilled(T), Counted(T), stack # <<>>,
         Current.kind = "inner", NEW slot \in 1 .. Len(Parent.keys),
         NEW a, a = Parent.child[slot].id, NEW b, b = Parent.child[slot + 1].id
  PROVE  /\ {a, b} \subseteq T /\ a # b /\ Top.id \notin {a, b}
         /\ Parent.child[slot] = Inner(a) /\ Parent.child[slot + 1] = Inner(b)
         /\ InnerAt(slot) = inners[a] /\ InnerAt(slot + 1) = inners[b]
         /\ Inner(a) \in KidsOf(inners, Top.id) /\ Inner(b) \in KidsOf(inners, Top.id)
         /\ Inner(a) \in NodeId
         /\ Inner(b) \in NodeId
         /\ h[a] = h[Top.id] - 1 /\ h[b] = h[Top.id] - 1 /\ h[Top.id] - 1 - 1 \in Nat
         /\ \A i \in {a, b} :
                /\ IsInner(inners[i], Key, NodesAt(Len(leaves), h, h[Top.id] - 1 - 1))
                /\ Matched(inners[i], Counts(leaves, inners))
         /\ \A j \in DOMAIN Parent.child \ {slot, slot + 1} :
                /\ Parent.child[j] \in Ids /\ Parent.child[j].kind = "inner"
                /\ Parent.child[j].id \notin {a, b, Top.id}
<1>1. /\ DOMAIN Parent.child = 1 .. Len(Parent.keys) + 1 /\ Len(Parent.keys) \in Nat
      /\ \A c \in 1 .. Len(Parent.keys) + 1 : Parent.child[c] \in KidsOf(inners, Top.id)
      /\ Kids(Parent, KidsOf(inners, Top.id)) /\ Top.id \in DOMAIN inners
      /\ h[Top.id] \in Nat
  BY ParentFacts, TopFacts DEF InnerSize
<1>2. slot \in 1 .. Len(Parent.keys) + 1 /\ slot + 1 \in 1 .. Len(Parent.keys) + 1
  BY <1>1
<1>3. ASSUME NEW c \in 1 .. Len(Parent.keys) + 1, NEW i, i = Parent.child[c].id
      PROVE  /\ i \in T /\ i # Top.id /\ Parent.child[c] = Inner(i) /\ InnerAt(c) = inners[i]
             /\ IsInner(inners[i], Key, NodesAt(Len(leaves), h, h[Top.id] - 1 - 1))
             /\ Parent.child[c] \in Ids /\ Parent.child[c] \in NodeId
             /\ h[i] = h[Top.id] - 1
             /\ Matched(inners[i], Counts(leaves, inners))
  <2>1. /\ i \in T /\ i # Top.id /\ Parent.child[c] = Inner(i) /\ InnerAt(c) = inners[i]
        /\ IsInner(inners[i], Key, NodesAt(Len(leaves), h, h[Top.id] - 1 - 1))
    BY <1>3, SiblingFacts
  <2>2. Parent.child[c] \in Ids /\ Parent.child[c] \in NodeId
    BY <1>1, <1>3, KidInIds
  <2>3. h[i] = h[Top.id] - 1
    BY <1>3, InnerSiblings
  <2>4. Matched(inners[i], Counts(leaves, inners))
    BY <1>1, <2>1, <2>3, BelowCounted
  <2> QED
    BY <2>1, <2>2, <2>3, <2>4
<1>4. a # b
  BY TwoSiblings
<1>5. \A i, j \in DOMAIN Parent.child : Parent.child[i] = Parent.child[j] => i = j
  BY <1>1 DEF Kids, Once, IsInjective
<1>6. h[Top.id] - 1 - 1 \in Nat
  <2>1. h[a] \in Nat \ {0}
    <3>1. a \in DOMAIN inners
      BY <1>2, <1>3 DEF InnersFilled, Owned
    <3> QED
      BY <3>1, StoreParts DEF Good
  <2> QED
    BY <1>2, <1>3, <2>1
<1>7. \A j \in DOMAIN Parent.child \ {slot, slot + 1} :
          /\ Parent.child[j] \in Ids /\ Parent.child[j].kind = "inner"
          /\ Parent.child[j].id \notin {a, b, Top.id}
  <2> SUFFICES ASSUME NEW j \in DOMAIN Parent.child \ {slot, slot + 1}
               PROVE  /\ Parent.child[j] \in Ids /\ Parent.child[j].kind = "inner"
                      /\ Parent.child[j].id \notin {a, b, Top.id}
    OBVIOUS
  <2>1. PICK i : i = Parent.child[j].id
    OBVIOUS
  <2>2. Parent.child[j] = Inner(i) /\ Parent.child[j] \in Ids /\ i # Top.id
    BY <1>1, <1>3, <2>1
  <2>3. Parent.child[slot] = Inner(a) /\ Parent.child[slot + 1] = Inner(b)
    BY <1>2, <1>3
  <2>4. i # a /\ i # b
    BY <1>1, <1>2, <1>5, <2>2, <2>3
  <2>5. Inner(i).kind = "inner" /\ Inner(i).id = i
    BY DEF Inner
  <2> QED
    BY ONLY <2>1, <2>2, <2>4, <2>5
<1>8. /\ a \in T /\ a # Top.id /\ Parent.child[slot] = Inner(a) /\ InnerAt(slot) = inners[a]
      /\ IsInner(inners[a], Key, NodesAt(Len(leaves), h, h[Top.id] - 1 - 1))
      /\ Inner(a) \in NodeId /\ Inner(a) \in KidsOf(inners, Top.id) /\ h[a] = h[Top.id] - 1
      /\ Matched(inners[a], Counts(leaves, inners))
  <2>1. Parent.child[slot] \in KidsOf(inners, Top.id)
    BY <1>1, <1>2
  <2> QED
    BY <1>2, <1>3, <2>1
<1>9. /\ b \in T /\ b # Top.id /\ Parent.child[slot + 1] = Inner(b) /\ InnerAt(slot + 1) = inners[b]
      /\ IsInner(inners[b], Key, NodesAt(Len(leaves), h, h[Top.id] - 1 - 1))
      /\ Inner(b) \in NodeId /\ Inner(b) \in KidsOf(inners, Top.id) /\ h[b] = h[Top.id] - 1
      /\ Matched(inners[b], Counts(leaves, inners))
  <2>1. Parent.child[slot + 1] \in KidsOf(inners, Top.id)
    BY <1>1, <1>2
  <2> QED
    BY <1>2, <1>3, <2>1
<1> QED
  BY ONLY <1>4, <1>6, <1>7, <1>8, <1>9

\* What lies below the two neighbours is not touched by a write to them and the parent.
LEMMA TwoBelow ==
  ASSUME NEW h, Good(h), stack # <<>>, h[Top.id] - 1 - 1 \in Nat, UNCHANGED leaves,
         NEW a, NEW b, h[a] = h[Top.id] - 1, h[b] = h[Top.id] - 1,
         \A i \in DOMAIN inners \ {a, b, Top.id} : inners'[i] = inners[i],
         NEW x \in NodesAt(Len(leaves), h, h[Top.id] - 1 - 1)
  PROVE  x \in NodeId /\ Counts(leaves', inners')[x] = Counts(leaves, inners)[x]
<1>1. x \in Ids /\ x \in NodeId /\ HeightOf(h, x) = h[Top.id] - 1 - 1 /\ h[Top.id] \in Nat
  BY AtInIds, TopFacts
<1>2. x.kind = "inner" => x.id \in DOMAIN inners /\ h[x.id] = h[Top.id] - 1 - 1
  BY <1>1, IdsAre DEF HeightOf
<1>3. x.kind = "inner" => inners'[x.id] = inners[x.id]
  BY <1>1, <1>2
<1>4. leaves' = leaves
  OBVIOUS
<1>5. Counts(leaves', inners')[x] = Counts(leaves, inners)[x]
  BY ONLY Good(h), <1>1, <1>3, <1>4, CountsKept
<1> QED
  BY <1>1, <1>5

\* A rotation between two inner nodes: the parent takes the counts of both.
LEMMA RotateInnerCounted ==
  ASSUME NEW h, Good(h), NEW T, InnersFilled(T), Counted(T), stack # <<>>, PopStack,
         UNCHANGED <<root, leaves>>, IsTelling', InnersFilled(T)', Current.kind = "inner",
         StoreOK(leaves', inners', h),
         NEW slot \in 1 .. Len(Parent.keys), Top.idx \in {slot, slot + 1},
         NEW a, a = Parent.child[slot].id, NEW b, b = Parent.child[slot + 1].id,
         NEW x, NEW y, NEW k \in Key,
         IsInner(x, Key, NodesAt(Len(leaves), h, h[Top.id] - 1 - 1)),
         IsInner(y, Key, NodesAt(Len(leaves), h, h[Top.id] - 1 - 1)),
         Matched(x, Counts(leaves, inners)), Matched(y, Counts(leaves, inners)),
         inners' = [inners EXCEPT
                       ![a] = x, ![b] = y,
                       ![Top.id] = SetAugmentation(
                                       SetAugmentation(SetKey(Parent, slot, k),
                                                       slot, FromInner(x.aug)),
                                       slot + 1, FromInner(y.aug))]
  PROVE  Counted(T)'
<1> DEFINE B == NodesAt(Len(leaves), h, h[Top.id] - 1 - 1)
           C == NodesAt(Len(leaves), h, h[Top.id] - 1)
           n == SetKey(Parent, slot, k)
<1>1. /\ {a, b} \subseteq T /\ a # b /\ Top.id \notin {a, b}
      /\ Parent.child[slot] = Inner(a) /\ Parent.child[slot + 1] = Inner(b)
      /\ Inner(a) \in KidsOf(inners, Top.id) /\ Inner(b) \in KidsOf(inners, Top.id)
      /\ Inner(a) \in NodeId
      /\ Inner(b) \in NodeId
      /\ h[a] = h[Top.id] - 1 /\ h[b] = h[Top.id] - 1 /\ h[Top.id] - 1 - 1 \in Nat
      /\ \A j \in DOMAIN Parent.child \ {slot, slot + 1} :
             /\ Parent.child[j] \in Ids /\ Parent.child[j].kind = "inner"
             /\ Parent.child[j].id \notin {a, b, Top.id}
  BY InnerNeighbours
<1>2. /\ Top.id \in T /\ T \subseteq DOMAIN inners /\ T \subseteq DOMAIN inners'
  BY ParentFacts DEF InnersFilled, Owned
<1>3. PICK e, f, z : /\ e = FromInner(x.aug) /\ f = FromInner(y.aug)
                     /\ z = SetAugmentation(SetAugmentation(n, slot, e), slot + 1, f)
  OBVIOUS
<1>4. PICK J : J = inners'
  OBVIOUS
<1>5. /\ J[a] = x /\ J[b] = y /\ J[Top.id] = z
      /\ \A i \in DOMAIN inners \ {a, b, Top.id} : J[i] = inners[i]
  BY <1>1, <1>2, <1>3, <1>4
<1>6. PICK W : W = Counts(leaves', inners')
  OBVIOUS
<1>7. \A u \in B : W[u] = Counts(leaves, inners)[u]
  <2> SUFFICES ASSUME NEW u \in B PROVE W[u] = Counts(leaves, inners)[u]
    OBVIOUS
  <2>1. \A i \in DOMAIN inners \ {a, b, Top.id} : inners'[i] = inners[i]
    BY <1>4, <1>5
  <2>2. stack # <<>> /\ UNCHANGED leaves /\ u \in NodesAt(Len(leaves), h, h[Top.id] - 1 - 1)
    OBVIOUS
  <2>3. Counts(leaves', inners')[u] = Counts(leaves, inners)[u]
    BY ONLY Good(h), <1>1, <2>1, <2>2, TwoBelow
  <2> QED
    BY <1>6, <2>3
<1> HIDE DEF B
<1>8. Matched(x, W) /\ Matched(y, W)
  BY <1>7, MatchedKept DEF B
<1>9. \A u \in Ids : (u.kind = "inner" => u.id \notin {a, b, Top.id})
                         => W[u] = Counts(leaves, inners)[u]
  <2> SUFFICES ASSUME NEW u \in Ids,
                      u.kind = "inner" => u.id \notin {a, b, Top.id}
               PROVE  Counts(leaves', inners')[u] = Counts(leaves, inners)[u]
    BY <1>6
  <2>1. u.kind = "inner" => u.id \in DOMAIN inners
    BY IdsAre
  <2>2. u.kind = "inner" => inners'[u.id] = inners[u.id]
    BY <1>4, <1>5, <2>1
  <2>3. leaves' = leaves
    OBVIOUS
  <2> QED
    BY ONLY Good(h), u \in Ids, <2>2, <2>3, CountsKept
<1>10. \A j \in DOMAIN Parent.child \ {slot, slot + 1} :
           W[Parent.child[j]] = Counts(leaves, inners)[Parent.child[j]]
  BY <1>1, <1>9
<1>11. MatchedBut(Parent, {slot, slot + 1}, W)
  BY ONLY Good(h), InnersFilled(T), Counted(T), stack # <<>>, slot \in 1 .. Len(Parent.keys),
          Top.idx \in {slot, slot + 1}, <1>10, ParentButTwo
<1>12. IsInner(Parent, Key, C) /\ slot \in DOMAIN Parent.keys
  BY TopFacts, InnerParts
<1> HIDE DEF C
<1>13. MatchedBut(n, {slot, slot + 1}, W)
  BY ONLY <1>11, <1>12, SetKeyMatched
<1>14. IsInner(n, Key, C) /\ Len(n.keys) = Len(Parent.keys) /\ n.child = Parent.child
  BY <1>12, SetKeyType
<1>15. slot \in DOMAIN n.keys
  BY <1>12, <1>14, InnerParts
<1>16. e = W[n.child[slot]] /\ f = W[n.child[slot + 1]]
  <2>1. Inner(a).kind = "inner" /\ Inner(a).id = a /\ Inner(b).kind = "inner" /\ Inner(b).id = b
    BY DEF Inner
  <2>2. /\ Counts(leaves', inners')[Inner(a)] = FromInner(inners'[a].aug)
        /\ Counts(leaves', inners')[Inner(b)] = FromInner(inners'[b].aug)
    BY ONLY <1>1, <2>1 DEF Counts
  <2> QED
    BY ONLY <1>1, <1>3, <1>4, <1>5, <1>6, <1>14, <2>2
<1>17. e \in Nat /\ f \in Nat
  BY <1>3, InnerParts, TotalType DEF FromInner
<1> HIDE DEF n
<1>18. Matched(z, W)
  BY ONLY <1>3, <1>13, <1>14, <1>15, <1>16, <1>17, SetTwoMatched
<1>19. PICK D : D = {a, b, Top.id}
  OBVIOUS
<1>20. \A u \in Ids : u # Inner(Top.id) /\ u \notin KidsOf(inners, Top.id)
           => W[u] = Counts(leaves, inners)[u]
  <2> SUFFICES ASSUME NEW u \in Ids, u # Inner(Top.id), u \notin KidsOf(inners, Top.id)
               PROVE  W[u] = Counts(leaves, inners)[u]
    OBVIOUS
  <2>1. u.kind = "inner" => u = Inner(u.id)
    BY IdsAre
  <2>2. u.kind = "inner" => u.id \notin {a, b, Top.id}
    BY <1>1, <2>1
  <2> QED
    BY <1>9, <2>2
<1>21. /\ Top.id \in D
       /\ \A i \in T \ D : i \in T /\ inners'[i] = inners[i]
       /\ \A i \in T \cap D : Matched(inners'[i], Counts(leaves', inners'))
       /\ \A u \in Ids : u # Inner(Top.id) /\ u \notin KidsOf(inners, Top.id)
             => Counts(leaves', inners')[u] = Counts(leaves, inners)[u]
  BY <1>2, <1>4, <1>5, <1>6, <1>8, <1>18, <1>19, <1>20
<1>22. stack # <<>> /\ PopStack /\ UNCHANGED root
  OBVIOUS
<1> QED
  BY ONLY Good(h), InnersFilled(T), Counted(T), StoreOK(leaves', inners', h), IsTelling',
          <1>2, <1>21, <1>22, AscendCounted

\* The last child of the left node moves to the right one, with its count.
LEMMA RotateRightInnerCounted ==
  ASSUME NEW h, Good(h), NEW T, InnersFilled(T), Counted(T), RotateRightInner
  PROVE  Counted(T)'
<1> DEFINE slot  == Top.idx - 1
           prev  == InnerAt(slot)
           left  == PopInner(prev)
           child == prev.child[Len(prev.child)]
           aug   == prev.aug[Len(prev.aug)]
           right == PushFrontInner(InnerAt(slot + 1), Parent.keys[slot], child, aug)
           k     == prev.keys[Len(prev.keys)]
           z     == SetAugmentation(SetAugmentation(SetKey(Parent, slot, k),
                                                    slot, FromInner(left.aug)),
                                    slot + 1, FromInner(right.aug))
           a     == Parent.child[slot].id
           b     == Parent.child[slot + 1].id
           B     == NodesAt(Len(leaves), h, h[Top.id] - 1 - 1)
           W     == Counts(leaves, inners)
<1>1. /\ pc = "remove_ascend" /\ pc' = pc /\ stack # <<>> /\ r.tag = "InnerUnderSize"
      /\ PopStack /\ Top.idx > 1 /\ InnerAbleToLend(prev)
      /\ inners' = [inners EXCEPT ![a] = left, ![b] = right, ![Top.id] = z]
      /\ r'.tag = "Done" /\ UNCHANGED <<root, leaves>>
  BY DEF RotateRightInner, Ascending, PrevInnerLends, HasPrev, Done
<1>2. Current.kind = "inner"
  BY <1>1, RemoveFields
<1>3. /\ Top.idx \in 1 .. Len(Parent.keys) + 1 /\ Len(Parent.keys) \in Nat
      /\ IsInner(Parent, Key, NodesAt(Len(leaves), h, h[Top.id] - 1))
  BY <1>1, TopFacts
<1>4. slot \in 1 .. Len(Parent.keys) /\ Top.idx \in {slot, slot + 1}
  BY <1>1, <1>3
<1>5. InnersFilled(T)' /\ StoreOK(leaves', inners', h)
  BY RotateRightInnerFilled, RotateRightInnerOK DEF Good
<1>6. IsTelling'
  BY <1>1 DEF IsTelling
<1> HIDE DEF slot
<1>7. /\ a \in T /\ prev = inners[a] /\ InnerAt(slot + 1) = inners[b] /\ Inner(a) # root
      /\ \A i \in {a, b} : IsInner(inners[i], Key, B) /\ Matched(inners[i], W)
  <2>1. slot \in 1 .. Len(Parent.keys) + 1
    BY <1>3, <1>4
  <2>2. Inner(a) # root
    BY <1>1, <1>2, <2>1, SiblingFacts
  <2> QED
    BY <1>1, <1>2, <1>4, <2>2, InnerNeighbours
<1>8. Parent.keys[slot] \in Key
  BY <1>3, <1>4, InnerParts, ElementOfSeq
<1>9. Len(prev.keys) > 0
  <2>1. InnerSize(inners[a]) \in Nat
    BY <1>7 DEF IsInner, InnerSize
  <2> QED
    BY <1>1, <1>7, <2>1, LendAndBorrow
<1> HIDE DEF prev, a, b, B, W
<1>10. /\ IsInner(prev, Key, B) /\ Matched(prev, W) /\ IsInner(inners[b], Key, B)
       /\ Matched(inners[b], W)
  BY <1>7
<1>11. /\ prev.child \in Seq(B) /\ prev.aug \in Seq(Nat) /\ prev.keys \in Seq(Key)
       /\ Len(prev.child) > 0 /\ Len(prev.aug) > 0 /\ Len(prev.child) = Len(prev.aug)
       /\ Len(prev.keys) > 0
  BY <1>9, <1>10, InnerParts DEF IsInner
<1>12. child \in B /\ aug \in Nat /\ k \in Key
  BY <1>11, EndsType
<1>13. aug = W[child]
  <2>1. Len(prev.child) \in DOMAIN prev.child
    BY <1>11, LenProperties
  <2> QED
    BY <1>10, <1>11, <2>1, MatchedIs
<1>14. IsInner(left, Key, B) /\ Matched(left, W)
  BY <1>9, <1>10, PopInnerType, PopInnerMatched
<1> HIDE DEF child, aug, left, k
<1>15. IsInner(right, Key, B) /\ Matched(right, W)
  <2> DEFINE y == inners[b]
             s == Parent.keys[slot]
  <2>1. right = PushFrontInner(y, s, child, aug)
    BY <1>7
  <2>2. IsInner(y, Key, B) /\ Matched(y, W) /\ s \in Key
    BY <1>8, <1>10
  <2> HIDE DEF y, s, right
  <2>3. Matched(right, W)
    BY ONLY <1>12, <1>13, <2>1, <2>2, PushInnerMatched
  <2>4. IsInner(right, Key, B)
    BY ONLY <1>12, <2>1, <2>2, PushInnerType
  <2> QED
    BY <2>3, <2>4
<1> HIDE DEF right
<1>16. a = Parent.child[slot].id /\ b = Parent.child[slot + 1].id
  BY DEF a, b
<1>17. stack # <<>> /\ PopStack /\ UNCHANGED <<root, leaves>>
  BY <1>1
<1>18. inners' = [inners EXCEPT ![a] = left, ![b] = right, ![Top.id] = z]
  BY <1>1
<1> QED
  BY ONLY Good(h), InnersFilled(T), Counted(T), <1>2, <1>4, <1>5, <1>6, <1>12, <1>14, <1>15,
          <1>16, <1>17, <1>18, RotateInnerCounted DEF B, W

\* The first child of the right node moves to the left one, with its count.
LEMMA RotateLeftInnerCounted ==
  ASSUME NEW h, Good(h), NEW T, InnersFilled(T), Counted(T), RotateLeftInner
  PROVE  Counted(T)'
<1> DEFINE slot  == Top.idx
           next  == InnerAt(slot + 1)
           right == PopFrontInner(next)
           child == next.child[1]
           aug   == next.aug[1]
           left  == PushInner(InnerAt(slot), Parent.keys[slot], child, aug)
           k     == next.keys[1]
           z     == SetAugmentation(SetAugmentation(SetKey(Parent, slot, k),
                                                    slot, FromInner(left.aug)),
                                    slot + 1, FromInner(right.aug))
           a     == Parent.child[slot].id
           b     == Parent.child[slot + 1].id
           B     == NodesAt(Len(leaves), h, h[Top.id] - 1 - 1)
           W     == Counts(leaves, inners)
<1>1. /\ pc = "remove_ascend" /\ pc' = pc /\ stack # <<>> /\ r.tag = "InnerUnderSize"
      /\ PopStack /\ Top.idx <= Len(Parent.keys) /\ InnerAbleToLend(next)
      /\ inners' = [inners EXCEPT ![a] = left, ![b] = right, ![Top.id] = z]
      /\ r'.tag = "Done" /\ UNCHANGED <<root, leaves>>
  BY DEF RotateLeftInner, Ascending, NextInnerLends, HasNext, InnerSize, Done
<1>2. Current.kind = "inner"
  BY <1>1, RemoveFields
<1>3. /\ Top.idx \in 1 .. Len(Parent.keys) + 1 /\ Len(Parent.keys) \in Nat
      /\ IsInner(Parent, Key, NodesAt(Len(leaves), h, h[Top.id] - 1))
  BY <1>1, TopFacts
<1>4. slot \in 1 .. Len(Parent.keys) /\ Top.idx \in {slot, slot + 1}
  BY <1>1, <1>3
<1>5. InnersFilled(T)' /\ StoreOK(leaves', inners', h)
  BY RotateLeftInnerFilled, RotateLeftInnerOK DEF Good
<1>6. IsTelling'
  BY <1>1 DEF IsTelling
<1> HIDE DEF slot
<1>7. /\ b \in T /\ next = inners[b] /\ InnerAt(slot) = inners[a] /\ Inner(b) # root
      /\ \A i \in {a, b} : IsInner(inners[i], Key, B) /\ Matched(inners[i], W)
  <2>1. slot + 1 \in 1 .. Len(Parent.keys) + 1
    BY <1>3, <1>4
  <2>2. Inner(b) # root
    BY <1>1, <1>2, <2>1, SiblingFacts
  <2> QED
    BY <1>1, <1>2, <1>4, <2>2, InnerNeighbours
<1>8. Parent.keys[slot] \in Key
  BY <1>3, <1>4, InnerParts, ElementOfSeq
<1>9. Len(next.keys) > 0
  <2>1. InnerSize(inners[b]) \in Nat
    BY <1>7 DEF IsInner, InnerSize
  <2> QED
    BY <1>1, <1>7, <2>1, LendAndBorrow
<1> HIDE DEF next, a, b, B, W
<1>10. /\ IsInner(next, Key, B) /\ Matched(next, W) /\ IsInner(inners[a], Key, B)
       /\ Matched(inners[a], W)
  BY <1>7
<1>11. /\ next.child \in Seq(B) /\ next.aug \in Seq(Nat) /\ next.keys \in Seq(Key)
       /\ Len(next.child) > 0 /\ Len(next.aug) > 0 /\ Len(next.child) = Len(next.aug)
       /\ Len(next.keys) > 0
  BY <1>9, <1>10, InnerParts DEF IsInner
<1>12. child \in B /\ aug \in Nat /\ k \in Key
  BY <1>11, EndsType
<1>13. aug = W[child]
  <2>1. 1 \in DOMAIN next.child
    BY <1>11, LenProperties
  <2> QED
    BY <1>10, <1>11, <2>1, MatchedIs
<1>14. IsInner(right, Key, B) /\ Matched(right, W)
  BY <1>9, <1>10, PopInnerType, PopInnerMatched
<1> HIDE DEF child, aug, right, k
<1>15. IsInner(left, Key, B) /\ Matched(left, W)
  <2> DEFINE x == inners[a]
             s == Parent.keys[slot]
  <2>1. left = PushInner(x, s, child, aug)
    BY <1>7
  <2>2. IsInner(x, Key, B) /\ Matched(x, W) /\ s \in Key
    BY <1>8, <1>10
  <2> HIDE DEF x, s, left
  <2>3. Matched(left, W)
    BY ONLY <1>12, <1>13, <2>1, <2>2, PushInnerMatched
  <2>4. IsInner(left, Key, B)
    BY ONLY <1>12, <2>1, <2>2, PushInnerType
  <2> QED
    BY <2>3, <2>4
<1> HIDE DEF left
<1>16. a = Parent.child[slot].id /\ b = Parent.child[slot + 1].id
  BY DEF a, b
<1>17. stack # <<>> /\ PopStack /\ UNCHANGED <<root, leaves>>
  BY <1>1
<1>18. inners' = [inners EXCEPT ![a] = left, ![b] = right, ![Top.id] = z]
  BY <1>1
<1> QED
  BY ONLY Good(h), InnersFilled(T), Counted(T), <1>2, <1>4, <1>5, <1>6, <1>12, <1>14, <1>15,
          <1>16, <1>17, <1>18, RotateInnerCounted DEF B, W

\* A merge of two inner nodes: the parent takes the count of the one that stays.
LEMMA MergeInnerCounted ==
  ASSUME NEW h, Good(h), NEW T, InnersFilled(T), Counted(T), MergeInner
  PROVE  \E V : InnersFilled(V)' /\ Counted(V)'
<1> DEFINE slot == IF HasPrev THEN Top.idx - 1 ELSE Top.idx
           left == MergeNext(InnerAt(slot), Parent.keys[slot], InnerAt(slot + 1))
           p    == MergedParent(slot, FromInner(left.aug))
           a    == Parent.child[slot].id
           b    == Parent.child[slot + 1].id
           B    == NodesAt(Len(leaves), h, h[Top.id] - 1 - 1)
           W    == Counts(leaves, inners)
<1>1. /\ pc = "remove_ascend" /\ pc' = pc /\ stack # <<>> /\ r.tag = "InnerUnderSize"
      /\ PopStack /\ (HasPrev \/ HasNext)
      /\ inners' = [inners EXCEPT ![a] = left, ![Top.id] = p]
      /\ r' = AfterMerge(p, r.kv) /\ UNCHANGED <<root, leaves>>
  BY DEF MergeInner, Ascending
<1>2. Current.kind = "inner"
  BY <1>1, RemoveFields
<1>3. Top.idx \in 1 .. Len(Parent.keys) + 1 /\ Len(Parent.keys) \in Nat
  BY <1>1, TopFacts
<1>4. slot \in 1 .. Len(Parent.keys) /\ Top.idx \in {slot, slot + 1}
  BY <1>1, <1>3 DEF HasPrev, HasNext, InnerSize
<1>5. StoreOK(leaves', inners', h)
  BY MergeInnerOK DEF Good
<1>6. IsTelling'
  BY <1>1 DEF IsTelling, AfterMerge, Done, InnerUnderSized
<1>7. PICK V : V = T \ {b} /\ InnersFilled(V)'
  BY MergeInnerFilled
<1> HIDE DEF slot
<1>8. /\ {a, b} \subseteq T /\ a # b /\ Top.id \notin {a, b}
      /\ Parent.child[slot] = Inner(a) /\ Parent.child[slot + 1] = Inner(b)
      /\ InnerAt(slot) = inners[a] /\ InnerAt(slot + 1) = inners[b]
      /\ Inner(a) \in KidsOf(inners, Top.id) /\ Inner(b) \in KidsOf(inners, Top.id)
      /\ Inner(a) \in NodeId
      /\ h[a] = h[Top.id] - 1 /\ h[b] = h[Top.id] - 1 /\ h[Top.id] - 1 - 1 \in Nat
      /\ \A i \in {a, b} : IsInner(inners[i], Key, B) /\ Matched(inners[i], W)
      /\ \A j \in DOMAIN Parent.child \ {slot, slot + 1} :
             /\ Parent.child[j] \in Ids /\ Parent.child[j].kind = "inner"
             /\ Parent.child[j].id \notin {a, b, Top.id}
  BY <1>1, <1>2, <1>4, InnerNeighbours
<1>9. Top.id \in T /\ T \subseteq DOMAIN inners /\ V \subseteq DOMAIN inners'
  BY <1>1, <1>7, ParentFacts DEF InnersFilled, Owned
<1>10. /\ IsInner(Parent, Key, NodesAt(Len(leaves), h, h[Top.id] - 1))
       /\ slot \in DOMAIN Parent.keys
  BY <1>1, <1>4, TopFacts, InnerParts
<1>11. Parent.keys[slot] \in Key
  BY <1>10, InnerParts, ElementOfSeq
<1> HIDE DEF a, b, B, W
<1>12. IsInner(left, Key, B) /\ Matched(left, W)
  <2> DEFINE x == inners[a]
             y == inners[b]
             k == Parent.keys[slot]
  <2>1. /\ IsInner(x, Key, B) /\ IsInner(y, Key, B) /\ k \in Key
        /\ Matched(x, W) /\ Matched(y, W)
    BY <1>8, <1>11
  <2>2. left = MergeNext(x, k, y)
    BY <1>8
  <2> HIDE DEF x, y, k, left
  <2>3. Matched(left, W)
    BY ONLY <2>1, <2>2, MergeNextMatched
  <2>4. IsInner(left, Key, B)
    BY ONLY <2>1, <2>2, MergeNextType
  <2> QED
    BY <2>3, <2>4
<1> HIDE DEF left, p
<1>13. PICK J : J = inners'
  OBVIOUS
<1>14. /\ J[a] = left /\ J[Top.id] = p
       /\ \A i \in DOMAIN inners \ {a, Top.id} : J[i] = inners[i]
  BY <1>1, <1>8, <1>9, <1>13
<1>15. PICK U : U = Counts(leaves', inners')
  OBVIOUS
<1>16. \A u \in B : U[u] = W[u]
  <2> SUFFICES ASSUME NEW u \in B PROVE U[u] = W[u]
    OBVIOUS
  <2>1. \A i \in DOMAIN inners \ {a, b, Top.id} : inners'[i] = inners[i]
    BY <1>13, <1>14
  <2>2. stack # <<>> /\ UNCHANGED leaves /\ u \in NodesAt(Len(leaves), h, h[Top.id] - 1 - 1)
    BY <1>1 DEF B
  <2>3. Counts(leaves', inners')[u] = Counts(leaves, inners)[u]
    BY ONLY Good(h), <1>8, <2>1, <2>2, TwoBelow
  <2> QED
    BY <1>15, <2>3 DEF W
<1>17. Matched(left, U)
  BY <1>12, <1>16, MatchedKept
<1>18. \A u \in Ids : (u.kind = "inner" => u.id \notin {a, Top.id})
                         => U[u] = W[u]
  <2> SUFFICES ASSUME NEW u \in Ids,
                      u.kind = "inner" => u.id \notin {a, Top.id}
               PROVE  Counts(leaves', inners')[u] = Counts(leaves, inners)[u]
    BY <1>15 DEF W
  <2>1. u.kind = "inner" => u.id \in DOMAIN inners
    BY IdsAre
  <2>2. u.kind = "inner" => inners'[u.id] = inners[u.id]
    BY <1>13, <1>14, <2>1
  <2>3. leaves' = leaves
    BY <1>1
  <2> QED
    BY ONLY Good(h), u \in Ids, <2>2, <2>3, CountsKept
<1>19. \A j \in DOMAIN Parent.child \ {slot, slot + 1} :
           U[Parent.child[j]] = Counts(leaves, inners)[Parent.child[j]]
  BY <1>8, <1>18 DEF W
<1>20. MatchedBut(Parent, {slot, slot + 1}, U)
  BY ONLY Good(h), InnersFilled(T), Counted(T), <1>1, <1>4, <1>19, ParentButTwo
<1>21. PICK e : e = FromInner(left.aug)
  OBVIOUS
<1>22. e \in Nat /\ e = U[Parent.child[slot]]
  <2>1. Inner(a).kind = "inner" /\ Inner(a).id = a
    BY DEF Inner
  <2>2. Counts(leaves', inners')[Inner(a)] = FromInner(inners'[a].aug)
    BY ONLY <1>8, <2>1 DEF Counts
  <2>3. FromInner(left.aug) \in Nat
    BY <1>12, InnerParts, TotalType DEF FromInner
  <2> QED
    BY ONLY <1>8, <1>13, <1>14, <1>15, <1>21, <2>2, <2>3
<1>23. p = MergedParent(slot, e)
  BY <1>21 DEF p
<1>24. Matched(p, U)
  BY ONLY <1>10, <1>20, <1>22, <1>23, MergedParentMatched
<1>25. PICK D : D = {a, Top.id}
  OBVIOUS
<1>26. \A u \in Ids : u # Inner(Top.id) /\ u \notin KidsOf(inners, Top.id) => U[u] = W[u]
  <2> SUFFICES ASSUME NEW u \in Ids, u # Inner(Top.id), u \notin KidsOf(inners, Top.id)
               PROVE  U[u] = W[u]
    OBVIOUS
  <2>1. u.kind = "inner" => u = Inner(u.id)
    BY IdsAre
  <2>2. u.kind = "inner" => u.id \notin {a, Top.id}
    BY <1>8, <2>1
  <2> QED
    BY <1>18, <2>2
<1>27. /\ Top.id \in D
       /\ \A i \in V \ D : i \in T /\ inners'[i] = inners[i]
       /\ \A i \in V \cap D : Matched(inners'[i], Counts(leaves', inners'))
       /\ \A u \in Ids : u # Inner(Top.id) /\ u \notin KidsOf(inners, Top.id)
             => Counts(leaves', inners')[u] = Counts(leaves, inners)[u]
  BY <1>7, <1>9, <1>13, <1>14, <1>15, <1>17, <1>24, <1>25, <1>26 DEF W
<1>28. stack # <<>> /\ PopStack /\ UNCHANGED root
  BY <1>1
<1>29. Counted(V)'
  BY ONLY Good(h), InnersFilled(T), Counted(T), <1>5, <1>6, <1>9, <1>27, <1>28,
          AscendCounted
<1> QED
  BY <1>7, <1>29

-----------------------------------------------------------------------------
(* The theorem                                                             *)

\* Each step leads from right augmentations to right ones.
LEMMA StepCounted ==
  ASSUME NEW h, Good(h), NEW T, InnersFilled(T), Counted(T), [Next]_vars
  PROVE  \E V : InnersFilled(V)' /\ Counted(V)'
<1>1. PICK g : Good(g)'
  BY StepOK
<1>2. CASE \/ Call /\ ~Clear
           \/ InsertDescend \/ KeyToRefDescend \/ AugmentationDescend \/ KeyToRefMissing
           \/ AugmentationMissing \/ FindStep
           \/ InsertLeafUpdate \/ InsertAscendUpdated
           \/ InsertReturnInserted \/ InsertReturnUpdated \/ RemoveReturnDone
  <2>1. UNCHANGED inners /\ SameSizes(leaves, leaves') /\ (~IsTelling \/ stack = <<>>)
    BY <1>2, QuietSizes
  <2>2. InnersFilled(T)' \/ InnersFilled({})'
    BY <1>2, CallFilled, DescentFilled, QuietStepFilled
  <2>3. CASE InnersFilled(T)'
    BY <1>1, <2>1, <2>3, QuietStepCounted
  <2>4. CASE InnersFilled({})'
    BY <2>4 DEF Counted
  <2> QED
    BY <2>2, <2>3, <2>4
<1>3. CASE Clear
  <2>1. InnersFilled(T)' \/ InnersFilled({})'
    BY <1>3, CallFilled DEF Call
  <2>2. leaves' = <<EmptyLeaf>> /\ inners' = <<>>
    BY <1>3 DEF Clear
  <2>3. CASE InnersFilled(T)'
    <3>1. T \subseteq DOMAIN inners'
      BY <2>3 DEF InnersFilled, Owned
    <3>2. DOMAIN inners' = {}
      BY <2>2
    <3>3. Counted(T)'
      BY <3>1, <3>2 DEF Counted
    <3> QED
      BY <2>3, <3>3
  <2>4. CASE InnersFilled({})'
    BY <2>4 DEF Counted
  <2> QED
    BY <2>1, <2>3, <2>4
<1>4. CASE InsertStep
  <2>1. CASE InsertLeafInsert \/ InsertLeafSplit
    BY <2>1, InsertLeafInsertCounted, InsertLeafSplitCounted, QuietStepFilled,
       InsertLeafSplitFilled
  <2>2. CASE InsertAscendSlot
    BY <2>2, InsertAscendSlotCounted, InsertAscendSlotFilled
  <2>3. CASE InsertAscendSplit
    BY <2>3, InsertAscendSplitCounted
  <2>4. CASE InsertAscendInserted
    BY <2>4, RefreshCounted, RefreshFilled
  <2>5. CASE InsertReturnSplit
    BY <2>5, InsertReturnSplitCounted
  <2> QED
    BY <1>2, <1>4, <2>1, <2>2, <2>3, <2>4, <2>5 DEF InsertStep
<1>5. CASE RemoveStep
  <2>1. CASE RemoveInLeaf \/ RemoveReturnLeafUnderSize
    BY <2>1, RemoveInLeafCounted, RemoveReturnLeafCounted, QuietStepFilled
  <2>2. CASE RemoveAscendDone
    BY <2>2, RefreshCounted, RefreshFilled
  <2>3. CASE RotateRightInner
    BY <2>3, RotateRightInnerCounted, RotateRightInnerFilled
  <2>4. CASE RotateLeftInner
    BY <2>4, RotateLeftInnerCounted, RotateLeftInnerFilled
  <2>5. CASE MergeInner
    BY <2>5, MergeInnerCounted
  <2>6. CASE RotateRightLeaf \/ RotateLeftLeaf
    BY <2>6, RotateLeavesCounted, RotateLeavesFilled
  <2>7. CASE MergeLeafLeft \/ MergeLeafRight
    BY <2>7, MergeLeafCounted, MergeLeafFilled
  <2>8. CASE RemoveReturnInnerUnderSize
    BY <2>8, RemoveReturnInnerCounted
  <2> QED
    BY <1>2, <1>5, <2>1, <2>2, <2>3, <2>4, <2>5, <2>6, <2>7, <2>8 DEF RemoveStep
<1>6. CASE UNCHANGED vars
  <2>1. UNCHANGED <<root, leaves, inners, pc, stack, r>>
    BY <1>6 DEF vars, tree, frame, store
  <2>2. Orphans' = Orphans /\ Current' = Current
    BY <2>1 DEF Orphans, Current, IsSplit
  <2>3. \A i : LeastKeys(i)' = LeastKeys(i)
    BY <2>1, <2>2 DEF LeastKeys, IsReported
  <2>4. InnersFilled(T)'
    BY <2>1, <2>2, <2>3 DEF InnersFilled, InnerSize, IsSplit
  <2>5. Counted(T)'
    BY <2>1 DEF Counted, IsTelling, AugOf
  <2> QED
    BY <2>4, <2>5
<1> QED
  BY <1>2, <1>3, <1>4, <1>5, <1>6 DEF Next, Step

\* A set of nodes closed under the children holds every node of the tree.
LEMMA ReachableIn ==
  ASSUME NEW h, Good(h), NEW S, root \in S,
         \A x \in S : x.kind = "inner" => inners[x.id].child \in Seq(S)
  PROVE  \A x \in Reachable : x \in S
<1>1. PICK n \in Nat : n = Len(inners)
  BY LenProperties DEF Good, StoreOK
<1>2. PICK level : level = Level
  OBVIOUS
<1>3. IsLevel(level, n)
  BY <1>1, <1>2, LevelIs
<1>4. ASSUME NEW s \in Seq(S) PROVE Below(s) \in Seq(S)
  <2>1. \A i \in DOMAIN s :
            (IF s[i].kind = "inner" THEN inners[s[i].id].child ELSE <<s[i]>>) \in Seq(S)
    <3>1. \A i \in DOMAIN s : s[i] \in S
      OBVIOUS
    <3> QED
      BY <3>1
  <2> DEFINE t == [i \in DOMAIN s |->
                     IF s[i].kind = "inner" THEN inners[s[i].id].child ELSE <<s[i]>>]
  <2>2. DOMAIN s = 1 .. Len(s) /\ Len(s) \in Nat
    OBVIOUS
  <2>3. DOMAIN t = 1 .. Len(s) /\ \A i \in 1 .. Len(s) : t[i] \in Seq(S)
    BY <2>1, <2>2
  <2>4. t = [i \in 1 .. Len(s) |-> t[i]]
    BY <2>2
  <2> HIDE DEF t
  <2>5. t \in Seq(Seq(S))
    BY <2>2, <2>3, <2>4, IsASeq
  <2>6. Below(s) = FlattenSeq(t)
    BY DEF Below, t
  <2> QED
    BY <2>5, <2>6, FlattenType
<1> DEFINE A == {d \in 0 .. n : level[d] \in Seq(S)}
<1>5. 0 \in A
  BY <1>3 DEF IsLevel
<1>6. ASSUME NEW d \in 1 .. n, d - 1 \in A PROVE d \in A
  <2>1. level[d] = Below(level[d - 1])
    BY <1>3 DEF IsLevel
  <2>2. level[d - 1] \in Seq(S)
    BY <1>6
  <2> QED
    BY <1>4, <2>1, <2>2
<1>7. 0 .. n \subseteq A
  <2> HIDE DEF A
  <2> QED
    BY <1>5, <1>6, CountUp
<1>8. ASSUME NEW d \in DOMAIN level, NEW x \in ToSet(level[d]) PROVE x \in S
  <2>1. level[d] \in Seq(S)
    BY <1>3, <1>7 DEF IsLevel
  <2> QED
    BY <1>8, <2>1 DEF ToSet
<1> QED
  BY <1>2, <1>8 DEF Reachable

\* The inner nodes of the tree are of those that it owns.
LEMMA InnerOfTreeOwned ==
  ASSUME NEW h, Good(h), NEW T, InnersFilled(T)
  PROVE  InnerOfTree \subseteq T
<1> DEFINE S == {x \in NodeId : x.kind = "inner" => x.id \in T}
<1>1. root \in S
  BY DEF InnersFilled, Owned, Orphans, Good, Scalars
<1>2. ASSUME NEW x \in S, x.kind = "inner" PROVE inners[x.id].child \in Seq(S)
  <2>1. x.id \in T /\ T \subseteq DOMAIN inners
    BY <1>2 DEF InnersFilled, Owned
  <2>2. PICK i : i = x.id
    OBVIOUS
  <2>3. IsInner(inners[i], Key, NodesAt(Len(leaves), h, h[i] - 1))
    BY <2>1, <2>2 DEF Good, StoreOK
  <2>4. PICK c : c = inners[i].child
    OBVIOUS
  <2>5. c \in Seq(NodesAt(Len(leaves), h, h[i] - 1))
    BY <2>3, <2>4 DEF IsInner
  <2>6. \A j \in 1 .. Len(c) : c[j] \in S
    <3>1. \A y \in KidsOf(inners, i) : y \in NodeId /\ (y.kind = "inner" => y.id \in T)
      <4>1. \A y \in KidsOf(inners, i) : y \in NodeId
        BY <2>1, <2>2, KidKnown
      <4> QED
        BY <2>1, <2>2, <4>1 DEF InnersFilled, Owned, KidsOf
    <3>2. \A j \in 1 .. Len(c) : c[j] \in KidsOf(inners, i)
      BY <2>4, <2>5 DEF KidsOf, Range
    <3> QED
      BY <3>1, <3>2
  <2> HIDE DEF S
  <2>7. c \in Seq(S)
    BY <2>5, <2>6, LenProperties, IsASeq
  <2> QED
    BY <2>2, <2>4, <2>7
<1>3. \A x \in S : x.kind = "inner" => x.id \in T
  OBVIOUS
<1> HIDE DEF S
<1>4. \A x \in Reachable : x \in S
  BY <1>1, <1>2, ReachableIn
<1> QED
  BY <1>3, <1>4 DEF InnerOfTree

\* The inductive invariant holds forever, beside that of the store.
LEMMA CountedForever ==
  Spec => []((\E h : Good(h)) /\ (\E T : InnersFilled(T) /\ Counted(T)))
<1> DEFINE Fine == (\E h : Good(h)) /\ (\E T : InnersFilled(T) /\ Counted(T))
<1>1. Init => Fine
  <2>1. Counted({})
    BY DEF Counted
  <2> QED
    BY <2>1, InitOK, InitFilled
<1>2. Fine /\ [Next]_vars => Fine'
  <2> SUFFICES ASSUME Fine, [Next]_vars PROVE Fine'
    OBVIOUS
  <2>1. PICK h : Good(h)
    OBVIOUS
  <2>2. PICK T : InnersFilled(T) /\ Counted(T)
    OBVIOUS
  <2>3. PICK g : Good(g)'
    BY <2>1, StepOK
  <2>4. PICK V : InnersFilled(V)' /\ Counted(V)'
    BY <2>1, <2>2, StepCounted
  <2> QED
    BY <2>3, <2>4
<1> HIDE DEF Fine
<1>3. Spec => []Fine
  BY <1>1, <1>2, PTL DEF Spec
<1> QED
  BY <1>3 DEF Fine

\* The augmentations of the tree are right.
LEMMA CountedHolds ==
  (\E h : Good(h)) /\ (\E T : InnersFilled(T) /\ Counted(T)) => AugmentationExact
<1> SUFFICES ASSUME NEW h, Good(h), NEW T, InnersFilled(T), Counted(T)
             PROVE  AugmentationExact
  OBVIOUS
<1>1. InnerOfTree \subseteq T
  BY InnerOfTreeOwned
<1>2. Counted(InnerOfTree)
  BY <1>1 DEF Counted
<1> QED
  BY <1>2 DEF AugmentationExact

(***************************************************************************)
(* AugmentationExact always holds: whatever is inserted, removed, split,   *)
(* rotated or merged, the augmentation beside a child in the tree is that  *)
(* of the child, but on the path an ascent has yet to climb.  So the       *)
(* descent by rank of tree/mod.rs skips as many entries as it counts.      *)
(***************************************************************************)
THEOREM AugmentationsStayExact == Spec => []AugmentationExact
BY CountedForever, CountedHolds, PTL
=============================================================================
