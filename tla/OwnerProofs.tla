---------------------------- MODULE OwnerProofs -----------------------------
(***************************************************************************)
(* A second induction over module BPlusTree, on top of that of module      *)
(* BPlusTreeProofs: the inner nodes of the tree have one parent each, and  *)
(* the minimum of keys but for the one that a removal is reporting.  So a  *)
(* node under its minimum always has a sibling, and the unreachable!() of  *)
(* handle_leaf_under_size is unreachable in a tree grown by insertion.     *)
(***************************************************************************)
EXTENDS BPlusTreeProofs

-----------------------------------------------------------------------------
(* Rewriting the nodes of a tree, as a value                               *)

KidsOf(ins, i) == Range(ins[i].child)

\* The children of the nodes A of a tree, and its orphans: what a step deals out.
Pool(ins, A, orphans) == orphans \cup UNION {KidsOf(ins, a) : a \in A}

(***************************************************************************)
(* The nodes A of the tree T go, the nodes B take their place, and share   *)
(* the children of A, the orphans O and the new nodes F without giving     *)
(* any of them out twice; P are the orphans that then remain.              *)
(***************************************************************************)
LEMMA RewireOwned ==
  ASSUME NEW I, NEW T, NEW O, Owned(I, T, O),
         NEW A, A \subseteq T, NEW J, NEW B, B \subseteq DOMAIN J, B \cap (T \ A) = {},
         \A i \in T \ A : i \in DOMAIN J /\ J[i] = I[i],
         NEW F, \A i \in T : KidsOf(I, i) \cap F = {},
         NEW P, P \subseteq Pool(I, A, O) \cup F,
         \A b \in B : /\ IsInjective(J[b].child) /\ KidsOf(J, b) \cap P = {}
                     /\ KidsOf(J, b) \subseteq Pool(I, A, O) \cup F,
         \A b, c \in B : b # c => KidsOf(J, b) \cap KidsOf(J, c) = {},
         \A x \in P : x.kind = "inner" => x.id \in (T \ A) \cup B,
         \A b \in B : \A x \in KidsOf(J, b) : x.kind = "inner" => x.id \in (T \ A) \cup B,
         \A i \in T \ A : \A x \in KidsOf(I, i) : x.kind = "inner" => x.id \notin A \ B
  PROVE  Owned(J, (T \ A) \cup B, P)
<1> DEFINE U == (T \ A) \cup B
<1>1. /\ T \subseteq DOMAIN I
      /\ \A i \in T : /\ IsInjective(I[i].child) /\ KidsOf(I, i) \cap O = {}
                      /\ \A x \in KidsOf(I, i) : x.kind = "inner" => x.id \in T
      /\ \A i, j \in T : i # j => KidsOf(I, i) \cap KidsOf(I, j) = {}
  BY DEF Owned, KidsOf
<1>2. \A i \in T \ A : J[i] = I[i] /\ KidsOf(J, i) = KidsOf(I, i)
  BY DEF KidsOf
<1>3. \A i \in T \ A : KidsOf(I, i) \cap (Pool(I, A, O) \cup F) = {}
  <2> SUFFICES ASSUME NEW i \in T \ A, NEW x \in KidsOf(I, i), x \in Pool(I, A, O) \cup F
               PROVE  FALSE
    OBVIOUS
  <2>1. x \notin F /\ x \notin O
    BY <1>1
  <2>2. PICK a \in A : x \in KidsOf(I, a)
    BY <2>1 DEF Pool
  <2> QED
    BY <1>1, <2>2
<1>4. U \subseteq DOMAIN J
  OBVIOUS
<1>5. \A i \in U : IsInjective(J[i].child) /\ KidsOf(J, i) \cap P = {}
  BY <1>1, <1>2, <1>3
<1>6. ASSUME NEW i \in U, NEW x \in KidsOf(J, i), x.kind = "inner" PROVE x.id \in U
  BY <1>1, <1>2, <1>6
<1>7. ASSUME NEW i \in U, NEW j \in U, i # j PROVE KidsOf(J, i) \cap KidsOf(J, j) = {}
  <2>1. CASE i \in T \ A /\ j \in T \ A
    BY <1>1, <1>2, <1>7, <2>1
  <2>2. CASE i \in T \ A /\ j \in B
    BY <1>2, <1>3, <2>2
  <2>3. CASE i \in B /\ j \in T \ A
    BY <1>2, <1>3, <2>3
  <2>4. CASE i \in B /\ j \in B
    BY <1>7, <2>4
  <2> QED
    BY <2>1, <2>2, <2>3, <2>4
<1> QED
  BY <1>4, <1>5, <1>6, <1>7 DEF Owned, KidsOf

\* The same where the nodes A are rewritten in place, and nothing is added.
LEMMA RewriteOwned ==
  ASSUME NEW I, NEW T, NEW O, Owned(I, T, O),
         NEW A, A \subseteq T, NEW J, DOMAIN J = DOMAIN I,
         \A i \in T \ A : J[i] = I[i],
         NEW P, P \subseteq Pool(I, A, O),
         \A a \in A : /\ IsInjective(J[a].child) /\ KidsOf(J, a) \cap P = {}
                     /\ KidsOf(J, a) \subseteq Pool(I, A, O),
         \A a, b \in A : a # b => KidsOf(J, a) \cap KidsOf(J, b) = {}
  PROVE  Owned(J, T, P)
<1>1. /\ T \subseteq DOMAIN I
      /\ \A x \in O : x.kind = "inner" => x.id \in T
      /\ \A i \in T : \A x \in KidsOf(I, i) : x.kind = "inner" => x.id \in T
  BY DEF Owned, KidsOf
<1>2. (T \ A) \cup A = T /\ A \ A = {} /\ A \cap (T \ A) = {}
  OBVIOUS
<1>3. \A x \in Pool(I, A, O) : x.kind = "inner" => x.id \in T
  BY <1>1 DEF Pool
<1>4. Owned(J, (T \ A) \cup A, P)
  <2>0. PICK F : F = {}
    OBVIOUS
  <2>1. A \subseteq DOMAIN J /\ \A i \in T \ A : i \in DOMAIN J /\ J[i] = I[i]
    BY <1>1
  <2>2. \A i \in T : KidsOf(I, i) \cap F = {}
    BY <2>0
  <2>3. P \subseteq Pool(I, A, O) \cup F /\ \A a \in A : KidsOf(J, a) \subseteq Pool(I, A, O) \cup F
    BY <2>0
  <2>4. /\ \A x \in P : x.kind = "inner" => x.id \in (T \ A) \cup A
        /\ \A a \in A : \A x \in KidsOf(J, a) : x.kind = "inner" => x.id \in (T \ A) \cup A
    BY <1>2, <1>3
  <2>5. \A i \in T \ A : \A x \in KidsOf(I, i) : x.kind = "inner" => x.id \notin A \ A
    BY <1>2
  <2>6. /\ \A a \in A : /\ IsInjective(J[a].child) /\ KidsOf(J, a) \cap P = {}
                       /\ KidsOf(J, a) \subseteq Pool(I, A, O) \cup F
        /\ \A a, c \in A : a # c => KidsOf(J, a) \cap KidsOf(J, c) = {}
    BY <2>3
  <2> QED
    BY ONLY Owned(I, T, O), A \subseteq T, <1>2, <2>1, <2>2, <2>3, <2>4, <2>5, <2>6, RewireOwned
<1> QED
  BY <1>2, <1>4

-----------------------------------------------------------------------------
(* What InnersFilled knows of a state                                      *)

IsShort == pc = "remove_ascend" /\ r.tag = "InnerUnderSize"

\* The minimum of a node that is not reported.
Least(i, rt) == IF Inner(i) = rt THEN 1 ELSE MIN_N

LEMMA MinimumIs == MIN_N \in Nat /\ 1 <= MIN_N /\ MIN_N <= INNER_N /\ INNER_N \in Nat
BY InnerAssumption DEF MIN_N

\* Without a report every node of the tree has its minimum.
LEMMA FullIfQuiet ==
  ASSUME NEW T, InnersFilled(T), NEW i \in T, ~IsReported(i)
  PROVE  InnerSize(inners[i]) >= Least(i, root)
<1>1. LeastKeys(i) = Least(i, root)
  BY MinimumIs DEF LeastKeys, Least
<1> QED
  BY <1>1 DEF InnersFilled

\* A child of an inner node, and the kind of id it has.
LEMMA KidKnown ==
  ASSUME NEW h, Good(h), NEW i \in DOMAIN inners, NEW x \in KidsOf(inners, i)
  PROVE  /\ x \in NodeId /\ HeightOf(h, x) = h[i] - 1 /\ h[i] \in Nat
         /\ x.kind = "inner" => /\ x = Inner(x.id) /\ x.id \in DOMAIN inners
                                /\ h[x.id] = h[i] - 1
         /\ x.kind = "leaf" => x = Leaf(x.id) /\ x.id \in DOMAIN leaves
<1>1. StoreOK(leaves, inners, h)
  BY DEF Good
<1>2. PICK c \in DOMAIN inners[i].child : x = inners[i].child[c]
  BY DEF KidsOf, Range
<1>3. x \in NodesAt(Len(leaves), h, h[i] - 1) /\ HeightOf(h, x) = h[i] - 1
  BY <1>1, <1>2, ChildAt
<1>4. h[i] \in Nat
  BY <1>1, StoreParts
<1> QED
  BY <1>1, <1>3, <1>4, IdKnown

\* The nodes that a split adds are nobody's children yet.
LEMMA NewIsFresh ==
  ASSUME NEW h, Good(h)
  PROVE  LET y == Leaf(Len(leaves) + 1)
             z == Inner(Len(inners) + 1)
         IN  /\ \A i \in DOMAIN inners :
                    y \notin KidsOf(inners, i) /\ z \notin KidsOf(inners, i)
             /\ y # root /\ z # root /\ Len(inners) + 1 \notin DOMAIN inners
             /\ pc = "insert_ascend" /\ r.tag = "Split" => z # r.right
<1>1. /\ StoreOK(leaves, inners, h) /\ IsAt(h, root, HeightOf(h, root))
      /\ IsAt(h, Current, HeightOf(h, Current)) /\ ResultOK(h)
  BY CurrentAt DEF Good
<1>2. /\ Len(leaves) \in Nat /\ DOMAIN leaves = 1 .. Len(leaves)
      /\ Len(inners) \in Nat /\ DOMAIN inners = 1 .. Len(inners)
      /\ h \in [1 .. Len(inners) -> Nat]
  BY <1>1, StoreParts
<1>3. Len(leaves) + 1 \notin DOMAIN leaves /\ Len(inners) + 1 \notin DOMAIN inners
  BY <1>2
<1>4. \A x \in NodeId : /\ x.kind = "leaf" /\ x.id \in DOMAIN leaves => x # Leaf(Len(leaves) + 1)
                        /\ x.kind = "inner" => x # Leaf(Len(leaves) + 1)
                        /\ x.kind = "inner" /\ x.id \in DOMAIN inners => x # Inner(Len(inners) + 1)
                        /\ x.kind = "leaf" => x # Inner(Len(inners) + 1)
                        /\ x.kind \in {"leaf", "inner"}
  BY <1>3 DEF Leaf, Inner, NodeId
<1>5. /\ root \in NodeId
      /\ root.kind = "leaf" => root.id \in DOMAIN leaves
      /\ root.kind = "inner" => root.id \in DOMAIN inners
  BY <1>1, IdKnown DEF IsAt
<1>6. ASSUME NEW i \in DOMAIN inners, NEW x \in KidsOf(inners, i)
      PROVE  x # Leaf(Len(leaves) + 1) /\ x # Inner(Len(inners) + 1)
  BY <1>4, KidKnown
<1>7. ASSUME pc = "insert_ascend", r.tag = "Split"
      PROVE  Inner(Len(inners) + 1) # r.right
  <2>1. HeightOf(h, Current) \in Nat
    BY <1>1, IdKnown DEF IsAt
  <2>2. r.right \in NodesAt(Len(leaves), h, HeightOf(h, Current))
    BY <1>1, <1>7 DEF ResultOK, IsAt
  <2>3. /\ r.right \in NodeId
        /\ r.right.kind = "leaf" => r.right.id \in DOMAIN leaves
        /\ r.right.kind = "inner" => r.right.id \in DOMAIN inners
    BY <1>2, <2>1, <2>2, NodesAtIds
  <2>4. r.right.kind = "inner" \/ r.right.kind = "leaf"
    BY <1>4, <2>3
  <2> QED
    BY <1>4, <2>3, <2>4
<1>8. root # Leaf(Len(leaves) + 1) /\ root # Inner(Len(inners) + 1)
  <2>1. root.kind = "inner" \/ root.kind = "leaf"
    BY <1>4, <1>5
  <2> QED
    BY <1>4, <1>5, <2>1
<1>9. \A i \in DOMAIN inners : /\ Leaf(Len(leaves) + 1) \notin KidsOf(inners, i)
                              /\ Inner(Len(inners) + 1) \notin KidsOf(inners, i)
  BY <1>6
<1> QED
  BY <1>3, <1>7, <1>8, <1>9

\* The parent on top of the stack is in the tree, and is not the reported node.
LEMMA ParentFacts ==
  ASSUME NEW h, Good(h), NEW T, InnersFilled(T), stack # <<>>
  PROVE  /\ Top.id \in T /\ Top.id \in DOMAIN inners /\ Parent = inners[Top.id]
         /\ ~IsReported(Top.id)
         /\ InnerSize(Parent) >= Least(Top.id, root) /\ InnerSize(Parent) \in Nat
         /\ IsInner(Parent, Key, NodesAt(Len(leaves), h, h[Top.id] - 1))
         /\ Kids(Parent, KidsOf(inners, Top.id))
         /\ DOMAIN Parent.child = 1 .. InnerSize(Parent) + 1
         /\ DOMAIN Parent.keys = 1 .. InnerSize(Parent)
         /\ \A c \in 1 .. InnerSize(Parent) + 1 : Parent.child[c] \in KidsOf(inners, Top.id)
         /\ Top.idx \in 1 .. InnerSize(Parent) + 1
         /\ Current = Parent.child[Top.idx] /\ Current \in KidsOf(inners, Top.id)
<1>1. stack \in Seq(Entry)
  BY DEF Good, Scalars
<1>2. Len(stack) \in DOMAIN stack
  BY <1>1, EmptySeq, LenProperties
<1>3. Top.id \in T
  BY <1>2 DEF InnersFilled, Top
<1>4. /\ Top.id \in DOMAIN inners /\ Top.idx \in 1 .. Len(Parent.keys) + 1
      /\ Top.child = Parent.child[Top.idx] /\ Current = Top.child
      /\ IsInner(Parent, Key, NodesAt(Len(leaves), h, h[Top.id] - 1))
      /\ Len(Parent.keys) \in Nat
      /\ h[Top.id] \in Nat \ {0}
      /\ HeightOf(h, Top.child) = h[Top.id] - 1
  BY TopFacts
<1>5. ~IsReported(Top.id)
  <2>1. Current # Inner(Top.id)
    <3>1. HeightOf(h, Inner(Top.id)) = h[Top.id]
      BY DEF HeightOf, Inner
    <3> QED
      BY <1>4, <3>1
  <2> QED
    BY <2>1 DEF IsReported
<1>6. InnerSize(Parent) >= Least(Top.id, root)
  BY <1>3, <1>5, FullIfQuiet DEF Parent
<1>7. /\ DOMAIN Parent.child = 1 .. Len(Parent.keys) + 1
      /\ DOMAIN Parent.keys = 1 .. Len(Parent.keys)
  BY <1>4, InnerParts
<1>8. Kids(Parent, KidsOf(inners, Top.id))
  BY <1>3 DEF InnersFilled, Owned, Kids, Once, KidsOf, Parent
<1>9. \A c \in DOMAIN Parent.child : Parent.child[c] \in KidsOf(inners, Top.id)
  BY DEF KidsOf, Range, Parent
<1> QED
  BY <1>3, <1>4, <1>5, <1>6, <1>7, <1>8, <1>9 DEF InnerSize, Parent

\* The property: a parent of a node that is short has a key, so a sibling for it.
LEMMA FilledHasSibling ==
  ASSUME NEW h, Good(h), NEW T, InnersFilled(T)
  PROVE  SiblingAtHand
<1> SUFFICES ASSUME stack # <<>> PROVE HasPrev \/ HasNext
  BY DEF SiblingAtHand
<1>1. /\ InnerSize(Parent) >= Least(Top.id, root) /\ InnerSize(Parent) \in Nat
      /\ Top.idx \in 1 .. InnerSize(Parent) + 1
  BY ParentFacts
<1>2. InnerSize(Parent) >= 1
  BY <1>1, MinimumIs DEF Least
<1> QED
  BY <1>1, <1>2 DEF HasPrev, HasNext

-----------------------------------------------------------------------------
(* Steps that leave the inner nodes and the root alone                     *)

\* Nothing to report before or after, and the path stays in the tree.
LEMMA QuietFilled ==
  ASSUME NEW T, InnersFilled(T), UNCHANGED <<root, inners>>,
         ~IsShort, ~IsShort', ~IsSplit',
         \A n \in DOMAIN stack' : stack'[n].id \in T
  PROVE  InnersFilled(T)'
<1>1. Orphans' \subseteq Orphans /\ Orphans' = {root}
  BY DEF Orphans, IsSplit
<1>2. Owned(inners, T, Orphans)'
  BY <1>1 DEF InnersFilled, Owned
<1>3. ASSUME NEW i \in T PROVE InnerSize(inners[i])' >= LeastKeys(i)'
  <2>1. ~IsReported(i) /\ ~IsReported(i)'
    BY DEF IsReported, IsShort
  <2>2. LeastKeys(i)' = LeastKeys(i)
    BY <2>1 DEF LeastKeys
  <2> QED
    BY <2>2 DEF InnersFilled, InnerSize
<1> QED
  BY <1>2, <1>3 DEF InnersFilled, IsSplit

\* A call begins.
LEMMA EnterFilled ==
  ASSUME NEW T, InnersFilled(T), NEW where, NEW c, Enter(where, c),
         where \notin {"insert_ascend", "remove_ascend"}
  PROVE  InnersFilled(T)'
<1>1. /\ UNCHANGED <<root, inners>> /\ pc = "idle" /\ pc' = where /\ stack' = <<>>
  BY DEF Enter, tree, store
<1>2. ~IsShort /\ ~IsShort' /\ ~IsSplit'
  BY <1>1 DEF IsShort, IsSplit
<1>3. \A n \in DOMAIN stack' : stack'[n].id \in T
  BY <1>1
<1> QED
  BY <1>1, <1>2, <1>3, QuietFilled

\* A call returns.
LEMMA ReturnFilled ==
  ASSUME NEW T, InnersFilled(T), NEW x, Return(x), UNCHANGED <<root, inners>>, ~IsShort
  PROVE  InnersFilled(T)'
<1>1. pc' = "idle" /\ stack' = <<>>
  BY DEF Return
<1>2. ~IsShort' /\ ~IsSplit'
  BY <1>1 DEF IsShort, IsSplit
<1>3. \A n \in DOMAIN stack' : stack'[n].id \in T
  BY <1>1
<1> QED
  BY <1>2, <1>3, QuietFilled

\* The node that the path leads to is in the tree.
LEMMA CurrentInTree ==
  ASSUME NEW h, Good(h), NEW T, InnersFilled(T), Current.kind = "inner"
  PROVE  Current.id \in T
<1>1. CASE stack = <<>>
  BY <1>1 DEF InnersFilled, Owned, Orphans, Current, EndOf
<1>2. CASE stack # <<>>
  <2>1. Top.id \in T /\ Current \in KidsOf(inners, Top.id)
    BY <1>2, ParentFacts
  <2> QED
    BY <2>1 DEF InnersFilled, Owned, KidsOf
<1> QED
  BY <1>1, <1>2

\* A descent goes one level down.
LEMMA DescendFilled ==
  ASSUME NEW h, Good(h), NEW T, InnersFilled(T), pc \in Descending, pc' = pc,
         node.kind = "inner", NEW c, Push(c), UNCHANGED <<root, inners>>
  PROVE  InnersFilled(T)'
<1>1. node = Current /\ stack \in Seq(Entry)
  BY DEF Good, Locals, Scalars
<1>2. node.id \in T
  BY <1>1, CurrentInTree
<1>3. PICK e : stack' = Append(stack, e) /\ e.id = node.id
  BY DEF Push
<1>4. \A n \in DOMAIN stack' : stack'[n].id \in T
  <2>1. /\ Len(stack) \in Nat /\ DOMAIN stack = 1 .. Len(stack)
    BY <1>1, LenProperties
  <2>2. DOMAIN stack' = 1 .. Len(stack) + 1
    BY <1>1, <1>3, <2>1
  <2>3. \A n \in 1 .. Len(stack) : stack'[n] = stack[n]
    BY <1>1, <1>3, <2>1
  <2>4. stack'[Len(stack) + 1] = e
    BY <1>1, <1>3, <2>1
  <2>5. \A n \in DOMAIN stack : stack[n].id \in T
    BY DEF InnersFilled
  <2>6. \A n \in 1 .. Len(stack) + 1 : n \in 1 .. Len(stack) \/ n = Len(stack) + 1
    BY <2>1
  <2> QED
    BY <1>2, <1>3, <2>1, <2>2, <2>3, <2>4, <2>5, <2>6
<1>5. ~IsShort /\ ~IsShort' /\ ~IsSplit'
  BY DEF IsShort, IsSplit, Descending
<1> QED
  BY <1>4, <1>5, QuietFilled

-----------------------------------------------------------------------------
(* Steps of an ascent                                                      *)

\* After a pop the path leads to the node that was on top, and stays above it.
LEMMA PopFacts ==
  ASSUME NEW h, Good(h), stack # <<>>, PopStack, UNCHANGED root
  PROVE  /\ Current' = Inner(Top.id)
         /\ \A n \in DOMAIN stack' : /\ n \in DOMAIN stack /\ stack'[n] = stack[n]
                                    /\ h[Top.id] < h[stack'[n].id]
<1> DEFINE m == Len(stack)
<1>1. /\ stack \in Seq(Entry) /\ IsPath(stack, root, inners, h)
  BY DEF Good, Scalars, Path
<1>2. m \in Nat /\ m # 0 /\ DOMAIN stack = 1 .. m /\ m - 1 \in Nat
  BY <1>1, EmptySeq, LenProperties
<1>3. /\ stack' = SubSeq(stack, 1, m - 1) /\ Top = stack[m]
  BY DEF PopStack, Top
<1>4. EndOf(stack', root) = Inner(Top.id)
  <2>1. SameAbove(inners, h, inners, h, h[stack[Len(stack)].id])
    BY DEF SameAbove
  <2>2. LET t == SubSeq(stack, 1, Len(stack) - 1)
        IN  /\ t \in Seq(Entry)
            /\ IsPath(t, root, inners, h)
            /\ EndOf(t, root) = Inner(stack[Len(stack)].id)
    BY ONLY <1>1, <2>1, stack # <<>>, PathPop
  <2> QED
    BY <1>3, <2>2
<1> HIDE DEF m
<1>5. /\ DOMAIN stack' = 1 .. m - 1
      /\ \A n \in 1 .. m - 1 : stack'[n] = stack[n]
  <2>1. \A n \in 1 .. m - 1 : stack[n] \in Entry
    <3>1. \A n \in 1 .. m - 1 : n \in 1 .. Len(stack)
      BY <1>2 DEF m
    <3> QED
      BY <1>1, <3>1, ElementOfSeq
  <2>2. /\ stack' \in Seq(Entry)
        /\ Len(stack') = IF 1 <= m - 1 THEN (m - 1) - 1 + 1 ELSE 0
        /\ \A n \in 1 .. (m - 1) - 1 + 1 : stack'[n] = stack[1 + n - 1]
    <3>1. 1 \in Int /\ m - 1 \in Int
      BY <1>2
    <3> QED
      BY <1>3, <2>1, <3>1, SubSeqProperties
  <2>3. Len(stack') = m - 1 /\ (m - 1) - 1 + 1 = m - 1
    BY <1>2, <2>2
  <2>4. \A n \in 1 .. m - 1 : 1 + n - 1 = n
    OBVIOUS
  <2> QED
    BY <2>2, <2>3, <2>4, LenProperties
<1>6. \A n \in 1 .. m - 1 : n \in 1 .. m /\ n < m /\ m \in 1 .. m
  BY <1>2
<1>7. \A n \in DOMAIN stack' : /\ n \in DOMAIN stack /\ stack'[n] = stack[n]
                              /\ h[Top.id] < h[stack'[n].id]
  BY <1>1, <1>2, <1>3, <1>5, <1>6 DEF IsPath
<1> QED
  BY <1>4, <1>7 DEF Current

(***************************************************************************)
(* A step of the ascent: U are the inner nodes of the tree after it.       *)
(***************************************************************************)
LEMMA AscendFilled ==
  ASSUME NEW h, Good(h), NEW T, InnersFilled(T), stack # <<>>, PopStack,
         UNCHANGED <<root, pc>>,
         NEW U, Owned(inners', U, Orphans'),
         \A i \in T : h[Top.id] < h[i] => i \in U,
         \A i \in U : InnerSize(inners'[i]) >= Least(i, root) - (IF IsReported(i)' THEN 1 ELSE 0),
         pc = "insert_ascend" /\ r'.tag = "Split" =>
             r'.right # root /\ InnerSize(inners'[Top.id]) >= MIN_N
  PROVE  InnersFilled(U)'
<1>1. /\ Current' = Inner(Top.id)
      /\ \A n \in DOMAIN stack' : /\ n \in DOMAIN stack /\ stack'[n] = stack[n]
                                 /\ h[Top.id] < h[stack'[n].id]
  BY PopFacts
<1>2. \A n \in DOMAIN stack' : stack'[n].id \in U
  BY <1>1 DEF InnersFilled
<1>3. \A i \in U : InnerSize(inners[i])' >= LeastKeys(i)'
  BY DEF LeastKeys, Least, InnerSize
<1>4. pc' = "insert_ascend" /\ r'.tag = "Split" =>
          /\ r'.right # root'
          /\ Current'.kind = "inner" => InnerSize(inners[Current.id])' >= MIN_N
  BY <1>1 DEF Inner, InnerSize
<1> QED
  BY <1>2, <1>3, <1>4 DEF InnersFilled, IsSplit

\* A rewritten parent that keeps its children and its size, with nothing to report.
LEMMA KeepKidsFilled ==
  ASSUME NEW h, Good(h), NEW T, InnersFilled(T), stack # <<>>, PopStack,
         UNCHANGED <<root, pc>>, ~IsShort, ~IsShort', ~IsSplit, ~IsSplit',
         NEW z, z.child = Parent.child, InnerSize(z) = InnerSize(Parent),
         inners' = [inners EXCEPT ![Top.id] = z]
  PROVE  InnersFilled(T)'
<1>1. /\ Top.id \in T /\ Top.id \in DOMAIN inners /\ Parent = inners[Top.id]
      /\ Kids(Parent, KidsOf(inners, Top.id))
  BY ParentFacts
<1>2. \A i \in DOMAIN inners : inners'[i].child = inners[i].child
                              /\ InnerSize(inners'[i]) = InnerSize(inners[i])
  BY <1>1
<1>3. DOMAIN inners' = DOMAIN inners /\ T \subseteq DOMAIN inners
  BY DEF InnersFilled, Owned
<1>4. Orphans' = Orphans
  BY DEF Orphans, IsSplit
<1>5. Owned(inners', T, Orphans')
  BY <1>2, <1>3, <1>4 DEF InnersFilled, Owned
<1>6. ASSUME NEW i \in T
      PROVE  InnerSize(inners'[i]) >= Least(i, root) - (IF IsReported(i)' THEN 1 ELSE 0)
  <2>1. ~IsReported(i) /\ ~IsReported(i)'
    BY DEF IsReported, IsShort
  <2>2. InnerSize(inners[i]) >= Least(i, root)
    BY <2>1, FullIfQuiet
  <2>3. Least(i, root) \in Nat
    BY MinimumIs DEF Least
  <2> QED
    BY <1>2, <1>3, <2>1, <2>2, <2>3
<1>7. ~(pc = "insert_ascend" /\ r'.tag = "Split")
  BY DEF IsSplit
<1> QED
  BY <1>5, <1>6, <1>7, AscendFilled

-----------------------------------------------------------------------------
(* The steps one by one: those that touch no inner node                    *)

\* Every call begins or is over at once.
LEMMA CallFilled ==
  ASSUME NEW T, InnersFilled(T), Call
  PROVE  InnersFilled(T)' \/ InnersFilled({})'
<1>1. ASSUME NEW where \in Descending \cup {"find_descend"}, NEW c, Enter(where, c)
      PROVE  InnersFilled(T)'
  <2>1. where \notin {"insert_ascend", "remove_ascend"}
    BY DEF Descending
  <2> QED
    BY <1>1, <2>1, EnterFilled
<1>2. ASSUME NEW x, Return(x), UNCHANGED <<root, inners>>, pc = "idle"
      PROVE  InnersFilled(T)'
  BY <1>2, ReturnFilled DEF IsShort
<1>3. ASSUME NEW k \in Key, NEW v \in Value, InsertCall(k, v) PROVE InnersFilled(T)'
  BY <1>1, <1>3 DEF InsertCall, Descending
<1>4. ASSUME NEW k \in Key, RemoveCall(k) PROVE InnersFilled(T)'
  BY <1>1, <1>4 DEF RemoveCall, Descending
<1>5. ASSUME NEW i \in 0 .. len, RemoveByAugmentationCall(i) PROVE InnersFilled(T)'
  BY <1>1, <1>5 DEF RemoveByAugmentationCall, Descending
<1>6. ASSUME NEW i \in 0 .. len, NEW v \in Value, GetMutByAugmentationCall(i, v)
      PROVE  InnersFilled(T)'
  BY <1>1, <1>6 DEF GetMutByAugmentationCall, Descending
<1>7. ASSUME NEW k \in Key, GetCall(k) PROVE InnersFilled(T)'
  BY <1>1, <1>7 DEF GetCall
<1>8. ASSUME NEW k \in Key, NEW v \in Value, GetMutCall(k, v) PROVE InnersFilled(T)'
  BY <1>1, <1>8 DEF GetMutCall
<1>9. ASSUME NEW k \in Key, GetCached(k) PROVE InnersFilled(T)'
  BY <1>2, <1>9 DEF GetCached, tree, store
<1>10. ASSUME NEW k \in Key, NEW v \in Value, GetMutCached(k, v) PROVE InnersFilled(T)'
  BY <1>2, <1>10 DEF GetMutCached
<1>11. ASSUME Clear PROVE InnersFilled({})'
  <2>1. inners' = <<>> /\ root' = Leaf(1) /\ pc' = "idle" /\ stack' = <<>>
    BY <1>11 DEF Clear, Return
  <2>2. Orphans' = {Leaf(1)}
    BY <2>1 DEF Orphans, IsSplit
  <2> QED
    BY <2>1, <2>2 DEF InnersFilled, Owned, Leaf, IsSplit
<1> QED
  BY <1>3, <1>4, <1>5, <1>6, <1>7, <1>8, <1>9, <1>10, <1>11 DEF Call

\* A new tree has no inner node.
LEMMA InitFilled == Init => InnersFilled({})
<1> SUFFICES ASSUME Init PROVE InnersFilled({})
  OBVIOUS
<1>1. inners = <<>> /\ root = Leaf(1) /\ pc = "idle" /\ stack = <<>>
  BY DEF Init
<1>2. Orphans = {Leaf(1)}
  BY <1>1 DEF Orphans, IsSplit
<1> QED
  BY <1>1, <1>2 DEF InnersFilled, Owned, Leaf, IsSplit

\* The descents, and the lookups at their end.
LEMMA DescentFilled ==
  ASSUME NEW h, Good(h), NEW T, InnersFilled(T),
         \/ InsertDescend \/ KeyToRefDescend \/ AugmentationDescend \/ KeyToRefMissing
         \/ AugmentationMissing \/ FindStep
  PROVE  InnersFilled(T)'
<1>1. CASE InsertDescend
  <2>1. Push(LocateChild(inners[node.id], call.k))
    BY <1>1 DEF InsertDescend
  <2> QED
    BY <1>1, <2>1, DescendFilled DEF InsertDescend, AtInner, Descending, tree, store
<1>2. CASE KeyToRefDescend
  <2>1. Push(LocateChild(inners[node.id], call.k))
    BY <1>2 DEF KeyToRefDescend
  <2> QED
    BY <1>2, <2>1, DescendFilled DEF KeyToRefDescend, AtInner, Descending, tree, store
<1>3. CASE AugmentationDescend
  <2>1. Push(LocateInInner(call.query, inners[node.id].aug).child)
    BY <1>3 DEF AugmentationDescend
  <2> QED
    BY <1>3, <2>1, DescendFilled DEF AugmentationDescend, AtInner, Descending, tree, store
<1>4. CASE KeyToRefMissing \/ AugmentationMissing
  <2>1. Return(None) /\ UNCHANGED <<root, inners>>
    BY <1>4 DEF KeyToRefMissing, AugmentationMissing, tree, store
  <2>2. ~IsShort
    BY <1>4 DEF KeyToRefMissing, AugmentationMissing, AtInner, AtLeaf, IsShort
  <2> QED
    BY <2>1, <2>2, ReturnFilled
<1>5. CASE FindDescend
  <2>1. pc = "find_descend" /\ UNCHANGED <<root, inners, pc, stack>>
    BY <1>5 DEF FindDescend, AtInner, tree, store
  <2>2. ~IsShort /\ ~IsShort' /\ ~IsSplit'
    BY <2>1 DEF IsShort, IsSplit
  <2>3. \A n \in DOMAIN stack' : stack'[n].id \in T
    BY <2>1 DEF InnersFilled
  <2> QED
    BY <2>1, <2>2, <2>3, QuietFilled
<1>6. CASE FindInLeaf
  BY <1>6, ReturnFilled DEF FindInLeaf, AtLeaf, IsShort
<1>7. CASE GetMutInLeaf
  <2>1. /\ pc = "get_ref_by_augmentation" /\ UNCHANGED <<root, inners>>
        /\ \E x : Return(x)
    BY <1>7 DEF GetMutInLeaf, AtLeaf
  <2> QED
    BY <2>1, ReturnFilled DEF IsShort
<1> QED
  BY <1>1, <1>2, <1>3, <1>4, <1>5, <1>6, <1>7 DEF FindStep

\* The work on the leaf, but for its split, and the returns with nothing to report.
LEMMA QuietStepFilled ==
  ASSUME NEW h, Good(h), NEW T, InnersFilled(T),
         \/ InsertLeafUpdate \/ InsertLeafInsert \/ RemoveInLeaf \/ InsertAscendUpdated
         \/ InsertReturnInserted \/ InsertReturnUpdated
         \/ RemoveReturnDone \/ RemoveReturnLeafUnderSize
  PROVE  InnersFilled(T)'
<1>1. CASE InsertLeafUpdate \/ InsertLeafInsert
  <2>1. /\ pc = "insert_inner" /\ pc' = "insert_ascend" /\ UNCHANGED <<root, inners, stack>>
        /\ r'.tag # "Split"
    BY <1>1 DEF InsertLeafUpdate, InsertLeafInsert, AtLeaf, Updated, Inserted
  <2>2. ~IsShort /\ ~IsShort' /\ ~IsSplit'
    BY <2>1 DEF IsShort, IsSplit
  <2>3. \A n \in DOMAIN stack' : stack'[n].id \in T
    BY <2>1 DEF InnersFilled
  <2> QED
    BY <2>1, <2>2, <2>3, QuietFilled
<1>2. CASE RemoveInLeaf
  <2>1. /\ pc # "remove_ascend" /\ pc' = "remove_ascend" /\ UNCHANGED <<root, inners, stack>>
        /\ \E slot : DeleteInLeaf(slot)
    BY <1>2 DEF RemoveInLeaf, AtLeaf
  <2>2. r'.tag # "InnerUnderSize"
    BY <2>1 DEF DeleteInLeaf, Done, LeafUnderSized
  <2>3. ~IsShort /\ ~IsShort' /\ ~IsSplit'
    BY <2>1, <2>2 DEF IsShort, IsSplit
  <2>4. \A n \in DOMAIN stack' : stack'[n].id \in T
    BY <2>1 DEF InnersFilled
  <2> QED
    BY <2>1, <2>3, <2>4, QuietFilled
<1>3. CASE InsertAscendUpdated
  <2>1. /\ pc = "insert_ascend" /\ stack # <<>> /\ r.tag = "Updated" /\ PopStack
        /\ UNCHANGED <<root, inners, pc, r>>
    BY <1>3 DEF InsertAscendUpdated, Ascending, tree, store
  <2>2. ~IsShort /\ ~IsShort' /\ ~IsSplit'
    BY <2>1 DEF IsShort, IsSplit
  <2>3. \A n \in DOMAIN stack' : stack'[n].id \in T
    BY <2>1, PopFacts DEF InnersFilled
  <2> QED
    BY <2>1, <2>2, <2>3, QuietFilled
<1>4. CASE \/ InsertReturnInserted \/ InsertReturnUpdated
           \/ RemoveReturnDone \/ RemoveReturnLeafUnderSize
  <2>1. UNCHANGED <<root, inners>> /\ \E x : Return(x)
    BY <1>4 DEF InsertReturnInserted, InsertReturnUpdated, RemoveReturnDone,
                RemoveReturnLeafUnderSize, tree, store
  <2>2. ~IsShort
    BY <1>4 DEF InsertReturnInserted, InsertReturnUpdated, RemoveReturnDone,
                RemoveReturnLeafUnderSize, AtRoot, IsShort
  <2> QED
    BY <2>1, <2>2, ReturnFilled
<1> QED
  BY <1>1, <1>2, <1>3, <1>4

\* A leaf is split: its right half is the first node in need of a parent.
LEMMA InsertLeafSplitFilled ==
  ASSUME NEW h, Good(h), NEW T, InnersFilled(T), InsertLeafSplit
  PROVE  InnersFilled(T)'
<1> DEFINE y == Leaf(Len(leaves) + 1)
<1>1. /\ pc = "insert_inner" /\ pc' = "insert_ascend" /\ node.kind = "leaf"
      /\ UNCHANGED <<root, inners, stack>> /\ r'.tag = "Split" /\ r'.right = y
  BY DEF InsertLeafSplit, AtLeaf, Split
<1>2. Current = node
  BY <1>1 DEF Good, Locals, Descending
<1>3. Orphans = {root} /\ Orphans' = {root, y}
  BY <1>1 DEF Orphans, IsSplit
<1>4. y # root /\ y.kind = "leaf" /\ \A i \in DOMAIN inners : y \notin Range(inners[i].child)
  BY NewIsFresh DEF KidsOf, Leaf
<1> HIDE DEF y
<1>5. Owned(inners, T, Orphans)'
  <2>1. Owned(inners, T, {root}) /\ T \subseteq DOMAIN inners
    BY <1>3 DEF InnersFilled, Owned
  <2>2. Owned(inners, T, {root, y})
    BY <1>4, <2>1 DEF Owned
  <2> QED
    BY <1>1, <1>3, <2>2
<1>6. ASSUME NEW i \in T PROVE InnerSize(inners[i])' >= LeastKeys(i)'
  <2>1. ~IsReported(i) /\ ~IsReported(i)'
    BY <1>1 DEF IsReported
  <2>2. LeastKeys(i)' = LeastKeys(i)
    BY <1>1, <2>1 DEF LeastKeys
  <2> QED
    BY <1>1, <2>2 DEF InnersFilled, InnerSize
<1>7. Current' = Current /\ Current'.kind # "inner"
  BY <1>1, <1>2 DEF Current
<1>8. r'.right # root'
  BY <1>1, <1>4
<1> QED
  BY <1>1, <1>5, <1>6, <1>7, <1>8 DEF InnersFilled

-----------------------------------------------------------------------------
(* The steps that rewrite the parent, and leave it its children            *)

\* One element replaced by whatever value: the length stays.
LEMMA PutLen ==
  ASSUME NEW S, NEW s \in Seq(S), NEW i \in 1 .. Len(s), NEW e
  PROVE  Len([s EXCEPT ![i] = e]) = Len(s)
<1> DEFINE Q == S \cup {e}
<1>1. /\ Len(s) \in Nat /\ DOMAIN s = 1 .. Len(s) /\ \A j \in 1 .. Len(s) : s[j] \in Q
  BY LenProperties, ElementOfSeq
<1>2. s \in Seq(Q) /\ e \in Q
  BY <1>1, IsASeq
<1> HIDE DEF Q
<1> QED
  BY <1>2, PutType

\* The augmentation of the child just visited.
LEMMA RefreshFilled ==
  ASSUME NEW h, Good(h), NEW T, InnersFilled(T), InsertAscendInserted \/ RemoveAscendDone
  PROVE  InnersFilled(T)'
<1>1. /\ stack # <<>> /\ PopStack /\ UNCHANGED <<root, pc, r>>
      /\ inners' = [inners EXCEPT ![Top.id] = Refreshed]
      /\ \/ pc = "insert_ascend" /\ r.tag = "Inserted"
         \/ pc = "remove_ascend" /\ r.tag = "Done"
  BY DEF InsertAscendInserted, RemoveAscendDone, Ascending
<1>2. ~IsShort /\ ~IsShort' /\ ~IsSplit /\ ~IsSplit'
  BY <1>1 DEF IsShort, IsSplit
<1>3. Refreshed.child = Parent.child /\ InnerSize(Refreshed) = InnerSize(Parent)
  BY <1>1, RefreshedOK DEF InnerSize
<1> QED
  BY <1>1, <1>2, <1>3, KeepKidsFilled

\* The rotations of two leaves: two augmentations and the separator.
LEMMA RotateLeafFilled ==
  ASSUME NEW h, Good(h), NEW T, InnersFilled(T), stack # <<>>, PopStack,
         pc = "remove_ascend", r.tag = "LeafUnderSize", UNCHANGED <<root, pc>>,
         NEW slot \in 1 .. Len(Parent.keys), NEW a, NEW b, NEW k,
         inners' = [inners EXCEPT ![Top.id] =
                        SetKey(SetAugmentation(SetAugmentation(Parent, slot, a),
                                               slot + 1, b), slot, k)],
         NEW kv, r' = Done(kv)
  PROVE  InnersFilled(T)'
<1> DEFINE z == SetKey(SetAugmentation(SetAugmentation(Parent, slot, a),
                                       slot + 1, b), slot, k)
<1>1. Parent \in [keys : Seq(Key), child : Seq(NodesAt(Len(leaves), h, h[Top.id] - 1)),
                  aug : Seq(Nat)]
  BY TopFacts DEF IsInner
<1>2. z.child = Parent.child
  BY <1>1 DEF SetKey, SetAugmentation
<1>3. z.keys = [Parent.keys EXCEPT ![slot] = k]
  BY <1>1 DEF SetKey, SetAugmentation
<1>4. Parent.keys \in Seq(Key) /\ slot \in DOMAIN Parent.keys
  BY <1>1, LenProperties
<1> HIDE DEF z
<1>5. InnerSize(z) = InnerSize(Parent)
  BY <1>3, <1>4, PutLen DEF InnerSize
<1>6. ~IsShort /\ ~IsShort' /\ ~IsSplit /\ ~IsSplit'
  BY DEF IsShort, IsSplit, Done
<1> QED
  BY <1>2, <1>5, <1>6, KeepKidsFilled DEF z

\* try_rotate of two leaves.
LEMMA RotateLeavesFilled ==
  ASSUME NEW h, Good(h), NEW T, InnersFilled(T), RotateRightLeaf \/ RotateLeftLeaf
  PROVE  InnersFilled(T)'
<1>1. /\ stack # <<>> /\ PopStack /\ UNCHANGED <<root, pc>>
      /\ pc = "remove_ascend" /\ r.tag = "LeafUnderSize"
  BY DEF RotateRightLeaf, RotateLeftLeaf, Ascending
<1>2. Top.idx \in 1 .. Len(Parent.keys) + 1 /\ Len(Parent.keys) \in Nat
  BY <1>1, TopFacts
<1>3. CASE RotateRightLeaf
  <2> DEFINE slot  == Top.idx - 1
             kv    == LeafAt(slot).data[LeafSize(LeafAt(slot))]
             left  == PopLeaf(LeafAt(slot))
             right == DeleteWithPushFront(LeafAt(slot + 1), r.slot, kv)
  <2>1. /\ inners' = [inners EXCEPT ![Top.id] =
                SetKey(SetAugmentation(
                           SetAugmentation(Parent, slot, FromLeaf(LeafKeys(left))),
                           slot + 1, FromLeaf(LeafKeys(right))),
                       slot, kv[1])]
        /\ r' = Done(LeafAt(slot + 1).data[r.slot])
        /\ Top.idx > 1
    BY <1>3 DEF RotateRightLeaf, PrevLeafLends, HasPrev
  <2>2. slot \in 1 .. Len(Parent.keys)
    BY <1>2, <2>1
  <2> HIDE DEF slot, kv, left, right
  <2> QED
    BY <1>1, <2>1, <2>2, RotateLeafFilled
<1>4. CASE RotateLeftLeaf
  <2> DEFINE slot  == Top.idx
             kv    == LeafAt(slot + 1).data[1]
             right == PopFrontLeaf(LeafAt(slot + 1))
             left  == DeleteWithPush(LeafAt(slot), r.slot, kv)
  <2>1. /\ inners' = [inners EXCEPT ![Top.id] =
                SetKey(SetAugmentation(
                           SetAugmentation(Parent, slot, FromLeaf(LeafKeys(left))),
                           slot + 1, FromLeaf(LeafKeys(right))),
                       slot, right.data[1][1])]
        /\ r' = Done(LeafAt(slot).data[r.slot])
        /\ Top.idx <= Len(Parent.keys)
    BY <1>4 DEF RotateLeftLeaf, NextLeafLends, HasNext, InnerSize
  <2>2. slot \in 1 .. Len(Parent.keys)
    BY <1>2, <2>1
  <2> HIDE DEF slot, kv, left, right
  <2> QED
    BY <1>1, <2>1, <2>2, RotateLeafFilled
<1> QED
  BY <1>3, <1>4

-----------------------------------------------------------------------------
(* The steps that rewrite the parent with other children                   *)

(***************************************************************************)
(* The parent may take the orphans and may give up children, as long as it *)
(* keeps its minimum or is reported.                                       *)
(***************************************************************************)
LEMMA WriteParentFilled ==
  ASSUME NEW h, Good(h), NEW T, InnersFilled(T), stack # <<>>, PopStack,
         UNCHANGED <<root, pc>>, ~IsShort, ~IsSplit',
         NEW z, inners' = [inners EXCEPT ![Top.id] = z],
         NEW R, Kids(z, R), R \subseteq KidsOf(inners, Top.id) \cup Orphans,
         R \cap Orphans' = {}, Orphans' \subseteq Orphans, InnerSize(z) \in Int,
         \/ InnerSize(z) >= Least(Top.id, root)
         \/ IsShort' /\ InnerSize(z) >= Least(Top.id, root) - 1
  PROVE  InnersFilled(T)'
<1>1. Top.id \in T /\ Top.id \in DOMAIN inners
  BY ParentFacts
<1>2. /\ DOMAIN inners' = DOMAIN inners /\ inners'[Top.id] = z
      /\ \A i \in T \ {Top.id} : inners'[i] = inners[i]
      /\ T \subseteq DOMAIN inners
  BY <1>1 DEF InnersFilled, Owned
<1>3. Owned(inners', T, Orphans')
  <2> DEFINE A == {Top.id}
  <2>1. Pool(inners, A, Orphans) = KidsOf(inners, Top.id) \cup Orphans
    BY DEF Pool
  <2>2. Owned(inners, T, Orphans) /\ A \subseteq T
    BY <1>1 DEF InnersFilled
  <2>3. \A i \in T \ A : inners'[i] = inners[i]
    BY <1>2
  <2>4. \A a \in A : /\ IsInjective(inners'[a].child) /\ KidsOf(inners', a) \cap Orphans' = {}
                    /\ KidsOf(inners', a) \subseteq Pool(inners, A, Orphans)
    BY <1>2, <2>1 DEF Kids, Once, KidsOf
  <2>5. \A a, b \in A : a # b => KidsOf(inners', a) \cap KidsOf(inners', b) = {}
    OBVIOUS
  <2>6. Orphans' \subseteq Pool(inners, A, Orphans)
    BY <2>1
  <2>7. DOMAIN inners' = DOMAIN inners
    BY <1>2
  <2> HIDE DEF A
  <2> QED
    BY ONLY <2>2, <2>3, <2>4, <2>5, <2>6, <2>7, RewriteOwned
<1>4. ASSUME NEW i \in T
      PROVE  InnerSize(inners'[i]) >= Least(i, root) - (IF IsReported(i)' THEN 1 ELSE 0)
  <2>1. CASE i = Top.id
    <3>1. Current' = Inner(i)
      BY <2>1, PopFacts
    <3>2. IsReported(i)' <=> IsShort'
      BY <3>1 DEF IsReported, IsShort
    <3>3. Least(i, root) \in Nat /\ inners'[i] = z
      BY <1>2, <2>1, MinimumIs DEF Least
    <3>4. CASE IsShort'
      BY <2>1, <3>2, <3>3, <3>4
    <3>5. CASE ~IsShort'
      BY <2>1, <3>2, <3>3, <3>5
    <3> QED
      BY <3>4, <3>5
  <2>2. CASE i # Top.id
    <3>1. Current' = Inner(Top.id)
      BY PopFacts
    <3>2. ~IsReported(i) /\ ~IsReported(i)'
      BY <2>2, <3>1 DEF IsReported, IsShort, Inner
    <3>3. InnerSize(inners[i]) >= Least(i, root) /\ Least(i, root) \in Nat
      BY <3>2, FullIfQuiet, MinimumIs DEF Least
    <3> QED
      BY <1>2, <2>2, <3>2, <3>3
  <2> QED
    BY <2>1, <2>2
<1>5. ~(pc = "insert_ascend" /\ r'.tag = "Split")
  BY DEF IsSplit
<1> QED
  BY <1>3, <1>4, <1>5, AscendFilled

\* The right half of a split child is at the height of the children, and new to them.
LEMMA SplitChild ==
  ASSUME NEW h, Good(h), NEW T, InnersFilled(T), stack # <<>>,
         pc = "insert_ascend", r.tag = "Split"
  PROVE  /\ r.k \in Key /\ AugOf(r.right) \in Nat /\ r.right # root
         /\ r.right \in NodesAt(Len(leaves), h, h[Top.id] - 1)
         /\ Orphans = {root, r.right}
         /\ r.right \notin KidsOf(inners, Top.id) /\ root \notin KidsOf(inners, Top.id)
<1>1. Top.id \in T /\ HeightOf(h, Current) = h[Top.id] - 1
  BY ParentFacts, TopFacts
<1>2. Orphans = {root, r.right}
  BY DEF Orphans, IsSplit
<1>3. \A x \in Orphans : x \notin KidsOf(inners, Top.id)
  BY <1>1 DEF InnersFilled, Owned, KidsOf
<1>4. r.right # root
  BY DEF InnersFilled, IsSplit
<1> QED
  BY <1>1, <1>2, <1>3, <1>4, SplitFields

\* A parent with room takes the new child.
LEMMA InsertAscendSlotFilled ==
  ASSUME NEW h, Good(h), NEW T, InnersFilled(T), InsertAscendSlot
  PROVE  InnersFilled(T)'
<1> DEFINE z == InsertSlot(Refreshed, Top.idx, r.k, r.right, AugOf(r.right))
           R == KidsOf(inners, Top.id) \cup {r.right}
           C == NodesAt(Len(leaves), h, h[Top.id] - 1)
<1>1. /\ pc = "insert_ascend" /\ stack # <<>> /\ r.tag = "Split"
      /\ inners' = [inners EXCEPT ![Top.id] = z]
      /\ r' = Inserted /\ PopStack /\ UNCHANGED <<root, pc>>
  BY DEF InsertAscendSlot, Ascending
<1>2. /\ r.k \in Key /\ AugOf(r.right) \in Nat /\ r.right # root
      /\ r.right \in C /\ Orphans = {root, r.right}
      /\ r.right \notin KidsOf(inners, Top.id) /\ root \notin KidsOf(inners, Top.id)
  BY <1>1, SplitChild
<1>3. /\ IsInner(Refreshed, Key, C) /\ Refreshed.keys = Parent.keys
      /\ Refreshed.child = Parent.child
  BY <1>1, RefreshedOK
<1>4. /\ Kids(Parent, KidsOf(inners, Top.id)) /\ InnerSize(Parent) \in Nat
      /\ InnerSize(Parent) >= Least(Top.id, root)
      /\ Top.idx \in 1 .. InnerSize(Parent) + 1
      /\ DOMAIN Parent.child = 1 .. InnerSize(Parent) + 1
  BY <1>1, ParentFacts
<1>5. Kids(Refreshed, KidsOf(inners, Top.id)) /\ Top.idx \in DOMAIN Refreshed.child
  BY <1>3, <1>4 DEF Kids
<1> HIDE DEF C
<1>6. Kids(z, R)
  BY <1>2, <1>3, <1>5, InsertSlotKids
<1>7. InnerSize(z) = InnerSize(Parent) + 1
  BY <1>2, <1>3, <1>5, InsertSlotType DEF InnerSize
<1> HIDE DEF z
<1>8. Orphans' = {root} /\ ~IsSplit' /\ ~IsShort
  BY <1>1 DEF Orphans, IsSplit, IsShort, Inserted
<1>9. R \cap Orphans' = {} /\ R \subseteq KidsOf(inners, Top.id) \cup Orphans
  BY <1>2, <1>8
<1>10. InnerSize(z) >= Least(Top.id, root) /\ InnerSize(z) \in Int
  <2>1. Least(Top.id, root) \in Nat
    BY MinimumIs DEF Least
  <2> QED
    BY <1>4, <1>7, <2>1
<1>11. Orphans' \subseteq Orphans
  BY <1>2, <1>8
<1> HIDE DEF R
<1> QED
  BY <1>1, <1>6, <1>8, <1>9, <1>10, <1>11, WriteParentFilled

\* What remove_slot_with_right reports of a parent that lost a key.
LEMMA AfterMergeFilled ==
  ASSUME NEW h, Good(h), NEW T, InnersFilled(T), stack # <<>>, pc' = "remove_ascend",
         NEW p, InnerSize(p) = InnerSize(Parent) - 1, NEW kv, r' = AfterMerge(p, kv)
  PROVE  \/ InnerSize(p) >= Least(Top.id, root)
         \/ IsShort' /\ InnerSize(p) >= Least(Top.id, root) - 1
<1>1. InnerSize(Parent) >= Least(Top.id, root) /\ InnerSize(Parent) \in Nat
  BY ParentFacts
<1>2. Least(Top.id, root) \in Nat /\ MIN_N \in Nat /\ Least(Top.id, root) <= MIN_N
  BY MinimumIs DEF Least
<1>3. CASE InnerUnderSize(p)
  <2>1. r'.tag = "InnerUnderSize"
    BY <1>3 DEF AfterMerge, InnerUnderSized
  <2> QED
    BY <1>1, <1>2, <2>1 DEF IsShort
<1>4. CASE ~InnerUnderSize(p)
  BY <1>1, <1>2, <1>4 DEF InnerUnderSize
<1> QED
  BY <1>3, <1>4

\* The parent after a merge: one key and one child less.
LEMMA MergedParentFilled ==
  ASSUME NEW h, Good(h), NEW T, InnersFilled(T), stack # <<>>,
         NEW slot \in 1 .. Len(Parent.keys), NEW a
  PROVE  /\ InnerSize(MergedParent(slot, a)) = InnerSize(Parent) - 1
         /\ Kids(MergedParent(slot, a), KidsOf(inners, Top.id) \ {Parent.child[slot + 1]})
<1> DEFINE q == SetAugmentation(Parent, slot, a)
           C == NodesAt(Len(leaves), h, h[Top.id] - 1)
           K == KidsOf(inners, Top.id)
<1>1. IsInner(Parent, Key, C) /\ Kids(Parent, K)
  BY ParentFacts
<1>2. Parent \in [keys : Seq(Key), child : Seq(C), aug : Seq(Nat)]
  BY <1>1 DEF IsInner
<1> HIDE DEF C, K
<1>3. q.keys = Parent.keys /\ q.child = Parent.child
  BY <1>2 DEF SetAugmentation
<1>4. /\ Parent.keys \in Seq(Key) /\ Parent.child \in Seq(C)
      /\ slot + 1 \in 1 .. Len(Parent.child)
  BY <1>1, InnerParts DEF IsInner
<1>5. Len(RemoveAt(Parent.keys, slot)) = Len(Parent.keys) - 1
  BY <1>4, RemoveAtType
<1>6. IsInjective(Parent.child) /\ Range(Parent.child) = K
  BY <1>1 DEF Kids, Once
<1>7. Once(RemoveAt(Parent.child, slot + 1), K \ {Parent.child[slot + 1]})
  BY <1>4, <1>6, OnceRemove
<1> HIDE DEF q
<1> QED
  BY <1>3, <1>5, <1>7 DEF MergedParent, q, K, InnerSize, RemoveSlotWithRight, Kids

\* Two leaves merge.
LEMMA MergeLeavesFilled ==
  ASSUME NEW h, Good(h), NEW T, InnersFilled(T), stack # <<>>, PopStack,
         pc = "remove_ascend", r.tag = "LeafUnderSize", UNCHANGED <<root, pc>>,
         NEW slot \in 1 .. Len(Parent.keys), NEW left, NEW kv, MergeLeaves(slot, left, kv)
  PROVE  InnersFilled(T)'
<1> DEFINE p == MergedParent(slot, FromLeaf(LeafKeys(left)))
           R == KidsOf(inners, Top.id) \ {Parent.child[slot + 1]}
<1>1. inners' = [inners EXCEPT ![Top.id] = p] /\ r' = AfterMerge(p, kv)
  BY DEF MergeLeaves
<1>2. InnerSize(p) = InnerSize(Parent) - 1 /\ Kids(p, R)
  BY MergedParentFilled
<1> HIDE DEF p
<1>3. \/ InnerSize(p) >= Least(Top.id, root)
      \/ IsShort' /\ InnerSize(p) >= Least(Top.id, root) - 1
  BY <1>1, <1>2, AfterMergeFilled
<1>4. InnerSize(p) \in Int
  BY <1>2, ParentFacts
<1>5. Orphans = {root} /\ Orphans' = {root} /\ ~IsShort /\ ~IsSplit'
  BY DEF Orphans, IsShort, IsSplit
<1>6. R \cap Orphans' = {} /\ R \subseteq KidsOf(inners, Top.id) \cup Orphans
  <2>1. Top.id \in T
    BY ParentFacts
  <2> QED
    BY <1>5, <2>1 DEF InnersFilled, Owned, KidsOf
<1> HIDE DEF R
<1> QED
  BY <1>1, <1>2, <1>3, <1>4, <1>5, <1>6, WriteParentFilled

\* merge_leaf_node_left and merge_leaf_node_with_right.
LEMMA MergeLeafFilled ==
  ASSUME NEW h, Good(h), NEW T, InnersFilled(T), MergeLeafLeft \/ MergeLeafRight
  PROVE  InnersFilled(T)'
<1>1. /\ stack # <<>> /\ PopStack /\ UNCHANGED <<root, pc>>
      /\ pc = "remove_ascend" /\ r.tag = "LeafUnderSize"
  BY DEF MergeLeafLeft, MergeLeafRight, Ascending
<1>2. Top.idx \in 1 .. Len(Parent.keys) + 1 /\ Len(Parent.keys) \in Nat
  BY <1>1, TopFacts
<1>3. PICK slot : /\ \/ slot = Top.idx - 1 /\ HasPrev
                     \/ slot = Top.idx /\ HasNext
                  /\ \E left, kv : MergeLeaves(slot, left, kv)
  BY DEF MergeLeafLeft, MergeLeafRight
<1>4. slot \in 1 .. Len(Parent.keys)
  BY <1>2, <1>3 DEF HasPrev, HasNext, InnerSize
<1> QED
  BY <1>1, <1>3, <1>4, MergeLeavesFilled

-----------------------------------------------------------------------------
(* The steps that split an inner node                                      *)

\* A full parent is split in turn: its right half is new, and without a parent.
LEMMA InsertAscendSplitFilled ==
  ASSUME NEW h, Good(h), NEW T, InnersFilled(T), InsertAscendSplit
  PROVE  \E V : V = T \cup {Len(inners) + 1} /\ InnersFilled(V)'
<1> DEFINE t == Top.id
           m == Len(inners) + 1
           y == Inner(m)
           s == SplitInner(Refreshed, Top.idx, r.k, r.right, AugOf(r.right))
           K == KidsOf(inners, t)
           C == NodesAt(Len(leaves), h, h[t] - 1)
           U == (T \ {t}) \cup {t, m}
<1>1. /\ pc = "insert_ascend" /\ stack # <<>> /\ r.tag = "Split" /\ InnerIsFull(Parent)
      /\ inners' = Append([inners EXCEPT ![t] = s.left], s.right)
      /\ r' = Split(s.key, y) /\ PopStack /\ UNCHANGED <<root, pc>>
  BY DEF InsertAscendSplit, Ascending
<1>2. /\ r.k \in Key /\ AugOf(r.right) \in Nat /\ r.right # root
      /\ r.right \in C /\ Orphans = {root, r.right}
      /\ r.right \notin K /\ root \notin K
  BY <1>1, SplitChild
<1>3. /\ IsInner(Refreshed, Key, C) /\ Refreshed.keys = Parent.keys
      /\ Refreshed.child = Parent.child
  BY <1>1, RefreshedOK
<1>4. /\ Kids(Parent, K) /\ t \in T /\ t \in DOMAIN inners
      /\ Top.idx \in 1 .. InnerSize(Parent) + 1
      /\ DOMAIN Parent.child = 1 .. InnerSize(Parent) + 1
  BY <1>1, ParentFacts
<1>5. /\ Kids(Refreshed, K) /\ Top.idx \in DOMAIN Refreshed.child
      /\ Len(Refreshed.keys) = INNER_N
  BY <1>1, <1>3, <1>4 DEF Kids, InnerIsFull, InnerSize
<1>6. /\ inners \in Seq(InnerRec) /\ DOMAIN inners = 1 .. Len(inners) /\ Len(inners) \in Nat
  BY StoreParts DEF Good
<1>7. /\ \A i \in DOMAIN inners : y \notin KidsOf(inners, i)
      /\ y # root /\ y # r.right /\ m \notin DOMAIN inners
  BY <1>1, NewIsFresh
<1> HIDE DEF C, K, t
<1>8. PICK Q, P : /\ Kids(s.left, Q) /\ Kids(s.right, P)
                  /\ Q \cap P = {} /\ Q \cup P = K \cup {r.right}
  <2> DEFINE n == Refreshed
             c == Top.idx
             x == r.right
             a == AugOf(r.right)
             k == r.k
  <2>1. /\ IsInner(n, Key, C) /\ Len(n.keys) = INNER_N /\ Kids(n, K)
        /\ c \in DOMAIN n.child /\ k \in Key /\ x \in C /\ x \notin K /\ a \in Nat
    BY <1>2, <1>3, <1>5
  <2>2. s = SplitInner(n, c, k, x, a)
    OBVIOUS
  <2> HIDE DEF n, c, x, a, k, s
  <2>3. Dealt(K \cup {x}, s.left, s.right)
    BY ONLY <2>1, <2>2, SplitInnerKids
  <2> QED
    BY <2>3 DEF x, Dealt
<1>9. InnerSize(s.left) >= MIN_N /\ InnerSize(s.right) >= MIN_N
  BY <1>2, <1>3, <1>5, SplitInnerKids DEF InnerSize
<1> HIDE DEF s
<1>10. /\ DOMAIN inners' = DOMAIN inners \cup {m}
       /\ inners'[t] = s.left /\ inners'[m] = s.right
       /\ \A i \in DOMAIN inners \ {t} : inners'[i] = inners[i]
  BY <1>1, <1>4, <1>6
<1>11. Orphans' = {root, y} /\ T \subseteq DOMAIN inners
  BY <1>1 DEF Orphans, Split, InnersFilled, Owned, IsSplit
<1> HIDE DEF m, y
<1>12. Owned(inners', U, Orphans')
  <2> DEFINE A == {t}
             B == {t, m}
             F == {y}
  <2>1. Pool(inners, A, Orphans) = K \cup {root, r.right}
    BY <1>2 DEF Pool, K
  <2>2. /\ Owned(inners, T, Orphans) /\ A \subseteq T
        /\ B \subseteq DOMAIN inners' /\ B \cap (T \ A) = {}
    BY <1>4, <1>7, <1>10, <1>11 DEF InnersFilled
  <2>3. \A i \in T \ A : i \in DOMAIN inners' /\ inners'[i] = inners[i]
    BY <1>10, <1>11
  <2>4. \A i \in T : KidsOf(inners, i) \cap F = {}
    BY <1>7, <1>11
  <2>5. Orphans' \subseteq Pool(inners, A, Orphans) \cup F
    BY <1>11, <2>1
  <2>6. KidsOf(inners', t) = Q /\ KidsOf(inners', m) = P
    BY <1>8, <1>10 DEF Kids, Once, KidsOf
  <2>7. Q \cap Orphans' = {} /\ P \cap Orphans' = {}
    <3>1. y \notin K
      BY <1>4, <1>7 DEF K
    <3> QED
      BY <1>2, <1>7, <1>8, <1>11, <3>1
  <2>8. \A b \in B : /\ IsInjective(inners'[b].child) /\ KidsOf(inners', b) \cap Orphans' = {}
                    /\ KidsOf(inners', b) \subseteq Pool(inners, A, Orphans) \cup F
    BY <1>8, <1>10, <2>1, <2>6, <2>7 DEF Kids, Once
  <2>9. \A b, c \in B : b # c => KidsOf(inners', b) \cap KidsOf(inners', c) = {}
    BY <1>8, <2>6
  <2>10. \A x \in Pool(inners, A, Orphans) \cup F :
             x.kind = "inner" => x.id \in (T \ A) \cup B
    BY <1>4, <2>1, <1>2 DEF InnersFilled, Owned, K, KidsOf, y, Inner
  <2>11. \A i \in T \ A : \A x \in KidsOf(inners, i) : x.kind = "inner" => x.id \notin A \ B
    OBVIOUS
  <2>12. /\ \A x \in Orphans' : x.kind = "inner" => x.id \in (T \ A) \cup B
         /\ \A b \in B : \A x \in KidsOf(inners', b) : x.kind = "inner" => x.id \in (T \ A) \cup B
    BY <2>5, <2>8, <2>10
  <2>13. U = (T \ A) \cup B
    OBVIOUS
  <2> HIDE DEF A, B, F, U
  <2> QED
    BY ONLY <2>2, <2>3, <2>4, <2>5, <2>8, <2>9, <2>11, <2>12, <2>13, RewireOwned
<1>13. ASSUME NEW i \in U
       PROVE  InnerSize(inners'[i]) >= Least(i, root) - (IF IsReported(i)' THEN 1 ELSE 0)
  <2>1. ~IsReported(i) /\ ~IsReported(i)'
    BY <1>1 DEF IsReported
  <2>2. CASE i \in {t, m}
    <3>1. Least(i, root) <= MIN_N
      BY MinimumIs DEF Least
    <3>2. InnerSize(inners'[i]) \in Nat
      <4>1. IsInner(s.left, Key, C) /\ IsInner(s.right, Key, C)
        BY <1>2, <1>3, <1>5, SplitInnerType DEF s
      <4>2. Len(s.left.keys) \in Nat /\ Len(s.right.keys) \in Nat
        BY <4>1, InnerParts
      <4> QED
        BY <1>10, <2>2, <4>2 DEF InnerSize
    <3> QED
      BY <1>9, <1>10, <2>1, <2>2, <3>1, <3>2, MinimumIs DEF Least
  <2>3. CASE i \in T \ {t}
    <3>1. InnerSize(inners[i]) >= Least(i, root) /\ Least(i, root) \in Nat
      BY <2>1, <2>3, FullIfQuiet, MinimumIs DEF Least
    <3> QED
      BY <1>10, <1>11, <2>1, <2>3, <3>1
  <2> QED
    BY <2>2, <2>3
<1>14. r'.right # root /\ InnerSize(inners'[Top.id]) >= MIN_N
  BY <1>1, <1>7, <1>9, <1>10 DEF Split, t
<1>15. PICK V : V = U
  OBVIOUS
<1>16. \A i \in T : i \in V
  BY <1>15
<1>17. /\ Owned(inners', V, Orphans')
       /\ \A i \in V : InnerSize(inners'[i]) >= Least(i, root)
                                               - (IF IsReported(i)' THEN 1 ELSE 0)
  BY <1>12, <1>13, <1>15
<1>18. InnersFilled(V)'
  BY ONLY Good(h), InnersFilled(T), <1>1, <1>14, <1>16, <1>17, AscendFilled
<1>19. V = T \cup {Len(inners) + 1}
  BY <1>4, <1>15 DEF m
<1> QED
  BY <1>18, <1>19

\* The root was split: a new root takes the two halves, which have the minimum.
LEMMA InsertReturnSplitFilled ==
  ASSUME NEW h, Good(h), NEW T, InnersFilled(T), InsertReturnSplit
  PROVE  \E V : V = T \cup {Len(inners) + 1} /\ InnersFilled(V)'
<1> DEFINE m == Len(inners) + 1
           y == Inner(m)
           x == r.right
           n == [keys  |-> <<r.k>>,
                 child |-> <<root, x>>,
                 aug   |-> <<AugOf(root), AugOf(x)>>]
           U == (T \ {}) \cup {m}
<1>1. /\ pc = "insert_ascend" /\ stack = <<>> /\ r.tag = "Split"
      /\ inners' = Append(inners, n) /\ root' = y /\ Return(None)
  BY DEF InsertReturnSplit, AtRoot
<1>2. pc' = "idle" /\ stack' = <<>>
  BY <1>1 DEF Return
<1>3. Orphans = {root, x} /\ x # root
  BY <1>1 DEF Orphans, InnersFilled, IsSplit
<1>4. /\ inners \in Seq(InnerRec) /\ DOMAIN inners = 1 .. Len(inners) /\ Len(inners) \in Nat
  BY StoreParts DEF Good
<1>5. /\ \A i \in DOMAIN inners : y \notin KidsOf(inners, i)
      /\ y # root /\ y # x /\ m \notin DOMAIN inners
  BY <1>1, NewIsFresh
<1>6. n.child = <<root, x>> /\ InnerSize(n) = 1
  BY DEF InnerSize
<1> HIDE DEF n
<1>7. /\ DOMAIN inners' = DOMAIN inners \cup {m} /\ inners'[m] = n
      /\ \A i \in DOMAIN inners : inners'[i] = inners[i]
  BY <1>1, <1>4
<1>8. Orphans' = {y} /\ T \subseteq DOMAIN inners
  BY <1>1, <1>2 DEF Orphans, InnersFilled, Owned, IsSplit
<1>9. IsInjective(n.child) /\ Range(n.child) = {root, x}
  BY <1>3, <1>6 DEF IsInjective, Range
<1> HIDE DEF m, y, x
<1>10. Owned(inners', U, Orphans')
  <2> DEFINE A == {}
             B == {m}
             F == {y}
  <2>1. Pool(inners, A, Orphans) = {root, x}
    BY <1>3 DEF Pool
  <2>2. /\ Owned(inners, T, Orphans) /\ A \subseteq T
        /\ B \subseteq DOMAIN inners' /\ B \cap (T \ A) = {}
    BY <1>5, <1>7, <1>8 DEF InnersFilled
  <2>3. \A i \in T \ A : i \in DOMAIN inners' /\ inners'[i] = inners[i]
    BY <1>7, <1>8
  <2>4. \A i \in T : KidsOf(inners, i) \cap F = {}
    BY <1>5, <1>8
  <2>5. Orphans' \subseteq Pool(inners, A, Orphans) \cup F
    BY <1>8
  <2>6. \A b \in B : /\ IsInjective(inners'[b].child) /\ KidsOf(inners', b) \cap Orphans' = {}
                    /\ KidsOf(inners', b) \subseteq Pool(inners, A, Orphans) \cup F
    BY <1>5, <1>7, <1>8, <1>9, <2>1 DEF KidsOf
  <2>7. \A b, c \in B : b # c => KidsOf(inners', b) \cap KidsOf(inners', c) = {}
    OBVIOUS
  <2>8. \A z \in Pool(inners, A, Orphans) \cup F :
            z.kind = "inner" => z.id \in (T \ A) \cup B
    BY <1>3, <2>1 DEF InnersFilled, Owned, y, Inner
  <2>9. \A i \in T \ A : \A z \in KidsOf(inners, i) : z.kind = "inner" => z.id \notin A \ B
    OBVIOUS
  <2>10. /\ \A z \in Orphans' : z.kind = "inner" => z.id \in (T \ A) \cup B
         /\ \A b \in B : \A z \in KidsOf(inners', b) : z.kind = "inner" => z.id \in (T \ A) \cup B
    BY <2>5, <2>6, <2>8
  <2>11. U = (T \ A) \cup B
    OBVIOUS
  <2> HIDE DEF A, B, F, U
  <2> QED
    BY ONLY <2>2, <2>3, <2>4, <2>5, <2>6, <2>7, <2>9, <2>10, <2>11, RewireOwned
<1>11. ASSUME NEW i \in U PROVE InnerSize(inners[i])' >= LeastKeys(i)'
  <2>1. ~IsReported(i) /\ ~IsReported(i)'
    BY <1>1, <1>2 DEF IsReported
  <2>2. LeastKeys(i)' = Least(i, root')
    BY <2>1, MinimumIs DEF LeastKeys, Least
  <2>3. CASE i = m
    <3>1. Least(i, root') = 1
      BY <1>1, <2>3 DEF Least, y
    <3> QED
      BY <1>6, <1>7, <2>2, <2>3, <3>1 DEF InnerSize
  <2>4. CASE i \in T
    <3>1. Inner(i) # root'
      BY <1>1, <1>5, <1>8, <2>4 DEF Inner, y
    <3>2. InnerSize(inners[i]) >= MIN_N
      <4>1. CASE Inner(i) = root
        <5>1. Current = root /\ Current.kind = "inner" /\ Current.id = i
          BY <1>1, <4>1 DEF Current, EndOf, Inner
        <5> QED
          BY <1>1, <5>1 DEF InnersFilled, IsSplit
      <4>2. CASE Inner(i) # root
        BY <2>1, <2>4, <4>2, FullIfQuiet DEF Least
      <4> QED
        BY <4>1, <4>2
    <3>3. inners'[i] = inners[i]
      BY <1>7, <1>8, <2>4
    <3> QED
      BY <2>2, <3>1, <3>2, <3>3 DEF Least, InnerSize
  <2> QED
    BY <2>3, <2>4
<1>12. PICK V : V = U
  OBVIOUS
<1>13. InnersFilled(V)'
  <2>1. Owned(inners, V, Orphans)'
    BY <1>10, <1>12
  <2>2. \A i \in V : InnerSize(inners[i])' >= LeastKeys(i)'
    BY <1>11, <1>12
  <2> QED
    BY <1>2, <2>1, <2>2 DEF InnersFilled, IsSplit
<1>14. V = T \cup {Len(inners) + 1}
  BY <1>12 DEF m
<1> QED
  BY <1>13, <1>14

-----------------------------------------------------------------------------
(* The return that lets the root go                                        *)

\* A root without keys leaves the tree, and its only child is the new root.
LEMMA RemoveReturnInnerFilled ==
  ASSUME NEW h, Good(h), NEW T, InnersFilled(T), RemoveReturnInnerUnderSize
  PROVE  \E V : /\ V = IF InnerSize(inners[root.id]) = 0 THEN T \ {root.id} ELSE T
                /\ InnersFilled(V)'
<1> DEFINE t == root.id
           x == inners[t].child[1]
           U == (T \ {t}) \cup {}
<1>1. /\ pc = "remove_ascend" /\ stack = <<>> /\ r.tag = "InnerUnderSize"
      /\ root' = IF InnerSize(inners[t]) = 0 THEN x ELSE root
      /\ UNCHANGED inners /\ \E z : Return(z)
  BY DEF RemoveReturnInnerUnderSize, AtRoot, store
<1>2. pc' = "idle" /\ stack' = <<>>
  BY <1>1 DEF Return
<1>3. Orphans = {root} /\ Orphans' = {root'}
  BY <1>1, <1>2 DEF Orphans, IsSplit
<1>4. Current = root
  BY <1>1 DEF Current, EndOf
<1>5. root.kind = "inner"
  BY <1>1, <1>4, RemoveFields
<1>6. StoreOK(leaves, inners, h) /\ root \in NodesAt(Len(leaves), h, HeightOf(h, root))
  BY DEF Good, IsAt
<1>7. t \in T /\ t \in DOMAIN inners /\ root = Inner(t)
  BY <1>3, <1>5, <1>6, IdKnown DEF InnersFilled, Owned
<1>8. \A i \in T : i # t => ~IsReported(i) /\ InnerSize(inners[i]) >= MIN_N
  <2>1. \A i \in T : i # t => Inner(i) # root
    BY <1>7 DEF Inner
  <2> QED
    BY <1>4, <2>1, FullIfQuiet DEF IsReported, Least
<1>9. ~IsShort' /\ ~IsSplit'
  BY <1>2 DEF IsShort, IsSplit
<1>10. \A i : LeastKeys(i)' = Least(i, root')
  <2>1. \A i : ~IsReported(i)'
    BY <1>2 DEF IsReported
  <2> QED
    BY <2>1, MinimumIs DEF LeastKeys, Least
<1>11. InnerSize(inners[t]) \in Nat
  BY <1>6, <1>7, ChildAt, InnerParts DEF InnerSize, StoreOK
<1>12. CASE InnerSize(inners[t]) # 0
  <2>1. root' = root
    BY <1>1, <1>12
  <2>2. Owned(inners', T, Orphans')
    BY <1>1, <1>3, <2>1 DEF InnersFilled
  <2>3. \A i \in T : InnerSize(inners[i])' >= LeastKeys(i)'
    BY <1>1, <1>7, <1>8, <1>10, <1>11, <1>12, <2>1, MinimumIs DEF Least, InnerSize, Inner
  <2>4. InnersFilled(T)'
    BY <1>2, <2>2, <2>3 DEF InnersFilled, IsSplit
  <2> QED
    BY <1>12, <2>4
<1>13. CASE InnerSize(inners[t]) = 0
  <2>1. root' = x
    BY <1>1, <1>13
  <2>2. x \in KidsOf(inners, t)
    <3>1. 1 \in DOMAIN inners[t].child
      <4>1. IsInner(inners[t], Key, NodesAt(Len(leaves), h, h[t] - 1))
        BY <1>6, <1>7 DEF StoreOK
      <4>2. DOMAIN inners[t].child = 1 .. InnerSize(inners[t]) + 1
        BY <4>1, InnerParts DEF InnerSize
      <4> QED
        BY <1>13, <4>2
    <3> QED
      BY <3>1 DEF KidsOf, Range
  <2>3. x # root /\ \A i \in T : i # t => root \notin KidsOf(inners, i)
    BY <1>3, <1>7, <2>2 DEF InnersFilled, Owned, KidsOf
  <2>4. x.kind = "inner" => x.id \in T /\ x = Inner(x.id) /\ x.id # t
    <3>1. x.kind = "inner" => x.id \in T
      BY <1>7, <2>2 DEF InnersFilled, Owned, KidsOf
    <3>2. x.kind = "inner" => x = Inner(x.id)
      BY <1>7, <2>2, KidKnown
    <3> QED
      BY <1>7, <2>3, <3>1, <3>2
  <2> HIDE DEF x, t
  <2>5. Owned(inners', U, Orphans')
    <3> DEFINE A == {t}
               B == {}
               F == {}
    <3>1. Pool(inners, A, Orphans) = {root} \cup KidsOf(inners, t)
      BY <1>3 DEF Pool
    <3>2. /\ Owned(inners, T, Orphans) /\ A \subseteq T
          /\ B \subseteq DOMAIN inners' /\ B \cap (T \ A) = {}
      BY <1>7 DEF InnersFilled
    <3>3. \A i \in T \ A : i \in DOMAIN inners' /\ inners'[i] = inners[i]
      BY <1>1, <3>2 DEF Owned
    <3>4. \A i \in T : KidsOf(inners, i) \cap F = {}
      OBVIOUS
    <3>5. Orphans' \subseteq Pool(inners, A, Orphans) \cup F
      BY <1>3, <2>1, <2>2, <3>1
    <3>6. \A b \in B : /\ IsInjective(inners'[b].child)
                      /\ KidsOf(inners', b) \cap Orphans' = {}
                      /\ KidsOf(inners', b) \subseteq Pool(inners, A, Orphans) \cup F
      OBVIOUS
    <3>7. \A b, c \in B : b # c => KidsOf(inners', b) \cap KidsOf(inners', c) = {}
      OBVIOUS
    <3>8. \A z \in Orphans' : z.kind = "inner" => z.id \in (T \ A) \cup B
      BY <1>3, <2>1, <2>4
    <3>9. \A b \in B : \A z \in KidsOf(inners', b) : z.kind = "inner" => z.id \in (T \ A) \cup B
      OBVIOUS
    <3>10. \A i \in T \ A : \A z \in KidsOf(inners, i) : z.kind = "inner" => z.id \notin A \ B
      <4> SUFFICES ASSUME NEW i \in T \ A, NEW z \in KidsOf(inners, i), z.kind = "inner"
                   PROVE  z.id # t
        OBVIOUS
      <4>1. i \in DOMAIN inners
        BY <3>2 DEF Owned
      <4>2. z = Inner(z.id)
        BY <4>1, KidKnown
      <4> QED
        BY <1>7, <2>3, <4>2
    <3>11. U = (T \ A) \cup B
      OBVIOUS
    <3> HIDE DEF A, B, F, U
    <3> QED
      BY ONLY <3>2, <3>3, <3>4, <3>5, <3>6, <3>7, <3>8, <3>9, <3>10, <3>11, RewireOwned
  <2>6. \A i \in U : InnerSize(inners[i])' >= LeastKeys(i)'
    <3> SUFFICES ASSUME NEW i \in U PROVE InnerSize(inners[i])' >= LeastKeys(i)'
      OBVIOUS
    <3>1. InnerSize(inners[i]) >= MIN_N /\ i \in DOMAIN inners
      BY <1>8 DEF InnersFilled, Owned
    <3>2. InnerSize(inners[i]) \in Nat
      BY <1>6, <3>1, InnerParts DEF InnerSize, StoreOK
    <3>3. LeastKeys(i)' = Least(i, root')
      BY <1>10
    <3>4. Least(i, root') \in Nat /\ Least(i, root') <= MIN_N /\ MIN_N \in Nat
      BY MinimumIs DEF Least
    <3>5. InnerSize(inners[i])' = InnerSize(inners[i])
      BY <1>1 DEF InnerSize
    <3> QED
      BY <3>1, <3>2, <3>3, <3>4, <3>5
  <2>7. PICK V : V = U
    OBVIOUS
  <2>8. Owned(inners, V, Orphans)' /\ \A i \in V : InnerSize(inners[i])' >= LeastKeys(i)'
    BY <2>5, <2>6, <2>7
  <2>9. InnersFilled(V)'
    BY <1>2, <2>8 DEF InnersFilled, IsSplit
  <2> QED
    BY <1>13, <2>7, <2>9 DEF t
<1> QED
  BY <1>12, <1>13

-----------------------------------------------------------------------------
(* The steps on two inner siblings                                         *)

\* The siblings on both sides of a key of the parent are two inner nodes of the tree.
LEMMA SiblingFacts ==
  ASSUME NEW h, Good(h), NEW T, InnersFilled(T), stack # <<>>, Current.kind = "inner",
         NEW c \in 1 .. Len(Parent.keys) + 1, NEW a, a = Parent.child[c].id
  PROVE  /\ a \in T /\ a \in DOMAIN inners /\ a # Top.id
         /\ Parent.child[c] = Inner(a) /\ Inner(a) # root
         /\ InnerAt(c) = inners[a] /\ InnerSize(inners[a]) \in Nat
         /\ IsInner(inners[a], Key, NodesAt(Len(leaves), h, h[Top.id] - 1 - 1))
         /\ Kids(inners[a], KidsOf(inners, a))
         /\ KidsOf(inners, a) \cap KidsOf(inners, Top.id) = {}
         /\ root \notin KidsOf(inners, a) /\ root \notin KidsOf(inners, Top.id)
<1> DEFINE x == Parent.child[c]
           t == Top.id
<1>1. /\ t \in T /\ t \in DOMAIN inners /\ Current \in KidsOf(inners, t)
      /\ \A d \in 1 .. InnerSize(Parent) + 1 : Parent.child[d] \in KidsOf(inners, t)
  BY ParentFacts
<1>2. /\ a \in DOMAIN inners /\ h[a] = h[t] - 1 /\ InnerAt(c) = inners[a]
      /\ IsInner(InnerAt(c), Key, NodesAt(Len(leaves), h, h[t] - 1 - 1))
  BY InnerSiblings
<1>3. x \in KidsOf(inners, t)
  BY <1>1 DEF InnerSize
<1>4. \A i \in DOMAIN inners : h[i] \in Nat \ {0}
  BY StoreParts DEF Good
<1> HIDE DEF t, x
<1>5. Current.id \in DOMAIN inners /\ h[Current.id] = h[t] - 1
  BY <1>1, KidKnown
<1>6. /\ x \in NodeId /\ HeightOf(h, x) = h[t] - 1
      /\ x.kind = "inner" => x = Inner(x.id)
  BY <1>1, <1>3, KidKnown
<1>7. x.kind = "inner"
  <2>1. HeightOf(h, x) # 0
    BY <1>4, <1>5, <1>6
  <2>2. x.kind # "leaf"
    BY <2>1 DEF HeightOf
  <2> QED
    BY <1>6, <2>2 DEF NodeId
<1>8. x = Inner(a) /\ x.id = a
  BY <1>6, <1>7 DEF x
<1>9. a # t
  BY <1>1, <1>2, <1>4
<1>10. a \in T /\ x \notin Orphans /\ root \in Orphans
  BY <1>1, <1>3, <1>7, <1>8 DEF InnersFilled, Owned, KidsOf, Orphans
<1>11. Kids(inners[a], KidsOf(inners, a))
  BY <1>10 DEF InnersFilled, Owned, Kids, Once, KidsOf
<1>12. /\ KidsOf(inners, a) \cap KidsOf(inners, t) = {}
       /\ root \notin KidsOf(inners, a) /\ root \notin KidsOf(inners, t)
  BY <1>1, <1>9, <1>10 DEF InnersFilled, Owned, KidsOf
<1>13. InnerSize(inners[a]) \in Nat
  BY <1>2, InnerParts DEF InnerSize
<1> QED
  BY <1>2, <1>8, <1>9, <1>10, <1>11, <1>12, <1>13 DEF x, t

\* Two siblings are two nodes, and share no child.
LEMMA TwoSiblings ==
  ASSUME NEW h, Good(h), NEW T, InnersFilled(T), stack # <<>>, Current.kind = "inner",
         NEW slot \in 1 .. Len(Parent.keys),
         NEW a, a = Parent.child[slot].id, NEW b, b = Parent.child[slot + 1].id
  PROVE  a # b /\ KidsOf(inners, a) \cap KidsOf(inners, b) = {}
<1>1. /\ DOMAIN Parent.child = 1 .. Len(Parent.keys) + 1 /\ Len(Parent.keys) \in Nat
      /\ Kids(Parent, KidsOf(inners, Top.id))
  BY ParentFacts DEF InnerSize
<1>2. slot \in 1 .. Len(Parent.keys) + 1 /\ slot + 1 \in 1 .. Len(Parent.keys) + 1
  BY <1>1
<1>3. a \in T /\ Parent.child[slot] = Inner(a)
  BY <1>2, SiblingFacts
<1>4. b \in T /\ Parent.child[slot + 1] = Inner(b)
  BY <1>2, SiblingFacts
<1>5. Parent.child[slot] # Parent.child[slot + 1]
  BY <1>1, <1>2 DEF Kids, Once, IsInjective
<1>6. a # b
  BY <1>3, <1>4, <1>5
<1> QED
  BY <1>3, <1>4, <1>6 DEF InnersFilled, Owned, KidsOf

(***************************************************************************)
(* Two siblings trade a child for the separator of the parent: both have   *)
(* the minimum afterwards.                                                 *)
(***************************************************************************)
LEMMA RotateInnerFilled ==
  ASSUME NEW h, Good(h), NEW T, InnersFilled(T), stack # <<>>, PopStack,
         pc = "remove_ascend", Current.kind = "inner", r.tag = "InnerUnderSize",
         UNCHANGED <<root, pc>>, NEW kv, r' = Done(kv),
         NEW slot \in 1 .. Len(Parent.keys), Top.idx \in {slot, slot + 1},
         NEW a, a = Parent.child[slot].id, NEW b, b = Parent.child[slot + 1].id,
         NEW x, NEW y, NEW z, z.child = Parent.child, InnerSize(z) = InnerSize(Parent),
         inners' = [inners EXCEPT ![a] = x, ![b] = y, ![Top.id] = z],
         NEW Q, NEW P, Kids(x, Q), Kids(y, P), Q \cap P = {},
         Q \cup P \subseteq KidsOf(inners, a) \cup KidsOf(inners, b),
         InnerSize(x) \in Nat, InnerSize(y) \in Nat,
         InnerSize(x) >= MIN_N, InnerSize(y) >= MIN_N
  PROVE  InnersFilled(T)'
<1> DEFINE t == Top.id
           A == {t, a, b}
<1>1. /\ t \in T /\ t \in DOMAIN inners /\ Kids(Parent, KidsOf(inners, t))
      /\ Current = Parent.child[Top.idx] /\ Len(Parent.keys) \in Nat
      /\ InnerSize(Parent) \in Nat /\ InnerSize(Parent) >= Least(t, root)
  BY ParentFacts DEF InnerSize
<1>2. slot \in 1 .. Len(Parent.keys) + 1 /\ slot + 1 \in 1 .. Len(Parent.keys) + 1
  BY <1>1
<1>3. /\ a \in T /\ a \in DOMAIN inners /\ a # t /\ Parent.child[slot] = Inner(a)
      /\ KidsOf(inners, a) \cap KidsOf(inners, t) = {}
      /\ root \notin KidsOf(inners, a) /\ root \notin KidsOf(inners, t)
  BY <1>2, SiblingFacts
<1>4. /\ b \in T /\ b \in DOMAIN inners /\ b # t /\ Parent.child[slot + 1] = Inner(b)
      /\ KidsOf(inners, b) \cap KidsOf(inners, t) = {}
      /\ root \notin KidsOf(inners, b)
  BY <1>2, SiblingFacts
<1>5. a # b
  BY TwoSiblings
<1> HIDE DEF t
<1>6. /\ DOMAIN inners' = DOMAIN inners
      /\ inners'[t] = z /\ inners'[a] = x /\ inners'[b] = y
      /\ \A i \in T \ A : inners'[i] = inners[i]
  BY <1>1, <1>3, <1>4, <1>5 DEF t, InnersFilled, Owned
<1>7. Orphans = {root} /\ Orphans' = {root}
  BY DEF Orphans, IsSplit
<1>8. KidsOf(inners', a) = Q /\ KidsOf(inners', b) = P /\ KidsOf(inners', t) = KidsOf(inners, t)
  BY <1>1, <1>6 DEF Kids, Once, KidsOf
<1>9. Owned(inners', T, Orphans')
  <2>1. Pool(inners, A, Orphans) =
            {root} \cup KidsOf(inners, t) \cup KidsOf(inners, a) \cup KidsOf(inners, b)
    BY <1>7 DEF Pool
  <2>2. Owned(inners, T, Orphans) /\ A \subseteq T
    BY <1>1, <1>3, <1>4 DEF InnersFilled
  <2>3. Orphans' \subseteq Pool(inners, A, Orphans)
    BY <1>7, <2>1
  <2>4. root \notin Q /\ root \notin P
    BY <1>3, <1>4
  <2>5. IsInjective(x.child) /\ IsInjective(y.child) /\ IsInjective(z.child)
    BY <1>1 DEF Kids, Once
  <2>6. \A c \in A : /\ IsInjective(inners'[c].child) /\ KidsOf(inners', c) \cap Orphans' = {}
                    /\ KidsOf(inners', c) \subseteq Pool(inners, A, Orphans)
    <3> SUFFICES ASSUME NEW c \in A
                 PROVE  /\ IsInjective(inners'[c].child) /\ root \notin KidsOf(inners', c)
                        /\ KidsOf(inners', c) \subseteq Pool(inners, A, Orphans)
      BY <1>7
    <3>1. CASE c = t
      <4>1. inners'[c] = z /\ KidsOf(inners', c) = KidsOf(inners, t)
        BY <1>6, <1>8, <3>1
      <4>2. KidsOf(inners, t) \subseteq Pool(inners, A, Orphans)
        BY ONLY <2>1
      <4> QED
        BY ONLY <1>3, <2>5, <4>1, <4>2
    <3>2. CASE c = a
      BY <1>6, <1>8, <2>1, <2>4, <2>5, <3>2
    <3>3. CASE c = b
      BY <1>6, <1>8, <2>1, <2>4, <2>5, <3>3
    <3> QED
      BY <3>1, <3>2, <3>3
  <2>7. \A c, d \in A : c # d => KidsOf(inners', c) \cap KidsOf(inners', d) = {}
    <3>1. Q \cap KidsOf(inners, t) = {} /\ P \cap KidsOf(inners, t) = {}
      BY <1>3, <1>4
    <3> QED
      BY <1>8, <3>1
  <2>8. DOMAIN inners' = DOMAIN inners /\ \A i \in T \ A : inners'[i] = inners[i]
    BY <1>6
  <2> HIDE DEF A
  <2> QED
    BY ONLY <2>2, <2>3, <2>6, <2>7, <2>8, RewriteOwned
<1>10. \A i : ~IsReported(i)'
  BY DEF IsReported, Done
<1>11. ASSUME NEW i \in T
       PROVE  InnerSize(inners'[i]) >= Least(i, root) - (IF IsReported(i)' THEN 1 ELSE 0)
  <2>1. Least(i, root) \in Nat /\ Least(i, root) <= MIN_N /\ MIN_N \in Nat
    BY MinimumIs DEF Least
  <2>2. CASE i = t
    BY <1>1, <1>6, <1>10, <2>1, <2>2
  <2>3. CASE i \in {a, b}
    <3>1. InnerSize(inners'[i]) >= MIN_N /\ InnerSize(inners'[i]) \in Nat
      BY <1>6, <2>3
    <3> QED
      BY <1>10, <2>1, <3>1
  <2>4. CASE i \notin A
    <3>1. Current # Inner(i)
      <4>1. Current \in {Inner(a), Inner(b)}
        BY <1>1, <1>3, <1>4
      <4> QED
        BY <2>4, <4>1 DEF Inner
    <3>2. ~IsReported(i)
      BY <3>1 DEF IsReported
    <3>3. InnerSize(inners[i]) >= Least(i, root) /\ inners'[i] = inners[i]
      BY <1>6, <2>4, <3>2, FullIfQuiet
    <3> QED
      BY <1>10, <2>1, <3>3
  <2> QED
    BY <2>2, <2>3, <2>4
<1>12. \A i \in T : h[Top.id] < h[i] => i \in T
  OBVIOUS
<1>13. ~(pc = "insert_ascend" /\ r'.tag = "Split")
  BY DEF Done
<1> HIDE DEF A
<1> QED
  BY <1>9, <1>11, <1>12, <1>13, AscendFilled

\* What a rotation of inner nodes writes to the parent leaves its shape.
LEMMA RotatedParent ==
  ASSUME NEW h, Good(h), stack # <<>>, NEW slot \in 1 .. Len(Parent.keys),
         NEW k, NEW e, NEW f
  PROVE  LET z == SetAugmentation(SetAugmentation(SetKey(Parent, slot, k), slot, e),
                                  slot + 1, f)
         IN  z.child = Parent.child /\ InnerSize(z) = InnerSize(Parent)
<1> DEFINE z == SetAugmentation(SetAugmentation(SetKey(Parent, slot, k), slot, e),
                                slot + 1, f)
<1>1. Parent \in [keys : Seq(Key), child : Seq(NodesAt(Len(leaves), h, h[Top.id] - 1)),
                  aug : Seq(Nat)]
  BY TopFacts DEF IsInner
<1>2. z.child = Parent.child /\ z.keys = [Parent.keys EXCEPT ![slot] = k]
  BY <1>1 DEF SetKey, SetAugmentation
<1>3. Parent.keys \in Seq(Key)
  BY <1>1
<1> HIDE DEF z
<1>4. InnerSize(z) = InnerSize(Parent)
  BY <1>2, <1>3, PutLen DEF InnerSize
<1> QED
  BY <1>2, <1>4 DEF z

\* A node that lends has the minimum left, one that borrows has it again.
LEMMA LendAndBorrow ==
  ASSUME NEW T, InnersFilled(T), NEW a \in T, Inner(a) # root, InnerSize(inners[a]) \in Nat
  PROVE  /\ InnerSize(inners[a]) + 1 >= MIN_N
         /\ InnerAbleToLend(inners[a]) => InnerSize(inners[a]) - 1 >= MIN_N
         /\ InnerAbleToLend(inners[a]) => Len(inners[a].keys) > 0
<1>1. InnerSize(inners[a]) >= LeastKeys(a)
  BY DEF InnersFilled
<1>2. LeastKeys(a) \in {MIN_N, MIN_N - 1}
  BY MinimumIs DEF LeastKeys
<1> QED
  BY <1>1, <1>2, MinimumIs DEF InnerAbleToLend, InnerSize

\* The last child of the left node moves to the right one.
LEMMA RotateRightInnerFilled ==
  ASSUME NEW h, Good(h), NEW T, InnersFilled(T), RotateRightInner
  PROVE  InnersFilled(T)'
<1> DEFINE slot  == Top.idx - 1
           prev  == InnerAt(slot)
           left  == PopInner(prev)
           child == prev.child[Len(prev.child)]
           aug   == prev.aug[Len(prev.aug)]
           right == PushFrontInner(InnerAt(slot + 1), Parent.keys[slot], child, aug)
           k     == prev.keys[Len(prev.keys)]
           z     == SetAugmentation(SetAugmentation(SetKey(Parent, slot, k),
                                                    slot, FromInner(left.aug)),
                                    slot + 1, FromInner(right.aug))
           a     == Parent.child[slot].id
           b     == Parent.child[slot + 1].id
           Ka    == KidsOf(inners, a)
           Kb    == KidsOf(inners, b)
           D     == NodesAt(Len(leaves), h, h[Top.id] - 1 - 1)
<1>1. /\ pc = "remove_ascend" /\ stack # <<>> /\ r.tag = "InnerUnderSize" /\ PopStack
      /\ Top.idx > 1 /\ InnerAbleToLend(prev)
      /\ inners' = [inners EXCEPT ![a] = left, ![b] = right, ![Top.id] = z]
      /\ r' = Done(r.kv) /\ UNCHANGED <<root, pc>>
  BY DEF RotateRightInner, Ascending, PrevInnerLends, HasPrev
<1>2. Current.kind = "inner"
  BY <1>1, RemoveFields
<1>3. /\ Top.idx \in 1 .. Len(Parent.keys) + 1 /\ Len(Parent.keys) \in Nat
      /\ IsInner(Parent, Key, NodesAt(Len(leaves), h, h[Top.id] - 1))
  BY <1>1, TopFacts
<1>4. /\ slot \in 1 .. Len(Parent.keys) /\ slot \in 1 .. Len(Parent.keys) + 1
      /\ slot + 1 \in 1 .. Len(Parent.keys) + 1 /\ slot + 1 = Top.idx
  BY <1>1, <1>3
<1>5. z.child = Parent.child /\ InnerSize(z) = InnerSize(Parent)
  <2> HIDE DEF slot, k, left, right
  <2> QED
    BY <1>1, <1>4, RotatedParent
<1> HIDE DEF slot, z
<1>6. /\ a \in T /\ Inner(a) # root /\ prev = inners[a] /\ InnerSize(prev) \in Nat
      /\ IsInner(prev, Key, D) /\ Kids(prev, Ka)
  BY <1>1, <1>2, <1>4, SiblingFacts
<1>7. /\ b \in T /\ Inner(b) # root /\ InnerAt(slot + 1) = inners[b]
      /\ InnerSize(inners[b]) \in Nat
      /\ IsInner(inners[b], Key, D) /\ Kids(inners[b], Kb)
  BY <1>1, <1>2, <1>4, SiblingFacts
<1>8. Ka \cap Kb = {}
  BY <1>1, <1>2, <1>4, TwoSiblings
<1>9. Parent.keys[slot] \in Key
  BY <1>3, <1>4, InnerParts, ElementOfSeq
<1>10. InnerSize(prev) - 1 >= MIN_N /\ Len(prev.keys) > 0 /\ InnerSize(inners[b]) + 1 >= MIN_N
  BY <1>1, <1>6, <1>7, LendAndBorrow
<1> HIDE DEF prev, a, b, Ka, Kb, D
<1>11. /\ prev.child \in Seq(D) /\ prev.aug \in Seq(Nat)
       /\ Len(prev.child) > 0 /\ Len(prev.aug) > 0
  BY <1>6, <1>10, InnerParts DEF IsInner
<1>12. child \in D /\ aug \in Nat
  BY <1>11, EndsType
<1>13. child \in Ka
  <2>1. Len(prev.child) \in DOMAIN prev.child
    BY <1>11, LenProperties
  <2> QED
    BY <1>6, <2>1 DEF Kids, Once, Range
<1>14. Kids(left, Ka \ {child}) /\ InnerSize(left) = InnerSize(prev) - 1
  BY <1>6, <1>10, PopInnerKids, PopInnerType DEF InnerSize
<1> HIDE DEF child, aug, left
<1>15. Kids(right, Kb \cup {child}) /\ InnerSize(right) = InnerSize(inners[b]) + 1
  <2>1. child \notin Kb
    BY <1>8, <1>13
  <2> DEFINE y == inners[b]
             s == Parent.keys[slot]
  <2>2. right = PushFrontInner(y, s, child, aug)
    BY <1>7
  <2>3. IsInner(y, Key, D) /\ Kids(y, Kb) /\ s \in Key
    BY <1>7, <1>9
  <2> HIDE DEF y, s, right
  <2>4. Kids(right, Kb \cup {child})
    BY ONLY <1>12, <2>1, <2>2, <2>3, PushInnerKids
  <2>5. Len(right.keys) = Len(y.keys) + 1
    BY ONLY <1>12, <2>2, <2>3, PushInnerType
  <2> QED
    BY <2>4, <2>5 DEF InnerSize, y
<1> HIDE DEF right
<1> DEFINE Q == Ka \ {child}
           P == Kb \cup {child}
<1>16. Q \cap P = {} /\ Q \cup P \subseteq Ka \cup Kb
  BY <1>8, <1>13
<1>17. /\ InnerSize(left) \in Nat /\ InnerSize(left) >= MIN_N
       /\ InnerSize(right) \in Nat /\ InnerSize(right) >= MIN_N
  BY <1>6, <1>7, <1>10, <1>14, <1>15, MinimumIs
<1>18. Kids(left, Q) /\ Kids(right, P)
  BY <1>14, <1>15
<1>19. Top.idx \in {slot, slot + 1}
  BY <1>4
<1> HIDE DEF Q, P
<1>20. /\ a = Parent.child[slot].id /\ b = Parent.child[slot + 1].id
       /\ Q \cup P \subseteq KidsOf(inners, a) \cup KidsOf(inners, b)
  BY <1>16 DEF a, b, Ka, Kb
<1> QED
  BY ONLY Good(h), InnersFilled(T), <1>1, <1>2, <1>4, <1>5, <1>16, <1>17, <1>18, <1>19,
          <1>20, RotateInnerFilled

\* The first child of the right node moves to the left one.
LEMMA RotateLeftInnerFilled ==
  ASSUME NEW h, Good(h), NEW T, InnersFilled(T), RotateLeftInner
  PROVE  InnersFilled(T)'
<1> DEFINE slot  == Top.idx
           next  == InnerAt(slot + 1)
           right == PopFrontInner(next)
           child == next.child[1]
           aug   == next.aug[1]
           left  == PushInner(InnerAt(slot), Parent.keys[slot], child, aug)
           k     == next.keys[1]
           z     == SetAugmentation(SetAugmentation(SetKey(Parent, slot, k),
                                                    slot, FromInner(left.aug)),
                                    slot + 1, FromInner(right.aug))
           a     == Parent.child[slot].id
           b     == Parent.child[slot + 1].id
           Ka    == KidsOf(inners, a)
           Kb    == KidsOf(inners, b)
           D     == NodesAt(Len(leaves), h, h[Top.id] - 1 - 1)
<1>1. /\ pc = "remove_ascend" /\ stack # <<>> /\ r.tag = "InnerUnderSize" /\ PopStack
      /\ Top.idx <= Len(Parent.keys) /\ InnerAbleToLend(next)
      /\ inners' = [inners EXCEPT ![a] = left, ![b] = right, ![Top.id] = z]
      /\ r' = Done(r.kv) /\ UNCHANGED <<root, pc>>
  BY DEF RotateLeftInner, Ascending, NextInnerLends, HasNext, InnerSize
<1>2. Current.kind = "inner"
  BY <1>1, RemoveFields
<1>3. /\ Top.idx \in 1 .. Len(Parent.keys) + 1 /\ Len(Parent.keys) \in Nat
      /\ IsInner(Parent, Key, NodesAt(Len(leaves), h, h[Top.id] - 1))
  BY <1>1, TopFacts
<1>4. /\ slot \in 1 .. Len(Parent.keys) /\ slot \in 1 .. Len(Parent.keys) + 1
      /\ slot + 1 \in 1 .. Len(Parent.keys) + 1
  BY <1>1, <1>3
<1>5. z.child = Parent.child /\ InnerSize(z) = InnerSize(Parent)
  <2> HIDE DEF slot, k, left, right
  <2> QED
    BY <1>1, <1>4, RotatedParent
<1>6. Top.idx \in {slot, slot + 1}
  OBVIOUS
<1> HIDE DEF slot, z
<1>7. /\ a \in T /\ Inner(a) # root /\ InnerAt(slot) = inners[a]
      /\ InnerSize(inners[a]) \in Nat
      /\ IsInner(inners[a], Key, D) /\ Kids(inners[a], Ka)
  BY <1>1, <1>2, <1>4, SiblingFacts
<1>8. /\ b \in T /\ Inner(b) # root /\ next = inners[b] /\ InnerSize(next) \in Nat
      /\ IsInner(next, Key, D) /\ Kids(next, Kb)
  BY <1>1, <1>2, <1>4, SiblingFacts
<1>9. Ka \cap Kb = {}
  BY <1>1, <1>2, <1>4, TwoSiblings
<1>10. Parent.keys[slot] \in Key
  BY <1>3, <1>4, InnerParts, ElementOfSeq
<1>11. InnerSize(next) - 1 >= MIN_N /\ Len(next.keys) > 0 /\ InnerSize(inners[a]) + 1 >= MIN_N
  BY <1>1, <1>7, <1>8, LendAndBorrow
<1> HIDE DEF next, a, b, Ka, Kb, D
<1>12. /\ next.child \in Seq(D) /\ next.aug \in Seq(Nat)
       /\ Len(next.child) > 0 /\ Len(next.aug) > 0
  BY <1>8, <1>11, InnerParts DEF IsInner
<1>13. child \in D /\ aug \in Nat
  BY <1>12, EndsType
<1>14. child \in Kb
  <2>1. 1 \in DOMAIN next.child
    BY <1>12, LenProperties
  <2> QED
    BY <1>8, <2>1 DEF Kids, Once, Range
<1>15. Kids(right, Kb \ {child}) /\ InnerSize(right) = InnerSize(next) - 1
  BY <1>8, <1>11, PopInnerKids, PopInnerType DEF InnerSize
<1> HIDE DEF child, aug, right
<1>16. Kids(left, Ka \cup {child}) /\ InnerSize(left) = InnerSize(inners[a]) + 1
  <2>1. child \notin Ka
    BY <1>9, <1>14
  <2> DEFINE x == inners[a]
             s == Parent.keys[slot]
  <2>2. left = PushInner(x, s, child, aug)
    BY <1>7
  <2>3. IsInner(x, Key, D) /\ Kids(x, Ka) /\ s \in Key
    BY <1>7, <1>10
  <2> HIDE DEF x, s, left
  <2>4. Kids(left, Ka \cup {child})
    BY ONLY <1>13, <2>1, <2>2, <2>3, PushInnerKids
  <2>5. Len(left.keys) = Len(x.keys) + 1
    BY ONLY <1>13, <2>2, <2>3, PushInnerType
  <2> QED
    BY <2>4, <2>5 DEF InnerSize, x
<1> HIDE DEF left
<1> DEFINE Q == Ka \cup {child}
           P == Kb \ {child}
<1>17. Q \cap P = {} /\ Q \cup P \subseteq Ka \cup Kb
  BY <1>9, <1>14
<1>18. /\ InnerSize(left) \in Nat /\ InnerSize(left) >= MIN_N
       /\ InnerSize(right) \in Nat /\ InnerSize(right) >= MIN_N
  BY <1>7, <1>8, <1>11, <1>15, <1>16, MinimumIs
<1>19. Kids(left, Q) /\ Kids(right, P)
  BY <1>15, <1>16
<1> HIDE DEF Q, P
<1>20. /\ a = Parent.child[slot].id /\ b = Parent.child[slot + 1].id
       /\ Q \cup P \subseteq KidsOf(inners, a) \cup KidsOf(inners, b)
  BY <1>17 DEF a, b, Ka, Kb
<1> QED
  BY ONLY Good(h), InnersFilled(T), <1>1, <1>2, <1>4, <1>5, <1>6, <1>17, <1>18, <1>19,
          <1>20, RotateInnerFilled

(***************************************************************************)
(* Two siblings merge: the right one leaves the tree, and the parent, with *)
(* a key less, may be the next to be reported.                             *)
(***************************************************************************)
LEMMA MergeInnerFilled ==
  ASSUME NEW h, Good(h), NEW T, InnersFilled(T), MergeInner
  PROVE  LET slot == IF HasPrev THEN Top.idx - 1 ELSE Top.idx
         IN  \E V : V = T \ {Parent.child[slot + 1].id} /\ InnersFilled(V)'
<1> DEFINE slot == IF HasPrev THEN Top.idx - 1 ELSE Top.idx
           left == MergeNext(InnerAt(slot), Parent.keys[slot], InnerAt(slot + 1))
           p    == MergedParent(slot, FromInner(left.aug))
           t    == Top.id
           a    == Parent.child[slot].id
           b    == Parent.child[slot + 1].id
           Kt   == KidsOf(inners, t)
           Ka   == KidsOf(inners, a)
           Kb   == KidsOf(inners, b)
           D    == NodesAt(Len(leaves), h, h[Top.id] - 1 - 1)
<1>1. /\ pc = "remove_ascend" /\ stack # <<>> /\ r.tag = "InnerUnderSize" /\ PopStack
      /\ HasPrev \/ HasNext
      /\ inners' = [inners EXCEPT ![a] = left, ![t] = p]
      /\ r' = AfterMerge(p, r.kv) /\ UNCHANGED <<root, pc>>
  BY DEF MergeInner, Ascending
<1>2. Current.kind = "inner"
  BY <1>1, RemoveFields
<1>3. /\ Top.idx \in 1 .. Len(Parent.keys) + 1 /\ Len(Parent.keys) \in Nat
      /\ IsInner(Parent, Key, NodesAt(Len(leaves), h, h[Top.id] - 1))
      /\ Current = Parent.child[Top.idx]
      /\ t \in T /\ t \in DOMAIN inners
  BY <1>1, ParentFacts DEF InnerSize
<1>4. slot \in 1 .. Len(Parent.keys) /\ Top.idx \in {slot, slot + 1}
  BY <1>1, <1>3 DEF HasPrev, HasNext, InnerSize
<1>5. slot \in 1 .. Len(Parent.keys) + 1 /\ slot + 1 \in 1 .. Len(Parent.keys) + 1
  BY <1>3, <1>4
<1> HIDE DEF slot
<1>6. /\ a \in T /\ a \in DOMAIN inners /\ a # t /\ InnerAt(slot) = inners[a]
      /\ Parent.child[slot] = Inner(a) /\ Inner(a) # root /\ InnerSize(inners[a]) \in Nat
      /\ IsInner(inners[a], Key, D) /\ Kids(inners[a], Ka)
      /\ Ka \cap Kt = {} /\ root \notin Ka /\ root \notin Kt
  BY <1>1, <1>2, <1>5, SiblingFacts
<1>7. /\ b \in T /\ b \in DOMAIN inners /\ b # t /\ InnerAt(slot + 1) = inners[b]
      /\ Parent.child[slot + 1] = Inner(b) /\ Inner(b) # root
      /\ InnerSize(inners[b]) \in Nat
      /\ IsInner(inners[b], Key, D) /\ Kids(inners[b], Kb)
      /\ Kb \cap Kt = {} /\ root \notin Kb
  BY <1>1, <1>2, <1>5, SiblingFacts
<1>8. a # b /\ Ka \cap Kb = {}
  BY <1>1, <1>2, <1>4, TwoSiblings
<1>9. h[b] = h[t] - 1 /\ h[t] \in Nat
  BY <1>1, <1>2, <1>5, InnerSiblings, TopFacts
<1>10. Parent.keys[slot] \in Key
  BY <1>3, <1>4, InnerParts, ElementOfSeq
<1>11. Kids(p, Kt \ {Inner(b)}) /\ InnerSize(p) = InnerSize(Parent) - 1
  <2> DEFINE e == FromInner(left.aug)
  <2>1. p = MergedParent(slot, e)
    OBVIOUS
  <2> HIDE DEF e
  <2> QED
    BY <1>1, <1>4, <1>7, <2>1, MergedParentFilled
<1>12. Inner(b) \in Kt
  <2>1. DOMAIN Parent.child = 1 .. Len(Parent.keys) + 1 /\ Kids(Parent, Kt)
    BY <1>1, ParentFacts DEF InnerSize
  <2> QED
    BY <1>5, <1>7, <2>1 DEF Kids, Once, Range
<1> HIDE DEF p, t, a, b, Kt, Ka, Kb, D
<1>13. Kids(left, Ka \cup Kb)
       /\ InnerSize(left) = (InnerSize(inners[a]) + 1) + InnerSize(inners[b])
  <2> DEFINE x == inners[a]
             y == inners[b]
             k == Parent.keys[slot]
  <2>1. IsInner(x, Key, D) /\ IsInner(y, Key, D) /\ k \in Key
    BY <1>6, <1>7, <1>10
  <2>2. Kids(x, Ka) /\ Kids(y, Kb) /\ Ka \cap Kb = {}
    BY <1>6, <1>7, <1>8
  <2>3. left = MergeNext(x, k, y)
    BY <1>6, <1>7
  <2> HIDE DEF x, y, k, left
  <2>4. Kids(left, Ka \cup Kb)
    BY ONLY <2>1, <2>2, <2>3, MergeNextKids
  <2>5. /\ IsInner(MergeNext(x, k, y), Key, D)
        /\ Len(MergeNext(x, k, y).keys) = MergedSize(x, y)
    BY ONLY <2>1, MergeNextType
  <2> QED
    BY <2>3, <2>4, <2>5 DEF InnerSize, MergedSize, x, y
<1> HIDE DEF left
<1>14. /\ DOMAIN inners' = DOMAIN inners /\ inners'[t] = p /\ inners'[a] = left
       /\ \A i \in DOMAIN inners \ {t, a} : inners'[i] = inners[i]
       /\ T \subseteq DOMAIN inners
  BY <1>1, <1>3, <1>6 DEF InnersFilled, Owned
<1>15. Orphans = {root} /\ Orphans' = {root}
  BY <1>1 DEF Orphans, IsSplit
<1>16. KidsOf(inners', a) = Ka \cup Kb /\ KidsOf(inners', t) = Kt \ {Inner(b)}
  BY <1>11, <1>13, <1>14 DEF Kids, Once, KidsOf
<1>17. \A i \in T : \A x \in KidsOf(inners, i) :
           x.kind = "inner" => x.id \in T /\ (x.id = b => i = t /\ x = Inner(b))
  <2> SUFFICES ASSUME NEW i \in T, NEW x \in KidsOf(inners, i), x.kind = "inner"
               PROVE  x.id \in T /\ (x.id = b => i = t /\ x = Inner(b))
    OBVIOUS
  <2>1. x.id \in T
    BY DEF InnersFilled, Owned, KidsOf
  <2>2. x = Inner(x.id)
    BY <1>14, KidKnown
  <2>3. i # t => KidsOf(inners, i) \cap Kt = {}
    BY <1>3 DEF InnersFilled, Owned, KidsOf, Kt
  <2> QED
    BY <1>12, <2>1, <2>2, <2>3
<1> DEFINE A == {t, a, b}
           B == {t, a}
           F == {}
           U == (T \ A) \cup B
<1>18. Owned(inners', U, Orphans')
  <2>1. Pool(inners, A, Orphans) \cup F = {root} \cup Kt \cup Ka \cup Kb
    BY <1>15 DEF Pool, Kt, Ka, Kb
  <2>2. /\ Owned(inners, T, Orphans) /\ A \subseteq T
        /\ B \subseteq DOMAIN inners' /\ B \cap (T \ A) = {}
    BY <1>3, <1>6, <1>7, <1>14 DEF InnersFilled
  <2>3. \A i \in T \ A : i \in DOMAIN inners' /\ inners'[i] = inners[i]
    BY <1>14
  <2>4. \A i \in T : KidsOf(inners, i) \cap F = {}
    OBVIOUS
  <2>5. Orphans' \subseteq Pool(inners, A, Orphans) \cup F
    BY <1>15, <2>1
  <2>6. IsInjective(p.child) /\ IsInjective(left.child)
    BY <1>11, <1>13 DEF Kids, Once
  <2>7. \A c \in B : /\ IsInjective(inners'[c].child)
                    /\ KidsOf(inners', c) \cap Orphans' = {}
                    /\ KidsOf(inners', c) \subseteq Pool(inners, A, Orphans) \cup F
    <3> SUFFICES ASSUME NEW c \in B
                 PROVE  /\ IsInjective(inners'[c].child) /\ root \notin KidsOf(inners', c)
                        /\ KidsOf(inners', c) \subseteq Pool(inners, A, Orphans) \cup F
      BY <1>15
    <3>1. CASE c = t
      BY <1>6, <1>14, <1>16, <2>1, <2>6, <3>1
    <3>2. CASE c = a
      BY <1>6, <1>7, <1>14, <1>16, <2>1, <2>6, <3>2
    <3> QED
      BY <3>1, <3>2
  <2>8. \A c, d \in B : c # d => KidsOf(inners', c) \cap KidsOf(inners', d) = {}
    BY <1>6, <1>7, <1>16
  <2>9. \A x \in Orphans' : x.kind = "inner" => x.id \in U
    <3>1. root.kind = "inner" => root.id \in T /\ root = Inner(root.id)
      <4>1. StoreOK(leaves, inners, h) /\ root \in NodesAt(Len(leaves), h, HeightOf(h, root))
        BY DEF Good, IsAt
      <4>2. root.kind = "inner" => root.id \in T
        BY <1>15 DEF InnersFilled, Owned
      <4> QED
        BY <4>1, <4>2, IdKnown
    <3>2. root.kind = "inner" => root.id # b
      BY <1>7, <3>1
    <3> QED
      BY <1>8, <1>15, <3>1, <3>2
  <2>10. \A c \in B : \A x \in KidsOf(inners', c) : x.kind = "inner" => x.id \in U
    <3> SUFFICES ASSUME NEW c \in B, NEW x \in KidsOf(inners', c), x.kind = "inner"
                 PROVE  x.id \in T /\ x.id # b
      BY <1>8
    <3>1. CASE c = t
      <4>1. x \in KidsOf(inners, t) /\ x # Inner(b)
        BY <1>16, <3>1 DEF Kt
      <4> QED
        BY <1>3, <1>17, <4>1
    <3>2. CASE c = a
      <4>1. x \in KidsOf(inners, a) \/ x \in KidsOf(inners, b)
        BY <1>16, <3>2 DEF Ka, Kb
      <4> QED
        BY <1>6, <1>7, <1>17, <4>1
    <3> QED
      BY <3>1, <3>2
  <2>11. \A i \in T \ A : \A x \in KidsOf(inners, i) : x.kind = "inner" => x.id \notin A \ B
    BY <1>17
  <2>12. U = (T \ A) \cup B
    OBVIOUS
  <2> HIDE DEF A, B, F, U
  <2> QED
    BY ONLY <2>2, <2>3, <2>4, <2>5, <2>7, <2>8, <2>9, <2>10, <2>11, <2>12, RewireOwned
<1>19. InnerSize(Parent) \in Nat
  BY <1>1, ParentFacts
<1>20. \/ InnerSize(p) >= Least(Top.id, root)
       \/ IsShort' /\ InnerSize(p) >= Least(Top.id, root) - 1
  BY <1>1, <1>11, AfterMergeFilled
<1>21. Current' = Inner(t)
  BY <1>1, PopFacts DEF t
<1>22. ASSUME NEW i \in U
       PROVE  InnerSize(inners'[i]) >= Least(i, root) - (IF IsReported(i)' THEN 1 ELSE 0)
  <2>1. Least(i, root) \in Nat /\ Least(i, root) <= MIN_N /\ MIN_N \in Nat /\ MIN_N >= 1
    BY MinimumIs DEF Least
  <2>2. CASE i = t
    <3>1. IsReported(i)' <=> IsShort'
      BY <1>21, <2>2 DEF IsReported, IsShort
    <3>2. InnerSize(inners'[i]) = InnerSize(p) /\ InnerSize(p) \in Int
      BY <1>11, <1>14, <1>19, <2>2
    <3>3. \/ InnerSize(p) >= Least(i, root)
          \/ IsShort' /\ InnerSize(p) >= Least(i, root) - 1
      BY <1>20, <2>2 DEF t
    <3>4. CASE IsShort'
      BY <2>1, <3>1, <3>2, <3>3, <3>4
    <3>5. CASE ~IsShort'
      BY <2>1, <3>1, <3>2, <3>3, <3>5
    <3> QED
      BY <3>4, <3>5
  <2>3. CASE i # t
    <3>1. ~IsReported(i)'
      BY <1>21, <2>3 DEF IsReported, Inner
    <3>2. CASE i = a
      <4>1. InnerSize(inners[a]) + 1 >= MIN_N /\ InnerSize(inners[b]) + 1 >= MIN_N
        BY <1>6, <1>7, LendAndBorrow
      <4> QED
        BY <1>6, <1>7, <1>13, <1>14, <2>1, <3>1, <3>2, <4>1
    <3>3. CASE i \in T \ A
      <4>1. Current # Inner(i)
        <5>1. Current \in {Inner(a), Inner(b)}
          BY <1>3, <1>4, <1>6, <1>7
        <5> QED
          BY <3>3, <5>1 DEF Inner
      <4>2. ~IsReported(i)
        BY <4>1 DEF IsReported
      <4>3. InnerSize(inners[i]) >= Least(i, root) /\ inners'[i] = inners[i]
        BY <1>14, <3>3, <4>2, FullIfQuiet
      <4> QED
        BY <2>1, <3>1, <4>3
    <3> QED
      BY <2>3, <3>2, <3>3
  <2> QED
    BY <2>2, <2>3
<1>23. PICK V : V = U
  OBVIOUS
<1>24. \A i \in T : h[Top.id] < h[i] => i \in V
  <2>1. \A i \in T : h[t] < h[i] => i # b
    BY <1>9
  <2> QED
    BY <1>8, <1>23, <2>1 DEF t
<1>25. ~(pc = "insert_ascend" /\ r'.tag = "Split")
  BY <1>1
<1>26. /\ Owned(inners', V, Orphans')
       /\ \A i \in V : InnerSize(inners'[i]) >= Least(i, root)
                                               - (IF IsReported(i)' THEN 1 ELSE 0)
  BY <1>18, <1>22, <1>23
<1>27. InnersFilled(V)'
  BY ONLY Good(h), InnersFilled(T), <1>1, <1>24, <1>25, <1>26, AscendFilled
<1>28. V = T \ {b}
  BY <1>3, <1>6, <1>7, <1>8, <1>23
<1> QED
  BY <1>27, <1>28 DEF b, slot

-----------------------------------------------------------------------------
(* The theorems                                                            *)

\* Every step leads from a tree in shape to a tree in shape.
LEMMA StepFilled ==
  ASSUME NEW h, Good(h), NEW T, InnersFilled(T), [Next]_vars
  PROVE  \E V : InnersFilled(V)'
<1>1. CASE Call
  <2>1. InnersFilled(T)' \/ InnersFilled({})'
    BY <1>1, CallFilled
  <2> QED
    BY <2>1
<1>2. CASE InsertStep
  <2>1. CASE InsertDescend
    BY <2>1, DescentFilled
  <2>2. CASE InsertLeafUpdate \/ InsertLeafInsert \/ InsertAscendUpdated
             \/ InsertReturnInserted \/ InsertReturnUpdated
    BY <2>2, QuietStepFilled
  <2>3. CASE InsertLeafSplit
    BY <2>3, InsertLeafSplitFilled
  <2>4. CASE InsertAscendSlot
    BY <2>4, InsertAscendSlotFilled
  <2>5. CASE InsertAscendSplit
    BY <2>5, InsertAscendSplitFilled
  <2>6. CASE InsertAscendInserted
    BY <2>6, RefreshFilled
  <2>7. CASE InsertReturnSplit
    BY <2>7, InsertReturnSplitFilled
  <2> QED
    BY <1>2, <2>1, <2>2, <2>3, <2>4, <2>5, <2>6, <2>7 DEF InsertStep
<1>3. CASE RemoveStep
  <2>1. CASE KeyToRefDescend \/ KeyToRefMissing \/ AugmentationDescend \/ AugmentationMissing
    BY <2>1, DescentFilled
  <2>2. CASE RemoveInLeaf \/ RemoveReturnDone \/ RemoveReturnLeafUnderSize
    BY <2>2, QuietStepFilled
  <2>3. CASE RemoveAscendDone
    BY <2>3, RefreshFilled
  <2>4. CASE RotateRightInner
    BY <2>4, RotateRightInnerFilled
  <2>5. CASE RotateLeftInner
    BY <2>5, RotateLeftInnerFilled
  <2>6. CASE MergeInner
    BY <2>6, MergeInnerFilled
  <2>7. CASE RotateRightLeaf \/ RotateLeftLeaf
    BY <2>7, RotateLeavesFilled
  <2>8. CASE MergeLeafLeft \/ MergeLeafRight
    BY <2>8, MergeLeafFilled
  <2>9. CASE RemoveReturnInnerUnderSize
    BY <2>9, RemoveReturnInnerFilled
  <2> QED
    BY <1>3, <2>1, <2>2, <2>3, <2>4, <2>5, <2>6, <2>7, <2>8, <2>9 DEF RemoveStep
<1>4. CASE FindStep
  BY <1>4, DescentFilled
<1>5. CASE UNCHANGED vars
  <2>1. UNCHANGED <<root, inners, pc, stack, r>>
    BY <1>5 DEF vars, tree, frame, store
  <2>2. Orphans' = Orphans /\ Current' = Current
    BY <2>1 DEF Orphans, Current, IsSplit
  <2>3. \A i : LeastKeys(i)' = LeastKeys(i)
    BY <2>1, <2>2 DEF LeastKeys, IsReported
  <2>4. InnersFilled(T)'
    BY <2>1, <2>2, <2>3 DEF InnersFilled, InnerSize, IsSplit
  <2> QED
    BY <2>4
<1> QED
  BY <1>1, <1>2, <1>3, <1>4, <1>5 DEF Next, Step

(***************************************************************************)
(* In a tree grown by the calls of the API no inner node has two parents,  *)
(* and each has its minimum of keys unless the ascent of a removal is just *)
(* now reporting it.  A node without a sibling is thus never reported.     *)
(***************************************************************************)
LEMMA ShapeAndSibling == Spec => [](TreeShaped /\ SiblingAtHand)
<1> DEFINE Fine == (\E h : Good(h)) /\ (\E T : InnersFilled(T))
<1>1. Init => Fine
  BY InitOK, InitFilled
<1>2. Fine /\ [Next]_vars => Fine'
  <2> SUFFICES ASSUME Fine, [Next]_vars PROVE Fine'
    OBVIOUS
  <2>1. PICK h : Good(h)
    OBVIOUS
  <2>2. PICK T : InnersFilled(T)
    OBVIOUS
  <2>3. PICK g : Good(g)'
    BY <2>1, StepOK
  <2>4. PICK V : InnersFilled(V)'
    BY <2>1, <2>2, StepFilled
  <2> QED
    BY <2>3, <2>4
<1>3. Fine => TreeShaped /\ SiblingAtHand
  <2> SUFFICES ASSUME Fine PROVE TreeShaped /\ SiblingAtHand
    OBVIOUS
  <2>1. PICK h : Good(h)
    OBVIOUS
  <2>2. PICK T : InnersFilled(T)
    OBVIOUS
  <2>3. T \subseteq DOMAIN inners
    BY <2>2 DEF InnersFilled, Owned
  <2>4. TreeShaped
    BY <2>2, <2>3 DEF TreeShaped
  <2> QED
    BY <2>1, <2>2, <2>4, FilledHasSibling
<1> HIDE DEF Fine
<1> QED
  BY <1>1, <1>2, <1>3, PTL DEF Spec

\* The inner nodes of the tree have one parent each, and the minimum of keys.
THEOREM StaysShaped == Spec => []TreeShaped
BY ShapeAndSibling, PTL

(***************************************************************************)
(* The unreachable!() of handle_leaf_under_size and the debug_assert! of   *)
(* merge_inner_node (tree_remove.rs) are never reached from a new tree.    *)
(***************************************************************************)
THEOREM SiblingAlwaysAtHand == Spec => []SiblingAtHand
BY ShapeAndSibling, PTL
=============================================================================
