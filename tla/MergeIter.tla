----------------------------- MODULE MergeIter -----------------------------
(***************************************************************************)
(* MergeIterInner (src/src/merge_iter.rs) and the Union of two sets over   *)
(* it (src/src/set.rs).  The sources are the iterators of two sets: each   *)
(* gives the keys of its set in ascending order, then None for ever.  Of a *)
(* source, what it has yet to give is kept.                                *)
(***************************************************************************)
EXTENDS Integers, FiniteSets, Sequences

CONSTANT NoItem   \* Rust's None

ASSUME NoItemAssumption == NoItem \notin Int \cup [side : {"A", "B"}, item : Int]

VARIABLES a, b,     \* what the two sources have yet to give
          peeked,   \* the item held back and the side it is of, or NoItem
          given,    \* what Union::next has given so far
          whole     \* the keys of the two sets

unionVars == <<a, b, peeked, given, whole>>

\* The items of a sequence, and sequences like those the iterator of a set gives.
Items(s) == {s[i] : i \in DOMAIN s}

StrictlyAscending(s) == \A i, j \in DOMAIN s : i < j => s[i] < s[j]

\* The next item of a source, and the source after it.
NextOf(s) == IF s = <<>> THEN NoItem ELSE Head(s)
After(s)  == IF s = <<>> THEN s ELSE Tail(s)

PeekedA == peeked # NoItem /\ peeked.side = "A"
PeekedB == peeked # NoItem /\ peeked.side = "B"

\* nexts: the item held back goes first, the other side is asked for one.
ANext == IF PeekedA THEN peeked.item ELSE NextOf(a)
BNext == IF PeekedB THEN peeked.item ELSE NextOf(b)

\* Mutation: holds the smaller item back.
Mutant_Hold(x, y) ==
    IF x = NoItem \/ y = NoItem \/ x = y THEN NoItem
    ELSE IF x > y THEN [side |-> "B", item |-> y] ELSE [side |-> "A", item |-> x]

\* nexts: of two different items the larger is held back for later.
Hold(x, y) ==
    IF x = NoItem \/ y = NoItem \/ x = y THEN NoItem
    ELSE IF x < y THEN [side |-> "B", item |-> y] ELSE [side |-> "A", item |-> x]

\* What Union gives of a pair of nexts: a_next.or(b_next), without what is held back.
Give(x, y) ==
    IF x = NoItem THEN y
    ELSE IF y # NoItem /\ y < x THEN y ELSE x

\* MergeIterInner::new
UnionInit(s, t) == /\ a = s /\ b = t /\ peeked = NoItem /\ given = <<>>
                   /\ whole = Items(s) \cup Items(t)

\* Union::next
UnionNext ==
    /\ ANext # NoItem \/ BNext # NoItem
    /\ a' = IF PeekedA THEN a ELSE After(a)
    /\ b' = IF PeekedB THEN b ELSE After(b)
    /\ peeked' = Hold(ANext, BNext)
    /\ given' = Append(given, Give(ANext, BNext))
    /\ UNCHANGED whole

\* Mutation: forgets the item held back.
Mutant_Lens == [a |-> Len(a), b |-> Len(b)]

\* lens, with the item held back.
Lens == [a |-> Len(a) + IF PeekedA THEN 1 ELSE 0,
         b |-> Len(b) + IF PeekedB THEN 1 ELSE 0]

\* Union::size_hint
SizeHint == [lower |-> IF Lens.a >= Lens.b THEN Lens.a ELSE Lens.b,
             upper |-> Lens.a + Lens.b]

UnionSpec == /\ \E s, t \in Seq(Int) : /\ StrictlyAscending(s) /\ StrictlyAscending(t)
                                      /\ UnionInit(s, t)
             /\ [][UnionNext]_unionVars

-----------------------------------------------------------------------------

(***************************************************************************)
(* BPlusTreeSet::union: "all the elements in `self` or `other`, without    *)
(* duplicates, in ascending order".  What has been given ascends, so that  *)
(* no key comes twice; it is of the two sets; and when neither side has an *)
(* item more, nothing is left out.                                         *)
(***************************************************************************)
UnionInOrder ==
    /\ StrictlyAscending(given)
    /\ Items(given) \subseteq whole
    /\ ANext = NoItem /\ BNext = NoItem => Items(given) = whole

(***************************************************************************)
(* size_hint bounds the number of items to come, also while one is held    *)
(* back and is in neither source any more.                                 *)
(***************************************************************************)
SizeHintBounds ==
    LET left == Cardinality(whole \ Items(given))
    IN  SizeHint.lower <= left /\ left <= SizeHint.upper
=============================================================================
