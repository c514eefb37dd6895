----------------------------- MODULE Iterators -----------------------------
(***************************************************************************)
(* The iterators of src/src/tree/iterator.rs over a tree between calls.    *)
(* Iter borrows the tree, so nothing changes under it.  IntoIter owns the  *)
(* tree: it moves each pair out of its slot and leaves the slot without    *)
(* one, and its drop moves out the pairs that are left (so does the drop   *)
(* of a BPlusTree, which turns itself into an IntoIter).                   *)
(*                                                                         *)
(* Offsets count from 1, except that IntoIter's end is the number of       *)
(* entries of its leaf yet to be moved out from the back.                  *)
(***************************************************************************)
EXTENDS TreeProperties

VARIABLES iter,   \* an Iter, or None
          into,   \* an IntoIter, or None
          front,  \* where the items from next were: pairs of leaf and offset
          back    \* where the items from next_back were

iterVars == <<iter, into, front, back>>

\* Iter; end is the place that next_back reached, or None before its first use.
IterPlace  == [leaf : Nat, offset : Nat]
IterRecord == [len : Nat, leaf : Nat \cup {None}, offset : Nat, end : IterPlace \cup {None}]

\* IntoIter, and the call of it that is in progress.
IntoRecord == [len : Nat, pos : Nat \X Nat, end : Nat \X Nat,
               busy : {"no", "next", "next_back", "drop", "dropped"}]

ASSUME IteratorAssumption == None \notin IterPlace \cup IterRecord \cup IntoRecord

IterInit == iter = None /\ into = None /\ front = <<>> /\ back = <<>>

-----------------------------------------------------------------------------
(* Iter                                                                    *)

\* Iter::new
IterNew ==
    /\ pc = "idle" /\ iter = None /\ into = None
    /\ iter' = [len |-> len, leaf |-> FirstLeaf, offset |-> 1, end |-> None]
    /\ UNCHANGED <<vars, into, front, back>>

\* Mutation: takes the last entry of a leaf for one that has a successor.
Mutant_IterAfter(it) ==
    IF it.offset + 1 <= LeafSize(leaves[it.leaf]) + 1 THEN [it EXCEPT !.offset = @ + 1]
    ELSE [it EXCEPT !.leaf = leaves[it.leaf].next, !.offset = 1]

\* The position after the item of an iterator: in the leaf, or in the next one.
IterAfter(it) ==
    IF it.offset + 1 <= LeafSize(leaves[it.leaf]) THEN [it EXCEPT !.offset = @ + 1]
    ELSE [it EXCEPT !.leaf = leaves[it.leaf].next, !.offset = 1]

\* Iter::next; it counts down len, which size_hint answers.
IterNext ==
    /\ iter # None
    /\ iter.len > 0 /\ iter.leaf # None
    /\ front' = Append(front, <<iter.leaf, iter.offset>>)
    /\ iter' = [IterAfter(iter) EXCEPT !.len = @ - 1]
    /\ UNCHANGED <<vars, into, back>>

(***************************************************************************)
(* The next place of the back end, or None: the last entry, then one entry *)
(* before the place reached, in the leaf or in the leaf before.  The code  *)
(* keeps the place reached when there is none before it.                   *)
(***************************************************************************)
BackAfter(end) ==
    IF end = None THEN [leaf |-> LastLeaf, offset |-> LeafSize(leaves[LastLeaf])]
    ELSE IF end.offset > 1 THEN [end EXCEPT !.offset = @ - 1]
    ELSE LET prev == leaves[end.leaf].prev
         IN  IF prev = None THEN None
             ELSE [leaf |-> prev, offset |-> LeafSize(leaves[prev])]

\* Iter::next_back; len is only looked at, so it may pass the front end.
IterNextBack ==
    /\ iter # None
    /\ iter.len > 0
    /\ LET place == BackAfter(iter.end)
       IN  /\ place # None
           /\ back' = Append(back, <<place.leaf, place.offset>>)
           /\ iter' = [iter EXCEPT !.end = place]
    /\ UNCHANGED <<vars, into, front>>

\* next and next_back have nothing more to give.
FrontIsOver == iter.len = 0 \/ iter.leaf = None
BackIsOver  == iter.len = 0 \/ BackAfter(iter.end) = None

\* The borrow ends.
IterDrop ==
    /\ iter # None
    /\ iter' = None /\ front' = <<>> /\ back' = <<>>
    /\ UNCHANGED <<vars, into>>

-----------------------------------------------------------------------------
(* IntoIter                                                                *)

\* Mutation: the back end starts one entry short.
Mutant_IntoIterOf == [len |-> len, pos |-> <<FirstLeaf, 1>>,
                      end |-> <<LastLeaf, LeafSize(leaves[LastLeaf]) - 1>>, busy |-> "no"]

\* IntoIter::new; busy is the call in progress: a turn may only change leaf.
IntoIterOf == [len |-> len, pos |-> <<FirstLeaf, 1>>,
               end |-> <<LastLeaf, LeafSize(leaves[LastLeaf])>>, busy |-> "no"]

IntoIterNew ==
    /\ pc = "idle" /\ iter = None /\ into = None
    /\ into' = IntoIterOf
    /\ UNCHANGED <<vars, iter, front, back>>

\* A call of next or next_back, or the drop, begins.
IntoIterCall(what) ==
    /\ into # None /\ into.busy = "no"
    /\ what = "drop" \/ into.len > 0
    /\ into' = [into EXCEPT !.busy = what]
    /\ UNCHANGED <<vars, iter, front, back>>

\* The loop of drop is one of next; a call of next or next_back ends with its item.
StillBusy == IF into.busy = "drop" THEN "drop" ELSE "no"

\* IntoIter::next: take_data moves the pair out of the slot.
IntoNextTake ==
    /\ into # None /\ into.busy \in {"next", "drop"} /\ into.len > 0
    /\ into.pos[2] <= LeafSize(leaves[into.pos[1]])
    /\ front' = Append(front, into.pos)
    /\ into' = [into EXCEPT !.len = @ - 1, !.pos[2] = @ + 1, !.busy = StillBusy]
    /\ UNCHANGED <<vars, iter, back>>

\* The leaf is used up: next calls itself on the next leaf.  A leaf without a
\* next one is unreachable!(), where no action is enabled.
IntoNextLeaf ==
    /\ into # None /\ into.busy \in {"next", "drop"} /\ into.len > 0
    /\ into.pos[2] > LeafSize(leaves[into.pos[1]])
    /\ leaves[into.pos[1]].next # None
    /\ into' = [into EXCEPT !.pos = <<leaves[into.pos[1]].next, 1>>]
    /\ UNCHANGED <<vars, iter, front, back>>

\* Mutation: does not count down.
Mutant_IntoBackTake ==
    /\ into # None /\ into.busy = "next_back" /\ into.len > 0
    /\ into.end[2] > 0
    /\ back' = Append(back, into.end)
    /\ into' = [into EXCEPT !.end[2] = @ - 1, !.busy = "no"]
    /\ UNCHANGED <<vars, iter, front>>

\* IntoIter::next_back
IntoBackTake ==
    /\ into # None /\ into.busy = "next_back" /\ into.len > 0
    /\ into.end[2] > 0
    /\ back' = Append(back, into.end)
    /\ into' = [into EXCEPT !.len = @ - 1, !.end[2] = @ - 1, !.busy = "no"]
    /\ UNCHANGED <<vars, iter, front>>

IntoBackLeaf ==
    /\ into # None /\ into.busy = "next_back" /\ into.len > 0
    /\ into.end[2] = 0
    /\ leaves[into.end[1]].prev # None
    /\ LET prev == leaves[into.end[1]].prev
       IN  into' = [into EXCEPT !.end = <<prev, LeafSize(leaves[prev])>>]
    /\ UNCHANGED <<vars, iter, front, back>>

\* The loop of drop is over; the store goes, and drops nothing more.
IntoIterDropped ==
    /\ into # None /\ into.busy = "drop" /\ into.len = 0
    /\ into' = [into EXCEPT !.busy = "dropped"]
    /\ UNCHANGED <<vars, iter, front, back>>

IterStep == IterNew \/ IterNext \/ IterNextBack \/ IterDrop

IntoIterTurn ==
    \/ IntoNextTake \/ IntoNextLeaf
    \/ IntoBackTake \/ IntoBackLeaf
    \/ IntoIterDropped

IntoIterStep ==
    \/ IntoIterNew
    \/ \E what \in {"next", "next_back", "drop"} : IntoIterCall(what)
    \/ IntoIterTurn

(***************************************************************************)
(* While an iterator is there the tree makes no calls.  A turn of IntoIter *)
(* is one of a call that its caller has begun, so it is fair.              *)
(***************************************************************************)
IteratorsSpec ==
    /\ Init /\ IterInit
    /\ [][\/ IterStep \/ IntoIterStep
          \/ iter = None /\ into = None /\ Next /\ UNCHANGED iterVars]_<<vars, iterVars>>
    /\ WF_<<vars, iterVars>>(IntoIterTurn)

-----------------------------------------------------------------------------

\* The places of the entries, in the order of the chain.
Places ==
    LET chain == Chain
    IN  FlattenSeq([i \in DOMAIN chain |->
            [n \in 1 .. LeafSize(leaves[chain[i]]) |-> <<chain[i], n>>]])

(***************************************************************************)
(* Either end of Iter gives the entries in order from its end of the tree, *)
(* none skipped where one leaf follows another, and stops only at the      *)
(* other end of the tree (or, for next_back, when next has given all).     *)
(* Until next_back is used, size_hint is exact.  That the two ends of one  *)
(* iterator meet is not among it: they pass each other.                    *)
(***************************************************************************)
IterInOrder ==
    iter # None =>
        LET places == Places
        IN  /\ IsPrefix(front, places) /\ IsPrefix(back, Reverse(places))
            /\ iter.len = Len(places) - Len(front)
            /\ FrontIsOver => front = places
            /\ BackIsOver  => back = Reverse(places) \/ front = places

(***************************************************************************)
(* IntoIter moves every pair out of its slot exactly once, however next,   *)
(* next_back and the drop of what is left follow one another: the front    *)
(* and the back never give the same slot, and after the drop no slot is    *)
(* left with a pair.  Otherwise a pair would be dropped twice or never.    *)
(***************************************************************************)
MovedOutOnce ==
    into # None =>
        LET places == Places
        IN  /\ into.len = Len(places) - Len(front) - Len(back)
            /\ IsPrefix(front, places) /\ IsPrefix(back, Reverse(places))
            /\ into.busy = "dropped" => front \o Reverse(back) = places

(***************************************************************************)
(* Every next, next_back and drop of an IntoIter ends: it never looks for  *)
(* an item past the last leaf or before the first, where the code has      *)
(* unreachable!().                                                         *)
(***************************************************************************)
IntoIterReturns ==
    into # None /\ into.busy \in {"next", "next_back", "drop"}
        ~> into # None /\ into.busy \in {"no", "dropped"}
=============================================================================
