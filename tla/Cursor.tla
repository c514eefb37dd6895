------------------------------- MODULE Cursor -------------------------------
(***************************************************************************)
(* Cursors (src/src/tree/cursor.rs): a cursor is a key with a hint of the  *)
(* leaf and the offset where the key was last seen.  It does not borrow    *)
(* the tree, so a client may keep one through any calls that change the    *)
(* tree, clear it, or remove the very key the cursor points to.            *)
(*                                                                         *)
(* Here one client makes calls of the tree and, between them, moves or     *)
(* reads its cursor.  Offsets count from 1.                                *)
(***************************************************************************)
EXTENDS TreeProperties

VARIABLES cursor,  \* the cursor the client holds, or None
          seen     \* the last use of the cursor, as long as no call came after it

cursorVars == <<cursor, seen>>

\* Cursor::new
CursorAt(k, leaf, offset) == [k |-> k, leaf |-> leaf, offset |-> offset]

CursorInit == cursor = None /\ seen = None

-----------------------------------------------------------------------------
(* How a cursor finds its place                                            *)

\* Mutation: trusts a leaf that is still in the store.
Mutant_LocateByHint(c) ==
    IF c.leaf \in LeafAlive THEN c.leaf
    ELSE IF CacheHit(c.k) THEN cached ELSE LeafFor(c.k)

(***************************************************************************)
(* Cursor::locate_leaf: the hinted leaf if it is still in the store and    *)
(* the key in its range; else BPlusTree::locate_leaf, which looks in the   *)
(* cache (and leaves it as it is) before it descends.                      *)
(***************************************************************************)
LocateByHint(c) ==
    IF c.leaf \in LeafAlive /\ InRange(leaves[c.leaf], c.k) THEN c.leaf
    ELSE IF CacheHit(c.k) THEN cached ELSE LeafFor(c.k)

\* try_data_at finds the cursor's own key at the hinted offset.
HintHolds(c, leaf) == c.offset <= LeafSize(leaf) /\ leaf.data[c.offset][1] = c.k

\* The offset of the cursor's key, or the one where it would be inserted.
OffsetIn(c, leaf) == IF HintHolds(c, leaf) THEN c.offset ELSE LocateSlot(leaf, c.k)

\* A cursor for the pair at an offset of leaf, with the pair; the hint names leaf id.
Landing(id, leaf, offset) ==
    [cursor |-> CursorAt(leaf.data[offset][1], id, offset), pair |-> leaf.data[offset]]

Nowhere == [cursor |-> None, pair |-> None]

(***************************************************************************)
(* next_with_value: the entry after the cursor's key in the leaf, or the   *)
(* first of the next leaf.  If the key is gone, the entry that took its    *)
(* place is the next one.                                                  *)
(***************************************************************************)
Following(c) ==
    LET id     == LocateByHint(c)
        leaf   == leaves[id]
        offset == OffsetIn(c, leaf) + (IF HasKey(leaf, c.k) THEN 1 ELSE 0)
    IN  IF offset <= LeafSize(leaf) THEN Landing(id, leaf, offset)
        ELSE IF leaf.next = None THEN Nowhere
        ELSE Landing(leaf.next, leaves[leaf.next], 1)

(***************************************************************************)
(* prev_with_value: the entry before the cursor's key, or the last of the  *)
(* previous leaf.  The new cursor's hint names the leaf that was located,  *)
(* even when its entry is in the leaf before.                              *)
(***************************************************************************)
Preceding(c) ==
    LET id     == LocateByHint(c)
        leaf   == leaves[id]
        offset == OffsetIn(c, leaf) - 1
    IN  IF offset >= 1 THEN Landing(id, leaf, offset)
        ELSE IF leaf.prev = None THEN Nowhere
        ELSE Landing(id, leaves[leaf.prev], LeafSize(leaves[leaf.prev]))

\* value: that of the cursor's key, or None once it is removed.
ValueAt(c) ==
    LET leaf == leaves[LocateByHint(c)]
    IN  IF HintHolds(c, leaf) THEN leaf.data[c.offset][2] ELSE ValueOf(leaf, c.k)

-----------------------------------------------------------------------------
(* The uses of a cursor                                                    *)

\* A use of the cursor is one call that only reads the tree.
Use(op, k, to, pair) ==
    /\ pc = "idle"
    /\ cursor' = to
    /\ seen' = [op |-> op, k |-> k, pair |-> pair]
    /\ UNCHANGED vars

(***************************************************************************)
(* Cursor::first.  An empty tree has a first leaf too, without entries:    *)
(* data_at(0) then reads slots that hold no pair, and any pair may come    *)
(* out.                                                                    *)
(***************************************************************************)
CursorFirst ==
    LET id == FirstLeaf
    IN  IF LeafSize(leaves[id]) > 0
        THEN LET l == Landing(id, leaves[id], 1)
             IN  Use("first", l.cursor.k, l.cursor, l.pair)
        ELSE \E k \in Key, v \in Value : Use("first", k, CursorAt(k, id, 1), <<k, v>>)

\* Cursor::last; on an empty tree leaf.len() - 1 wraps, which is left out here.
CursorLast ==
    LET id == LastLeaf
        l  == Landing(id, leaves[id], LeafSize(leaves[id]))
    IN  /\ LeafSize(leaves[id]) > 0
        /\ Use("last", l.cursor.k, l.cursor, l.pair)

\* get_cursor: the key need not be in the tree.
GetCursor(k) ==
    LET id   == LeafFor(k)
        leaf == leaves[id]
    IN  Use("value", k, CursorAt(k, id, LocateSlot(leaf, k)), <<k, ValueOf(leaf, k)>>)

\* A client keeps the cursor it has when there is no entry to move to.
MoveTo(op, l) ==
    Use(op, cursor.k, IF l = Nowhere THEN cursor ELSE l.cursor, l.pair)

CursorNext == cursor # None /\ MoveTo("next", Following(cursor))
CursorPrev == cursor # None /\ MoveTo("prev", Preceding(cursor))

\* value and exists
CursorValue ==
    /\ cursor # None
    /\ Use("value", cursor.k, cursor, <<cursor.k, ValueAt(cursor)>>)

CursorMove == CursorFirst \/ CursorLast \/ CursorNext \/ CursorPrev \/ CursorValue

CursorStep == CursorMove \/ \E k \in Key : GetCursor(k)

\* The tree changes while the client keeps its cursor.
CursorKept == seen' = None /\ UNCHANGED cursor

CursorSpec == /\ Init /\ CursorInit
              /\ [][CursorStep \/ (Next /\ CursorKept)]_<<vars, cursorVars>>

-----------------------------------------------------------------------------

\* The entry of the map with one of the given keys that Pick chooses, or None.
EntryOf(map, keys, Pick(_)) ==
    IF keys = {} THEN None ELSE <<Pick(keys), map[Pick(keys)]>>

(***************************************************************************)
(* A cursor is no more than its key: whatever calls the tree has seen      *)
(* since the cursor was made, next gives the entry of the smallest larger  *)
(* key in the map as it is now, prev that of the largest smaller key, and  *)
(* value what the map holds for the key.  The leaf it trusts may have been *)
(* split, merged, taken or refilled, and its offset may be another entry's.*)
(***************************************************************************)
CursorIsItsKey ==
    seen # None =>
        LET map  == Contents
            keys == DOMAIN map
        IN  CASE seen.op = "next"  -> seen.pair = EntryOf(map, {k \in keys : k > seen.k}, Min)
              [] seen.op = "prev"  -> seen.pair = EntryOf(map, {k \in keys : k < seen.k}, Max)
              [] seen.op = "value" -> seen.pair[2] = IF seen.k \in keys THEN map[seen.k] ELSE None
              [] seen.op = "last"  -> seen.pair = EntryOf(map, keys, Max)
              [] seen.op = "first" -> keys # {} => seen.pair = EntryOf(map, keys, Min)

(***************************************************************************)
(* cursor_first (mod.rs): "Create a `Cursor` from first elem if exists".   *)
(* A tree without elements has none to point to.                           *)
(***************************************************************************)
CursorFirstExists ==
    seen # None /\ seen.op = "first" =>
        \E k \in DOMAIN Contents : seen.pair = <<k, Contents[k]>>
=============================================================================
