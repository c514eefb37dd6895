------------------------------ MODULE MCViews ------------------------------
(***************************************************************************)
(* Instances for TLC of what looks at a tree: cursors, threads that share  *)
(* it, iterators, and the union of two sets.  A behaviour has a client of  *)
(* one of these kinds, over a tree that was loaded and then changed by a   *)
(* few calls; a cursor's client makes calls between the uses of it.        *)
(***************************************************************************)
EXTENDS BulkLoad, Cursor, Iterators, Readers, MergeIter

CONSTANTS old, new, \* the two values
          Views,    \* the kinds of client
          Sizes,    \* how many keys a load has
          Asked,    \* bound: by the size of the load, the keys the client names
          Budget,   \* bound: by client and size, how many calls it makes
          UnionKey  \* the keys of the two sets

VARIABLES view,     \* the kind of client
          asked,    \* the keys it names
          left      \* the calls left to it

mcVars == <<vars, cursorVars, iterVars, readerVars, unionVars, view, asked, left>>

MCValue == {old, new}

\* A load of n keys, every other one, so that there is room to insert between them.
LoadOf(n) == [i \in 1 .. n |-> <<2 * i - 1, old>>]
MCLoads   == {LoadOf(n) : n \in Sizes}

AscendingOf(S) == SetToSortSeq(S, <)

MCInit ==
    /\ view \in Views
    /\ CursorInit /\ IterInit /\ ReadersInit
    /\ \/ /\ view = "union"
          /\ Init /\ asked = {} /\ left = 0
          /\ \E S, T \in SUBSET UnionKey : UnionInit(AscendingOf(S), AscendingOf(T))
       \/ /\ view # "union"
          /\ \E n \in Sizes : /\ LoadInit(LoadOf(n)) /\ asked = Asked[n]
                             /\ left = Budget[view][n]
          /\ UnionInit(<<>>, <<>>)

\* A call of the client, which no iterator or thread shares the tree with.
ClientCall ==
    /\ left > 0 /\ Unshared /\ iter = None /\ into = None
    /\ \/ \E k \in asked : InsertCall(k, new) \/ RemoveCall(k) \/ GetCached(k) \/ GetCall(k)
       \/ Clear
    /\ left' = left - 1

Running == Step /\ UNCHANGED left

TreeStep == /\ ClientCall \/ Running
            /\ CursorKept /\ UNCHANGED <<iterVars, readerVars, unionVars, view, asked>>

Of(kind) == view = kind /\ UNCHANGED <<view, asked, left>>

OfCursor == /\ Of("cursor")
            /\ CursorMove \/ \E k \in asked : GetCursor(k)
            /\ UNCHANGED <<iterVars, readerVars, unionVars>>

OfIter == /\ Of("iter") /\ IterStep
          /\ UNCHANGED <<cursorVars, readerVars, unionVars>>

OfInto(A) == /\ Of("into") /\ A
             /\ UNCHANGED <<cursorVars, readerVars, unionVars>>

OfReader(A) == /\ Of("readers") /\ A
               /\ UNCHANGED <<cursorVars, iterVars, unionVars>>

ReadersCall == \E t \in Reader, k \in asked : ReaderCall(t, k)
ReadersTurn == \E t \in Reader : ReaderTurn(t)

OfUnion == /\ Of("union") /\ UnionNext
           /\ UNCHANGED <<vars, cursorVars, iterVars, readerVars>>

\* The union is over, or the tree that an IntoIter owned is gone.
Over == /\ \/ view = "union" /\ ANext = None /\ BNext = None
           \/ into # None /\ into.busy = "dropped"
        /\ UNCHANGED mcVars

MCNext == \/ TreeStep
          \/ OfCursor \/ OfIter \/ OfInto(IntoIterStep) \/ OfUnion
          \/ OfReader(ReadersCall) \/ OfReader(ReadersTurn)
          \/ Over

MCSpec == /\ MCInit /\ [][MCNext]_mcVars
          /\ WF_mcVars(OfInto(IntoIterTurn))
          /\ \A t \in Reader : WF_mcVars(OfReader(ReaderTurn(t)))

-----------------------------------------------------------------------------

MCKey == 0 .. 25

(***************************************************************************)
(* An empty tree, a tree of two leaves, and one of seven leaves under two  *)
(* layers of inner nodes; on the large one, keys of its first leaf, of     *)
(* leaves to both sides of a separator of the root, and of its last leaf.  *)
(***************************************************************************)
MCSizes  == {0, 3, 13}
MCAsked  == [n \in MCSizes |-> IF n = 13 THEN {0, 1, 2, 18, 19, 20, 21, 25} ELSE 0 .. 2 * n]
MCBudget == [kind \in Views |-> [n \in MCSizes |->
                CASE kind = "cursor"  -> IF n = 13 THEN 1 ELSE 3
                  [] kind = "readers" -> IF n = 13 THEN 0 ELSE 1
                  [] OTHER -> IF n = 13 THEN 1 ELSE 2]]
=============================================================================
