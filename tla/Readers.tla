------------------------------ MODULE Readers ------------------------------
(***************************************************************************)
(* Threads that share a tree.  get takes &self, so any number of threads   *)
(* may be in it at once, and while one is, no call changes the tree.  But  *)
(* get is not free of writes: a lookup that missed the cache stores its    *)
(* leaf in NodeStoreVec.cached_leaf, an atomic that is read and written    *)
(* with relaxed ordering, while other threads are between the load that    *)
(* gave them a leaf and the use of it.                                     *)
(*                                                                         *)
(* The atomic is the only location that changes, and accesses to a single  *)
(* location are totally ordered also when relaxed: their interleavings are *)
(* all there is.                                                           *)
(***************************************************************************)
EXTENDS TreeProperties

CONSTANT Reader   \* the threads

VARIABLES at,      \* where each thread is in its get
          wants,   \* the key it looks up
          goes,    \* the node its lookup is at
          got      \* what its lookup has found

readerVars == <<at, wants, goes, got>>

ReadersInit == /\ at = [t \in Reader |-> "away"]
               /\ wants = [t \in Reader |-> None]
               /\ goes = [t \in Reader |-> None]
               /\ got = [t \in Reader |-> None]

Go(t, from, to) == at[t] = from /\ at' = [at EXCEPT ![t] = to]

\* A thread borrows the tree and calls get.
ReaderCall(t, k) ==
    /\ pc = "idle"
    /\ Go(t, "away", "try_cache")
    /\ wants' = [wants EXCEPT ![t] = k]
    /\ UNCHANGED <<vars, goes, got>>

(***************************************************************************)
(* try_cache: one load of cached_leaf; the leaf of that id is looked at,   *)
(* and, if the key is in its range, is the leaf to search.                 *)
(***************************************************************************)
ReaderTryCache(t) ==
    /\ at[t] = "try_cache"
    /\ \/ /\ CacheHit(wants[t])
          /\ at' = [at EXCEPT ![t] = "find_in_leaf"]
          /\ goes' = [goes EXCEPT ![t] = Leaf(cached)]
       \/ /\ ~CacheHit(wants[t])
          /\ at' = [at EXCEPT ![t] = "descend"]
          /\ goes' = [goes EXCEPT ![t] = root]
    /\ UNCHANGED <<vars, wants, got>>

\* A turn of find_descend.
ReaderDescend(t) ==
    /\ at[t] = "descend" /\ goes[t].kind = "inner"
    /\ LET n == inners[goes[t].id]
       IN  goes' = [goes EXCEPT ![t] = n.child[LocateChild(n, wants[t])]]
    /\ UNCHANGED <<vars, at, wants, got>>

\* Mutation: starts over, to find in the cache the leaf it has stored there.
Mutant_ReaderCacheLeaf(t) ==
    /\ goes[t] # None /\ goes[t].kind = "leaf"
    /\ Go(t, "descend", "try_cache")
    /\ cached' = goes[t].id
    /\ UNCHANGED <<root, rootAug, len, store, frame, wants, goes, got>>

\* find_in_leaf_and_cache_it: the store of cached_leaf.
ReaderCacheLeaf(t) ==
    /\ goes[t] # None /\ goes[t].kind = "leaf"
    /\ Go(t, "descend", "find_in_leaf")
    /\ cached' = goes[t].id
    /\ UNCHANGED <<root, rootAug, len, store, frame, wants, goes, got>>

\* Mutation: asks the cache again for the leaf it has found the key in range of.
Mutant_ReaderFindInLeaf(t) ==
    /\ Go(t, "find_in_leaf", "answered")
    /\ got' = [got EXCEPT ![t] = ValueOf(leaves[cached], wants[t])]
    /\ UNCHANGED <<vars, wants, goes>>

\* find_in_leaf, and the end of find_in_leaf_and_cache_it
ReaderFindInLeaf(t) ==
    /\ Go(t, "find_in_leaf", "answered")
    /\ got' = [got EXCEPT ![t] = ValueOf(leaves[goes[t].id], wants[t])]
    /\ UNCHANGED <<vars, wants, goes>>

\* The thread is done with the value, and its borrow of the tree ends.
ReaderReturn(t) ==
    /\ Go(t, "answered", "away")
    /\ wants' = [wants EXCEPT ![t] = None]
    /\ goes' = [goes EXCEPT ![t] = None]
    /\ got' = [got EXCEPT ![t] = None]
    /\ UNCHANGED vars

\* A step of a get that a thread has begun.
ReaderTurn(t) ==
    \/ ReaderTryCache(t)
    \/ ReaderDescend(t) \/ ReaderCacheLeaf(t)
    \/ ReaderFindInLeaf(t) \/ ReaderReturn(t)

ReaderStep == \E t \in Reader : ReaderTurn(t) \/ \E k \in Key : ReaderCall(t, k)

\* The tree may change only when it is not shared.
Unshared == \A t \in Reader : at[t] = "away"

(***************************************************************************)
(* Each thread runs a get it has begun to its end, whatever the others do. *)
(***************************************************************************)
ReadersSpec ==
    /\ Init /\ ReadersInit
    /\ [][ReaderStep \/ (Unshared /\ Next /\ UNCHANGED readerVars)]_<<vars, readerVars>>
    /\ \A t \in Reader : WF_<<vars, readerVars>>(ReaderTurn(t))

-----------------------------------------------------------------------------

(***************************************************************************)
(* A get that shares the tree with others answers what the map holds for   *)
(* its key, however often the cached leaf changes between its steps.       *)
(***************************************************************************)
ReadersSeeTheMap ==
    \A t \in Reader : at[t] = "answered" =>
        LET map == Contents
        IN  got[t] = IF wants[t] \in DOMAIN map THEN map[wants[t]] ELSE None

(***************************************************************************)
(* Every get returns.  No lock, retry or wait is in its way: each turn of  *)
(* its loop is one level further down.                                     *)
(***************************************************************************)
EveryReaderReturns == \A t \in Reader : at[t] # "away" ~> at[t] = "away"
=============================================================================
