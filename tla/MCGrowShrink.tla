---------------------------- MODULE MCGrowShrink ----------------------------
(***************************************************************************)
(* An instance of BPlusTree for TLC with a client that makes fewer calls,  *)
(* so that the search reaches two levels of inner nodes: it inserts the    *)
(* key that follows the number of elements (ascending keys, as long as it  *)
(* removed none), and removes any key at any time.                         *)
(***************************************************************************)
EXTENDS TreeProperties

CONSTANT v

MCKey   == 1 .. 8
MCValue == {v}

Grow   == len + 1 \in Key /\ InsertCall(len + 1, v)
Shrink == \E k \in Key : RemoveCall(k)

MCNext == Grow \/ Shrink \/ Step

MCSpec == Init /\ [][MCNext]_vars /\ WF_vars(Step)
=============================================================================
