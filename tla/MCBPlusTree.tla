---------------------------- MODULE MCBPlusTree -----------------------------
(***************************************************************************)
(* Instances of BPlusTree for TLC, searched exhaustively from the empty    *)
(* tree: the smallest capacities and a few keys, enough for leaves to      *)
(* split, rotate and merge in every order and for the root to come and go. *)
(* Taller trees are left to MCScripted and MCBulk.                         *)
(***************************************************************************)
EXTENDS TreeProperties

MCKey    == 1 .. 5
MCKeyFew == 1 .. 4
=============================================================================
