----------------------------- MODULE MCScripted -----------------------------
(***************************************************************************)
(* Instances of BPlusTree for TLC that start where an exhaustive search    *)
(* from the empty tree does not get: a script of calls builds a tall or a  *)
(* sparse tree (one behaviour, through the actions of BPlusTree), and then *)
(* a client makes any Budget calls.                                        *)
(***************************************************************************)
EXTENDS TreeProperties

CONSTANTS Tall,    \* the script inserts the keys 1 .. Tall in ascending order,
          Sparse,  \* and then removes one of these sets of keys
          Budget   \* bound: how many calls the client makes after the script

VARIABLES script,  \* the calls of the script yet to be made
          left     \* the calls left to the client

mcVars == <<vars, script, left>>

Scripted(op, keys) ==
    SelectSeq([i \in 1 .. Tall |-> [op |-> op, k |-> i]], LAMBDA c : c.k \in keys)

MCInit == /\ Init
          /\ \E K \in Sparse :
                 script = Scripted("insert", 1 .. Tall) \o Scripted("remove", K)
          /\ left = Budget

ScriptCall ==
    /\ script # <<>>
    /\ LET c == Head(script)
       IN  \/ c.op = "insert" /\ \E v \in Value : InsertCall(c.k, v)
           \/ c.op = "remove" /\ RemoveCall(c.k)
    /\ script' = Tail(script)
    /\ UNCHANGED left

ClientCall ==
    /\ script = <<>> /\ left > 0
    /\ Call
    /\ left' = left - 1
    /\ UNCHANGED script

Running == Step /\ UNCHANGED <<script, left>>

\* The client has made its calls.
Finished == script = <<>> /\ left = 0 /\ pc = "idle" /\ UNCHANGED mcVars

MCNext == ScriptCall \/ ClientCall \/ Running \/ Finished

MCSpec == MCInit /\ [][MCNext]_mcVars /\ WF_mcVars(Running)

-----------------------------------------------------------------------------
(* A tree of three levels of inner nodes at LEAF_N = 2 and INNER_N = 4,    *)
(* where each node is at its minimum or just above.                        *)

TallKey  == 0 .. 20
TallKeys == 19

\* Nothing, some keys spread over the leaves, and more of them.
TallSparse == {{}, {1, 4, 7, 10, 13, 16},
                   {1, 2, 4, 5, 7, 10, 13, 16},
                   {1, 4, 7, 8, 9, 10, 13, 14, 16}}

(* A tree of two levels at LEAF_N = INNER_N = 8, where the minima are two  *)
(* and a node between minimum and capacity may give as well as take.       *)

WideKey  == 0 .. 46
WideKeys == 45

\* A run of neighbours at either end, or some of each leaf.
WideSparse == {1 .. 7 * i : i \in 0 .. 6}
                \cup {7 * i .. 45 : i \in 1 .. 6}
                \cup {{k \in 1 .. 45 : k % 4 \in {1, 2}}, {k \in 1 .. 45 : k % 4 # 0}}
=============================================================================
