------------------------------- MODULE MCBulk -------------------------------
(***************************************************************************)
(* Instances of BulkLoad for TLC: loads of several sizes, with and without *)
(* duplicate keys; a script of removals, which brings the loaded nodes     *)
(* down to where they rebalance; and then any Budget calls of a client.    *)
(***************************************************************************)
EXTENDS BulkLoad, GroupQueries

CONSTANTS old, new,  \* the two values
          Sizes,     \* how many distinct keys a load has
          Gone,      \* the script removes one of these sets of keys
          Budget     \* bound: how many calls the client makes after the script

VARIABLES data,      \* the input the tree was loaded from
          script,    \* the keys the script has yet to remove
          left       \* the calls left to the client

mcVars == <<vars, data, script, left>>

MCKey    == 0 .. 45
MCKeyFar == 0 .. 64
MCValue  == {old, new}

\* Loads of n keys: once each in ascending order, as bulk_load wants them, or
\* in descending order, followed by all of them again with another value.
Once(n)  == [i \in 1 .. n |-> <<i, new>>]
Twice(n) == [i \in 1 .. 2 * n |->
                IF i <= n THEN <<n + 1 - i, old>> ELSE <<i - n, new>>]

MCUnsorted == {Twice(n) : n \in Sizes}
MCLoads    == {Once(n) : n \in Sizes} \cup MCUnsorted

\* Nothing, a run of neighbours at either end, or some of each leaf.
MCGone     == {{}, 1 .. 36, 7 .. 44, {k \in MCKey : k % 4 # 1}, {k \in MCKey : k % 4 > 1}}
MCGoneNone == {{}}

MCInit ==
    /\ data \in Loads /\ FromIter(data)
    /\ \E keys \in Gone :
           script = SelectSeq([k \in 1 .. len |-> k],
                              LAMBDA k : k \in keys)
    /\ left = Budget

ScriptCall == /\ script # <<>>
              /\ RemoveCall(Head(script))
              /\ script' = Tail(script)
              /\ UNCHANGED <<data, left>>

ClientCall == /\ script = <<>> /\ left > 0
              /\ Call
              /\ left' = left - 1
              /\ UNCHANGED <<data, script>>

Running == Step /\ UNCHANGED <<data, script, left>>

\* The client has made its calls.
Finished == script = <<>> /\ left = 0 /\ pc = "idle" /\ UNCHANGED mcVars

MCNext == ScriptCall \/ ClientCall \/ Running \/ Finished

MCSpec == MCInit /\ [][MCNext]_mcVars /\ WF_mcVars(Running)

-----------------------------------------------------------------------------

\* The map that the input stands for: of the pairs with one key, the last.
LastValues ==
    [k \in {data[i][1] : i \in DOMAIN data} |->
        LET last == CHOOSE i \in DOMAIN data :
                        data[i][1] = k /\ \A j \in i + 1 .. Len(data) : data[j][1] # k
        IN  data[last][2]]

(***************************************************************************)
(* from_iter gives the tree that inserting the pairs one by one would: it  *)
(* holds the last value of every key, len() counts the keys once, and the  *)
(* calls that follow behave as those of an ordered map.                    *)
(***************************************************************************)
LoadedMap ==
    /\ Contents = LastValues /\ len = Cardinality(DOMAIN LastValues)
    /\ [][Map!MapNext]_Map!mapVars
=============================================================================
