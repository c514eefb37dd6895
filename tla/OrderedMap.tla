---------------------------- MODULE OrderedMap ------------------------------
(***************************************************************************)
(* What the tree promises its caller: a finite map from ordered keys to    *)
(* values, whose entries also have an index in key order.  A call begins,  *)
(* takes effect on the map at one instant between its begin and its        *)
(* return, and returns the answer that the map gave at that instant; the   *)
(* size a client can read is that of the map when no call is in progress.  *)
(***************************************************************************)
EXTENDS Integers, FiniteSets

CONSTANTS Key, Value, None

VARIABLES dict,     \* the map: a function from a finite set of keys to values
          size,     \* what len() answers
          pending,  \* the call in progress, or its answer once it took effect
          answer    \* what the last call returned

mapVars == <<dict, size, pending, answer>>

Requests ==
    [op : {"insert", "get_mut"}, k : Key, v : Value]
      \cup [op : {"get", "remove"}, k : Key]
      \cup [op : {"remove_by_augmentation"}, i : Nat]
      \cup [op : {"get_mut_by_augmentation"}, i : Nat, v : Value]
      \cup [op : {"clear"}]

NoRequest == [op |-> "none"]

\* A call that took effect and has yet to return x.
Took(x) == [op |-> "took", answer |-> x]

Keys == DOMAIN dict

Lookup(k) == IF k \in Keys THEN dict[k] ELSE None

Put(k, v) == [x \in Keys \cup {k} |-> IF x = k THEN v ELSE dict[x]]

Without(K) == [x \in Keys \ K |-> dict[x]]

\* The keys of index i in key order: one, or none if i is too large.
AtIndex(i) == {k \in Keys : Cardinality({x \in Keys : x < k}) = i}

\* What a request answers, and the map after it.
Answer(c) ==
    CASE c.op \in {"insert", "get", "get_mut", "remove"} -> Lookup(c.k)
      [] c.op = "remove_by_augmentation" ->
             IF AtIndex(c.i) = {} THEN None
             ELSE LET k == CHOOSE k \in AtIndex(c.i) : TRUE IN <<k, dict[k]>>
      [] c.op = "get_mut_by_augmentation" ->
             IF AtIndex(c.i) = {} THEN None ELSE dict[CHOOSE k \in AtIndex(c.i) : TRUE]
      [] c.op = "clear" -> None

Effect(c) ==
    CASE c.op = "insert"  -> Put(c.k, c.v)
      [] c.op = "get_mut" -> IF c.k \in Keys THEN Put(c.k, c.v) ELSE dict
      [] c.op = "get"     -> dict
      [] c.op = "remove"  -> Without({c.k})
      [] c.op = "remove_by_augmentation" -> Without(AtIndex(c.i))
      [] c.op = "get_mut_by_augmentation" ->
             [x \in Keys |-> IF x \in AtIndex(c.i) THEN c.v ELSE dict[x]]
      [] c.op = "clear"   -> Without(Keys)

MapInit == /\ dict = [x \in {} |-> None] /\ size = 0
           /\ pending = NoRequest /\ answer = None

Begin == /\ pending = NoRequest
         /\ pending' \in Requests
         /\ answer' = None
         /\ UNCHANGED <<dict, size>>

Commit == /\ pending.op \notin {"none", "took"}
          /\ dict' = Effect(pending)
          /\ pending' = Took(Answer(pending))
          /\ UNCHANGED <<size, answer>>

\* The return of a call, with the size brought up to date.
Reply(x) == /\ pending' = NoRequest
            /\ answer' = x
            /\ size' = Cardinality(DOMAIN dict')

Finish == /\ pending.op = "took"
          /\ UNCHANGED dict
          /\ Reply(pending.answer)

\* The effect and the return at one instant.
CommitFinish == /\ pending.op \notin {"none", "took"}
                /\ dict' = Effect(pending)
                /\ Reply(Answer(pending))

\* The whole call at one instant.
AtOnce(c) == /\ pending = NoRequest
             /\ dict' = Effect(c)
             /\ Reply(Answer(c))

Immediate == \/ \E k \in Key : AtOnce([op |-> "get", k |-> k])
             \/ \E k \in Key, v \in Value : AtOnce([op |-> "get_mut", k |-> k, v |-> v])
             \/ AtOnce([op |-> "clear"])

MapNext == Begin \/ Commit \/ Finish \/ CommitFinish \/ Immediate

MapSpec == MapInit /\ [][MapNext]_mapVars
=============================================================================
