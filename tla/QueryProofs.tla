---------------------------- MODULE QueryProofs -----------------------------
(***************************************************************************)
(* What a query of a tree at rest rests on, and what it answers: the chain *)
(* of leaves, the entries along it, and the order statistics.              *)
(*                                                                         *)
(* The chain is a walk along next from the first leaf.  The routes order   *)
(* the leaves by their keys, next is the leaf with the next larger ones,   *)
(* and the first leaf, where a descent to the left ends, has the least: so *)
(* the walk meets each leaf once, in order (ChainOrdered).  The entries    *)
(* are then those of the store, and as many keys lie before one of them as *)
(* entries come before it on the chain.                                    *)
(*                                                                         *)
(* A query by index or by rank is a descent that counts.  What it has      *)
(* counted, or what is left of the index, and the keys before the node it  *)
(* is at add up (Sought, Ranked), as the counts beside the children are    *)
(* exact between calls; at the leaf the rest is an offset.                 *)
(***************************************************************************)
EXTENDS MapProofs

-----------------------------------------------------------------------------
(* Sequences joined to one                                                 *)

\* off[i] is where piece i of s ends, in the sequence of all pieces.
Offsets(off, s) ==
    /\ off \in [0 .. Len(s) -> Nat] /\ off[0] = 0
    /\ \A i \in 1 .. Len(s) : off[i] = off[i - 1] + Len(s[i])

\* w is the first m pieces of s, one after the other.
JoinsTo(w, s, off, m) ==
    /\ Len(w) = off[m]
    /\ \A a \in 1 .. m : \A k \in 1 .. Len(s[a]) :
           off[a - 1] + k \in 1 .. off[m] /\ w[off[a - 1] + k] = s[a][k]
    /\ \A j \in 1 .. off[m] : \E a \in 1 .. m : \E k \in 1 .. Len(s[a]) : j = off[a - 1] + k

\* One more piece.
LEMMA OneMorePiece ==
  ASSUME NEW S, NEW s \in Seq(Seq(S)), NEW off, Offsets(off, s), NEW m \in 1 .. Len(s),
         NEW w \in Seq(S), JoinsTo(w, s, off, m - 1)
  PROVE  w \o s[m] \in Seq(S) /\ JoinsTo(w \o s[m], s, off, m)
<1>1. PICK u : u = s[m]
  OBVIOUS
<1>2. PICK p : p = m - 1
  OBVIOUS
<1>3. PICK x : x = w \o u
  OBVIOUS
<1>4. /\ u \in Seq(S) /\ Len(u) \in Nat /\ p \in Nat /\ m = p + 1 /\ p \in 0 .. Len(s)
      /\ Len(s) \in Nat /\ m \in Nat
  BY <1>1, <1>2, ElementOfSeq, LenProperties
<1>5. \A a \in 1 .. Len(s) : Len(s[a]) \in Nat
  BY ElementOfSeq, LenProperties
<1>6. off[m] = off[p] + Len(u) /\ off[p] \in Nat /\ off[m] \in Nat /\ Len(w) = off[p]
  BY <1>1, <1>2, <1>4 DEF Offsets, JoinsTo
<1>7. /\ x \in Seq(S) /\ Len(x) = Len(w) + Len(u)
      /\ \A j \in 1 .. Len(x) : x[j] = IF j <= Len(w) THEN w[j] ELSE u[j - Len(w)]
  BY <1>3, <1>4, ConcatProperties
<1>8. ASSUME NEW a \in 1 .. m, NEW k \in 1 .. Len(s[a])
      PROVE  off[a - 1] + k \in 1 .. off[m] /\ x[off[a - 1] + k] = s[a][k]
  <2>1. a \in 1 .. Len(s) /\ a - 1 \in 0 .. Len(s) /\ k \in Nat
    <3>1. a \in 1 .. Len(s)
      BY <1>4
    <3>2. Len(s[a]) \in Nat
      BY <1>5, <3>1
    <3> QED
      BY <1>4, <3>1, <3>2
  <2>2. CASE a = m
    <3>1. off[a - 1] = off[p] /\ k \in 1 .. Len(u) /\ s[a] = u
      BY <1>1, <1>2, <2>2
    <3>2. PICK j : j = off[p] + k
      OBVIOUS
    <3>3. j \in 1 .. off[m] /\ ~(j <= Len(w)) /\ j - Len(w) = k /\ j \in 1 .. Len(x)
      <4>1. Len(u) \in Nat /\ k \in Nat /\ k >= 1 /\ k <= Len(u)
        BY <1>4, <2>1, <3>1
      <4>2. Len(w) = off[p] /\ off[m] = off[p] + Len(u) /\ Len(x) = off[p] + Len(u)
        BY <1>6, <1>7
      <4>3. PICK b \in Nat : b = off[p]
        BY <1>6
      <4>4. PICK e \in Nat : e = Len(u)
        BY <4>1
      <4>5. j = b + k /\ Len(w) = b /\ off[m] = b + e /\ Len(x) = b + e /\ k <= e
        BY <3>2, <4>1, <4>2, <4>3, <4>4
      <4>6. b + k \in 1 .. b + e /\ ~(b + k <= b) /\ (b + k) - b = k
        BY <4>1, <4>5
      <4> QED
        BY <4>5, <4>6
    <3>4. x[j] = u[k]
      BY <1>7, <3>3
    <3> QED
      BY <3>1, <3>2, <3>3, <3>4
  <2>3. CASE a # m
    <3>1. a \in 1 .. p
      BY <1>4, <2>3
    <3>2. PICK j : j = off[a - 1] + k
      OBVIOUS
    <3>3. j \in 1 .. off[p] /\ w[j] = s[a][k]
      BY <1>2, <3>1, <3>2 DEF JoinsTo
    <3>4. j \in 1 .. off[m] /\ j <= Len(w) /\ j \in 1 .. Len(x)
      <4>1. PICK b \in Nat : b = off[p]
        BY <1>6
      <4>2. PICK e \in Nat : e = Len(u)
        BY <1>4
      <4>3. off[m] = b + e /\ Len(w) = b /\ Len(x) = b + e /\ j \in 1 .. b
        BY <1>6, <1>7, <3>3, <4>1, <4>2
      <4>4. j \in 1 .. b + e /\ j <= b
        BY <4>3
      <4> QED
        BY <4>3, <4>4
    <3> QED
      BY <1>7, <3>2, <3>3, <3>4
  <2> QED
    BY <2>2, <2>3
<1>9. ASSUME NEW j \in 1 .. off[m]
      PROVE  \E a \in 1 .. m : \E k \in 1 .. Len(s[a]) : j = off[a - 1] + k
  <2>1. CASE j <= off[p]
    <3>1. j \in 1 .. off[p]
      BY <1>6, <2>1
    <3>2. PICK a \in 1 .. p : \E k \in 1 .. Len(s[a]) : j = off[a - 1] + k
      BY <1>2, <3>1 DEF JoinsTo
    <3>3. a \in 1 .. m
      BY <1>4, <3>2
    <3> QED
      BY <3>2, <3>3
  <2>2. CASE ~(j <= off[p])
    <3>1. PICK k : k = j - off[p]
      OBVIOUS
    <3>2. k \in 1 .. Len(u) /\ j = off[p] + k /\ m \in 1 .. m
      <4>1. PICK e, b : e = off[p] /\ b = Len(u)
        OBVIOUS
      <4>2. e \in Nat /\ b \in Nat /\ j \in 1 .. e + b /\ ~(j <= e) /\ k = j - e
        BY <1>4, <1>6, <2>2, <3>1, <4>1
      <4>3. k \in 1 .. b /\ j = e + k
        BY ONLY <4>2
      <4>4. m \in 1 .. m
        BY <1>4
      <4> QED
        BY ONLY <4>1, <4>3, <4>4
    <3> QED
      BY <1>1, <1>2, <3>2
  <2> QED
    BY <2>1, <2>2
<1>10. Len(x) = off[m]
  BY <1>6, <1>7
<1> QED
  BY <1>1, <1>3, <1>7, <1>8, <1>9, <1>10 DEF JoinsTo

\* What FlattenSeq makes of a sequence of sequences.
LEMMA FlattenIs ==
  ASSUME NEW S, NEW s \in Seq(Seq(S)), NEW off, Offsets(off, s)
  PROVE  FlattenSeq(s) \in Seq(S) /\ JoinsTo(FlattenSeq(s), s, off, Len(s))
<1>1. PICK n \in Nat : n = Len(s)
  OBVIOUS
<1>2. off[0] = 0
  BY DEF Offsets
<1>3. JoinsTo(<<>>, s, off, 0) /\ <<>> \in Seq(S) /\ Len(<<>>) = 0
  BY <1>2, EmptySeq DEF JoinsTo
<1>4. CASE n = 0
  <2>1. s = <<>>
    BY <1>1, <1>4, EmptySeq
  <2>2. FlattenSeq(s) = <<>>
    BY <2>1 DEF FlattenSeq
  <2> QED
    BY <1>1, <1>3, <1>4, <2>2
<1>5. CASE n > 0
  <2> DEFINE f == CHOOSE f : JoinedUp(f, s, n)
             G(i) == IF i = 0 THEN <<>> ELSE f[i]
             A == {i \in 0 .. n : G(i) \in Seq(S) /\ JoinsTo(G(i), s, off, i)}
  <2>1. JoinedUp(f, s, n)
    <3>1. \E g : JoinedUp(g, s, n)
      BY JoinedUpExists
    <3> QED
      BY <3>1
  <2>2. FlattenSeq(s) = f[n]
    BY <1>1, <1>5 DEF FlattenSeq, JoinedUp
  <2> HIDE DEF f
  <2>3. ASSUME NEW i \in 1 .. n PROVE G(i) = G(i - 1) \o s[i]
    <3>0. i \in Nat /\ i # 0
      BY <1>1
    <3>1. f[i] = IF i = 1 THEN s[i] ELSE f[i - 1] \o s[i]
      BY <2>1 DEF JoinedUp
    <3>2. s[i] \in Seq(S)
      BY <1>1, ElementOfSeq
    <3>3. <<>> \o s[i] = s[i]
      BY <3>2, ConcatEmptySeq
    <3>4. CASE i = 1
      <4>1. G(i) = s[i] /\ G(i - 1) = <<>>
        BY <3>0, <3>1, <3>4
      <4> QED
        BY <3>3, <4>1
    <3>5. CASE i # 1
      <4>1. i - 1 # 0
        BY <3>0, <3>5
      <4>2. G(i) = f[i] /\ G(i - 1) = f[i - 1]
        BY <3>0, <4>1
      <4> QED
        BY <3>1, <3>5, <4>2
    <3> QED
      BY <3>4, <3>5
  <2>4. G(0) = <<>> /\ G(n) = f[n]
    BY <1>5
  <2>10. G(0) \in Seq(S) /\ JoinsTo(G(0), s, off, 0)
    BY <1>3, <2>4
  <2> HIDE DEF G
  <2>5. ASSUME NEW i \in 1 .. n, i - 1 \in A PROVE i \in A
    <3>1. PICK w : w = G(i - 1)
      OBVIOUS
    <3>2. w \in Seq(S) /\ JoinsTo(w, s, off, i - 1)
      BY <2>5, <3>1
    <3>3. i \in 1 .. Len(s) /\ i \in 0 .. n
      BY <1>1
    <3>4. w \o s[i] \in Seq(S) /\ JoinsTo(w \o s[i], s, off, i)
      BY <3>2, <3>3, OneMorePiece
    <3>5. G(i) = w \o s[i]
      BY <2>3, <3>1
    <3> QED
      BY <3>3, <3>4, <3>5
  <2>6. 0 \in A
    BY <1>1, <2>10
  <2> HIDE DEF A
  <2>8. 0 .. n \subseteq A
    BY <2>5, <2>6, CountUp
  <2>7. n \in A
    BY <1>1, <2>8
  <2> QED
    BY <1>1, <2>2, <2>4, <2>7 DEF A
<1> QED
  BY <1>4, <1>5

\* The pieces end somewhere.
LEMMA OffsetsExist ==
  ASSUME NEW s, NEW n \in Nat, n = Len(s), \A i \in 1 .. n : Len(s[i]) \in Nat
  PROVE  \E off : Offsets(off, s)
<1> DEFINE A == {m \in 0 .. n : \E off \in [0 .. m -> Nat] :
                     off[0] = 0 /\ \A i \in 1 .. m : off[i] = off[i - 1] + Len(s[i])}
<1>1. 0 \in A
  <2>1. PICK f : f = [i \in 0 .. 0 |-> 0]
    OBVIOUS
  <2>2. f \in [0 .. 0 -> Nat] /\ f[0] = 0 /\ \A i \in 1 .. 0 : f[i] = f[i - 1] + Len(s[i])
    BY <2>1
  <2> QED
    BY <2>2
<1>2. ASSUME NEW m \in 1 .. n, m - 1 \in A PROVE m \in A
  <2>1. PICK p : p = m - 1
    OBVIOUS
  <2>2. p \in Nat /\ m = p + 1 /\ p \in 0 .. p /\ 0 \in 0 .. p /\ m \in 0 .. n
    BY <2>1
  <2>3. PICK f \in [0 .. p -> Nat] :
            f[0] = 0 /\ \A i \in 1 .. p : f[i] = f[i - 1] + Len(s[i])
    BY <1>2, <2>1
  <2> DEFINE g == [i \in 0 .. m |-> IF i = m THEN f[p] + Len(s[m]) ELSE f[i]]
  <2>4. \A i \in 0 .. p : g[i] = f[i] /\ f[i] \in Nat
    BY <2>2, <2>3
  <2>5. g[m] = g[p] + Len(s[m]) /\ g[m] \in Nat
    BY <2>2, <2>3, <2>4
  <2>6. g = [i \in 0 .. m |-> g[i]]
    OBVIOUS
  <2> HIDE DEF g
  <2>7. \A i \in 0 .. m : g[i] \in Nat
    BY <2>2, <2>4, <2>5
  <2>8. g \in [0 .. m -> Nat] /\ g[0] = 0
    BY <2>2, <2>3, <2>4, <2>6, <2>7
  <2>9. \A i \in 1 .. m : g[i] = g[i - 1] + Len(s[i])
    <3> SUFFICES ASSUME NEW i \in 1 .. m PROVE g[i] = g[i - 1] + Len(s[i])
      OBVIOUS
    <3>1. CASE i = m
      BY <2>1, <2>5, <3>1
    <3>2. CASE i # m
      <4>1. i \in 1 .. p /\ i \in 0 .. p /\ i - 1 \in 0 .. p
        BY <2>2, <3>2
      <4> QED
        BY <2>3, <2>4, <4>1
    <3> QED
      BY <3>1, <3>2
  <2> QED
    BY <2>2, <2>8, <2>9
<1> HIDE DEF A
<1>3. 0 .. n \subseteq A
  BY <1>1, <1>2, CountUp
<1>4. n \in A
  BY <1>3
<1> QED
  BY <1>4 DEF A, Offsets

\* Later pieces end later.
LEMMA OffsetsGrow ==
  ASSUME NEW s, Len(s) \in Nat, \A i \in 1 .. Len(s) : Len(s[i]) \in Nat,
         NEW off, Offsets(off, s), NEW i \in 0 .. Len(s), NEW j \in 0 .. Len(s), i <= j
  PROVE  off[i] <= off[j]
<1> DEFINE A == {d \in 0 .. Len(s) : i <= d => off[i] <= off[d]}
<1>1. \A d \in 0 .. Len(s) : off[d] \in Nat
  BY DEF Offsets
<1>2. 0 \in A
  BY <1>1
<1>3. ASSUME NEW d \in 1 .. Len(s), d - 1 \in A PROVE d \in A
  <2>1. off[d] = off[d - 1] + Len(s[d]) /\ Len(s[d]) \in Nat /\ d - 1 \in 0 .. Len(s)
    BY DEF Offsets
  <2>2. i <= d - 1 => off[i] <= off[d - 1]
    BY <1>3
  <2>3. CASE i <= d - 1
    BY <1>1, <2>1, <2>2, <2>3
  <2>4. CASE ~(i <= d - 1)
    <3>1. i <= d => i = d
      BY <2>4
    <3>2. i <= d => off[i] <= off[d]
      BY <1>1, <3>1
    <3> QED
      BY <3>2
  <2> QED
    BY <2>3, <2>4
<1> HIDE DEF A
<1>4. j \in A
  BY <1>2, <1>3, CountUp
<1> QED
  BY <1>4 DEF A

\* Ascending pieces, each before the next ones, ascend when they are joined.
LEMMA FlattenAscends ==
  ASSUME NEW S, \A x \in S : x[1] \in Int, NEW s \in Seq(Seq(S)),
         \A i \in 1 .. Len(s) : Ascends(s[i]),
         \A i, j \in 1 .. Len(s) : i < j =>
             \A a \in 1 .. Len(s[i]), b \in 1 .. Len(s[j]) : s[i][a][1] < s[j][b][1]
  PROVE  Ascends(FlattenSeq(s))
<1>1. /\ Len(s) \in Nat
      /\ \A i \in 1 .. Len(s) : s[i] \in Seq(S) /\ Len(s[i]) \in Nat
                                /\ DOMAIN s[i] = 1 .. Len(s[i])
  BY ElementOfSeq, LenProperties
<1>2. PICK off : Offsets(off, s)
  BY <1>1, OffsetsExist
<1>3. PICK w : w = FlattenSeq(s)
  OBVIOUS
<1>4. w \in Seq(S) /\ JoinsTo(w, s, off, Len(s))
  BY <1>2, <1>3, FlattenIs
<1>5. DOMAIN w = 1 .. off[Len(s)] /\ \A i \in 0 .. Len(s) : off[i] \in Nat
  BY <1>1, <1>2, <1>4, LenProperties DEF JoinsTo, Offsets
<1>6. ASSUME NEW x \in DOMAIN w, NEW y \in DOMAIN w, x < y
      PROVE  w[x][1] < w[y][1]
  <2>11. PICK i \in 1 .. Len(s) : \E a \in 1 .. Len(s[i]) : x = off[i - 1] + a
    BY <1>4, <1>5 DEF JoinsTo
  <2>1. PICK a \in 1 .. Len(s[i]) : x = off[i - 1] + a
    BY <2>11
  <2>12. PICK j \in 1 .. Len(s) : \E b \in 1 .. Len(s[j]) : y = off[j - 1] + b
    BY <1>4, <1>5 DEF JoinsTo
  <2>2. PICK b \in 1 .. Len(s[j]) : y = off[j - 1] + b
    BY <2>12
  <2>3. w[x] = s[i][a] /\ w[y] = s[j][b]
    BY <1>4, <2>1, <2>2 DEF JoinsTo
  <2>4. ~(j < i)
    <3> SUFFICES ASSUME j < i PROVE FALSE
      OBVIOUS
    <3>1. off[j] = off[j - 1] + Len(s[j])
      BY <1>2 DEF Offsets
    <3>2. j \in 0 .. Len(s) /\ i - 1 \in 0 .. Len(s) /\ j <= i - 1 /\ j - 1 \in 0 .. Len(s)
      OBVIOUS
    <3>3. off[j] <= off[i - 1]
      BY <1>1, <1>2, <3>2, OffsetsGrow
    <3>4. /\ off[i - 1] \in Nat /\ off[j] \in Nat /\ off[j - 1] \in Nat
          /\ a \in Nat /\ b \in Nat /\ a >= 1 /\ b <= Len(s[j]) /\ Len(s[j]) \in Nat
      <4>1. Len(s[j]) \in Nat /\ Len(s[i]) \in Nat
        BY <1>1
      <4>2. off[i - 1] \in Nat /\ off[j] \in Nat /\ off[j - 1] \in Nat
        BY <1>5, <3>2
      <4>3. a \in Nat /\ b \in Nat /\ a >= 1 /\ b <= Len(s[j])
        BY <4>1
      <4> QED
        BY <4>1, <4>2, <4>3
    <3>5. y <= off[j] /\ x > off[i - 1] /\ x \in Nat /\ y \in Nat
      <4>1. PICK e : e = off[i - 1]
        OBVIOUS
      <4>2. PICK f : f = off[j - 1]
        OBVIOUS
      <4>3. PICK g : g = Len(s[j])
        OBVIOUS
      <4>4. x = e + a /\ y = f + b /\ off[j] = f + g /\ b <= g
        BY <2>1, <2>2, <3>1, <3>4, <4>1, <4>2, <4>3
      <4>5. e \in Nat /\ f \in Nat /\ g \in Nat /\ a \in Nat /\ a >= 1 /\ b \in Nat
        BY <3>4, <4>1, <4>2, <4>3
      <4>6. x > e /\ y <= f + g /\ x \in Nat /\ y \in Nat
        BY ONLY <4>4, <4>5
      <4> QED
        BY ONLY <4>1, <4>4, <4>6
    <3> QED
      BY ONLY <1>6, <3>3, <3>4, <3>5
  <2>5. CASE i = j
    <3>1. a < b
      <4>1. off[i - 1] \in Nat /\ a \in Nat /\ b \in Nat
        BY <1>1, <1>5
      <4> QED
        BY <1>6, <2>1, <2>2, <2>5, <4>1
    <3> QED
      BY <1>1, <2>3, <2>5, <3>1 DEF Ascends
  <2>6. CASE i < j
    BY <2>3, <2>6
  <2> QED
    BY <2>4, <2>5, <2>6
<1> QED
  BY <1>3, <1>6 DEF Ascends

-----------------------------------------------------------------------------
(* The ends of the tree                                                    *)

\* What n uses of a function make of a.
IsRun(f, n, S, a, F) ==
    f \in [0 .. n -> S] /\ f[0] = a /\ \A d \in 1 .. n : f[d] = F[f[d - 1]]

\* A function may be applied over and over.
LEMMA Iterated ==
  ASSUME NEW n \in Nat, NEW S, NEW a \in S, NEW F \in [S -> S]
  PROVE  \E f : IsRun(f, n, S, a, F)
<1> DEFINE A == {m \in Nat : \E f \in [0 .. m -> S] :
                                 f[0] = a /\ \A d \in 1 .. m : f[d] = F[f[d - 1]]}
<1>1. 0 \in A
  <2>1. PICK f : f = [d \in 0 .. 0 |-> a]
    OBVIOUS
  <2>2. f \in [0 .. 0 -> S] /\ f[0] = a /\ \A d \in 1 .. 0 : f[d] = F[f[d - 1]]
    BY <2>1
  <2> QED
    BY <2>2
<1>2. ASSUME NEW m \in 1 .. n, m - 1 \in A PROVE m \in A
  <2>1. PICK f \in [0 .. m - 1 -> S] :
            f[0] = a /\ \A d \in 1 .. m - 1 : f[d] = F[f[d - 1]]
    BY <1>2
  <2>2. PICK p : p = m - 1
    OBVIOUS
  <2>3. p \in Nat /\ m = p + 1 /\ p \in 0 .. p /\ 0 \in 0 .. p
    BY <2>2
  <2> DEFINE g == [d \in 0 .. m |-> IF d = m THEN F[f[p]] ELSE f[d]]
  <2>4. \A d \in 0 .. p : g[d] = f[d] /\ f[d] \in S
    BY <2>1, <2>2, <2>3
  <2>5. g[m] = F[g[p]] /\ g[m] \in S
    BY <2>1, <2>2, <2>3, <2>4
  <2>6. DOMAIN g = 0 .. m /\ g = [d \in 0 .. m |-> g[d]]
    OBVIOUS
  <2> HIDE DEF g
  <2>7. \A d \in 0 .. m : g[d] \in S
    BY <2>3, <2>4, <2>5
  <2>8. g[0] = a
    BY <2>1, <2>3, <2>4
  <2>9. \A d \in 1 .. m : g[d] = F[g[d - 1]]
    <3> SUFFICES ASSUME NEW d \in 1 .. m PROVE g[d] = F[g[d - 1]]
      OBVIOUS
    <3>1. CASE d = m
      BY <2>2, <2>5, <3>1
    <3>2. CASE d # m
      <4>1. d \in 1 .. m - 1 /\ d \in 0 .. p /\ d - 1 \in 0 .. p
        BY <2>3, <3>2
      <4> QED
        BY <2>1, <2>4, <4>1
    <3> QED
      BY <3>1, <3>2
  <2>10. g \in [0 .. m -> S]
    BY <2>6, <2>7
  <2> QED
    BY <2>8, <2>9, <2>10
<1> HIDE DEF A
<1>3. n \in A
  BY <1>1, <1>2, CountUp
<1> QED
  BY <1>3 DEF A, IsRun

(***************************************************************************)
(* f[0] is the root, and every step F from an inner node leads one level   *)
(* down, within S: after as many steps as there are inner nodes it is at a *)
(* leaf.                                                                   *)
(***************************************************************************)
LEMMA DescentEnds ==
  ASSUME NEW h, Good(h), NEW N, N = Len(inners), NEW S, NEW F, root \in S,
         \A x \in S : x.kind # "leaf" => /\ F[x] \in S /\ h[x.id] \in 1 .. N
                                         /\ HeightOf(h, F[x]) = h[x.id] - 1,
         NEW f, f[0] = root,
         \A d \in 1 .. N : f[d - 1] \in S =>
             f[d] = IF f[d - 1].kind = "leaf" THEN f[d - 1] ELSE F[f[d - 1]]
  PROVE  N \in Nat /\ (\A d \in 0 .. N : f[d] \in S) /\ f[N].kind = "leaf"
<1>1. N \in Nat
  BY LenProperties DEF Good, StoreOK
<1> DEFINE A == {d \in 0 .. N : f[d] \in S /\ HeightOf(h, f[d]) <= N - d}
<1>2. 0 \in A
  <2>1. CASE root.kind = "leaf"
    BY <1>1, <2>1 DEF HeightOf
  <2>2. CASE root.kind # "leaf"
    <3>1. h[root.id] \in 1 .. N
      BY <2>2
    <3> QED
      BY <1>1, <2>2, <3>1 DEF HeightOf
  <2> QED
    BY <2>1, <2>2
<1>3. ASSUME NEW d \in 1 .. N, d - 1 \in A PROVE d \in A
  <2>1. PICK x : x = f[d - 1]
    OBVIOUS
  <2>2. x \in S /\ HeightOf(h, x) <= N - (d - 1)
    BY <1>3, <2>1
  <2>3. f[d] = IF x.kind = "leaf" THEN x ELSE F[x]
    BY <2>1, <2>2
  <2>4. CASE x.kind = "leaf"
    BY <1>1, <2>2, <2>3, <2>4 DEF HeightOf
  <2>5. CASE x.kind # "leaf"
    <3>1. F[x] \in S /\ h[x.id] \in 1 .. N /\ HeightOf(h, F[x]) = h[x.id] - 1
      BY <2>2, <2>5
    <3> QED
      BY <1>1, <2>2, <2>3, <2>5, <3>1 DEF HeightOf
  <2> QED
    BY <2>4, <2>5
<1> HIDE DEF A
<1>4. 0 .. N \subseteq A
  BY <1>1, <1>2, <1>3, CountUp
<1>5. \A d \in 0 .. N : f[d] \in S
  BY <1>4 DEF A
<1>6. f[N].kind = "leaf"
  <2>1. f[N] \in S /\ HeightOf(h, f[N]) <= 0
    BY <1>1, <1>4 DEF A
  <2>2. CASE f[N].kind # "leaf"
    <3>1. h[f[N].id] \in 1 .. N
      BY <2>1, <2>2
    <3> QED
      BY <2>1, <2>2, <3>1 DEF HeightOf
  <2> QED
    BY <2>2
<1> QED
  BY <1>1, <1>5, <1>6

\* The child at an end of a node, and the leaf at an end of the tree.
EndChild(n, last) == IF last THEN InnerSize(n) + 1 ELSE 1
EndLeaf(last) == IF last THEN LastLeaf ELSE FirstLeaf

\* No key beyond those of x is routed elsewhere.
AtEnd(R, x, last) ==
    \A k \in Key, s \in R[x] : (IF last THEN s < k ELSE k < s) => k \in R[x]

\* The nodes of the tree at one of its ends.
EndNodes(T, R, last) == {x \in NodeId : InTree(T, x) /\ AtEnd(R, x, last)}

\* The right half of a split is not at the lower end, its left half is.
LEMMA EndKnown ==
  ASSUME NEW h, Good(h), NEW T, NEW R, Routed(T, R), NEW last \in BOOLEAN, IsSplit => ~last,
         NEW x \in NodeId, R[x] \subseteq Key, AtEnd(Known(R), x, last)
  PROVE  AtEnd(R, x, last)
<1> SUFFICES ASSUME NEW k \in Key, NEW s \in R[x], IF last THEN s < k ELSE k < s
             PROVE  k \in R[x]
  BY DEF AtEnd
<1>1. R \in Routing
  BY DEF Routed
<1>2. k \in Int /\ s \in Int
  BY KeyAssumption
<1>3. CASE IsSplit /\ x = Current
  <2>1. Known(R)[x] = R[x] \cup R[r.right]
    BY <1>1, <1>3, KnownIs
  <2>2. k \in R[x] \cup R[r.right]
    BY <2>1 DEF AtEnd
  <2>3. Separates(r.k, R[x], R[r.right])
    BY <1>3 DEF Routed, InOrder, KeysShared
  <2>4. r.right \in NodeId
    BY <1>3, NodesOfTree DEF NodesOf, Orphans
  <2>5. r.k \in Int /\ R[r.right] \subseteq Int
    BY <1>1, <2>3, <2>4, KeyAssumption DEF Routing, Separates
  <2>6. \A b \in R[r.right] : s < b
    BY <1>2, <2>3, <2>5 DEF Separates
  <2>7. k < s
    BY <1>3
  <2> QED
    BY <1>2, <2>2, <2>6, <2>7
<1>4. CASE ~(IsSplit /\ x = Current)
  <2>1. Known(R)[x] = R[x]
    BY <1>4 DEF Known
  <2> QED
    BY <2>1 DEF AtEnd
<1> QED
  BY <1>3, <1>4

\* The child at the end of a node at the end is at the end.
LEMMA EndDown ==
  ASSUME NEW h, Good(h), NEW T, NEW R, Routed(T, R), NEW last \in BOOLEAN, IsSplit => ~last,
         NEW x \in EndNodes(T, Known(R), last), x.kind # "leaf"
  PROVE  LET y == inners[x.id].child[EndChild(inners[x.id], last)]
         IN  /\ y \in EndNodes(T, Known(R), last)
             /\ h[x.id] \in 1 .. Len(inners) /\ HeightOf(h, y) = h[x.id] - 1
<1> DEFINE n == inners[x.id]
           c == EndChild(n, last)
           y == n.child[c]
           C == NodesAt(Len(leaves), h, h[x.id] - 1)
           K == Known(R)
<1>1. x.kind = "inner" /\ x.id \in T /\ x = Inner(x.id)
  BY DEF EndNodes, InTree, NodeId, Inner
<1>2. IsInner(n, Key, C) /\ R[x] \subseteq Key /\ Routes(n, R[x], K) /\ x.id \in DOMAIN inners
  BY <1>1, RangeOf
<1>3. h[x.id] \in 1 .. Len(inners)
  BY <1>2 DEF Good, StoreOK
<1> HIDE DEF n, C, K
<1>4. /\ Len(n.keys) \in Nat /\ DOMAIN n.child = 1 .. Len(n.keys) + 1
      /\ n.child \in Seq(C)
  BY <1>2, NodeParts
<1>5. c \in DOMAIN n.child
  BY <1>4 DEF EndChild, InnerSize
<1>6. y \in Range(n.child) /\ y \in C
  BY <1>4, <1>5, ElementOfSeq DEF Range
<1>7. InTree(T, y)
  BY <1>1, <1>6 DEF n, Routed, InOrder, LeavesKnown
<1>8. y \in NodeId /\ HeightOf(h, y) = h[x.id] - 1
  BY <1>3, <1>6 DEF C, NodesAt, NodeId, HeightOf, Leaf, Inner, Good, StoreOK
<1>9. AtEnd(K, y, last)
  <2> SUFFICES ASSUME NEW k \in Key, NEW s \in K[y], IF last THEN s < k ELSE k < s
               PROVE  k \in K[y]
    BY DEF AtEnd
  <2>1. s \in R[x] /\ R[x] # {}
    <3>1. PICK z : z = y
      OBVIOUS
    <3>2. z \in Range(n.child) /\ s \in K[z]
      BY <1>6, <3>1
    <3>3. R[x] = UNION {K[w] : w \in Range(n.child)}
      BY <1>2 DEF Routes
    <3> QED
      BY <3>2, <3>3
  <2>4. k \in Int /\ s \in Int
    BY <1>2, <2>1, KeyAssumption
  <2>2. k \in R[x]
    <3>1. AtEnd(R, x, last)
      BY <1>1, <1>2, EndKnown DEF EndNodes
    <3> QED
      BY <2>1, <3>1 DEF AtEnd
  <2>3. PICK d \in DOMAIN n.child : k \in K[n.child[d]]
    BY <1>2, <2>2 DEF Routes, Range
  <2>5. \A a, b \in DOMAIN n.child : a < b => Precedes(K[n.child[a]], K[n.child[b]])
    BY <1>2, <2>1, RoutesApart
  <2>6. (last => d <= c) /\ (~last => c <= d)
    BY <1>4, <2>3 DEF EndChild, InnerSize
  <2>7. CASE d = c
    BY <2>3, <2>7
  <2>8. CASE last /\ d # c
    <3>1. d < c
      BY <1>4, <1>5, <2>3, <2>8 DEF EndChild, InnerSize
    <3>2. k < s
      BY <1>5, <2>3, <2>5, <3>1 DEF Precedes
    <3> QED
      BY <2>4, <2>8, <3>2
  <2>9. CASE ~last /\ d # c
    <3>1. c < d
      BY <1>4, <1>5, <2>3, <2>9 DEF EndChild, InnerSize
    <3>2. s < k
      BY <1>5, <2>3, <2>5, <3>1 DEF Precedes
    <3> QED
      BY <2>4, <2>9, <3>2
  <2> QED
    BY <2>7, <2>8, <2>9
<1> HIDE DEF y
<1>10. y \in EndNodes(T, Known(R), last)
  BY <1>7, <1>8, <1>9 DEF EndNodes, K
<1> QED
  BY <1>3, <1>8, <1>10 DEF y, n

\* The descent along an end of the tree.
IsEndDescent(f, last) ==
    f = [d \in 0 .. Len(inners) |->
            IF d = 0 THEN root
            ELSE LET id == f[d - 1]
                 IN  IF id.kind = "leaf" THEN id
                     ELSE inners[id.id].child[EndChild(inners[id.id], last)]]

\* The descent to an end of the tree can be made, and starts on its nodes.
LEMMA EndDescentExists ==
  ASSUME NEW h, Good(h), NEW T, NEW R, Routed(T, R), NEW last \in BOOLEAN, IsSplit => ~last
  PROVE  (\E f : IsEndDescent(f, last)) /\ root \in EndNodes(T, Known(R), last)
<1> DEFINE S == EndNodes(T, Known(R), last)
           Next1(x) == IF x.kind = "leaf" THEN x
                       ELSE inners[x.id].child[EndChild(inners[x.id], last)]
           F == [x \in S |-> Next1(x)]
<1>1. PICK N \in Nat : N = Len(inners)
  BY LenProperties DEF Good, StoreOK
<1>2. root \in S
  <2>1. Known(R)[root] = Key
    BY DEF Routed, InOrder, KeysShared
  <2> QED
    BY <2>1 DEF Routed, InOrder, LeavesKnown, Orphans, Good, Scalars, EndNodes, AtEnd
<1>3. \A x \in S : Next1(x) \in S
  BY EndDown
<1> HIDE DEF S
<1>4. F \in [S -> S]
  BY <1>3
<1>5. PICK f \in [0 .. N -> S] : f[0] = root /\ \A d \in 1 .. N : f[d] = F[f[d - 1]]
  <2> HIDE DEF F
  <2>1. \E f : IsRun(f, N, S, root, F)
    BY <1>1, <1>2, <1>4, Iterated
  <2> QED
    BY <2>1 DEF IsRun
<1>6. \A d \in 0 .. N : f[d] = IF d = 0 THEN root ELSE Next1(f[d - 1])
  <2> SUFFICES ASSUME NEW d \in 0 .. N, d # 0 PROVE f[d] = Next1(f[d - 1])
    BY <1>5
  <2>1. d \in 1 .. N /\ d - 1 \in 0 .. N
    OBVIOUS
  <2>2. f[d - 1] \in S
    BY <1>5, <2>1
  <2> QED
    BY <1>5, <2>1, <2>2
<1>7. f = [d \in 0 .. N |-> f[d]]
  BY <1>5
<1>8. IsEndDescent(f, last)
  BY <1>1, <1>6, <1>7 DEF IsEndDescent
<1> QED
  BY <1>2, <1>8 DEF S

\* The descents of first_leaf and last_leaf.
IsFirstDescent(f) ==
    f = [d \in 0 .. Len(inners) |->
            IF d = 0 THEN root
            ELSE LET id == f[d - 1]
                 IN  IF id.kind = "leaf" THEN id ELSE inners[id.id].child[1]]

IsLastDescent(f) ==
    f = [d \in 0 .. Len(inners) |->
            IF d = 0 THEN root
            ELSE LET id == f[d - 1]
                 IN  IF id.kind = "leaf" THEN id
                     ELSE inners[id.id].child[InnerSize(inners[id.id]) + 1]]

\* first_leaf_id and last_leaf_id are where that descent ends.
LEMMA EndLeafDescends ==
  ASSUME NEW last \in BOOLEAN, \E f : IsEndDescent(f, last)
  PROVE  \E f : IsEndDescent(f, last) /\ EndLeaf(last) = f[Len(inners)].id
<1>1. CASE last = TRUE
  <2>1. \A f : IsLastDescent(f) <=> IsEndDescent(f, last)
    BY <1>1 DEF IsLastDescent, IsEndDescent, EndChild
  <2>2. PICK f : f = CHOOSE g : IsLastDescent(g)
    OBVIOUS
  <2>3. IsEndDescent(f, last)
    BY <2>1, <2>2
  <2>4. LastLeaf = (CHOOSE g : IsLastDescent(g))[Len(inners)].id
    BY DEF LastLeaf, DescendBy, IsLastDescent
  <2>5. EndLeaf(last) = LastLeaf
    BY <1>1 DEF EndLeaf
  <2> QED
    BY <2>2, <2>3, <2>4, <2>5
<1>2. CASE last = FALSE
  <2>1. \A f : IsFirstDescent(f) <=> IsEndDescent(f, last)
    BY <1>2 DEF IsFirstDescent, IsEndDescent, EndChild
  <2>2. PICK f : f = CHOOSE g : IsFirstDescent(g)
    OBVIOUS
  <2>3. IsEndDescent(f, last)
    BY <2>1, <2>2
  <2>4. FirstLeaf = (CHOOSE g : IsFirstDescent(g))[Len(inners)].id
    BY DEF FirstLeaf, DescendBy, IsFirstDescent
  <2>5. EndLeaf(last) = FirstLeaf
    BY <1>2 DEF EndLeaf
  <2> QED
    BY <2>2, <2>3, <2>4, <2>5
<1> QED
  BY <1>1, <1>2

\* That descent stays on the nodes at that end, and ends in a leaf.
LEMMA EndDescentIs ==
  ASSUME NEW h, Good(h), NEW T, NEW R, Routed(T, R), NEW last \in BOOLEAN, IsSplit => ~last,
         NEW f, IsEndDescent(f, last)
  PROVE  /\ Len(inners) \in Nat
         /\ \A d \in 0 .. Len(inners) : f[d] \in EndNodes(T, Known(R), last)
         /\ f[Len(inners)].kind = "leaf"
<1>1. PICK N : N = Len(inners)
  OBVIOUS
<1>2. PICK S : S = EndNodes(T, Known(R), last)
  OBVIOUS
<1>4. PICK F : F = [x \in S |-> inners[x.id].child[EndChild(inners[x.id], last)]]
  OBVIOUS
<1>5. root \in S /\ N \in Nat
  BY <1>1, <1>2, EndDescentExists, LenProperties DEF Good, StoreOK
<1>6. f[0] = root
  BY <1>1, <1>5 DEF IsEndDescent
<1>7. \A d \in 1 .. N : f[d - 1] \in S =>
          f[d] = IF f[d - 1].kind = "leaf" THEN f[d - 1] ELSE F[f[d - 1]]
  <2> SUFFICES ASSUME NEW d \in 1 .. N, f[d - 1] \in S
               PROVE  f[d] = IF f[d - 1].kind = "leaf" THEN f[d - 1] ELSE F[f[d - 1]]
    OBVIOUS
  <2>1. d \in 0 .. N /\ d # 0
    BY <1>5
  <2> QED
    BY <1>1, <1>4, <2>1 DEF IsEndDescent
<1>8. \A x \in S : x.kind # "leaf" => /\ F[x] \in S /\ h[x.id] \in 1 .. N
                                      /\ HeightOf(h, F[x]) = h[x.id] - 1
  BY <1>1, <1>2, <1>4, EndDown
<1>9. (\A d \in 0 .. N : f[d] \in S) /\ f[N].kind = "leaf"
  BY ONLY Good(h), <1>1, <1>5, <1>6, <1>7, <1>8, DescentEnds
<1> QED
  BY <1>1, <1>2, <1>5, <1>9

\* first_leaf and last_leaf find the leaf that gets the least, or largest, keys.
LEMMA EndLeafIs ==
  ASSUME NEW h, Good(h), NEW T, NEW R, Routed(T, R), NEW last \in BOOLEAN, IsSplit => ~last
  PROVE  /\ EndLeaf(last) \in LeafAlive
         /\ AtEnd(R, Leaf(EndLeaf(last)), last)
         /\ \E f : IsEndDescent(f, last) /\ f[Len(inners)] = Leaf(EndLeaf(last))
<1>1. PICK N : N = Len(inners)
  OBVIOUS
<1>2. PICK S : S = EndNodes(T, Known(R), last)
  OBVIOUS
<1>3. PICK f : IsEndDescent(f, last) /\ EndLeaf(last) = f[N].id
  BY <1>1, EndDescentExists, EndLeafDescends
<1>4. N \in Nat /\ (\A d \in 0 .. N : f[d] \in S) /\ f[N].kind = "leaf"
  BY <1>1, <1>2, <1>3, EndDescentIs
<1>10. f[N] \in S
  BY <1>4
<1>11. f[N] = Leaf(f[N].id)
  BY <1>2, <1>4, <1>10 DEF EndNodes, NodeId, Leaf
<1>12. EndLeaf(last) \in LeafAlive /\ f[N] \in NodeId /\ AtEnd(Known(R), f[N], last)
  BY <1>2, <1>3, <1>4, <1>10 DEF EndNodes, InTree
<1>13. R[f[N]] \subseteq Key
  BY <1>12 DEF Routed, Routing
<1> QED
  BY <1>1, <1>3, <1>11, <1>12, <1>13, EndKnown

-----------------------------------------------------------------------------
(* The walk along next                                                     *)

(***************************************************************************)
(* p gives each leaf a number in the order of the chain: next is the leaf  *)
(* with the next larger number, and first has the least.                   *)
(***************************************************************************)
Guides(p, first) ==
    /\ p \in [LeafAlive -> Int]
    /\ first \in LeafAlive /\ \A m \in LeafAlive \ {first} : p[first] < p[m]
    /\ \A l \in LeafAlive :
           LET next == leaves[l].next
           IN  /\ next = None => \A m \in LeafAlive \ {l} : p[m] < p[l]
               /\ next # None => /\ next \in LeafAlive /\ p[l] < p[next]
                                 /\ \A m \in LeafAlive : p[l] < p[m] => m = next \/ p[next] < p[m]

\* The leaves met by the first n steps from first.
IsWalk(g, first, n) ==
    g = [i \in 1 .. n |->
            IF i = 1 THEN <<first>>
            ELSE LET s == g[i - 1]
                     next == leaves[s[Len(s)]].next
                 IN  IF next = None THEN s ELSE Append(s, next)]

\* c goes along next from first, for n leaves or up to the last one.
Walked(c, first, n) ==
    /\ c \in Seq(LeafAlive) /\ Len(c) \in 1 .. n /\ c[1] = first
    /\ \A i \in 1 .. Len(c) - 1 : leaves[c[i]].next # None /\ c[i + 1] = leaves[c[i]].next
    /\ Len(c) = n \/ leaves[c[Len(c)]].next = None

\* What the chain is: every leaf once, in the order of p.
Meets(c, p) ==
    /\ c \in Seq(LeafAlive) /\ Len(c) >= 1
    /\ \A l \in LeafAlive : \E i \in 1 .. Len(c) : c[i] = l
    /\ Len(c) = Cardinality(LeafAlive)
    /\ \A i \in 1 .. Len(c) - 1 : leaves[c[i]].next # None /\ c[i + 1] = leaves[c[i]].next
    /\ leaves[c[Len(c)]].next = None
    /\ \A i, j \in 1 .. Len(c) : i < j => p[c[i]] < p[c[j]]

\* One more leaf.
LEMMA WalkedOn ==
  ASSUME NEW p, NEW first, Guides(p, first), NEW n \in Nat, NEW c, Walked(c, first, n)
  PROVE  LET next == leaves[c[Len(c)]].next
         IN  Walked(IF next = None THEN c ELSE Append(c, next), first, n + 1)
<1>1. PICK next : next = leaves[c[Len(c)]].next
  OBVIOUS
<1>2. PICK m : m = Len(c)
  OBVIOUS
<1>3. c \in Seq(LeafAlive) /\ m \in Nat /\ m \in 1 .. n /\ c[m] \in LeafAlive
  BY <1>2, ElementOfSeq DEF Walked
<1>4. CASE next = None
  <2>1. m \in 1 .. n + 1
    BY <1>3
  <2> QED
    BY <1>1, <1>2, <1>4, <2>1 DEF Walked
<1>5. CASE next # None
  <2>1. next \in LeafAlive
    BY <1>1, <1>2, <1>3, <1>5 DEF Guides
  <2>2. PICK d : d = Append(c, next)
    OBVIOUS
  <2>3. /\ d \in Seq(LeafAlive) /\ Len(d) = m + 1 /\ d[m + 1] = next
        /\ \A i \in 1 .. m : d[i] = c[i]
    BY <1>2, <1>3, <2>1, <2>2, AppendProperties
  <2>4. m = n
    BY <1>1, <1>2, <1>5 DEF Walked
  <2>5. ASSUME NEW i \in 1 .. Len(d) - 1
        PROVE  leaves[d[i]].next # None /\ d[i + 1] = leaves[d[i]].next
    <3>1. i \in 1 .. m
      BY <1>3, <2>3
    <3>2. CASE i = m
      BY <1>1, <1>2, <1>5, <2>3, <3>1, <3>2
    <3>3. CASE i # m
      <4>1. i \in 1 .. m - 1 /\ i + 1 \in 1 .. m
        BY <1>3, <3>1, <3>3
      <4>2. leaves[c[i]].next # None /\ c[i + 1] = leaves[c[i]].next
        BY <1>2, <4>1 DEF Walked
      <4> QED
        BY <2>3, <3>1, <4>1, <4>2
    <3> QED
      BY <3>2, <3>3
  <2>6. d[1] = first /\ Len(d) \in 1 .. n + 1 /\ Len(d) = n + 1
    BY <1>3, <2>3, <2>4 DEF Walked
  <2>7. Walked(d, first, n + 1)
    BY <2>3, <2>5, <2>6 DEF Walked
  <2> QED
    BY <1>1, <1>5, <2>2, <2>7
<1> QED
  BY <1>4, <1>5

\* The walk goes up.
LEMMA WalkedUp ==
  ASSUME NEW p, NEW first, Guides(p, first), NEW n \in Nat, NEW c, Walked(c, first, n),
         NEW i \in 1 .. Len(c), NEW j \in 1 .. Len(c), i < j
  PROVE  p[c[i]] < p[c[j]]
<1> DEFINE A == {d \in 0 .. Len(c) : i < d => p[c[i]] < p[c[d]]}
<1>1. Len(c) \in Nat /\ \A d \in 1 .. Len(c) : c[d] \in LeafAlive /\ p[c[d]] \in Int
  <2>1. Len(c) \in Nat /\ \A d \in 1 .. Len(c) : c[d] \in LeafAlive
    BY ElementOfSeq DEF Walked
  <2> QED
    BY <2>1 DEF Guides
<1>2. 0 \in A
  BY <1>1
<1>3. ASSUME NEW d \in 1 .. Len(c), d - 1 \in A PROVE d \in A
  <2> SUFFICES ASSUME i < d PROVE p[c[i]] < p[c[d]]
    BY <1>1
  <2>1. d - 1 \in 1 .. Len(c) - 1 /\ d - 1 \in 1 .. Len(c) /\ (d - 1) + 1 = d
    BY <1>1
  <2>2. PICK e : e = d - 1
    OBVIOUS
  <2>3. e \in 1 .. Len(c) - 1 /\ e \in 1 .. Len(c) /\ e + 1 = d
    BY <2>1, <2>2
  <2>4. leaves[c[e]].next # None /\ c[d] = leaves[c[e]].next
    BY <2>3 DEF Walked
  <2>5. p[c[e]] < p[c[d]]
    BY <1>1, <2>3, <2>4 DEF Guides
  <2>6. i = e \/ (i < e /\ p[c[i]] < p[c[e]])
    BY <1>3, <2>2, <2>3
  <2> QED
    BY <1>1, <2>3, <2>5, <2>6
<1> HIDE DEF A
<1>4. j \in 0 .. Len(c)
  OBVIOUS
<1>5. j \in A
  BY <1>1, <1>2, <1>3, <1>4, CountUp
<1> QED
  BY <1>5 DEF A

\* A leaf is on the walk, or lies after it.
LEMMA WalkedPast ==
  ASSUME NEW p, NEW first, Guides(p, first), NEW n \in Nat, NEW c, Walked(c, first, n),
         NEW m \in LeafAlive
  PROVE  (\E i \in 1 .. Len(c) : c[i] = m) \/ p[c[Len(c)]] < p[m]
<1> DEFINE A == {d \in 0 .. Len(c) : d # 0 => (\E i \in 1 .. d : c[i] = m) \/ p[c[d]] < p[m]}
<1>1. Len(c) \in Nat \ {0} /\ \A d \in 1 .. Len(c) : c[d] \in LeafAlive
  BY ElementOfSeq DEF Walked
<1>2. 0 \in A
  BY <1>1
<1>3. ASSUME NEW d \in 1 .. Len(c), d - 1 \in A PROVE d \in A
  <2> SUFFICES (\E i \in 1 .. d : c[i] = m) \/ p[c[d]] < p[m]
    BY <1>1
  <2>1. CASE d = 1
    <3>1. c[d] = first /\ d \in 1 .. d
      BY <2>1 DEF Walked
    <3> QED
      BY <3>1 DEF Guides
  <2>2. CASE d # 1
    <3>1. PICK e : e = d - 1
      OBVIOUS
    <3>2. e \in 1 .. Len(c) - 1 /\ e \in 1 .. Len(c) /\ e + 1 = d /\ d \in 1 .. d /\ e # 0
      BY <1>1, <2>2, <3>1
    <3>3. leaves[c[e]].next # None /\ c[d] = leaves[c[e]].next
      BY <3>2 DEF Walked
    <3>4. (\E i \in 1 .. e : c[i] = m) \/ p[c[e]] < p[m]
      BY <1>3, <3>1, <3>2
    <3>5. CASE \E i \in 1 .. e : c[i] = m
      <4>1. PICK i \in 1 .. e : c[i] = m
        BY <3>5
      <4>2. i \in 1 .. d
        BY <3>2, <4>1
      <4> QED
        BY <4>1, <4>2
    <3>6. CASE p[c[e]] < p[m]
      <4>1. m = c[d] \/ p[c[d]] < p[m]
        BY <1>1, <3>2, <3>3, <3>6 DEF Guides
      <4> QED
        BY <3>2, <4>1
    <3> QED
      BY <3>4, <3>5, <3>6
  <2> QED
    BY <2>1, <2>2
<1> HIDE DEF A
<1>4. 0 .. Len(c) \subseteq A
  BY <1>1, <1>2, <1>3, CountUp
<1>5. Len(c) \in A /\ Len(c) # 0
  BY <1>1, <1>4
<1> QED
  BY <1>5 DEF A

\* There are not more leaves than slots: the walk ends, and then has met all.
LEMMA WalkMeetsAll ==
  ASSUME NEW p, NEW first, Guides(p, first), NEW n \in Nat, NEW c, Walked(c, first, n),
         LeafAlive \subseteq 1 .. n
  PROVE  Meets(c, p)
<1>1. PICK m : m = Len(c)
  OBVIOUS
<1>2. PICK next : next = leaves[c[m]].next
  OBVIOUS
<1>3. /\ c \in Seq(LeafAlive) /\ m \in Nat /\ m \in 1 .. n
      /\ \A i \in 1 .. m : c[i] \in LeafAlive /\ p[c[i]] \in Int
  <2>1. c \in Seq(LeafAlive) /\ m \in Nat /\ m \in 1 .. n /\ \A i \in 1 .. m : c[i] \in LeafAlive
    BY <1>1, ElementOfSeq DEF Walked
  <2> QED
    BY <2>1 DEF Guides
<1>4. IsFiniteSet(LeafAlive) /\ Cardinality(LeafAlive) \in Nat /\ Cardinality(LeafAlive) <= n
  <2>1. IsFiniteSet(1 .. n) /\ Cardinality(1 .. n) = n
    BY FS_Interval
  <2>2. IsFiniteSet(LeafAlive) /\ Cardinality(LeafAlive) <= n
    BY <2>1, FS_Subset
  <2> QED
    BY <2>2, FS_CardinalityType
<1>5. \A i, j \in 1 .. m : i < j => p[c[i]] < p[c[j]]
  BY <1>1, WalkedUp
<1>6. next = None
  <2> SUFFICES ASSUME next # None PROVE FALSE
    OBVIOUS
  <2>1. m = n
    BY <1>1, <1>2 DEF Walked
  <2>2. PICK d : d = Append(c, next)
    OBVIOUS
  <2>3. Walked(d, first, n + 1)
    <3>1. next = leaves[c[Len(c)]].next
      BY <1>1, <1>2
    <3>2. Walked(IF next = None THEN c ELSE Append(c, next), first, n + 1)
      BY ONLY Guides(p, first), n \in Nat, Walked(c, first, n), <3>1, WalkedOn
    <3> QED
      BY <2>2, <3>2
  <2>4. next \in LeafAlive
    <3>1. PICK l : l = c[m]
      OBVIOUS
    <3>2. l \in LeafAlive /\ next = leaves[l].next
      BY <1>2, <1>3, <3>1
    <3> QED
      BY <3>2 DEF Guides
  <2>5. d \in Seq(LeafAlive) /\ Len(d) = n + 1
    <3>1. c \in Seq(LeafAlive) /\ Len(c) = n
      BY <1>1, <1>3, <2>1
    <3> QED
      BY <2>2, <2>4, <3>1, AppendProperties
  <2>6. d \in [1 .. n + 1 -> LeafAlive]
    BY <2>5
  <2>7. IsFiniteSet(1 .. n + 1) /\ Cardinality(1 .. n + 1) = n + 1
    BY FS_Interval
  <2>8. Cardinality(LeafAlive) < Cardinality(1 .. n + 1)
    BY <1>4, <2>7
  <2>9. PICK x, y \in 1 .. n + 1 : x # y /\ d[x] = d[y]
    BY <1>4, <2>6, <2>7, <2>8, FS_PigeonHole
  <2>10. p[d[x]] \in Int /\ n + 1 \in Nat
    <3>1. d[x] \in LeafAlive
      <4>1. x \in 1 .. n + 1
        BY <2>9
      <4> QED
        BY <2>6, <4>1
    <3>2. p \in [LeafAlive -> Int]
      BY DEF Guides
    <3>3. p[d[x]] \in Int
      BY <3>1, <3>2
    <3>4. n + 1 \in Nat
      OBVIOUS
    <3> QED
      BY <3>3, <3>4
  <2>11. x < y \/ y < x
    BY <2>9
  <2>12. x \in 1 .. Len(d) /\ y \in 1 .. Len(d)
    BY <2>5
  <2>13. p[d[x]] < p[d[y]] \/ p[d[y]] < p[d[x]]
    BY <2>3, <2>10, <2>11, <2>12, WalkedUp
  <2> QED
    BY <2>9, <2>10, <2>13
<1>7. ASSUME NEW l \in LeafAlive PROVE \E i \in 1 .. m : c[i] = l
  <2>1. CASE p[c[m]] < p[l]
    <3>1. l = c[m] \/ p[l] < p[c[m]]
      <4>1. PICK t : t = c[m]
        OBVIOUS
      <4>2. t \in LeafAlive /\ leaves[t].next = None
        <5>1. m \in 1 .. m
          BY <1>3
        <5>2. t \in LeafAlive
          BY <1>3, <4>1, <5>1
        <5> QED
          BY <1>2, <1>6, <4>1, <5>2
      <4>3. \A q \in LeafAlive \ {t} : p[q] < p[t]
        BY <4>2 DEF Guides
      <4> QED
        BY <4>1, <4>3
    <3>2. p[l] \in Int /\ p[c[m]] \in Int
      BY <1>3 DEF Guides
    <3> QED
      BY <2>1, <3>1, <3>2
  <2> QED
    BY <1>1, <2>1, WalkedPast
<1>8. m = Cardinality(LeafAlive)
  <2>1. c \in [1 .. m -> LeafAlive]
    BY <1>1, <1>3
  <2>2. \A i, j \in 1 .. m : c[i] = c[j] => i = j
    <3> SUFFICES ASSUME NEW i \in 1 .. m, NEW j \in 1 .. m, c[i] = c[j] PROVE i = j
      OBVIOUS
    <3>1. ~(i < j) /\ ~(j < i)
      BY <1>3, <1>5
    <3> QED
      BY <1>3, <3>1
  <2>3. c \in Bijection(1 .. m, LeafAlive)
    BY <1>7, <2>1, <2>2 DEF Bijection, Injection, Surjection, IsInjective
  <2>4. ExistsBijection(1 .. m, LeafAlive)
    BY <2>3 DEF ExistsBijection
  <2>5. IsFiniteSet(1 .. m) /\ Cardinality(1 .. m) = m
    BY <1>3, FS_Interval
  <2> QED
    BY <2>4, <2>5, FS_Bijection
<1>9. \A i \in 1 .. m - 1 : leaves[c[i]].next # None /\ c[i + 1] = leaves[c[i]].next
  BY <1>1 DEF Walked
<1> QED
  BY <1>1, <1>2, <1>3, <1>5, <1>6, <1>7, <1>8, <1>9 DEF Meets

\* The walk can be made, and goes along next.
LEMMA WalkExists ==
  ASSUME NEW p, NEW first, Guides(p, first), NEW n \in Nat \ {0}
  PROVE  /\ \E g : IsWalk(g, first, n)
         /\ \A g : IsWalk(g, first, n) => Walked(g[n], first, n)
<1> DEFINE On(s) == LET next == leaves[s[Len(s)]].next
                    IN  IF next = None THEN s ELSE Append(s, next)
           S == Seq(LeafAlive) \ {<<>>}
           F == [s \in S |-> On(s)]
<1>1. <<first>> \in S /\ Walked(<<first>>, first, 1)
  <2>1. first \in LeafAlive
    BY DEF Guides
  <2>2. <<first>> \in Seq(LeafAlive) /\ Len(<<first>>) = 1 /\ <<first>>[1] = first
    BY <2>1
  <2> QED
    BY <2>2, EmptySeq DEF Walked
<1>2. ASSUME NEW s \in S PROVE On(s) \in S
  <2>1. s \in Seq(LeafAlive) /\ Len(s) \in 1 .. Len(s) /\ s[Len(s)] \in LeafAlive
    BY EmptySeq, LenProperties, ElementOfSeq
  <2>2. PICK next : next = leaves[s[Len(s)]].next
    OBVIOUS
  <2>3. next # None => next \in LeafAlive
    BY <2>1, <2>2 DEF Guides
  <2>4. next # None => Append(s, next) \in Seq(LeafAlive) /\ Append(s, next) # <<>>
    BY <2>1, <2>3, AppendProperties
  <2> QED
    BY <2>2, <2>4
<1>3. F \in [S -> S]
  BY <1>2
<1>4. PICK q : q = n - 1
  OBVIOUS
<1>5. q \in Nat /\ n = q + 1
  BY <1>4
<1>6. PICK f : IsRun(f, q, S, <<first>>, F)
  <2> HIDE DEF F, S
  <2> QED
    BY <1>1, <1>3, <1>5, Iterated
<1>7. PICK g : g = [i \in 1 .. n |-> f[i - 1]]
  OBVIOUS
<1>8. ASSUME NEW i \in 1 .. n
      PROVE  g[i] = IF i = 1 THEN <<first>> ELSE On(g[i - 1])
  <2>1. g[i] = f[i - 1]
    BY <1>7
  <2>2. CASE i = 1
    BY <1>6, <2>1, <2>2 DEF IsRun
  <2>3. CASE i # 1
    <3>1. PICK j : j = i - 1
      OBVIOUS
    <3>2. j \in 1 .. n /\ j \in 1 .. q /\ j - 1 \in 0 .. q
      BY <1>5, <2>3, <3>1
    <3>3. g[j] = f[j - 1] /\ f[j] = F[f[j - 1]] /\ f[j - 1] \in S
      BY <1>6, <1>7, <3>2 DEF IsRun
    <3>4. f[j] = On(g[j])
      BY <3>3
    <3> QED
      BY <2>1, <2>3, <3>1, <3>4
  <2> QED
    BY <2>2, <2>3
<1>9. IsWalk(g, first, n)
  <2>1. g = [i \in 1 .. n |-> g[i]]
    BY <1>7
  <2> QED
    BY <1>8, <2>1 DEF IsWalk
<1>10. ASSUME NEW w, IsWalk(w, first, n) PROVE Walked(w[n], first, n)
  <2> DEFINE A == {d \in 0 .. q : Walked(w[d + 1], first, d + 1)}
  <2>1. 0 \in A
    <3>1. w[1] = <<first>>
      BY <1>10 DEF IsWalk
    <3> QED
      BY <1>1, <1>5, <3>1
  <2>2. ASSUME NEW d \in 1 .. q, d - 1 \in A PROVE d \in A
    <3>1. d \in Nat /\ (d - 1) + 1 = d /\ d + 1 \in 1 .. n /\ d + 1 # 1 /\ (d + 1) - 1 = d
      BY <1>5
    <3>2. Walked(w[d], first, d)
      BY <2>2, <3>1
    <3>3. w[d + 1] = On(w[d])
      <4>1. PICK e : e = d + 1
        OBVIOUS
      <4>2. e \in 1 .. n /\ e # 1 /\ e - 1 = d
        BY <3>1, <4>1
      <4>3. w[e] = On(w[e - 1])
        BY <1>10, <4>2 DEF IsWalk
      <4> QED
        BY <4>1, <4>2, <4>3
    <3>4. Walked(On(w[d]), first, d + 1)
      BY <3>1, <3>2, WalkedOn
    <3> QED
      BY <1>5, <3>3, <3>4
  <2> HIDE DEF A
  <2>3. q \in A
    BY <1>5, <2>1, <2>2, CountUp
  <2> QED
    BY <1>5, <2>3 DEF A
<1> QED
  BY <1>9, <1>10

-----------------------------------------------------------------------------
(* The chain                                                               *)

\* Without keys there is only the leaf a tree starts with, and it stays empty.
EmptyWithoutKeys == Key = {} => leaves = <<EmptyLeaf>>

\* The numbers follow the order of the keys routed to the leaves.
Orders(p, R) == \A l, m \in LeafAlive : p[l] < p[m] => Ahead(R, l, m)

\* One key of every leaf numbers the leaves in the order of the chain.
LEMMA GuideExists ==
  ASSUME NEW h, Good(h), NEW T, NEW R, Routed(T, R), EmptyWithoutKeys
  PROVE  \E p : Guides(p, FirstLeaf) /\ Orders(p, R)
<1>1. PICK first : first = FirstLeaf
  OBVIOUS
<1>2. first \in LeafAlive /\ AtEnd(R, Leaf(first), FALSE)
  <2>1. EndLeaf(FALSE) = FirstLeaf /\ FALSE \in BOOLEAN
    BY DEF EndLeaf
  <2> QED
    BY <1>1, <2>1, EndLeafIs
<1>3. CASE Key = {}
  <2>1. PICK p : p = [l \in LeafAlive |-> 0]
    OBVIOUS
  <2>2. LeafAlive \subseteq {1} /\ leaves[1].next = None
    BY <1>3 DEF EmptyWithoutKeys, LeafAlive, EmptyLeaf
  <2>3. first = 1 /\ LeafAlive = {1}
    BY <1>2, <2>2
  <2>4. Guides(p, first) /\ Orders(p, R)
    BY <2>1, <2>2, <2>3 DEF Guides, Orders
  <2> QED
    BY <1>1, <2>4
<1>4. CASE Key # {}
  <2>1. PICK p : p = [l \in LeafAlive |-> CHOOSE k : k \in R[Leaf(l)]]
    OBVIOUS
  <2>2. ASSUME NEW l \in LeafAlive PROVE p[l] \in R[Leaf(l)] /\ p[l] \in Int /\ p[l] \in Key
    <3>1. R[Leaf(l)] \subseteq Int /\ R[Leaf(l)] # {}
      BY <1>4, RangedLeaves DEF Ranged
    <3>2. p[l] = CHOOSE k : k \in R[Leaf(l)]
      BY <2>1
    <3>3. p[l] \in R[Leaf(l)]
      BY <3>1, <3>2
    <3>4. Leaf(l) \in NodeId
      BY LeavesAre, IdsAreNodes
    <3>5. R[Leaf(l)] \subseteq Key
      BY <3>4 DEF Routed, Routing
    <3> QED
      BY <3>1, <3>3, <3>5
  <2>3. \A l, m \in LeafAlive : Ahead(R, l, m) => p[l] < p[m]
    BY <2>2 DEF Ahead, Precedes
  <2>4. Orders(p, R)
    <3> SUFFICES ASSUME NEW l \in LeafAlive, NEW m \in LeafAlive, p[l] < p[m]
                 PROVE  Ahead(R, l, m)
      BY DEF Orders
    <3>1. l # m /\ ~(p[m] < p[l])
      BY <2>2
    <3>2. ~Ahead(R, m, l)
      BY <2>3, <3>1
    <3> QED
      BY <1>4, <3>1, <3>2, LeavesApart
  <2>5. p \in [LeafAlive -> Int]
    BY <2>1, <2>2
  <2>6. ASSUME NEW m \in LeafAlive \ {first} PROVE p[first] < p[m]
    <3>1. ~Ahead(R, m, first)
      <4> SUFFICES ASSUME Ahead(R, m, first) PROVE FALSE
        OBVIOUS
      <4>1. p[m] < p[first]
        BY <1>2, <2>3
      <4>2. p[m] \in Key /\ p[first] \in R[Leaf(first)] /\ p[m] \in R[Leaf(m)]
        BY <1>2, <2>2
      <4>3. p[m] \in R[Leaf(first)]
        BY <1>2, <4>1, <4>2 DEF AtEnd
      <4>4. R[Leaf(m)] \cap R[Leaf(first)] = {}
        BY <1>2, RoutedMeans
      <4> QED
        BY <4>2, <4>3, <4>4
    <3>2. Ahead(R, first, m)
      BY <1>2, <1>4, <3>1, LeavesApart
    <3> QED
      BY <1>2, <2>3, <3>2
  <2>7. ASSUME NEW l \in LeafAlive
        PROVE  LET next == leaves[l].next
               IN  /\ next = None => \A m \in LeafAlive \ {l} : p[m] < p[l]
                   /\ next # None => /\ next \in LeafAlive /\ p[l] < p[next]
                                     /\ \A m \in LeafAlive :
                                            p[l] < p[m] => m = next \/ p[next] < p[m]
    <3>1. PICK next : next = leaves[l].next
      OBVIOUS
    <3>2. /\ next # None => next \in LeafAlive /\ Ahead(R, l, next)
          /\ \A m \in LeafAlive \ {l} :
                 Ahead(R, m, l) \/ (next # None /\ (m # next => Ahead(R, next, m)))
      BY <3>1 DEF Routed, InOrder, LeavesLinked
    <3>3. next # None => next \in LeafAlive /\ p[l] < p[next]
      BY <2>3, <3>2
    <3>4. next = None => \A m \in LeafAlive \ {l} : p[m] < p[l]
      BY <2>3, <3>2
    <3>5. ASSUME next # None, NEW m \in LeafAlive, p[l] < p[m]
          PROVE  m = next \/ p[next] < p[m]
      <4>1. m \in LeafAlive \ {l} /\ ~(p[m] < p[l])
        BY <2>2, <3>5
      <4>2. ~Ahead(R, m, l)
        BY <2>3, <4>1
      <4>3. m # next => Ahead(R, next, m)
        BY <3>2, <4>1, <4>2
      <4> QED
        BY <2>3, <3>3, <3>5, <4>3
    <3> QED
      BY <3>1, <3>3, <3>4, <3>5
  <2>8. Guides(p, first)
    BY <1>2, <2>5, <2>6, <2>7 DEF Guides
  <2> QED
    BY <1>1, <2>4, <2>8
<1> QED
  BY <1>3, <1>4

\* The first element of joined sequences.
LEMMA FlattenFirst ==
  ASSUME NEW S, NEW s \in Seq(Seq(S)), Len(s) >= 1, Len(s[1]) >= 1
  PROVE  Len(FlattenSeq(s)) >= 1 /\ FlattenSeq(s)[1] = s[1][1]
<1>1. Len(s) \in Nat /\ \A i \in 1 .. Len(s) : Len(s[i]) \in Nat
  BY ElementOfSeq, LenProperties
<1>2. PICK off : Offsets(off, s)
  BY <1>1, OffsetsExist
<1>3. PICK w : w = FlattenSeq(s)
  OBVIOUS
<1>4. w \in Seq(S) /\ JoinsTo(w, s, off, Len(s))
  BY <1>2, <1>3, FlattenIs
<1>5. 1 \in 1 .. Len(s) /\ 1 \in 1 .. Len(s[1])
  BY <1>1
<1>6. off[1 - 1] + 1 \in 1 .. off[Len(s)] /\ w[off[1 - 1] + 1] = s[1][1]
  BY <1>4, <1>5 DEF JoinsTo
<1>7. off[1 - 1] + 1 = 1
  BY <1>2 DEF Offsets
<1>8. Len(w) = off[Len(s)] /\ Len(w) \in Nat
  BY <1>4, LenProperties DEF JoinsTo
<1> QED
  BY <1>3, <1>6, <1>7, <1>8

\* The nodes of T that Below goes through, and what a level is made of.
TreeNodes(T) == {x \in NodeId : InTree(T, x)}

\* What takes the place of a node in the next level.
PiecesBelow(s) == [i \in DOMAIN s |->
                      IF s[i].kind = "inner" THEN inners[s[i].id].child ELSE <<s[i]>>]

\* The pieces of the next level.
LEMMA BelowIs ==
  ASSUME NEW h, Good(h), NEW T, NEW R, Routed(T, R), NEW s \in Seq(TreeNodes(T))
  PROVE  /\ PiecesBelow(s) \in Seq(Seq(TreeNodes(T))) /\ Len(PiecesBelow(s)) = Len(s)
         /\ \A i \in 1 .. Len(s) :
                /\ s[i] \in TreeNodes(T) /\ Len(PiecesBelow(s)[i]) >= 1
                /\ PiecesBelow(s)[i] = IF s[i].kind = "inner" THEN inners[s[i].id].child
                                       ELSE <<s[i]>>
         /\ Below(s) = FlattenSeq(PiecesBelow(s)) /\ Below(s) \in Seq(TreeNodes(T))
<1> DEFINE S == TreeNodes(T)
<1>5. ASSUME NEW x \in S, x.kind = "inner"
      PROVE  inners[x.id].child \in Seq(S) /\ Len(inners[x.id].child) >= 1
  <2>1. x.id \in T
    BY <1>5 DEF InTree, TreeNodes
  <2>2. PICK C : IsInner(inners[x.id], Key, C)
    BY <2>1, RangeOf
  <2>3. PICK c : c = inners[x.id].child
    OBVIOUS
  <2>4. c \in Seq(C) /\ Len(c) >= 1
    BY <2>2, <2>3, NodeParts, LenProperties DEF IsInner
  <2>5. \A i \in 1 .. Len(c) : c[i] \in S
    <3>1. \A y \in KidsOf(inners, x.id) : y \in NodeId /\ InTree(T, y)
      BY <2>1, NodesOfTree DEF NodesOf
    <3>2. \A i \in 1 .. Len(c) : c[i] \in KidsOf(inners, x.id)
      BY <2>3, <2>4 DEF KidsOf, Range
    <3> QED
      BY <3>1, <3>2 DEF TreeNodes
  <2> HIDE DEF S
  <2>6. c \in Seq(S)
    BY <2>4, <2>5, LenProperties, IsASeq
  <2> QED
    BY <2>3, <2>4, <2>6
<1> HIDE DEF S
<1>1. DOMAIN s = 1 .. Len(s) /\ Len(s) \in Nat /\ \A i \in 1 .. Len(s) : s[i] \in S
  BY ElementOfSeq, LenProperties DEF S
<1>2. PICK t : t = PiecesBelow(s)
  OBVIOUS
<1>3. /\ DOMAIN t = 1 .. Len(s) /\ t = [i \in 1 .. Len(s) |-> t[i]]
      /\ \A i \in 1 .. Len(s) : t[i] = IF s[i].kind = "inner" THEN inners[s[i].id].child
                                       ELSE <<s[i]>>
  BY <1>1, <1>2 DEF PiecesBelow
<1>4. ASSUME NEW i \in 1 .. Len(s) PROVE t[i] \in Seq(S) /\ Len(t[i]) >= 1
  <2>1. PICK x : x = s[i]
    OBVIOUS
  <2>2. x \in S
    BY <1>1, <2>1
  <2>3. <<x>> \in Seq(S) /\ Len(<<x>>) = 1
    BY <2>2
  <2>4. t[i] = IF x.kind = "inner" THEN inners[x.id].child ELSE <<x>>
    BY <1>3, <2>1
  <2>5. CASE x.kind = "inner"
    BY <1>5, <2>2, <2>4, <2>5
  <2>6. CASE x.kind # "inner"
    BY <2>3, <2>4, <2>6
  <2> QED
    BY <2>5, <2>6
<1>6. t \in Seq(Seq(S)) /\ Len(t) = Len(s)
  BY <1>1, <1>3, <1>4, IsASeq, LenProperties
<1>7. Below(s) = FlattenSeq(t)
  BY <1>2 DEF Below, PiecesBelow
<1>8. Below(s) \in Seq(S)
  BY <1>6, <1>7, FlattenType
<1> QED
  BY <1>1, <1>2, <1>3, <1>4, <1>6, <1>7, <1>8 DEF S

\* The first node of the last level is the first leaf.
LEMMA LevelStartsAtFirstLeaf ==
  ASSUME NEW h, Good(h), NEW T, NEW R, Routed(T, R)
  PROVE  Level[Len(inners)][1] = Leaf(FirstLeaf)
<1>1. PICK N : N = Len(inners)
  OBVIOUS
<1>2. N \in Nat
  BY <1>1, LenProperties DEF Good, StoreOK
<1>3. PICK level : level = Level
  OBVIOUS
<1>4. IsLevel(level, N)
  BY <1>1, <1>2, <1>3, LevelIs
<1>5. PICK f : IsEndDescent(f, FALSE) /\ f[N] = Leaf(FirstLeaf)
  <2>1. EndLeaf(FALSE) = FirstLeaf /\ FALSE \in BOOLEAN
    BY DEF EndLeaf
  <2> QED
    BY <1>1, <2>1, EndLeafIs
<1>6. PICK S : S = TreeNodes(T)
  OBVIOUS
<1>7. root \in S
  BY <1>6 DEF Routed, InOrder, LeavesKnown, Orphans, Good, Scalars, TreeNodes
<1> DEFINE A == {d \in 0 .. N : level[d] \in Seq(S) /\ Len(level[d]) >= 1 /\ level[d][1] = f[d]}
<1>8. 0 \in A
  <2>1. level[0] = <<root>> /\ f[0] = root
    BY <1>1, <1>2, <1>4, <1>5 DEF IsLevel, IsEndDescent
  <2>2. <<root>> \in Seq(S) /\ Len(<<root>>) >= 1 /\ <<root>>[1] = root
    BY <1>7
  <2>3. 0 \in 0 .. N
    BY <1>2
  <2>4. level[0] \in Seq(S) /\ Len(level[0]) >= 1 /\ level[0][1] = f[0]
    BY <2>1, <2>2
  <2> QED
    BY <2>3, <2>4
<1>9. ASSUME NEW d \in 1 .. N, d - 1 \in A PROVE d \in A
  <2>1. PICK s : s = level[d - 1]
    OBVIOUS
  <2>2. s \in Seq(S) /\ Len(s) >= 1 /\ s[1] = f[d - 1] /\ Len(s) \in Nat
    BY <1>9, <2>1, LenProperties
  <2>3. level[d] = Below(s) /\ d \in 0 .. N /\ d # 0
    BY <1>2, <1>4, <2>1 DEF IsLevel
  <2>4. PICK t : t = PiecesBelow(s)
    OBVIOUS
  <2>5. /\ t \in Seq(Seq(S)) /\ Len(t) = Len(s) /\ 1 \in 1 .. Len(s)
        /\ Len(t[1]) >= 1 /\ Below(s) = FlattenSeq(t) /\ Below(s) \in Seq(S)
        /\ t[1] = IF s[1].kind = "inner" THEN inners[s[1].id].child ELSE <<s[1]>>
        /\ s[1] \in S
    <3>1. 1 \in 1 .. Len(s)
      BY <2>2
    <3> QED
      BY <1>6, <2>2, <2>4, <3>1, BelowIs
  <2>6. Len(Below(s)) >= 1 /\ Below(s)[1] = t[1][1]
    <3>1. t \in Seq(Seq(S)) /\ Len(t) >= 1 /\ Len(t[1]) >= 1
      BY <2>2, <2>5
    <3>2. Len(FlattenSeq(t)) >= 1 /\ FlattenSeq(t)[1] = t[1][1]
      BY ONLY <3>1, FlattenFirst
    <3> QED
      BY <2>5, <3>2
  <2>7. f[d] = IF f[d - 1].kind = "leaf" THEN f[d - 1] ELSE inners[f[d - 1].id].child[1]
    BY <1>1, <1>5, <2>3 DEF IsEndDescent, EndChild
  <2>8. s[1].kind = "inner" \/ s[1].kind = "leaf"
    BY <1>6, <2>5 DEF TreeNodes, NodeId
  <2>9. t[1][1] = f[d]
    BY <2>2, <2>5, <2>7, <2>8
  <2> QED
    BY <2>3, <2>5, <2>6, <2>9
<1> HIDE DEF A
<1>10. 0 .. N \subseteq A
  BY <1>2, <1>8, <1>9, CountUp
<1>11. N \in A
  BY <1>2, <1>10
<1> QED
  BY <1>1, <1>3, <1>5, <1>11 DEF A

\* The chain meets every leaf once, in the order of the keys.
LEMMA ChainMeets ==
  ASSUME NEW h, Good(h), NEW T, NEW R, Routed(T, R), EmptyWithoutKeys
  PROVE  (\E p : Guides(p, FirstLeaf) /\ Orders(p, R) /\ Meets(Chain, p)) /\ Chain[1] = FirstLeaf
<1>1. PICK p : Guides(p, FirstLeaf) /\ Orders(p, R)
  BY GuideExists
<1>2. PICK first, n : first = FirstLeaf /\ n = Len(leaves)
  OBVIOUS
<1>3. LeafAlive \subseteq 1 .. n /\ n \in Nat
  BY <1>2, LeavesAre
<1>4. n \in Nat \ {0}
  BY <1>1, <1>3 DEF Guides
<1>5. Level[Len(inners)][1].id = first
  BY <1>2, LevelStartsAtFirstLeaf DEF Leaf
<1>6. PICK g : g = CHOOSE walk : IsWalk(walk, first, n)
  OBVIOUS
<1>7. IsWalk(g, first, n) /\ Walked(g[n], first, n)
  BY <1>1, <1>2, <1>4, <1>6, WalkExists
<1>8. Chain = g[n]
  BY <1>2, <1>5, <1>6 DEF Chain, IsWalk
<1>9. Meets(Chain, p)
  BY <1>1, <1>2, <1>3, <1>7, <1>8, WalkMeetsAll
<1>10. Chain[1] = FirstLeaf
  BY <1>2, <1>7, <1>8 DEF Walked
<1> QED
  BY <1>1, <1>9, <1>10

\* The entries of the leaves along the chain.
PiecesOf(c) == [i \in DOMAIN c |-> leaves[c[i]].data]

\* They are sequences of pairs, one for each leaf.
LEMMA PiecesAre ==
  ASSUME NEW h, Good(h), NEW c \in Seq(LeafAlive)
  PROVE  /\ PiecesOf(c) \in Seq(Seq(Pair)) /\ Len(PiecesOf(c)) = Len(c)
         /\ \A i \in 1 .. Len(c) : c[i] \in LeafAlive /\ PiecesOf(c)[i] = leaves[c[i]].data
<1>1. DOMAIN c = 1 .. Len(c) /\ Len(c) \in Nat /\ \A i \in 1 .. Len(c) : c[i] \in LeafAlive
  BY ElementOfSeq, LenProperties
<1>2. PICK t : t = PiecesOf(c)
  OBVIOUS
<1>3. /\ DOMAIN t = 1 .. Len(c) /\ t = [i \in 1 .. Len(c) |-> t[i]]
      /\ \A i \in 1 .. Len(c) : t[i] = leaves[c[i]].data
  BY <1>1, <1>2 DEF PiecesOf
<1>4. \A i \in 1 .. Len(c) : t[i] \in Seq(Pair)
  BY <1>1, <1>3, LeavesAre
<1>5. t \in Seq(Seq(Pair)) /\ Len(t) = Len(c)
  BY <1>1, <1>3, <1>4, IsASeq, LenProperties
<1> QED
  BY <1>1, <1>2, <1>3, <1>5

\* The entries along the chain ascend.
LEMMA EntriesAscend ==
  ASSUME NEW h, Good(h), NEW T, NEW R, Routed(T, R), NEW p, Orders(p, R), NEW c, Meets(c, p)
  PROVE  Ascends(FlattenSeq(PiecesOf(c))) /\ FlattenSeq(PiecesOf(c)) \in Seq(Pair)
<1>1. PICK t : t = PiecesOf(c)
  OBVIOUS
<1>2. c \in Seq(LeafAlive)
  BY DEF Meets
<1>3. /\ t \in Seq(Seq(Pair)) /\ Len(t) = Len(c)
      /\ \A i \in 1 .. Len(c) : c[i] \in LeafAlive /\ t[i] = leaves[c[i]].data
  BY <1>1, <1>2, PiecesAre
<1>4. \A x \in Pair : x[1] \in Int
  BY KeyAssumption DEF Pair
<1>5. \A i \in 1 .. Len(t) : Ascends(t[i])
  BY <1>3 DEF Routed, InOrder, LeavesHold
<1>6. ASSUME NEW i \in 1 .. Len(t), NEW j \in 1 .. Len(t), i < j,
             NEW a \in 1 .. Len(t[i]), NEW b \in 1 .. Len(t[j])
      PROVE  t[i][a][1] < t[j][b][1]
  <2>1. PICK l, m : l = c[i] /\ m = c[j]
    OBVIOUS
  <2>2. l \in LeafAlive /\ m \in LeafAlive /\ t[i] = leaves[l].data /\ t[j] = leaves[m].data
    BY <1>3, <2>1
  <2>3. p[l] < p[m]
    BY <1>3, <1>6, <2>1 DEF Meets
  <2>4. Ahead(R, l, m)
    BY <2>2, <2>3 DEF Orders
  <2>5. KeysOf(leaves[l]) \subseteq R[Leaf(l)] /\ KeysOf(leaves[m]) \subseteq R[Leaf(m)]
    BY <2>2, RoutedMeans
  <2>6. a \in DOMAIN leaves[l].data /\ b \in DOMAIN leaves[m].data
    BY <2>2, LeavesAre DEF LeafSize
  <2>7. t[i][a][1] \in KeysOf(leaves[l]) /\ t[j][b][1] \in KeysOf(leaves[m])
    BY <2>2, <2>6 DEF KeysOf
  <2> QED
    BY <2>4, <2>5, <2>7 DEF Ahead, Precedes
<1>7. Ascends(FlattenSeq(t))
  BY <1>3, <1>4, <1>5, <1>6, FlattenAscends
<1> QED
  BY <1>1, <1>3, <1>7, FlattenType

\* The chain is in order.
LEMMA RoutedIsOrdered ==
  ASSUME NEW h, Good(h), NEW T, NEW R, Routed(T, R), EmptyWithoutKeys
  PROVE  ChainOrdered
<1>1. PICK p : Guides(p, FirstLeaf) /\ Orders(p, R) /\ Meets(Chain, p)
  BY ChainMeets
<1>2. PICK c, es : c = Chain /\ es = Entries
  OBVIOUS
<1>3. /\ c \in Seq(LeafAlive) /\ Len(c) \in Nat /\ Len(c) >= 1 /\ DOMAIN c = 1 .. Len(c)
      /\ \A i \in 1 .. Len(c) : c[i] \in LeafAlive
  <2>1. c \in Seq(LeafAlive) /\ Len(c) >= 1
    BY <1>1, <1>2 DEF Meets
  <2> QED
    BY <2>1, ElementOfSeq, LenProperties
<1>4. /\ ToSet(c) = LeafAlive /\ Len(c) = Cardinality(LeafAlive)
      /\ leaves[c[Len(c)]].next = None
  <2>1. ToSet(c) = LeafAlive
    BY <1>1, <1>2, <1>3 DEF Meets, ToSet
  <2> QED
    BY <1>1, <1>2, <2>1 DEF Meets
<1>5. ASSUME NEW n \in DOMAIN c
      PROVE  leaves[c[n]].prev = IF n = 1 THEN None ELSE c[n - 1]
  <2>1. PICK l : l = c[n]
    OBVIOUS
  <2>2. l \in LeafAlive
    BY <1>3, <2>1
  <2>3. PICK prev : prev = leaves[l].prev
    OBVIOUS
  <2>4. prev # None => prev \in LeafAlive /\ leaves[prev].next = l
    BY <2>2, <2>3 DEF Routed, InOrder, LeavesLinked
  <2>5. CASE n = 1
    <3> SUFFICES ASSUME prev # None PROVE FALSE
      BY <2>1, <2>3, <2>5
    <3>1. l = FirstLeaf
      BY <1>2, <2>1, <2>5, ChainMeets
    <3>2. p[prev] < p[l]
      <4>1. \A m \in LeafAlive : leaves[m].next # None => p[m] < p[leaves[m].next]
        BY <1>1 DEF Guides
      <4>2. l # None
        BY <2>2, LeavesAre
      <4> QED
        BY <2>4, <4>1, <4>2
    <3>3. prev = l \/ p[l] < p[prev]
      BY <1>1, <2>4, <3>1 DEF Guides
    <3>4. p[l] \in Int /\ p[prev] \in Int
      BY <1>1, <2>2, <2>4 DEF Guides
    <3> QED
      BY <3>2, <3>3, <3>4
  <2>6. CASE n # 1
    <3>1. PICK i : i = n - 1
      OBVIOUS
    <3>2. i \in 1 .. Len(c) - 1 /\ i \in 1 .. Len(c) /\ i + 1 = n
      BY <1>3, <2>6, <3>1
    <3>3. leaves[c[i]].next # None /\ l = leaves[c[i]].next /\ c[i] \in LeafAlive
      BY <1>1, <1>2, <1>3, <2>1, <3>2 DEF Meets
    <3>4. leaves[l].prev = c[i]
      BY <3>3 DEF Routed, InOrder, LeavesLinked
    <3> QED
      BY <2>1, <2>6, <3>1, <3>4
  <2> QED
    BY <2>5, <2>6
<1>6. es = FlattenSeq(PiecesOf(c))
  BY <1>2 DEF Entries, PiecesOf
<1>7. es \in Seq(Pair) /\ Ascends(es)
  BY <1>1, <1>2, <1>6, EntriesAscend
<1>8. ASSUME NEW n \in 1 .. Len(es) - 1 PROVE es[n][1] < es[n + 1][1]
  <2>1. Len(es) \in Nat /\ DOMAIN es = 1 .. Len(es)
    BY <1>7, LenProperties
  <2>2. n \in DOMAIN es /\ n + 1 \in DOMAIN es /\ n < n + 1
    BY <2>1
  <2> QED
    BY <1>7, <2>2 DEF Ascends
<1> QED
  BY <1>2, <1>4, <1>5, <1>8 DEF ChainOrdered

\* Without keys no call has one, and no leaf holds an entry.
LEMMA NothingWithoutKeys ==
  ASSUME NEW h, Good(h), NEW T, NEW R, Routed(T, R), Key = {}
  PROVE  /\ Stored = {} /\ pc \notin {"insert_inner", "key_to_ref", "find_descend"}
         /\ \A l \in LeafAlive : Len(leaves[l].data) = 0
<1>1. Pair = {}
  BY DEF Pair
<1>2. Stored = {}
  BY <1>1, StoredRouted
<1>3. call.op \notin {"insert", "get", "get_mut", "remove"}
  BY DEF Good, Scalars, Calls, NoCall
<1>4. pc \notin {"insert_inner", "key_to_ref", "find_descend"}
  BY <1>3 DEF Good, Locals
<1>5. ASSUME NEW l \in LeafAlive PROVE Len(leaves[l].data) = 0
  <2>1. Len(leaves[l].data) \in Nat
    BY LeavesAre DEF LeafSize
  <2>2. ASSUME Len(leaves[l].data) # 0 PROVE FALSE
    <3>1. 1 \in 1 .. Len(leaves[l].data)
      BY <2>1, <2>2
    <3> QED
      BY <1>2, <3>1, EntryStored
  <2> QED
    BY <2>2
<1> QED
  BY <1>2, <1>4, <1>5

\* No step gives the one leaf an entry or a neighbour.
LEMMA EmptyWithoutKeysKept ==
  ASSUME NEW h, Good(h), NEW T, NEW R, Routed(T, R), EmptyWithoutKeys, [Next]_vars
  PROVE  EmptyWithoutKeys'
<1> SUFFICES ASSUME Key = {} PROVE leaves' = leaves \/ leaves' = <<EmptyLeaf>>
  BY DEF EmptyWithoutKeys
<1>1. /\ Stored = {} /\ pc \notin {"insert_inner", "key_to_ref", "find_descend"}
      /\ \A l \in LeafAlive : Len(leaves[l].data) = 0
  BY NothingWithoutKeys
<1>2. CASE UNCHANGED vars
  BY <1>2 DEF vars, tree, store
<1>3. CASE Call
  BY <1>3 DEF Call, Enter, tree, store, Clear, GetCall, GetMutCall, GetCached, GetMutCached,
              InsertCall, RemoveCall, RemoveByAugmentationCall, GetMutByAugmentationCall
<1>4. CASE InsertStep
  BY <1>1, <1>4 DEF InsertStep, tree, store,
         InsertDescend, InsertLeafUpdate, InsertLeafInsert, InsertLeafSplit, AtInner, AtLeaf,
         InsertAscendSlot, InsertAscendSplit, InsertAscendInserted, InsertAscendUpdated,
         InsertReturnInserted, InsertReturnUpdated, InsertReturnSplit
<1>5. CASE RemoveStep
  <2>1. CASE RemoveInLeaf
    <3>1. PICK l \in LeafAlive : \E s \in 1 .. Len(leaves[l].data) : TRUE
      BY <2>1, RemoveInLeafDoes
    <3> QED
      BY <1>1, <3>1
  <2>2. CASE RotateRightLeaf \/ RotateLeftLeaf \/ MergeLeafLeft \/ MergeLeafRight
    <3>1. Drops(Target)
      BY <2>2, RotateRightLeafDrops, RotateLeftLeafDrops, MergeLeafDrops
    <3> QED
      BY <1>1, <3>1 DEF Drops
  <2>3. CASE RemoveReturnLeafUnderSize
    BY <1>1, <2>3, RemoveReturnLeafDoes
  <2>4. CASE KeyToRefDescend \/ KeyToRefMissing \/ AugmentationDescend \/ AugmentationMissing
    BY <2>4 DEF KeyToRefDescend, KeyToRefMissing, AugmentationDescend, AugmentationMissing,
                tree, store
  <2>5. CASE RemoveAscendDone \/ RotateRightInner \/ RotateLeftInner \/ MergeInner
    BY <2>5 DEF RemoveAscendDone, RotateRightInner, RotateLeftInner, MergeInner
  <2>6. CASE RemoveReturnDone \/ RemoveReturnInnerUnderSize
    BY <2>6 DEF RemoveReturnDone, RemoveReturnInnerUnderSize, store
  <2> QED
    BY <1>5, <2>1, <2>2, <2>3, <2>4, <2>5, <2>6 DEF RemoveStep
<1>6. CASE FindStep
  <2>1. CASE FindDescend \/ FindInLeaf
    BY <1>1, <2>1 DEF FindDescend, FindInLeaf, AtInner, AtLeaf
  <2>2. CASE GetMutInLeaf
    <3>1. /\ pc = "get_ref_by_augmentation" /\ node.kind = "leaf"
          /\ LocateInLeaf(call.query, LeafKeys(leaves[node.id])) # 0
          /\ call.op = "get_mut_by_augmentation"
      BY <2>2 DEF GetMutInLeaf, AtLeaf
    <3>2. node.id \in LeafAlive
      BY <3>1, AtLeafRouted DEF Descending
    <3>3. leaves[node.id] \in LeafOver(Pair) /\ Len(leaves[node.id].data) = 0
      BY <1>1, <3>2, LeavesAre
    <3>4. Len(LeafKeys(leaves[node.id])) = 0
      BY <3>3, LeafKeysLen
    <3>5. call.query \in Nat
      BY <3>1 DEF Good, Scalars, Calls, NoCall
    <3> QED
      BY <3>1, <3>4, <3>5 DEF LocateInLeaf
  <2> QED
    BY <1>6, <2>1, <2>2 DEF FindStep
<1> QED
  BY <1>2, <1>3, <1>4, <1>5, <1>6 DEF Next, Step

(***************************************************************************)
(* What ChainOrdered rests on: the routes, and that there is but one leaf  *)
(* where there are no keys to tell leaves apart.                           *)
(***************************************************************************)
ChainInv == (\E h : Good(h)) /\ (\E T, R : Routed(T, R)) /\ EmptyWithoutKeys

\* ChainInv holds of an empty tree, and every step keeps it.
LEMMA ChainInvHolds == (Init => ChainInv) /\ (ChainInv /\ [Next]_vars => ChainInv')
<1>1. Init => ChainInv
  BY InitOK, InitRouted DEF Init, EmptyWithoutKeys, ChainInv
<1>2. ASSUME ChainInv, [Next]_vars PROVE ChainInv'
  <2>1. PICK h : Good(h)
    BY <1>2 DEF ChainInv
  <2>2. PICK T, R : Routed(T, R)
    BY <1>2 DEF ChainInv
  <2>3. EmptyWithoutKeys
    BY <1>2 DEF ChainInv
  <2>4. (\E g : Good(g)') /\ (\E U, Q : Routed(U, Q)')
    BY <1>2, <2>1, <2>2, StepOK, StepRouted, StutterRouted
  <2>5. EmptyWithoutKeys'
    BY <1>2, <2>1, <2>2, <2>3, EmptyWithoutKeysKept
  <2> QED
    BY <2>4, <2>5 DEF ChainInv
<1> QED
  BY <1>1, <1>2

(***************************************************************************)
(* Also in the middle of a split the chain that iterators and cursors      *)
(* follow meets every leaf once, back and forth, and its keys ascend.      *)
(***************************************************************************)
THEOREM ChainStaysWhole == Spec => []ChainOrdered
<1>1. Init => ChainInv
  BY ChainInvHolds
<1>2. ChainInv /\ [Next]_vars => ChainInv'
  BY ChainInvHolds
<1>3. ChainInv => ChainOrdered
  BY RoutedIsOrdered DEF ChainInv
<1> QED
  BY <1>1, <1>2, <1>3, PTL DEF Spec

-----------------------------------------------------------------------------
(* The entries along the chain                                             *)

\* The entries along the chain are those of the store, in the order of their keys.
LEMMA EntriesAre ==
  ASSUME NEW h, Good(h), NEW T, NEW R, Routed(T, R), EmptyWithoutKeys
  PROVE  /\ Entries \in Seq(Pair) /\ Ascends(Entries) /\ Range(Entries) = Stored
         /\ Len(Entries) = Cardinality(StoredKeys) /\ Len(Entries) \in Nat
<1>1. PICK p : Orders(p, R) /\ Meets(Chain, p)
  BY ChainMeets
<1>2. PICK c : c = Chain
  OBVIOUS
<1>3. PICK es : es = FlattenSeq(PiecesOf(c))
  OBVIOUS
<1>4. Entries = es
  BY <1>2, <1>3 DEF Entries, PiecesOf
<1>5. es \in Seq(Pair) /\ Ascends(es)
  BY <1>1, <1>2, <1>3, EntriesAscend
<1>6. c \in Seq(LeafAlive) /\ \A l \in LeafAlive : \E i \in 1 .. Len(c) : c[i] = l
  BY <1>1, <1>2 DEF Meets
<1>7. PICK t : t = PiecesOf(c)
  OBVIOUS
<1>8. /\ t \in Seq(Seq(Pair)) /\ Len(t) = Len(c)
      /\ \A i \in 1 .. Len(c) : c[i] \in LeafAlive /\ t[i] = leaves[c[i]].data
  BY <1>6, <1>7, PiecesAre
<1>9. PICK off : Offsets(off, t)
  <2>1. Len(t) \in Nat /\ \A i \in 1 .. Len(t) : Len(t[i]) \in Nat
    BY <1>8, ElementOfSeq, LenProperties
  <2> QED
    BY <2>1, OffsetsExist
<1>10. JoinsTo(es, t, off, Len(t))
  BY <1>3, <1>7, <1>8, <1>9, FlattenIs
<1>11. DOMAIN es = 1 .. Len(es) /\ Len(es) \in Nat /\ Len(es) = off[Len(t)]
  BY <1>5, <1>10, LenProperties DEF JoinsTo
<1>12. ASSUME NEW e \in Range(es) PROVE e \in Stored
  <2>1. PICK j \in 1 .. off[Len(t)] : e = es[j]
    BY <1>11 DEF Range
  <2>2. PICK a \in 1 .. Len(t) : \E k \in 1 .. Len(t[a]) : j = off[a - 1] + k
    BY <1>10 DEF JoinsTo
  <2>3. PICK k \in 1 .. Len(t[a]) : j = off[a - 1] + k
    BY <2>2
  <2>4. e = t[a][k]
    BY <1>10, <2>1, <2>3 DEF JoinsTo
  <2>5. PICK l : l = c[a]
    OBVIOUS
  <2>6. l \in LeafAlive /\ t[a] = leaves[l].data /\ k \in 1 .. Len(leaves[l].data)
    BY <1>8, <2>5
  <2> QED
    BY <2>4, <2>6, EntryStored
<1>13. ASSUME NEW e \in Stored PROVE e \in Range(es)
  <2>1. PICK l \in LeafAlive : e \in Range(leaves[l].data)
    BY DEF Stored, PairsIn
  <2>2. PICK k \in DOMAIN leaves[l].data : e = leaves[l].data[k]
    BY <2>1 DEF Range
  <2>3. k \in 1 .. Len(leaves[l].data)
    BY LeavesAre DEF LeafSize
  <2>4. PICK a \in 1 .. Len(c) : c[a] = l
    BY <1>6
  <2>5. a \in 1 .. Len(t) /\ k \in 1 .. Len(t[a]) /\ e = t[a][k]
    BY <1>8, <2>2, <2>3, <2>4
  <2>6. off[a - 1] + k \in 1 .. off[Len(t)] /\ es[off[a - 1] + k] = e
    BY <1>10, <2>5 DEF JoinsTo
  <2> QED
    BY <1>11, <2>6 DEF Range
<1>14. Range(es) = Stored
  BY <1>12, <1>13
<1>15. Len(es) = Cardinality(StoredKeys)
  <2>1. PICK leaf : leaf = [data |-> es, prev |-> None, next |-> None]
    OBVIOUS
  <2>2. leaf \in LeafOver(Pair) /\ leaf.data = es
    BY <1>5, <2>1 DEF LeafOver
  <2>3. HoldsPairs(leaf, Stored)
    BY <1>5, <1>14, <2>2 DEF HoldsPairs, Sorted
  <2>4. Cardinality(KeysOf(leaf)) = Len(es)
    BY <2>2, <2>3, LeafKeysCount
  <2>5. KeysOf(leaf) = FirstOf(Range(es))
    BY <2>2 DEF KeysOf, FirstOf, Range
  <2> QED
    BY <1>14, <2>4, <2>5 DEF StoredKeys
<1> QED
  BY <1>4, <1>5, <1>11, <1>14, <1>15

-----------------------------------------------------------------------------
(* The places of the entries                                               *)

\* The places of the entries in the leaves c.
PlacesOf(c) == [i \in DOMAIN c |-> [n \in 1 .. LeafSize(leaves[c[i]]) |-> <<c[i], n>>]]

\* y is the place after x, in the leaf or in the next one.
StepOn(x, y) ==
    IF x[2] < LeafSize(leaves[x[1]]) THEN y = <<x[1], x[2] + 1>>
    ELSE leaves[x[1]].next # None /\ y = <<leaves[x[1]].next, 1>>

\* x is the place before y, in the leaf or in the one before.
StepBack(x, y) ==
    IF y[2] > 1 THEN x = <<y[1], y[2] - 1>>
    ELSE LET prev == leaves[y[1]].prev
         IN  prev # None /\ x = <<prev, LeafSize(leaves[prev])>>

\* A leaf, and an offset in it.
Place == Nat \X Nat

(***************************************************************************)
(* P are the places of all entries, one after the other from the first     *)
(* leaf to the last.                                                       *)
(***************************************************************************)
PlacesRight(P) ==
    /\ P \in Seq(Place) /\ Len(P) = Cardinality(StoredKeys)
    /\ \A j \in 1 .. Len(P) : /\ P[j][1] \in LeafAlive
                              /\ P[j][2] \in 1 .. LeafSize(leaves[P[j][1]])
    /\ \A j \in 1 .. Len(P) : j < Len(P) => StepOn(P[j], P[j + 1]) /\ StepBack(P[j], P[j + 1])
    /\ Len(P) >= 1 => /\ P[1] = <<FirstLeaf, 1>> /\ leaves[FirstLeaf].prev = None
                      /\ P[Len(P)] = <<LastLeaf, LeafSize(leaves[LastLeaf])>>

\* They are sequences of places, one for each leaf, as long as the leaf.
LEMMA PlacesOfAre ==
  ASSUME NEW h, Good(h), NEW c \in Seq(LeafAlive)
  PROVE  /\ PlacesOf(c) \in Seq(Seq(Place)) /\ Len(PlacesOf(c)) = Len(c)
         /\ \A i \in 1 .. Len(c) :
                /\ c[i] \in LeafAlive /\ LeafSize(leaves[c[i]]) \in Nat
                /\ Len(PlacesOf(c)[i]) = LeafSize(leaves[c[i]])
                /\ \A k \in 1 .. LeafSize(leaves[c[i]]) : PlacesOf(c)[i][k] = <<c[i], k>>
<1>1. DOMAIN c = 1 .. Len(c) /\ Len(c) \in Nat /\ \A i \in 1 .. Len(c) : c[i] \in LeafAlive
  BY ElementOfSeq, LenProperties
<1>2. PICK t : t = PlacesOf(c)
  OBVIOUS
<1>3. DOMAIN t = 1 .. Len(c) /\ t = [i \in 1 .. Len(c) |-> t[i]]
  BY <1>1, <1>2 DEF PlacesOf
<1>4. ASSUME NEW i \in 1 .. Len(c)
      PROVE  /\ LeafSize(leaves[c[i]]) \in Nat /\ t[i] \in Seq(Place)
             /\ Len(t[i]) = LeafSize(leaves[c[i]])
             /\ \A k \in 1 .. LeafSize(leaves[c[i]]) : t[i][k] = <<c[i], k>>
  <2>1. PICK l, m : l = c[i] /\ m = LeafSize(leaves[l])
    OBVIOUS
  <2>2. l \in LeafAlive /\ l \in Nat /\ m \in Nat
    BY <1>1, <2>1, LeavesAre
  <2>3. t[i] = [n \in 1 .. m |-> <<l, n>>]
    BY <1>1, <1>2, <2>1 DEF PlacesOf
  <2>4. PICK u : u = t[i]
    OBVIOUS
  <2>5. \A k \in 1 .. m : u[k] = <<l, k>> /\ u[k] \in Place
    BY <2>2, <2>3, <2>4 DEF Place
  <2>6. u = [k \in 1 .. m |-> u[k]] /\ DOMAIN u = 1 .. m
    BY <2>3, <2>4
  <2>7. u \in Seq(Place) /\ Len(u) = m
    BY <2>2, <2>5, <2>6, IsASeq, LenProperties
  <2> QED
    BY <2>1, <2>2, <2>4, <2>5, <2>7
<1>5. t \in Seq(Seq(Place)) /\ Len(t) = Len(c)
  BY <1>1, <1>3, <1>4, IsASeq, LenProperties
<1> QED
  BY <1>1, <1>2, <1>4, <1>5

\* The chain ends with the last leaf.
LEMMA ChainEndsAtLastLeaf ==
  ASSUME NEW h, Good(h), NEW T, NEW R, Routed(T, R), ~IsSplit,
         NEW p, Guides(p, FirstLeaf), Orders(p, R), NEW c, Meets(c, p)
  PROVE  c[Len(c)] = LastLeaf
<1>1. PICK last : last = LastLeaf
  OBVIOUS
<1>2. last \in LeafAlive /\ AtEnd(R, Leaf(last), TRUE)
  <2>1. EndLeaf(TRUE) = LastLeaf /\ TRUE \in BOOLEAN
    BY DEF EndLeaf
  <2> QED
    BY <1>1, <2>1, EndLeafIs
<1>3. PICK m : m = Len(c)
  OBVIOUS
<1>4. /\ m \in Nat /\ m \in 1 .. m /\ c[m] \in LeafAlive
  BY <1>3, ElementOfSeq, LenProperties DEF Meets
<1>5. PICK i \in 1 .. m : c[i] = last
  BY <1>2, <1>3 DEF Meets
<1> SUFFICES ASSUME i # m PROVE FALSE
  BY <1>1, <1>3, <1>5
<1>6. i < m
  BY <1>4, <1>5
<1>7. p[last] < p[c[m]]
  BY <1>3, <1>4, <1>5, <1>6 DEF Meets
<1>8. Ahead(R, last, c[m]) /\ last # c[m]
  <2>1. p[last] \in Int
    BY <1>2 DEF Guides
  <2> QED
    BY <1>2, <1>4, <1>7, <2>1 DEF Orders
<1>9. PICK k \in KeysOf(leaves[c[m]]) : k \in R[Leaf(c[m])]
  BY <1>2, <1>4, <1>8, OthersHoldKeys
<1>10. PICK s \in KeysOf(leaves[last]) : s \in R[Leaf(last)]
  BY <1>2, <1>4, <1>8, OthersHoldKeys
<1>11. s < k
  BY <1>8, <1>9, <1>10 DEF Ahead, Precedes
<1>12. k \in Key
  <2>1. Leaf(c[m]) \in NodeId
    BY <1>4, LeavesAre, IdsAreNodes
  <2>2. R[Leaf(c[m])] \subseteq Key
    BY <2>1 DEF Routed, Routing
  <2> QED
    BY <1>9, <2>2
<1>13. k \in R[Leaf(last)]
  BY <1>2, <1>10, <1>11, <1>12 DEF AtEnd
<1>14. R[Leaf(last)] \cap R[Leaf(c[m])] = {}
  BY <1>2, <1>4, <1>8, RoutedMeans
<1> QED
  BY <1>9, <1>13, <1>14

\* From one place along the chain to the next.
LEMMA PlacesFollow ==
  ASSUME NEW h, Good(h), NEW T, NEW R, Routed(T, R), EmptyWithoutKeys, ~IsSplit
  PROVE  PlacesRight(FlattenSeq(PlacesOf(Chain)))
<1>1. PICK p : Guides(p, FirstLeaf) /\ Orders(p, R) /\ Meets(Chain, p)
  BY ChainMeets
<1>2. PICK c : c = Chain
  OBVIOUS
<1>3. PICK t, w : t = PlacesOf(c) /\ w = FlattenSeq(t)
  OBVIOUS
<1>4. PICK n : n = Len(c)
  OBVIOUS
<1>5. /\ c \in Seq(LeafAlive) /\ n \in Nat /\ n >= 1 /\ c[1] = FirstLeaf /\ c[n] = LastLeaf
      /\ \A i \in 1 .. n : c[i] \in LeafAlive
  <2>1. c \in Seq(LeafAlive) /\ n >= 1
    BY <1>1, <1>2, <1>4 DEF Meets
  <2>2. c[1] = FirstLeaf
    BY <1>2, ChainMeets
  <2>3. c[n] = LastLeaf
    BY <1>1, <1>2, <1>4, ChainEndsAtLastLeaf
  <2> QED
    BY <1>4, <2>1, <2>2, <2>3, ElementOfSeq, LenProperties
<1>6. ASSUME NEW i \in 1 .. n
      PROVE  /\ leaves[c[i]].prev = IF i = 1 THEN None ELSE c[i - 1]
             /\ leaves[c[i]].next = IF i = n THEN None ELSE c[i + 1]
             /\ i # n => leaves[c[i]].next # None
             /\ i # 1 => leaves[c[i]].prev # None
  <2>1. ChainOrdered
    BY RoutedIsOrdered
  <2>2. DOMAIN c = 1 .. n
    BY <1>4, <1>5, LenProperties
  <2>3. leaves[c[i]].prev = IF i = 1 THEN None ELSE c[i - 1]
    BY <1>2, <2>1, <2>2 DEF ChainOrdered
  <2>4. leaves[c[i]].next = IF i = n THEN None ELSE c[i + 1]
    <3>1. CASE i = n
      BY <1>1, <1>2, <1>4, <3>1 DEF Meets
    <3>2. CASE i # n
      <4>1. i \in 1 .. n - 1
        BY <1>5, <3>2
      <4> QED
        BY <1>1, <1>2, <1>4, <3>2, <4>1 DEF Meets
    <3> QED
      BY <3>1, <3>2
  <2>5. i # n => c[i + 1] # None
    <3>1. i # n => i + 1 \in 1 .. n
      BY <1>5
    <3>2. \A l \in LeafAlive : l # None
      BY LeavesAre
    <3> QED
      BY <1>5, <3>1, <3>2
  <2>6. i # 1 => c[i - 1] # None
    <3>1. i # 1 => i - 1 \in 1 .. n
      BY <1>5
    <3>2. \A l \in LeafAlive : l # None
      BY LeavesAre
    <3> QED
      BY <1>5, <3>1, <3>2
  <2> QED
    BY <2>3, <2>4, <2>5, <2>6
<1>7. PICK z : z = [i \in 1 .. n |-> LeafSize(leaves[c[i]])]
  OBVIOUS
<1>8. /\ t \in Seq(Seq(Place)) /\ Len(t) = n
      /\ \A i \in 1 .. n : /\ z[i] \in Nat /\ Len(t[i]) = z[i] /\ LeafSize(leaves[c[i]]) = z[i]
                           /\ \A k \in 1 .. z[i] : t[i][k] = <<c[i], k>>
  BY <1>3, <1>4, <1>5, <1>7, PlacesOfAre
<1>9. PICK off : Offsets(off, t)
  <2>1. Len(t) \in Nat /\ \A i \in 1 .. Len(t) : Len(t[i]) \in Nat
    BY <1>5, <1>8
  <2> QED
    BY <2>1, OffsetsExist
<1>10. w \in Seq(Place) /\ JoinsTo(w, t, off, n)
  BY <1>3, <1>8, <1>9, FlattenIs
<1>11. PICK L : L = Len(w)
  OBVIOUS
<1>12. /\ L = off[n] /\ L \in Nat
       /\ \A i \in 0 .. n : off[i] \in Nat
       /\ off[0] = 0 /\ \A i \in 1 .. n : off[i] = off[i - 1] + z[i]
  BY <1>8, <1>9, <1>10, <1>11, LenProperties DEF Offsets, JoinsTo
<1>13. \A a \in 1 .. n : \A k \in 1 .. z[a] :
           off[a - 1] + k \in 1 .. L /\ w[off[a - 1] + k] = <<c[a], k>>
  <2> SUFFICES ASSUME NEW a \in 1 .. n, NEW k \in 1 .. z[a]
               PROVE  off[a - 1] + k \in 1 .. L /\ w[off[a - 1] + k] = <<c[a], k>>
    OBVIOUS
  <2>1. k \in 1 .. Len(t[a]) /\ t[a][k] = <<c[a], k>>
    BY <1>8
  <2>2. off[a - 1] + k \in 1 .. off[n] /\ w[off[a - 1] + k] = t[a][k]
    BY <1>10, <2>1 DEF JoinsTo
  <2> QED
    BY <1>12, <2>1, <2>2
<1>14. \A j \in 1 .. L : \E a \in 1 .. n : \E k \in 1 .. z[a] : j = off[a - 1] + k
  <2> SUFFICES ASSUME NEW j \in 1 .. L
               PROVE  \E a \in 1 .. n : \E k \in 1 .. z[a] : j = off[a - 1] + k
    OBVIOUS
  <2>1. \A i \in 1 .. off[n] : \E a \in 1 .. n : \E k \in 1 .. Len(t[a]) : i = off[a - 1] + k
    BY <1>10 DEF JoinsTo
  <2>2. j \in 1 .. off[n]
    BY <1>12
  <2>3. PICK a \in 1 .. n : \E k \in 1 .. Len(t[a]) : j = off[a - 1] + k
    BY ONLY <2>1, <2>2
  <2>4. Len(t[a]) = z[a]
    BY <1>8
  <2> QED
    BY <2>3, <2>4
<1>15. n # 1 => \A i \in 1 .. n : z[i] >= 1
  <2> SUFFICES ASSUME n # 1, NEW i \in 1 .. n PROVE z[i] >= 1
    OBVIOUS
  <2>1. PICK l : l = c[i]
    OBVIOUS
  <2>2. \E m \in LeafAlive : m # l
    <3>1. PICK j : j = IF i = 1 THEN 2 ELSE 1
      OBVIOUS
    <3>2. j \in 1 .. n /\ (j < i \/ i < j)
      BY <1>5, <3>1
    <3>3. p[c[j]] < p[l] \/ p[l] < p[c[j]]
      BY <1>1, <1>2, <1>4, <2>1, <3>2 DEF Meets
    <3>4. p[l] \in Int /\ c[j] \in LeafAlive
      BY <1>1, <1>5, <2>1, <3>2 DEF Guides
    <3> QED
      BY <3>3, <3>4
  <2>3. LeafSize(leaves[l]) > 0
    BY <1>5, <2>1, <2>2, OthersHoldKeys
  <2> QED
    BY <1>8, <2>1, <2>3
<1>16. L = Cardinality(StoredKeys)
  <2>1. PICK s : s = PiecesOf(c)
    OBVIOUS
  <2>2. /\ s \in Seq(Seq(Pair)) /\ Len(s) = n
        /\ \A i \in 1 .. n : s[i] = leaves[c[i]].data
    BY <1>4, <1>5, <2>1, PiecesAre
  <2>3. Offsets(off, s)
    BY <1>8, <1>9, <2>2 DEF Offsets, LeafSize
  <2>4. Len(FlattenSeq(s)) = off[n]
    BY <2>2, <2>3, FlattenIs DEF JoinsTo
  <2>5. Entries = FlattenSeq(s)
    BY <1>2, <2>1 DEF Entries, PiecesOf
  <2> QED
    BY <1>12, <2>4, <2>5, EntriesAre
<1>17. ASSUME NEW j \in 1 .. L
       PROVE  w[j][1] \in LeafAlive /\ w[j][2] \in 1 .. LeafSize(leaves[w[j][1]])
  <2>1. PICK a \in 1 .. n : \E k \in 1 .. z[a] : j = off[a - 1] + k
    BY <1>14
  <2>2. PICK k \in 1 .. z[a] : j = off[a - 1] + k
    BY <2>1
  <2>3. w[j] = <<c[a], k>>
    BY <1>13, <2>2
  <2> QED
    BY <1>5, <1>8, <2>3
<1>18. ASSUME NEW j \in 1 .. L, j < L PROVE StepOn(w[j], w[j + 1]) /\ StepBack(w[j], w[j + 1])
  <2>1. PICK a \in 1 .. n : \E k \in 1 .. z[a] : j = off[a - 1] + k
    BY <1>14
  <2>2. PICK k \in 1 .. z[a] : j = off[a - 1] + k
    BY <2>1
  <2>3. w[j] = <<c[a], k>> /\ LeafSize(leaves[c[a]]) = z[a] /\ z[a] \in Nat /\ k \in Nat /\ k >= 1
    <3>1. LeafSize(leaves[c[a]]) = z[a] /\ z[a] \in Nat
      BY <1>8
    <3>2. k \in Nat /\ k >= 1
      BY <3>1
    <3>3. w[off[a - 1] + k] = <<c[a], k>>
      BY <1>13
    <3> QED
      BY <2>2, <3>1, <3>2, <3>3
  <2>4. a - 1 \in 0 .. n /\ off[a - 1] \in Nat /\ off[a] \in Nat /\ off[a] = off[a - 1] + z[a]
    BY <1>5, <1>12
  <2>5. CASE k < z[a]
    <3>1. k + 1 \in 1 .. z[a]
      BY <2>3, <2>5
    <3>2. w[off[a - 1] + (k + 1)] = <<c[a], k + 1>>
      BY <1>13, <3>1
    <3>3. off[a - 1] + (k + 1) = j + 1
      BY <2>2, <2>3, <2>4
    <3>4. w[j + 1] = <<c[a], k + 1>>
      BY <3>2, <3>3
    <3>5. k + 1 > 1 /\ (k + 1) - 1 = k
      BY <2>3
    <3> QED
      BY <2>3, <2>5, <3>4, <3>5 DEF StepOn, StepBack
  <2>6. CASE ~(k < z[a])
    <3>1. k = z[a] /\ j = off[a]
      BY <2>2, <2>3, <2>4, <2>6
    <3>2. a # n
      BY <1>12, <1>18, <3>1
    <3>3. PICK b : b = a + 1
      OBVIOUS
    <3>4. b \in 1 .. n /\ b - 1 = a /\ b # 1 /\ n # 1
      BY <1>5, <3>2, <3>3
    <3>5. z[b] >= 1 /\ z[b] \in Nat
      BY <1>8, <1>15, <3>4
    <3>6. 1 \in 1 .. z[b]
      BY <3>5
    <3>7. w[off[b - 1] + 1] = <<c[b], 1>>
      BY <1>13, <3>4, <3>6
    <3>8. w[j + 1] = <<c[b], 1>>
      BY <3>1, <3>4, <3>7
    <3>9. /\ leaves[c[a]].next # None /\ leaves[c[a]].next = c[b]
          /\ leaves[c[b]].prev # None /\ leaves[c[b]].prev = c[a]
      BY <1>6, <3>2, <3>3, <3>4
    <3> QED
      BY <2>3, <2>6, <3>1, <3>8, <3>9 DEF StepOn, StepBack
  <2> QED
    BY <2>5, <2>6
<1>19. L >= 1 => /\ w[1] = <<FirstLeaf, 1>> /\ leaves[FirstLeaf].prev = None
                 /\ w[L] = <<LastLeaf, LeafSize(leaves[LastLeaf])>>
  <2> SUFFICES ASSUME L >= 1
               PROVE  /\ w[1] = <<FirstLeaf, 1>> /\ leaves[FirstLeaf].prev = None
                      /\ w[L] = <<LastLeaf, LeafSize(leaves[LastLeaf])>>
    OBVIOUS
  <2>1. 1 \in 1 .. n /\ n \in 1 .. n /\ n \in 0 .. n /\ n - 1 \in 0 .. n
    BY <1>5
  <2>2. z[1] \in Nat /\ z[n] \in Nat
    BY <1>8, <2>1
  <2>3. z[1] >= 1 /\ z[n] >= 1
    <3>1. CASE n = 1
      <4>1. off[n] = off[n - 1] + z[n] /\ off[n - 1] = 0
        BY <1>12, <2>1, <3>1
      <4> QED
        BY <1>12, <2>2, <3>1, <4>1
    <3>2. CASE n # 1
      BY <1>15, <2>1, <3>2
    <3> QED
      BY <3>1, <3>2
  <2>4. w[off[1 - 1] + 1] = <<c[1], 1>>
    BY <1>13, <2>1, <2>2, <2>3
  <2>5. w[1] = <<c[1], 1>>
    BY <1>12, <2>4
  <2>6. w[off[n - 1] + z[n]] = <<c[n], z[n]>>
    <3>1. z[n] \in 1 .. z[n]
      BY <2>2, <2>3
    <3> QED
      BY <1>13, <2>1, <3>1
  <2>7. L = off[n - 1] + z[n]
    BY <1>12, <2>1
  <2> QED
    BY <1>5, <1>6, <1>8, <2>1, <2>5, <2>6, <2>7
<1>20. PlacesRight(w)
  BY <1>10, <1>11, <1>16, <1>17, <1>18, <1>19 DEF PlacesRight
<1> QED
  BY <1>2, <1>3, <1>20

-----------------------------------------------------------------------------
(* The entries by index and by rank                                        *)

\* The first keys of a leaf are as many as their slots.
LEMMA FirstKeysCount ==
  ASSUME NEW leaf, NEW P, HoldsPairs(leaf, P), NEW s \in 1 .. Len(leaf.data), NEW B,
         B = {leaf.data[i][1] : i \in 1 .. s - 1}
  PROVE  IsFiniteSet(B) /\ Cardinality(B) = s - 1
<1>1. IsFiniteSet({leaf.data[i][1] : i \in 1 .. s - 1})
      /\ Cardinality({leaf.data[i][1] : i \in 1 .. s - 1}) = s - 1
  BY LeafKeysCount
<1> QED
  BY <1>1

\* The keys before k are those before its leaf, and those before its slot there.
LEMMA RankInLeaf ==
  ASSUME NEW h, Good(h), NEW T, NEW R, Routed(T, R), NEW l \in LeafAlive,
         NEW k \in R[Leaf(l)]
  PROVE  Cardinality({x \in StoredKeys : x < k})
             = Cardinality(KeysBefore(R[Leaf(l)])) + LocateSlot(leaves[l], k) - 1
<1>1. PICK d, s, K : d = leaves[l].data /\ s = LocateSlot(leaves[l], k)
                     /\ K = KeysBefore(R[Leaf(l)])
  OBVIOUS
<1>2. PICK B : B = {d[i][1] : i \in 1 .. s - 1}
  OBVIOUS
<1>3. HoldsPairs(leaves[l], Range(leaves[l].data))
  BY LeafHolds
<1>4. leaves[l] \in LeafOver(Pair) /\ d \in Seq(Pair) /\ Ascends(d)
  BY <1>1, <1>3 DEF HoldsPairs, Sorted
<1>5. /\ Len(d) \in Nat /\ DOMAIN d = 1 .. Len(d)
      /\ \A i \in 1 .. Len(d) : d[i] \in Pair /\ d[i][1] \in Int
  BY <1>4, PairsAt
<1>6. k \in Key /\ k \in Int
  BY KeyInLeaf
<1>7. /\ s \in 1 .. Len(d) + 1 /\ s \in Nat /\ s - 1 \in Nat
      /\ \A j \in 1 .. s - 1 : d[j][1] < k
      /\ \A j \in s .. Len(d) : k <= d[j][1]
  <2>1. PICK leaf : leaf = leaves[l]
    OBVIOUS
  <2>2. leaf \in LeafOver(Pair) /\ Ascends(leaf.data) /\ k \in Int
        /\ d = leaf.data /\ s = LocateSlot(leaf, k)
    BY <1>1, <1>4, <1>6, <2>1
  <2>3. /\ s \in 1 .. Len(d) + 1
        /\ \A j \in 1 .. s - 1 : d[j][1] < k
        /\ \A j \in s .. Len(d) : k <= d[j][1]
    BY ONLY <2>2, LocateSlotIs
  <2>4. s \in Nat /\ s - 1 \in Nat
    BY ONLY <1>5, <2>3
  <2> QED
    BY <2>3, <2>4
<1>8. Under(R[Leaf(l)]) = KeysOf(leaves[l])
  BY UnderLeaf
<1>9. IsFiniteSet(B) /\ Cardinality(B) = s - 1
  <2>1. CASE s = Len(d) + 1
    <3>1. s - 1 = Len(d)
      BY <1>5, <2>1
    <3>2. B = KeysOf(leaves[l])
      BY <1>1, <1>2, <1>5, <3>1 DEF KeysOf
    <3> QED
      BY <1>1, <1>3, <3>1, <3>2, LeafKeysCount
  <2>2. CASE s # Len(d) + 1
    <3>1. s \in 1 .. Len(d)
      BY <1>5, <1>7, <2>2
    <3> QED
      <4>1. PICK leaf : leaf = leaves[l]
        OBVIOUS
      <4>2. HoldsPairs(leaf, Range(leaf.data)) /\ s \in 1 .. Len(leaf.data)
            /\ B = {leaf.data[i][1] : i \in 1 .. s - 1}
        BY <1>1, <1>2, <1>3, <3>1, <4>1
      <4> QED
        BY ONLY <4>2, FirstKeysCount
  <2> QED
    BY <2>1, <2>2
<1>10. IsFiniteSet(StoredKeys) /\ StoredKeys \subseteq Key /\ StoredKeys \subseteq Int
  BY StoredFinite
<1>11. IsFiniteSet(K)
  <2>1. K \subseteq StoredKeys
    BY <1>1 DEF KeysBefore
  <2> QED
    BY <1>10, <2>1, FS_Subset
<1>12. ASSUME NEW i \in 1 .. Len(d) PROVE d[i][1] \in StoredKeys /\ d[i][1] \in R[Leaf(l)]
  BY <1>1, <1>5, <1>8 DEF Under, KeysOf
<1>13. ASSUME NEW x \in StoredKeys, x < k PROVE x \in K \cup B
  <2>1. PICK p \in Stored : p[1] = x
    BY DEF StoredKeys, FirstOf
  <2>2. PICK m \in LeafAlive : p \in Range(leaves[m].data)
    BY <2>1 DEF Stored, PairsIn
  <2>3. x \in R[Leaf(m)] /\ x \in Int
    BY <1>10, <2>1, <2>2, StoredRouted
  <2>4. CASE m = l
    <3>1. PICK i \in 1 .. Len(d) : d[i] = p
      BY <1>1, <1>5, <2>2, <2>4 DEF Range
    <3>2. ~(k <= d[i][1])
      BY <1>6, <1>13, <2>1, <2>3, <3>1
    <3>3. i \notin s .. Len(d)
      BY <1>7, <3>2
    <3>4. i \in 1 .. s - 1
      BY <1>5, <1>7, <3>3
    <3> QED
      BY <1>2, <2>1, <3>1, <3>4
  <2>5. CASE m # l
    <3>1. Key # {}
      BY <1>6
    <3>2. ~Ahead(R, l, m)
      <4>1. ~(k < x)
        BY <1>6, <1>13, <2>3
      <4> QED
        BY <2>3, <4>1 DEF Ahead, Precedes
    <3>3. Ahead(R, m, l)
      BY <2>5, <3>1, <3>2, LeavesApart
    <3> QED
      BY <1>1, <2>3, <3>3 DEF Ahead, Precedes, KeysBefore
  <2> QED
    BY <2>4, <2>5
<1>14. ASSUME NEW x \in B PROVE x \in StoredKeys /\ x < k /\ x \notin K
  <2>1. PICK i \in 1 .. s - 1 : x = d[i][1]
    BY <1>2
  <2>2. i \in 1 .. Len(d)
    BY <1>5, <1>7
  <2>3. x < k /\ x \in Int
    BY <1>5, <1>7, <2>1, <2>2
  <2>4. x \in R[Leaf(l)] /\ x \in StoredKeys /\ ~(x < x)
    BY <1>12, <2>1, <2>2, <2>3
  <2> QED
    BY <1>1, <2>3, <2>4 DEF KeysBefore
<1>15. ASSUME NEW x \in K PROVE x \in StoredKeys /\ x < k
  BY <1>1 DEF KeysBefore
<1>16. {x \in StoredKeys : x < k} = K \cup B /\ K \cap B = {}
  BY <1>13, <1>14, <1>15
<1>17. Cardinality(K \cup B) = Cardinality(K) + Cardinality(B)
  BY <1>9, <1>11, <1>16, ApartCount
<1>18. PICK q : q = Cardinality(K)
  OBVIOUS
<1>19. q \in Nat
  BY <1>11, <1>18, FS_CardinalityType
<1>20. q + (s - 1) = q + s - 1
  BY <1>7, <1>19
<1> QED
  BY <1>1, <1>9, <1>16, <1>17, <1>18, <1>20

\* The i-th entry along the chain is the one with i - 1 keys before it.
LEMMA EntryAtIndex ==
  ASSUME NEW h, Good(h), NEW T, NEW R, Routed(T, R), EmptyWithoutKeys
  PROVE  /\ \A j \in 1 .. Len(Entries) :
                /\ Entries[j] \in Stored /\ Entries[j][1] \in Int
                /\ Cardinality({k \in StoredKeys : k < Entries[j][1]}) = j - 1
         /\ \A e \in Stored : \E j \in 1 .. Len(Entries) : e = Entries[j]
<1>1. PICK es : es = Entries
  OBVIOUS
<1>2. /\ es \in Seq(Pair) /\ Ascends(es) /\ Range(es) = Stored /\ Len(es) \in Nat
      /\ Len(es) = Cardinality(StoredKeys)
  BY <1>1, EntriesAre
<1>3. DOMAIN es = 1 .. Len(es) /\ \A j \in 1 .. Len(es) : es[j] \in Pair /\ es[j][1] \in Int
  BY <1>2, PairsAt
<1>4. StoredKeys \subseteq Int
  BY StoredFinite
<1>5. PICK leaf : leaf = [data |-> es, prev |-> None, next |-> None]
  OBVIOUS
<1>6. HoldsPairs(leaf, Stored) /\ leaf.data = es
  BY <1>2, <1>5 DEF HoldsPairs, Sorted, LeafOver
<1>7. ASSUME NEW j \in 1 .. Len(es)
      PROVE  es[j] \in Stored /\ Cardinality({k \in StoredKeys : k < es[j][1]}) = j - 1
  <2>1. es[j] \in Stored
    BY <1>2, <1>3 DEF Range
  <2>2. PICK B : B = {es[i][1] : i \in 1 .. j - 1}
    OBVIOUS
  <2>3. Cardinality(B) = j - 1
    <3>1. j \in 1 .. Len(leaf.data) /\ B = {leaf.data[i][1] : i \in 1 .. j - 1}
      BY <1>6, <2>2
    <3> QED
      BY <1>6, <3>1, FirstKeysCount
  <2>4. ASSUME NEW k \in StoredKeys, k < es[j][1] PROVE k \in B
    <3>1. PICK p \in Stored : p[1] = k
      BY DEF StoredKeys, FirstOf
    <3>2. PICK i \in 1 .. Len(es) : p = es[i]
      BY <1>2, <1>3 DEF Range
    <3>3. i < j
      <4>1. j < i => es[j][1] < es[i][1]
        BY <1>2, <1>3 DEF Ascends
      <4>2. ~(es[j][1] < k) /\ k # es[j][1]
        BY <1>3, <1>4, <2>4
      <4> QED
        BY <1>2, <3>1, <3>2, <4>1, <4>2
    <3> QED
      BY <1>2, <2>2, <3>1, <3>2, <3>3
  <2>5. ASSUME NEW k \in B PROVE k \in StoredKeys /\ k < es[j][1]
    <3>1. PICK i \in 1 .. j - 1 : k = es[i][1]
      BY <2>2
    <3>2. i \in 1 .. Len(es) /\ i < j
      BY <1>2
    <3>3. es[i] \in Stored /\ es[i][1] < es[j][1]
      BY <1>2, <1>3, <3>2 DEF Range, Ascends
    <3> QED
      BY <3>1, <3>3 DEF StoredKeys, FirstOf
  <2>6. {k \in StoredKeys : k < es[j][1]} = B
    BY <2>4, <2>5
  <2> QED
    BY <2>1, <2>3, <2>6
<1>8. \A e \in Stored : \E j \in 1 .. Len(es) : e = es[j]
  BY <1>2, <1>3 DEF Range
<1> QED
  BY <1>1, <1>3, <1>7, <1>8

\* An entry is where the number of keys before it says.
LEMMA IndexSaysWhere ==
  ASSUME NEW h, Good(h), NEW T, NEW R, Routed(T, R), EmptyWithoutKeys,
         NEW e \in Stored, NEW i, Cardinality({k \in StoredKeys : k < e[1]}) = i
  PROVE  e = Entries[i + 1]
<1>1. PICK j \in 1 .. Len(Entries) : e = Entries[j]
  BY EntryAtIndex
<1>2. i = j - 1
  BY <1>1, EntryAtIndex
<1>3. Len(Entries) \in Nat
  BY EntriesAre
<1>4. i + 1 = j
  BY <1>1, <1>2, <1>3
<1> QED
  BY <1>1, <1>4

\* The rank of a key, by position.
LEMMA RankByPosition ==
  ASSUME NEW h, Good(h), NEW T, NEW R, Routed(T, R), EmptyWithoutKeys, NEW k
  PROVE  Cardinality({n \in 1 .. Len(Entries) : Entries[n][1] < k})
             = Cardinality({x \in StoredKeys : x < k})
<1>1. PICK es : es = Entries
  OBVIOUS
<1>2. /\ es \in Seq(Pair) /\ Ascends(es) /\ Range(es) = Stored /\ Len(es) \in Nat
  BY <1>1, EntriesAre
<1>3. DOMAIN es = 1 .. Len(es) /\ \A j \in 1 .. Len(es) : es[j] \in Pair /\ es[j][1] \in Int
  BY <1>2, PairsAt
<1>4. PICK A, B : A = {n \in 1 .. Len(es) : es[n][1] < k} /\ B = {x \in StoredKeys : x < k}
  OBVIOUS
<1>5. PICK f : f = [n \in A |-> es[n][1]]
  OBVIOUS
<1>6. ASSUME NEW n \in A PROVE f[n] \in B
  BY <1>2, <1>3, <1>4, <1>5 DEF Range, StoredKeys, FirstOf
<1>7. ASSUME NEW n \in A, NEW m \in A, f[n] = f[m] PROVE n = m
  <2>1. n \in 1 .. Len(es) /\ m \in 1 .. Len(es) /\ es[n][1] = es[m][1] /\ es[n][1] \in Int
    BY <1>3, <1>4, <1>5, <1>7
  <2>2. (n < m => es[n][1] < es[m][1]) /\ (m < n => es[m][1] < es[n][1])
    BY <1>2, <1>3, <2>1 DEF Ascends
  <2>3. n \in Nat /\ m \in Nat /\ ~(n < m) /\ ~(m < n)
    BY <1>2, <2>1, <2>2
  <2> QED
    BY <2>3
<1>8. ASSUME NEW x \in B PROVE \E n \in A : f[n] = x
  <2>1. PICK p \in Stored : p[1] = x
    BY <1>4 DEF StoredKeys, FirstOf
  <2>2. PICK n \in 1 .. Len(es) : p = es[n]
    BY <1>2, <1>3 DEF Range
  <2> QED
    BY <1>4, <1>5, <2>1, <2>2
<1>9. f \in Bijection(A, B)
  <2>1. f \in [A -> B]
    BY <1>5, <1>6
  <2> QED
    BY <1>7, <1>8, <2>1 DEF Bijection, Injection, Surjection, IsInjective
<1>10. IsFiniteSet(A)
  <2>1. A \subseteq 1 .. Len(es)
    BY <1>4
  <2>2. IsFiniteSet(1 .. Len(es))
    BY <1>2, FS_Interval
  <2> QED
    BY <2>1, <2>2, FS_Subset
<1>11. Cardinality(A) = Cardinality(B)
  <2>1. ExistsBijection(A, B)
    BY <1>9 DEF ExistsBijection
  <2> QED
    BY <1>10, <2>1, FS_Bijection
<1> QED
  BY <1>1, <1>4, <1>11

-----------------------------------------------------------------------------
(* Descents that count                                                     *)

\* What steps F of a as long as f stays in S, is a run.
LEMMA RunIs ==
  ASSUME NEW n \in Nat, NEW S, NEW a \in S, NEW F \in [S -> S],
         NEW f, f = [d \in 0 .. n |-> f[d]], f[0] = a,
         \A d \in 1 .. n : f[d - 1] \in S => f[d] = F[f[d - 1]]
  PROVE  IsRun(f, n, S, a, F)
<1> DEFINE A == {d \in 0 .. n : f[d] \in S}
<1>1. 0 \in A
  OBVIOUS
<1>2. ASSUME NEW d \in 1 .. n, d - 1 \in A PROVE d \in A
  <2>1. f[d - 1] \in S /\ d \in 0 .. n
    BY <1>2
  <2>2. f[d] = F[f[d - 1]]
    BY <2>1
  <2> QED
    BY <2>1, <2>2
<1> HIDE DEF A
<1>3. 0 .. n \subseteq A
  BY <1>1, <1>2, CountUp
<1>4. \A d \in 0 .. n : f[d] \in S
  BY <1>3 DEF A
<1>5. ASSUME NEW d \in 1 .. n PROVE f[d] = F[f[d - 1]]
  <2>1. d - 1 \in 0 .. n
    OBVIOUS
  <2>2. f[d - 1] \in S
    BY <1>4, <2>1
  <2> QED
    BY <2>2
<1>6. f \in [0 .. n -> S]
  BY <1>4
<1> QED
  BY <1>5, <1>6 DEF IsRun

\* A run that goes down each time has come all the way.
LEMMA RunEnds ==
  ASSUME NEW n \in Nat, NEW S, NEW a \in S, NEW F \in [S -> S], NEW H \in [S -> Nat],
         H[a] <= n,
         \A x \in S : IF H[x] = 0 THEN H[F[x]] = 0 ELSE H[F[x]] < H[x],
         NEW f, IsRun(f, n, S, a, F)
  PROVE  f[n] \in S /\ H[f[n]] = 0
<1> DEFINE A == {d \in 0 .. n : f[d] \in S /\ H[f[d]] <= n - d}
<1>1. 0 \in A
  BY DEF IsRun
<1>2. ASSUME NEW d \in 1 .. n, d - 1 \in A PROVE d \in A
  <2>1. PICK x : x = f[d - 1]
    OBVIOUS
  <2>2. x \in S /\ H[x] <= n - (d - 1)
    BY <1>2, <2>1
  <2>3. f[d] = F[x]
    BY <2>1 DEF IsRun
  <2>4. F[x] \in S /\ H[x] \in Nat /\ H[F[x]] \in Nat
    BY <2>2
  <2>5. H[F[x]] <= n - d
    <3>1. IF H[x] = 0 THEN H[F[x]] = 0 ELSE H[F[x]] < H[x]
      BY <2>2
    <3> QED
      BY <2>2, <2>4, <3>1
  <2> QED
    BY <2>3, <2>4, <2>5
<1> HIDE DEF A
<1>3. 0 .. n \subseteq A
  BY <1>1, <1>2, CountUp
<1>4. n \in A
  BY <1>3
<1>5. f[n] \in S /\ H[f[n]] <= n - n /\ H[f[n]] \in Nat
  BY <1>4 DEF A
<1> QED
  BY <1>5

\* The height of a node of the tree.
LEMMA HeightIs ==
  ASSUME NEW h, Good(h), NEW T, NEW R, Routed(T, R), NEW x \in NodeId, InTree(T, x)
  PROVE  /\ HeightOf(h, x) \in Nat /\ HeightOf(h, x) <= Len(inners)
         /\ HeightOf(h, x) = 0 <=> x.kind = "leaf"
         /\ Len(inners) \in Nat
<1>1. Len(inners) \in Nat
  BY LenProperties DEF Good, StoreOK
<1>2. CASE x.kind = "leaf"
  BY <1>1, <1>2 DEF HeightOf
<1>3. CASE x.kind # "leaf"
  <2>1. x.id \in DOMAIN inners
    BY <1>3 DEF InTree, Routed, InnersFilled, Owned
  <2>2. h[x.id] \in 1 .. Len(inners)
    BY <2>1 DEF Good, StoreOK
  <2> QED
    BY <1>1, <1>3, <2>2 DEF HeightOf
<1> QED
  BY <1>1, <1>2, <1>3

\* An inner node knows how many keys are under its children, and before them.
LEMMA KidsCounted ==
  ASSUME NEW h, Good(h), NEW T, NEW R, Routed(T, R), ~IsTelling,
         NEW V, InnersFilled(V), Counted(V),
         NEW x, InBoth(T, V, x), x.kind = "inner"
  PROVE  LET n == inners[x.id]
         IN  /\ n.aug \in Seq(Nat) /\ DOMAIN n.child = 1 .. Len(n.aug)
             /\ \A c \in DOMAIN n.child :
                    /\ InBoth(T, V, n.child[c])
                    /\ HeightOf(h, n.child[c]) = HeightOf(h, x) - 1
                    /\ n.aug[c] = Cardinality(Under(R[n.child[c]]))
                    /\ Cardinality(KeysBefore(R[n.child[c]]))
                           = Cardinality(KeysBefore(R[x])) + SumBefore(n.aug, c)
<1>1. PICK i : i = x.id
  OBVIOUS
<1>2. /\ x = Inner(i) /\ i \in T \cap V
      /\ \A c \in DOMAIN inners[i].child :
             /\ InBoth(T, V, inners[i].child[c])
             /\ HeightOf(h, inners[i].child[c]) = h[i] - 1
  BY <1>1, KidsInBoth
<1>3. \A c \in DOMAIN inners[i].child : CountedUnder(R, inners[i].child[c])
  BY <1>2, CountIsUnder
<1>4. \A c \in DOMAIN inners[i].child :
          /\ inners[i].aug[c] = Cardinality(Under(R[inners[i].child[c]]))
          /\ Cardinality(KeysBefore(R[inners[i].child[c]]))
                 = Cardinality(KeysBefore(R[Inner(i)])) + SumBefore(inners[i].aug, c)
  BY <1>2, <1>3, NodeCounts
<1>5. inners[i].aug \in Seq(Nat) /\ DOMAIN inners[i].child = 1 .. Len(inners[i].aug)
  <2>1. IsInner(inners[i], Key, NodesAt(Len(leaves), h, h[i] - 1))
    BY <1>2, RangeOf
  <2> QED
    BY <2>1 DEF IsInner
<1>6. HeightOf(h, x) = h[i]
  BY <1>1 DEF HeightOf
<1> QED
  BY <1>1, <1>2, <1>4, <1>5, <1>6

\* The keys before a node are a finite number.
LEMMA BeforeFinite ==
  ASSUME NEW h, Good(h), NEW T, NEW R, Routed(T, R), NEW S
  PROVE  /\ IsFiniteSet(KeysBefore(S)) /\ Cardinality(KeysBefore(S)) \in Nat
         /\ IsFiniteSet(Under(S)) /\ Cardinality(Under(S)) \in Nat
<1>1. IsFiniteSet(StoredKeys)
  BY StoredFinite
<1>2. KeysBefore(S) \subseteq StoredKeys /\ Under(S) \subseteq StoredKeys
  BY DEF KeysBefore, Under
<1>3. IsFiniteSet(KeysBefore(S)) /\ IsFiniteSet(Under(S))
  BY <1>1, <1>2, FS_Subset
<1> QED
  BY <1>3, FS_CardinalityType

-----------------------------------------------------------------------------
(* The descent by index                                                    *)

\* The steps of GetByIndex, its descent, and where it ends.
IndexStep(p) ==
    IF p.id = None \/ p.id.kind = "leaf" THEN p
    ELSE LET n == inners[p.id.id]
             l == LocateInInner(p.query, n.aug)
         IN  [id    |-> IF l.child = 0 THEN None ELSE n.child[l.child],
              query |-> l.query]

IsFinding(f, i) ==
    f = [d \in 0 .. Len(inners) |->
            IF d = 0 THEN [id |-> root, query |-> i] ELSE IndexStep(f[d - 1])]

FoundAt(end) ==
    LET slot == LocateInLeaf(end.query, LeafKeys(leaves[end.id.id]))
    IN  IF end.id = None \/ slot = 0 THEN None ELSE leaves[end.id.id].data[slot]

\* GetByIndex takes what it finds where a descent of Len(inners) steps ends.
LEMMA GetByIndexIs ==
  ASSUME NEW i, \E f : IsFinding(f, i)
  PROVE  \E f : IsFinding(f, i) /\ GetByIndex(i) = FoundAt(f[Len(inners)])
<1>1. PICK f : f = CHOOSE g : IsFinding(g, i)
  OBVIOUS
<1>2. IsFinding(f, i)
  BY <1>1
<1>3. GetByIndex(i) = FoundAt((CHOOSE g : IsFinding(g, i))[Len(inners)])
  BY DEF GetByIndex, FoundAt, IsFinding, IndexStep
<1> QED
  BY <1>1, <1>2, <1>3

\* A descent within S is made, and leads to its end.
LEMMA FindingEnds ==
  ASSUME NEW i, NEW N \in Nat, N = Len(inners), NEW S, NEW a \in S,
         a = [id |-> root, query |-> i], \A p \in S : IndexStep(p) \in S,
         NEW H \in [S -> Nat], H[a] <= N,
         \A p \in S : IF H[p] = 0 THEN H[IndexStep(p)] = 0 ELSE H[IndexStep(p)] < H[p]
  PROVE  \E p \in S : H[p] = 0 /\ GetByIndex(i) = FoundAt(p)
<1>1. PICK F : F = [p \in S |-> IndexStep(p)]
  OBVIOUS
<1>2. F \in [S -> S] /\ \A p \in S : F[p] = IndexStep(p)
  BY <1>1
<1>3. PICK g : IsRun(g, N, S, a, F)
  BY <1>2, Iterated
<1>4. IsFinding(g, i)
  <2>1. g = [d \in 0 .. N |-> g[d]]
    BY <1>3 DEF IsRun
  <2>2. ASSUME NEW d \in 0 .. N
        PROVE  g[d] = IF d = 0 THEN a ELSE IndexStep(g[d - 1])
    <3>1. CASE d = 0
      BY <1>3, <3>1 DEF IsRun
    <3>2. CASE d # 0
      <4>1. d \in 1 .. N /\ d - 1 \in 0 .. N
        BY <3>2
      <4>2. g[d] = F[g[d - 1]] /\ g[d - 1] \in S
        BY <1>3, <4>1 DEF IsRun
      <4> QED
        BY <1>2, <3>2, <4>2
    <3> QED
      BY <3>1, <3>2
  <2> QED
    BY <2>1, <2>2 DEF IsFinding
<1>5. PICK f : IsFinding(f, i) /\ GetByIndex(i) = FoundAt(f[N])
  BY <1>4, GetByIndexIs
<1>6. f = [d \in 0 .. N |-> f[d]] /\ f[0] = a
  BY <1>5 DEF IsFinding
<1>7. ASSUME NEW d \in 1 .. N, f[d - 1] \in S PROVE f[d] = F[f[d - 1]]
  <2>1. d \in 0 .. N /\ d # 0
    BY <1>7
  <2>2. f[d] = IndexStep(f[d - 1])
    BY <1>5, <2>1 DEF IsFinding
  <2> QED
    BY <1>2, <1>7, <2>2
<1>8. IsRun(f, N, S, a, F)
  BY <1>2, <1>6, <1>7, RunIs
<1>9. \A p \in S : IF H[p] = 0 THEN H[F[p]] = 0 ELSE H[F[p]] < H[p]
  BY <1>2
<1>10. f[N] \in S /\ H[f[N]] = 0
  BY ONLY <1>2, <1>8, <1>9, H \in [S -> Nat], H[a] <= N, a \in S, N \in Nat, RunEnds
<1> QED
  BY <1>5, <1>10

\* Where the entry of index i is under x, with that many keys before it.
Sought(T, V, R, i) ==
    {p \in [id : NodeId, query : Nat] :
        /\ InBoth(T, V, p.id) /\ p.query < Cardinality(Under(R[p.id]))
        /\ i = p.query + Cardinality(KeysBefore(R[p.id]))}

\* A step of the descent by index keeps its aim.
LEMMA FindStays ==
  ASSUME NEW h, Good(h), NEW T, NEW R, Routed(T, R), ~IsTelling,
         NEW V, InnersFilled(V), Counted(V), NEW i \in Nat, NEW p \in Sought(T, V, R, i)
  PROVE  /\ IndexStep(p) \in Sought(T, V, R, i)
         /\ p.id.kind = "leaf" => IndexStep(p) = p
         /\ p.id.kind # "leaf" => HeightOf(h, IndexStep(p).id) = HeightOf(h, p.id) - 1
<1>1. PICK x, q : x = p.id /\ q = p.query
  OBVIOUS
<1>2. /\ x \in NodeId /\ q \in Nat /\ p = [id |-> x, query |-> q]
      /\ InBoth(T, V, x) /\ q < Cardinality(Under(R[x]))
      /\ i = q + Cardinality(KeysBefore(R[x]))
  BY <1>1 DEF Sought
<1>3. CASE x.kind = "leaf"
  BY <1>1, <1>3 DEF IndexStep
<1>4. CASE x.kind # "leaf"
  <2>1. x.kind = "inner" /\ x # None
    BY <1>2, <1>4, NodeAssumption DEF NodeId
  <2>2. PICK n, c : n = inners[x.id] /\ c = LocateInInner(q, n.aug).child
    OBVIOUS
  <2>3. PICK y, e : y = n.child[c] /\ e = LocateInInner(q, n.aug).query
    OBVIOUS
  <2>4. /\ n.aug \in Seq(Nat) /\ DOMAIN n.child = 1 .. Len(n.aug)
        /\ \A j \in DOMAIN n.child :
               /\ InBoth(T, V, n.child[j])
               /\ HeightOf(h, n.child[j]) = HeightOf(h, x) - 1
               /\ n.aug[j] = Cardinality(Under(R[n.child[j]]))
               /\ Cardinality(KeysBefore(R[n.child[j]]))
                      = Cardinality(KeysBefore(R[x])) + SumBefore(n.aug, j)
    BY <1>2, <2>1, <2>2, KidsCounted
  <2>5. c # 0
    \* The counts of the children reach beyond q.
    <3>1. c = 0 => Total(n.aug) <= q
      <4>1. PICK s : s = n.aug
        OBVIOUS
      <4>2. s \in Seq(Nat) /\ q \in Nat /\ c = LocateInInner(q, s).child
        BY <1>2, <2>2, <2>4, <4>1
      <4>3. c = 0 => Total(s) <= q
        BY ONLY <4>2, LocateInInnerFinds
      <4> QED
        BY <4>1, <4>3
    <3>2. Cardinality(Under(R[x])) = Total(n.aug)
      <4>1. CountedUnder(R, x)
        BY <1>2, CountIsUnder
      <4> QED
        BY <1>2, <2>1, <2>2, <4>1, CountsAre DEF CountedUnder, FromInner
    <3> QED
      BY <1>2, <2>4, <3>1, <3>2, BeforeFinite
  <2>6. /\ c \in 1 .. Len(n.aug) /\ SumBefore(n.aug, c) \in Nat /\ e \in Nat
        /\ e = q - SumBefore(n.aug, c) /\ e < n.aug[c]
    BY <1>2, <2>2, <2>3, <2>4, <2>5, LocateInInnerFinds
  <2>7. /\ InBoth(T, V, y) /\ y \in NodeId /\ HeightOf(h, y) = HeightOf(h, x) - 1
        /\ e < Cardinality(Under(R[y]))
        /\ Cardinality(KeysBefore(R[y])) = Cardinality(KeysBefore(R[x])) + SumBefore(n.aug, c)
    BY <2>3, <2>4, <2>6 DEF InBoth
  <2>8. i = e + Cardinality(KeysBefore(R[y]))
    <3>1. PICK m, u, s : /\ m = Cardinality(KeysBefore(R[x])) /\ s = SumBefore(n.aug, c)
                         /\ u = Cardinality(KeysBefore(R[y]))
      OBVIOUS
    <3>2. m \in Nat /\ s \in Nat /\ u = m + s /\ e = q - s /\ i = q + m
      BY <1>2, <2>6, <2>7, <3>1, BeforeFinite
    <3>3. i = e + u
      BY ONLY <1>2, <3>2, i \in Nat, q \in Nat
    <3> QED
      BY <3>1, <3>3
  <2>9. IndexStep(p) = [id |-> y, query |-> e]
    BY <1>1, <1>4, <2>1, <2>2, <2>3, <2>5 DEF IndexStep
  <2>10. IndexStep(p) \in Sought(T, V, R, i)
    BY <2>6, <2>7, <2>8, <2>9 DEF Sought
  <2> QED
    BY <1>1, <1>4, <2>7, <2>9, <2>10
<1> QED
  BY <1>3, <1>4

\* Index i finds the i-th entry along the chain.
LEMMA IndexFinds ==
  ASSUME NEW h, Good(h), NEW T, NEW R, Routed(T, R), EmptyWithoutKeys, pc = "idle",
         NEW V, InnersFilled(V), Counted(V), NEW i \in Nat, i < Cardinality(StoredKeys)
  PROVE  GetByIndex(i) = Entries[i + 1]
<1>1. ~IsTelling /\ ~IsSplit
  BY DEF IsTelling, IsSplit
<1>2. PICK N, a, S : /\ N = Len(inners) /\ a = [id |-> root, query |-> i]
                     /\ S = Sought(T, V, R, i)
  OBVIOUS
<1>3. Current = root
  BY DEF Current, EndOf, Good, Locals
<1>4. root \in NodeId /\ InBoth(T, V, root)
  BY <1>3, CurrentInBoth DEF InBoth
<1>5. Under(R[root]) = StoredKeys /\ Cardinality(KeysBefore(R[root])) = 0
  BY <1>1, RootOfAll, FS_EmptySet
<1>6. a \in S
  BY <1>2, <1>4, <1>5 DEF Sought
<1>7. \A p \in S : /\ IndexStep(p) \in S
                   /\ p.id.kind = "leaf" => IndexStep(p) = p
                   /\ p.id.kind # "leaf" => HeightOf(h, IndexStep(p).id) = HeightOf(h, p.id) - 1
  BY <1>1, <1>2, FindStays
<1>8. \A p \in S : /\ HeightOf(h, p.id) \in Nat /\ HeightOf(h, p.id) <= N
                   /\ HeightOf(h, p.id) = 0 <=> p.id.kind = "leaf"
                   /\ N \in Nat
  BY <1>2, HeightIs DEF Sought, InBoth
<1>9. PICK H : H = [p \in S |-> HeightOf(h, p.id)]
  OBVIOUS
<1>10. H \in [S -> Nat] /\ H[a] <= N /\ N \in Nat
  BY <1>6, <1>8, <1>9
<1>11. \A p \in S : IF H[p] = 0 THEN H[IndexStep(p)] = 0 ELSE H[IndexStep(p)] < H[p]
  BY <1>7, <1>8, <1>9
<1>12. \A p \in S : IndexStep(p) \in S
  BY <1>7
<1>13. \E p \in S : H[p] = 0 /\ GetByIndex(i) = FoundAt(p)
  <2>1. N = Len(inners) /\ a = [id |-> root, query |-> i] /\ N \in Nat
    BY <1>2, <1>10
  <2> QED
    BY ONLY <1>6, <1>10, <1>11, <1>12, <2>1, FindingEnds
<1>14. PICK p \in S : H[p] = 0 /\ GetByIndex(i) = FoundAt(p)
  BY <1>13
<1>15. PICK l, q : l = p.id.id /\ q = p.query
  OBVIOUS
<1>16. /\ p.id = Leaf(l) /\ l \in LeafAlive /\ q \in Nat /\ p.id # None
       /\ q < Cardinality(Under(R[Leaf(l)])) /\ i = q + Cardinality(KeysBefore(R[Leaf(l)]))
  <2>1. p.id.kind = "leaf" /\ p.id \in NodeId
    BY <1>2, <1>8, <1>9, <1>14 DEF Sought
  <2>2. p.id = Leaf(l)
    BY <1>15, <2>1 DEF NodeId, Leaf
  <2> QED
    BY <1>2, <1>14, <1>15, <2>1, <2>2, NodeAssumption DEF Sought, InBoth, InTree
<1>17. PICK d, s : d = leaves[l].data /\ s = q + 1
  OBVIOUS
<1>18. HoldsPairs(leaves[l], Range(leaves[l].data))
  BY <1>16, LeafHolds
<1>19. /\ Len(d) \in Nat /\ DOMAIN d = 1 .. Len(d)
       /\ \A j \in 1 .. Len(d) : d[j] \in Pair
  <2>1. d \in Seq(Pair)
    BY <1>17, <1>18 DEF HoldsPairs, Sorted
  <2> QED
    BY <2>1, PairsAt
<1>20. Cardinality(Under(R[Leaf(l)])) = Len(d)
  BY <1>16, <1>17, <1>18, UnderLeaf, LeafKeysCount
<1>21. s \in 1 .. Len(d) /\ q < Len(d)
  BY <1>16, <1>17, <1>19, <1>20
<1>22. Len(LeafKeys(leaves[l])) = Len(d)
  BY <1>17, <1>19 DEF LeafKeys
<1>23. FoundAt(p) = d[s]
  <2>1. LocateInLeaf(q, LeafKeys(leaves[l])) = s /\ s # 0
    BY <1>16, <1>17, <1>21, <1>22 DEF LocateInLeaf
  <2> QED
    BY <1>15, <1>16, <1>17, <2>1 DEF FoundAt
<1>24. Cardinality({k \in StoredKeys : k < d[s][1]}) = i
  <2>1. PICK m : m = Cardinality(KeysBefore(R[Leaf(l)]))
    OBVIOUS
  <2>2. m \in Nat
    BY <2>1, BeforeFinite
  <2>3. Cardinality({k \in StoredKeys : k < d[s][1]}) = m + s - 1
    BY <1>16, <1>17, <1>21, <2>1, IndexInLeaf
  <2>4. m + s - 1 = i
    BY <1>16, <1>17, <2>1, <2>2
  <2> QED
    BY <2>3, <2>4
<1>25. d[s] \in Stored
  BY <1>16, <1>17, <1>19, <1>21 DEF Stored, PairsIn, Range
<1>26. d[s] = Entries[i + 1]
  BY <1>24, <1>25, IndexSaysWhere
<1> QED
  BY <1>14, <1>23, <1>26

\* Where no child holds the index, it is given back.
LEMMA LocateNone ==
  ASSUME NEW s \in Seq(Nat), NEW idx, LocateInInner(idx, s).child = 0
  PROVE  LocateInInner(idx, s).query = idx
<1> DEFINE Before(i) == Total(SubSeq(s, 1, i - 1))
           Holds == {i \in DOMAIN s : Before(i) <= idx /\ idx < Before(i) + s[i]}
           c == CHOOSE i \in Holds : TRUE
<1>1. CASE Holds # {}
  <2>1. c \in Holds
    BY <1>1
  <2>2. LocateInInner(idx, s) = [child |-> c, query |-> idx - Before(c)]
    BY <1>1 DEF LocateInInner
  <2>3. c \in DOMAIN s /\ DOMAIN s = 1 .. Len(s)
    BY <2>1, LenProperties
  <2> HIDE DEF c
  <2>4. c = 0
    BY <2>2
  <2> QED
    BY <2>3, <2>4, LenProperties
<1>2. CASE Holds = {}
  BY <1>2 DEF LocateInInner
<1> QED
  BY <1>1, <1>2

\* One past the last index finds none.
LEMMA IndexMisses ==
  ASSUME NEW h, Good(h), NEW T, NEW R, Routed(T, R), pc = "idle",
         NEW V, InnersFilled(V), Counted(V), NEW i \in Nat, i = Cardinality(StoredKeys)
  PROVE  GetByIndex(i) = None
<1>1. ~IsTelling /\ ~IsSplit
  BY DEF IsTelling, IsSplit
<1>2. PICK N, a, b : /\ N = Len(inners) /\ a = [id |-> root, query |-> i]
                     /\ b = [id |-> None, query |-> i]
  OBVIOUS
<1>3. Current = root
  BY DEF Current, EndOf, Good, Locals
<1>4. root \in NodeId /\ InBoth(T, V, root) /\ root # None
  BY <1>3, CurrentInBoth, NodeAssumption DEF InBoth
<1>5. Under(R[root]) = StoredKeys /\ Cardinality(KeysBefore(R[root])) = 0
  BY <1>1, RootOfAll, FS_EmptySet
<1>6. N \in Nat /\ (root.kind # "leaf" => 1 <= N)
  <2>1. HeightOf(h, root) \in Nat /\ HeightOf(h, root) <= N /\ N \in Nat
        /\ (HeightOf(h, root) = 0 <=> root.kind = "leaf")
    BY <1>2, <1>4, HeightIs DEF InBoth
  <2> QED
    BY <2>1
<1>7. IndexStep(b) = b
  BY <1>2 DEF IndexStep
<1>8. CASE root.kind = "leaf"
  <2>1. IndexStep(a) = a
    BY <1>2, <1>8 DEF IndexStep
  <2>2. PICK S, H : S = {a} /\ H = [p \in S |-> 0]
    OBVIOUS
  <2>3. /\ a \in S /\ H \in [S -> Nat] /\ H[a] <= N /\ (\A p \in S : IndexStep(p) \in S)
        /\ \A p \in S : IF H[p] = 0 THEN H[IndexStep(p)] = 0 ELSE H[IndexStep(p)] < H[p]
    BY <1>6, <2>1, <2>2
  <2>4. \E p \in S : H[p] = 0 /\ GetByIndex(i) = FoundAt(p)
    BY ONLY <1>2, <1>6, <2>3, FindingEnds
  <2>5. GetByIndex(i) = FoundAt(a)
    BY <2>2, <2>4
  <2>6. PICK l : l = root.id
    OBVIOUS
  <2>7. root = Leaf(l) /\ l \in LeafAlive
    BY <1>4, <1>8, <2>6 DEF NodeId, Leaf, InBoth, InTree
  <2>8. HoldsPairs(leaves[l], Range(leaves[l].data))
    BY <2>7, LeafHolds
  <2>9. i = Len(leaves[l].data)
    BY <1>5, <2>7, <2>8, UnderLeaf, LeafKeysCount
  <2>10. Len(LeafKeys(leaves[l])) = i
    <3>1. leaves[l].data \in Seq(Pair)
      BY <2>8 DEF HoldsPairs, Sorted
    <3> QED
      BY <2>9, <3>1, PairsAt DEF LeafKeys
  <2>11. LocateInLeaf(i, LeafKeys(leaves[l])) = 0
    BY <2>10 DEF LocateInLeaf
  <2> QED
    BY <1>2, <2>5, <2>6, <2>11 DEF FoundAt
<1>9. CASE root.kind # "leaf"
  <2>1. root.kind = "inner"
    BY <1>4, <1>9 DEF NodeId
  <2>2. PICK n, c : n = inners[root.id] /\ c = LocateInInner(i, n.aug).child
    OBVIOUS
  <2>3. /\ n.aug \in Seq(Nat) /\ DOMAIN n.child = 1 .. Len(n.aug)
        /\ \A j \in DOMAIN n.child :
               /\ n.aug[j] = Cardinality(Under(R[n.child[j]]))
               /\ Cardinality(KeysBefore(R[n.child[j]]))
                      = Cardinality(KeysBefore(R[root])) + SumBefore(n.aug, j)
    BY <1>1, <1>4, <2>1, <2>2, KidsCounted
  <2>4. c = 0
    <3> SUFFICES ASSUME c # 0 PROVE FALSE
      OBVIOUS
    <3>1. PICK s, e, g : /\ s = n.aug /\ e = LocateInInner(i, s).query
                         /\ g = SumBefore(s, c)
      OBVIOUS
    <3>2. s \in Seq(Nat) /\ i \in Nat /\ c = LocateInInner(i, s).child
      BY <2>2, <2>3, <3>1
    <3>3. c \in 1 .. Len(s) /\ g \in Nat /\ e = i - g /\ e \in Nat /\ e < s[c]
      BY ONLY <3>1, <3>2, c # 0, LocateInInnerFinds
    <3>4. PICK X, B, U : X = R[n.child[c]] /\ B = KeysBefore(X) /\ U = Under(X)
      OBVIOUS
    <3>5. s[c] = Cardinality(U) /\ Cardinality(B) = g
      <4>1. c \in DOMAIN n.child
        BY <2>3, <3>1, <3>3
      <4>2. /\ n.aug[c] = Cardinality(Under(X))
            /\ Cardinality(KeysBefore(X)) = Cardinality(KeysBefore(R[root])) + SumBefore(n.aug, c)
        BY <2>3, <3>4, <4>1
      <4>3. Cardinality(KeysBefore(X)) = 0 + g
        BY <1>5, <3>1, <4>2
      <4> QED
        BY <3>1, <3>3, <3>4, <4>2, <4>3
    <3>6. /\ IsFiniteSet(B) /\ IsFiniteSet(U) /\ Cardinality(U) \in Nat
          /\ IsFiniteSet(StoredKeys) /\ StoredKeys \subseteq Int
      BY <3>4, BeforeFinite, StoredFinite
    <3>7. B \cup U \subseteq StoredKeys /\ B \cap U = {}
      <4>1. B \subseteq StoredKeys /\ U \subseteq StoredKeys
        BY <3>4 DEF KeysBefore, Under
      <4>2. ASSUME NEW k \in B, k \in U PROVE FALSE
        <5>1. k \in X /\ k < k /\ k \in Int
          BY <3>4, <3>6, <4>2 DEF KeysBefore, Under
        <5> QED
          BY <5>1
      <4> QED
        BY <4>1, <4>2
    <3>8. Cardinality(B \cup U) = Cardinality(B) + Cardinality(U)
      BY <3>6, <3>7, ApartCount
    <3>9. Cardinality(B \cup U) <= i
      BY <3>6, <3>7, FS_Subset
    <3> QED
      BY <3>3, <3>5, <3>6, <3>8, <3>9
  <2>5. IndexStep(a) = b
    <3>1. LocateInInner(i, n.aug).query = i
      <4>1. PICK s : s = n.aug
        OBVIOUS
      <4>2. s \in Seq(Nat) /\ LocateInInner(i, s).child = 0
        BY <2>2, <2>3, <2>4, <4>1
      <4>3. LocateInInner(i, s).query = i
        BY ONLY <4>2, LocateNone
      <4> QED
        BY <4>1, <4>3
    <3> QED
      BY <1>2, <1>4, <1>9, <2>2, <2>4, <3>1 DEF IndexStep
  <2>6. a # b
    BY <1>2, <1>4
  <2>7. PICK S, H : S = {a, b} /\ H = [p \in S |-> IF p = a THEN 1 ELSE 0]
    OBVIOUS
  <2>8. /\ a \in S /\ H \in [S -> Nat] /\ H[a] <= N /\ (\A p \in S : IndexStep(p) \in S)
        /\ \A p \in S : IF H[p] = 0 THEN H[IndexStep(p)] = 0 ELSE H[IndexStep(p)] < H[p]
    BY <1>6, <1>7, <1>9, <2>5, <2>6, <2>7
  <2>9. \E p \in S : H[p] = 0 /\ GetByIndex(i) = FoundAt(p)
    BY ONLY <1>2, <1>6, <2>8, FindingEnds
  <2>10. GetByIndex(i) = FoundAt(b)
    BY <2>6, <2>7, <2>9
  <2> QED
    BY <1>2, <2>10 DEF FoundAt
<1> QED
  BY <1>8, <1>9

-----------------------------------------------------------------------------
(* The rank of a key                                                       *)

\* The steps of RankOf, its descent, and what its end makes of the leaf.
RankStep(k, p) ==
    IF p.id.kind = "leaf" THEN p
    ELSE LET n == inners[p.id.id]
             c == LocateChild(n, k)
         IN  [id   |-> n.child[c],
              rank |-> FoldInner(p.rank, SubSeq(n.aug, 1, c - 1))]

IsRanking(f, k) ==
    f = [d \in 0 .. Len(inners) |->
            IF d = 0 THEN [id |-> root, rank |-> 0] ELSE RankStep(k, f[d - 1])]

RankAt(k, end) == FoldLeaf(end.rank, LocateSlot(leaves[end.id.id], k))

\* RankOf is what a descent of Len(inners) steps has counted in the end.
LEMMA RankOfIs ==
  ASSUME NEW k, \E f : IsRanking(f, k)
  PROVE  \E f : IsRanking(f, k) /\ RankOf(k) = RankAt(k, f[Len(inners)])
<1>1. PICK f : f = CHOOSE g : IsRanking(g, k)
  OBVIOUS
<1>2. IsRanking(f, k)
  BY <1>1
<1>3. RankOf(k) = RankAt(k, (CHOOSE g : IsRanking(g, k))[Len(inners)])
  BY DEF RankOf, RankAt, IsRanking, RankStep
<1> QED
  BY <1>1, <1>2, <1>3

\* A descent within S is made, and leads to its end.
LEMMA RankingEnds ==
  ASSUME NEW k, NEW N \in Nat, N = Len(inners), NEW S, NEW a \in S,
         a = [id |-> root, rank |-> 0], \A p \in S : RankStep(k, p) \in S,
         NEW H \in [S -> Nat], H[a] <= N,
         \A p \in S : IF H[p] = 0 THEN H[RankStep(k, p)] = 0 ELSE H[RankStep(k, p)] < H[p]
  PROVE  \E p \in S : H[p] = 0 /\ RankOf(k) = RankAt(k, p)
<1>1. PICK F : F = [p \in S |-> RankStep(k, p)]
  OBVIOUS
<1>2. F \in [S -> S] /\ \A p \in S : F[p] = RankStep(k, p)
  BY <1>1
<1>3. PICK g : IsRun(g, N, S, a, F)
  BY <1>2, Iterated
<1>4. IsRanking(g, k)
  <2>1. g = [d \in 0 .. N |-> g[d]]
    BY <1>3 DEF IsRun
  <2>2. ASSUME NEW d \in 0 .. N
        PROVE  g[d] = IF d = 0 THEN a ELSE RankStep(k, g[d - 1])
    <3>1. CASE d = 0
      BY <1>3, <3>1 DEF IsRun
    <3>2. CASE d # 0
      <4>1. d \in 1 .. N /\ d - 1 \in 0 .. N
        BY <3>2
      <4>2. g[d] = F[g[d - 1]] /\ g[d - 1] \in S
        BY <1>3, <4>1 DEF IsRun
      <4> QED
        BY <1>2, <3>2, <4>2
    <3> QED
      BY <3>1, <3>2
  <2> QED
    BY <2>1, <2>2 DEF IsRanking
<1>5. PICK f : IsRanking(f, k) /\ RankOf(k) = RankAt(k, f[N])
  BY <1>4, RankOfIs
<1>6. f = [d \in 0 .. N |-> f[d]] /\ f[0] = a
  BY <1>5 DEF IsRanking
<1>7. ASSUME NEW d \in 1 .. N, f[d - 1] \in S PROVE f[d] = F[f[d - 1]]
  <2>1. d \in 0 .. N /\ d # 0
    BY <1>7
  <2>2. f[d] = RankStep(k, f[d - 1])
    BY <1>5, <2>1 DEF IsRanking
  <2> QED
    BY <1>2, <1>7, <2>2
<1>8. IsRun(f, N, S, a, F)
  BY <1>2, <1>6, <1>7, RunIs
<1>9. \A p \in S : IF H[p] = 0 THEN H[F[p]] = 0 ELSE H[F[p]] < H[p]
  BY <1>2
<1>10. f[N] \in S /\ H[f[N]] = 0
  BY ONLY <1>2, <1>8, <1>9, H \in [S -> Nat], H[a] <= N, a \in S, N \in Nat, RunEnds
<1> QED
  BY <1>5, <1>10

\* Where k is looked up in x, with the keys before x counted.
Ranked(T, V, R, k) ==
    {p \in [id : NodeId, rank : Nat] :
        /\ InBoth(T, V, p.id) /\ k \in R[p.id]
        /\ p.rank = Cardinality(KeysBefore(R[p.id]))}

\* A step of the descent counts the keys it passes.
LEMMA RankStays ==
  ASSUME NEW h, Good(h), NEW T, NEW R, Routed(T, R), ~IsTelling, ~IsSplit,
         NEW V, InnersFilled(V), Counted(V), NEW k, NEW p \in Ranked(T, V, R, k)
  PROVE  /\ RankStep(k, p) \in Ranked(T, V, R, k)
         /\ p.id.kind = "leaf" => RankStep(k, p) = p
         /\ p.id.kind # "leaf" => HeightOf(h, RankStep(k, p).id) = HeightOf(h, p.id) - 1
<1>1. PICK x, q : x = p.id /\ q = p.rank
  OBVIOUS
<1>2. /\ x \in NodeId /\ q \in Nat /\ p = [id |-> x, rank |-> q]
      /\ InBoth(T, V, x) /\ k \in R[x] /\ q = Cardinality(KeysBefore(R[x]))
  BY <1>1 DEF Ranked
<1>3. CASE x.kind = "leaf"
  BY <1>1, <1>3 DEF RankStep
<1>4. CASE x.kind # "leaf"
  <2>1. x.kind = "inner"
    BY <1>2, <1>4 DEF NodeId
  <2>2. PICK n, c : n = inners[x.id] /\ c = LocateChild(n, k)
    OBVIOUS
  <2>3. PICK y : y = n.child[c]
    OBVIOUS
  <2>4. /\ n.aug \in Seq(Nat) /\ DOMAIN n.child = 1 .. Len(n.aug)
        /\ \A j \in DOMAIN n.child :
               /\ InBoth(T, V, n.child[j])
               /\ HeightOf(h, n.child[j]) = HeightOf(h, x) - 1
               /\ Cardinality(KeysBefore(R[n.child[j]]))
                      = Cardinality(KeysBefore(R[x])) + SumBefore(n.aug, j)
    BY <1>2, <2>1, <2>2, KidsCounted
  <2>5. c \in DOMAIN n.child /\ k \in R[y]
    <3>1. PICK i : i = x.id
      OBVIOUS
    <3>2. x = Inner(i) /\ i \in T
      BY <1>2, <2>1, <3>1, KidsInBoth
    <3>3. PICK C : C = NodesAt(Len(leaves), h, h[i] - 1)
      OBVIOUS
    <3>4. IsInner(n, Key, C) /\ R[x] \subseteq Key /\ Routes(n, R[x], R)
      BY <2>2, <3>1, <3>2, <3>3, RangeOf
    <3>5. /\ LocateChild(n, k) \in DOMAIN n.child
          /\ k \in R[n.child[LocateChild(n, k)]]
      BY <1>2, <3>4, RouteDown
    <3> QED
      BY <2>2, <2>3, <3>5
  <2>6. /\ InBoth(T, V, y) /\ y \in NodeId /\ HeightOf(h, y) = HeightOf(h, x) - 1
        /\ Cardinality(KeysBefore(R[y])) = q + SumBefore(n.aug, c)
    BY <1>2, <2>3, <2>4, <2>5 DEF InBoth
  <2>7. PICK e : e = Cardinality(KeysBefore(R[y]))
    OBVIOUS
  <2>8. e \in Nat
    BY <2>7, BeforeFinite
  <2>9. RankStep(k, p) = [id |-> y, rank |-> e]
    BY <1>1, <1>4, <2>2, <2>3, <2>6, <2>7 DEF RankStep, FoldInner, SumBefore
  <2>10. RankStep(k, p) \in Ranked(T, V, R, k)
    BY <2>5, <2>6, <2>7, <2>8, <2>9 DEF Ranked
  <2> QED
    BY <1>1, <1>4, <2>6, <2>9, <2>10
<1> QED
  BY <1>3, <1>4

\* The rank of a key is the number of smaller ones.
LEMMA RankCounts ==
  ASSUME NEW h, Good(h), NEW T, NEW R, Routed(T, R), pc = "idle",
         NEW V, InnersFilled(V), Counted(V), NEW k \in Key
  PROVE  RankOf(k) = Cardinality({x \in StoredKeys : x < k})
<1>1. ~IsTelling /\ ~IsSplit
  BY DEF IsTelling, IsSplit
<1>2. PICK N, a, S : /\ N = Len(inners) /\ a = [id |-> root, rank |-> 0]
                     /\ S = Ranked(T, V, R, k)
  OBVIOUS
<1>3. Current = root
  BY DEF Current, EndOf, Good, Locals
<1>4. root \in NodeId /\ InBoth(T, V, root)
  BY <1>3, CurrentInBoth DEF InBoth
<1>5. R[root] = Key /\ Cardinality(KeysBefore(R[root])) = 0
  BY <1>1, RootOfAll, FS_EmptySet
<1>6. a \in S
  BY <1>2, <1>4, <1>5 DEF Ranked
<1>7. \A p \in S : /\ RankStep(k, p) \in S
                   /\ p.id.kind = "leaf" => RankStep(k, p) = p
                   /\ p.id.kind # "leaf" => HeightOf(h, RankStep(k, p).id) = HeightOf(h, p.id) - 1
  BY <1>1, <1>2, RankStays
<1>8. \A p \in S : /\ HeightOf(h, p.id) \in Nat /\ HeightOf(h, p.id) <= N
                   /\ HeightOf(h, p.id) = 0 <=> p.id.kind = "leaf"
                   /\ N \in Nat
  BY <1>2, HeightIs DEF Ranked, InBoth
<1>9. PICK H : H = [p \in S |-> HeightOf(h, p.id)]
  OBVIOUS
<1>10. H \in [S -> Nat] /\ H[a] <= N /\ N \in Nat
  BY <1>6, <1>8, <1>9
<1>11. \A p \in S : IF H[p] = 0 THEN H[RankStep(k, p)] = 0 ELSE H[RankStep(k, p)] < H[p]
  BY <1>7, <1>8, <1>9
<1>12. \A p \in S : RankStep(k, p) \in S
  BY <1>7
<1>13. \E p \in S : H[p] = 0 /\ RankOf(k) = RankAt(k, p)
  BY ONLY <1>2, <1>6, <1>10, <1>11, <1>12, RankingEnds
<1>14. PICK p \in S : H[p] = 0 /\ RankOf(k) = RankAt(k, p)
  BY <1>13
<1>15. PICK l, q : l = p.id.id /\ q = p.rank
  OBVIOUS
<1>16. /\ p.id = Leaf(l) /\ l \in LeafAlive /\ k \in R[Leaf(l)]
       /\ q = Cardinality(KeysBefore(R[Leaf(l)]))
  <2>1. p.id.kind = "leaf" /\ p.id \in NodeId
    BY <1>2, <1>8, <1>9, <1>14 DEF Ranked
  <2>2. p.id = Leaf(l)
    BY <1>15, <2>1 DEF NodeId, Leaf
  <2> QED
    BY <1>2, <1>14, <1>15, <2>1, <2>2 DEF Ranked, InBoth, InTree
<1>17. Cardinality({x \in StoredKeys : x < k}) = q + LocateSlot(leaves[l], k) - 1
  BY <1>16, RankInLeaf
<1>18. RankAt(k, p) = q + LocateSlot(leaves[l], k) - 1
  BY <1>15 DEF RankAt, FoldLeaf
<1> QED
  BY <1>14, <1>17, <1>18

-----------------------------------------------------------------------------
(* The first and the last entry                                            *)

\* If the tree holds a key, the leaves at its ends do.
LEMMA EndsHoldKeys ==
  ASSUME NEW h, Good(h), NEW T, NEW R, Routed(T, R), ~IsSplit, NEW last \in BOOLEAN,
         StoredKeys # {}, NEW l, l = EndLeaf(last)
  PROVE  /\ l \in LeafAlive /\ HoldsPairs(leaves[l], Range(leaves[l].data))
         /\ leaves[l].data \in Seq(Pair) /\ Len(leaves[l].data) \in Nat \ {0}
<1>1. l \in LeafAlive
  BY EndLeafIs
<1>2. HoldsPairs(leaves[l], Range(leaves[l].data))
  BY <1>1, LeafHolds
<1>3. leaves[l].data \in Seq(Pair)
  BY <1>2 DEF HoldsPairs, Sorted
<1>4. Len(leaves[l].data) \in Nat
  BY <1>3, PairsAt
<1>5. Len(leaves[l].data) # 0
  <2>1. PICK p \in Stored : TRUE
    BY DEF StoredKeys, FirstOf
  <2>2. PICK m \in LeafAlive : p \in Range(leaves[m].data)
    BY DEF Stored, PairsIn
  <2>3. CASE m = l
    BY <1>3, <2>2, <2>3, PairsAt DEF Range
  <2>4. CASE m # l
    <3>1. LeafSize(leaves[l]) > 0
      BY <1>1, <2>4, OthersHoldKeys
    <3> QED
      BY <1>4, <3>1 DEF LeafSize
  <2> QED
    BY <2>3, <2>4
<1> QED
  BY <1>1, <1>2, <1>3, <1>4, <1>5

\* first gives the entry of index 0.
LEMMA FirstIs ==
  ASSUME NEW h, Good(h), NEW T, NEW R, Routed(T, R), EmptyWithoutKeys, ~IsSplit,
         StoredKeys # {}
  PROVE  leaves[FirstLeaf].data[1] = Entries[1]
<1>1. PICK l, d, x : l = FirstLeaf /\ d = leaves[l].data /\ x = R[Leaf(l)]
  OBVIOUS
<1>2. l = EndLeaf(FALSE)
  BY <1>1 DEF EndLeaf
<1>3. l \in LeafAlive /\ d \in Seq(Pair) /\ Len(d) \in Nat \ {0}
  BY <1>1, <1>2, EndsHoldKeys
<1>4. AtEnd(R, Leaf(l), FALSE)
  BY <1>2, EndLeafIs
<1>5. 1 \in 1 .. Len(d) /\ d[1] \in Range(d)
  BY <1>3, PairsAt DEF Range
<1>6. d[1] \in Stored
  BY <1>1, <1>3, <1>5 DEF Stored, PairsIn
<1>7. Under(x) = KeysOf(leaves[l]) /\ StoredKeys \subseteq Key /\ StoredKeys \subseteq Int
  BY <1>1, <1>3, UnderLeaf, StoredFinite
<1>8. d[1][1] \in x
  BY <1>1, <1>3, <1>5, <1>7, PairsAt DEF Under, KeysOf
<1>9. KeysBefore(x) = {}
  <2> SUFFICES ASSUME NEW k \in KeysBefore(x) PROVE FALSE
    OBVIOUS
  <2>1. k \in Key /\ k \in Int /\ (\A s \in x : k < s) /\ k < d[1][1]
    BY <1>7, <1>8 DEF KeysBefore
  <2>2. k \in x
    BY <1>1, <1>4, <1>8, <2>1 DEF AtEnd
  <2>3. k < k
    BY <2>1, <2>2
  <2> QED
    BY <2>1, <2>3
<1>10. Cardinality({k \in StoredKeys : k < d[1][1]}) = Cardinality(KeysBefore(x)) + 1 - 1
  BY <1>1, <1>3, <1>5, IndexInLeaf
<1>11. Cardinality({k \in StoredKeys : k < d[1][1]}) = 0
  BY <1>9, <1>10, FS_EmptySet
<1>12. d[1] = Entries[0 + 1]
  BY <1>6, <1>11, IndexSaysWhere
<1> QED
  BY <1>1, <1>12

\* last gives the entry of the last index.
LEMMA LastIs ==
  ASSUME NEW h, Good(h), NEW T, NEW R, Routed(T, R), EmptyWithoutKeys, ~IsSplit,
         StoredKeys # {}
  PROVE  leaves[LastLeaf].data[LeafSize(leaves[LastLeaf])] = Entries[Cardinality(StoredKeys)]
<1>1. PICK l, d, x : l = LastLeaf /\ d = leaves[l].data /\ x = R[Leaf(l)]
  OBVIOUS
<1>2. l = EndLeaf(TRUE)
  BY <1>1 DEF EndLeaf
<1>3. /\ l \in LeafAlive /\ d \in Seq(Pair) /\ Len(d) \in Nat \ {0}
      /\ HoldsPairs(leaves[l], Range(leaves[l].data))
  BY <1>1, <1>2, EndsHoldKeys
<1>4. AtEnd(R, Leaf(l), TRUE)
  BY <1>2, EndLeafIs
<1>5. PICK n, m, c : /\ n = Len(d) /\ m = Cardinality(KeysBefore(x))
                     /\ c = Cardinality(StoredKeys)
  OBVIOUS
<1>6. n \in 1 .. Len(d) /\ d[n] \in Range(d) /\ n \in Nat \ {0}
  BY <1>3, <1>5, PairsAt DEF Range
<1>7. d[n] \in Stored
  BY <1>1, <1>3, <1>6 DEF Stored, PairsIn
<1>8. /\ Under(x) = KeysOf(leaves[l]) /\ StoredKeys \subseteq Key /\ StoredKeys \subseteq Int
      /\ IsFiniteSet(KeysBefore(x)) /\ IsFiniteSet(Under(x)) /\ m \in Nat
  BY <1>1, <1>3, <1>5, UnderLeaf, StoredFinite, BeforeFinite
<1>9. Cardinality(Under(x)) = n
  BY <1>1, <1>3, <1>5, <1>8, LeafKeysCount
<1>10. x \subseteq Key /\ x \subseteq Int
  <2>1. Leaf(l) \in NodeId
    BY <1>3, LeavesAre, IdsAreNodes
  <2> QED
    BY <1>1, <2>1, KeyAssumption DEF Routed, Routing
<1>11. StoredKeys = KeysBefore(x) \cup Under(x)
  <2>1. ASSUME NEW k \in StoredKeys, k \notin x PROVE k \in KeysBefore(x)
    <3>1. ASSUME NEW s \in x PROVE k < s
      <4>1. ~(s < k)
        BY <1>1, <1>4, <1>8, <2>1 DEF AtEnd
      <4> QED
        BY <1>8, <1>10, <2>1, <4>1
    <3> QED
      BY <3>1 DEF KeysBefore
  <2> QED
    BY <2>1 DEF KeysBefore, Under
<1>12. KeysBefore(x) \cap Under(x) = {}
  <2> SUFFICES ASSUME NEW k \in KeysBefore(x), k \in Under(x) PROVE FALSE
    OBVIOUS
  <2>1. k < k /\ k \in Int
    BY <1>8 DEF KeysBefore, Under
  <2> QED
    BY <2>1
<1>13. c = m + n
  BY <1>5, <1>8, <1>9, <1>11, <1>12, ApartCount
<1>14. Cardinality({k \in StoredKeys : k < d[n][1]}) = m + n - 1
  BY <1>1, <1>3, <1>5, <1>6, IndexInLeaf
<1>15. d[n] = Entries[(m + n - 1) + 1]
  BY <1>7, <1>14, IndexSaysWhere
<1>16. (m + n - 1) + 1 = c
  BY <1>6, <1>8, <1>13
<1> QED
  BY <1>1, <1>5, <1>15, <1>16 DEF LeafSize

-----------------------------------------------------------------------------
(* The count of the root                                                   *)

\* Between calls the root has as many keys under it as the tree has.
LEMMA IdleAug == MapInv /\ pc = "idle" => AugOf(root) = len
<1> SUFFICES ASSUME MapInv, pc = "idle" PROVE AugOf(root) = len
  OBVIOUS
<1>1. PICK h : Good(h)
  BY DEF MapInv
<1>2. PICK T, R : Routed(T, R)
  BY DEF MapInv
<1>3. PICK V : InnersFilled(V) /\ Counted(V)
  BY DEF MapInv
<1>4. ~IsTelling /\ ~IsSplit
  BY DEF IsTelling, IsSplit
<1>5. Current = root
  BY <1>1 DEF Current, EndOf, Good, Locals
<1>6. InBoth(T, V, root) /\ root \in NodeId
  BY <1>1, <1>2, <1>3, <1>5, CurrentInBoth DEF InBoth
<1>7. CountedUnder(R, root)
  BY <1>1, <1>2, <1>3, <1>4, <1>6, CountIsUnder
<1>8. Counts(leaves, inners)[root] = Cardinality(StoredKeys)
  BY <1>1, <1>2, <1>4, <1>7, RootOfAll DEF CountedUnder
<1>9. len = Cardinality(StoredKeys)
  BY <1>1, <1>2, IdleSize DEF MapInv
<1>10. AugOf(root) = Counts(leaves, inners)[root]
  <2>1. CASE root.kind = "inner"
    BY <1>6, <2>1, CountsAre DEF AugOf
  <2>2. CASE root.kind # "inner"
    <3>1. root.id \in LeafAlive
      BY <1>6, <2>2 DEF InBoth, InTree, NodeId
    <3>2. leaves[root.id].data \in Seq(Pair)
      BY <1>1, <3>1, LeavesAre
    <3>3. Len(LeafKeys(leaves[root.id])) = Len(leaves[root.id].data)
      BY <3>2, PairsAt DEF LeafKeys
    <3>4. AugOf(root) = Len(leaves[root.id].data)
      BY <2>2, <3>3 DEF AugOf, FromLeaf
    <3>5. Counts(leaves, inners)[root] = Len(leaves[root.id].data)
      BY <1>6, <2>2, CountsAre
    <3> QED
      BY <3>4, <3>5
  <2> QED
    BY <2>1, <2>2
<1> QED
  BY <1>8, <1>9, <1>10

\* The same of the state after a step.
LEMMA IdleAugNext == (MapInv /\ pc = "idle" => AugOf(root) = len)'
BY IdleAug, PTL

\* A step that changes len, or the count of the root, sets that count anew.
LEMMA RootAugIsSet ==
  ASSUME NEW h, Good(h), NEW T, NEW R, Routed(T, R), [Next]_vars
  PROVE  UNCHANGED <<rootAug, len>> \/ (pc' = "idle" /\ rootAug' = AugOf(root)')
<1>1. CASE UNCHANGED vars
  BY <1>1 DEF vars, tree
<1>2. CASE InsertReturnInserted \/ RemoveReturnDone
  <2>1. UNCHANGED <<root, leaves, inners>> /\ rootAug' = AugOf(root) /\ pc' = "idle"
    BY <1>2 DEF InsertReturnInserted, RemoveReturnDone, Return, store
  <2> QED
    BY <2>1 DEF AugOf
<1>3. CASE InsertReturnSplit
  <2>1. PICK n : n = [keys |-> <<r.k>>, child |-> <<root, r.right>>,
                      aug |-> <<AugOf(root), AugOf(r.right)>>]
    OBVIOUS
  <2>2. /\ inners' = Append(inners, n) /\ rootAug' = FromInner(n.aug)
        /\ root' = Inner(Len(inners) + 1) /\ pc' = "idle"
    BY <1>3, <2>1 DEF InsertReturnSplit, Return
  <2>3. inners \in Seq(InnerRec)
    BY DEF Good, StoreOK
  <2>4. inners'[Len(inners) + 1] = n
    BY <2>2, <2>3, AppendProperties
  <2> QED
    BY <2>2, <2>4 DEF AugOf, Inner
<1>4. CASE RemoveReturnInnerUnderSize
  <2>1. UNCHANGED <<leaves, inners>> /\ rootAug' = AugOf(root') /\ pc' = "idle"
    BY <1>4 DEF RemoveReturnInnerUnderSize, Return, store
  <2> QED
    BY <2>1 DEF AugOf
<1>5. CASE RemoveReturnLeafUnderSize
  <2>1. PICK leaf : leaf = DeleteAt(leaves[root.id], r.slot)
    OBVIOUS
  <2>2. /\ leaves' = [leaves EXCEPT ![root.id] = leaf] /\ root' = root /\ pc' = "idle"
        /\ rootAug' = FromLeaf(LeafKeys(leaf)) /\ stack = <<>>
        /\ pc = "remove_ascend" /\ r.tag = "LeafUnderSize"
    BY <1>5, <2>1 DEF RemoveReturnLeafUnderSize, Return, AtRoot
  <2>3. root.kind = "leaf" /\ root.id \in DOMAIN leaves
    <3>1. Current = root /\ root.kind = "leaf"
      BY <2>2, RootIsCurrent, RemoveFields
    <3>2. root.id \in LeafAlive
      BY <3>1, CurrentIsNode DEF InTree
    <3> QED
      BY <3>1, <3>2 DEF LeafAlive
  <2>4. leaves'[root.id] = leaf
    BY <2>2, <2>3
  <2> QED
    BY <2>2, <2>3, <2>4 DEF AugOf
<1>6. CASE Clear
  <2>1. leaves' = <<EmptyLeaf>> /\ root' = Leaf(1) /\ rootAug' = 0 /\ pc' = "idle"
    BY <1>6 DEF Clear, Return
  <2>2. FromLeaf(LeafKeys(EmptyLeaf)) = 0
    BY DEF FromLeaf, LeafKeys, EmptyLeaf
  <2> QED
    BY <2>1, <2>2 DEF AugOf, Leaf
<1>7. CASE \/ \E k \in Key, v \in Value : InsertCall(k, v) \/ GetMutCall(k, v) \/ GetMutCached(k, v)
           \/ \E k \in Key : RemoveCall(k) \/ GetCall(k) \/ GetCached(k)
           \/ \E i \in 0 .. len : RemoveByAugmentationCall(i)
           \/ \E i \in 0 .. len, v \in Value : GetMutByAugmentationCall(i, v)
  BY <1>7 DEF InsertCall, GetMutCall, GetMutCached, RemoveCall, GetCall, GetCached,
              RemoveByAugmentationCall, GetMutByAugmentationCall, Enter, tree
<1>8. CASE \/ InsertDescend
           \/ InsertLeafUpdate \/ InsertLeafInsert \/ InsertLeafSplit
           \/ InsertAscendSlot \/ InsertAscendSplit
           \/ InsertAscendInserted \/ InsertAscendUpdated
           \/ InsertReturnUpdated
  BY <1>8 DEF InsertDescend, InsertLeafUpdate, InsertLeafInsert, InsertLeafSplit,
              InsertAscendSlot, InsertAscendSplit, InsertAscendInserted, InsertAscendUpdated,
              InsertReturnUpdated, Push, tree
<1>9. CASE \/ KeyToRefDescend \/ KeyToRefMissing
           \/ AugmentationDescend \/ AugmentationMissing
           \/ RemoveInLeaf \/ RemoveAscendDone
           \/ RotateRightInner \/ RotateLeftInner \/ MergeInner
           \/ RotateRightLeaf \/ RotateLeftLeaf \/ MergeLeafLeft \/ MergeLeafRight
  BY <1>9 DEF KeyToRefDescend, KeyToRefMissing, AugmentationDescend, AugmentationMissing,
              RemoveInLeaf, RemoveAscendDone, RotateRightInner, RotateLeftInner, MergeInner,
              RotateRightLeaf, RotateLeftLeaf, MergeLeafLeft, MergeLeafRight,
              MergeLeaves, Push, tree
<1>10. CASE FindStep
  BY <1>10 DEF FindStep, FindDescend, FindInLeaf, GetMutInLeaf, tree
<1> QED
  BY <1>1, <1>2, <1>3, <1>4, <1>5, <1>6, <1>7, <1>8, <1>9, <1>10
     DEF Next, Call, Step, InsertStep, RemoveStep

-----------------------------------------------------------------------------
(* The order statistics                                                    *)

\* What OrderStatistics rests on.
StatisticsInv == MapInv /\ EmptyWithoutKeys /\ rootAug = len

\* It holds of an empty tree, and every step keeps it.
LEMMA StatisticsInvHolds == Spec => []StatisticsInv
<1>1. Init => StatisticsInv
  BY InitMaps DEF StatisticsInv, Init, EmptyWithoutKeys
<1>2. StatisticsInv /\ [Next]_vars => StatisticsInv'
  <2> SUFFICES ASSUME StatisticsInv, [Next]_vars PROVE StatisticsInv'
    OBVIOUS
  <2>1. PICK h : Good(h)
    BY DEF StatisticsInv, MapInv
  <2>2. PICK T, R : Routed(T, R)
    BY DEF StatisticsInv, MapInv
  <2>3. MapInv'
    BY NextMaps DEF StatisticsInv
  <2>4. EmptyWithoutKeys'
    BY <2>1, <2>2, EmptyWithoutKeysKept DEF StatisticsInv
  <2>5. rootAug' = len'
    BY <2>1, <2>2, <2>3, RootAugIsSet, IdleAugNext DEF StatisticsInv
  <2> QED
    BY <2>3, <2>4, <2>5 DEF StatisticsInv
<1> QED
  BY <1>1, <1>2, PTL DEF Spec

\* Between calls the queries answer by the entries along the chain.
LEMMA StatisticsAreRight == StatisticsInv => OrderStatistics
<1> SUFFICES ASSUME StatisticsInv, pc = "idle" PROVE OrderStatistics
  BY DEF OrderStatistics
<1>1. PICK h : Good(h)
  BY DEF StatisticsInv, MapInv
<1>2. PICK T, R : Routed(T, R)
  BY DEF StatisticsInv, MapInv
<1>3. PICK V : InnersFilled(V) /\ Counted(V)
  BY DEF StatisticsInv, MapInv
<1>4. EmptyWithoutKeys /\ rootAug = len /\ SizeRight /\ ~IsSplit
  BY DEF StatisticsInv, MapInv, IsSplit
<1>5. len = Cardinality(StoredKeys) /\ len \in Nat
  BY <1>1, <1>2, <1>4, IdleSize
<1>6. PICK es : es = Entries
  OBVIOUS
<1>7. len = Len(es)
  BY <1>1, <1>2, <1>4, <1>5, <1>6, EntriesAre
<1>8. ASSUME NEW i \in 0 .. len - 1 PROVE GetByIndex(i) = es[i + 1]
  <2>1. i \in Nat /\ i < len
    BY <1>5
  <2> QED
    BY <1>1, <1>2, <1>3, <1>4, <1>5, <1>6, <2>1, IndexFinds
<1>9. GetByIndex(len) = None
  BY <1>1, <1>2, <1>3, <1>5, IndexMisses
<1>10. ASSUME NEW k \in Key
       PROVE  RankOf(k) = Cardinality({n \in 1 .. len : es[n][1] < k})
  <2>1. RankOf(k) = Cardinality({x \in StoredKeys : x < k})
    BY <1>1, <1>2, <1>3, RankCounts
  <2>2. Cardinality({n \in 1 .. Len(Entries) : Entries[n][1] < k})
            = Cardinality({x \in StoredKeys : x < k})
    BY <1>1, <1>2, <1>4, RankByPosition
  <2> QED
    BY <1>6, <1>7, <2>1, <2>2
<1>11. len # 0 => StoredKeys # {}
  BY <1>5, FS_EmptySet
<1>12. FirstEntry = GetByIndex(0)
  <2>1. CASE len = 0
    BY <1>9, <2>1 DEF FirstEntry
  <2>2. CASE len # 0
    <3>1. 0 \in 0 .. len - 1
      BY <1>5, <2>2
    <3>2. GetByIndex(0) = es[0 + 1]
      BY <1>8, <3>1
    <3>3. leaves[FirstLeaf].data[1] = es[1]
      BY <1>1, <1>2, <1>4, <1>6, <1>11, <2>2, FirstIs
    <3> QED
      BY <2>2, <3>2, <3>3 DEF FirstEntry
  <2> QED
    BY <2>1, <2>2
<1>13. LastEntry = IF len = 0 THEN None ELSE GetByIndex(len - 1)
  <2>1. CASE len = 0
    BY <2>1 DEF LastEntry
  <2>2. CASE len # 0
    <3>1. len - 1 \in 0 .. len - 1 /\ (len - 1) + 1 = len
      BY <1>5, <2>2
    <3>2. GetByIndex(len - 1) = es[(len - 1) + 1]
      BY <1>8, <3>1
    <3>3. leaves[LastLeaf].data[LeafSize(leaves[LastLeaf])] = es[len]
      BY <1>1, <1>2, <1>4, <1>5, <1>6, <1>11, <2>2, LastIs
    <3> QED
      BY <2>2, <3>1, <3>2, <3>3 DEF LastEntry
  <2> QED
    BY <2>1, <2>2
<1> QED
  BY <1>4, <1>6, <1>7, <1>8, <1>9, <1>10, <1>12, <1>13 DEF OrderStatistics

(***************************************************************************)
(* Index and rank agree with the order of iteration, at any size: get by   *)
(* index, rank, first and last, and the count beside the root.             *)
(***************************************************************************)
THEOREM OrderStatisticsHold == Spec => []OrderStatistics
BY StatisticsInvHolds, StatisticsAreRight, PTL

-----------------------------------------------------------------------------
(* The routes from the root down                                           *)

\* The half of x that gets k, where x has just been split.
HalfFor(k, x) == IF IsSplit /\ x = Current /\ r.k <= k THEN r.right ELSE x

\* The next node on the route of k.
RouteStep(k, x) == IF x.kind = "leaf" THEN x
                   ELSE HalfFor(k, inners[x.id].child[LocateChild(inners[x.id], k)])

\* f is the route of k.
IsRouting(f, k) ==
    f = [d \in 0 .. Len(inners) |-> IF d = 0 THEN HalfFor(k, root) ELSE RouteStep(k, f[d - 1])]

\* RouteOf takes the nodes of a route, if there is one.
LEMMA RouteOfIs ==
  ASSUME NEW k, \E f : IsRouting(f, k)
  PROVE  \E f : IsRouting(f, k) /\ RouteOf(k) = Range(f)
<1>1. PICK f : f = CHOOSE g : IsRouting(g, k)
  OBVIOUS
<1>2. IsRouting(f, k)
  BY <1>1
<1>3. RouteOf(k) = Range(CHOOSE g : IsRouting(g, k))
  BY DEF RouteOf, IsRouting, RouteStep, HalfFor
<1> QED
  BY <1>1, <1>2, <1>3

\* The nodes of the tree that get k.
NodesFor(T, R, k) == {x \in NodeId : InTree(T, x) /\ k \in R[x]}

\* Of the two halves of a node, one gets k.
LEMMA HalfGets ==
  ASSUME NEW h, Good(h), NEW T, NEW R, Routed(T, R), NEW k,
         NEW x \in NodeId, InTree(T, x), k \in Known(R)[x]
  PROVE  /\ HalfFor(k, x) \in NodesFor(T, R, k)
         /\ HeightOf(h, HalfFor(k, x)) = HeightOf(h, x)
         /\ HalfFor(k, x) = x \/ (IsSplit /\ HalfFor(k, x) = r.right /\ x = Current)
<1>1. R \in Routing
  BY DEF Routed
<1>2. CASE IsSplit /\ x = Current
  <2>1. k \in R[Current] \cup R[r.right]
    BY <1>1, <1>2, KnownIs
  <2>2. Separates(r.k, R[Current], R[r.right])
    BY <1>2 DEF Routed, InOrder, KeysShared
  <2>3. r.right \in NodesOf(T)
    BY <1>2 DEF NodesOf, Orphans
  <2>4. r.right \in NodeId /\ InTree(T, r.right)
    BY <2>3, NodesOfTree
  <2>5. R[Current] \subseteq Int /\ R[r.right] \subseteq Int
    BY <1>1, <1>2, <2>4, KeyAssumption DEF Routing
  <2>6. r.k <= k => k \in R[r.right]
    BY <2>1, <2>2, <2>5 DEF Separates
  <2>7. ~(r.k <= k) => k \in R[Current]
    BY <2>1, <2>2, <2>5 DEF Separates
  <2>8. HeightOf(h, r.right) = HeightOf(h, Current)
    <3>1. IsAt(h, r.right, HeightOf(h, Current))
      BY <1>2 DEF Good, ResultOK, IsSplit
    <3>2. HeightOf(h, Current) \in Nat
      BY <1>2, HeightIs
    <3> QED
      BY <3>1, <3>2 DEF IsAt, NodesAt, HeightOf, Leaf, Inner, Good, StoreOK
  <2> QED
    BY <1>2, <2>4, <2>6, <2>7, <2>8 DEF HalfFor, NodesFor
<1>3. CASE ~(IsSplit /\ x = Current)
  <2>1. k \in R[x]
    BY <1>1, <1>3, KnownIs
  <2> QED
    BY <1>3, <2>1 DEF HalfFor, NodesFor
<1> QED
  BY <1>2, <1>3

\* A step of the route, at an inner node, goes down to a child or its right half.
LEMMA RouteGoesDown ==
  ASSUME NEW h, Good(h), NEW T, NEW R, Routed(T, R), NEW k, NEW x \in NodesFor(T, R, k),
         x.kind # "leaf"
  PROVE  /\ RouteStep(k, x) \in NodesFor(T, R, k)
         /\ HeightOf(h, RouteStep(k, x)) = HeightOf(h, x) - 1
         /\ x.id \in T /\ x = Inner(x.id)
         /\ \E c \in KidsOf(inners, x.id) :
                \/ RouteStep(k, x) = c
                \/ IsSplit /\ RouteStep(k, x) = r.right /\ c = Current
<1>1. x.id \in T /\ x = Inner(x.id) /\ k \in R[Inner(x.id)]
  BY DEF NodesFor, InTree, NodeId, Inner
<1>2. PICK i, n : i = x.id /\ n = inners[i]
  OBVIOUS
<1>3. PICK C : C = NodesAt(Len(leaves), h, h[i] - 1)
  OBVIOUS
<1>4. /\ IsInner(n, Key, C) /\ R[Inner(i)] \subseteq Key /\ Routes(n, R[Inner(i)], Known(R))
      /\ i \in DOMAIN inners
  BY <1>1, <1>2, <1>3, RangeOf
<1>5. PICK j : j = LocateChild(n, k)
  OBVIOUS
<1>6. j \in DOMAIN n.child /\ k \in Known(R)[n.child[j]]
  BY <1>1, <1>2, <1>4, <1>5, RouteDown
<1>7. PICK c : c = n.child[j]
  OBVIOUS
<1>8. c \in KidsOf(inners, i) /\ k \in Known(R)[c]
  BY <1>2, <1>6, <1>7 DEF KidsOf, Range
<1>9. c \in NodeId /\ InTree(T, c)
  BY <1>1, <1>2, <1>8, NodesOfTree DEF NodesOf
<1>10. HeightOf(h, c) = h[i] - 1
  <2>1. c \in C
    BY <1>4, <1>6, <1>7, ElementOfSeq DEF IsInner
  <2>2. h[i] \in 1 .. Len(inners)
    BY <1>4 DEF Good, StoreOK
  <2> QED
    BY <1>3, <2>1, <2>2 DEF NodesAt, HeightOf, Leaf, Inner, Good, StoreOK
<1>11. RouteStep(k, x) = HalfFor(k, c)
  BY <1>2, <1>5, <1>7 DEF RouteStep
<1>12. HeightOf(h, x) = h[i]
  BY <1>2 DEF HeightOf
<1>13. /\ HalfFor(k, c) \in NodesFor(T, R, k)
       /\ HeightOf(h, HalfFor(k, c)) = HeightOf(h, c)
       /\ HalfFor(k, c) = c \/ (IsSplit /\ HalfFor(k, c) = r.right /\ c = Current)
  BY <1>8, <1>9, HalfGets
<1> QED
  BY <1>1, <1>2, <1>8, <1>10, <1>11, <1>12, <1>13

\* RouteOf is a route, within the nodes that get the key, from the root to a leaf.
LEMMA RouteRuns ==
  ASSUME NEW h, Good(h), NEW T, NEW R, Routed(T, R), NEW k \in Key
  PROVE  \E f : /\ RouteOf(k) = Range(f) /\ DOMAIN f = 0 .. Len(inners)
                /\ Len(inners) \in Nat
                /\ f[0] = HalfFor(k, root) /\ k \in Known(R)[root]
                /\ \A d \in 1 .. Len(inners) : f[d] = RouteStep(k, f[d - 1])
                /\ \A d \in 0 .. Len(inners) : f[d] \in NodesFor(T, R, k)
                /\ f[Len(inners)].kind = "leaf"
<1>1. PICK N, S, a : N = Len(inners) /\ S = NodesFor(T, R, k) /\ a = HalfFor(k, root)
  OBVIOUS
<1>2. root \in NodeId /\ InTree(T, root) /\ k \in Known(R)[root]
  BY DEF Good, Scalars, Routed, InOrder, KeysShared, LeavesKnown, Orphans
<1>3. a \in S
  BY <1>1, <1>2, HalfGets
<1>4. PICK F : F = [x \in S |-> RouteStep(k, x)]
  OBVIOUS
<1>5. \A x \in S : /\ RouteStep(k, x) \in S
                   /\ x.kind = "leaf" => RouteStep(k, x) = x
                   /\ x.kind # "leaf" => HeightOf(h, RouteStep(k, x)) = HeightOf(h, x) - 1
  <2> SUFFICES ASSUME NEW x \in S
               PROVE  /\ RouteStep(k, x) \in S
                      /\ x.kind = "leaf" => RouteStep(k, x) = x
                      /\ x.kind # "leaf" => HeightOf(h, RouteStep(k, x)) = HeightOf(h, x) - 1
    OBVIOUS
  <2>1. CASE x.kind = "leaf"
    BY <2>1 DEF RouteStep
  <2>2. CASE x.kind # "leaf"
    BY <1>1, <2>2, RouteGoesDown
  <2> QED
    BY <2>1, <2>2
<1>6. \A x \in S : /\ HeightOf(h, x) \in Nat /\ HeightOf(h, x) <= N
                   /\ HeightOf(h, x) = 0 <=> x.kind = "leaf"
  BY <1>1, HeightIs DEF NodesFor
<1>7. N \in Nat
  BY <1>1, <1>2, HeightIs
<1>8. PICK H : H = [x \in S |-> HeightOf(h, x)]
  OBVIOUS
<1>9. H \in [S -> Nat] /\ H[a] <= N /\ F \in [S -> S]
  BY <1>3, <1>4, <1>5, <1>6, <1>8
<1>10. \A x \in S : IF H[x] = 0 THEN H[F[x]] = 0 ELSE H[F[x]] < H[x]
  BY <1>4, <1>5, <1>6, <1>8
<1>11. \E f : IsRun(f, N, S, a, F)
  BY <1>3, <1>7, <1>9, Iterated
<1>12. \E f : IsRouting(f, k)
  <2>1. PICK f : IsRun(f, N, S, a, F)
    BY <1>11
  <2>2. f \in [0 .. N -> S] /\ f[0] = a /\ \A d \in 1 .. N : f[d] = F[f[d - 1]]
    BY <2>1 DEF IsRun
  <2>3. ASSUME NEW d \in 0 .. N
        PROVE  f[d] = IF d = 0 THEN HalfFor(k, root) ELSE RouteStep(k, f[d - 1])
    <3>1. CASE d = 0
      BY <1>1, <2>2, <3>1
    <3>2. CASE d # 0
      <4>1. d \in 1 .. N /\ d - 1 \in 0 .. N
        BY <1>7, <3>2
      <4> QED
        BY <1>4, <2>2, <3>2, <4>1
    <3> QED
      BY <3>1, <3>2
  <2>4. f = [d \in 0 .. N |-> IF d = 0 THEN HalfFor(k, root) ELSE RouteStep(k, f[d - 1])]
    BY <2>2, <2>3
  <2> QED
    BY <1>1, <2>4 DEF IsRouting
<1>13. PICK f : IsRouting(f, k) /\ RouteOf(k) = Range(f)
  BY <1>12, RouteOfIs
<1>14. /\ f = [d \in 0 .. N |-> f[d]] /\ f[0] = a /\ DOMAIN f = 0 .. N
       /\ \A d \in 1 .. N : f[d] = RouteStep(k, f[d - 1])
  BY <1>1, <1>7, <1>13 DEF IsRouting
<1>15. \A d \in 1 .. N : f[d - 1] \in S => f[d] = F[f[d - 1]]
  BY <1>4, <1>14
<1>16. IsRun(f, N, S, a, F)
  BY <1>3, <1>7, <1>9, <1>14, <1>15, RunIs
<1>17. f[N] \in S /\ H[f[N]] = 0
  BY ONLY <1>3, <1>7, <1>9, <1>10, <1>16, RunEnds
<1>18. f[N].kind = "leaf"
  BY <1>6, <1>8, <1>17
<1>19. \A d \in 0 .. N : f[d] \in S
  BY <1>16 DEF IsRun
<1> QED
  BY <1>1, <1>2, <1>7, <1>13, <1>14, <1>18, <1>19

\* The one parent of a node that is not the root, as a step of a route sees it.
LEMMA OneStepTo ==
  ASSUME NEW h, Good(h), NEW T, NEW R, Routed(T, R), NEW k,
         NEW x \in NodesFor(T, R, k), x.kind # "leaf"
  PROVE  /\ RouteStep(k, x) # HalfFor(k, root) \/ k \notin Known(R)[root]
         /\ \A z \in NodesFor(T, R, k) :
                z.kind # "leaf" /\ RouteStep(k, z) = RouteStep(k, x) => z = x
<1>1. PICK y : y = RouteStep(k, x)
  OBVIOUS
<1>2. PICK c \in KidsOf(inners, x.id) :
          y = c \/ (IsSplit /\ y = r.right /\ c = Current)
  BY <1>1, RouteGoesDown
<1>3. x.id \in T /\ x = Inner(x.id)
  BY RouteGoesDown
<1>4. \A i \in T : root \notin KidsOf(inners, i) /\ (IsSplit => r.right \notin KidsOf(inners, i))
  BY DEF Routed, InnersFilled, Owned, Orphans, KidsOf
<1>5. \A i, j \in T : i # j => KidsOf(inners, i) \cap KidsOf(inners, j) = {}
  BY DEF Routed, InnersFilled, Owned, KidsOf
<1>6. IsSplit => r.right # root
  BY DEF Routed, InnersFilled
<1>7. root \in NodeId /\ InTree(T, root)
  BY DEF Good, Scalars, Routed, InOrder, LeavesKnown, Orphans
<1>8. y # HalfFor(k, root) \/ k \notin Known(R)[root]
  <2> SUFFICES ASSUME y = HalfFor(k, root), k \in Known(R)[root] PROVE FALSE
    OBVIOUS
  <2>1. y = root \/ (IsSplit /\ y = r.right /\ root = Current)
    BY <1>7, HalfGets
  <2> QED
    BY <1>2, <1>3, <1>4, <1>6, <2>1
<1>9. ASSUME NEW z \in NodesFor(T, R, k), z.kind # "leaf", RouteStep(k, z) = y PROVE z = x
  <2>1. z.id \in T /\ z = Inner(z.id)
    BY <1>9, RouteGoesDown
  <2>2. PICK e \in KidsOf(inners, z.id) :
            y = e \/ (IsSplit /\ y = r.right /\ e = Current)
    BY <1>9, RouteGoesDown
  <2>3. e = c
    BY <1>2, <1>3, <1>4, <2>1, <2>2
  <2>4. z.id = x.id
    BY <1>2, <1>3, <1>5, <2>1, <2>2, <2>3
  <2> QED
    BY <1>3, <2>1, <2>4
<1> QED
  BY <1>1, <1>8, <1>9

\* The route of a key meets every node of the tree that gets it.
LEMMA RouteMeets ==
  ASSUME NEW h, Good(h), NEW T, NEW R, Routed(T, R), NEW k \in Key, NEW x \in NodesFor(T, R, k)
  PROVE  x \in RouteOf(k)
<1>1. PICK f : /\ RouteOf(k) = Range(f) /\ DOMAIN f = 0 .. Len(inners)
               /\ Len(inners) \in Nat
               /\ f[0] = HalfFor(k, root) /\ k \in Known(R)[root]
               /\ \A d \in 1 .. Len(inners) : f[d] = RouteStep(k, f[d - 1])
               /\ \A d \in 0 .. Len(inners) : f[d] \in NodesFor(T, R, k)
               /\ f[Len(inners)].kind = "leaf"
  BY RouteRuns
<1>2. PICK N, S : N = Len(inners) /\ S = NodesFor(T, R, k)
  OBVIOUS
<1>3. N \in Nat /\ DOMAIN f = 0 .. N /\ f[N] \in S /\ f[N].kind = "leaf"
  BY <1>1, <1>2
<1>4. \A y \in S : /\ HeightOf(h, y) \in Nat /\ HeightOf(h, y) <= N
                   /\ HeightOf(h, y) = 0 <=> y.kind = "leaf"
  BY <1>2, HeightIs DEF NodesFor
<1> DEFINE A == {n \in 0 .. N : \A y \in S : HeightOf(h, y) = n => y \in Range(f)}
<1>5. 0 \in A
  <2> SUFFICES ASSUME NEW y \in S, HeightOf(h, y) = 0 PROVE y \in Range(f)
    BY <1>3
  <2>1. y.kind = "leaf"
    BY <1>4
  <2>2. PICK l, m : l = y.id /\ m = f[N].id
    OBVIOUS
  <2>3. /\ y = Leaf(l) /\ l \in LeafAlive /\ k \in R[Leaf(l)]
        /\ f[N] = Leaf(m) /\ m \in LeafAlive /\ k \in R[Leaf(m)]
    BY <1>2, <1>3, <2>1, <2>2 DEF NodesFor, NodeId, Leaf, InTree
  <2>4. l = m
    BY <2>3, RoutedMeans
  <2> QED
    BY <1>3, <2>3, <2>4 DEF Range
<1>6. ASSUME NEW n \in 1 .. N, n - 1 \in A PROVE n \in A
  <2> SUFFICES ASSUME NEW y \in S, HeightOf(h, y) = n PROVE y \in Range(f)
    BY <1>3
  <2>1. y.kind # "leaf"
    BY <1>4
  <2>2. PICK z : z = RouteStep(k, y)
    OBVIOUS
  <2>3. z \in S /\ HeightOf(h, z) = n - 1
    BY <1>2, <2>1, <2>2, RouteGoesDown
  <2>4. z \in Range(f)
    BY <1>6, <2>3
  <2> DEFINE B == {d \in 0 .. N : f[d] = z}
  <2>5. B # {} /\ B \subseteq Nat
    BY <1>3, <2>4 DEF Range
  <2> HIDE DEF B
  <2>6. PICK d \in B : \A e \in B : d <= e
    BY <2>5, LeastNat
  <2>7. d \in 0 .. N /\ f[d] = z
    BY <2>6 DEF B
  <2>8. z # f[0]
    BY <1>1, <1>2, <2>1, <2>2, OneStepTo
  <2>9. d \in 1 .. N /\ d - 1 \in 0 .. N /\ ~(d <= d - 1)
    <3>1. d # 0
      BY <2>7, <2>8
    <3> QED
      BY <1>3, <2>7, <3>1
  <2>10. PICK w : w = f[d - 1]
    OBVIOUS
  <2>11. w \in S /\ z = RouteStep(k, w)
    BY <1>1, <1>2, <2>7, <2>9, <2>10
  <2>12. w.kind # "leaf"
    <3> SUFFICES ASSUME w.kind = "leaf" PROVE FALSE
      OBVIOUS
    <3>1. w = z
      BY <2>11 DEF RouteStep
    <3>2. d - 1 \in B
      BY <2>9, <2>10, <3>1 DEF B
    <3> QED
      BY <2>6, <2>9, <3>2
  <2>13. w = y
    BY <1>2, <2>1, <2>2, <2>11, <2>12, OneStepTo
  <2> QED
    BY <1>3, <2>9, <2>10, <2>13 DEF Range
<1> HIDE DEF A
<1>7. 0 .. N \subseteq A
  BY <1>3, <1>5, <1>6, CountUp
<1>8. PICK n : n = HeightOf(h, x)
  OBVIOUS
<1>9. n \in 0 .. N /\ x \in S
  BY <1>2, <1>3, <1>4, <1>8
<1>10. n \in A
  BY <1>7, <1>9
<1> QED
  BY <1>1, <1>8, <1>9, <1>10 DEF A

\* Ranges is what the routes say of the nodes of the tree, and nothing of others.
LEMMA RangesAre ==
  ASSUME NEW h, Good(h), NEW T, NEW R, Routed(T, R)
  PROVE  \A x \in Ids : Ranges[x] = IF InTree(T, x) THEN R[x] ELSE {}
<1> SUFFICES ASSUME NEW x \in Ids PROVE Ranges[x] = IF InTree(T, x) THEN R[x] ELSE {}
  OBVIOUS
<1>1. x \in NodeId
  BY IdsAre
<1>2. R[x] \subseteq Key
  BY <1>1 DEF Routed, Routing
<1>3. Ranges[x] = {k \in Key : x \in RouteOf(k)}
  <2>1. PICK routes : routes = {[key |-> k, nodes |-> RouteOf(k)] : k \in Key}
    OBVIOUS
  <2>2. Ranges[x] = {route.key : route \in {m \in routes : x \in m.nodes}}
    BY <2>1 DEF Ranges, Ids
  <2>3. ASSUME NEW k \in Key, x \in RouteOf(k) PROVE k \in Ranges[x]
    <3>1. PICK m : m = [key |-> k, nodes |-> RouteOf(k)]
      OBVIOUS
    <3>2. m \in routes /\ m.key = k /\ x \in m.nodes
      BY <2>1, <2>3, <3>1
    <3> QED
      BY <2>2, <3>2
  <2>4. ASSUME NEW k \in Ranges[x] PROVE k \in Key /\ x \in RouteOf(k)
    <3>1. PICK m \in routes : x \in m.nodes /\ k = m.key
      BY <2>2
    <3>2. PICK j \in Key : m = [key |-> j, nodes |-> RouteOf(j)]
      BY <2>1
    <3> QED
      BY <3>1, <3>2
  <2> QED
    BY <2>3, <2>4
<1>4. ASSUME NEW k \in Key PROVE x \in RouteOf(k) <=> InTree(T, x) /\ k \in R[x]
  <2>1. ASSUME x \in RouteOf(k) PROVE x \in NodesFor(T, R, k)
    BY <2>1, RouteRuns DEF Range
  <2>2. ASSUME x \in NodesFor(T, R, k) PROVE x \in RouteOf(k)
    BY <2>2, RouteMeets
  <2> QED
    BY <1>1, <2>1, <2>2 DEF NodesFor
<1> QED
  BY <1>2, <1>3, <1>4

\* An inner node that has a key gets keys.
LEMMA KeyedGets ==
  ASSUME NEW h, Good(h), NEW T, NEW R, Routed(T, R), NEW i \in T, InnerSize(inners[i]) >= 1
  PROVE  R[Inner(i)] # {}
<1>1. PICK n, C : n = inners[i] /\ C = NodesAt(Len(leaves), h, h[i] - 1)
  OBVIOUS
<1>2. IsInner(n, Key, C) /\ Routes(n, R[Inner(i)], Known(R))
  BY <1>1, RangeOf
<1>3. 1 \in DOMAIN n.keys /\ 1 + 1 \in DOMAIN n.child
  BY <1>1, <1>2, NodeParts DEF InnerSize
<1>4. n.keys[1] \in Known(R)[n.child[1 + 1]]
  BY <1>2, <1>3 DEF Routes, Separates
<1>5. n.child[1 + 1] \in Range(n.child)
  BY <1>3 DEF Range
<1> QED
  BY <1>2, <1>4, <1>5 DEF Routes

\* Every inner node of the tree gets keys, even one that was just left with a single child.
LEMMA NodesGetKeys ==
  ASSUME NEW h, Good(h), NEW T, NEW R, Routed(T, R), NEW i \in T
  PROVE  R[Inner(i)] # {}
<1>1. CASE InnerSize(inners[i]) >= 1
  BY <1>1, KeyedGets
<1>2. CASE ~(InnerSize(inners[i]) >= 1)
  <2>1. i \in DOMAIN inners /\ InnerSize(inners[i]) \in Nat
    BY RangeOf, NodeParts DEF InnerSize
  <2>2. ~IsReported(i) => FALSE
    <3> SUFFICES ASSUME ~IsReported(i) PROVE FALSE
      OBVIOUS
    <3>1. InnerSize(inners[i]) >= Least(i, root)
      BY FullIfQuiet DEF Routed
    <3>2. Least(i, root) \in Nat /\ Least(i, root) >= 1
      BY MinimumIs DEF Least
    <3> QED
      BY <1>2, <2>1, <3>1, <3>2
  <2>3. pc = "remove_ascend" /\ Current = Inner(i) /\ ~IsSplit
    BY <2>2 DEF IsReported, IsSplit
  <2>4. PICK n, C : n = inners[i] /\ C = NodesAt(Len(leaves), h, h[i] - 1)
    OBVIOUS
  <2>5. IsInner(n, Key, C) /\ Routes(n, R[Inner(i)], R)
    BY <2>3, <2>4, RangeOf
  <2>6. 1 \in DOMAIN n.child
    BY <2>1, <2>4, <2>5, NodeParts DEF InnerSize
  <2>7. PICK c : c = n.child[1]
    OBVIOUS
  <2>8. c \in KidsOf(inners, i) /\ c \in Range(n.child)
    BY <2>4, <2>6, <2>7 DEF KidsOf, Range
  <2>9. /\ c \in NodeId /\ InTree(T, c) /\ c # Inner(i) /\ c \in Ids
        /\ c # root
    <3>1. c \in NodesOf(T)
      BY <2>8 DEF NodesOf
    <3>2. c # root
      BY <2>4, <2>8 DEF Routed, InnersFilled, Owned, Orphans
    <3> QED
      BY <2>1, <2>8, <3>1, <3>2, NodesOfTree, KidInIds
  <2>10. CASE c.kind = "leaf"
    <3>1. PICK l : l = c.id
      OBVIOUS
    <3>2. c = Leaf(l) /\ l \in LeafAlive
      BY <2>9, <2>10, <3>1 DEF InTree, NodeId, Leaf
    <3>3. LeafSize(leaves[l]) >= LEAF_MIN
      BY <2>9, <3>2 DEF Routed, InOrder, LeavesFilled
    <3>4. l \in DOMAIN leaves /\ LeafSize(leaves[l]) \in Nat
      BY <3>2, LeavesAre
    <3>5. LeafSize(leaves[l]) > 0
      BY <3>3, <3>4, LeafMinimumIs
    <3>6. KeysOf(leaves[l]) # {}
      BY <3>4, <3>5, SizeMeansKeys
    <3>7. KeysOf(leaves[l]) \subseteq R[c]
      BY <3>2 DEF Routed, InOrder, LeavesHold
    <3> QED
      BY <2>5, <2>8, <3>6, <3>7 DEF Routes
  <2>11. CASE c.kind # "leaf"
    <3>1. PICK j : j = c.id
      OBVIOUS
    <3>2. j \in T /\ c = Inner(j)
      BY <2>9, <2>11, <3>1 DEF InTree, NodeId, Inner
    <3>3. ~IsReported(j)
      BY <2>3, <2>9, <3>2 DEF IsReported
    <3>4. InnerSize(inners[j]) >= Least(j, root)
      BY <3>2, <3>3, FullIfQuiet DEF Routed
    <3>5. Least(j, root) >= 1 /\ Least(j, root) \in Nat
      BY MinimumIs DEF Least
    <3>6. InnerSize(inners[j]) \in Nat
      BY <3>2, RangeOf, NodeParts DEF InnerSize
    <3>7. R[c] # {}
      BY <3>2, <3>4, <3>5, <3>6, KeyedGets
    <3> QED
      BY <2>5, <2>8, <3>7 DEF Routes
  <2> QED
    BY <2>10, <2>11
<1> QED
  BY <1>1, <1>2

\* The nodes of the tree are in the store.
LEMMA NodeInIds ==
  ASSUME NEW h, Good(h), NEW T, NEW R, Routed(T, R), NEW x \in NodeId, InTree(T, x)
  PROVE  x \in Ids
<1>1. CASE x.kind = "leaf"
  BY <1>1 DEF InTree, LeafAlive, Ids, NodeId, Leaf
<1>2. CASE x.kind = "inner"
  BY <1>2 DEF InTree, Routed, InnersFilled, Owned, Ids, NodeId, Inner
<1> QED
  BY <1>1, <1>2 DEF NodeId

\* What the nodes of the tree are given is all that InOrder asks about.
LEMMA InOrderOfTree ==
  ASSUME NEW h, Good(h), NEW T, NEW R, Routed(T, R), NEW Q, DOMAIN Q = Ids,
         \A x \in Ids : InTree(T, x) => Q[x] = R[x]
  PROVE  InOrder(T, Q)
<1>1. \A x \in NodesOf(T) : x \in NodeId /\ x \in Ids /\ Q[x] = R[x]
  <2> SUFFICES ASSUME NEW x \in NodesOf(T) PROVE x \in NodeId /\ x \in Ids /\ Q[x] = R[x]
    OBVIOUS
  <2>1. x \in NodeId /\ InTree(T, x) /\ x.kind \in {"leaf", "inner"}
    BY NodesOfTree
  <2>2. x \in Ids
    BY <2>1, NodeInIds
  <2> QED
    BY <2>1, <2>2
<1>2. Current \in NodesOf(T)
  BY CurrentIsNode
<1>3. root \in NodesOf(T) /\ (IsSplit => r.right \in NodesOf(T))
  BY DEF NodesOf, Orphans
<1>4. \A x \in NodesOf(T) : Known(Q)[x] = Known(R)[x]
  BY <1>1, <1>2, <1>3 DEF Known
<1>5. \A l \in LeafAlive : Leaf(l) \in Ids /\ Q[Leaf(l)] = R[Leaf(l)]
  BY DEF LeafAlive, Ids, InTree, Leaf
<1>6. \A i \in T : Q[Inner(i)] = R[Inner(i)]
  <2>1. T \subseteq DOMAIN inners
    BY DEF Routed, InnersFilled, Owned
  <2> QED
    BY <2>1 DEF Ids, InTree, Inner
<1>7. KeysShared(T, Q)
  <2>1. Known(Q)[root] = Key
    BY <1>3, <1>4 DEF Routed, InOrder, KeysShared
  <2>2. ASSUME NEW i \in T
        PROVE  /\ IsInterval(Q[Inner(i)])
               /\ Routes(inners[i], Q[Inner(i)], Known(Q))
    <3>1. PICK n, C : n = inners[i] /\ C = NodesAt(Len(leaves), h, h[i] - 1)
      OBVIOUS
    <3>2. /\ IsInner(n, Key, C) /\ IsInterval(R[Inner(i)])
          /\ Routes(n, R[Inner(i)], Known(R))
      BY <3>1, RangeOf
    <3>3. \A x \in Range(n.child) : Known(Q)[x] = Known(R)[x]
      BY <1>4, <3>1 DEF NodesOf, KidsOf
    <3>4. \A c \in DOMAIN n.keys : c \in DOMAIN n.child /\ c + 1 \in DOMAIN n.child
      BY <3>2, NodeParts
    <3>5. \A c \in DOMAIN n.keys : /\ Known(Q)[n.child[c]] = Known(R)[n.child[c]]
                                   /\ Known(Q)[n.child[c + 1]] = Known(R)[n.child[c + 1]]
      BY <3>3, <3>4 DEF Range
    <3>6. UNION {Known(Q)[x] : x \in Range(n.child)} = UNION {Known(R)[x] : x \in Range(n.child)}
      BY <3>3
    <3>7. Routes(n, R[Inner(i)], Known(Q))
      BY <3>2, <3>5, <3>6 DEF Routes
    <3> QED
      BY <1>6, <3>1, <3>2, <3>7
  <2>3. IsSplit => Separates(r.k, Q[Current], Q[r.right])
    BY <1>1, <1>2, <1>3 DEF Routed, InOrder, KeysShared
  <2> QED
    BY <2>1, <2>2, <2>3 DEF KeysShared
<1>8. LeavesKnown(T) /\ LeavesFilled
  BY DEF Routed, InOrder
<1>9. LeavesHold(leaves, LeafAlive, Q)
  <2>1. LeavesHold(leaves, LeafAlive, R)
    BY DEF Routed, InOrder
  <2> QED
    BY <1>5, <2>1 DEF LeavesHold
<1>10. \A l, m \in LeafAlive : Ahead(Q, l, m) <=> Ahead(R, l, m)
  BY <1>5 DEF Ahead
<1>11. LeavesLinked(leaves, LeafAlive, Q)
  <2>1. LeavesLinked(leaves, LeafAlive, R)
    BY DEF Routed, InOrder
  <2>2. ASSUME NEW l \in LeafAlive
        PROVE  /\ leaves[l].next # None =>
                     /\ leaves[l].next \in LeafAlive /\ leaves[leaves[l].next].prev = l
                     /\ Ahead(Q, l, leaves[l].next)
               /\ \A m \in LeafAlive \ {l} :
                      \/ Ahead(Q, m, l) /\ leaves[l].prev # None
                      \/ leaves[l].next # None
                         /\ (m # leaves[l].next => Ahead(Q, leaves[l].next, m))
    BY <1>10, <2>1 DEF LeavesLinked
  <2> QED
    BY <2>1, <2>2 DEF LeavesLinked
<1>12. DescentRouted(T, Q)
  <2> SUFFICES ASSUME pc \in {"insert_inner", "key_to_ref", "find_descend"}
               PROVE  InTree(T, node) /\ call.k \in Q[node]
    BY DEF DescentRouted
  <2>1. InTree(T, node) /\ call.k \in R[node]
    BY DEF Routed, InOrder, DescentRouted
  <2>2. node \in Ids
    <3>1. node \in NodeId
      <4>1. CASE pc = "find_descend"
        BY <4>1, FindFields
      <4>2. CASE pc \in Descending
        <5>1. node = Current
          BY <4>2 DEF Good, Locals
        <5> QED
          BY <5>1, CurrentIsNode
      <4> QED
        BY <4>1, <4>2 DEF Descending
    <3> QED
      BY <2>1, <3>1, NodeInIds
  <2> QED
    BY <2>1, <2>2
<1> QED
  BY <1>7, <1>8, <1>9, <1>11, <1>12 DEF InOrder

\* The routes from the root down are a routing that holds the invariant.
LEMMA RoutedIsKeysRouted ==
  ASSUME NEW h, Good(h), NEW T, NEW R, Routed(T, R)
  PROVE  KeysRouted
<1>1. PICK Q : Q = Ranges
  OBVIOUS
<1>2. PICK V : V = {i \in DOMAIN inners : Q[Inner(i)] # {}}
  OBVIOUS
<1>3. DOMAIN Q = Ids
  BY <1>1 DEF Ranges, Ids
<1>4. \A x \in Ids : Q[x] = IF InTree(T, x) THEN R[x] ELSE {}
  BY <1>1, RangesAre
<1>5. V = T
  <2>1. T \subseteq DOMAIN inners
    BY DEF Routed, InnersFilled, Owned
  <2>2. \A i \in DOMAIN inners : Inner(i) \in Ids /\ (InTree(T, Inner(i)) <=> i \in T)
    BY DEF Ids, InTree, Inner
  <2>3. \A i \in T : R[Inner(i)] # {}
    BY NodesGetKeys
  <2> QED
    BY <1>2, <1>4, <2>1, <2>2, <2>3
<1>6. InOrder(T, Q)
  BY <1>3, <1>4, InOrderOfTree
<1>7. InnersFilled(T)
  BY DEF Routed
<1> QED
  BY <1>1, <1>2, <1>5, <1>6, <1>7 DEF KeysRouted

\* The same of any set of nodes and any routing.
LEMMA RoutedKeys == (\E h : Good(h)) /\ (\E T, R : Routed(T, R)) => KeysRouted
BY RoutedIsKeysRouted

\* At every step, in the middle of an ascent too, LocateChild shares out all keys among the
\* nodes: no node is without some, no key reaches two leaves, and a leaf holds none but its
\* own, whatever separators splits, rotations and merges leave behind (tree_insert.rs,
\* tree_remove.rs).
THEOREM RoutesStayWhole == Spec => []KeysRouted
BY RoutedForever, RoutedKeys, PTL

-----------------------------------------------------------------------------
(* What is outside the tree                                                *)

\* The inner nodes outside the tree T are those taken, and roots that gave way.
Spared(T) ==
    /\ takenInners \subseteq DOMAIN inners
    /\ T \cap takenInners = {}
    /\ \A i \in DOMAIN inners \ (T \cup takenInners) : InnerSize(inners[i]) = 0

\* A step that writes to nodes of the tree, and adds to it only new ones.
LEMMA SparedKept ==
  ASSUME NEW T, Spared(T), NEW U, T \subseteq U, UNCHANGED takenInners,
         U \cap DOMAIN inners \subseteq T, DOMAIN inners \subseteq DOMAIN inners',
         DOMAIN inners' \subseteq DOMAIN inners \cup U,
         \A i \in DOMAIN inners \ T : inners'[i] = inners[i]
  PROVE  Spared(U)'
<1>1. takenInners' \subseteq DOMAIN inners' /\ U \cap takenInners' = {}
  BY DEF Spared
<1>2. \A i \in DOMAIN inners' \ (U \cup takenInners') : InnerSize(inners'[i]) = 0
  BY DEF Spared
<1> QED
  BY <1>1, <1>2 DEF Spared

\* A step that leaves the inner nodes alone.
LEMMA SparedStays ==
  ASSUME NEW T, Spared(T), UNCHANGED <<inners, takenInners>>
  PROVE  Spared(T)'
BY DEF Spared

\* A step that writes to one node of the tree.
LEMMA SparedWrites ==
  ASSUME NEW T, Spared(T), UNCHANGED takenInners, NEW t \in T,
         NEW z, inners' = [inners EXCEPT ![t] = z]
  PROVE  Spared(T)'
<1>1. DOMAIN inners' = DOMAIN inners /\ \A i \in DOMAIN inners \ T : inners'[i] = inners[i]
  OBVIOUS
<1> QED
  BY <1>1, SparedKept

\* The tree as it is routed, with nothing but spare nodes outside.
Shaped(T, R) == Routed(T, R) /\ Spared(T)

\* A step that leaves the inner nodes alone, and the routes to them.
LEMMA KeptStays ==
  ASSUME NEW T, NEW R, Shaped(T, R), UNCHANGED <<inners, takenInners>>, \E Q : Routed(T, Q)'
  PROVE  \E U, Q : Shaped(U, Q)'
<1>1. Spared(T)'
  BY SparedStays DEF Shaped
<1> QED
  BY <1>1 DEF Shaped

\* A step that writes to one node of the tree.
LEMMA KeptWrites ==
  ASSUME NEW T, NEW R, Shaped(T, R), UNCHANGED takenInners, NEW t \in T,
         NEW z, inners' = [inners EXCEPT ![t] = z], \E Q : Routed(T, Q)'
  PROVE  \E U, Q : Shaped(U, Q)'
<1>1. Spared(T)'
  BY SparedWrites DEF Shaped
<1> QED
  BY <1>1 DEF Shaped

\* A full parent, or the root, is split: the tree gets a new node.
LEMMA SplitKept ==
  ASSUME NEW h, Good(h), NEW T, NEW R, Shaped(T, R), InsertAscendSplit \/ InsertReturnSplit
  PROVE  \E U, Q : Shaped(U, Q)'
<1>1. PICK U, Q : U = T \cup {Len(inners) + 1} /\ Routed(U, Q)'
  BY InsertAscendSplitRouted, InsertReturnSplitRouted DEF Shaped
<1>2. PICK m, t : m = Len(inners) + 1 /\ t = Top.id
  OBVIOUS
<1>3. /\ inners \in Seq(InnerRec) /\ DOMAIN inners = 1 .. Len(inners) /\ Len(inners) \in Nat
      /\ m \notin DOMAIN inners
  <2>1. inners \in Seq(InnerRec) /\ DOMAIN inners = 1 .. Len(inners) /\ Len(inners) \in Nat
    BY StoreParts, LenProperties DEF Good
  <2> QED
    BY <1>2, <2>1
<1>4. UNCHANGED takenInners
  BY DEF InsertAscendSplit, InsertReturnSplit, taken
<1>5. /\ DOMAIN inners' = DOMAIN inners \cup {m}
      /\ \A i \in DOMAIN inners \ T : inners'[i] = inners[i]
  <2>1. CASE InsertAscendSplit
    <3>1. PICK x, y : inners' = Append([inners EXCEPT ![t] = x], y) /\ stack # <<>>
      BY <1>2, <2>1 DEF InsertAscendSplit, Ascending
    <3>2. t \in T
      BY <1>2, <3>1, ParentFacts DEF Shaped, Routed
    <3>3. PICK s : s = [inners EXCEPT ![t] = x]
      OBVIOUS
    <3>4. Len(s) = Len(inners) /\ DOMAIN s = DOMAIN inners
          /\ \A i \in DOMAIN inners \ T : s[i] = inners[i]
      BY <1>3, <3>2, <3>3
    <3>5. inners' = [i \in 1 .. m |-> IF i = m THEN y ELSE s[i]]
      BY <1>2, <1>3, <3>1, <3>3, <3>4 DEF Append
    <3> QED
      BY <1>2, <1>3, <3>4, <3>5
  <2>2. CASE InsertReturnSplit
    <3>1. PICK y : inners' = Append(inners, y)
      BY <2>2 DEF InsertReturnSplit
    <3>2. DOMAIN inners' = 1 .. m /\ \A i \in DOMAIN inners : inners'[i] = inners[i]
      BY <1>2, <1>3, <3>1
    <3> QED
      BY <1>2, <1>3, <3>2
  <2> QED
    BY <2>1, <2>2
<1>6. Spared(U)'
  BY <1>1, <1>2, <1>3, <1>4, <1>5, SparedKept DEF Shaped
<1> QED
  BY <1>1, <1>6 DEF Shaped

\* A loan between inner nodes writes to the two and to their parent.
LEMMA RotateInnerKept ==
  ASSUME NEW h, Good(h), NEW T, NEW R, Shaped(T, R), RotateRightInner \/ RotateLeftInner
  PROVE  \E U, Q : Shaped(U, Q)'
<1>1. \E Q : Routed(T, Q)'
  BY RotateRightInnerRouted, RotateLeftInnerRouted DEF Shaped
<1>2. /\ pc = "remove_ascend" /\ stack # <<>> /\ r.tag = "InnerUnderSize" /\ ~IsSplit
      /\ UNCHANGED takenInners
  BY DEF RotateRightInner, RotateLeftInner, Ascending, IsSplit, taken
<1>3. Current.kind = "inner"
  BY <1>2, RemoveFields
<1>4. Top.idx \in 1 .. Len(Parent.keys) + 1 /\ Len(Parent.keys) \in Nat
  BY <1>2, TopFacts DEF Shaped
<1>5. PICK slot : slot = IF RotateRightInner THEN Top.idx - 1 ELSE Top.idx
  OBVIOUS
<1>6. slot \in 1 .. Len(Parent.keys) /\ Top.idx \in {slot, slot + 1}
  <2>1. CASE RotateRightInner
    BY <1>4, <1>5, <2>1 DEF RotateRightInner, PrevInnerLends, HasPrev
  <2>2. CASE ~RotateRightInner /\ RotateLeftInner
    BY <1>4, <1>5, <2>2 DEF RotateLeftInner, NextInnerLends, HasNext, InnerSize
  <2> QED
    BY <2>1, <2>2
<1>7. PICK a, b, t : /\ a = Parent.child[slot].id /\ b = Parent.child[slot + 1].id
                     /\ t = Top.id
  OBVIOUS
<1>8. \E x, y, z : inners' = [inners EXCEPT ![a] = x, ![b] = y, ![t] = z]
  <2>1. CASE RotateRightInner
    BY <1>5, <1>7, <2>1 DEF RotateRightInner
  <2>2. CASE ~RotateRightInner /\ RotateLeftInner
    BY <1>5, <1>7, <2>2 DEF RotateLeftInner
  <2> QED
    BY <2>1, <2>2
<1>9. a \in T /\ b \in T /\ t \in T
  <2>1. PICK D : InnerPair(T, R, slot, a, b, D)
    BY <1>2, <1>3, <1>6, <1>7, TwoInners DEF Shaped
  <2>2. t \in T
    BY <1>2, <1>7, ParentFacts DEF Shaped, Routed
  <2> QED
    BY <2>1, <2>2 DEF InnerPair
<1>10. DOMAIN inners' = DOMAIN inners /\ \A i \in DOMAIN inners \ T : inners'[i] = inners[i]
  BY <1>8, <1>9
<1>11. Spared(T)'
  BY <1>2, <1>10, SparedKept DEF Shaped
<1> QED
  BY <1>1, <1>11 DEF Shaped

\* A merge takes the right node from the tree and from the store.
LEMMA MergeInnerKept ==
  ASSUME NEW h, Good(h), NEW T, NEW R, Shaped(T, R), MergeInner
  PROVE  \E U, Q : Shaped(U, Q)'
<1>1. /\ pc = "remove_ascend" /\ stack # <<>> /\ r.tag = "InnerUnderSize" /\ ~IsSplit
      /\ HasPrev \/ HasNext
  BY DEF MergeInner, Ascending, IsSplit
<1>2. Current.kind = "inner"
  BY <1>1, RemoveFields
<1>3. Top.idx \in 1 .. Len(Parent.keys) + 1 /\ Len(Parent.keys) \in Nat
  BY <1>1, TopFacts DEF Shaped
<1>4. PICK slot : slot = IF HasPrev THEN Top.idx - 1 ELSE Top.idx
  OBVIOUS
<1>5. PICK t, a, b : /\ t = Top.id /\ a = Parent.child[slot].id
                     /\ b = Parent.child[slot + 1].id
  OBVIOUS
<1>6. slot \in 1 .. Len(Parent.keys) /\ Top.idx \in {slot, slot + 1}
  BY <1>1, <1>3, <1>4 DEF HasPrev, HasNext, InnerSize
<1>7. PICK U, Q : U = T \ {b} /\ Routed(U, Q)'
  BY <1>4, <1>5, MergeInnerRouted DEF Shaped
<1>8. a \in T /\ b \in T /\ t \in T /\ T \subseteq DOMAIN inners
  <2>1. PICK D : InnerPair(T, R, slot, a, b, D)
    BY <1>1, <1>2, <1>5, <1>6, TwoInners DEF Shaped
  <2>2. t \in T /\ T \subseteq DOMAIN inners
    BY <1>1, <1>5, ParentFacts DEF Shaped, Routed, InnersFilled, Owned
  <2> QED
    BY <2>1, <2>2 DEF InnerPair
<1>9. \E x, z : inners' = [inners EXCEPT ![a] = x, ![t] = z]
  BY <1>4, <1>5 DEF MergeInner
<1>10. takenInners' = takenInners \cup {b}
  BY <1>4, <1>5 DEF MergeInner
<1>11. DOMAIN inners' = DOMAIN inners /\ \A i \in DOMAIN inners \ T : inners'[i] = inners[i]
  BY <1>8, <1>9
<1>12. takenInners' \subseteq DOMAIN inners' /\ U \cap takenInners' = {}
  BY <1>7, <1>8, <1>10, <1>11 DEF Shaped, Spared
<1>13. \A i \in DOMAIN inners' \ (U \cup takenInners') : InnerSize(inners'[i]) = 0
  BY <1>7, <1>10, <1>11 DEF Shaped, Spared
<1>14. Spared(U)'
  BY <1>12, <1>13 DEF Spared
<1> QED
  BY <1>7, <1>14 DEF Shaped

\* A root without keys leaves the tree, and stays in the store.
LEMMA RemoveReturnInnerKept ==
  ASSUME NEW h, Good(h), NEW T, NEW R, Shaped(T, R), RemoveReturnInnerUnderSize
  PROVE  \E U, Q : Shaped(U, Q)'
<1>1. PICK t : t = root.id
  OBVIOUS
<1>2. PICK U, Q : /\ U = IF InnerSize(inners[t]) = 0 THEN T \ {t} ELSE T
                  /\ Routed(U, Q)'
  BY <1>1, RemoveReturnInnerRouted DEF Shaped
<1>3. UNCHANGED <<inners, takenInners>>
  BY DEF RemoveReturnInnerUnderSize, store, taken
<1>4. Spared(U)'
  BY <1>2, <1>3 DEF Shaped, Spared
<1> QED
  BY <1>2, <1>4 DEF Shaped

\* clear begins a new store.
LEMMA ClearKept ==
  ASSUME Clear
  PROVE  \E U, Q : Shaped(U, Q)'
<1>1. PICK Q : Routed({}, Q)'
  BY ClearRouted
<1>2. takenInners' = {} /\ inners' = <<>>
  BY DEF Clear
<1>3. Spared({})'
  BY <1>2 DEF Spared
<1> QED
  BY <1>1, <1>3 DEF Shaped

\* A step that leaves the inner nodes alone, and the routes to them.
LEMMA QuietKept ==
  ASSUME NEW h, Good(h), NEW T, NEW R, Shaped(T, R),
         \/ Call /\ ~Clear
         \/ InsertDescend \/ InsertLeafUpdate \/ InsertLeafInsert \/ InsertLeafSplit
         \/ InsertAscendUpdated \/ InsertReturnInserted \/ InsertReturnUpdated
         \/ KeyToRefDescend \/ KeyToRefMissing \/ AugmentationDescend \/ AugmentationMissing
         \/ RemoveInLeaf \/ RemoveReturnDone \/ RemoveReturnLeafUnderSize
         \/ FindStep \/ UNCHANGED vars
  PROVE  \E U, Q : Shaped(U, Q)'
<1>1. CASE Call /\ ~Clear
  <2>1. UNCHANGED <<inners, takenInners>>
    BY <1>1 DEF Call, InsertCall, RemoveCall, RemoveByAugmentationCall, GetMutByAugmentationCall,
                GetCached, GetMutCached, GetCall, GetMutCall, Enter, tree, store, taken
  <2> QED
    BY <1>1, <2>1, CallRouted, KeptStays DEF Shaped
<1>2. CASE InsertDescend \/ KeyToRefDescend \/ FindDescend
  <2>1. UNCHANGED <<inners, takenInners>>
    BY <1>2 DEF InsertDescend, KeyToRefDescend, FindDescend, tree, store, taken
  <2> QED
    BY <1>2, <2>1, DescentStepRouted, KeptStays DEF Shaped
<1>3. CASE InsertLeafUpdate \/ InsertLeafInsert \/ InsertLeafSplit
  <2>1. UNCHANGED <<inners, takenInners>>
    BY <1>3 DEF InsertLeafUpdate, InsertLeafInsert, InsertLeafSplit, taken
  <2> QED
    BY <1>3, <2>1, InsertLeafUpdateRouted, InsertLeafInsertRouted, InsertLeafSplitRouted,
       KeptStays DEF Shaped
<1>4. CASE InsertAscendUpdated
  <2>1. UNCHANGED <<inners, takenInners>>
    BY <1>4 DEF InsertAscendUpdated, tree, store, taken
  <2> QED
    BY <1>4, <2>1, RefreshRouted, KeptStays DEF Shaped
<1>5. CASE InsertReturnInserted \/ InsertReturnUpdated \/ RemoveReturnDone
  <2>1. UNCHANGED <<inners, takenInners>>
    BY <1>5 DEF InsertReturnInserted, InsertReturnUpdated, RemoveReturnDone, tree, store, taken
  <2> QED
    BY <1>5, <2>1, QuietReturnRouted, KeptStays DEF Shaped
<1>6. CASE KeyToRefMissing \/ AugmentationDescend \/ AugmentationMissing
  <2>1. UNCHANGED <<inners, takenInners>>
    BY <1>6 DEF KeyToRefMissing, AugmentationDescend, AugmentationMissing, tree, store, taken
  <2> QED
    BY <1>6, <2>1, QuietCallRouted, KeptStays DEF Shaped
<1>7. CASE RemoveInLeaf
  <2>1. UNCHANGED <<inners, takenInners>>
    BY <1>7 DEF RemoveInLeaf, taken
  <2> QED
    BY <1>7, <2>1, RemoveInLeafRouted, KeptStays DEF Shaped
<1>8. CASE RemoveReturnLeafUnderSize
  <2>1. UNCHANGED <<inners, takenInners>>
    BY <1>8 DEF RemoveReturnLeafUnderSize, taken
  <2> QED
    BY <1>8, <2>1, RemoveReturnLeafRouted, KeptStays DEF Shaped
<1>9. CASE FindInLeaf \/ GetMutInLeaf
  <2>1. UNCHANGED <<inners, takenInners>>
    BY <1>9 DEF FindInLeaf, GetMutInLeaf, taken
  <2> QED
    BY <1>9, <2>1, FindInLeafRouted, GetMutInLeafRouted, KeptStays DEF Shaped
<1>10. CASE UNCHANGED vars
  <2>1. UNCHANGED <<inners, takenInners>>
    BY <1>10 DEF vars, tree, store, taken
  <2> QED
    BY <1>10, <2>1, StutterRouted, KeptStays DEF Shaped
<1> QED
  BY <1>1, <1>2, <1>3, <1>4, <1>5, <1>6, <1>7, <1>8, <1>9, <1>10 DEF FindStep

\* A step of an ascent that writes to the parent only.
LEMMA ParentWritesKept ==
  ASSUME NEW h, Good(h), NEW T, NEW R, Shaped(T, R),
         \/ InsertAscendSlot \/ InsertAscendInserted \/ RemoveAscendDone
         \/ RotateRightLeaf \/ RotateLeftLeaf \/ MergeLeafLeft \/ MergeLeafRight
  PROVE  \E U, Q : Shaped(U, Q)'
<1>1. stack # <<>> /\ UNCHANGED takenInners
  BY DEF InsertAscendSlot, InsertAscendInserted, RemoveAscendDone, RotateRightLeaf,
         RotateLeftLeaf, MergeLeafLeft, MergeLeafRight, Ascending, taken
<1>2. PICK t : t = Top.id
  OBVIOUS
<1>3. \E z : inners' = [inners EXCEPT ![t] = z]
  <2>1. CASE InsertAscendSlot
    BY <1>2, <2>1 DEF InsertAscendSlot
  <2>2. CASE InsertAscendInserted \/ RemoveAscendDone
    BY <1>2, <2>2 DEF InsertAscendInserted, RemoveAscendDone
  <2>3. CASE RotateRightLeaf \/ RotateLeftLeaf
    BY <1>2, <2>3 DEF RotateRightLeaf, RotateLeftLeaf
  <2>4. CASE MergeLeafLeft \/ MergeLeafRight
    BY <1>2, <2>4 DEF MergeLeafLeft, MergeLeafRight, MergeLeaves
  <2> QED
    BY <2>1, <2>2, <2>3, <2>4
<1>4. t \in T
  BY <1>1, <1>2, ParentFacts DEF Shaped, Routed
<1>5. \E Q : Routed(T, Q)'
  <2>1. CASE InsertAscendSlot
    BY <2>1, InsertAscendSlotRouted DEF Shaped
  <2>2. CASE InsertAscendInserted \/ RemoveAscendDone
    BY <2>2, RefreshRouted DEF Shaped
  <2>3. CASE RotateRightLeaf \/ RotateLeftLeaf
    BY <2>3, RotateRightLeafRouted, RotateLeftLeafRouted DEF Shaped
  <2>4. CASE MergeLeafLeft \/ MergeLeafRight
    BY <2>4, MergeLeafRouted DEF Shaped
  <2> QED
    BY <2>1, <2>2, <2>3, <2>4
<1> QED
  BY <1>1, <1>3, <1>4, <1>5, KeptWrites

\* No step leaves a key in an inner node outside the tree.
LEMMA StepKept ==
  ASSUME NEW h, Good(h), NEW T, NEW R, Shaped(T, R), [Next]_vars
  PROVE  \E U, Q : Shaped(U, Q)'
<1>1. CASE (Call /\ ~Clear) \/ FindStep \/ UNCHANGED vars
  BY <1>1, QuietKept
<1>2. CASE Clear
  BY <1>2, ClearKept
<1>3. CASE InsertStep
  BY <1>3, QuietKept, ParentWritesKept, SplitKept DEF InsertStep
<1>4. CASE RemoveStep
  BY <1>4, QuietKept, ParentWritesKept, RotateInnerKept, MergeInnerKept, RemoveReturnInnerKept
  DEF RemoveStep
<1> QED
  BY <1>1, <1>2, <1>3, <1>4 DEF Next, Step

\* What is carried from step to step.
ShapeInv == (\E h : Good(h)) /\ (\E T, R : Shaped(T, R)) /\ EmptyWithoutKeys

\* All that TreeIsChain rests on holds forever.
LEMMA ShapeInvHolds == Spec => []ShapeInv
<1>1. Init => ShapeInv
  <2> SUFFICES ASSUME Init PROVE ShapeInv
    OBVIOUS
  <2>1. PICK R : Routed({}, R)
    BY FreshRouted DEF Init, IsFresh
  <2>2. Spared({})
    BY DEF Init, Spared
  <2>3. EmptyWithoutKeys
    BY DEF Init, EmptyWithoutKeys
  <2> QED
    BY <2>1, <2>2, <2>3, InitOK DEF ShapeInv, Shaped
<1>2. ShapeInv /\ [Next]_vars => ShapeInv'
  <2> SUFFICES ASSUME ShapeInv, [Next]_vars PROVE ShapeInv'
    OBVIOUS
  <2>1. PICK h : Good(h)
    BY DEF ShapeInv
  <2>2. PICK T, R : Shaped(T, R)
    BY DEF ShapeInv
  <2>3. PICK g : Good(g)'
    BY <2>1, StepOK
  <2>4. PICK U, Q : Shaped(U, Q)'
    BY <2>1, <2>2, StepKept
  <2>5. EmptyWithoutKeys'
    BY <2>1, <2>2, EmptyWithoutKeysKept DEF ShapeInv, Shaped
  <2> QED
    BY <2>3, <2>4, <2>5 DEF ShapeInv
<1> QED
  BY <1>1, <1>2, PTL DEF Spec

-----------------------------------------------------------------------------
(* The levels of the tree                                                  *)

\* s lists A in the order of p.
Lists(s, A, p) == /\ s \in Seq(A) /\ \A x \in A : \E i \in 1 .. Len(s) : s[i] = x
                  /\ \A i, j \in 1 .. Len(s) : i < j => p[s[i]] < p[s[j]]

\* There is one such list: they agree as far as both go.
LEMMA ListsAgree ==
  ASSUME NEW A, NEW p \in [A -> Int], NEW s, Lists(s, A, p), NEW t, Lists(t, A, p),
         NEW n \in Nat, n <= Len(s), n <= Len(t)
  PROVE  \A i \in 1 .. n : s[i] = t[i]
<1> SUFFICES ASSUME \E i \in 1 .. n : s[i] # t[i] PROVE FALSE
  OBVIOUS
<1> DEFINE B == {i \in 1 .. n : s[i] # t[i]}
<1>1. PICK d \in B : \A e \in B : d <= e
  <2>1. B # {} /\ B \subseteq Nat
    OBVIOUS
  <2> HIDE DEF B
  <2> QED
    BY <2>1, LeastNat
<1>2. d \in 1 .. n /\ s[d] # t[d] /\ \A i \in 1 .. n : i < d => s[i] = t[i]
  BY <1>1
<1> HIDE DEF B
<1>3. /\ Len(s) \in Nat /\ Len(t) \in Nat /\ d \in 1 .. Len(s) /\ d \in 1 .. Len(t)
      /\ \A i \in 1 .. Len(s) : s[i] \in A /\ p[s[i]] \in Int
      /\ \A i \in 1 .. Len(t) : t[i] \in A /\ p[t[i]] \in Int
  <2>1. Len(s) \in Nat /\ Len(t) \in Nat
    BY LenProperties DEF Lists
  <2>2. \A i \in 1 .. Len(s) : s[i] \in A
    BY ElementOfSeq DEF Lists
  <2>3. \A i \in 1 .. Len(t) : t[i] \in A
    BY ElementOfSeq DEF Lists
  <2> QED
    BY <1>2, <2>1, <2>2, <2>3
<1>4. PICK x \in 1 .. Len(s) : s[x] = t[d]
  BY <1>3 DEF Lists
<1>5. PICK y \in 1 .. Len(t) : t[y] = s[d]
  BY <1>3 DEF Lists
<1>6. ~(x < d)
  <2> SUFFICES ASSUME x < d PROVE FALSE
    OBVIOUS
  <2>1. t[x] = t[d] /\ x \in 1 .. Len(t)
    BY <1>2, <1>3, <1>4
  <2>2. p[t[x]] < p[t[d]]
    BY <1>3, <2>1 DEF Lists
  <2> QED
    BY <1>3, <2>1, <2>2
<1>7. ~(y < d)
  <2> SUFFICES ASSUME y < d PROVE FALSE
    OBVIOUS
  <2>1. s[y] = s[d] /\ y \in 1 .. Len(s)
    BY <1>2, <1>3, <1>5
  <2>2. p[s[y]] < p[s[d]]
    BY <1>3, <2>1 DEF Lists
  <2> QED
    BY <1>3, <2>1, <2>2
<1>8. d < x /\ d < y
  BY <1>2, <1>3, <1>4, <1>5, <1>6, <1>7
<1>9. p[s[d]] < p[t[d]] /\ p[t[d]] < p[s[d]]
  BY <1>3, <1>4, <1>5, <1>8 DEF Lists
<1> QED
  BY <1>3, <1>9

\* They are of one length.
LEMMA ListNotLonger ==
  ASSUME NEW A, NEW p \in [A -> Int], NEW s, Lists(s, A, p), NEW t, Lists(t, A, p)
  PROVE  ~(Len(s) < Len(t))
<1> SUFFICES ASSUME Len(s) < Len(t) PROVE FALSE
  OBVIOUS
<1>1. Len(s) \in Nat /\ Len(t) \in Nat
  BY LenProperties DEF Lists
<1>2. PICK n, m : n = Len(s) /\ m = n + 1
  OBVIOUS
<1>3. \A i \in 1 .. n : s[i] = t[i]
  BY <1>1, <1>2, ListsAgree
<1>4. m \in 1 .. Len(t) /\ t[m] \in A
  <2>1. m \in 1 .. Len(t)
    BY <1>1, <1>2
  <2> QED
    BY <2>1, ElementOfSeq DEF Lists
<1>5. PICK x \in 1 .. n : s[x] = t[m]
  BY <1>2, <1>4 DEF Lists
<1>6. x \in 1 .. Len(t) /\ x < m /\ t[x] = t[m]
  BY <1>1, <1>2, <1>3, <1>5
<1>7. p[t[x]] < p[t[m]] /\ p[t[m]] \in Int
  BY <1>4, <1>6 DEF Lists
<1> QED
  BY <1>6, <1>7

\* Two lists of one set in one order are the same.
LEMMA ListsAreOne ==
  ASSUME NEW A, NEW p \in [A -> Int], NEW s, Lists(s, A, p), NEW t, Lists(t, A, p)
  PROVE  s = t
<1>1. Len(s) \in Nat /\ Len(t) \in Nat
  BY LenProperties DEF Lists
<1>2. Len(s) = Len(t)
  BY <1>1, ListNotLonger
<1>3. \A i \in 1 .. Len(s) : s[i] = t[i]
  BY <1>1, <1>2, ListsAgree
<1>4. s \in Seq(A) /\ t \in Seq(A)
  BY DEF Lists
<1> QED
  BY <1>1, <1>2, <1>3, <1>4

\* The relation P holds between the elements of s, from left to right.
InSequence(s, P) == \A i, j \in DOMAIN s : i < j => <<s[i], s[j]>> \in P

\* Every element of a piece is in the whole.
LEMMA FlattenMeets ==
  ASSUME NEW S, NEW s \in Seq(Seq(S)), NEW i \in 1 .. Len(s), NEW a \in 1 .. Len(s[i])
  PROVE  \E x \in DOMAIN FlattenSeq(s) : FlattenSeq(s)[x] = s[i][a]
<1>1. Len(s) \in Nat /\ \A j \in 1 .. Len(s) : Len(s[j]) \in Nat
  BY ElementOfSeq, LenProperties
<1>2. PICK off : Offsets(off, s)
  BY <1>1, OffsetsExist
<1>3. PICK w : w = FlattenSeq(s)
  OBVIOUS
<1>4. w \in Seq(S) /\ JoinsTo(w, s, off, Len(s))
  BY <1>2, <1>3, FlattenIs
<1>5. PICK x : x = off[i - 1] + a
  OBVIOUS
<1>6. x \in 1 .. off[Len(s)] /\ w[x] = s[i][a]
  BY <1>4, <1>5 DEF JoinsTo
<1>7. DOMAIN w = 1 .. off[Len(s)]
  BY <1>4, LenProperties DEF JoinsTo
<1> QED
  BY <1>3, <1>6, <1>7

\* What holds within the pieces and from piece to piece holds in the whole.
LEMMA FlattenInSequence ==
  ASSUME NEW S, NEW P, NEW s \in Seq(Seq(S)),
         \A i \in 1 .. Len(s) : InSequence(s[i], P),
         \A i, j \in 1 .. Len(s) : i < j =>
             \A a \in 1 .. Len(s[i]), b \in 1 .. Len(s[j]) : <<s[i][a], s[j][b]>> \in P
  PROVE  InSequence(FlattenSeq(s), P)
<1>1. /\ Len(s) \in Nat
      /\ \A i \in 1 .. Len(s) : s[i] \in Seq(S) /\ Len(s[i]) \in Nat
                                /\ DOMAIN s[i] = 1 .. Len(s[i])
  BY ElementOfSeq, LenProperties
<1>2. PICK off : Offsets(off, s)
  BY <1>1, OffsetsExist
<1>3. PICK w : w = FlattenSeq(s)
  OBVIOUS
<1>4. w \in Seq(S) /\ JoinsTo(w, s, off, Len(s))
  BY <1>2, <1>3, FlattenIs
<1>5. DOMAIN w = 1 .. off[Len(s)] /\ \A i \in 0 .. Len(s) : off[i] \in Nat
  BY <1>1, <1>2, <1>4, LenProperties DEF JoinsTo, Offsets
<1>6. ASSUME NEW x \in DOMAIN w, NEW y \in DOMAIN w, x < y
      PROVE  <<w[x], w[y]>> \in P
  <2>11. PICK i \in 1 .. Len(s) : \E a \in 1 .. Len(s[i]) : x = off[i - 1] + a
    BY <1>4, <1>5 DEF JoinsTo
  <2>1. PICK a \in 1 .. Len(s[i]) : x = off[i - 1] + a
    BY <2>11
  <2>12. PICK j \in 1 .. Len(s) : \E b \in 1 .. Len(s[j]) : y = off[j - 1] + b
    BY <1>4, <1>5 DEF JoinsTo
  <2>2. PICK b \in 1 .. Len(s[j]) : y = off[j - 1] + b
    BY <2>12
  <2>3. w[x] = s[i][a] /\ w[y] = s[j][b]
    BY <1>4, <2>1, <2>2 DEF JoinsTo
  <2>4. ~(j < i)
    <3> SUFFICES ASSUME j < i PROVE FALSE
      OBVIOUS
    <3>1. off[j] = off[j - 1] + Len(s[j])
      BY <1>2 DEF Offsets
    <3>2. j \in 0 .. Len(s) /\ i - 1 \in 0 .. Len(s) /\ j <= i - 1 /\ j - 1 \in 0 .. Len(s)
      OBVIOUS
    <3>3. off[j] <= off[i - 1]
      BY <1>1, <1>2, <3>2, OffsetsGrow
    <3>4. /\ off[i - 1] \in Nat /\ off[j] \in Nat /\ off[j - 1] \in Nat
          /\ a \in Nat /\ b \in Nat /\ a >= 1 /\ b <= Len(s[j]) /\ Len(s[j]) \in Nat
      <4>1. Len(s[j]) \in Nat /\ Len(s[i]) \in Nat
        BY <1>1
      <4>2. off[i - 1] \in Nat /\ off[j] \in Nat /\ off[j - 1] \in Nat
        BY <1>5, <3>2
      <4>3. a \in Nat /\ b \in Nat /\ a >= 1 /\ b <= Len(s[j])
        BY <4>1
      <4> QED
        BY <4>1, <4>2, <4>3
    <3>5. y <= off[j] /\ x > off[i - 1] /\ x \in Nat /\ y \in Nat
      <4>1. PICK e : e = off[i - 1]
        OBVIOUS
      <4>2. PICK f : f = off[j - 1]
        OBVIOUS
      <4>3. PICK g : g = Len(s[j])
        OBVIOUS
      <4>4. x = e + a /\ y = f + b /\ off[j] = f + g /\ b <= g
        BY <2>1, <2>2, <3>1, <3>4, <4>1, <4>2, <4>3
      <4>5. e \in Nat /\ f \in Nat /\ g \in Nat /\ a \in Nat /\ a >= 1 /\ b \in Nat
        BY <3>4, <4>1, <4>2, <4>3
      <4>6. x > e /\ y <= f + g /\ x \in Nat /\ y \in Nat
        BY ONLY <4>4, <4>5
      <4> QED
        BY ONLY <4>1, <4>4, <4>6
    <3> QED
      BY ONLY <1>6, <3>3, <3>4, <3>5
  <2>5. CASE i = j
    <3>1. a < b
      <4>1. off[i - 1] \in Nat /\ a \in Nat /\ b \in Nat
        BY <1>1, <1>5
      <4> QED
        BY <1>6, <2>1, <2>2, <2>5, <4>1
    <3> QED
      BY <1>1, <2>3, <2>5, <3>1 DEF InSequence
  <2>6. CASE i < j
    BY <2>3, <2>6
  <2> QED
    BY <2>4, <2>5, <2>6
<1> QED
  BY <1>3, <1>6 DEF InSequence

\* Node x gets keys, all less than those that y gets.
LeftOf(R) == {e \in NodeId \X NodeId :
                  R[e[1]] # {} /\ R[e[2]] # {} /\ Precedes(R[e[1]], R[e[2]])}

\* Between calls the children of a node get keys of its own, in order.
LEMMA KidsInOrder ==
  ASSUME NEW h, Good(h), NEW T, NEW R, Routed(T, R), ~IsSplit, NEW i \in T
  PROVE  LET s == inners[i].child
         IN  /\ s \in Seq(TreeNodes(T)) /\ InSequence(s, LeftOf(R)) /\ Len(s) >= 1
             /\ \A c \in 1 .. Len(s) : /\ R[s[c]] # {} /\ R[s[c]] \subseteq R[Inner(i)]
                                       /\ HeightOf(h, s[c]) = h[i] - 1
<1>1. PICK n, C, s : n = inners[i] /\ C = NodesAt(Len(leaves), h, h[i] - 1) /\ s = n.child
  OBVIOUS
<1>2. /\ IsInner(n, Key, C) /\ Routes(n, R[Inner(i)], R) /\ R[Inner(i)] \subseteq Key
      /\ i \in DOMAIN inners
  BY <1>1, RangeOf
<1>3. R[Inner(i)] # {}
  BY NodesGetKeys
<1>4. /\ \A c \in DOMAIN s : R[s[c]] # {} /\ R[s[c]] \subseteq R[Inner(i)]
      /\ \A c, d \in DOMAIN s : c < d => Precedes(R[s[c]], R[s[d]])
  BY <1>1, <1>2, <1>3, RoutesApart
<1>5. DOMAIN s = 1 .. Len(s) /\ Len(s) \in Nat /\ Len(s) >= 1
  BY <1>1, <1>2, NodeParts
<1>6. \A c \in 1 .. Len(s) : /\ s[c] \in TreeNodes(T) /\ s[c] \in NodeId
                             /\ HeightOf(h, s[c]) = h[i] - 1
  <2> SUFFICES ASSUME NEW c \in 1 .. Len(s)
               PROVE  /\ s[c] \in TreeNodes(T) /\ s[c] \in NodeId
                      /\ HeightOf(h, s[c]) = h[i] - 1
    OBVIOUS
  <2>1. s[c] \in KidsOf(inners, i)
    BY <1>1, <1>5 DEF KidsOf, Range
  <2>2. s[c] \in NodeId /\ InTree(T, s[c])
    BY <2>1, NodesOfTree DEF NodesOf
  <2> QED
    BY <1>2, <2>1, <2>2, KidKnown DEF TreeNodes
<1>7. s \in Seq(TreeNodes(T))
  <2>1. s \in Seq(C)
    BY <1>1, <1>2, NodeParts
  <2> QED
    BY <1>6, <2>1, LenProperties, IsASeq
<1>8. InSequence(s, LeftOf(R))
  BY <1>4, <1>5, <1>6 DEF InSequence, LeftOf
<1> QED
  BY <1>1, <1>4, <1>5, <1>6, <1>7, <1>8

\* A level: nodes from left to right, all at one height.
IsOrdered(T, R, h, s, H) ==
    /\ s \in Seq(TreeNodes(T)) /\ Len(s) >= 1 /\ InSequence(s, LeftOf(R))
    /\ \A i \in 1 .. Len(s) : HeightOf(h, s[i]) = H

\* What a level of nodes at height H makes of the next one.
LEMMA NextLevel ==
  ASSUME NEW h, Good(h), NEW T, NEW R, Routed(T, R), ~IsSplit, NEW H \in Nat,
         NEW s, IsOrdered(T, R, h, s, H)
  PROVE  IsOrdered(T, R, h, Below(s), IF H = 0 THEN 0 ELSE H - 1)
<1>1. PICK t, S, P : t = PiecesBelow(s) /\ S = TreeNodes(T) /\ P = LeftOf(R)
  OBVIOUS
<1>2. /\ t \in Seq(Seq(S)) /\ Len(t) = Len(s)
      /\ \A i \in 1 .. Len(s) :
             /\ s[i] \in S /\ Len(t[i]) >= 1
             /\ t[i] = IF s[i].kind = "inner" THEN inners[s[i].id].child ELSE <<s[i]>>
      /\ Below(s) = FlattenSeq(t) /\ Below(s) \in Seq(S)
  BY <1>1, BelowIs DEF IsOrdered
<1>3. Len(s) \in Nat /\ DOMAIN s = 1 .. Len(s) /\ Len(s) >= 1
  BY LenProperties DEF IsOrdered
<1>4. ASSUME NEW i \in 1 .. Len(s)
      PROVE  /\ s[i] \in NodeId /\ InTree(T, s[i]) /\ HeightOf(h, s[i]) = H
             /\ H = 0 <=> s[i].kind = "leaf"
             /\ s[i].kind = "inner" => s[i].id \in T /\ s[i] = Inner(s[i].id) /\ h[s[i].id] = H
  <2>1. s[i] \in NodeId /\ InTree(T, s[i]) /\ HeightOf(h, s[i]) = H
    BY <1>1, <1>2 DEF TreeNodes, IsOrdered
  <2>2. H = 0 <=> s[i].kind = "leaf"
    BY <2>1, HeightIs
  <2>3. s[i].kind = "inner" => s[i].id \in T /\ s[i] = Inner(s[i].id) /\ h[s[i].id] = H
    BY <2>1 DEF InTree, NodeId, Inner, HeightOf
  <2> QED
    BY <2>1, <2>2, <2>3
<1>5. ASSUME NEW i \in 1 .. Len(s)
      PROVE  /\ InSequence(t[i], P)
             /\ \A c \in 1 .. Len(t[i]) :
                    /\ HeightOf(h, t[i][c]) = IF H = 0 THEN 0 ELSE H - 1
                    /\ R[t[i][c]] \subseteq R[s[i]]
                    /\ R[s[i]] # {} => R[t[i][c]] # {}
  <2>1. CASE s[i].kind = "leaf"
    <3>1. t[i] = <<s[i]>> /\ H = 0 /\ HeightOf(h, s[i]) = H
      BY <1>2, <1>4, <2>1
    <3>2. Len(t[i]) = 1 /\ DOMAIN t[i] = {1} /\ t[i][1] = s[i]
      BY <3>1
    <3> QED
      BY <3>1, <3>2 DEF InSequence
  <2>2. CASE s[i].kind = "inner"
    <3>1. PICK j : j = s[i].id
      OBVIOUS
    <3>2. j \in T /\ s[i] = Inner(j) /\ h[j] = H /\ H # 0 /\ t[i] = inners[j].child
      BY <1>2, <1>4, <2>2, <3>1
    <3> QED
      BY <1>1, <3>2, KidsInOrder
  <2> QED
    BY <1>4, <2>1, <2>2 DEF NodeId
<1>6. ASSUME NEW i \in 1 .. Len(s), NEW j \in 1 .. Len(s), i < j,
             NEW a \in 1 .. Len(t[i]), NEW b \in 1 .. Len(t[j])
      PROVE  <<t[i][a], t[j][b]>> \in P
  <2>1. <<s[i], s[j]>> \in P
    BY <1>1, <1>3, <1>6 DEF IsOrdered, InSequence
  <2>2. R[s[i]] # {} /\ R[s[j]] # {} /\ Precedes(R[s[i]], R[s[j]])
    BY <1>1, <2>1 DEF LeftOf
  <2>3. /\ R[t[i][a]] \subseteq R[s[i]] /\ R[t[i][a]] # {}
        /\ R[t[j][b]] \subseteq R[s[j]] /\ R[t[j][b]] # {}
    BY <1>5, <2>2
  <2>4. t[i][a] \in NodeId /\ t[j][b] \in NodeId
    <3>1. t[i] \in Seq(S) /\ t[j] \in Seq(S)
      BY <1>2, ElementOfSeq
    <3>2. t[i][a] \in S /\ t[j][b] \in S
      BY <3>1, ElementOfSeq
    <3> QED
      BY <1>1, <3>2 DEF TreeNodes
  <2>5. Precedes(R[t[i][a]], R[t[j][b]])
    BY <2>2, <2>3 DEF Precedes
  <2> QED
    BY <1>1, <2>3, <2>4, <2>5 DEF LeftOf
<1>7. InSequence(Below(s), P)
  BY <1>2, <1>5, <1>6, FlattenInSequence
<1>8. Len(Below(s)) >= 1
  <2>1. 1 \in 1 .. Len(s)
    BY <1>3
  <2>2. Len(t) >= 1 /\ Len(t[1]) >= 1
    BY <1>2, <1>3, <2>1
  <2> QED
    BY <1>2, <2>2, FlattenFirst
<1>9. \A x \in 1 .. Len(Below(s)) : HeightOf(h, Below(s)[x]) = IF H = 0 THEN 0 ELSE H - 1
  <2>1. PICK w : w = FlattenSeq(t)
    OBVIOUS
  <2>2. \A i \in 1 .. Len(t) : Len(t[i]) \in Nat
    BY <1>2, ElementOfSeq, LenProperties
  <2>3. PICK off : Offsets(off, t)
    BY <1>2, <1>3, <2>2, OffsetsExist
  <2>4. w \in Seq(S) /\ JoinsTo(w, t, off, Len(t))
    BY <1>2, <2>1, <2>3, FlattenIs
  <2>5. ASSUME NEW x \in 1 .. Len(w)
        PROVE  HeightOf(h, w[x]) = IF H = 0 THEN 0 ELSE H - 1
    <3>1. x \in 1 .. off[Len(t)]
      BY <2>4, <2>5 DEF JoinsTo
    <3>2. PICK i \in 1 .. Len(t) : \E a \in 1 .. Len(t[i]) : x = off[i - 1] + a
      BY <2>4, <3>1 DEF JoinsTo
    <3>3. PICK a \in 1 .. Len(t[i]) : x = off[i - 1] + a
      BY <3>2
    <3>4. w[x] = t[i][a]
      BY <2>4, <3>3 DEF JoinsTo
    <3> QED
      BY <1>2, <1>5, <3>4
  <2> QED
    BY <1>2, <2>1, <2>5
<1> QED
  BY <1>1, <1>2, <1>7, <1>8, <1>9 DEF IsOrdered

\* How high the nodes of depth d are, in a tree of height H.
HeightAt(H, d) == IF d <= H THEN H - d ELSE 0

\* Every level of the tree is in order, and of one height.
LEMMA LevelsInOrder ==
  ASSUME NEW h, Good(h), NEW T, NEW R, Routed(T, R), ~IsSplit
  PROVE  \A d \in 0 .. Len(inners) :
             IsOrdered(T, R, h, Level[d], HeightAt(HeightOf(h, root), d))
<1>1. PICK N, level, H : N = Len(inners) /\ level = Level /\ H = HeightOf(h, root)
  OBVIOUS
<1>2. root \in NodeId /\ InTree(T, root)
  BY DEF Good, Scalars, Routed, InOrder, LeavesKnown, Orphans
<1>3. N \in Nat /\ H \in Nat
  BY <1>1, <1>2, HeightIs
<1>4. IsLevel(level, N)
  BY <1>1, <1>3, LevelIs
<1> DEFINE A == {d \in 0 .. N : IsOrdered(T, R, h, level[d], HeightAt(H, d))}
<1>5. 0 \in A
  <2>1. level[0] = <<root>>
    BY <1>3, <1>4 DEF IsLevel
  <2>2. /\ <<root>> \in Seq(TreeNodes(T)) /\ Len(<<root>>) = 1 /\ <<root>>[1] = root
        /\ DOMAIN <<root>> = {1}
    BY <1>2 DEF TreeNodes
  <2>3. HeightAt(H, 0) = H
    BY <1>3 DEF HeightAt
  <2>4. IsOrdered(T, R, h, <<root>>, H)
    BY <1>1, <2>2 DEF IsOrdered, InSequence
  <2>5. 0 \in 0 .. N /\ IsOrdered(T, R, h, level[0], HeightAt(H, 0))
    <3>1. IsOrdered(T, R, h, level[0], HeightAt(H, 0))
      BY ONLY <2>1, <2>3, <2>4
    <3> QED
      BY <1>3, <3>1
  <2> QED
    BY <2>5
<1>6. ASSUME NEW d \in 1 .. N, d - 1 \in A PROVE d \in A
  <2>1. level[d] = Below(level[d - 1]) /\ d \in 0 .. N
    BY <1>3, <1>4 DEF IsLevel
  <2>2. HeightAt(H, d - 1) \in Nat
    BY <1>3 DEF HeightAt
  <2>3. HeightAt(H, d) = IF HeightAt(H, d - 1) = 0 THEN 0 ELSE HeightAt(H, d - 1) - 1
    BY <1>3 DEF HeightAt
  <2>4. IsOrdered(T, R, h, level[d - 1], HeightAt(H, d - 1))
    BY <1>6
  <2>5. IsOrdered(T, R, h, level[d], HeightAt(H, d))
    BY <2>1, <2>2, <2>3, <2>4, NextLevel
  <2> QED
    BY <2>1, <2>5
<1> HIDE DEF A
<1>7. 0 .. N \subseteq A
  BY <1>3, <1>5, <1>6, CountUp
<1> QED
  BY <1>1, <1>7 DEF A

\* The nodes that a route meets are in the levels, in turn.
LEMMA RouteInLevels ==
  ASSUME NEW h, Good(h), NEW T, NEW R, Routed(T, R), ~IsSplit, NEW k \in Key,
         NEW f, f[0] = root, \A d \in 1 .. Len(inners) : f[d] = RouteStep(k, f[d - 1]),
         \A d \in 0 .. Len(inners) : f[d] \in NodesFor(T, R, k)
  PROVE  \A d \in 0 .. Len(inners) : \E i \in DOMAIN Level[d] : Level[d][i] = f[d]
<1>1. PICK N, level, S : N = Len(inners) /\ level = Level /\ S = TreeNodes(T)
  OBVIOUS
<1>2. N \in Nat
  BY <1>1, LenProperties DEF Good, StoreOK
<1>3. IsLevel(level, N)
  BY <1>1, <1>2, LevelIs
<1>4. \A d \in 0 .. N : level[d] \in Seq(S)
  BY <1>1, LevelsInOrder DEF IsOrdered
<1> DEFINE A == {d \in 0 .. N : \E i \in DOMAIN level[d] : level[d][i] = f[d]}
<1>5. 0 \in A
  <2>1. level[0] = <<root>>
    BY <1>2, <1>3 DEF IsLevel
  <2> QED
    BY <1>2, <2>1
<1>6. ASSUME NEW d \in 1 .. N, d - 1 \in A PROVE d \in A
  <2>1. PICK s, x : s = level[d - 1] /\ x = f[d - 1]
    OBVIOUS
  <2>2. /\ level[d] = Below(s) /\ d \in 0 .. N /\ d - 1 \in 0 .. N
        /\ s \in Seq(S) /\ x \in NodesFor(T, R, k) /\ f[d] = RouteStep(k, x)
    BY <1>1, <1>2, <1>3, <1>4, <2>1 DEF IsLevel
  <2>3. PICK i \in DOMAIN s : s[i] = x
    BY <1>6, <2>1
  <2>4. i \in 1 .. Len(s)
    BY <2>2, <2>3, LenProperties
  <2>5. PICK t : t = PiecesBelow(s)
    OBVIOUS
  <2>6. /\ t \in Seq(Seq(S)) /\ Len(t) = Len(s) /\ Below(s) = FlattenSeq(t)
        /\ t[i] = IF x.kind = "inner" THEN inners[x.id].child ELSE <<x>>
    BY <1>1, <2>2, <2>3, <2>4, <2>5, BelowIs
  <2>7. \E a \in 1 .. Len(t[i]) : t[i][a] = f[d]
    <3>1. CASE x.kind = "leaf"
      <4>1. f[d] = x /\ t[i] = <<x>>
        BY <2>2, <2>6, <3>1 DEF RouteStep
      <4> QED
        BY <4>1
    <3>2. CASE x.kind = "inner"
      <4>1. PICK j, n, C : j = x.id /\ n = inners[j] /\ C = NodesAt(Len(leaves), h, h[j] - 1)
        OBVIOUS
      <4>2. x = Inner(j) /\ j \in T /\ k \in R[Inner(j)]
        BY <2>2, <3>2, <4>1 DEF NodesFor, InTree, NodeId, Inner
      <4>3. /\ IsInner(n, Key, C) /\ Routes(n, R[Inner(j)], R) /\ R[Inner(j)] \subseteq Key
        BY <4>1, <4>2, RangeOf
      <4>4. LocateChild(n, k) \in DOMAIN n.child
        BY <4>2, <4>3, RouteDown
      <4>5. f[d] = n.child[LocateChild(n, k)] /\ t[i] = n.child
        BY <2>2, <2>6, <3>2, <4>1 DEF RouteStep, HalfFor
      <4>6. DOMAIN n.child = 1 .. Len(n.child)
        BY <4>3, NodeParts
      <4> QED
        BY <4>4, <4>5, <4>6
    <3> QED
      BY <2>2, <3>1, <3>2 DEF NodesFor, NodeId
  <2>8. PICK a \in 1 .. Len(t[i]) : t[i][a] = f[d]
    BY <2>7
  <2>9. i \in 1 .. Len(t)
    BY <2>4, <2>6
  <2>10. \E y \in DOMAIN FlattenSeq(t) : FlattenSeq(t)[y] = t[i][a]
    BY <2>6, <2>9, FlattenMeets
  <2> QED
    BY <2>2, <2>6, <2>8, <2>10
<1> HIDE DEF A
<1>7. 0 .. N \subseteq A
  BY <1>2, <1>5, <1>6, CountUp
<1> QED
  BY <1>1, <1>7 DEF A

\* Between calls every node that gets keys is in a level, and a leaf is in the last one.
LEMMA NodesInLevels ==
  ASSUME NEW h, Good(h), NEW T, NEW R, Routed(T, R), ~IsSplit,
         NEW x \in NodeId, InTree(T, x), R[x] # {}
  PROVE  /\ \E d \in 0 .. Len(inners) : \E i \in DOMAIN Level[d] : Level[d][i] = x
         /\ x.kind = "leaf" => \E i \in DOMAIN Level[Len(inners)] : Level[Len(inners)][i] = x
<1>1. PICK k : k \in R[x]
  OBVIOUS
<1>2. k \in Key /\ x \in NodesFor(T, R, k)
  BY <1>1 DEF Routed, Routing, NodesFor
<1>3. PICK f : /\ RouteOf(k) = Range(f) /\ DOMAIN f = 0 .. Len(inners)
               /\ Len(inners) \in Nat
               /\ f[0] = HalfFor(k, root) /\ k \in Known(R)[root]
               /\ \A d \in 1 .. Len(inners) : f[d] = RouteStep(k, f[d - 1])
               /\ \A d \in 0 .. Len(inners) : f[d] \in NodesFor(T, R, k)
               /\ f[Len(inners)].kind = "leaf"
  BY <1>2, RouteRuns
<1>4. PICK N : N = Len(inners)
  OBVIOUS
<1>5. \A d \in 0 .. N : \E i \in DOMAIN Level[d] : Level[d][i] = f[d]
  <2>1. f[0] = root
    BY <1>3 DEF HalfFor
  <2> QED
    BY <1>2, <1>3, <1>4, <2>1, RouteInLevels
<1>6. \E d \in 0 .. N : f[d] = x
  BY <1>2, <1>3, <1>4, RouteMeets DEF Range
<1>7. x.kind = "leaf" => f[N] = x
  <2> SUFFICES ASSUME x.kind = "leaf" PROVE f[N] = x
    OBVIOUS
  <2>1. PICK l, m : l = x.id /\ m = f[N].id
    OBVIOUS
  <2>2. f[N] \in NodesFor(T, R, k) /\ f[N].kind = "leaf"
    BY <1>3, <1>4
  <2>3. /\ x = Leaf(l) /\ l \in LeafAlive /\ k \in R[Leaf(l)]
        /\ f[N] = Leaf(m) /\ m \in LeafAlive /\ k \in R[Leaf(m)]
    BY <1>2, <2>1, <2>2 DEF NodesFor, NodeId, Leaf, InTree
  <2> QED
    BY <2>3, RoutedMeans
<1>8. N \in 0 .. N
  BY <1>3, <1>4
<1> QED
  BY <1>4, <1>5, <1>6, <1>7, <1>8

\* The last level lists the leaves in the order of their keys.
LEMMA BelowListed ==
  ASSUME NEW h, Good(h), NEW T, NEW R, Routed(T, R), ~IsSplit, EmptyWithoutKeys,
         NEW p \in [LeafAlive -> Int], Orders(p, R),
         \A l, m \in LeafAlive : l # m => p[l] # p[m],
         NEW below, below = Level[Len(inners)],
         NEW e, e = [i \in DOMAIN below |-> below[i].id]
  PROVE  Lists(e, LeafAlive, p)
<1>1. PICK N, H, S, A : /\ N = Len(inners) /\ H = HeightOf(h, root)
                        /\ S = TreeNodes(T) /\ A = LeafAlive
  OBVIOUS
<1>2. root \in NodeId /\ InTree(T, root)
  BY DEF Good, Scalars, Routed, InOrder, LeavesKnown, Orphans
<1>3. N \in Nat /\ H \in Nat /\ H <= N
  BY <1>1, <1>2, HeightIs
<1>4. HeightAt(H, N) = 0
  BY <1>3 DEF HeightAt
<1>5. IsOrdered(T, R, h, below, 0)
  <2>1. N \in 0 .. N
    BY <1>3
  <2> QED
    BY <1>1, <1>4, <2>1, LevelsInOrder
<1>6. /\ below \in Seq(S) /\ Len(below) \in Nat /\ DOMAIN below = 1 .. Len(below)
      /\ Len(below) >= 1
  BY <1>1, <1>5, LenProperties DEF IsOrdered
<1>7. \A i \in 1 .. Len(below) :
          /\ below[i] \in NodeId /\ below[i].id \in A /\ below[i] = Leaf(below[i].id)
  <2> SUFFICES ASSUME NEW i \in 1 .. Len(below)
               PROVE  /\ below[i] \in NodeId /\ below[i].id \in A
                      /\ below[i] = Leaf(below[i].id)
    OBVIOUS
  <2>1. below[i] \in S /\ HeightOf(h, below[i]) = 0
    BY <1>5, <1>6, ElementOfSeq DEF IsOrdered
  <2>2. below[i] \in NodeId /\ InTree(T, below[i])
    BY <1>1, <2>1 DEF TreeNodes
  <2>3. below[i].kind = "leaf"
    BY <2>1, <2>2, HeightIs
  <2> QED
    BY <1>1, <2>2, <2>3 DEF InTree, Leaf, NodeId
<1>8. /\ e \in Seq(A) /\ Len(e) = Len(below) /\ DOMAIN e = 1 .. Len(e)
      /\ \A i \in 1 .. Len(e) : e[i] \in A /\ below[i] = Leaf(e[i])
  <2>1. e \in Seq(A) /\ Len(e) = Len(below)
    BY <1>6, <1>7, IsASeq
  <2> QED
    BY <1>6, <1>7, <2>1
<1>9. ASSUME NEW x \in A PROVE \E i \in 1 .. Len(e) : e[i] = x
  <2>1. x \in Nat /\ x \in LeafAlive
    BY <1>1, LeavesAre
  <2>2. CASE R[Leaf(x)] # {}
    <3>1. Leaf(x) \in NodeId /\ InTree(T, Leaf(x)) /\ Leaf(x).kind = "leaf" /\ Leaf(x).id = x
      BY <2>1 DEF NodeId, InTree, Leaf
    <3>2. PICK i \in DOMAIN below : below[i] = Leaf(x)
      BY <1>1, <2>2, <3>1, NodesInLevels
    <3>3. e[i] = x
      BY <3>1, <3>2
    <3> QED
      BY <1>6, <1>8, <3>2, <3>3
  <2>3. CASE R[Leaf(x)] = {}
    <3>1. Key = {}
      BY <2>1, <2>3, RangedLeaves DEF Ranged
    <3>2. leaves = <<EmptyLeaf>>
      BY <3>1 DEF EmptyWithoutKeys
    <3>3. DOMAIN leaves = {1}
      BY <3>2
    <3>4. A \subseteq {1}
      BY <1>1, <3>3 DEF LeafAlive
    <3>5. 1 \in 1 .. Len(e)
      BY <1>6, <1>8
    <3> QED
      BY <1>8, <3>4, <3>5
  <2> QED
    BY <2>2, <2>3
<1>10. ASSUME NEW i \in 1 .. Len(e), NEW j \in 1 .. Len(e), i < j PROVE p[e[i]] < p[e[j]]
  <2>1. PICK l, m : l = e[i] /\ m = e[j]
    OBVIOUS
  <2>2. l \in A /\ m \in A /\ below[i] = Leaf(l) /\ below[j] = Leaf(m)
    BY <1>8, <2>1
  <2>3. <<Leaf(l), Leaf(m)>> \in LeftOf(R)
    <3>1. InSequence(below, LeftOf(R)) /\ i \in DOMAIN below /\ j \in DOMAIN below
      BY <1>5, <1>6, <1>8 DEF IsOrdered
    <3>2. <<below[i], below[j]>> \in LeftOf(R)
      BY ONLY <1>10, <3>1 DEF InSequence
    <3> QED
      BY ONLY <2>2, <3>2
  <2>4. R[Leaf(l)] # {} /\ R[Leaf(m)] # {} /\ Ahead(R, l, m)
    BY <2>3 DEF LeftOf, Ahead
  <2>5. R[Leaf(l)] \subseteq Int /\ R[Leaf(m)] \subseteq Int
    <3>1. Leaf(l) \in NodeId /\ Leaf(m) \in NodeId
      BY <2>3 DEF LeftOf
    <3>2. R[Leaf(l)] \subseteq Key /\ R[Leaf(m)] \subseteq Key
      BY <3>1 DEF Routed, Routing
    <3> QED
      BY <3>2, KeyAssumption
  <2>6. ~Ahead(R, m, l)
    BY <2>4, <2>5, PrecedesOrder DEF Ahead
  <2>7. l # m
    BY <2>4, <2>6
  <2>8. ~(p[m] < p[l])
    BY <1>1, <2>2, <2>6 DEF Orders
  <2>9. p[l] \in Int /\ p[m] \in Int /\ p[l] # p[m]
    BY <1>1, <2>2, <2>7
  <2> QED
    BY <2>1, <2>8, <2>9
<1> QED
  BY <1>1, <1>8, <1>9, <1>10 DEF Lists

\* The chain lists them in the same order.
LEMMA BelowIsChain ==
  ASSUME NEW h, Good(h), NEW T, NEW R, Routed(T, R), ~IsSplit, EmptyWithoutKeys
  PROVE  LET below == Level[Len(inners)]
         IN  [i \in DOMAIN below |-> below[i].id] = Chain
<1>1. PICK below, e, c : /\ below = Level[Len(inners)] /\ c = Chain
                         /\ e = [i \in DOMAIN below |-> below[i].id]
  OBVIOUS
<1>2. PICK p : Guides(p, FirstLeaf) /\ Orders(p, R) /\ Meets(c, p)
  BY <1>1, ChainMeets
<1>3. p \in [LeafAlive -> Int]
  BY <1>2 DEF Guides
<1>4. Lists(c, LeafAlive, p)
  BY <1>2 DEF Meets, Lists
<1>5. ASSUME NEW l \in LeafAlive, NEW m \in LeafAlive, l # m PROVE p[l] # p[m]
  <2>1. PICK i \in 1 .. Len(c) : c[i] = l
    BY <1>2 DEF Meets
  <2>2. PICK j \in 1 .. Len(c) : c[j] = m
    BY <1>2 DEF Meets
  <2>3. Len(c) \in Nat /\ p[l] \in Int /\ p[m] \in Int
    BY <1>2, <1>3, LenProperties DEF Meets
  <2>4. i < j \/ j < i
    BY <1>5, <2>1, <2>2, <2>3
  <2>5. p[l] < p[m] \/ p[m] < p[l]
    BY <1>2, <2>1, <2>2, <2>4 DEF Meets
  <2> QED
    BY <2>3, <2>5
<1>6. Lists(e, LeafAlive, p)
  BY <1>1, <1>2, <1>3, <1>5, BelowListed
<1>7. e = c
  BY <1>3, <1>4, <1>6, ListsAreOne
<1> QED
  BY <1>1, <1>7

\* The inner nodes that the levels meet are those that the tree owns.
LEMMA InnerOfTreeIs ==
  ASSUME NEW h, Good(h), NEW T, NEW R, Routed(T, R), ~IsSplit
  PROVE  InnerOfTree = T
<1>1. InnerOfTree \subseteq T
  BY InnerOfTreeOwned DEF Routed
<1>2. PICK level, N : level = Level /\ N = Len(inners)
  OBVIOUS
<1>3. N \in Nat
  BY <1>2, LenProperties DEF Good, StoreOK
<1>4. DOMAIN level = 0 .. N
  BY <1>2, <1>3, LevelIs DEF IsLevel
<1>5. ASSUME NEW i \in T PROVE i \in InnerOfTree
  <2>1. i \in DOMAIN inners /\ i \in Nat
    <3>1. i \in DOMAIN inners
      BY RangeOf
    <3> QED
      BY <1>2, <1>3, <3>1, LenProperties DEF Good, StoreOK
  <2>2. PICK x : x = Inner(i)
    OBVIOUS
  <2>3. x \in NodeId /\ InTree(T, x) /\ R[x] # {} /\ x.kind = "inner" /\ x.id = i
    BY <2>1, <2>2, NodesGetKeys DEF NodeId, Inner, InTree
  <2>4. PICK d \in 0 .. N : \E a \in DOMAIN level[d] : level[d][a] = x
    BY <1>2, <2>3, NodesInLevels
  <2>5. x \in ToSet(level[d])
    BY <2>4 DEF ToSet
  <2>6. x \in Reachable
    BY <1>2, <1>4, <2>5 DEF Reachable
  <2> QED
    BY <2>3, <2>6 DEF InnerOfTree
<1> QED
  BY <1>1, <1>5

\* The levels, the chain and the store agree.
LEMMA ShapeIsChain ==
  ASSUME ShapeInv
  PROVE  TreeIsChain
<1> SUFFICES ASSUME pc = "idle"
             PROVE  LET level == Level
                        below == level[Len(inners)]
                    IN  /\ [i \in DOMAIN below |-> below[i].id] = Chain
                        /\ \A d \in DOMAIN level :
                               \A a, b \in ToSet(level[d]) : a.kind = b.kind
                        /\ InnerOfTree \cap takenInners = {}
                        /\ \A i \in DOMAIN inners \ (InnerOfTree \cup takenInners) :
                               InnerSize(inners[i]) = 0
  BY DEF TreeIsChain
<1>1. PICK h : Good(h)
  BY DEF ShapeInv
<1>2. PICK T, R : Shaped(T, R)
  BY DEF ShapeInv
<1>3. Routed(T, R) /\ Spared(T) /\ EmptyWithoutKeys
  BY <1>2 DEF ShapeInv, Shaped
<1>4. ~IsSplit
  BY DEF IsSplit
<1>5. PICK level, N : level = Level /\ N = Len(inners)
  OBVIOUS
<1>6. ASSUME NEW d \in DOMAIN level, NEW a \in ToSet(level[d]), NEW b \in ToSet(level[d])
      PROVE  a.kind = b.kind
  <2>1. N \in Nat
    BY <1>1, <1>5, LenProperties DEF Good, StoreOK
  <2>2. d \in 0 .. N
    BY <1>5, <1>6, <2>1, LevelIs DEF IsLevel
  <2>3. PICK H, s : s = level[d] /\ IsOrdered(T, R, h, s, H)
    BY <1>1, <1>3, <1>4, <1>5, <2>2, LevelsInOrder
  <2>4. \A i \in 1 .. Len(s) : s[i] \in TreeNodes(T) /\ HeightOf(h, s[i]) = H
    BY <2>3, ElementOfSeq DEF IsOrdered
  <2>5. DOMAIN s = 1 .. Len(s)
    BY <2>3, LenProperties DEF IsOrdered
  <2>6. a \in TreeNodes(T) /\ HeightOf(h, a) = H /\ b \in TreeNodes(T) /\ HeightOf(h, b) = H
    BY <1>6, <2>3, <2>4, <2>5 DEF ToSet
  <2>7. \A x \in {a, b} : x \in NodeId /\ (H = 0 <=> x.kind = "leaf")
    <3> SUFFICES ASSUME NEW x \in {a, b} PROVE x \in NodeId /\ (H = 0 <=> x.kind = "leaf")
      OBVIOUS
    <3>1. x \in NodeId /\ InTree(T, x) /\ HeightOf(h, x) = H
      BY <2>6 DEF TreeNodes
    <3> QED
      BY <1>1, <1>3, <3>1, HeightIs
  <2> QED
    BY <2>7 DEF NodeId
<1>7. InnerOfTree = T
  BY <1>1, <1>3, <1>4, InnerOfTreeIs
<1>8. LET below == Level[Len(inners)] IN [i \in DOMAIN below |-> below[i].id] = Chain
  BY <1>1, <1>3, <1>4, BelowIsChain
<1> QED
  BY <1>3, <1>5, <1>6, <1>7, <1>8 DEF Spared

(***************************************************************************)
(* TreeIsChain always holds: between calls the last level of the tree, met *)
(* from the root through children, lists the same leaves in the same order *)
(* as the links next, levels do not mix inner nodes with leaves, no taken  *)
(* node is in the tree, and a node that fell out of it has no key.         *)
(***************************************************************************)
THEOREM TreeStaysChain == Spec => []TreeIsChain
<1>1. ShapeInv => TreeIsChain
  BY ShapeIsChain
<1> QED
  BY <1>1, ShapeInvHolds, PTL

=============================================================================
