------------------------ MODULE BufferedHashsetProofs ------------------------
(***************************************************************************)
(* The set of known states, for every set of values, every size of a block *)
(* and any number of calls: the index is a balanced search tree whatever   *)
(* is inserted, every block is in one chain that is what its entry in the  *)
(* index says, the hash of a value leads to the chain that holds it, and   *)
(* the whole answers like a set.  First the index, then the chains, then   *)
(* the two together.                                                       *)
(***************************************************************************)
EXTENDS BufferedHashset, BlockChainProofs

-----------------------------------------------------------------------------
(* The shape of a tree. *)

Nodes(K, D) ==
    [left : K \cup {Nil}, right : K \cup {Nil}, parent : K \cup {Nil},
     prev : K \cup {Nil}, next : K \cup {Nil}, height : Nat, data : D]

Trees(K, D) == [root : K \cup {Nil}, first : K \cup {Nil}, node : [K -> Nodes(K, D)]]

(* U gives the keys under each node.                                       *)
Below(U, c) == IF c = Nil THEN {} ELSE U[c]

ShapeAt(t, U, n) ==
    LET l == t.node[n].left
        r == t.node[n].right
    IN  /\ U[n] = {n} \cup Below(U, l) \cup Below(U, r)
        /\ \A x \in Below(U, l) : x < n
        /\ \A x \in Below(U, r) : n < x
        /\ l # Nil => t.node[l].parent = n
        /\ r # Nil => t.node[r].parent = n

Shape(t, K, U) ==
    /\ K \in SUBSET Nat /\ IsFiniteSet(K)
    /\ U \in [K -> SUBSET K]
    /\ t.root \in K /\ U[t.root] = K /\ t.node[t.root].parent = Nil
    /\ \A n \in K : ShapeAt(t, U, n)

LEMMA NilIsNone == ASSUME NEW K \in SUBSET Nat PROVE Nil \notin K
  BY DEF Nil

LEMMA KeysAre ==
    ASSUME NEW K, NEW D, NEW t \in Trees(K, D)
    PROVE  /\ Keys(t) = K /\ t.node \in [K -> Nodes(K, D)]
           /\ \A n \in K : t.node[n] \in Nodes(K, D)
  BY DEF Trees, Keys

(* Facts on one node.                                                      *)
LEMMA NodeIs ==
    ASSUME NEW K, NEW D, NEW t \in Trees(K, D), NEW U, Shape(t, K, U), NEW n \in K
    PROVE  /\ n \in U[n] /\ U[n] \in SUBSET K
           /\ t.node[n].left \in K \cup {Nil} /\ t.node[n].right \in K \cup {Nil}
           /\ t.node[n].parent \in K \cup {Nil} /\ t.node[n].height \in Nat
           /\ t.node[n].left # n /\ t.node[n].right # n
           /\ Below(U, t.node[n].left) \in SUBSET (U[n] \ {n})
           /\ Below(U, t.node[n].right) \in SUBSET (U[n] \ {n})
           /\ Below(U, t.node[n].left) \cap Below(U, t.node[n].right) = {}
<1>1. t.node[n] \in Nodes(K, D) /\ ShapeAt(t, U, n) /\ U \in [K -> SUBSET K] /\ K \in SUBSET Nat
  BY KeysAre DEF Shape
<1> DEFINE l == t.node[n].left
           r == t.node[n].right
<1>2. /\ l \in K \cup {Nil} /\ r \in K \cup {Nil}
      /\ t.node[n].parent \in K \cup {Nil} /\ t.node[n].height \in Nat
  BY <1>1 DEF Nodes
<1>3. /\ U[n] = {n} \cup Below(U, l) \cup Below(U, r)
      /\ \A x \in Below(U, l) : x < n
      /\ \A x \in Below(U, r) : n < x
      /\ U[n] \in SUBSET Nat
  BY <1>1 DEF ShapeAt
<1>4. Nil \notin K
  BY <1>1, NilIsNone
<1>5. \A c \in K : c \in Below(U, c)
  <2> SUFFICES ASSUME NEW c \in K PROVE c \in Below(U, c)
    OBVIOUS
  <2>1. c \in U[c]
    BY DEF Shape, ShapeAt
  <2> QED
    BY <2>1, <1>4 DEF Below
<1> HIDE DEF l, r
<1>6. \A x \in U[n] : ~ (x < x) /\ x \in Nat /\ n \in Nat
  BY <1>1, <1>3
<1>7. n \notin Below(U, l) /\ n \notin Below(U, r)
  BY <1>3, <1>6
<1>8. \A x \in U[n] : ~ (x < n /\ n < x)
  BY <1>6
<1>9. Below(U, l) \cap Below(U, r) = {}
  BY <1>3, <1>8
<1>10. l # n /\ r # n
  BY <1>5, <1>7
<1> QED
  BY <1>1, <1>2, <1>3, <1>7, <1>9, <1>10 DEF l, r
(* How many keys are under a node: fewer than under one above it.          *)
LEMMA Smaller ==
    ASSUME NEW K, NEW D, NEW t \in Trees(K, D), NEW U, Shape(t, K, U), NEW n \in K
    PROVE  /\ IsFiniteSet(U[n]) /\ Cardinality(U[n]) \in Nat
           /\ 0 < Cardinality(U[n]) /\ Cardinality(U[n]) <= Cardinality(K)
           /\ \A c \in K : U[c] \in SUBSET (U[n] \ {n}) => Cardinality(U[c]) < Cardinality(U[n])
<1>1. \A m \in K : IsFiniteSet(U[m]) /\ Cardinality(U[m]) \in Nat
                 /\ Cardinality(U[m]) <= Cardinality(K)
  BY NodeIs, FS_Subset, FS_CardinalityType DEF Shape
<1> DEFINE S == U[n]
<1>2. n \in S /\ IsFiniteSet(S) /\ Cardinality(S) \in Nat
  BY <1>1, NodeIs
<1> HIDE DEF S
<1>3. /\ IsFiniteSet(S \ {n}) /\ Cardinality(S \ {n}) = Cardinality(S) - 1
      /\ Cardinality(S \ {n}) \in Nat
  BY <1>2, FS_RemoveElement, FS_CardinalityType
<1>4. ASSUME NEW c \in K, U[c] \in SUBSET (S \ {n}) PROVE Cardinality(U[c]) < Cardinality(S)
  <2> DEFINE R == U[c]
  <2>1. R \in SUBSET (S \ {n}) /\ Cardinality(R) \in Nat
    BY <1>1, <1>4
  <2> HIDE DEF R
  <2>2. Cardinality(R) <= Cardinality(S \ {n})
    BY <2>1, <1>3, FS_Subset
  <2> QED
    BY <2>1, <2>2, <1>2, <1>3 DEF R
<1>5. 0 < Cardinality(S)
  BY <1>2, <1>3
<1> QED
  BY <1>1, <1>4, <1>5 DEF S

(* A set that has a node when it has its children has all of them.         *)
LEMMA FromBelow ==
    ASSUME NEW K, NEW D, NEW t \in Trees(K, D), NEW U, Shape(t, K, U), NEW T,
           \A n \in K : t.node[n].left \in T \cup {Nil} /\ t.node[n].right \in T \cup {Nil}
                        => n \in T
    PROVE  \A n \in K : n \in T
<1> DEFINE Out == {n \in K : n \notin T}
           Size(n) == Cardinality(U[n])
           Sizes == {Size(n) : n \in Out}
<1> SUFFICES ASSUME Out # {} PROVE FALSE
  OBVIOUS
<1>1. \A n \in K : IsFiniteSet(U[n]) /\ Size(n) \in Nat
  BY NodeIs, FS_Subset, FS_CardinalityType DEF Shape
<1>2. PICK n \in Out : \A m \in Out : Size(n) <= Size(m)
  <2>1. Sizes \in SUBSET Nat /\ Sizes # {}
    BY <1>1
  <2> HIDE DEF Sizes, Size
  <2>2. PICK x \in Sizes : \A y \in Sizes : x <= y
    BY <2>1, LeastNumber
  <2> QED
    BY <2>2 DEF Sizes
<1>3. ASSUME NEW c \in K, Below(U, c) \in SUBSET (U[n] \ {n}) PROVE c \in T
  <2>1. U[c] \in SUBSET (U[n] \ {n})
    BY <1>3, NilIsNone DEF Shape, Below
  <2>6. ~ (Size(n) <= Size(c))
    BY <2>1, <1>1, <1>3, Smaller
  <2> QED
    BY <1>2, <2>6
<1>4. n \in K /\ n \notin T
  BY <1>2
<1>5. /\ t.node[n].left \in T \cup {Nil}
      /\ t.node[n].right \in T \cup {Nil}
  BY <1>3, <1>4, NodeIs
<1> QED
  BY <1>4, <1>5

(* n is the child of a node of S.                                          *)
Hangs(t, S, n) ==
    LET p == t.node[n].parent IN p \in S /\ n \in {t.node[p].left, t.node[p].right}

(* What is under a node under another is under the other; the parent of a  *)
(* node under another is under it too, or is it.                           *)
LEMMA Nested ==
    ASSUME NEW K, NEW D, NEW t \in Trees(K, D), NEW U, Shape(t, K, U),
           NEW x \in K, NEW n \in U[x]
    PROVE  /\ n \in K /\ U[n] \in SUBSET U[x]
           /\ x # n => Hangs(t, U[x], n)
<1> DEFINE Fits(y, m) ==
             /\ U[m] \in SUBSET U[y]
             /\ y # m => Hangs(t, U[y], m)
           T == {y \in K : \A m \in U[y] : Fits(y, m)}
<1>1. ASSUME NEW y \in K, t.node[y].left \in T \cup {Nil}, t.node[y].right \in T \cup {Nil}
      PROVE  y \in T
  <2>1. ASSUME NEW m \in U[y] PROVE Fits(y, m)
    <3> DEFINE l == t.node[y].left
               r == t.node[y].right
    <3>1. /\ U[y] = {y} \cup Below(U, l) \cup Below(U, r)
          /\ l # Nil => t.node[l].parent = y
          /\ r # Nil => t.node[r].parent = y
          /\ y \in U[y]
      BY NodeIs DEF Shape, ShapeAt
    <3>2. CASE m = y
      BY <3>2
    <3>3. ASSUME NEW c \in {l, r}, m \in Below(U, c) PROVE Fits(y, m)
      <4>1. c # Nil /\ m \in U[c] /\ c \in T
        BY <1>1, <3>3 DEF Below
      <4>2. Fits(c, m) /\ c \in K
        BY <4>1
      <4>3. U[c] \in SUBSET U[y] /\ t.node[c].parent = y
        BY <3>1, <4>1 DEF Below
      <4> HIDE DEF l, r
      <4>4. CASE c = m
        <5>1. t.node[m].parent = y /\ m \in {t.node[y].left, t.node[y].right}
          BY <4>3, <4>4 DEF l, r
        <5> QED
          BY <3>1, <4>3, <4>4, <5>1 DEF Hangs
      <4>5. CASE c # m
        BY <4>2, <4>3, <4>5 DEF Hangs
      <4> QED
        BY <4>4, <4>5
    <3> HIDE DEF l, r, Fits
    <3> QED
      BY <3>1, <3>2, <3>3
  <2> HIDE DEF Fits
  <2> QED
    BY <2>1
<1> HIDE DEF T
<1>2. \A y \in K : y \in T
  BY <1>1, FromBelow
<1>3. n \in K
  BY NodeIs
<1> QED
  BY <1>2, <1>3 DEF T

(* Two nodes under each other are one.                                     *)
LEMMA NestedOnce ==
    ASSUME NEW K, NEW D, NEW t \in Trees(K, D), NEW U, Shape(t, K, U),
           NEW x \in K, NEW n \in U[x], x \in U[n]
    PROVE  x = n
<1> SUFFICES ASSUME x # n PROVE FALSE
  OBVIOUS
<1>1. n \in K /\ U[n] \in SUBSET U[x] /\ U[x] \in SUBSET U[n]
  BY Nested
<1>2. x \in Below(U, t.node[n].left) \/ x \in Below(U, t.node[n].right)
  BY <1>1 DEF Shape, ShapeAt
<1>3. ASSUME NEW c \in K \cup {Nil}, x \in Below(U, c), Below(U, c) \in SUBSET (U[n] \ {n})
      PROVE  FALSE
  <2>1. c \in K /\ x \in U[c] /\ n \notin U[c]
    BY <1>3 DEF Below
  <2>2. U[x] \in SUBSET U[c]
    BY <2>1, Nested
  <2> QED
    BY <2>1, <2>2
<1> QED
  BY <1>1, <1>2, <1>3, NodeIs

(* The root is the node without a parent.                                  *)
LEMMA RootIs ==
    ASSUME NEW K, NEW D, NEW t \in Trees(K, D), NEW U, Shape(t, K, U), NEW n \in K
    PROVE  t.node[n].parent = Nil <=> n = t.root
<1> DEFINE r == t.root
<1>1. r \in K /\ n \in U[r] /\ t.node[r].parent = Nil /\ K \in SUBSET Nat
  BY DEF Shape
<1> HIDE DEF r
<1>2. r # n => t.node[n].parent \in K
  <2>1. r # n => Hangs(t, U[r], n)
    BY <1>1, Nested
  <2> QED
    BY <2>1, <1>1, NodeIs DEF Hangs
<1> QED
  BY <1>1, <1>2, NilIsNone DEF r
-----------------------------------------------------------------------------
(* The search for the place of a key. *)

(* The keys beside those under n are not between them and k.               *)
Apart(K, U, k, n) ==
    \A x \in K \ U[n] : \A y \in U[n] : (x <= k => x < y) /\ (k < x => y < x)

EndOfPath(t, k, n) == Down(t, n, k) = n

LEMMA DownIs ==
    ASSUME NEW K, NEW D, NEW t \in Trees(K, D), NEW U, Shape(t, K, U), NEW k \in Nat,
           NEW n \in K, Apart(K, U, k, n)
    PROVE  LET c == Down(t, n, k)
           IN  /\ c \in K /\ Apart(K, U, k, c)
               /\ c # n => Cardinality(U[c]) < Cardinality(U[n])
<1> DEFINE c == Down(t, n, k)
           l == t.node[n].left
           r == t.node[n].right
<1>0. /\ U[n] \in SUBSET K /\ l \in K \cup {Nil} /\ r \in K \cup {Nil}
      /\ Below(U, l) \in SUBSET (U[n] \ {n}) /\ Below(U, r) \in SUBSET (U[n] \ {n})
  BY NodeIs
<1>1. /\ U[n] = {n} \cup Below(U, l) \cup Below(U, r)
      /\ \A x \in Below(U, l) : x < n
      /\ \A x \in Below(U, r) : n < x
      /\ l \in K \cup {Nil} /\ r \in K \cup {Nil}
      /\ Below(U, l) \in SUBSET (U[n] \ {n}) /\ Below(U, r) \in SUBSET (U[n] \ {n})
      /\ K \in SUBSET Nat /\ U[n] \in SUBSET Nat
  <2>1. K \in SUBSET Nat /\ ShapeAt(t, U, n)
    BY DEF Shape
  <2> QED
    BY <1>0, <2>1 DEF ShapeAt
<1> HIDE DEF l, r
<1>2. CASE c = n
  BY <1>2
<1>3. CASE c # n
  <2>1. c \in K /\ c = (IF k < n THEN l ELSE r) /\ Below(U, c) = U[c]
    BY <1>1, <1>3, NilIsNone DEF Down, l, r, Below
  <2> HIDE DEF c
  <2>2. U[c] \in SUBSET (U[n] \ {n})
    BY <1>1, <2>1
  <2>3. ASSUME NEW x \in K \ U[c], NEW y \in U[c] PROVE (x <= k => x < y) /\ (k < x => y < x)
    <3>1. CASE x \notin U[n]
      BY <2>2, <3>1 DEF Apart
    <3>2. CASE x \in U[n] /\ k < n
      <4>1. (x = n \/ n < x) /\ y < n /\ x \in Nat /\ y \in Nat /\ n \in Nat
        BY <1>1, <2>1, <2>2, <2>3, <3>2
      <4> QED
        BY <3>2, <4>1
    <3>3. CASE x \in U[n] /\ ~ (k < n)
      <4>1. (x = n \/ x < n) /\ n < y /\ x \in Nat /\ y \in Nat /\ n \in Nat
        BY <1>1, <2>1, <2>2, <2>3, <3>3
      <4> QED
        BY <3>3, <4>1
    <3> QED
      BY <3>1, <3>2, <3>3
  <2>4. Cardinality(U[c]) < Cardinality(U[n])
    BY <2>1, <2>2, Smaller
  <2>5. Apart(K, U, k, c)
    BY <2>3 DEF Apart
  <2> QED
    BY <2>1, <2>4, <2>5 DEF c
<1> QED
  BY <1>2, <1>3

LEMMA PathEnds ==
    ASSUME NEW K, NEW D, NEW t \in Trees(K, D), NEW U, Shape(t, K, U), NEW k \in Nat
    PROVE  LET p == LastOnPath(t, k)
           IN  p \in K /\ Apart(K, U, k, p) /\ EndOfPath(t, k, p)
<1> DEFINE N == Cardinality(K)
           Dom == {n \in K : Apart(K, U, k, n)}
           f == [n \in Dom |-> Down(t, n, k)]
           turn[i \in 0..N] == IF i = 0 THEN t.root ELSE Down(t, turn[i - 1], k)
<1>1. N \in Nat /\ Keys(t) = K
  BY FS_CardinalityType, KeysAre DEF Shape
<1>2. t.root \in Dom
  BY DEF Shape, Apart
<1>3. \A n \in Dom : f[n] \in Dom
  BY DownIs
<1>4. PICK g : Turns(g, N, Dom, t.root, f)
  <2> HIDE DEF N, Dom, f
  <2> QED
    BY <1>1, <1>2, <1>3, Iteration
<1>5. turn = [i \in 0..N |-> IF i = 0 THEN t.root ELSE Down(t, turn[i - 1], k)]
  <2>1. g = [i \in 0..N |-> IF i = 0 THEN t.root ELSE Down(t, g[i - 1], k)]
    <3>1. \A i \in 0..N : i # 0 => i \in 1..N /\ i - 1 \in 0..N
      BY <1>1
    <3> HIDE DEF N
    <3> QED
      BY <1>4, <3>1 DEF Turns
  <2> QED
    BY <2>1
<1>6. LastOnPath(t, k) = turn[N]
  BY <1>1 DEF LastOnPath
<1> HIDE DEF turn
<1>7. \A i \in 0..N : turn[i] = g[i] /\ g[i] \in Dom
  <2> DEFINE T == {i \in 0..N : turn[i] = g[i]}
  <2>1. 0 \in T
    BY <1>1, <1>4, <1>5 DEF Turns
  <2>2. ASSUME NEW i \in 1..N, i - 1 \in T PROVE i \in T
    <3>1. i \in 0..N /\ i # 0 /\ i - 1 \in 0..N
      BY <1>1
    <3> HIDE DEF N
    <3> QED
      BY <1>4, <1>5, <2>2, <3>1 DEF Turns
  <2> HIDE DEF T
  <2>3. \A i \in 0..N : i \in T
    BY <1>1, <2>1, <2>2, CountUp
  <2> QED
    BY <1>4, <2>3 DEF T, Turns
<1> DEFINE T == {i \in 0..N : EndOfPath(t, k, g[i]) \/ Cardinality(U[g[i]]) <= N - i}
<1>8. 0 \in T
  BY <1>1, <1>4 DEF Turns, Shape
<1>9. ASSUME NEW i \in 1..N, i - 1 \in T PROVE i \in T
  <2>1. i \in 0..N /\ i - 1 \in 0..N /\ i \in Nat
    BY <1>1
  <2> DEFINE n == g[i - 1]
             c == g[i]
  <2>2. n \in K /\ Apart(K, U, k, n) /\ c = Down(t, n, k) /\ c \in K
    BY <1>4, <1>7, <2>1 DEF Turns
  <2>3. EndOfPath(t, k, n) \/ Cardinality(U[n]) <= N - (i - 1)
    BY <1>9
  <2> HIDE DEF n, c, N
  <2>4. CASE EndOfPath(t, k, n)
    BY <2>1, <2>2, <2>4 DEF EndOfPath, c
  <2>5. CASE ~ EndOfPath(t, k, n)
    <3>1. Cardinality(U[c]) < Cardinality(U[n])
      BY <2>2, <2>5, DownIs DEF EndOfPath
    <3>2. Cardinality(U[c]) \in Nat /\ Cardinality(U[n]) \in Nat
      BY <2>2, Smaller
    <3>3. Cardinality(U[c]) <= N - i
      BY <1>1, <2>1, <2>3, <2>5, <3>1, <3>2
    <3> QED
      BY <2>1, <3>3 DEF c
  <2> QED
    BY <2>4, <2>5
<1>10. EndOfPath(t, k, g[N])
  <2>1. \A i \in 0..N : i \in T
    <3> HIDE DEF T, N
    <3> QED
      BY <1>1, <1>8, <1>9, CountUp
  <2>2. N \in 0..N /\ N - N = 0
    BY <1>1
  <2>3. g[N] \in K /\ (EndOfPath(t, k, g[N]) \/ Cardinality(U[g[N]]) <= 0)
    BY <2>1, <2>2, <1>7
  <2> HIDE DEF N, T
  <2>4. Cardinality(U[g[N]]) \in Nat /\ 0 < Cardinality(U[g[N]])
    BY <2>3, Smaller
  <2> QED
    BY <2>3, <2>4
<1>11. N \in 0..N
  BY <1>1
<1> QED
  BY <1>6, <1>7, <1>10, <1>11
-----------------------------------------------------------------------------
(* The links between neighbours. *)

IsNext(K, n, m) ==
    \/ m = Nil /\ \A x \in K : x <= n
    \/ m \in K /\ n < m /\ \A x \in K : n < x => m <= x

IsPrev(K, n, m) ==
    \/ m = Nil /\ \A x \in K : n <= x
    \/ m \in K /\ m < n /\ \A x \in K : x < n => x <= m

Threaded(t, K) ==
    /\ t.first \in K /\ \A x \in K : t.first <= x
    /\ \A n \in K : IsNext(K, n, t.node[n].next) /\ IsPrev(K, n, t.node[n].prev)

IsFloor(K, k, b) == b \in K /\ b <= k /\ \A x \in K : x <= k => x <= b

(* Where the path to k ends there is no key between.                       *)
LEMMA EndIs ==
    ASSUME NEW K, NEW D, NEW t \in Trees(K, D), NEW U, Shape(t, K, U), NEW k \in Nat,
           NEW p \in K, Apart(K, U, k, p), EndOfPath(t, k, p)
    PROVE  /\ k < p => t.node[p].left = Nil /\ \A x \in K : x < p => x <= k
           /\ ~ (k < p) => t.node[p].right = Nil /\ \A x \in K : p < x => k < x
<1>1. /\ U[p] = {p} \cup Below(U, t.node[p].left) \cup Below(U, t.node[p].right)
      /\ \A x \in Below(U, t.node[p].left) : x < p
      /\ \A x \in Below(U, t.node[p].right) : p < x
      /\ K \in SUBSET Nat /\ U[p] \in SUBSET K
  <2>1. ShapeAt(t, U, p) /\ K \in SUBSET Nat /\ U[p] \in SUBSET K
    BY DEF Shape
  <2> QED
    BY <2>1 DEF ShapeAt
<1>2. t.node[p].left # p /\ t.node[p].right # p /\ p \in U[p]
  BY NodeIs
<1>3. ASSUME k < p PROVE t.node[p].left = Nil /\ \A x \in K : x < p => x <= k
  <2>1. t.node[p].left = Nil
    BY <1>2, <1>3 DEF EndOfPath, Down
  <2>2. \A x \in U[p] : ~ (x < p) /\ x \in Nat
    <3>1. \A x \in U[p] : (x = p \/ p < x) /\ x \in Nat /\ p \in Nat
      BY <1>1, <2>1 DEF Below
    <3> QED
      BY <3>1
  <2>3. ASSUME NEW x \in K, x < p PROVE x <= k
    <3>1. x \in K \ U[p] /\ p \in Nat /\ x \in Nat
      BY <2>2, <2>3, <1>1
    <3>2. k < x => p < x
      BY <1>2, <3>1 DEF Apart
    <3> QED
      BY <2>3, <3>1, <3>2
  <2> QED
    BY <2>1, <2>3
<1>4. ASSUME ~ (k < p) PROVE t.node[p].right = Nil /\ \A x \in K : p < x => k < x
  <2>1. t.node[p].right = Nil
    BY <1>2, <1>4 DEF EndOfPath, Down
  <2>2. \A x \in U[p] : ~ (p < x) /\ x \in Nat
    <3>1. \A x \in U[p] : (x = p \/ x < p) /\ x \in Nat /\ p \in Nat
      BY <1>1, <2>1 DEF Below
    <3> QED
      BY <3>1
  <2>3. ASSUME NEW x \in K, p < x PROVE k < x
    <3>1. x \in K \ U[p] /\ p \in Nat /\ x \in Nat
      BY <2>2, <2>3, <1>1
    <3>2. x <= k => x < p
      BY <1>2, <3>1 DEF Apart
    <3> QED
      BY <2>3, <3>1, <3>2
  <2> QED
    BY <2>1, <2>3
<1> QED
  BY <1>3, <1>4

(* The search of the range map answers the greatest key up to k, through   *)
(* the link to the left neighbour where the path ends on the far side      *)
(* (avl_tree.h, lower_bound).                                              *)
THEOREM LowerBoundIs ==
    ASSUME NEW K, NEW D, NEW t \in Trees(K, D), NEW U, Shape(t, K, U), Threaded(t, K),
           NEW k \in Nat, \E b \in K : b <= k
    PROVE  IsFloor(K, k, LowerBound(t, k))
<1> DEFINE p == LastOnPath(t, k)
<1>1. p \in K /\ Apart(K, U, k, p) /\ EndOfPath(t, k, p)
  BY PathEnds
<1>2. LowerBound(t, k) = IF k < p THEN t.node[p].prev ELSE p
  BY DEF LowerBound
<1> HIDE DEF p
<1>3. K \in SUBSET Nat /\ p \in Nat
  BY <1>1 DEF Shape
<1>4. CASE k < p
  <2>1. \A x \in K : x < p => x <= k
    BY <1>1, <1>4, EndIs
  <2> DEFINE m == t.node[p].prev
  <2>2. IsPrev(K, p, m)
    BY <1>1 DEF Threaded
  <2> HIDE DEF m
  <2>3. PICK b \in K : b <= k
    OBVIOUS
  <2>4. b \in Nat /\ b < p /\ ~ (p <= b)
    BY <1>3, <1>4, <2>3
  <2>5. m \in K /\ m < p /\ \A x \in K : x < p => x <= m
    BY <2>2, <2>4, <1>3 DEF IsPrev
  <2>6. m <= k
    BY <2>1, <2>5
  <2>7. \A x \in K : x <= k => x < p
    BY <1>3, <1>4
  <2>8. IsFloor(K, k, m)
    BY <2>5, <2>6, <2>7 DEF IsFloor
  <2> QED
    BY <1>2, <1>4, <2>8 DEF m
<1>5. CASE ~ (k < p)
  <2>1. \A x \in K : p < x => k < x
    BY <1>1, <1>5, EndIs
  <2>2. \A x \in K : x <= k => x <= p
    BY <1>3, <2>1
  <2> QED
    BY <1>1, <1>2, <1>3, <1>5, <2>2 DEF IsFloor
<1> QED
  BY <1>4, <1>5
-----------------------------------------------------------------------------
(* A new leaf. *)

(* The tree s is t with the leaf k below p.                                *)
HasLeaf(s, t, K, p, k, d, before, after) ==
    /\ s.root = t.root /\ s.first = (IF before = Nil THEN k ELSE t.first)
    /\ s.node[k] = [left |-> Nil, right |-> Nil, parent |-> p, prev |-> before,
                    next |-> after, height |-> 0, data |-> d]
    /\ \A n \in K :
          /\ s.node[n].left = (IF n = p /\ k < p THEN k ELSE t.node[n].left)
          /\ s.node[n].right = (IF n = p /\ ~ (k < p) THEN k ELSE t.node[n].right)
          /\ s.node[n].next = (IF n = before THEN k ELSE t.node[n].next)
          /\ s.node[n].prev = (IF n = after THEN k ELSE t.node[n].prev)
          /\ s.node[n].parent = t.node[n].parent
          /\ s.node[n].height = t.node[n].height
          /\ s.node[n].data = t.node[n].data

LEMMA LeafIs ==
    ASSUME NEW K \in SUBSET Nat, NEW D, NEW t \in Trees(K, D), NEW p \in K, NEW k \in Nat \ K,
           NEW d \in D
    PROVE  LET s == Leaf(t, p, k, d)
           IN  /\ s \in Trees(K \cup {k}, D)
               /\ HasLeaf(s, t, K, p, k, d, IF k < p THEN t.node[p].prev ELSE p,
                                            IF k < p THEN p ELSE t.node[p].next)
<1> DEFINE before == IF k < p THEN t.node[p].prev ELSE p
           after == IF k < p THEN p ELSE t.node[p].next
           leaf == [left |-> Nil, right |-> Nil, parent |-> p, prev |-> before,
                    next |-> after, height |-> 0, data |-> d]
           hung == [t.node EXCEPT ![p].left  = IF k < p THEN k ELSE @,
                                  ![p].right = IF k < p THEN @ ELSE k]
           K1 == K \cup {k}
           s == Leaf(t, p, k, d)
           Node(n) == IF n = k THEN leaf
                      ELSE [hung[n] EXCEPT !.next = IF n = before THEN k ELSE @,
                                           !.prev = IF n = after THEN k ELSE @]
<1>1. Keys(t) = K /\ t.node \in [K -> Nodes(K, D)]
  BY KeysAre
<1>2. s = [root |-> t.root, first |-> IF before = Nil THEN k ELSE t.first,
           node |-> [n \in K1 |-> Node(n)]]
  BY <1>1 DEF Leaf
<1>3. before \in K \cup {Nil} /\ after \in K \cup {Nil}
  BY <1>1 DEF Nodes
<1> HIDE DEF before, after
<1>4. leaf \in Nodes(K1, D)
  BY <1>3 DEF Nodes
<1>5. ASSUME NEW n \in K
      PROVE  /\ hung[n] \in Nodes(K1, D)
             /\ hung[n].left = (IF n = p /\ k < p THEN k ELSE t.node[n].left)
             /\ hung[n].right = (IF n = p /\ ~ (k < p) THEN k ELSE t.node[n].right)
             /\ hung[n].next = t.node[n].next /\ hung[n].prev = t.node[n].prev
             /\ hung[n].parent = t.node[n].parent
             /\ hung[n].height = t.node[n].height
             /\ hung[n].data = t.node[n].data
  <2>1. t.node[n] \in Nodes(K, D) /\ t.node[p] \in Nodes(K, D)
    BY <1>1
  <2>2. hung[n] = IF n = p THEN [t.node[n] EXCEPT !.left = IF k < p THEN k ELSE @,
                                                  !.right = IF k < p THEN @ ELSE k]
                  ELSE t.node[n]
    BY <1>1
  <2> HIDE DEF hung
  <2> QED
    BY <2>1, <2>2 DEF Nodes
<1> HIDE DEF hung, leaf
<1>6. ASSUME NEW n \in K
      PROVE  /\ Node(n) \in Nodes(K1, D)
             /\ Node(n).left = hung[n].left /\ Node(n).right = hung[n].right
             /\ Node(n).next = (IF n = before THEN k ELSE t.node[n].next)
             /\ Node(n).prev = (IF n = after THEN k ELSE t.node[n].prev)
             /\ Node(n).parent = t.node[n].parent
             /\ Node(n).height = t.node[n].height
             /\ Node(n).data = t.node[n].data
  <2>1. Node(n) = [hung[n] EXCEPT !.next = IF n = before THEN k ELSE @,
                                  !.prev = IF n = after THEN k ELSE @]
    OBVIOUS
  <2>2. k \in K1
    OBVIOUS
  <2> HIDE DEF Node, K1
  <2>3. /\ Node(n) \in Nodes(K1, D)
        /\ Node(n).left = hung[n].left /\ Node(n).right = hung[n].right
        /\ Node(n).next = (IF n = before THEN k ELSE hung[n].next)
        /\ Node(n).prev = (IF n = after THEN k ELSE hung[n].prev)
        /\ Node(n).parent = hung[n].parent
        /\ Node(n).height = hung[n].height
        /\ Node(n).data = hung[n].data
    <3>1. hung[n] \in Nodes(K1, D)
      BY <1>5
    <3> QED
      BY <2>1, <2>2, <3>1 DEF Nodes
  <2> QED
    BY <1>5, <2>3
<1>7. Node(k) = leaf
  OBVIOUS
<1> HIDE DEF Node
<1>8. s \in Trees(K1, D)
  <2>1. \A n \in K1 : Node(n) \in Nodes(K1, D)
    BY <1>4, <1>6, <1>7
  <2>2. t.root \in K \cup {Nil} /\ t.first \in K \cup {Nil}
    BY DEF Trees
  <2> QED
    BY <1>2, <2>1, <2>2 DEF Trees
<1>9. \A n \in K1 : s.node[n] = Node(n)
  BY <1>2
<1>10. HasLeaf(s, t, K, p, k, d, before, after)
  <2>1. s.node[k] = leaf /\ s.root = t.root /\ s.first = (IF before = Nil THEN k ELSE t.first)
    BY <1>2, <1>7, <1>9
  <2> HIDE DEF s
  <2> QED
    BY <2>1, <1>5, <1>6, <1>9 DEF HasLeaf, leaf
<1> QED
  BY <1>8, <1>10 DEF before, after

(* The keys under each node of a tree with the leaf k below p.             *)
WithLeaf(U, K, p, k) ==
    [x \in K \cup {k} |-> IF x = k THEN {k} ELSE IF p \in U[x] THEN U[x] \cup {k} ELSE U[x]]

(* The leaf is put between the neighbours of its key.                      *)
LEMMA BesideLeaf ==
    ASSUME NEW K, NEW D, NEW t \in Trees(K, D), NEW U, Shape(t, K, U), Threaded(t, K),
           NEW k \in Nat \ K, NEW p \in K, Apart(K, U, k, p), EndOfPath(t, k, p)
    PROVE  /\ IsPrev(K, k, IF k < p THEN t.node[p].prev ELSE p)
           /\ IsNext(K, k, IF k < p THEN p ELSE t.node[p].next)
<1>1. K \in SUBSET Nat /\ p \in Nat
  BY DEF Shape
<1> DEFINE b == t.node[p].prev
           e == t.node[p].next
<1>2. IsNext(K, p, e) /\ IsPrev(K, p, b)
  BY DEF Threaded
<1> HIDE DEF b, e
<1>3. CASE k < p
  <2>1. \A x \in K : x < p => x <= k
    BY <1>3, EndIs
  <2>2. \A x \in K : k < x => p <= x
    BY <1>1, <2>1
  <2>3. IsNext(K, k, p)
    BY <1>3, <2>2 DEF IsNext
  <2>4. \A x \in K : x < k => x < p
    BY <1>1, <1>3
  <2>5. CASE b = Nil /\ \A x \in K : p <= x
    <3>1. \A x \in K : k <= x
      BY <1>1, <1>3, <2>5
    <3> QED
      BY <2>3, <2>5, <3>1, <1>3 DEF IsPrev, b
  <2>6. CASE b \in K /\ b < p /\ \A x \in K : x < p => x <= b
    <3>1. b < k
      BY <1>1, <2>1, <2>6
    <3> QED
      BY <2>3, <2>4, <2>6, <3>1, <1>3 DEF IsPrev, b
  <2> QED
    BY <1>2, <2>5, <2>6 DEF IsPrev
<1>4. CASE ~ (k < p)
  <2>1. \A x \in K : p < x => k < x
    BY <1>4, EndIs
  <2>2. p < k
    BY <1>1, <1>4
  <2>3. \A x \in K : x < k => x <= p
    BY <1>1, <2>1
  <2>4. IsPrev(K, k, p)
    BY <2>2, <2>3 DEF IsPrev
  <2>5. CASE e = Nil /\ \A x \in K : x <= p
    <3>1. \A x \in K : x <= k
      BY <1>1, <2>2, <2>5
    <3> QED
      BY <2>4, <2>5, <3>1, <1>4 DEF IsNext, e
  <2>6. CASE e \in K /\ p < e /\ \A x \in K : p < x => e <= x
    <3>1. \A x \in K : k < x => e <= x
      BY <1>1, <2>2, <2>6
    <3>2. k < e
      BY <2>1, <2>6
    <3> QED
      BY <2>4, <2>6, <3>1, <3>2, <1>4 DEF IsNext, e
  <2> QED
    BY <1>2, <2>5, <2>6 DEF IsNext
<1> QED
  BY <1>3, <1>4

LEMMA LeafThreaded ==
    ASSUME NEW K \in SUBSET Nat, NEW t, Threaded(t, K), NEW k \in Nat \ K, NEW s,
           NEW p, NEW d, NEW b, NEW e, HasLeaf(s, t, K, p, k, d, b, e),
           IsPrev(K, k, b), IsNext(K, k, e)
    PROVE  Threaded(s, K \cup {k})
<1>1. s.first \in K \cup {k} /\ \A x \in K \cup {k} : s.first <= x
  <2>1. t.first \in K /\ \A x \in K : t.first <= x
    BY DEF Threaded
  <2>2. s.first = IF b = Nil THEN k ELSE t.first
    BY DEF HasLeaf
  <2>3. CASE b = Nil
    <3>1. \A x \in K : k <= x
      BY <2>3, NilIsNone DEF IsPrev
    <3> QED
      BY <2>2, <2>3, <3>1
  <2>4. CASE b # Nil
    <3>1. b \in K /\ b < k
      BY <2>4 DEF IsPrev
    <3>2. t.first <= k
      <4>1. t.first \in Nat /\ b \in Nat /\ t.first <= b
        BY <2>1, <3>1
      <4> QED
        BY <3>1, <4>1
    <3> QED
      BY <2>1, <2>2, <2>4, <3>2
  <2> QED
    BY <2>3, <2>4
<1>2. ASSUME NEW n \in K PROVE IsNext(K \cup {k}, n, s.node[n].next)
  <2> DEFINE m == t.node[n].next
  <2>1. s.node[n].next = IF n = b THEN k ELSE m
    BY DEF HasLeaf
  <2>2. IsNext(K, n, m)
    BY DEF Threaded
  <2> HIDE DEF m
  <2>3. CASE n = b
    <3>1. b \in K /\ b < k /\ \A x \in K : x < k => x <= b
      BY <2>3, NilIsNone DEF IsPrev
    <3>2. \A x \in K : b < x => k <= x
      BY <3>1
    <3> QED
      BY <2>1, <2>3, <3>1, <3>2 DEF IsNext
  <2>4. CASE n # b
    <3>1. n < k => b \in K /\ b < k /\ n < b
      <4>0. n \in Nat /\ k \in Nat /\ (b \in K => b \in Nat)
        OBVIOUS
      <4>1. n \in Nat /\ k \in Nat /\ (k <= n => ~ (n < k)) /\ (b \in K => b \in Nat)
        BY <4>0
      <4>2. \/ b = Nil /\ k <= n
            \/ b \in K /\ b < k /\ (n < k => n <= b)
        BY DEF IsPrev
      <4>3. b \in K /\ n <= b => n < b
        BY <2>4, <4>1
      <4> QED
        BY <4>1, <4>2, <4>3
    <3>2. CASE m = Nil /\ \A x \in K : x <= n
      <4>1. ~ (n < k)
        <5>1. b \in K => ~ (n < b)
          BY <3>2
        <5> QED
          BY <3>1, <5>1
      <4> QED
        BY <2>1, <2>4, <3>2, <4>1 DEF IsNext
    <3>3. CASE m \in K /\ n < m /\ \A x \in K : n < x => m <= x
      <4>1. n < k => m <= k
        <5>1. m \in Nat /\ k \in Nat /\ (b \in K => b \in Nat)
          BY <3>3
        <5>2. b \in K /\ n < b => m <= b
          BY <3>3
        <5> QED
          BY <3>1, <5>1, <5>2
      <4> QED
        BY <2>1, <2>4, <3>3, <4>1 DEF IsNext
    <3> QED
      BY <2>2, <3>2, <3>3 DEF IsNext
  <2> QED
    BY <2>3, <2>4
<1>3. ASSUME NEW n \in K PROVE IsPrev(K \cup {k}, n, s.node[n].prev)
  <2> DEFINE m == t.node[n].prev
  <2>1. s.node[n].prev = IF n = e THEN k ELSE m
    BY DEF HasLeaf
  <2>2. IsPrev(K, n, m)
    BY DEF Threaded
  <2> HIDE DEF m
  <2>3. CASE n = e
    <3>1. e \in K /\ k < e /\ \A x \in K : k < x => e <= x
      BY <2>3, NilIsNone DEF IsNext
    <3>2. \A x \in K : x < e => x <= k
      BY <3>1
    <3> QED
      BY <2>1, <2>3, <3>1, <3>2 DEF IsPrev
  <2>4. CASE n # e
    <3>1. k < n => e \in K /\ k < e /\ e < n
      <4>0. n \in Nat /\ k \in Nat /\ (e \in K => e \in Nat)
        OBVIOUS
      <4>1. n \in Nat /\ k \in Nat /\ (n <= k => ~ (k < n)) /\ (e \in K => e \in Nat)
        BY <4>0
      <4>2. \/ e = Nil /\ n <= k
            \/ e \in K /\ k < e /\ (k < n => e <= n)
        BY DEF IsNext
      <4>3. e \in K /\ e <= n => e < n
        BY <2>4, <4>1
      <4> QED
        BY <4>1, <4>2, <4>3
    <3>2. CASE m = Nil /\ \A x \in K : n <= x
      <4>1. ~ (k < n)
        <5>1. e \in K => ~ (e < n)
          BY <3>2
        <5> QED
          BY <3>1, <5>1
      <4> QED
        BY <2>1, <2>4, <3>2, <4>1 DEF IsPrev
    <3>3. CASE m \in K /\ m < n /\ \A x \in K : x < n => x <= m
      <4>1. k < n => k <= m
        <5>1. m \in Nat /\ k \in Nat /\ (e \in K => e \in Nat)
          BY <3>3
        <5>2. e \in K /\ e < n => e <= m
          BY <3>3
        <5> QED
          BY <3>1, <5>1, <5>2
      <4> QED
        BY <2>1, <2>4, <3>3, <4>1 DEF IsPrev
    <3> QED
      BY <2>2, <3>2, <3>3 DEF IsPrev
  <2> QED
    BY <2>3, <2>4
<1>4. IsNext(K \cup {k}, k, s.node[k].next) /\ IsPrev(K \cup {k}, k, s.node[k].prev)
  <2>1. s.node[k].next = e /\ s.node[k].prev = b
    BY DEF HasLeaf
  <2>2. IsNext(K \cup {k}, k, e) /\ IsPrev(K \cup {k}, k, b)
    BY DEF IsNext, IsPrev
  <2> QED
    BY <2>1, <2>2
<1> QED
  BY <1>1, <1>2, <1>3, <1>4 DEF Threaded

LEMMA LeafShape ==
    ASSUME NEW K, NEW D, NEW t \in Trees(K, D), NEW U, Shape(t, K, U),
           NEW k \in Nat \ K, NEW p \in K, Apart(K, U, k, p), EndOfPath(t, k, p),
           NEW s, NEW d, NEW b, NEW e, HasLeaf(s, t, K, p, k, d, b, e)
    PROVE  Shape(s, K \cup {k}, WithLeaf(U, K, p, k))
<1> DEFINE K1 == K \cup {k}
           U1 == WithLeaf(U, K, p, k)
<1>1. K \in SUBSET Nat /\ IsFiniteSet(K) /\ Nil \notin K /\ k # Nil
  BY NilIsNone DEF Shape, Nil
<1>2. /\ U1 \in [K1 -> SUBSET K1] /\ U1[k] = {k}
      /\ \A x \in K : U1[x] = IF p \in U[x] THEN U[x] \cup {k} ELSE U[x]
      /\ \A x \in K : U[x] \in SUBSET K
  BY DEF WithLeaf, Shape
<1> HIDE DEF U1
<1>3. \A c \in K \cup {Nil} : Below(U1, c) = IF p \in Below(U, c) THEN Below(U, c) \cup {k}
                                             ELSE Below(U, c)
  BY <1>1, <1>2 DEF Below
<1>4. /\ s.root \in K1 /\ U1[s.root] = K1 /\ s.node[s.root].parent = Nil
  <2>1. t.root \in K /\ U[t.root] = K /\ t.node[t.root].parent = Nil
    BY DEF Shape
  <2>2. s.root = t.root /\ \A n \in K : s.node[n].parent = t.node[n].parent
    BY DEF HasLeaf
  <2> QED
    BY <1>2, <2>1, <2>2
<1>5. IsFiniteSet(K1)
  BY <1>1, FS_AddElement
<1>6. ShapeAt(s, U1, k)
  <2>1. s.node[k].left = Nil /\ s.node[k].right = Nil
    BY DEF HasLeaf
  <2> QED
    BY <1>2, <2>1 DEF ShapeAt, Below
<1>7. ASSUME NEW n \in K PROVE ShapeAt(s, U1, n)
  <2> DEFINE l == t.node[n].left
             r == t.node[n].right
             sl == s.node[n].left
             sr == s.node[n].right
  <2>1. /\ l \in K \cup {Nil} /\ r \in K \cup {Nil}
        /\ U[n] = {n} \cup Below(U, l) \cup Below(U, r)
        /\ \A x \in Below(U, l) : x < n
        /\ \A x \in Below(U, r) : n < x
        /\ l # Nil => t.node[l].parent = n
        /\ r # Nil => t.node[r].parent = n
    <3>1. ShapeAt(t, U, n)
      BY DEF Shape
    <3>2. l \in K \cup {Nil} /\ r \in K \cup {Nil}
      BY NodeIs
    <3> QED
      BY <3>1, <3>2 DEF ShapeAt
  <2>2. /\ Below(U, l) \in SUBSET (U[n] \ {n}) /\ Below(U, r) \in SUBSET (U[n] \ {n})
        /\ Below(U, l) \cap Below(U, r) = {}
        /\ p \in U[p] /\ n \in U[n]
    BY NodeIs
  <2>3. /\ sl = (IF n = p /\ k < p THEN k ELSE l)
        /\ sr = (IF n = p /\ ~ (k < p) THEN k ELSE r)
        /\ l # Nil => s.node[l].parent = t.node[l].parent
        /\ r # Nil => s.node[r].parent = t.node[r].parent
        /\ s.node[k].parent = p
    BY <2>1 DEF HasLeaf
  <2>4. n = p => (k < p => l = Nil) /\ (~ (k < p) => r = Nil)
    BY EndIs
  <2>5. p \in Below(U, l) \cup Below(U, r) => n # p /\ (k < n <=> p < n)
    <3> SUFFICES ASSUME p \in Below(U, l) \cup Below(U, r)
                 PROVE  n # p /\ (k < n <=> p < n)
      OBVIOUS
    <3>1. n # p /\ p \in U[n]
      BY <2>2
    <3>2. n \notin U[p]
      BY <3>1, NestedOnce
    <3>3. (n <= k => n < p) /\ (k < n => p < n)
      BY <2>2, <3>2 DEF Apart
    <3> QED
      BY <1>1, <3>1, <3>3
  <2> HIDE DEF l, r, sl, sr
  <2>6. /\ sl # Nil => s.node[sl].parent = n
        /\ sr # Nil => s.node[sr].parent = n
    BY <2>1, <2>3
  <2>7. /\ Below(U1, l) = (IF p \in Below(U, l) THEN Below(U, l) \cup {k} ELSE Below(U, l))
        /\ Below(U1, r) = (IF p \in Below(U, r) THEN Below(U, r) \cup {k} ELSE Below(U, r))
        /\ Below(U1, k) = {k} /\ Below(U, Nil) = {} /\ Below(U1, Nil) = {}
        /\ U1[n] = IF p \in U[n] THEN U[n] \cup {k} ELSE U[n]
    BY <1>1, <1>2, <1>3, <2>1 DEF Below
  <2>8. n \in Nat /\ p \in Nat /\ k \in Nat /\ n # k
    BY <1>1
  <2>9. CASE n = p
    <3>1. CASE k < p
      BY <2>1, <2>2, <2>3, <2>4, <2>5, <2>6, <2>7, <2>9, <3>1 DEF ShapeAt, sl, sr
    <3>2. CASE ~ (k < p)
      <4>1. n < k
        BY <2>8, <2>9, <3>2
      <4> QED
        BY <2>1, <2>2, <2>3, <2>4, <2>5, <2>6, <2>7, <2>9, <3>2, <4>1 DEF ShapeAt, sl, sr
    <3> QED
      BY <3>1, <3>2
  <2>10. CASE n # p
    <3>1. sl = l /\ sr = r
      BY <2>3, <2>10
    <3>2. /\ p \in Below(U, l) => k < n
          /\ p \in Below(U, r) => n < k
      <4>1. p \in Below(U, r) => ~ (p < n)
        BY <2>1, <2>8
      <4> QED
        BY <2>1, <2>5, <2>8, <4>1
    <3>3. U1[n] = {n} \cup Below(U1, sl) \cup Below(U1, sr)
      BY <2>1, <2>7, <2>10, <3>1
    <3>4. (\A x \in Below(U1, sl) : x < n) /\ (\A x \in Below(U1, sr) : n < x)
      BY <2>1, <2>7, <3>1, <3>2
    <3> QED
      BY <2>6, <3>3, <3>4 DEF ShapeAt, sl, sr
  <2> QED
    BY <2>9, <2>10
<1> QED
  BY <1>1, <1>2, <1>4, <1>5, <1>6, <1>7 DEF Shape, U1
-----------------------------------------------------------------------------
(* Heights. *)

HeightIs(t, n) == t.node[n].height = HeightOf(t, n)

(* The trees s and t differ in their heights at most.                      *)
OnlyHeights(s, t, K) ==
    /\ s.root = t.root /\ s.first = t.first
    /\ \A n \in K : /\ s.node[n].left = t.node[n].left
                    /\ s.node[n].right = t.node[n].right
                    /\ s.node[n].parent = t.node[n].parent
                    /\ s.node[n].prev = t.node[n].prev
                    /\ s.node[n].next = t.node[n].next
                    /\ s.node[n].data = t.node[n].data

LEMMA SubtreeHeightIs ==
    ASSUME NEW K \in SUBSET Nat, NEW D, NEW t \in Trees(K, D)
    PROVE  /\ \A c \in K \cup {Nil} : SubtreeHeight(t, c) \in Nat
           /\ \A c \in K : SubtreeHeight(t, c) = t.node[c].height + 1
           /\ SubtreeHeight(t, Nil) = 0
           /\ \A n \in K : HeightOf(t, n) \in Nat
<1>1. \A n \in K : t.node[n].height \in Nat /\ t.node[n].left \in K \cup {Nil}
                   /\ t.node[n].right \in K \cup {Nil}
  BY KeysAre DEF Nodes
<1>2. /\ \A c \in K : SubtreeHeight(t, c) = t.node[c].height + 1
      /\ SubtreeHeight(t, Nil) = 0
  BY NilIsNone DEF SubtreeHeight
<1>3. \A c \in K \cup {Nil} : SubtreeHeight(t, c) \in Nat
  BY <1>1, <1>2
<1> QED
  BY <1>1, <1>2, <1>3 DEF HeightOf, Higher

LEMMA ShapeStays ==
    ASSUME NEW K, NEW D, NEW t \in Trees(K, D), NEW U, Shape(t, K, U), NEW s, OnlyHeights(s, t, K)
    PROVE  Shape(s, K, U)
<1>1. t.root \in K /\ s.root = t.root
  BY DEF Shape, OnlyHeights
<1>2. ASSUME NEW n \in K PROVE ShapeAt(s, U, n)
  <2>1. ShapeAt(t, U, n)
    BY DEF Shape
  <2>2. s.node[n].left = t.node[n].left /\ s.node[n].right = t.node[n].right
    BY DEF OnlyHeights
  <2>3. \A c \in {t.node[n].left, t.node[n].right} \ {Nil} : s.node[c].parent = t.node[c].parent
    BY NodeIs DEF OnlyHeights
  <2> QED
    BY <2>1, <2>2, <2>3 DEF ShapeAt
<1> QED
  BY <1>1, <1>2 DEF Shape, OnlyHeights

LEMMA HeightSet ==
    ASSUME NEW K, NEW D, NEW t \in Trees(K, D), NEW a \in K, NEW h \in Nat
    PROVE  LET s == [t EXCEPT !.node[a].height = h]
           IN  /\ s \in Trees(K, D) /\ OnlyHeights(s, t, K)
               /\ s.node[a].height = h
               /\ \A n \in K \ {a} : s.node[n].height = t.node[n].height
<1> DEFINE s == [t EXCEPT !.node[a].height = h]
<1>1. t.node \in [K -> Nodes(K, D)]
  BY KeysAre
<1>2. s = [root |-> t.root, first |-> t.first,
           node |-> [n \in K |-> IF n = a THEN [t.node[n] EXCEPT !.height = h] ELSE t.node[n]]]
  BY <1>1 DEF Trees
<1>3. \A n \in K : s.node[n] = IF n = a THEN [t.node[n] EXCEPT !.height = h] ELSE t.node[n]
  BY <1>2
<1>4. ASSUME NEW n \in K
      PROVE  /\ s.node[n] \in Nodes(K, D)
             /\ s.node[n].left = t.node[n].left
             /\ s.node[n].right = t.node[n].right
             /\ s.node[n].parent = t.node[n].parent
             /\ s.node[n].prev = t.node[n].prev
             /\ s.node[n].next = t.node[n].next
             /\ s.node[n].data = t.node[n].data
             /\ s.node[n].height = IF n = a THEN h ELSE t.node[n].height
  <2>1. t.node[n] \in Nodes(K, D)
    BY <1>1
  <2> HIDE DEF s
  <2> QED
    BY <2>1, <1>3 DEF Nodes
<1>5. s.root = t.root /\ s.first = t.first /\ s \in Trees(K, D)
  <2>1. \A n \in K : (IF n = a THEN [t.node[n] EXCEPT !.height = h] ELSE t.node[n]) \in Nodes(K, D)
    BY <1>3, <1>4
  <2> QED
    BY <1>2, <2>1 DEF Trees
<1> HIDE DEF s
<1>6. OnlyHeights(s, t, K)
  BY <1>4, <1>5 DEF OnlyHeights
<1> QED
  BY <1>4, <1>5, <1>6 DEF s

(* One turn of update_height.                                              *)
Measuring(w, t, K, D, U, n) ==
    /\ w \in [at : K \cup {Nil}, tree : Trees(K, D)]
    /\ OnlyHeights(w.tree, t, K)
    /\ w.at # Nil => n \in U[w.at]
    /\ \A x \in K : w.at \notin U[x] => HeightIs(w.tree, x)
    /\ \A x \in K : n \notin U[x] => w.tree.node[x].height = t.node[x].height

LEMMA MeasuredIs ==
    ASSUME NEW K, NEW D, NEW t \in Trees(K, D), NEW U, Shape(t, K, U), NEW n \in K,
           NEW w, Measuring(w, t, K, D, U, n)
    PROVE  LET v == Measured(w)
           IN  /\ Measuring(v, t, K, D, U, n)
               /\ w.at = Nil => v.at = Nil
               /\ v.at # Nil => Cardinality(U[w.at]) < Cardinality(U[v.at])
<1> DEFINE v == Measured(w)
           a == w.at
           r == w.tree
<1>1. a \in K \cup {Nil} /\ r \in Trees(K, D) /\ OnlyHeights(r, t, K)
  BY DEF Measuring
<1>2. K \in SUBSET Nat /\ Nil \notin K /\ Shape(r, K, U)
  <2>1. K \in SUBSET Nat
    BY DEF Shape
  <2>2. Nil \notin K
    BY <2>1, NilIsNone
  <2>3. Shape(r, K, U)
    BY <1>1, ShapeStays
  <2> QED
    BY <2>1, <2>2, <2>3
<1>3. CASE a = Nil
  BY <1>3 DEF Measured
<1>4. CASE a # Nil
  <2> DEFINE h == HeightOf(r, a)
             s == [r EXCEPT !.node[a].height = h]
             q == r.node[a].parent
  <2>1. a \in K /\ h \in Nat /\ q \in K \cup {Nil} /\ n \in U[a]
    BY <1>1, <1>2, <1>4, SubtreeHeightIs, NodeIs DEF Measuring
  <2>2. v = [at |-> q, tree |-> s]
    BY <1>4 DEF Measured
  <2>3. /\ s \in Trees(K, D) /\ OnlyHeights(s, r, K)
        /\ s.node[a].height = h
        /\ \A x \in K \ {a} : s.node[x].height = r.node[x].height
    BY <1>1, <2>1, HeightSet
  <2> HIDE DEF v, s
  <2>4. v.at = q /\ v.tree = s
    BY <2>2
  <2>5. OnlyHeights(s, t, K)
    BY <1>1, <2>3 DEF OnlyHeights
  <2> HIDE DEF h, q
  <2>6. ASSUME NEW x \in K, a \notin {r.node[x].left, r.node[x].right}
        PROVE  HeightOf(s, x) = HeightOf(r, x)
    <3>1. \A c \in (K \cup {Nil}) \ {a} : SubtreeHeight(s, c) = SubtreeHeight(r, c)
      BY <1>1, <1>2, <2>3, SubtreeHeightIs
    <3>2. /\ s.node[x].left = r.node[x].left /\ s.node[x].right = r.node[x].right
          /\ r.node[x].left \in K \cup {Nil} /\ r.node[x].right \in K \cup {Nil}
      BY <1>1, <1>2, <2>3, NodeIs DEF OnlyHeights
    <3> QED
      BY <2>6, <3>1, <3>2 DEF HeightOf
  <2>7. HeightIs(s, a)
    <3>1. a \notin {r.node[a].left, r.node[a].right}
      BY <1>1, <1>2, <2>1, NodeIs
    <3> QED
      BY <2>1, <2>3, <2>6, <3>1 DEF HeightIs, h
  <2>8. q # Nil => a \in U[q] /\ a # q /\ U[a] \in SUBSET (U[q] \ {q})
    <3> SUFFICES ASSUME q # Nil PROVE a \in U[q] /\ a # q /\ U[a] \in SUBSET (U[q] \ {q})
      OBVIOUS
    <3>1. PICK z \in K : z # a /\ a \in U[z] /\ U[z] = K
      BY <1>1, <1>2, <2>1, RootIs DEF Shape, q
    <3>2. Hangs(r, U[z], a)
      <4> HIDE DEF r, a
      <4> QED
        BY <1>1, <1>2, <3>1, Nested
    <3>3. q \in K /\ a \in {r.node[q].left, r.node[q].right}
      BY <3>1, <3>2 DEF Hangs, q
    <3>4. U[a] \in SUBSET (U[q] \ {q})
      BY <1>1, <1>2, <2>1, <3>3, NodeIs DEF Below
    <3> QED
      BY <1>1, <1>2, <2>1, <3>3, <3>4, NodeIs
  <2>9. ASSUME NEW x \in K, q \notin U[x] PROVE HeightIs(s, x)
    <3>1. CASE x = a
      BY <2>7, <3>1
    <3>2. CASE x # a
      <4>1. a \notin U[x]
        <5>1. a \in U[x] => Hangs(r, U[x], a)
          <6> HIDE DEF r, a
          <6> QED
            BY <1>1, <1>2, <3>2, Nested
        <5> QED
          BY <2>9, <5>1 DEF Hangs, q
      <4>2. HeightIs(r, x)
        BY <4>1 DEF Measuring
      <4>3. a \notin {r.node[x].left, r.node[x].right}
        <5>1. Below(U, r.node[x].left) \in SUBSET U[x] /\ Below(U, r.node[x].right) \in SUBSET U[x]
          BY <1>1, <1>2, NodeIs
        <5>2. a \in Below(U, a)
          BY <1>1, <1>2, <1>4, <2>1, NodeIs DEF Below
        <5> QED
          BY <4>1, <5>1, <5>2
      <4> QED
        BY <2>3, <2>6, <3>2, <4>2, <4>3 DEF HeightIs
    <3> QED
      BY <3>1, <3>2
  <2>10. \A x \in K : n \notin U[x] => s.node[x].height = t.node[x].height
    BY <2>1, <2>3 DEF Measuring
  <2>11. Measuring(v, t, K, D, U, n)
    <3>1. q # Nil => n \in U[q]
      BY <2>1, <2>8
    <3>2. v \in [at : K \cup {Nil}, tree : Trees(K, D)]
      BY <2>1, <2>2, <2>3
    <3> QED
      BY <2>4, <2>5, <2>9, <2>10, <3>1, <3>2 DEF Measuring
  <2>12. q # Nil => Cardinality(U[a]) < Cardinality(U[q])
    BY <1>1, <1>2, <2>1, <2>8, Smaller
  <2> QED
    BY <1>4, <2>4, <2>11, <2>12 DEF v
<1> QED
  BY <1>3, <1>4

LEMMA HeightsUpdated ==
    ASSUME NEW K, NEW D, NEW t \in Trees(K, D), NEW U, Shape(t, K, U), NEW n \in K,
           \A x \in K : n \notin U[x] => HeightIs(t, x)
    PROVE  LET s == UpdateHeight(t, n)
           IN  /\ s \in Trees(K, D) /\ OnlyHeights(s, t, K)
               /\ \A x \in K : HeightIs(s, x)
               /\ \A x \in K : n \notin U[x] => s.node[x].height = t.node[x].height
<1> DEFINE N == Cardinality(K)
           base == [at |-> n, tree |-> t]
           W == {w \in [at : K \cup {Nil}, tree : Trees(K, D)] : Measuring(w, t, K, D, U, n)}
           f == [w \in W |-> Measured(w)]
           turn[i \in 0..N] == IF i = 0 THEN base ELSE Measured(turn[i - 1])
<1>0. K \in SUBSET Nat /\ Nil \notin K
  BY NilIsNone DEF Shape
<1>1. N \in Nat /\ Keys(t) = K
  BY FS_CardinalityType, KeysAre DEF Shape
<1>2. base \in W
  <2>1. n \in U[n] /\ OnlyHeights(t, t, K)
    BY NodeIs DEF OnlyHeights
  <2> QED
    BY <2>1 DEF Measuring
<1>3. \A w \in W : f[w] \in W
  <2>1. \A w \in W : Measuring(Measured(w), t, K, D, U, n)
    BY MeasuredIs
  <2>2. \A v : Measuring(v, t, K, D, U, n) => v \in W
    BY DEF Measuring
  <2> QED
    BY <2>1, <2>2
<1>4. PICK g : Turns(g, N, W, base, f)
  <2> HIDE DEF N, W, f, base
  <2> QED
    BY <1>1, <1>2, <1>3, Iteration
<1>5. turn = [i \in 0..N |-> IF i = 0 THEN base ELSE Measured(turn[i - 1])]
  <2>1. g = [i \in 0..N |-> IF i = 0 THEN base ELSE Measured(g[i - 1])]
    <3>1. \A i \in 0..N : i # 0 => i \in 1..N /\ i - 1 \in 0..N
      BY <1>1
    <3> HIDE DEF N, base
    <3> QED
      BY <1>4, <3>1 DEF Turns
  <2> QED
    BY <2>1
<1>6. UpdateHeight(t, n) = turn[N].tree
  BY <1>1 DEF UpdateHeight
<1> HIDE DEF turn
<1>7. \A i \in 0..N : turn[i] = g[i] /\ g[i] \in W
  <2> DEFINE T == {i \in 0..N : turn[i] = g[i]}
  <2>1. 0 \in T
    <3> HIDE DEF base
    <3> QED
      BY <1>1, <1>4, <1>5 DEF Turns
  <2>2. ASSUME NEW i \in 1..N, i - 1 \in T PROVE i \in T
    <3>1. i \in 0..N /\ i # 0 /\ i - 1 \in 0..N
      BY <1>1
    <3> HIDE DEF N, base
    <3> QED
      BY <1>4, <1>5, <2>2, <3>1 DEF Turns
  <2> HIDE DEF T
  <2>3. \A i \in 0..N : i \in T
    BY <1>1, <2>1, <2>2, CountUp
  <2> QED
    BY <1>4, <2>3 DEF T, Turns
<1> DEFINE T == {i \in 0..N : g[i].at = Nil \/ Cardinality(U[g[i].at]) > i}
<1>8. 0 \in T
  <2>1. 0 < Cardinality(U[n]) /\ Cardinality(U[n]) \in Nat
    BY Smaller
  <2>2. g[0].at = n /\ 0 \in 0..N
    BY <1>1, <1>4 DEF Turns
  <2> QED
    BY <2>1, <2>2
<1>9. ASSUME NEW i \in 1..N, i - 1 \in T PROVE i \in T
  <2>1. i \in 0..N /\ i - 1 \in 0..N /\ i \in Nat
    BY <1>1
  <2> DEFINE w == g[i - 1]
             v == g[i]
  <2>2. v = Measured(w) /\ Measuring(w, t, K, D, U, n) /\ v \in W
    BY <1>4, <1>7, <2>1 DEF Turns
  <2>3. w.at = Nil \/ Cardinality(U[w.at]) > i - 1
    BY <1>9
  <2>4. w.at \in K \cup {Nil} /\ v.at \in K \cup {Nil}
    BY <2>2 DEF Measuring
  <2> HIDE DEF w, v, N
  <2>5. CASE v.at = Nil
    BY <2>1, <2>5 DEF v
  <2>6. CASE v.at # Nil
    <3>1. Cardinality(U[w.at]) < Cardinality(U[v.at]) /\ w.at # Nil
      BY <2>2, <2>6, MeasuredIs
    <3>2. Cardinality(U[w.at]) \in Nat /\ Cardinality(U[v.at]) \in Nat
      BY <2>4, <2>6, <3>1, Smaller
    <3>3. Cardinality(U[v.at]) > i
      BY <2>1, <2>3, <3>1, <3>2
    <3> QED
      BY <2>1, <3>3 DEF v
  <2> QED
    BY <2>5, <2>6
<1>10. g[N].at = Nil
  <2>1. \A i \in 0..N : i \in T
    <3> HIDE DEF T, N
    <3> QED
      BY <1>1, <1>8, <1>9, CountUp
  <2>2. N \in 0..N
    BY <1>1
  <2>3. g[N].at \in K \cup {Nil} /\ (g[N].at = Nil \/ Cardinality(U[g[N].at]) > N)
    BY <2>1, <2>2, <1>7
  <2> HIDE DEF T
  <2>4. g[N].at # Nil => Cardinality(U[g[N].at]) \in Nat /\ Cardinality(U[g[N].at]) <= N
    BY <2>3, Smaller
  <2> QED
    BY <1>1, <2>3, <2>4
<1>11. N \in 0..N
  BY <1>1
<1>12. Measuring(g[N], t, K, D, U, n) /\ UpdateHeight(t, n) = g[N].tree
  BY <1>6, <1>7, <1>11
<1> HIDE DEF N, W
<1>13. \A x \in K : HeightIs(g[N].tree, x)
  <2>1. \A x \in K : Nil \notin U[x]
    BY <1>0, NodeIs
  <2> QED
    BY <1>10, <1>12, <2>1 DEF Measuring
<1> QED
  BY <1>12, <1>13 DEF Measuring
-----------------------------------------------------------------------------
(* Parts of a tree and how they are joined. *)

(* The trees have the same order, the same data and the same root.         *)
SameOrder(s, t, K) ==
    /\ s.first = t.first
    /\ \A m \in K : /\ s.node[m].prev = t.node[m].prev
                    /\ s.node[m].next = t.node[m].next
                    /\ s.node[m].data = t.node[m].data

Joined(s, t, K, n, l, r) ==
    /\ s.root = t.root /\ SameOrder(s, t, K)
    /\ \A m \in K \ {n, l, r} : s.node[m] = t.node[m]
    /\ s.node[n].left = l /\ s.node[n].right = r
    /\ s.node[n].height = Higher(SubtreeHeight(t, l), SubtreeHeight(t, r))
    /\ \A m \in {l, r} \ {Nil} : /\ s.node[m].left = t.node[m].left
                                 /\ s.node[m].right = t.node[m].right
                                 /\ s.node[m].parent = n
                                 /\ s.node[m].height = t.node[m].height

LEMMA JoinIs ==
    ASSUME NEW K \in SUBSET Nat, NEW D, NEW t \in Trees(K, D), NEW n \in K,
           NEW l \in (K \cup {Nil}) \ {n}, NEW r \in (K \cup {Nil}) \ {n}
    PROVE  LET s == Join(t, n, l, r) IN s \in Trees(K, D) /\ Joined(s, t, K, n, l, r)
<1> DEFINE Node(m) == CASE m = n -> [t.node[n] EXCEPT !.left = l, !.right = r]
                        [] m \in {l, r} -> [t.node[m] EXCEPT !.parent = n]
                        [] OTHER -> t.node[m]
           s == [t EXCEPT !.node = [m \in K |-> Node(m)]]
           h == HeightOf(s, n)
           u == [s EXCEPT !.node[n].height = h]
<1>1. /\ Keys(t) = K /\ t.node \in [K -> Nodes(K, D)] /\ Nil \notin K
      /\ \A m \in K : t.node[m] \in Nodes(K, D)
  BY KeysAre, NilIsNone
<1>2. Join(t, n, l, r) = u
  BY <1>1 DEF Join
<1>3. ASSUME NEW m \in K
      PROVE  /\ Node(m) \in Nodes(K, D)
             /\ m \notin {n, l, r} => Node(m) = t.node[m]
             /\ Node(m).left = (IF m = n THEN l ELSE t.node[m].left)
             /\ Node(m).right = (IF m = n THEN r ELSE t.node[m].right)
             /\ Node(m).parent = (IF m \in {l, r} THEN n ELSE t.node[m].parent)
             /\ Node(m).height = t.node[m].height
             /\ Node(m).prev = t.node[m].prev /\ Node(m).next = t.node[m].next
             /\ Node(m).data = t.node[m].data
  <2>1. t.node[m] \in Nodes(K, D)
    BY <1>1
  <2>2. CASE m = n
    <3>1. Node(m) = [t.node[m] EXCEPT !.left = l, !.right = r] /\ m \notin {l, r}
      BY <2>2
    <3> HIDE DEF Node
    <3> QED
      BY <2>1, <2>2, <3>1 DEF Nodes
  <2>3. CASE m # n /\ m \in {l, r}
    <3>1. Node(m) = [t.node[m] EXCEPT !.parent = n]
      BY <2>3
    <3> HIDE DEF Node
    <3> QED
      BY <2>1, <2>3, <3>1 DEF Nodes
  <2>4. CASE m \notin {n, l, r}
    <3>1. Node(m) = t.node[m]
      BY <2>4
    <3> HIDE DEF Node
    <3> QED
      BY <2>1, <2>4, <3>1
  <2> QED
    BY <2>2, <2>3, <2>4
<1> HIDE DEF Node
<1>4. /\ s = [root |-> t.root, first |-> t.first, node |-> [m \in K |-> Node(m)]]
      /\ t.root \in K \cup {Nil} /\ t.first \in K \cup {Nil}
  BY DEF Trees
<1>5. s \in Trees(K, D) /\ s.root = t.root /\ s.first = t.first /\ \A m \in K : s.node[m] = Node(m)
  BY <1>3, <1>4 DEF Trees
<1> HIDE DEF s
<1>6. h = Higher(SubtreeHeight(t, l), SubtreeHeight(t, r))
  <2>1. \A c \in K \cup {Nil} : SubtreeHeight(s, c) = SubtreeHeight(t, c)
    BY <1>3, <1>5, SubtreeHeightIs
  <2>2. s.node[n].left = l /\ s.node[n].right = r
    BY <1>3, <1>5
  <2> QED
    BY <2>1, <2>2 DEF HeightOf
<1>7. h \in Nat
  BY <1>5, SubtreeHeightIs
<1> HIDE DEF h
<1>8. /\ u \in Trees(K, D) /\ OnlyHeights(u, s, K)
      /\ u.node[n].height = h
      /\ \A m \in K \ {n} : u.node[m].height = s.node[m].height
  BY <1>5, <1>7, HeightSet
<1>9. \A m \in K \ {n} : u.node[m] = s.node[m]
  <2>1. u = [s EXCEPT !.node[n].height = h] /\ s.node \in [K -> Nodes(K, D)]
    BY <1>5, KeysAre
  <2> QED
    BY <1>5, <2>1 DEF Trees
<1> HIDE DEF u
<1>10. Joined(u, t, K, n, l, r)
  <2>1. u.root = t.root /\ SameOrder(u, t, K)
    <3>1. u.root = s.root /\ SameOrder(u, s, K)
      BY <1>8 DEF OnlyHeights, SameOrder
    <3>2. s.root = t.root /\ SameOrder(s, t, K)
      BY <1>3, <1>5 DEF OnlyHeights, SameOrder
    <3> QED
      BY <3>1, <3>2 DEF SameOrder
  <2>2. ASSUME NEW m \in K \ {n, l, r} PROVE u.node[m] = t.node[m]
    <3>1. m \in K /\ m \notin {n, l, r} /\ m \in K \ {n}
      BY <2>2
    <3>2. u.node[m] = s.node[m] /\ s.node[m] = Node(m)
      BY <1>5, <1>9, <3>1
    <3>3. Node(m) = t.node[m]
      BY <1>3, <3>1
    <3> QED
      BY <3>2, <3>3
  <2>3. u.node[n].left = l /\ u.node[n].right = r
    BY <1>3, <1>5, <1>8 DEF OnlyHeights
  <2>4. \A m \in {l, r} \ {Nil} : m \in K \ {n} /\ u.node[m] = Node(m)
    BY <1>5, <1>9
  <2> QED
    BY <1>3, <1>6, <1>8, <2>1, <2>2, <2>3, <2>4 DEF Joined
<1> QED
  BY <1>2, <1>8, <1>10 DEF u

(* What is under c is a balanced search tree with the keys S.              *)
IsPartAt(t, U, S, x) ==
    /\ ShapeAt(t, U, x) /\ HeightIs(t, x) /\ InBalance(t, x)
    /\ U[x] \in SUBSET S
    /\ t.node[x].left \in S \cup {Nil} /\ t.node[x].right \in S \cup {Nil}

Part(t, K, U, c, S) ==
    /\ c \in K \cup {Nil} /\ S = Below(U, c) /\ S \in SUBSET K
    /\ c # Nil => c \in S
    /\ \A x \in S : IsPartAt(t, U, S, x)

(* A part whose nodes stay is a part still.                                *)
LEMMA PartStays ==
    ASSUME NEW K \in SUBSET Nat, NEW t, NEW U, NEW c, NEW S, Part(t, K, U, c, S),
           NEW s, NEW V, \A x \in S : s.node[x] = t.node[x] /\ V[x] = U[x]
    PROVE  Part(s, K, V, c, S) /\ SubtreeHeight(s, c) = SubtreeHeight(t, c)
<1>1. /\ c \in K \cup {Nil} /\ S = Below(U, c) /\ S \in SUBSET K /\ Nil \notin S
      /\ c # Nil => c \in S
  BY NilIsNone DEF Part
<1>2. Below(V, c) = S /\ SubtreeHeight(s, c) = SubtreeHeight(t, c)
  BY <1>1 DEF Below, SubtreeHeight
<1>3. ASSUME NEW x \in S PROVE IsPartAt(s, V, S, x)
  <2>1. IsPartAt(t, U, S, x) /\ s.node[x] = t.node[x] /\ V[x] = U[x]
    BY DEF Part
  <2>2. \A m \in {t.node[x].left, t.node[x].right} :
           /\ Below(V, m) = Below(U, m) /\ SubtreeHeight(s, m) = SubtreeHeight(t, m)
           /\ m # Nil => s.node[m].parent = t.node[m].parent
    BY <2>1 DEF IsPartAt, Below, SubtreeHeight
  <2>3. ShapeAt(s, V, x)
    BY <2>1, <2>2 DEF IsPartAt, ShapeAt
  <2>4. HeightIs(s, x) /\ InBalance(s, x)
    BY <2>1, <2>2 DEF IsPartAt, HeightIs, HeightOf, InBalance
  <2> QED
    BY <2>1, <2>3, <2>4 DEF IsPartAt
<1> QED
  BY <1>1, <1>2, <1>3 DEF Part

(* So is one whose top alone gets another parent.                          *)
StaysBelow(s, V, t, U, c, S) ==
    /\ \A x \in S : V[x] = U[x]
    /\ \A x \in S \ {c} : s.node[x] = t.node[x]
    /\ c # Nil => /\ s.node[c].left = t.node[c].left
                  /\ s.node[c].right = t.node[c].right
                  /\ s.node[c].height = t.node[c].height

LEMMA PartHung ==
    ASSUME NEW K \in SUBSET Nat, NEW t, NEW U, NEW c, NEW S, Part(t, K, U, c, S),
           NEW s, NEW V, StaysBelow(s, V, t, U, c, S)
    PROVE  /\ \A x \in S : IsPartAt(s, V, S, x)
           /\ Below(V, c) = S /\ SubtreeHeight(s, c) = SubtreeHeight(t, c)
<1>1. /\ c \in K \cup {Nil} /\ S = Below(U, c) /\ S \in SUBSET K /\ Nil \notin S
      /\ c # Nil => c \in S
  BY NilIsNone DEF Part
<1>2. Below(V, c) = S /\ SubtreeHeight(s, c) = SubtreeHeight(t, c)
  BY <1>1 DEF Below, SubtreeHeight, StaysBelow
<1>3. ASSUME NEW x \in S PROVE IsPartAt(s, V, S, x)
  <2>1. IsPartAt(t, U, S, x) /\ V[x] = U[x] /\ x \in S /\ x \in Nat
    BY <1>1 DEF Part, StaysBelow
  <2>2. /\ s.node[x].left = t.node[x].left
        /\ s.node[x].right = t.node[x].right
        /\ s.node[x].height = t.node[x].height
    BY <1>1 DEF StaysBelow
  <2>3. c \notin {t.node[x].left, t.node[x].right}
    <3>1. \A y \in Below(U, t.node[x].left) : y < x
      BY <2>1 DEF IsPartAt, ShapeAt
    <3>2. \A y \in Below(U, t.node[x].right) : x < y
      BY <2>1 DEF IsPartAt, ShapeAt
    <3>3. x \in Below(U, c) /\ ~ (x < x)
      BY <1>1, <2>1
    <3> QED
      BY <3>1, <3>2, <3>3
  <2>4. \A m \in {t.node[x].left, t.node[x].right} :
           /\ Below(V, m) = Below(U, m) /\ SubtreeHeight(s, m) = SubtreeHeight(t, m)
           /\ m # Nil => s.node[m].parent = t.node[m].parent
    BY <2>1, <2>3 DEF IsPartAt, Below, SubtreeHeight, StaysBelow
  <2>5. ShapeAt(s, V, x)
    BY <2>1, <2>2, <2>4 DEF IsPartAt, ShapeAt
  <2>6. HeightIs(s, x) /\ InBalance(s, x)
    BY <2>1, <2>2, <2>4 DEF IsPartAt, HeightIs, HeightOf, InBalance
  <2> QED
    BY <2>1, <2>2, <2>5, <2>6 DEF IsPartAt
<1> QED
  BY <1>2, <1>3

(* In u the nodes with the keys S make one part under c, of height h; the  *)
(* other nodes are those of t.                                             *)
Remade(u, V, t, U, K, D, c, S, h) ==
    /\ u \in Trees(K, D) /\ V \in [K -> SUBSET K]
    /\ u.root = t.root /\ SameOrder(u, t, K)
    /\ Part(u, K, V, c, S) /\ SubtreeHeight(u, c) = h
    /\ \A x \in K \ S : u.node[x] = t.node[x] /\ V[x] = U[x]

(* A lies below B. *)
Before(A, B) == \A x \in A : \A y \in B : x < y

(* Parts l and r with a node between, balanced when they are joined.       *)
CanJoin(t, U, K, n, l, r, A, B) ==
    /\ Part(t, K, U, l, A) /\ Part(t, K, U, r, B)
    /\ Before(A, {n}) /\ Before({n}, B) /\ Before(A, B)
    /\ SubtreeHeight(t, l) - SubtreeHeight(t, r) \in -1..1

(* Two parts and a node between them are joined to one.                    *)
LEMMA JoinRemakes ==
    ASSUME NEW K \in SUBSET Nat, NEW D, NEW t \in Trees(K, D), NEW U \in [K -> SUBSET K],
           NEW n \in K, NEW l, NEW r, NEW A, NEW B, CanJoin(t, U, K, n, l, r, A, B)
    PROVE  \E V : Remade(Join(t, n, l, r), V, t, U, K, D, n, {n} \cup A \cup B,
                         Higher(SubtreeHeight(t, l), SubtreeHeight(t, r)) + 1)
<1> DEFINE s == Join(t, n, l, r)
           S == {n} \cup A \cup B
           V == [U EXCEPT ![n] = S]
<1>0. /\ Part(t, K, U, l, A) /\ Part(t, K, U, r, B)
      /\ \A x \in A : x < n
      /\ \A x \in B : n < x
      /\ SubtreeHeight(t, l) - SubtreeHeight(t, r) \in -1..1
  BY DEF CanJoin, Before
<1>1. /\ A \in SUBSET K /\ B \in SUBSET K /\ Nil \notin K
      /\ l \in K \cup {Nil} /\ A = Below(U, l) /\ (l # Nil => l \in A)
      /\ r \in K \cup {Nil} /\ B = Below(U, r) /\ (r # Nil => r \in B)
  BY <1>0, NilIsNone DEF Part
<1>2. n \notin A /\ n \notin B /\ A \cap B = {}
  <2>1. n \in Nat /\ A \in SUBSET Nat /\ \A x \in Nat : ~ (x < x)
    <3>1. \A x \in Nat : ~ (x < x)
      OBVIOUS
    <3> QED
      BY <1>1, <3>1
  <2>2. \A x \in A : \A y \in B : x < y
    BY DEF CanJoin, Before
  <2>3. \A x \in A : x \notin B
    BY <2>1, <2>2
  <2> QED
    BY <1>0, <2>1, <2>3
<1>3. l # n /\ r # n
  BY <1>1, <1>2
<1>4. s \in Trees(K, D) /\ Joined(s, t, K, n, l, r)
  BY <1>1, <1>3, JoinIs
<1> HIDE DEF s
<1>5. /\ S \in SUBSET K /\ V \in [K -> SUBSET K] /\ V[n] = S
      /\ \A x \in K \ {n} : V[x] = U[x]
  BY <1>1
<1> HIDE DEF V
<1>6. /\ s.root = t.root /\ SameOrder(s, t, K)
      /\ \A m \in K \ {n, l, r} : s.node[m] = t.node[m]
      /\ s.node[n].left = l /\ s.node[n].right = r
      /\ s.node[n].height = Higher(SubtreeHeight(t, l), SubtreeHeight(t, r))
      /\ \A m \in {l, r} \ {Nil} : /\ s.node[m].left = t.node[m].left
                                   /\ s.node[m].right = t.node[m].right
                                   /\ s.node[m].parent = n
                                   /\ s.node[m].height = t.node[m].height
  BY <1>4 DEF Joined
<1>7. /\ \A x \in A : IsPartAt(s, V, A, x)
      /\ Below(V, l) = A /\ SubtreeHeight(s, l) = SubtreeHeight(t, l)
  <2>1. \A x \in A : V[x] = U[x]
    BY <1>1, <1>2, <1>5
  <2>2. \A x \in A \ {l} : s.node[x] = t.node[x]
    <3>1. \A x \in A \ {l} : x \in K \ {n, l, r}
      BY <1>1, <1>2
    <3> QED
      BY <1>6, <3>1
  <2>3. l # Nil => /\ s.node[l].left = t.node[l].left
                   /\ s.node[l].right = t.node[l].right
                   /\ s.node[l].height = t.node[l].height
    BY <1>6
  <2>4. StaysBelow(s, V, t, U, l, A)
    BY <2>1, <2>2, <2>3 DEF StaysBelow
  <2>5. Part(t, K, U, l, A)
    BY <1>0
  <2> QED
    BY <2>4, <2>5, PartHung
<1>8. /\ \A x \in B : IsPartAt(s, V, B, x)
      /\ Below(V, r) = B /\ SubtreeHeight(s, r) = SubtreeHeight(t, r)
  <2>1. \A x \in B : V[x] = U[x]
    BY <1>1, <1>2, <1>5
  <2>2. \A x \in B \ {r} : s.node[x] = t.node[x]
    <3>1. \A x \in B \ {r} : x \in K \ {n, l, r}
      BY <1>1, <1>2
    <3> QED
      BY <1>6, <3>1
  <2>3. r # Nil => /\ s.node[r].left = t.node[r].left
                   /\ s.node[r].right = t.node[r].right
                   /\ s.node[r].height = t.node[r].height
    BY <1>6
  <2>4. StaysBelow(s, V, t, U, r, B)
    BY <2>1, <2>2, <2>3 DEF StaysBelow
  <2>5. Part(t, K, U, r, B)
    BY <1>0
  <2> QED
    BY <2>4, <2>5, PartHung
<1>9. IsPartAt(s, V, S, n)
  <2>1. /\ l # Nil => s.node[l].parent = n
        /\ r # Nil => s.node[r].parent = n
    BY <1>6
  <2>2. ShapeAt(s, V, n)
    BY <1>0, <1>5, <1>6, <1>7, <1>8, <2>1 DEF ShapeAt
  <2>3. HeightIs(s, n) /\ InBalance(s, n)
    BY <1>0, <1>6, <1>7, <1>8 DEF HeightIs, HeightOf, InBalance
  <2> QED
    BY <1>1, <1>5, <1>6, <2>2, <2>3 DEF IsPartAt
<1>10. \A x \in S : IsPartAt(s, V, S, x)
  <2>1. \A x \in A : IsPartAt(s, V, S, x)
    BY <1>7 DEF IsPartAt
  <2>2. \A x \in B : IsPartAt(s, V, S, x)
    BY <1>8 DEF IsPartAt
  <2> QED
    BY <1>9, <2>1, <2>2
<1>11. Part(s, K, V, n, S)
  <2>1. n # Nil /\ Below(V, n) = S
    BY <1>1, <1>5 DEF Below
  <2> QED
    BY <1>5, <1>10, <2>1 DEF Part
<1>12. SubtreeHeight(s, n) = s.node[n].height + 1
  BY <1>1 DEF SubtreeHeight
<1>13. \A x \in K \ S : s.node[x] = t.node[x] /\ V[x] = U[x]
  <2>1. \A x \in K \ S : x \in K \ {n, l, r}
    BY <1>1
  <2> QED
    BY <1>5, <1>6, <2>1
<1> DEFINE h == Higher(SubtreeHeight(t, l), SubtreeHeight(t, r)) + 1
<1> HIDE DEF S
<1>14. Remade(s, V, t, U, K, D, n, S, h)
  BY <1>4, <1>5, <1>6, <1>11, <1>12, <1>13 DEF Remade
<1> QED
  BY <1>14 DEF s, S
-----------------------------------------------------------------------------
(* The rotations. *)

LEMMA RemadeTwice ==
    ASSUME NEW K, NEW D, NEW t, NEW U, NEW s, NEW W, NEW u, NEW V,
           NEW b, NEW R, NEW i, NEW c, NEW S, NEW h, R \in SUBSET S,
           Remade(s, W, t, U, K, D, b, R, i), Remade(u, V, s, W, K, D, c, S, h)
    PROVE  Remade(u, V, t, U, K, D, c, S, h)
  BY DEF Remade, SameOrder

LEMMA RemadeKeeps ==
    ASSUME NEW K \in SUBSET Nat, NEW D, NEW t, NEW U, NEW s, NEW W,
           NEW b, NEW R, NEW i, Remade(s, W, t, U, K, D, b, R, i),
           NEW c, NEW S, Part(t, K, U, c, S), S \cap R = {}
    PROVE  Part(s, K, W, c, S) /\ SubtreeHeight(s, c) = SubtreeHeight(t, c)
<1>1. \A x \in S : s.node[x] = t.node[x] /\ W[x] = U[x]
  BY DEF Remade, Part
<1> QED
  BY <1>1, PartStays

LEMMA RemadeIs ==
    ASSUME NEW K, NEW D, NEW t, NEW U, NEW s, NEW W,
           NEW b, NEW R, NEW i, Remade(s, W, t, U, K, D, b, R, i)
    PROVE  s \in Trees(K, D) /\ W \in [K -> SUBSET K] /\ Part(s, K, W, b, R) /\ SubtreeHeight(s, b) = i
  BY DEF Remade

(* Two joins, one on the other.                                            *)
FitRight(t, K, U, a, x, b, c, d, A, B, C, h) ==
    /\ Part(t, K, U, b, A)
    /\ Part(t, K, U, c, B)
    /\ Part(t, K, U, d, C)
    /\ Before(A, {x})
    /\ Before({x}, B)
    /\ Before(B, {a})
    /\ Before({a}, C)
    /\ x < a
    /\ SubtreeHeight(t, b) = h + 1
    /\ SubtreeHeight(t, c) = h
    /\ SubtreeHeight(t, d) = h

LEMMA SingleRight ==
    ASSUME NEW K \in SUBSET Nat, NEW D, NEW t \in Trees(K, D), NEW U \in [K -> SUBSET K],
           NEW a \in K, NEW x \in K, NEW b, NEW c, NEW d, NEW A, NEW B, NEW C, NEW h \in Nat,
           FitRight(t, K, U, a, x, b, c, d, A, B, C, h)
    PROVE  \E V : Remade(Join(Join(t, a, c, d), x, b, a), V, t, U, K, D, x,
                         {a, x} \cup A \cup B \cup C, h + 2)
<1> USE DEF FitRight
<1>0. A \in SUBSET Nat /\ B \in SUBSET Nat /\ C \in SUBSET Nat /\ a \in Nat /\ x \in Nat
  BY DEF Part
<1>1. Before(B, C) /\ Before({x}, C) /\ Before(A, C) /\ Before(A, {a}) /\ Before(A, B)
  BY <1>0 DEF Before
<1> DEFINE R == {a} \cup B \cup C
           S == {x} \cup A \cup R
           s == Join(t, a, c, d)
           u == Join(s, x, b, a)
<1>2. CanJoin(t, U, K, a, c, d, B, C)
  <2>1. h - h \in -1..1
    OBVIOUS
  <2> QED
    BY <1>1, <2>1 DEF CanJoin
<1>3. PICK W : Remade(s, W, t, U, K, D, a, R, h + 1)
  <2>1. Higher(h, h) = h
    BY DEF Higher
  <2> QED
    BY <1>2, <2>1, JoinRemakes
<1>4. A \cap R = {}
  <2>1. Before(A, R)
    BY <1>1 DEF Before
  <2>2. \A y \in A : ~ (y < y)
    BY <1>0
  <2> QED
    BY <2>1, <2>2 DEF Before
<1> HIDE DEF s, R
<1>5. /\ s \in Trees(K, D) /\ W \in [K -> SUBSET K]
      /\ Part(s, K, W, a, R) /\ SubtreeHeight(s, a) = h + 1
      /\ Part(s, K, W, b, A) /\ SubtreeHeight(s, b) = h + 1
  BY <1>3, <1>4, RemadeIs, RemadeKeeps
<1>6. CanJoin(s, W, K, x, b, a, A, R)
  <2>1. (h + 1) - (h + 1) \in -1..1
    OBVIOUS
  <2>2. Before({x}, R) /\ Before(A, R)
    BY <1>1 DEF Before, R
  <2> QED
    BY <1>5, <2>1, <2>2 DEF CanJoin
<1>7. PICK V : Remade(u, V, s, W, K, D, x, S, h + 2)
  <2>1. Higher(h + 1, h + 1) + 1 = h + 2
    BY DEF Higher
  <2> QED
    BY <1>5, <1>6, <2>1, JoinRemakes
<1>8. Remade(u, V, t, U, K, D, x, S, h + 2)
  BY <1>3, <1>7, RemadeTwice
<1>9. S = {a, x} \cup A \cup B \cup C
  BY DEF R
<1> QED
  BY <1>8, <1>9 DEF s

FitLeft(t, K, U, a, x, b, c, d, A, B, C, h) ==
    /\ Part(t, K, U, b, A)
    /\ Part(t, K, U, c, B)
    /\ Part(t, K, U, d, C)
    /\ Before(A, {a})
    /\ Before({a}, B)
    /\ Before(B, {x})
    /\ Before({x}, C)
    /\ a < x
    /\ SubtreeHeight(t, b) = h
    /\ SubtreeHeight(t, c) = h
    /\ SubtreeHeight(t, d) = h + 1

LEMMA SingleLeft ==
    ASSUME NEW K \in SUBSET Nat, NEW D, NEW t \in Trees(K, D), NEW U \in [K -> SUBSET K],
           NEW a \in K, NEW x \in K, NEW b, NEW c, NEW d, NEW A, NEW B, NEW C, NEW h \in Nat,
           FitLeft(t, K, U, a, x, b, c, d, A, B, C, h)
    PROVE  \E V : Remade(Join(Join(t, a, b, c), x, a, d), V, t, U, K, D, x,
                         {a, x} \cup A \cup B \cup C, h + 2)
<1> USE DEF FitLeft
<1>0. A \in SUBSET Nat /\ B \in SUBSET Nat /\ C \in SUBSET Nat /\ a \in Nat /\ x \in Nat
  BY DEF Part
<1>1. Before(A, B) /\ Before(A, {x}) /\ Before(A, C) /\ Before({a}, C) /\ Before(B, C)
  BY <1>0 DEF Before
<1> DEFINE R == {a} \cup A \cup B
           S == {x} \cup R \cup C
           s == Join(t, a, b, c)
           u == Join(s, x, a, d)
<1>2. CanJoin(t, U, K, a, b, c, A, B)
  <2>1. h - h \in -1..1
    OBVIOUS
  <2> QED
    BY <1>1, <2>1 DEF CanJoin
<1>3. PICK W : Remade(s, W, t, U, K, D, a, R, h + 1)
  <2>1. Higher(h, h) = h
    BY DEF Higher
  <2> QED
    BY <1>2, <2>1, JoinRemakes
<1>4. C \cap R = {}
  <2>1. Before(R, C)
    BY <1>1 DEF Before
  <2>2. \A y \in C : ~ (y < y)
    BY <1>0
  <2> QED
    BY <2>1, <2>2 DEF Before
<1> HIDE DEF s, R
<1>5. /\ s \in Trees(K, D) /\ W \in [K -> SUBSET K]
      /\ Part(s, K, W, a, R) /\ SubtreeHeight(s, a) = h + 1
      /\ Part(s, K, W, d, C) /\ SubtreeHeight(s, d) = h + 1
  BY <1>3, <1>4, RemadeIs, RemadeKeeps
<1>6. CanJoin(s, W, K, x, a, d, R, C)
  <2>1. (h + 1) - (h + 1) \in -1..1
    OBVIOUS
  <2>2. Before(R, {x}) /\ Before(R, C)
    BY <1>1 DEF Before, R
  <2> QED
    BY <1>5, <2>1, <2>2 DEF CanJoin
<1>7. PICK V : Remade(u, V, s, W, K, D, x, S, h + 2)
  <2>1. Higher(h + 1, h + 1) + 1 = h + 2
    BY DEF Higher
  <2> QED
    BY <1>5, <1>6, <2>1, JoinRemakes
<1>8. Remade(u, V, t, U, K, D, x, S, h + 2)
  BY <1>3, <1>7, RemadeTwice
<1>9. S = {a, x} \cup A \cup B \cup C
  BY DEF R
<1> QED
  BY <1>8, <1>9 DEF s

(* Three joins: low and high are joined to what is between.                *)
FitDouble(t, K, U, x, w, a, b, c, d, e, A, B, C, E, h) ==
    /\ Part(t, K, U, b, A)
    /\ Part(t, K, U, c, B)
    /\ Part(t, K, U, d, C)
    /\ Part(t, K, U, e, E)
    /\ Before(A, {x})
    /\ Before({x}, B)
    /\ Before(B, {w})
    /\ Before({w}, C)
    /\ Before(C, {a})
    /\ Before({a}, E)
    /\ x < w
    /\ w < a
    /\ SubtreeHeight(t, b) = h
    /\ SubtreeHeight(t, e) = h
    /\ SubtreeHeight(t, c) \in {h - 1, h}
    /\ SubtreeHeight(t, d) \in {h - 1, h}

LEMMA Double ==
    ASSUME NEW K \in SUBSET Nat, NEW D, NEW t \in Trees(K, D), NEW U \in [K -> SUBSET K],
           NEW x \in K, NEW w \in K, NEW a \in K, NEW b, NEW c, NEW d, NEW e,
           NEW A, NEW B, NEW C, NEW E, NEW h \in Nat,
           FitDouble(t, K, U, x, w, a, b, c, d, e, A, B, C, E, h)
    PROVE  /\ \E V : Remade(Join(Join(Join(t, x, b, c), a, d, e), w, x, a), V, t, U, K, D, w,
                            {x, w, a} \cup A \cup B \cup C \cup E, h + 2)
           /\ \E V : Remade(Join(Join(Join(t, a, d, e), x, b, c), w, x, a), V, t, U, K, D, w,
                            {x, w, a} \cup A \cup B \cup C \cup E, h + 2)
<1> USE DEF FitDouble
<1>0. /\ A \in SUBSET Nat /\ B \in SUBSET Nat /\ C \in SUBSET Nat /\ E \in SUBSET Nat
      /\ x \in Nat /\ w \in Nat /\ a \in Nat
  BY DEF Part
<1>1. Before(A, B) /\ Before(A, {w}) /\ Before(A, C) /\ Before(A, {a}) /\ Before(A, E)
  BY <1>0 DEF Before
<1>2. Before({x}, C) /\ Before({x}, E) /\ Before(B, C) /\ Before(B, {a}) /\ Before(B, E)
  BY <1>0 DEF Before
<1>3. Before({w}, E) /\ Before(C, E)
  BY <1>0 DEF Before
<1> DEFINE R == {x} \cup A \cup B
           Q == {a} \cup C \cup E
           S == {w} \cup R \cup Q
<1>4. /\ \A g \in {h - 1, h} : h - g \in -1..1 /\ g - h \in -1..1
      /\ \A g \in {h - 1, h} : Higher(h, g) + 1 = h + 1 /\ Higher(g, h) + 1 = h + 1
      /\ (h + 1) - (h + 1) \in -1..1 /\ Higher(h + 1, h + 1) + 1 = h + 2
  BY DEF Higher
<1>5. Before(R, Q) /\ Before(R, {w}) /\ Before({w}, Q)
  <2>1. \A y \in R : \A z \in Q : y < z
    <3>1. x < a
      BY <1>0
    <3> QED
      BY <1>1, <1>2, <3>1 DEF Before
  <2>2. (\A y \in R : y < w) /\ \A z \in Q : w < z
    BY <1>1, <1>3 DEF Before
  <2> QED
    BY <2>1, <2>2 DEF Before
<1>6. R \cap Q = {}
  <2>1. R \in SUBSET Nat
    BY <1>0
  <2>2. \A y \in R : ~ (y < y)
    BY <2>1
  <2> HIDE DEF R, Q
  <2> QED
    BY <1>5, <2>2 DEF Before
<1>7. A \in SUBSET R /\ B \in SUBSET R /\ C \in SUBSET Q /\ E \in SUBSET Q
  OBVIOUS
<1>8. S = {x, w, a} \cup A \cup B \cup C \cup E
  OBVIOUS
<1>9. CanJoin(t, U, K, x, b, c, A, B) /\ CanJoin(t, U, K, a, d, e, C, E)
  BY <1>1, <1>2, <1>3, <1>4 DEF CanJoin
<1>10. /\ Higher(SubtreeHeight(t, b), SubtreeHeight(t, c)) + 1 = h + 1
       /\ Higher(SubtreeHeight(t, d), SubtreeHeight(t, e)) + 1 = h + 1
  BY <1>4
<1>11. \E V : Remade(Join(Join(Join(t, x, b, c), a, d, e), w, x, a), V, t, U, K, D, w, S, h + 2)
  <2> DEFINE s == Join(t, x, b, c)
             u == Join(s, a, d, e)
  <2>1. PICK W : Remade(s, W, t, U, K, D, x, R, h + 1)
    BY <1>9, <1>10, JoinRemakes
  <2> HIDE DEF s, R, Q
  <2>2. /\ s \in Trees(K, D) /\ W \in [K -> SUBSET K]
        /\ Part(s, K, W, x, R) /\ SubtreeHeight(s, x) = h + 1
    BY <2>1, RemadeIs
  <2>3. /\ Part(s, K, W, d, C) /\ SubtreeHeight(s, d) = SubtreeHeight(t, d)
        /\ Part(s, K, W, e, E) /\ SubtreeHeight(s, e) = SubtreeHeight(t, e)
    <3>1. C \cap R = {} /\ E \cap R = {}
      BY <1>6, <1>7
    <3>2. Part(s, K, W, d, C) /\ SubtreeHeight(s, d) = SubtreeHeight(t, d)
      BY <2>1, <3>1, RemadeKeeps
    <3>3. Part(s, K, W, e, E) /\ SubtreeHeight(s, e) = SubtreeHeight(t, e)
      BY <2>1, <3>1, RemadeKeeps
    <3> QED
      BY <3>2, <3>3
  <2>4. CanJoin(s, W, K, a, d, e, C, E)
    BY <1>9, <2>3 DEF CanJoin
  <2>5. PICK X : Remade(u, X, s, W, K, D, a, Q, h + 1)
    <3>1. \E X : Remade(Join(s, a, d, e), X, s, W, K, D, a, {a} \cup C \cup E,
                        Higher(SubtreeHeight(s, d), SubtreeHeight(s, e)) + 1)
      BY <2>2, <2>4, JoinRemakes
    <3> QED
      BY <1>10, <2>3, <3>1 DEF Q
  <2> HIDE DEF u
  <2>6. /\ u \in Trees(K, D) /\ X \in [K -> SUBSET K]
        /\ Part(u, K, X, a, Q) /\ SubtreeHeight(u, a) = h + 1
        /\ Part(u, K, X, x, R) /\ SubtreeHeight(u, x) = h + 1
    BY <1>6, <2>2, <2>5, RemadeIs, RemadeKeeps
  <2>7. CanJoin(u, X, K, w, x, a, R, Q)
    BY <1>4, <1>5, <2>6 DEF CanJoin
  <2>8. PICK V : Remade(Join(u, w, x, a), V, u, X, K, D, w, S, h + 2)
    <3>1. \E V : Remade(Join(u, w, x, a), V, u, X, K, D, w, {w} \cup R \cup Q,
                        Higher(SubtreeHeight(u, x), SubtreeHeight(u, a)) + 1)
      BY <2>6, <2>7, JoinRemakes
    <3> QED
      BY <1>4, <2>6, <3>1
  <2>9. Remade(Join(u, w, x, a), V, s, W, K, D, w, S, h + 2)
    BY <2>5, <2>8, RemadeTwice
  <2>10. Remade(Join(u, w, x, a), V, t, U, K, D, w, S, h + 2)
    BY <2>1, <2>9, RemadeTwice
  <2> QED
    BY <2>10 DEF s, u
<1>12. \E V : Remade(Join(Join(Join(t, a, d, e), x, b, c), w, x, a), V, t, U, K, D, w, S, h + 2)
  <2> DEFINE s == Join(t, a, d, e)
             u == Join(s, x, b, c)
  <2>1. PICK W : Remade(s, W, t, U, K, D, a, Q, h + 1)
    BY <1>9, <1>10, JoinRemakes
  <2> HIDE DEF s, R, Q
  <2>2. /\ s \in Trees(K, D) /\ W \in [K -> SUBSET K]
        /\ Part(s, K, W, a, Q) /\ SubtreeHeight(s, a) = h + 1
    BY <2>1, RemadeIs
  <2>3. /\ Part(s, K, W, b, A) /\ SubtreeHeight(s, b) = SubtreeHeight(t, b)
        /\ Part(s, K, W, c, B) /\ SubtreeHeight(s, c) = SubtreeHeight(t, c)
    <3>1. A \cap Q = {} /\ B \cap Q = {}
      BY <1>6, <1>7
    <3> QED
      BY <2>1, <3>1, RemadeKeeps
  <2>4. CanJoin(s, W, K, x, b, c, A, B)
    BY <1>9, <2>3 DEF CanJoin
  <2>5. PICK X : Remade(u, X, s, W, K, D, x, R, h + 1)
    <3>1. \E X : Remade(Join(s, x, b, c), X, s, W, K, D, x, {x} \cup A \cup B,
                        Higher(SubtreeHeight(s, b), SubtreeHeight(s, c)) + 1)
      BY <2>2, <2>4, JoinRemakes
    <3> QED
      BY <1>10, <2>3, <3>1 DEF R
  <2> HIDE DEF u
  <2>6. /\ u \in Trees(K, D) /\ X \in [K -> SUBSET K]
        /\ Part(u, K, X, x, R) /\ SubtreeHeight(u, x) = h + 1
        /\ Part(u, K, X, a, Q) /\ SubtreeHeight(u, a) = h + 1
    <3>1. Q \cap R = {}
      BY <1>6
    <3> QED
      BY <3>1, <2>2, <2>5, RemadeIs, RemadeKeeps
  <2>7. CanJoin(u, X, K, w, x, a, R, Q)
    BY <1>4, <1>5, <2>6 DEF CanJoin
  <2>8. PICK V : Remade(Join(u, w, x, a), V, u, X, K, D, w, S, h + 2)
    <3>1. \E V : Remade(Join(u, w, x, a), V, u, X, K, D, w, {w} \cup R \cup Q,
                        Higher(SubtreeHeight(u, x), SubtreeHeight(u, a)) + 1)
      BY <2>6, <2>7, JoinRemakes
    <3> QED
      BY <1>4, <2>6, <3>1
  <2>9. Remade(Join(u, w, x, a), V, s, W, K, D, w, S, h + 2)
    BY <2>5, <2>8, RemadeTwice
  <2>10. Remade(Join(u, w, x, a), V, t, U, K, D, w, S, h + 2)
    BY <2>1, <2>9, RemadeTwice
  <2> QED
    BY <2>10 DEF s, u
<1> QED
  BY <1>8, <1>11, <1>12
-----------------------------------------------------------------------------
(* A part that was made anew is hung where the old one was. *)

Hung(s, c, a, p) ==
    LET u == [s EXCEPT !.node[c].parent = p]
    IN  IF p = Nil THEN [u EXCEPT !.root = c]
        ELSE [u EXCEPT !.node[p].left  = IF @ = a THEN c ELSE @,
                       !.node[p].right = IF @ = a THEN c ELSE @]

LEMMA HungIs ==
    ASSUME NEW K \in SUBSET Nat, NEW D, NEW s \in Trees(K, D), NEW c \in K, NEW a,
           NEW p \in (K \cup {Nil}) \ {c}
    PROVE  LET v == Hung(s, c, a, p)
           IN  /\ v \in Trees(K, D) /\ SameOrder(v, s, K)
               /\ v.root = (IF p = Nil THEN c ELSE s.root)
               /\ \A x \in K \ {c, p} : v.node[x] = s.node[x]
               /\ \A x \in K :
                     /\ v.node[x].left = (IF x = p /\ s.node[x].left = a THEN c ELSE s.node[x].left)
                     /\ v.node[x].right = (IF x = p /\ s.node[x].right = a THEN c ELSE s.node[x].right)
                     /\ v.node[x].parent = (IF x = c THEN p ELSE s.node[x].parent)
                     /\ v.node[x].height = s.node[x].height
<1> DEFINE u == [s EXCEPT !.node[c].parent = p]
           Node(x) == IF x = c THEN [s.node[x] EXCEPT !.parent = p] ELSE s.node[x]
           Final(x) == IF x = p THEN [Node(x) EXCEPT !.left = IF @ = a THEN c ELSE @,
                                                    !.right = IF @ = a THEN c ELSE @]
                      ELSE Node(x)
           v == Hung(s, c, a, p)
<1>1. s.node \in [K -> Nodes(K, D)] /\ Nil \notin K /\ \A x \in K : s.node[x] \in Nodes(K, D)
  BY KeysAre, NilIsNone
<1>2. u = [root |-> s.root, first |-> s.first, node |-> [x \in K |-> Node(x)]]
  BY <1>1 DEF Trees
<1>3. v = [root |-> IF p = Nil THEN c ELSE s.root, first |-> s.first,
           node |-> [x \in K |-> Final(x)]]
  <2>1. v = IF p = Nil THEN [u EXCEPT !.root = c]
            ELSE [u EXCEPT !.node[p].left  = IF @ = a THEN c ELSE @,
                           !.node[p].right = IF @ = a THEN c ELSE @]
    BY DEF Hung
  <2> HIDE DEF v, u, Node
  <2>2. CASE p = Nil
    <3>1. \A x \in K : Final(x) = Node(x)
      BY <1>1, <2>2
    <3> QED
      BY <1>2, <2>1, <2>2, <3>1
  <2>3. CASE p # Nil
    BY <1>2, <2>1, <2>3
  <2> QED
    BY <2>2, <2>3
<1>4. ASSUME NEW x \in K
      PROVE  /\ Node(x) \in Nodes(K, D)
             /\ x # c => Node(x) = s.node[x]
             /\ Node(x).left = s.node[x].left /\ Node(x).right = s.node[x].right
             /\ Node(x).parent = (IF x = c THEN p ELSE s.node[x].parent)
             /\ Node(x).height = s.node[x].height
             /\ Node(x).prev = s.node[x].prev /\ Node(x).next = s.node[x].next
             /\ Node(x).data = s.node[x].data
  <2>1. s.node[x] \in Nodes(K, D)
    BY <1>1
  <2> QED
    BY <2>1 DEF Nodes
<1> HIDE DEF Node
<1>5. ASSUME NEW x \in K
      PROVE  /\ Final(x) \in Nodes(K, D)
             /\ x # p => Final(x) = Node(x)
             /\ Final(x).left = (IF x = p /\ s.node[x].left = a THEN c ELSE s.node[x].left)
             /\ Final(x).right = (IF x = p /\ s.node[x].right = a THEN c ELSE s.node[x].right)
             /\ Final(x).parent = Node(x).parent
             /\ Final(x).height = s.node[x].height
             /\ Final(x).prev = s.node[x].prev /\ Final(x).next = s.node[x].next
             /\ Final(x).data = s.node[x].data
  <2> DEFINE e == Node(x)
  <2>1. e \in Nodes(K, D) /\ Final(x) = IF x = p THEN [e EXCEPT !.left = IF @ = a THEN c ELSE @,
                                                    !.right = IF @ = a THEN c ELSE @]
                      ELSE e
    BY <1>4
  <2>2. /\ e.left = s.node[x].left /\ e.right = s.node[x].right
        /\ e.height = s.node[x].height
        /\ e.prev = s.node[x].prev /\ e.next = s.node[x].next
        /\ e.data = s.node[x].data
    BY <1>4
  <2> HIDE DEF e, Final
  <2>3. CASE x # p
    <3>1. Final(x) = e
      BY <2>1, <2>3
    <3> QED
      BY <2>1, <2>2, <2>3, <3>1 DEF e
  <2>4. CASE x = p
    <3>1. Final(x) = [e EXCEPT !.left = IF @ = a THEN c ELSE @, !.right = IF @ = a THEN c ELSE @]
      BY <2>1, <2>4
    <3> QED
      BY <2>1, <2>2, <2>4, <3>1 DEF e, Nodes
  <2> QED
    BY <2>3, <2>4
<1> HIDE DEF Final
<1>6. /\ v \in Trees(K, D) /\ v.first = s.first
      /\ v.root = IF p = Nil THEN c ELSE s.root
      /\ \A x \in K : v.node[x] = Final(x)
  <2>1. s.root \in K \cup {Nil} /\ s.first \in K \cup {Nil}
    BY DEF Trees
  <2>2. \A x \in K : Final(x) \in Nodes(K, D)
    BY <1>5
  <2> QED
    BY <1>3, <2>1, <2>2 DEF Trees
<1> HIDE DEF v
<1>7. SameOrder(v, s, K)
  BY <1>5, <1>6 DEF SameOrder
<1>8. \A x \in K \ {c, p} : v.node[x] = s.node[x]
  BY <1>4, <1>5, <1>6
<1>9. \A x \in K :
         /\ v.node[x].left = (IF x = p /\ s.node[x].left = a THEN c ELSE s.node[x].left)
         /\ v.node[x].right = (IF x = p /\ s.node[x].right = a THEN c ELSE s.node[x].right)
         /\ v.node[x].parent = (IF x = c THEN p ELSE s.node[x].parent)
         /\ v.node[x].height = s.node[x].height
  BY <1>4, <1>5, <1>6
<1> QED
  BY <1>6, <1>7, <1>8, <1>9 DEF v

LEMMA UnderItself ==
    ASSUME NEW K, NEW D, NEW t \in Trees(K, D), NEW U, Shape(t, K, U)
    PROVE  K \in SUBSET Nat /\ Nil \notin K /\ \A n \in K : n \in U[n] /\ U[n] \in SUBSET K /\ n # Nil
<1>1. K \in SUBSET Nat
  BY DEF Shape
<1>2. Nil \notin K
  BY <1>1, NilIsNone
<1>3. \A n \in K : n \in U[n] /\ U[n] \in SUBSET K
  BY NodeIs
<1> QED
  BY <1>1, <1>2, <1>3

LEMMA ParentIs ==
    ASSUME NEW K, NEW D, NEW t \in Trees(K, D), NEW U, Shape(t, K, U), NEW a \in K
    PROVE  LET p == t.node[a].parent
           IN  /\ p \in K \cup {Nil} /\ (p = Nil <=> a = t.root)
               /\ p # Nil => p \in K /\ p \notin U[a] /\ a \in U[p]
<1> DEFINE p == t.node[a].parent
<1>1. p \in K \cup {Nil} /\ (p = Nil <=> a = t.root)
  BY NodeIs, RootIs
<1>2. ASSUME p # Nil PROVE p \in K /\ p \notin U[a] /\ a \in U[p]
  <2>1. PICK z \in K : z # a /\ a \in U[z]
    BY <1>1, <1>2 DEF Shape
  <2>2. p \in K /\ a \in {t.node[p].left, t.node[p].right}
    <3>1. Hangs(t, U[z], a)
      BY <2>1, Nested
    <3>2. U[z] \in SUBSET K
      BY NodeIs
    <3> QED
      BY <3>1, <3>2 DEF Hangs
  <2> HIDE DEF p
  <2>3. a \in Below(U, t.node[p].left) \/ a \in Below(U, t.node[p].right)
    <3>1. a \in Below(U, a)
      <4>1. a \in U[a] /\ a # Nil
        BY UnderItself
      <4> QED
        BY <4>1 DEF Below
    <3> QED
      BY <2>2, <3>1
  <2>4. a \in U[p] /\ a # p
    BY <2>2, <2>3, NodeIs
  <2>5. p \notin U[a]
    BY <2>2, <2>4, NestedOnce
  <2> QED
    BY <2>2, <2>4, <2>5
<1> QED
  BY <1>1, <1>2

(* A node that is not in a part, and its children.                         *)
LEMMA ChildrenOutside ==
    ASSUME NEW K, NEW D, NEW t \in Trees(K, D), NEW U, Shape(t, K, U), NEW a \in K,
           NEW x \in K \ U[a], NEW c \in {t.node[x].left, t.node[x].right}
    PROVE  /\ c \in K \cup {Nil}
           /\ c = a <=> c \in U[a]
           /\ c # Nil => c \in K /\ t.node[c].parent = x /\ c \in U[x] /\ Below(U, c) = U[c]
<1>1. /\ c \in K \cup {Nil} /\ a \in U[a] /\ Nil \notin K
      /\ Below(U, c) \in SUBSET (U[x] \ {x}) /\ U[a] \in SUBSET K
  <2>1. a \in U[a] /\ U[a] \in SUBSET K /\ Nil \notin K
    BY UnderItself
  <2>2. /\ t.node[x].left \in K \cup {Nil} /\ t.node[x].right \in K \cup {Nil}
        /\ Below(U, t.node[x].left) \in SUBSET (U[x] \ {x})
        /\ Below(U, t.node[x].right) \in SUBSET (U[x] \ {x})
    BY NodeIs
  <2> QED
    BY <2>1, <2>2
<1>2. c # Nil => c \in K /\ t.node[c].parent = x /\ Below(U, c) = U[c] /\ c \in U[c]
  BY <1>1, NodeIs DEF Shape, ShapeAt, Below
<1>3. c \in U[a] => c = a
  <2> SUFFICES ASSUME c \in U[a], c # a PROVE FALSE
    OBVIOUS
  <2>1. Hangs(t, U[a], c)
    BY Nested
  <2> QED
    BY <1>1, <1>2, <2>1 DEF Hangs
<1> QED
  BY <1>1, <1>2, <1>3

(* In v the part V[c] of the node c stands where that of a stood in t.     *)
HasPart(v, V, t, U, K, D, c, a, h) ==
    /\ v \in Trees(K, D) /\ Shape(v, K, V) /\ SameOrder(v, t, K)
    /\ \A x \in U[a] : IsPartAt(v, V, U[a], x)
    /\ V[c] = U[a] /\ SubtreeHeight(v, c) = h
    /\ \A x \in K \ U[a] :
          /\ V[x] = U[x] /\ v.node[x].height = t.node[x].height
          /\ v.node[x].left = (IF t.node[x].left = a THEN c ELSE t.node[x].left)
          /\ v.node[x].right = (IF t.node[x].right = a THEN c ELSE t.node[x].right)

LEMMA Grafted ==
    ASSUME NEW K, NEW D, NEW t \in Trees(K, D), NEW U, Shape(t, K, U), NEW a \in K,
           NEW s, NEW V, NEW c \in K, NEW h, Remade(s, V, t, U, K, D, c, U[a], h)
    PROVE  HasPart(Hung(s, c, a, t.node[a].parent), V, t, U, K, D, c, a, h)
<1> DEFINE p == t.node[a].parent
           v == Hung(s, c, a, p)
           S == U[a]
<1>1. /\ K \in SUBSET Nat /\ Nil \notin K /\ IsFiniteSet(K)
      /\ p \in K \cup {Nil} /\ (p = Nil <=> a = t.root)
      /\ p # Nil => p \in K /\ p \notin S /\ a \in U[p]
      /\ S \in SUBSET K /\ a \in S
  <2>1. K \in SUBSET Nat /\ Nil \notin K /\ IsFiniteSet(K)
    BY NilIsNone DEF Shape
  <2>2. /\ p \in K \cup {Nil} /\ (p = Nil <=> a = t.root)
        /\ p # Nil => p \in K /\ p \notin S /\ a \in U[p]
    BY ParentIs
  <2>3. S \in SUBSET K /\ a \in S
    BY NodeIs
  <2> QED
    BY <2>1, <2>2, <2>3
<1>2. /\ s \in Trees(K, D) /\ V \in [K -> SUBSET K]
      /\ s.root = t.root /\ SameOrder(s, t, K)
      /\ Part(s, K, V, c, S) /\ SubtreeHeight(s, c) = h
      /\ \A x \in K \ S : s.node[x] = t.node[x] /\ V[x] = U[x]
  BY DEF Remade
<1>3. c \in S /\ V[c] = S
  BY <1>1, <1>2 DEF Part, Below
<1>4. p \in (K \cup {Nil}) \ {c}
  BY <1>1, <1>3
<1> HIDE DEF p
<1>5. /\ v \in Trees(K, D) /\ SameOrder(v, s, K)
      /\ v.root = (IF p = Nil THEN c ELSE s.root)
      /\ \A x \in K \ {c, p} : v.node[x] = s.node[x]
      /\ \A x \in K :
            /\ v.node[x].left = (IF x = p /\ s.node[x].left = a THEN c ELSE s.node[x].left)
            /\ v.node[x].right = (IF x = p /\ s.node[x].right = a THEN c ELSE s.node[x].right)
            /\ v.node[x].parent = (IF x = c THEN p ELSE s.node[x].parent)
            /\ v.node[x].height = s.node[x].height
  BY <1>1, <1>2, <1>4, HungIs
<1> HIDE DEF v
<1>6. SameOrder(v, t, K)
  BY <1>2, <1>5 DEF SameOrder
<1>7. (\A x \in S : IsPartAt(v, V, S, x)) /\ SubtreeHeight(v, c) = h
  <2>1. StaysBelow(v, V, s, V, c, S)
    <3>1. p \notin S
      BY <1>1
    <3>2. \A x \in S \ {c} : x \in K \ {c, p}
      BY <1>1, <3>1
    <3>3. c # p
      BY <1>4
    <3> QED
      BY <1>5, <3>2, <3>3 DEF StaysBelow
  <2> QED
    BY <1>1, <1>2, <2>1, PartHung
<1>8. ASSUME NEW x \in K \ S
      PROVE  /\ V[x] = U[x] /\ v.node[x].height = t.node[x].height
             /\ v.node[x].left = (IF t.node[x].left = a THEN c ELSE t.node[x].left)
             /\ v.node[x].right = (IF t.node[x].right = a THEN c ELSE t.node[x].right)
             /\ v.node[x].parent = t.node[x].parent
  <2>1. s.node[x] = t.node[x] /\ x # c /\ V[x] = U[x]
    BY <1>2, <1>3
  <2>2. a \in {t.node[x].left, t.node[x].right} => x = p
    BY <1>1, ChildrenOutside DEF p
  <2> QED
    BY <1>5, <2>1, <2>2
<1>9. ASSUME NEW x \in K \ S PROVE ShapeAt(v, V, x)
  <2> DEFINE New(m) == IF m = a THEN c ELSE m
  <2>1. ASSUME NEW m \in {t.node[x].left, t.node[x].right}
        PROVE  /\ Below(V, New(m)) = Below(U, m)
               /\ New(m) # Nil => m # Nil /\ v.node[New(m)].parent = x
    <3>1. /\ m \in K \cup {Nil}
          /\ m = a <=> m \in S
          /\ m # Nil => m \in K /\ t.node[m].parent = x /\ Below(U, m) = U[m]
      BY ChildrenOutside
    <3>2. CASE m = a
      <4>1. x = p /\ m # Nil /\ Below(U, m) = S /\ New(m) = c /\ c # Nil
        BY <1>1, <1>3, <3>1, <3>2 DEF p
      <4> QED
        BY <1>3, <1>5, <4>1 DEF Below
    <3>3. CASE m # a
      <4>1. New(m) = m /\ m \notin S
        BY <3>1, <3>3
      <4> QED
        BY <1>8, <3>1, <4>1 DEF Below
    <3> QED
      BY <3>2, <3>3
  <2>2. ShapeAt(t, U, x)
    BY DEF Shape
  <2>3. v.node[x].left = New(t.node[x].left) /\ v.node[x].right = New(t.node[x].right) /\ V[x] = U[x]
    BY <1>8
  <2> HIDE DEF New
  <2> QED
    BY <2>1, <2>2, <2>3 DEF ShapeAt
<1>10. v.root \in K /\ V[v.root] = K /\ v.node[v.root].parent = Nil
  <2>1. t.root \in K /\ U[t.root] = K /\ t.node[t.root].parent = Nil
    BY DEF Shape
  <2>2. CASE p = Nil
    <3>1. v.root = c /\ S = K
      BY <1>1, <1>5, <2>1, <2>2
    <3> QED
      BY <1>3, <1>5, <2>2, <3>1
  <2>3. CASE p # Nil
    <3>1. v.root = t.root /\ t.root # a /\ a \in U[t.root]
      BY <1>1, <1>2, <1>5, <2>1, <2>3
    <3>2. t.root \notin S
      BY <2>1, <3>1, NestedOnce
    <3> QED
      BY <1>8, <2>1, <3>1, <3>2
  <2> QED
    BY <2>2, <2>3
<1>11. Shape(v, K, V)
  <2>1. \A x \in K : ShapeAt(v, V, x)
    BY <1>7, <1>9 DEF IsPartAt
  <2> QED
    BY <1>1, <1>2, <1>10, <2>1 DEF Shape
<1> QED
  BY <1>3, <1>5, <1>6, <1>7, <1>8, <1>11 DEF v, p, HasPart
-----------------------------------------------------------------------------
(* How the heights grow when the leaf k is hung below p in a tree o.       *)

LeafLinks(t, o, K, p, k) ==
    /\ t.node[k].left = Nil /\ t.node[k].right = Nil
    /\ \A n \in K :
          /\ t.node[n].left = (IF n = p /\ k < p THEN k ELSE o.node[n].left)
          /\ t.node[n].right = (IF n = p /\ ~ (k < p) THEN k ELSE o.node[n].right)
    /\ k < p => o.node[p].left = Nil
    /\ ~ (k < p) => o.node[p].right = Nil

(* The part m of o is the part n of t.                                     *)
Grows(t, o, U, k, n, m) ==
    /\ SubtreeHeight(t, n) - SubtreeHeight(o, m) \in 0..1
    /\ k \notin Below(U, n) => SubtreeHeight(t, n) = SubtreeHeight(o, m)
    /\ n # k => n = m

GrowsBelow(t, o, U, k, x) ==
    /\ Grows(t, o, U, k, t.node[x].left, o.node[x].left)
    /\ Grows(t, o, U, k, t.node[x].right, o.node[x].right)

LEMMA Growth ==
    ASSUME NEW K, NEW D, NEW o \in Trees(K, D), NEW U0, Shape(o, K, U0),
           \A x \in K : HeightIs(o, x), NEW k \in Nat \ K, NEW p \in K,
           NEW t \in Trees(K \cup {k}, D), NEW U, Shape(t, K \cup {k}, U),
           \A x \in K \cup {k} : HeightIs(t, x), LeafLinks(t, o, K, p, k)
    PROVE  \A x \in K : Grows(t, o, U, k, x, x) /\ GrowsBelow(t, o, U, k, x)
<1> DEFINE K1 == K \cup {k}
           T == {x \in K : Grows(t, o, U, k, x, x)}
<1>1. K \in SUBSET Nat /\ K1 \in SUBSET Nat /\ Nil \notin K1
  BY NilIsNone DEF Shape
<1>2. /\ \A c \in K \cup {Nil} : SubtreeHeight(o, c) \in Nat
      /\ \A c \in K : SubtreeHeight(o, c) = o.node[c].height + 1
      /\ SubtreeHeight(o, Nil) = 0
  BY <1>1, SubtreeHeightIs
<1>3. /\ \A c \in K1 \cup {Nil} : SubtreeHeight(t, c) \in Nat
      /\ \A c \in K1 : SubtreeHeight(t, c) = t.node[c].height + 1
      /\ SubtreeHeight(t, Nil) = 0
  BY <1>1, SubtreeHeightIs
<1>4. SubtreeHeight(t, k) = 1
  <2>1. t.node[k].height = Higher(0, 0)
    BY <1>3 DEF HeightIs, HeightOf, LeafLinks
  <2> QED
    BY <1>3, <2>1 DEF Higher
<1>5. Grows(t, o, U, k, Nil, Nil)
  BY <1>2, <1>3 DEF Grows
<1>6. k \in Below(U, k)
  BY <1>1, UnderItself DEF Below
<1>7. Grows(t, o, U, k, k, Nil)
  BY <1>2, <1>4, <1>6 DEF Grows
<1>8. ASSUME NEW x \in K, o.node[x].left \in T \cup {Nil}, o.node[x].right \in T \cup {Nil}
      PROVE  GrowsBelow(t, o, U, k, x)
  <2>1. \A m \in T \cup {Nil} : Grows(t, o, U, k, m, m)
    BY <1>5
  <2>2. Grows(t, o, U, k, t.node[x].left, o.node[x].left)
    BY <1>7, <1>8, <2>1 DEF LeafLinks
  <2>3. Grows(t, o, U, k, t.node[x].right, o.node[x].right)
    BY <1>7, <1>8, <2>1 DEF LeafLinks
  <2> QED
    BY <2>2, <2>3 DEF GrowsBelow
<1>9. ASSUME NEW x \in K, o.node[x].left \in T \cup {Nil}, o.node[x].right \in T \cup {Nil}
      PROVE  x \in T
  <2> DEFINE ol == SubtreeHeight(o, o.node[x].left)
             oR == SubtreeHeight(o, o.node[x].right)
             tl == SubtreeHeight(t, t.node[x].left)
             tr == SubtreeHeight(t, t.node[x].right)
  <2>1. /\ tl - ol \in 0..1 /\ tr - oR \in 0..1
        /\ k \notin Below(U, t.node[x].left) => tl = ol
        /\ k \notin Below(U, t.node[x].right) => tr = oR
    BY <1>8, <1>9 DEF GrowsBelow, Grows
  <2>2. ol \in Nat /\ oR \in Nat
    BY <1>2, <1>9
  <2>3. tl \in Nat /\ tr \in Nat
    <3>1. t.node[x].left \in K1 \cup {Nil} /\ t.node[x].right \in K1 \cup {Nil}
      BY NodeIs
    <3> QED
      BY <1>3, <3>1
  <2>4. k \notin U[x] => k \notin Below(U, t.node[x].left) /\ k \notin Below(U, t.node[x].right)
    <3>1. Below(U, t.node[x].left) \in SUBSET U[x] /\ Below(U, t.node[x].right) \in SUBSET U[x]
      BY NodeIs
    <3> QED
      BY <3>1
  <2>5. SubtreeHeight(o, x) = Higher(ol, oR) + 1 /\ SubtreeHeight(t, x) = Higher(tl, tr) + 1
    BY <1>2, <1>3 DEF HeightIs, HeightOf
  <2> HIDE DEF ol, oR, tl, tr
  <2>6. SubtreeHeight(t, x) - SubtreeHeight(o, x) \in 0..1
    BY <2>1, <2>2, <2>3, <2>5 DEF Higher
  <2>7. Below(U, x) = U[x]
    BY <1>1 DEF Below
  <2>8. k \notin U[x] => SubtreeHeight(t, x) = SubtreeHeight(o, x)
    BY <2>1, <2>4, <2>5
  <2> QED
    BY <2>6, <2>7, <2>8 DEF Grows
<1>10. \A x \in K : x \in T
  <2> HIDE DEF T
  <2> QED
    BY <1>9, FromBelow
<1>11. \A x \in K : o.node[x].left \in T \cup {Nil} /\ o.node[x].right \in T \cup {Nil}
  BY <1>10, NodeIs
<1> QED
  BY <1>8, <1>10, <1>11

(* The whole situation: o was balanced, and of t the parts without a are.  *)
Raised(t, U, o, K, D, k, a) ==
    /\ t \in Trees(K \cup {k}, D) /\ Shape(t, K \cup {k}, U)
    /\ \A x \in K \cup {k} : HeightIs(t, x)
    /\ \A x \in (K \cup {k}) : a \notin U[x] => InBalance(t, x)
    /\ o \in Trees(K, D) /\ \A x \in K : HeightIs(o, x) /\ InBalance(o, x)
    /\ \A x \in K : Grows(t, o, U, k, x, x) /\ GrowsBelow(t, o, U, k, x)
    /\ SubtreeHeight(t, k) = 1
    /\ U[k] = {k} /\ k \in Nat \ K
    /\ a \in K /\ k \in U[a]

(* Where k hangs on one side only that side has grown.                     *)
LEMMA GrownSides ==
    ASSUME NEW K, NEW D, NEW t, NEW U, NEW o, NEW k, NEW a, Raised(t, U, o, K, D, k, a), NEW x \in K
    PROVE  \E ol, oR, tl, tr \in Nat :
              /\ ol = SubtreeHeight(o, o.node[x].left) /\ oR = SubtreeHeight(o, o.node[x].right)
              /\ tl = SubtreeHeight(t, t.node[x].left) /\ tr = SubtreeHeight(t, t.node[x].right)
              /\ ol - oR \in -1..1 /\ tl - ol \in 0..1 /\ tr - oR \in 0..1
              /\ k \notin Below(U, t.node[x].left) => tl = ol
              /\ k \notin Below(U, t.node[x].right) => tr = oR
              /\ tl = ol \/ tr = oR
              /\ SubtreeHeight(o, x) = Higher(ol, oR) + 1
              /\ SubtreeHeight(t, x) = Higher(tl, tr) + 1
<1> DEFINE K1 == K \cup {k}
           ol == SubtreeHeight(o, o.node[x].left)
           oR == SubtreeHeight(o, o.node[x].right)
           tl == SubtreeHeight(t, t.node[x].left)
           tr == SubtreeHeight(t, t.node[x].right)
<1>1. /\ t \in Trees(K1, D) /\ Shape(t, K1, U) /\ HeightIs(t, x)
      /\ o \in Trees(K, D) /\ HeightIs(o, x) /\ InBalance(o, x)
      /\ GrowsBelow(t, o, U, k, x)
  BY DEF Raised
<1>2. K1 \in SUBSET Nat /\ K \in SUBSET Nat
  BY <1>1 DEF Shape
<1>3. /\ t.node[x].left \in K1 \cup {Nil} /\ t.node[x].right \in K1 \cup {Nil}
      /\ Below(U, t.node[x].left) \cap Below(U, t.node[x].right) = {}
  BY <1>1, NodeIs
<1>4. o.node[x].left \in K \cup {Nil} /\ o.node[x].right \in K \cup {Nil}
  BY <1>1, KeysAre DEF Nodes
<1>5. ol \in Nat /\ oR \in Nat /\ SubtreeHeight(o, x) = o.node[x].height + 1
  BY <1>1, <1>2, <1>4, SubtreeHeightIs
<1>6. tl \in Nat /\ tr \in Nat /\ SubtreeHeight(t, x) = t.node[x].height + 1
  BY <1>1, <1>2, <1>3, SubtreeHeightIs
<1>7. /\ ol - oR \in -1..1 /\ tl - ol \in 0..1 /\ tr - oR \in 0..1
      /\ k \notin Below(U, t.node[x].left) => tl = ol
      /\ k \notin Below(U, t.node[x].right) => tr = oR
  BY <1>1 DEF GrowsBelow, Grows, InBalance
<1>8. tl = ol \/ tr = oR
  BY <1>3, <1>7
<1>9. /\ SubtreeHeight(o, x) = Higher(ol, oR) + 1
      /\ SubtreeHeight(t, x) = Higher(tl, tr) + 1
  BY <1>1, <1>5, <1>6 DEF HeightIs, HeightOf
<1> HIDE DEF ol, oR, tl, tr
<1> QED
  BY <1>5, <1>6, <1>7, <1>8, <1>9 DEF ol, oR, tl, tr

LEMMA HighChild ==
    ASSUME NEW K, NEW D, NEW t, NEW U, NEW o, NEW k, NEW a, Raised(t, U, o, K, D, k, a),
           NEW x \in K, a \notin U[x], NEW h \in Nat,
           SubtreeHeight(t, x) = h + 2, SubtreeHeight(o, x) = h + 1
    PROVE  \/ SubtreeHeight(t, t.node[x].left) = h + 1 /\ SubtreeHeight(t, t.node[x].right) = h
           \/ SubtreeHeight(t, t.node[x].left) = h /\ SubtreeHeight(t, t.node[x].right) = h + 1
<1>1. PICK ol, oR, tl, tr \in Nat :
              /\ tl = SubtreeHeight(t, t.node[x].left) /\ tr = SubtreeHeight(t, t.node[x].right)
              /\ tl - ol \in 0..1 /\ tr - oR \in 0..1
              /\ tl = ol \/ tr = oR
              /\ SubtreeHeight(o, x) = Higher(ol, oR) + 1
              /\ SubtreeHeight(t, x) = Higher(tl, tr) + 1
  BY GrownSides
<1>2. tl - tr \in -1..1
  BY <1>1 DEF Raised, InBalance
<1>3. Higher(ol, oR) + 1 = h + 1 /\ Higher(tl, tr) + 1 = h + 2
  BY <1>1
<1>4. (tl = h + 1 /\ tr = h) \/ (tl = h /\ tr = h + 1)
  <2>1. tl - ol \in 0..1 /\ tr - oR \in 0..1 /\ (tl = ol \/ tr = oR)
    BY <1>1
  <2> QED
    BY <1>2, <1>3, <2>1 DEF Higher
<1> QED
  BY <1>1, <1>4

(* The left of a is two higher than the right.                             *)
LeftHigh(t, a, h) ==
    LET l == t.node[a].left
    IN  /\ SubtreeHeight(t, l) = h + 2 /\ SubtreeHeight(t, t.node[a].right) = h
        /\ \/ SubtreeHeight(t, t.node[l].left) = h + 1 /\ SubtreeHeight(t, t.node[l].right) = h
           \/ SubtreeHeight(t, t.node[l].left) = h /\ SubtreeHeight(t, t.node[l].right) = h + 1

RightHigh(t, a, h) ==
    LET r == t.node[a].right
    IN  /\ SubtreeHeight(t, r) = h + 2 /\ SubtreeHeight(t, t.node[a].left) = h
        /\ \/ SubtreeHeight(t, t.node[r].left) = h + 1 /\ SubtreeHeight(t, t.node[r].right) = h
           \/ SubtreeHeight(t, t.node[r].left) = h /\ SubtreeHeight(t, t.node[r].right) = h + 1

LEMMA Unbalanced ==
    ASSUME NEW K, NEW D, NEW t, NEW U, NEW o, NEW k, NEW a, Raised(t, U, o, K, D, k, a),
           ~ InBalance(t, a)
    PROVE  \E h \in Nat :
              /\ SubtreeHeight(o, a) = h + 2
              /\ \/ t.node[a].left \in K /\ LeftHigh(t, a, h)
                 \/ t.node[a].right \in K /\ RightHigh(t, a, h)
<1> DEFINE l == t.node[a].left
           r == t.node[a].right
<1>1. PICK ol, oR, tl, tr \in Nat :
              /\ ol = SubtreeHeight(o, o.node[a].left) /\ oR = SubtreeHeight(o, o.node[a].right)
              /\ tl = SubtreeHeight(t, l) /\ tr = SubtreeHeight(t, r)
              /\ ol - oR \in -1..1 /\ tl - ol \in 0..1 /\ tr - oR \in 0..1
              /\ tl = ol \/ tr = oR
              /\ SubtreeHeight(o, a) = Higher(ol, oR) + 1
  BY GrownSides DEF Raised
<1>2. ~ (tl - tr \in -1..1)
  BY <1>1 DEF InBalance
<1>3. \/ tl = tr + 2 /\ tl = ol + 1 /\ tr = oR
      \/ tr = tl + 2 /\ tr = oR + 1 /\ tl = ol
  BY <1>1, <1>2
<1>4. /\ l \in K \cup {k, Nil} /\ r \in K \cup {k, Nil}
      /\ \A m \in {l, r} \ {Nil} : a \notin U[m]
      /\ SubtreeHeight(t, Nil) = 0 /\ SubtreeHeight(t, k) = 1
      /\ l # k => l = o.node[a].left
      /\ r # k => r = o.node[a].right
  <2>1. /\ t \in Trees(K \cup {k}, D) /\ Shape(t, K \cup {k}, U) /\ a \in K \cup {k}
        /\ SubtreeHeight(t, k) = 1 /\ GrowsBelow(t, o, U, k, a)
    BY DEF Raised
  <2>2. /\ l \in K \cup {k, Nil} /\ r \in K \cup {k, Nil}
        /\ a \notin Below(U, l) /\ a \notin Below(U, r)
    BY <2>1, NodeIs
  <2>3. SubtreeHeight(t, Nil) = 0
    BY DEF SubtreeHeight
  <2> QED
    BY <2>1, <2>2, <2>3 DEF Below, GrowsBelow, Grows
<1>5. CASE tl = tr + 2 /\ tl = ol + 1 /\ tr = oR
  <2>1. l \in K /\ l = o.node[a].left /\ a \notin U[l]
    <3>1. SubtreeHeight(t, l) # 0 /\ SubtreeHeight(t, l) # 1
      BY <1>1, <1>5
    <3> QED
      BY <1>4, <3>1
  <2>2. SubtreeHeight(t, l) = tr + 2 /\ SubtreeHeight(o, l) = tr + 1
    BY <1>1, <1>5, <2>1
  <2>3. SubtreeHeight(o, a) = tr + 2
    BY <1>1, <1>5 DEF Higher
  <2>4. LeftHigh(t, a, tr)
    <3> HIDE DEF l
    <3>1. \/ SubtreeHeight(t, t.node[l].left) = tr + 1 /\ SubtreeHeight(t, t.node[l].right) = tr
          \/ SubtreeHeight(t, t.node[l].left) = tr /\ SubtreeHeight(t, t.node[l].right) = tr + 1
      BY <2>1, <2>2, HighChild
    <3> QED
      BY <1>1, <2>2, <3>1 DEF LeftHigh, l
  <2> QED
    BY <2>1, <2>3, <2>4
<1>6. CASE tr = tl + 2 /\ tr = oR + 1 /\ tl = ol
  <2>1. r \in K /\ r = o.node[a].right /\ a \notin U[r]
    <3>1. SubtreeHeight(t, r) # 0 /\ SubtreeHeight(t, r) # 1
      BY <1>1, <1>6
    <3> QED
      BY <1>4, <3>1
  <2>2. SubtreeHeight(t, r) = tl + 2 /\ SubtreeHeight(o, r) = tl + 1
    BY <1>1, <1>6, <2>1
  <2>3. SubtreeHeight(o, a) = tl + 2
    BY <1>1, <1>6 DEF Higher
  <2>4. RightHigh(t, a, tl)
    <3> HIDE DEF r
    <3>1. \/ SubtreeHeight(t, t.node[r].left) = tl + 1 /\ SubtreeHeight(t, t.node[r].right) = tl
          \/ SubtreeHeight(t, t.node[r].left) = tl /\ SubtreeHeight(t, t.node[r].right) = tl + 1
      BY <2>1, <2>2, HighChild
    <3> QED
      BY <1>1, <2>2, <3>1 DEF RightHigh, r
  <2> QED
    BY <2>1, <2>3, <2>4
<1> QED
  BY <1>3, <1>5, <1>6

(* The rotation chosen for it.                                             *)
LEMMA RotationOf ==
    ASSUME NEW K \in SUBSET Nat, NEW D, NEW t \in Trees(K, D), NEW a \in K, NEW h \in Nat,
           \A x \in K : HeightIs(t, x)
    PROVE  /\ t.node[a].left \in K /\ LeftHigh(t, a, h) =>
              LET l == t.node[a].left
              IN  IF SubtreeHeight(t, t.node[l].left) = h + 1 THEN Rotation(t, a) = "right"
                  ELSE Rotation(t, a) = "double_right" /\ t.node[l].right \in K
           /\ t.node[a].right \in K /\ RightHigh(t, a, h) =>
              LET r == t.node[a].right
              IN  IF SubtreeHeight(t, t.node[r].left) = h THEN Rotation(t, a) = "left"
                  ELSE Rotation(t, a) = "double_left" /\ t.node[r].left \in K
<1> DEFINE l == t.node[a].left
           r == t.node[a].right
<1>0. /\ Nil \notin K /\ l \in K \cup {Nil} /\ r \in K \cup {Nil}
      /\ \A c \in K \cup {Nil} : SubtreeHeight(t, c) \in Nat
      /\ SubtreeHeight(t, Nil) = 0
      /\ \A c \in K : t.node[c].left \in K \cup {Nil} /\ t.node[c].right \in K \cup {Nil}
  BY NilIsNone, SubtreeHeightIs, KeysAre DEF Nodes
<1>1. ASSUME l \in K, LeftHigh(t, a, h)
      PROVE  IF SubtreeHeight(t, t.node[l].left) = h + 1 THEN Rotation(t, a) = "right"
             ELSE Rotation(t, a) = "double_right" /\ t.node[l].right \in K
  <2>1. l # Nil
    BY <1>0, <1>1
  <2>2. CASE SubtreeHeight(t, t.node[l].left) = h + 1
    BY <1>1, <2>1, <2>2 DEF LeftHigh, Rotation
  <2>3. CASE SubtreeHeight(t, t.node[l].left) # h + 1
    <3>1. SubtreeHeight(t, t.node[l].right) = h + 1 /\ SubtreeHeight(t, t.node[l].left) = h
      BY <1>1, <2>3 DEF LeftHigh
    <3>2. t.node[l].right \in K
      <4>1. SubtreeHeight(t, t.node[l].right) # 0
        BY <3>1
      <4> QED
        BY <1>0, <1>1, <4>1
    <3> QED
      BY <1>1, <2>1, <2>3, <3>1, <3>2 DEF LeftHigh, Rotation
  <2> QED
    BY <2>2, <2>3
<1>2. ASSUME r \in K, RightHigh(t, a, h)
      PROVE  IF SubtreeHeight(t, t.node[r].left) = h THEN Rotation(t, a) = "left"
             ELSE Rotation(t, a) = "double_left" /\ t.node[r].left \in K
  <2>1. r # Nil
    BY <1>0, <1>2
  <2>2. SubtreeHeight(t, r) = h + 2 /\ SubtreeHeight(t, l) = h
    BY <1>2 DEF RightHigh
  <2>3. l # Nil => SubtreeHeight(t, t.node[l].left) < h
    <3> SUFFICES ASSUME l # Nil PROVE SubtreeHeight(t, t.node[l].left) < h
      OBVIOUS
    <3>1. l \in K /\ HeightIs(t, l) /\ SubtreeHeight(t, l) = t.node[l].height + 1
      BY <1>0, SubtreeHeightIs
    <3>2. SubtreeHeight(t, t.node[l].left) \in Nat /\ SubtreeHeight(t, t.node[l].right) \in Nat
      BY <1>0, <3>1
    <3>3. h = Higher(SubtreeHeight(t, t.node[l].left), SubtreeHeight(t, t.node[l].right)) + 1
      BY <2>2, <3>1 DEF HeightIs, HeightOf
    <3> HIDE DEF l
    <3> QED
      BY <3>2, <3>3 DEF Higher
  <2>4. l # Nil => SubtreeHeight(t, t.node[l].left) \in Nat
    BY <1>0
  <2>5. ~ (l # Nil /\ SubtreeHeight(t, t.node[l].left) = (h + 2) + 1)
    BY <2>3, <2>4
  <2>6. ~ (l # Nil /\ SubtreeHeight(t, t.node[l].left) = h + 2)
    BY <2>3, <2>4
  <2>7. CASE SubtreeHeight(t, t.node[r].left) = h
    <3>1. SubtreeHeight(t, t.node[r].right) = h + 1
      BY <1>2, <2>7 DEF RightHigh
    <3> QED
      BY <2>1, <2>2, <2>5, <2>6, <2>7, <3>1 DEF Rotation
  <2>8. CASE SubtreeHeight(t, t.node[r].left) # h
    <3>1. SubtreeHeight(t, t.node[r].left) = h + 1 /\ SubtreeHeight(t, t.node[r].right) = h
      BY <1>2, <2>8 DEF RightHigh
    <3>2. t.node[r].left \in K
      <4>1. SubtreeHeight(t, t.node[r].left) # 0
        BY <3>1
      <4> QED
        BY <1>0, <1>2, <4>1
    <3> QED
      BY <2>1, <2>2, <2>5, <2>6, <2>8, <3>1, <3>2 DEF Rotation
  <2> QED
    BY <2>7, <2>8
<1> QED
  BY <1>1, <1>2

(* The parts of a node.                                                    *)
PartsAt(t, K, U, x, l, r) ==
    /\ x \in K
    /\ Part(t, K, U, l, Below(U, l)) /\ Part(t, K, U, r, Below(U, r))
    /\ U[x] = {x} \cup Below(U, l) \cup Below(U, r)
    /\ Before(Below(U, l), {x}) /\ Before({x}, Below(U, r))

LEMMA PartsOf ==
    ASSUME NEW K, NEW D, NEW t, NEW U, NEW o, NEW k, NEW a, Raised(t, U, o, K, D, k, a),
           NEW x \in U[a]
    PROVE  PartsAt(t, K \cup {k}, U, x, t.node[x].left, t.node[x].right)
<1> DEFINE K1 == K \cup {k}
           l == t.node[x].left
           r == t.node[x].right
<1>1. /\ t \in Trees(K1, D) /\ Shape(t, K1, U) /\ a \in K1
      /\ \A y \in K1 : HeightIs(t, y)
      /\ \A y \in K1 : a \notin U[y] => InBalance(t, y)
  BY DEF Raised
<1> HIDE DEF K1
<1>2. K1 \in SUBSET Nat /\ Nil \notin K1 /\ \A n \in K1 : n \in U[n] /\ U[n] \in SUBSET K1 /\ n # Nil
  BY <1>1, UnderItself
<1>3. x \in K1 /\ U[x] \in SUBSET U[a] /\ ShapeAt(t, U, x)
  <2>1. x \in K1 /\ U[x] \in SUBSET U[a]
    BY <1>1, Nested
  <2> QED
    BY <1>1, <2>1 DEF Shape
<1>4. /\ l \in K1 \cup {Nil} /\ r \in K1 \cup {Nil}
      /\ Below(U, l) \in SUBSET (U[x] \ {x}) /\ Below(U, r) \in SUBSET (U[x] \ {x})
  BY <1>1, <1>3, NodeIs
<1>5. ASSUME NEW c \in {l, r} PROVE Part(t, K1, U, c, Below(U, c))
  <2>1. c \in K1 \cup {Nil} /\ Below(U, c) \in SUBSET K1
    BY <1>2, <1>3, <1>4
  <2>2. c # Nil => c \in Below(U, c)
    BY <1>2, <2>1 DEF Below
  <2>3. a \notin Below(U, c)
    <3>1. a \in U[x] => x = a
      BY <1>1, <1>2, <1>3, NestedOnce
    <3> QED
      BY <1>4, <3>1
  <2>4. ASSUME NEW y \in Below(U, c) PROVE IsPartAt(t, U, Below(U, c), y)
    <3>1. c \in K1 /\ Below(U, c) = U[c] /\ y \in K1
      BY <2>1 DEF Below
    <3>2. U[y] \in SUBSET U[c]
      BY <1>1, <3>1, Nested
    <3>3. ShapeAt(t, U, y) /\ HeightIs(t, y) /\ InBalance(t, y)
      BY <1>1, <2>3, <3>1, <3>2 DEF Shape
    <3>4. t.node[y].left \in U[y] \cup {Nil} /\ t.node[y].right \in U[y] \cup {Nil}
      <4>1. /\ t.node[y].left \in K1 \cup {Nil} /\ t.node[y].right \in K1 \cup {Nil}
            /\ Below(U, t.node[y].left) \in SUBSET (U[y] \ {y})
            /\ Below(U, t.node[y].right) \in SUBSET (U[y] \ {y})
        BY <1>1, <3>1, NodeIs
      <4>2. \A m \in K1 : m \in Below(U, m)
        BY <1>2 DEF Below
      <4> QED
        BY <4>1, <4>2
    <3> QED
      BY <3>1, <3>2, <3>3, <3>4 DEF IsPartAt
  <2> QED
    BY <2>1, <2>2, <2>4 DEF Part
<1>6. /\ U[x] = {x} \cup Below(U, l) \cup Below(U, r)
      /\ Before(Below(U, l), {x}) /\ Before({x}, Below(U, r))
  BY <1>3 DEF ShapeAt, Before
<1> HIDE DEF l, r
<1>7. Part(t, K1, U, l, Below(U, l)) /\ Part(t, K1, U, r, Below(U, r))
  BY <1>5
<1> QED
  BY <1>3, <1>6, <1>7 DEF K1, l, r, PartsAt

LEMMA RotatedLeftHigh ==
    ASSUME NEW K, NEW D, NEW t, NEW U, NEW o, NEW k, NEW a, Raised(t, U, o, K, D, k, a),
           NEW h \in Nat, t.node[a].left \in K, LeftHigh(t, a, h)
    PROVE  /\ Rotation(t, a) # "invalid"
           /\ Rotated(t, a).top \in K \cup {k}
           /\ \E V : Remade(Rotated(t, a).tree, V, t, U, K \cup {k}, D, Rotated(t, a).top, U[a], h + 2)
<1> DEFINE K1 == K \cup {k}
           x == t.node[a].left
           r == t.node[a].right
           b == t.node[x].left
           w == t.node[x].right
           A == Below(U, b)
           B == Below(U, w)
           E == Below(U, r)
<1>1. /\ t \in Trees(K1, D) /\ Shape(t, K1, U) /\ a \in K1 /\ x \in K1
      /\ \A y \in K1 : HeightIs(t, y)
      /\ K1 \in SUBSET Nat /\ U \in [K1 -> SUBSET K1]
  BY DEF Raised, Shape
<1>2. a \in U[a] /\ x \in U[x] /\ Nil \notin K1
  BY <1>1, UnderItself
<1> HIDE DEF K1
<1>3. /\ U[a] = {a} \cup U[x] \cup E /\ Part(t, K1, U, r, E)
      /\ Before(U[x], {a}) /\ Before({a}, E)
  <2>1. Below(U, x) = U[x]
    BY <1>1, <1>2 DEF Below
  <2>2. PartsAt(t, K1, U, a, x, r)
    BY <1>2, PartsOf DEF K1
  <2> HIDE DEF x, r
  <2> QED
    BY <2>1, <2>2 DEF PartsAt
<1>4. /\ U[x] = {x} \cup A \cup B /\ Part(t, K1, U, b, A) /\ Part(t, K1, U, w, B)
      /\ Before(A, {x}) /\ Before({x}, B)
  <2>1. x \in U[a]
    BY <1>2, <1>3
  <2>2. PartsAt(t, K1, U, x, b, w)
    <3> HIDE DEF x
    <3> QED
      BY <2>1, PartsOf DEF K1
  <2> HIDE DEF x, b, w
  <2> QED
    BY <2>2 DEF PartsAt
<1>5. /\ SubtreeHeight(t, x) = h + 2 /\ SubtreeHeight(t, r) = h
      /\ \/ SubtreeHeight(t, b) = h + 1 /\ SubtreeHeight(t, w) = h
         \/ SubtreeHeight(t, b) = h /\ SubtreeHeight(t, w) = h + 1
  BY DEF LeftHigh
<1>6. IF SubtreeHeight(t, b) = h + 1 THEN Rotation(t, a) = "right"
      ELSE Rotation(t, a) = "double_right" /\ w \in K1
  <2>1. x \in K1
    BY <1>1
  <2> QED
    BY <1>1, <2>1, RotationOf
<1>7. Before(A, {a}) /\ Before(B, {a}) /\ x < a
  BY <1>3, <1>4 DEF Before
<1>8. CASE SubtreeHeight(t, b) = h + 1
  <2>1. Rotation(t, a) = "right" /\ SubtreeHeight(t, w) = h
    BY <1>5, <1>6, <1>8
  <2>2. /\ Rotated(t, a).top = x
        /\ Rotated(t, a).tree = Join(Join(t, a, w, r), x, b, a)
    BY <2>1 DEF Rotated, RotateRight
  <2> HIDE DEF x, r, b, w, A, B, E
  <2>3. \E V : Remade(Join(Join(t, a, w, r), x, b, a), V, t, U, K1, D, x,
                      {a, x} \cup A \cup B \cup E, h + 2)
    <3>1. FitRight(t, K1, U, a, x, b, w, r, A, B, E, h)
      BY <1>1, <1>3, <1>4, <1>5, <1>7, <1>8, <2>1 DEF FitRight
    <3> QED
      BY <1>1, <3>1, SingleRight
  <2>4. U[a] = {a, x} \cup A \cup B \cup E
    BY <1>3, <1>4
  <2> QED
    BY <1>1, <2>1, <2>2, <2>3, <2>4 DEF K1
<1>9. CASE SubtreeHeight(t, b) # h + 1
  <2> DEFINE c == t.node[w].left
             d == t.node[w].right
             C == Below(U, c)
             F == Below(U, d)
  <2>1. /\ Rotation(t, a) = "double_right" /\ w \in K1
        /\ SubtreeHeight(t, b) = h /\ SubtreeHeight(t, w) = h + 1
    BY <1>5, <1>6, <1>9
  <2>2. /\ Rotated(t, a).top = w
        /\ Rotated(t, a).tree = Join(Join(Join(t, x, b, c), a, d, r), w, x, a)
    BY <2>1 DEF Rotated, DoubleRotateRight
  <2>3. B = U[w] /\ w \in U[w] /\ w \in U[a]
    <3>1. w \in U[w] /\ B = U[w]
      BY <1>1, <1>2, <2>1, UnderItself DEF Below
    <3> QED
      BY <1>3, <1>4, <3>1
  <2>4. /\ U[w] = {w} \cup C \cup F /\ Part(t, K1, U, c, C) /\ Part(t, K1, U, d, F)
        /\ Before(C, {w}) /\ Before({w}, F)
    <3>1. PartsAt(t, K1, U, w, c, d)
      <4> HIDE DEF w
      <4> QED
        BY <2>3, PartsOf DEF K1
    <3> HIDE DEF w, c, d
    <3> QED
      BY <3>1 DEF PartsAt
  <2>5. SubtreeHeight(t, c) \in {h - 1, h} /\ SubtreeHeight(t, d) \in {h - 1, h}
    <3>1. InBalance(t, w)
      <4>1. a \notin U[w]
        <5>1. a \in U[w] => w = a
          BY <1>1, <2>1, <2>3, NestedOnce
        <5>2. w < a
          BY <1>7, <2>3 DEF Before
        <5>3. a \in Nat
          BY <1>1
        <5> QED
          BY <5>1, <5>2, <5>3
      <4> QED
        BY <2>1, <4>1 DEF Raised, K1
    <3>2. /\ c \in K1 \cup {Nil} /\ d \in K1 \cup {Nil}
          /\ HeightIs(t, w) /\ SubtreeHeight(t, w) = t.node[w].height + 1
          /\ t.node[w].height \in Nat
      <4> HIDE DEF w
      <4>1. c \in K1 \cup {Nil} /\ d \in K1 \cup {Nil} /\ t.node[w].height \in Nat
        BY <1>1, <2>1, NodeIs
      <4>2. HeightIs(t, w) /\ SubtreeHeight(t, w) = t.node[w].height + 1
        BY <1>1, <2>1, SubtreeHeightIs
      <4> QED
        BY <4>1, <4>2
    <3>3. SubtreeHeight(t, c) \in Nat /\ SubtreeHeight(t, d) \in Nat
      BY <1>1, <3>2, SubtreeHeightIs
    <3>4. h = Higher(SubtreeHeight(t, c), SubtreeHeight(t, d))
      <4>1. HeightOf(t, w) = Higher(SubtreeHeight(t, c), SubtreeHeight(t, d))
        BY DEF HeightOf
      <4> HIDE DEF w, c, d
      <4>2. t.node[w].height = HeightOf(t, w)
        BY <3>2 DEF HeightIs
      <4>3. h = t.node[w].height
        BY <2>1, <3>2
      <4> QED
        BY <4>1, <4>2, <4>3
    <3>5. SubtreeHeight(t, c) - SubtreeHeight(t, d) \in -1..1
      BY <3>1 DEF InBalance
    <3> HIDE DEF c, d
    <3> QED
      BY <3>3, <3>4, <3>5 DEF Higher
  <2>6. Before({x}, C) /\ x < w /\ Before(F, {a}) /\ w < a
    <3>1. Before({x}, B) /\ Before(B, {a}) /\ w \in B /\ C \subseteq B /\ F \subseteq B
      BY <1>4, <1>7, <2>3, <2>4
    <3> HIDE DEF x, w, B, C, F
    <3> QED
      BY <3>1 DEF Before
  <2> HIDE DEF x, r, b, w, A, B, E, c, d, C, F
  <2>7. \E V : Remade(Join(Join(Join(t, x, b, c), a, d, r), w, x, a), V, t, U, K1, D, w,
                      {x, w, a} \cup A \cup C \cup F \cup E, h + 2)
    <3>1. FitDouble(t, K1, U, x, w, a, b, c, d, r, A, C, F, E, h)
      BY <1>1, <1>3, <1>4, <1>5, <2>1, <2>4, <2>5, <2>6 DEF FitDouble
    <3>2. /\ K1 \in SUBSET Nat /\ t \in Trees(K1, D) /\ U \in [K1 -> SUBSET K1]
          /\ x \in K1 /\ w \in K1 /\ a \in K1 /\ h \in Nat
      BY <1>1, <2>1
    <3> QED
      BY ZenonT(60), <3>1, <3>2, Double
  <2>8. U[a] = {x, w, a} \cup A \cup C \cup F \cup E
    BY <1>3, <1>4, <2>3, <2>4
  <2> QED
    BY <2>1, <2>2, <2>7, <2>8 DEF K1
<1> QED
  BY <1>8, <1>9

LEMMA RotatedRightHigh ==
    ASSUME NEW K, NEW D, NEW t, NEW U, NEW o, NEW k, NEW a, Raised(t, U, o, K, D, k, a),
           NEW h \in Nat, t.node[a].right \in K, RightHigh(t, a, h)
    PROVE  /\ Rotation(t, a) # "invalid"
           /\ Rotated(t, a).top \in K \cup {k}
           /\ \E V : Remade(Rotated(t, a).tree, V, t, U, K \cup {k}, D, Rotated(t, a).top, U[a], h + 2)
<1> DEFINE K1 == K \cup {k}
           x == t.node[a].right
           l == t.node[a].left
           w == t.node[x].left
           d == t.node[x].right
           A == Below(U, l)
           B == Below(U, w)
           E == Below(U, d)
<1>1. /\ t \in Trees(K1, D) /\ Shape(t, K1, U) /\ a \in K1 /\ x \in K1
      /\ \A y \in K1 : HeightIs(t, y)
      /\ K1 \in SUBSET Nat /\ U \in [K1 -> SUBSET K1]
  BY DEF Raised, Shape
<1>2. a \in U[a] /\ x \in U[x] /\ Nil \notin K1
  BY <1>1, UnderItself
<1> HIDE DEF K1
<1>3. /\ U[a] = {a} \cup A \cup U[x] /\ Part(t, K1, U, l, A)
      /\ Before(A, {a}) /\ Before({a}, U[x])
  <2>1. Below(U, x) = U[x]
    BY <1>1, <1>2 DEF Below
  <2>2. PartsAt(t, K1, U, a, l, x)
    BY <1>2, PartsOf DEF K1
  <2> HIDE DEF x, l
  <2> QED
    BY <2>1, <2>2 DEF PartsAt
<1>4. /\ U[x] = {x} \cup B \cup E /\ Part(t, K1, U, w, B) /\ Part(t, K1, U, d, E)
      /\ Before(B, {x}) /\ Before({x}, E)
  <2>1. x \in U[a]
    BY <1>2, <1>3
  <2>2. PartsAt(t, K1, U, x, w, d)
    <3> HIDE DEF x
    <3> QED
      BY <2>1, PartsOf DEF K1
  <2> HIDE DEF x, w, d
  <2> QED
    BY <2>2 DEF PartsAt
<1>5. /\ SubtreeHeight(t, x) = h + 2 /\ SubtreeHeight(t, l) = h
      /\ \/ SubtreeHeight(t, w) = h + 1 /\ SubtreeHeight(t, d) = h
         \/ SubtreeHeight(t, w) = h /\ SubtreeHeight(t, d) = h + 1
  BY DEF RightHigh
<1>6. IF SubtreeHeight(t, w) = h THEN Rotation(t, a) = "left"
      ELSE Rotation(t, a) = "double_left" /\ w \in K1
  <2>1. x \in K1
    BY <1>1
  <2> QED
    BY <1>1, <2>1, RotationOf
<1>7. Before({a}, E) /\ Before({a}, B) /\ a < x
  BY <1>3, <1>4 DEF Before
<1>8. CASE SubtreeHeight(t, w) = h
  <2>1. Rotation(t, a) = "left" /\ SubtreeHeight(t, d) = h + 1
    BY <1>5, <1>6, <1>8
  <2>2. /\ Rotated(t, a).top = x
        /\ Rotated(t, a).tree = Join(Join(t, a, l, w), x, a, d)
    BY <2>1 DEF Rotated, RotateLeft
  <2> HIDE DEF x, l, w, d, A, B, E
  <2>3. \E V : Remade(Join(Join(t, a, l, w), x, a, d), V, t, U, K1, D, x,
                      {a, x} \cup A \cup B \cup E, h + 2)
    <3>1. FitLeft(t, K1, U, a, x, l, w, d, A, B, E, h)
      BY <1>1, <1>3, <1>4, <1>5, <1>7, <1>8, <2>1 DEF FitLeft
    <3> QED
      BY <1>1, <3>1, SingleLeft
  <2>4. U[a] = {a, x} \cup A \cup B \cup E
    BY <1>3, <1>4
  <2> QED
    BY <1>1, <2>1, <2>2, <2>3, <2>4 DEF K1
<1>9. CASE SubtreeHeight(t, w) # h
  <2> DEFINE b == t.node[w].left
             c == t.node[w].right
             C == Below(U, b)
             F == Below(U, c)
  <2>1. /\ Rotation(t, a) = "double_left" /\ w \in K1
        /\ SubtreeHeight(t, d) = h /\ SubtreeHeight(t, w) = h + 1
    BY <1>5, <1>6, <1>9
  <2>2. /\ Rotated(t, a).top = w
        /\ Rotated(t, a).tree = Join(Join(Join(t, x, c, d), a, l, b), w, a, x)
    BY <2>1 DEF Rotated, DoubleRotateLeft
  <2>3. B = U[w] /\ w \in U[w] /\ w \in U[a]
    <3>1. w \in U[w] /\ B = U[w]
      BY <1>1, <1>2, <2>1, UnderItself DEF Below
    <3> QED
      BY <1>3, <1>4, <3>1
  <2>4. /\ U[w] = {w} \cup C \cup F /\ Part(t, K1, U, b, C) /\ Part(t, K1, U, c, F)
        /\ Before(C, {w}) /\ Before({w}, F)
    <3>1. PartsAt(t, K1, U, w, b, c)
      <4> HIDE DEF w
      <4> QED
        BY <2>3, PartsOf DEF K1
    <3> HIDE DEF w, b, c
    <3> QED
      BY <3>1 DEF PartsAt
  <2>5. SubtreeHeight(t, b) \in {h - 1, h} /\ SubtreeHeight(t, c) \in {h - 1, h}
    <3>1. InBalance(t, w)
      <4>1. a \notin U[w]
        <5>1. a \in U[w] => w = a
          BY <1>1, <2>1, <2>3, NestedOnce
        <5>2. a < w
          BY <1>7, <2>3 DEF Before
        <5>3. a \in Nat
          BY <1>1
        <5> QED
          BY <5>1, <5>2, <5>3
      <4> QED
        BY <2>1, <4>1 DEF Raised, K1
    <3>2. /\ b \in K1 \cup {Nil} /\ c \in K1 \cup {Nil}
          /\ HeightIs(t, w) /\ SubtreeHeight(t, w) = t.node[w].height + 1
          /\ t.node[w].height \in Nat
      <4> HIDE DEF w
      <4>1. b \in K1 \cup {Nil} /\ c \in K1 \cup {Nil} /\ t.node[w].height \in Nat
        BY <1>1, <2>1, NodeIs
      <4>2. HeightIs(t, w) /\ SubtreeHeight(t, w) = t.node[w].height + 1
        BY <1>1, <2>1, SubtreeHeightIs
      <4> QED
        BY <4>1, <4>2
    <3>3. SubtreeHeight(t, b) \in Nat /\ SubtreeHeight(t, c) \in Nat
      BY <1>1, <3>2, SubtreeHeightIs
    <3>4. h = Higher(SubtreeHeight(t, b), SubtreeHeight(t, c))
      <4>1. HeightOf(t, w) = Higher(SubtreeHeight(t, b), SubtreeHeight(t, c))
        BY DEF HeightOf
      <4> HIDE DEF w, b, c
      <4>2. t.node[w].height = HeightOf(t, w)
        BY <3>2 DEF HeightIs
      <4>3. h = t.node[w].height
        BY <2>1, <3>2
      <4> QED
        BY <4>1, <4>2, <4>3
    <3>5. SubtreeHeight(t, b) - SubtreeHeight(t, c) \in -1..1
      BY <3>1 DEF InBalance
    <3> HIDE DEF b, c
    <3> QED
      BY <3>3, <3>4, <3>5 DEF Higher
  <2>6. Before({a}, C) /\ a < w /\ Before(F, {x}) /\ w < x
    <3>1. Before({a}, B) /\ Before(B, {x}) /\ w \in B /\ C \subseteq B /\ F \subseteq B
      BY <1>4, <1>7, <2>3, <2>4
    <3> HIDE DEF x, w, B, C, F
    <3> QED
      BY <3>1 DEF Before
  <2> HIDE DEF x, l, w, d, A, B, E, b, c, C, F
  <2>7. \E V : Remade(Join(Join(Join(t, x, c, d), a, l, b), w, a, x), V, t, U, K1, D, w,
                      {a, w, x} \cup A \cup C \cup F \cup E, h + 2)
    <3>1. FitDouble(t, K1, U, a, w, x, l, b, c, d, A, C, F, E, h)
      BY <1>1, <1>3, <1>4, <1>5, <2>1, <2>4, <2>5, <2>6 DEF FitDouble
    <3>2. /\ K1 \in SUBSET Nat /\ t \in Trees(K1, D) /\ U \in [K1 -> SUBSET K1]
          /\ x \in K1 /\ w \in K1 /\ a \in K1 /\ h \in Nat
      BY <1>1, <2>1
    <3> QED
      BY ZenonT(60), <3>1, <3>2, Double
  <2>8. U[a] = {a, w, x} \cup A \cup C \cup F \cup E
    BY <1>3, <1>4, <2>3, <2>4
  <2> QED
    BY <2>1, <2>2, <2>7, <2>8 DEF K1
<1> QED
  BY <1>8, <1>9

(* What hangs too high on one side is turned; the part gets back to the    *)
(* height it had in o.                                                     *)
LEMMA RotatedIs ==
    ASSUME NEW K, NEW D, NEW t, NEW U, NEW o, NEW k, NEW a, Raised(t, U, o, K, D, k, a),
           ~ InBalance(t, a)
    PROVE  /\ Rotation(t, a) # "invalid"
           /\ Rotated(t, a).top \in K \cup {k}
           /\ \E V : Remade(Rotated(t, a).tree, V, t, U, K \cup {k}, D, Rotated(t, a).top, U[a],
                            SubtreeHeight(o, a))
<1>1. PICK h \in Nat :
              /\ SubtreeHeight(o, a) = h + 2
              /\ \/ t.node[a].left \in K /\ LeftHigh(t, a, h)
                 \/ t.node[a].right \in K /\ RightHigh(t, a, h)
  BY Unbalanced
<1>2. CASE t.node[a].left \in K /\ LeftHigh(t, a, h)
  <2>1. /\ Rotation(t, a) # "invalid"
        /\ Rotated(t, a).top \in K \cup {k}
        /\ \E V : Remade(Rotated(t, a).tree, V, t, U, K \cup {k}, D, Rotated(t, a).top, U[a], h + 2)
    BY <1>2, RotatedLeftHigh
  <2> QED
    BY <1>1, <2>1
<1>3. CASE t.node[a].right \in K /\ RightHigh(t, a, h)
  <2>1. /\ Rotation(t, a) # "invalid"
        /\ Rotated(t, a).top \in K \cup {k}
        /\ \E V : Remade(Rotated(t, a).tree, V, t, U, K \cup {k}, D, Rotated(t, a).top, U[a], h + 2)
    BY <1>3, RotatedRightHigh
  <2> QED
    BY <1>1, <2>1
<1> QED
  BY <1>1, <1>2, <1>3
-----------------------------------------------------------------------------
(* The loop of insert. *)

Whole(t, K, D, U) ==
    /\ t \in Trees(K, D) /\ Shape(t, K, U)
    /\ \A x \in K : HeightIs(t, x) /\ InBalance(t, x)

(* After a rotation the whole tree is balanced.                            *)
LEMMA BallancedAt ==
    ASSUME NEW K, NEW D, NEW t, NEW U, NEW o, NEW k, NEW a, Raised(t, U, o, K, D, k, a),
           ~ InBalance(t, a)
    PROVE  LET w == BallanceAt(t, a)
           IN  SameOrder(w, t, K \cup {k}) /\ \E V : Whole(w, K \cup {k}, D, V)
<1> DEFINE K1 == K \cup {k}
           p == t.node[a].parent
           s == Rotated(t, a).tree
           c == Rotated(t, a).top
           S == U[a]
           h == SubtreeHeight(o, a)
           v == Hung(s, c, a, p)
           w == BallanceAt(t, a)
<1>1. /\ t \in Trees(K1, D) /\ Shape(t, K1, U) /\ a \in K1 /\ a \in K
      /\ \A x \in K1 : HeightIs(t, x)
      /\ \A x \in K1 : a \notin U[x] => InBalance(t, x)
      /\ \A x \in K : HeightIs(o, x) /\ InBalance(o, x) /\ GrowsBelow(t, o, U, k, x)
      /\ U[k] = {k} /\ k \in U[a] /\ k \notin K /\ o \in Trees(K, D)
  BY DEF Raised
<1>2. Rotation(t, a) # "invalid" /\ c \in K1 /\ \E V : Remade(s, V, t, U, K1, D, c, S, h)
  BY RotatedIs
<1>3. w = IF p = Nil THEN v ELSE UpdateHeight(v, p)
  <2>1. ~ (InBalance(t, a) \/ Rotation(t, a) = "invalid")
    BY <1>2
  <2>2. CASE p = Nil
    BY <2>1, <2>2 DEF BallanceAt, Hung
  <2>3. CASE p # Nil
    BY <2>1, <2>3 DEF BallanceAt, Hung
  <2> QED
    BY <2>2, <2>3
<1>4. PICK V : Remade(s, V, t, U, K1, D, c, S, h)
  BY <1>2
<1> HIDE DEF K1, s, c, h, w
<1>5. /\ v \in Trees(K1, D) /\ Shape(v, K1, V) /\ SameOrder(v, t, K1)
      /\ \A x \in S : IsPartAt(v, V, S, x)
      /\ V[c] = S /\ SubtreeHeight(v, c) = h
      /\ \A x \in K1 \ S :
            /\ V[x] = U[x] /\ v.node[x].height = t.node[x].height
            /\ v.node[x].left = (IF t.node[x].left = a THEN c ELSE t.node[x].left)
            /\ v.node[x].right = (IF t.node[x].right = a THEN c ELSE t.node[x].right)
  <2>1. /\ t \in Trees(K1, D) /\ Shape(t, K1, U) /\ a \in K1 /\ c \in K1
        /\ Remade(s, V, t, U, K1, D, c, U[a], h)
    BY <1>1, <1>2, <1>4
  <2>2. HasPart(v, V, t, U, K1, D, c, a, h)
    BY <2>1, Grafted
  <2> HIDE DEF v
  <2> QED
    BY <2>2 DEF HasPart
<1> HIDE DEF v
<1>6. /\ K1 \in SUBSET Nat /\ Nil \notin K1
      /\ \A n \in K1 : n \in U[n] /\ U[n] \in SUBSET K1
      /\ \A n \in K1 : n \in V[n] /\ V[n] \in SUBSET K1
  BY <1>1, <1>5, UnderItself
<1>7. /\ p \in K1 \cup {Nil} /\ (p = Nil <=> a = t.root)
      /\ p # Nil => p \in K1 /\ p \notin S /\ a \in U[p]
  BY <1>1, ParentIs
<1>8. CASE p = Nil
  <2>1. S = K1
    BY <1>1, <1>7, <1>8 DEF Shape
  <2>2. Whole(v, K1, D, V)
    BY <1>5, <2>1 DEF Whole, IsPartAt
  <2> QED
    BY <1>3, <1>5, <1>8, <2>2 DEF K1, w
<1>9. CASE p # Nil
  <2>1. p \in K1 /\ p \notin S /\ a \in U[p] /\ w = UpdateHeight(v, p)
    BY <1>3, <1>7, <1>9
  <2>2. ASSUME NEW x \in K1 \ S, NEW m \in {t.node[x].left, t.node[x].right}
        PROVE  /\ m \in K1 \cup {Nil}
               /\ m = a <=> m \in S
               /\ m = a => x = p
               /\ m # Nil => m \in K1 /\ m \in U[x] /\ Below(U, m) = U[m]
    BY <1>1, <1>6, ChildrenOutside
  <2>3. ASSUME NEW x \in K1, p \notin V[x] PROVE HeightIs(v, x)
    <3>1. CASE x \in S
      BY <1>5, <3>1 DEF IsPartAt
    <3>2. CASE x \notin S
      <4>1. x # p
        BY <1>6, <2>3
      <4>2. \A m \in {t.node[x].left, t.node[x].right} :
               m # a /\ SubtreeHeight(v, m) = SubtreeHeight(t, m)
        BY <1>5, <2>2, <3>2, <4>1 DEF SubtreeHeight
      <4>3. HeightIs(t, x)
        BY <1>1
      <4> QED
        BY <1>5, <3>2, <4>2, <4>3 DEF HeightIs, HeightOf
    <3> QED
      BY <3>1, <3>2
  <2>4. /\ w \in Trees(K1, D) /\ OnlyHeights(w, v, K1)
        /\ \A x \in K1 : HeightIs(w, x)
        /\ \A x \in K1 : p \notin V[x] => w.node[x].height = v.node[x].height
    BY <1>5, <2>1, <2>3, HeightsUpdated
  <2>5. SameOrder(w, t, K1) /\ Shape(w, K1, V)
    <3>1. SameOrder(w, t, K1)
      BY <1>5, <2>4 DEF SameOrder, OnlyHeights
    <3> QED
      BY <1>5, <2>4, <3>1, ShapeStays
  <2>6. \A x \in K1 : w.node[x].left = v.node[x].left /\ w.node[x].right = v.node[x].right
    BY <2>4 DEF OnlyHeights
  <2>7. \A x \in S : w.node[x].height = v.node[x].height /\ x \in K1
    <3>1. \A x \in S : V[x] \in SUBSET S /\ x \in K1
      BY <1>1, <1>5, <1>6 DEF IsPartAt
    <3> QED
      BY <2>1, <2>4, <3>1
  <2>8. SubtreeHeight(w, c) = h
    <3>1. c \in S
      BY <1>2, <1>5, <1>6
    <3> QED
      BY <1>5, <2>7, <3>1 DEF SubtreeHeight
  <2>9. ASSUME NEW x \in S PROVE InBalance(w, x)
    <3>1. IsPartAt(v, V, S, x) /\ x \in K1
      BY <1>5, <2>7
    <3>2. \A m \in S \cup {Nil} : SubtreeHeight(w, m) = SubtreeHeight(v, m)
      BY <2>7 DEF SubtreeHeight
    <3> QED
      BY <2>6, <3>1, <3>2 DEF IsPartAt, InBalance
  <2>10. ASSUME NEW x \in K1 \ S, a \notin U[x] PROVE w.node[x].height = t.node[x].height
    <3>1. p \notin U[x]
      <4>1. p \in U[x] => U[p] \in SUBSET U[x]
        <5> HIDE DEF p
        <5> QED
          BY <1>1, Nested
      <4> QED
        BY <2>1, <2>10, <4>1
    <3> QED
      BY <1>5, <2>4, <3>1
  <2>11. ASSUME NEW x \in K1 \ S, NEW m \in {t.node[x].left, t.node[x].right}, a \notin Below(U, m)
         PROVE  m # a /\ SubtreeHeight(w, m) = SubtreeHeight(t, m)
    <3>1. m # a
      <4>1. a \in U[a] /\ a # Nil
        BY <1>1, <1>6
      <4> QED
        BY <2>11, <4>1 DEF Below
    <3>2. m # Nil => m \in K1 \ S /\ a \notin U[m]
      BY <2>2, <2>11, <3>1
    <3> QED
      BY <2>10, <3>1, <3>2 DEF SubtreeHeight
  <2>12. ASSUME NEW x \in K1 \ S, a \notin U[x] PROVE InBalance(w, x)
    <3>1. /\ Below(U, t.node[x].left) \in SUBSET U[x]
          /\ Below(U, t.node[x].right) \in SUBSET U[x]
      BY <1>1, NodeIs
    <3>2. \A m \in {t.node[x].left, t.node[x].right} :
             m # a /\ SubtreeHeight(w, m) = SubtreeHeight(t, m)
      BY <2>11, <2>12, <3>1
    <3>3. InBalance(t, x)
      BY <1>1, <2>12
    <3> QED
      BY <1>5, <2>6, <3>2, <3>3 DEF InBalance
  <2> DEFINE T == {x \in K1 : x \notin S /\ a \in U[x] =>
                                 SubtreeHeight(w, x) = SubtreeHeight(o, x) /\ InBalance(w, x)}
  <2>13. ASSUME NEW x \in K1, t.node[x].left \in T \cup {Nil}, t.node[x].right \in T \cup {Nil}
         PROVE  x \in T
    <3> SUFFICES ASSUME x \notin S, a \in U[x]
                 PROVE  SubtreeHeight(w, x) = SubtreeHeight(o, x) /\ InBalance(w, x)
      OBVIOUS
    <3> DEFINE l == t.node[x].left
               r == t.node[x].right
               New(m) == IF m = a THEN c ELSE m
    <3>1. x \in K
      BY <1>1 DEF K1
    <3>2. Grows(t, o, U, k, l, o.node[x].left) /\ Grows(t, o, U, k, r, o.node[x].right)
      BY <1>1, <3>1 DEF GrowsBelow
    <3>3. /\ U[x] = {x} \cup Below(U, l) \cup Below(U, r)
          /\ Below(U, l) \cap Below(U, r) = {}
      <4>1. Below(U, l) \cap Below(U, r) = {}
        BY <1>1, NodeIs
      <4>2. ShapeAt(t, U, x)
        BY <1>1 DEF Shape
      <4> QED
        BY <4>1, <4>2 DEF ShapeAt
    <3>4. x # a /\ a # k /\ a # Nil
      BY <1>1, <1>6
    <3>5. ASSUME NEW m \in {l, r}, NEW e, Grows(t, o, U, k, m, e), a \in Below(U, m)
          PROVE  SubtreeHeight(w, New(m)) = SubtreeHeight(o, e) /\ k \in Below(U, m)
      <4>1. m # Nil /\ m \in K1 /\ Below(U, m) = U[m] /\ a \in U[m]
        BY <2>2, <3>5 DEF Below
      <4>2. m # k
        BY <1>1, <3>4, <4>1
      <4>3. e = m
        BY <3>5, <4>2 DEF Grows
      <4>4. k \in U[m]
        BY <1>1, <4>1, Nested
      <4>5. CASE m = a
        BY <2>8, <4>1, <4>3, <4>4, <4>5 DEF h
      <4>6. CASE m # a
        <5>1. m \in T /\ m \notin S
          BY <2>2, <2>13, <4>1, <4>6
        <5> QED
          BY <4>1, <4>3, <4>4, <4>6, <5>1
      <4> QED
        BY <4>5, <4>6
    <3>6. ASSUME NEW m \in {l, r}, NEW e, Grows(t, o, U, k, m, e), a \notin Below(U, m),
                 k \notin Below(U, m)
          PROVE  SubtreeHeight(w, New(m)) = SubtreeHeight(o, e)
      <4>1. m # a /\ SubtreeHeight(w, m) = SubtreeHeight(t, m)
        BY <2>11, <3>6
      <4> QED
        BY <3>6, <4>1 DEF Grows
    <3>7. /\ SubtreeHeight(w, New(l)) = SubtreeHeight(o, o.node[x].left)
          /\ SubtreeHeight(w, New(r)) = SubtreeHeight(o, o.node[x].right)
      <4> HIDE DEF l, r, New, T
      <4>1. CASE a \in Below(U, l)
        <5>1. a \notin Below(U, r)
          BY <3>3, <4>1
        <5>2. SubtreeHeight(w, New(l)) = SubtreeHeight(o, o.node[x].left) /\ k \in Below(U, l)
          BY <3>2, <3>5, <4>1
        <5>3. k \notin Below(U, r)
          BY <3>3, <5>2
        <5> QED
          BY <3>2, <3>6, <5>1, <5>2, <5>3
      <4>2. CASE a \notin Below(U, l)
        <5>1. a \in Below(U, r)
          BY <3>3, <3>4, <4>2
        <5>2. SubtreeHeight(w, New(r)) = SubtreeHeight(o, o.node[x].right) /\ k \in Below(U, r)
          BY <3>2, <3>5, <5>1
        <5>3. k \notin Below(U, l)
          BY <3>3, <5>2
        <5> QED
          BY <3>2, <3>6, <4>2, <5>2, <5>3
      <4> QED
        BY <4>1, <4>2
    <3>8. w.node[x].left = New(l) /\ w.node[x].right = New(r)
      BY <1>5, <2>6
    <3>9. HeightIs(w, x) /\ HeightIs(o, x) /\ InBalance(o, x)
      BY <1>1, <2>4, <3>1
    <3> HIDE DEF l, r, New, T
    <3>10. w.node[x].height = o.node[x].height
      BY <3>7, <3>8, <3>9 DEF HeightIs, HeightOf
    <3>11. InBalance(w, x)
      BY <3>7, <3>8, <3>9 DEF InBalance
    <3>12. SubtreeHeight(w, x) = SubtreeHeight(o, x)
      BY <3>10 DEF SubtreeHeight
    <3> QED
      BY <3>11, <3>12
  <2>14. \A x \in K1 : x \in T
    <3> HIDE DEF T
    <3> QED
      BY <1>1, <2>13, FromBelow
  <2>15. \A x \in K1 : InBalance(w, x)
    <3>1. \A x \in K1 : x \notin S /\ a \in U[x] => InBalance(w, x)
      BY <2>14
    <3> HIDE DEF T
    <3> QED
      BY <2>9, <2>12, <3>1
  <2>16. Whole(w, K1, D, V)
    BY <2>4, <2>5, <2>15 DEF Whole
  <2> QED
    BY <2>5, <2>16 DEF K1, w
<1> QED
  BY <1>8, <1>9

(* The new leaf is in its place and the heights are right; what follows    *)
(* restores the balance.                                                   *)
Lifted(t, U, o, K, D, k) ==
    /\ t \in Trees(K \cup {k}, D) /\ Shape(t, K \cup {k}, U)
    /\ \A x \in K \cup {k} : HeightIs(t, x)
    /\ o \in Trees(K, D) /\ \A x \in K : HeightIs(o, x) /\ InBalance(o, x)
    /\ \A x \in K : Grows(t, o, U, k, x, x) /\ GrowsBelow(t, o, U, k, x)
    /\ SubtreeHeight(t, k) = 1 /\ InBalance(t, k)
    /\ U[k] = {k} /\ k \in Nat \ K

Climbing(w, t, U, K, k) ==
    /\ w.tree = t /\ w.at \in K \cup {k} /\ k \in U[w.at]
    /\ \A x \in K \cup {k} : w.at \notin U[x] => InBalance(t, x)

Settled(w, K, D) == \E V : Whole(w.tree, K, D, V)

Ballancing(w, t, U, K, D, k) ==
    /\ w \in [at : K \cup {k, Nil}, tree : Trees(K \cup {k}, D)]
    /\ SameOrder(w.tree, t, K \cup {k})
    /\ Climbing(w, t, U, K, k) \/ Settled(w, K \cup {k}, D)

LEMMA TurnIs ==
    ASSUME NEW K, NEW D, NEW t, NEW U, NEW o, NEW k, Lifted(t, U, o, K, D, k),
           NEW w, Ballancing(w, t, U, K, D, k)
    PROVE  LET v == Ballanced(w)
           IN  /\ Ballancing(v, t, U, K, D, k)
               /\ \/ Settled(v, K \cup {k}, D)
                  \/ /\ Climbing(w, t, U, K, k) /\ Climbing(v, t, U, K, k)
                     /\ Cardinality(U[w.at]) < Cardinality(U[v.at])
<1> DEFINE K1 == K \cup {k}
           v == Ballanced(w)
           a == w.at
           r == BallanceAt(w.tree, a)
<1>1. /\ t \in Trees(K1, D) /\ Shape(t, K1, U) /\ \A x \in K1 : HeightIs(t, x)
      /\ k \in K1 /\ K1 \cup {Nil} = K \cup {k, Nil}
  BY DEF Lifted
<1>2. /\ a \in K1 \cup {Nil} /\ w.tree \in Trees(K1, D) /\ SameOrder(w.tree, t, K1)
      /\ w = [at |-> a, tree |-> w.tree]
  BY DEF Ballancing
<1>3. Nil \notin K1
  BY <1>1, UnderItself
<1> HIDE DEF K1
<1>4. ASSUME r \in Trees(K1, D), SameOrder(r, w.tree, K1), a \in K1
      PROVE  /\ v = [at |-> r.node[a].parent, tree |-> r]
             /\ v \in [at : K \cup {k, Nil}, tree : Trees(K1, D)]
             /\ SameOrder(v.tree, t, K1)
  <2>1. a # Nil
    BY <1>3, <1>4
  <2>2. v = [at |-> r.node[a].parent, tree |-> r]
    BY <2>1 DEF Ballanced
  <2>3. r.node[a].parent \in K1 \cup {Nil}
    BY <1>4, KeysAre DEF Nodes
  <2>4. SameOrder(r, t, K1)
    BY <1>2, <1>4 DEF SameOrder
  <2> QED
    BY <1>1, <1>4, <2>2, <2>3, <2>4
<1>5. SameOrder(w.tree, w.tree, K1)
  BY DEF SameOrder
<1>6. CASE Settled(w, K1, D)
  <2>1. CASE a = Nil
    <3>1. v = w
      BY <2>1 DEF Ballanced
    <3> QED
      BY <1>6, <3>1 DEF K1
  <2>2. CASE a # Nil
    <3>1. r = w.tree /\ a \in K1
      BY <1>2, <1>6, <2>2 DEF Settled, Whole, BallanceAt
    <3>2. v.tree = w.tree /\ v \in [at : K \cup {k, Nil}, tree : Trees(K1, D)]
      BY <1>2, <1>4, <1>5, <3>1
    <3>3. Settled(v, K1, D)
      BY <1>6, <3>2 DEF Settled
    <3> QED
      BY <1>2, <3>2, <3>3 DEF Ballancing, K1
  <2> QED
    BY <2>1, <2>2
<1>7. CASE Climbing(w, t, U, K, k)
  <2>1. w.tree = t /\ a \in K1 /\ k \in U[a] /\ \A x \in K1 : a \notin U[x] => InBalance(t, x)
    BY <1>7 DEF Climbing, K1
  <2>2. CASE InBalance(t, a)
    <3>1. r = t
      BY <2>1, <2>2 DEF BallanceAt
    <3> DEFINE q == t.node[a].parent
    <3>2. /\ v.at = q /\ v.tree = t /\ v \in [at : K \cup {k, Nil}, tree : Trees(K1, D)]
          /\ SameOrder(v.tree, t, K1)
      BY <1>1, <1>4, <1>5, <2>1, <3>1
    <3>3. /\ q \in K1 \cup {Nil}
          /\ q # Nil => q \in K1 /\ q \notin U[a] /\ a \in U[q]
      BY <1>1, <2>1, ParentIs
    <3>4. ASSUME NEW x \in K1, q \notin U[x] PROVE InBalance(t, x)
      <4>1. CASE x = a
        BY <2>2, <4>1
      <4>2. CASE x # a
        <5>1. a \in U[x] => Hangs(t, U[x], a)
          <6> HIDE DEF a, q
          <6> QED
            BY <1>1, <4>2, Nested
        <5> QED
          BY <2>1, <3>4, <5>1 DEF Hangs
      <4> QED
        BY <4>1, <4>2
    <3> HIDE DEF q, v, a
    <3>5. CASE q = Nil
      <4>1. \A x \in K1 : Nil \notin U[x]
        BY <1>1, <1>3, UnderItself
      <4>2. Whole(t, K1, D, U)
        BY <1>1, <3>4, <3>5, <4>1 DEF Whole
      <4>3. Settled(v, K1, D)
        BY <3>2, <4>2 DEF Settled
      <4> QED
        BY <3>2, <4>3 DEF Ballancing, K1, v
    <3>6. CASE q # Nil
      <4>1. U[a] \in SUBSET U[q] /\ U[a] \in SUBSET (U[q] \ {q})
        <5>1. q \in K1 /\ a \in U[q] /\ q \notin U[a]
          BY <3>3, <3>6
        <5>2. U[a] \in SUBSET U[q]
          BY <1>1, <5>1, Nested
        <5> QED
          BY <5>1, <5>2
      <4>2. Climbing(v, t, U, K, k)
        BY <2>1, <3>2, <3>3, <3>4, <3>6, <4>1 DEF Climbing, K1
      <4>3. Cardinality(U[a]) < Cardinality(U[q])
        BY <1>1, <2>1, <3>3, <3>6, <4>1, Smaller
      <4> QED
        BY <1>7, <3>2, <4>2, <4>3 DEF Ballancing, K1, v, a
    <3> QED
      BY <3>5, <3>6
  <2>3. CASE ~ InBalance(t, a)
    <3>1. a \in K
      BY <2>1, <2>3 DEF Lifted, K1
    <3>2. Raised(t, U, o, K, D, k, a)
      BY <2>1, <3>1 DEF Raised, Lifted, K1
    <3>3. SameOrder(r, t, K1) /\ \E V : Whole(r, K1, D, V)
      BY <2>1, <2>3, <3>2, BallancedAt DEF K1
    <3>4. r \in Trees(K1, D)
      BY <3>3 DEF Whole
    <3>5. /\ v = [at |-> r.node[a].parent, tree |-> r]
          /\ v \in [at : K \cup {k, Nil}, tree : Trees(K1, D)]
          /\ SameOrder(v.tree, t, K1)
      BY <1>4, <2>1, <3>3, <3>4
    <3>6. v.tree = r
      BY <3>5
    <3> HIDE DEF v, r
    <3>7. Settled(v, K1, D)
      BY <3>3, <3>6 DEF Settled
    <3> QED
      BY <3>5, <3>7 DEF Ballancing, K1, v
  <2> QED
    BY <2>2, <2>3
<1> QED
  BY <1>6, <1>7 DEF Ballancing, K1

LEMMA BallanceIs ==
    ASSUME NEW K, NEW D, NEW t, NEW U, NEW o, NEW k, Lifted(t, U, o, K, D, k)
    PROVE  LET s == Ballance(t, k)
           IN  SameOrder(s, t, K \cup {k}) /\ \E V : Whole(s, K \cup {k}, D, V)
<1> DEFINE K1 == K \cup {k}
           C == Cardinality(K1)
           N == 2 * C
           base == [at |-> k, tree |-> t]
           W == {w \in [at : K \cup {k, Nil}, tree : Trees(K1, D)] : Ballancing(w, t, U, K, D, k)}
           f == [w \in W |-> Ballanced(w)]
           turn[i \in 0..N] == IF i = 0 THEN base ELSE Ballanced(turn[i - 1])
<1>0. t \in Trees(K1, D) /\ Shape(t, K1, U) /\ k \in K1
  BY DEF Lifted
<1>1. C \in Nat /\ N \in Nat /\ C <= N /\ Keys(t) = K1
  <2>1. C \in Nat /\ Keys(t) = K1
    BY <1>0, FS_CardinalityType, KeysAre DEF Shape
  <2> HIDE DEF C
  <2> QED
    BY <2>1
<1>2. base \in W /\ Climbing(base, t, U, K, k)
  <2>1. ASSUME NEW x \in K1, k \notin U[x] PROVE InBalance(t, x)
    <3>1. x \in K /\ x # k
      BY <2>1 DEF Lifted
    <3>2. PICK ol, oR, tl, tr \in Nat :
              /\ ol = SubtreeHeight(o, o.node[x].left) /\ oR = SubtreeHeight(o, o.node[x].right)
              /\ tl = SubtreeHeight(t, t.node[x].left) /\ tr = SubtreeHeight(t, t.node[x].right)
              /\ ol - oR \in -1..1 /\ tl = ol /\ tr = oR
      <4>1. /\ Grows(t, o, U, k, t.node[x].left, o.node[x].left)
            /\ Grows(t, o, U, k, t.node[x].right, o.node[x].right)
            /\ InBalance(o, x) /\ o \in Trees(K, D) /\ K \in SUBSET Nat
        BY <1>0, <3>1 DEF Lifted, GrowsBelow, Shape
      <4>2. /\ Below(U, t.node[x].left) \in SUBSET U[x]
            /\ Below(U, t.node[x].right) \in SUBSET U[x]
        BY <1>0, NodeIs
      <4>3. /\ SubtreeHeight(t, t.node[x].left) = SubtreeHeight(o, o.node[x].left)
            /\ SubtreeHeight(t, t.node[x].right) = SubtreeHeight(o, o.node[x].right)
        BY <2>1, <4>1, <4>2 DEF Grows
      <4>4. /\ SubtreeHeight(o, o.node[x].left) \in Nat
            /\ SubtreeHeight(o, o.node[x].right) \in Nat
        <5>1. o.node[x].left \in K \cup {Nil} /\ o.node[x].right \in K \cup {Nil}
          BY <3>1, <4>1, KeysAre DEF Nodes
        <5> QED
          BY <4>1, <5>1, SubtreeHeightIs
      <4> QED
        BY <4>1, <4>3, <4>4 DEF InBalance
    <3> QED
      BY <3>2 DEF InBalance
  <2>2. k \in U[k]
    BY DEF Lifted
  <2>3. Climbing(base, t, U, K, k)
    BY <2>1, <2>2 DEF Climbing
  <2>4. SameOrder(t, t, K1)
    BY DEF SameOrder
  <2> QED
    BY <1>0, <2>3, <2>4 DEF Ballancing
<1>3. \A w \in W : f[w] \in W
  <2>1. \A w \in W : Ballancing(Ballanced(w), t, U, K, D, k)
    BY TurnIs
  <2>2. \A v : Ballancing(v, t, U, K, D, k) => v \in W
    BY DEF Ballancing
  <2> QED
    BY <2>1, <2>2
<1>4. PICK g : Turns(g, N, W, base, f)
  <2> HIDE DEF N, W, f, base
  <2> QED
    BY <1>1, <1>2, <1>3, Iteration
<1>5. turn = [i \in 0..N |-> IF i = 0 THEN base ELSE Ballanced(turn[i - 1])]
  <2>1. g = [i \in 0..N |-> IF i = 0 THEN base ELSE Ballanced(g[i - 1])]
    <3>1. \A i \in 0..N : i # 0 => i \in 1..N /\ i - 1 \in 0..N
      BY <1>1
    <3> HIDE DEF N, base
    <3> QED
      BY <1>4, <3>1 DEF Turns
  <2> QED
    BY <2>1
<1>6. Ballance(t, k) = turn[N].tree
  BY <1>1 DEF Ballance
<1> HIDE DEF turn
<1>7. \A i \in 0..N : turn[i] = g[i] /\ g[i] \in W
  <2> DEFINE T == {i \in 0..N : turn[i] = g[i]}
  <2>1. 0 \in T
    <3> HIDE DEF base, N
    <3> QED
      BY <1>1, <1>4, <1>5 DEF Turns
  <2>2. ASSUME NEW i \in 1..N, i - 1 \in T PROVE i \in T
    <3>1. i \in 0..N /\ i # 0 /\ i - 1 \in 0..N
      BY <1>1
    <3> HIDE DEF N, base
    <3> QED
      BY <1>4, <1>5, <2>2, <3>1 DEF Turns
  <2> HIDE DEF T, N
  <2>3. \A i \in 0..N : i \in T
    BY <1>1, <2>1, <2>2, CountUp
  <2> QED
    BY <1>4, <2>3 DEF T, Turns
<1> DEFINE Above(w, i) == Climbing(w, t, U, K, k) /\ Cardinality(U[w.at]) > i
           T == {i \in 0..N : Settled(g[i], K1, D) \/ Above(g[i], i)}
<1>8. 0 \in T
  <2>1. 0 < Cardinality(U[k]) /\ Cardinality(U[k]) \in Nat
    BY <1>0, Smaller
  <2>2. g[0] = base /\ 0 \in 0..N
    BY <1>1, <1>4 DEF Turns
  <2>3. Cardinality(U[base.at]) > 0
    BY <2>1
  <2> HIDE DEF base, N
  <2> QED
    BY <1>2, <2>2, <2>3
<1> HIDE DEF base
<1>9. ASSUME NEW i \in 1..N, i - 1 \in T PROVE i \in T
  <2>1. i \in 0..N /\ i - 1 \in 0..N /\ i \in Nat
    BY <1>1
  <2> HIDE DEF N
  <2> DEFINE w == g[i - 1]
             v == g[i]
  <2>2. v = Ballanced(w) /\ Ballancing(w, t, U, K, D, k) /\ v \in W
    BY <1>4, <1>7, <2>1 DEF Turns
  <2>3. Settled(w, K1, D) \/ Above(w, i - 1)
    BY <1>9
  <2> HIDE DEF w, v
  <2>4. CASE Settled(v, K1, D)
    BY <2>1, <2>4 DEF v
  <2>5. CASE ~ Settled(v, K1, D)
    <3>1. /\ Climbing(w, t, U, K, k) /\ Climbing(v, t, U, K, k)
          /\ Cardinality(U[w.at]) < Cardinality(U[v.at])
      BY <2>2, <2>5, TurnIs
    <3>2. ~ Settled(w, K1, D)
      <4> SUFFICES ASSUME Settled(w, K1, D) PROVE FALSE
        OBVIOUS
      <4>1. w.at \in K1 \cup {Nil} /\ v.tree = w.tree
        <5>1. w.at \in K1 /\ w.at # Nil
          BY <1>0, <3>1, UnderItself DEF Climbing
        <5>2. BallanceAt(w.tree, w.at) = w.tree
          BY <5>1, <3>2 DEF Settled, Whole, BallanceAt
        <5> QED
          BY <2>2, <5>1, <5>2 DEF Ballanced
      <4> QED
        BY <2>5, <4>1 DEF Settled
    <3>3. Cardinality(U[w.at]) > i - 1
      BY <2>3, <3>2
    <3>4. Cardinality(U[w.at]) \in Nat /\ Cardinality(U[v.at]) \in Nat
      <4>1. w.at \in K1 /\ v.at \in K1
        BY <3>1 DEF Climbing
      <4> QED
        BY <1>0, <4>1, Smaller
    <3>5. Cardinality(U[v.at]) > i
      BY <2>1, <3>1, <3>3, <3>4
    <3> QED
      BY <2>1, <3>1, <3>5 DEF v
  <2> QED
    BY <2>4, <2>5
<1>10. Settled(g[N], K1, D)
  <2>1. \A i \in 0..N : i \in T
    <3> HIDE DEF T, N
    <3> QED
      BY <1>1, <1>8, <1>9, CountUp
  <2>2. N \in 0..N
    BY <1>1
  <2>3. Settled(g[N], K1, D) \/ Above(g[N], N)
    BY <2>1, <2>2
  <2> HIDE DEF T, N, K1, C
  <2>4. ~ Above(g[N], N)
    <3> SUFFICES ASSUME Above(g[N], N) PROVE FALSE
      OBVIOUS
    <3> DEFINE e == g[N].at
    <3>1. e \in K1 /\ Cardinality(U[e]) > N
      BY DEF Climbing, K1
    <3> HIDE DEF e
    <3>2. Cardinality(U[e]) \in Nat /\ Cardinality(U[e]) <= C
      BY <1>0, <3>1, Smaller DEF C
    <3> QED
      BY <1>1, <3>1, <3>2
  <2> QED
    BY <2>3, <2>4
<1>11. N \in 0..N
  BY <1>1
<1>12. Ballancing(g[N], t, U, K, D, k) /\ Ballance(t, k) = g[N].tree
  BY <1>6, <1>7, <1>11
<1> HIDE DEF N
<1> QED
  BY <1>10, <1>12 DEF Ballancing, Settled
-----------------------------------------------------------------------------
(* The index: a balanced search tree with the keys K whose neighbours are  *)
(* linked.                                                                 *)
IsIndex(t, K, D) == Threaded(t, K) /\ \E U : Whole(t, K, D, U)

LEMMA ThreadedStays ==
    ASSUME NEW K, NEW t, Threaded(t, K), NEW s, SameOrder(s, t, K)
    PROVE  Threaded(s, K)
  BY DEF Threaded, SameOrder

(* The lowest tree.                                                        *)
LEMMA FirstInsert ==
    ASSUME NEW k \in Nat, NEW D, NEW d \in D
    PROVE  LET s == Insert(NewTree, k, d) IN IsIndex(s, {k}, D) /\ s.node[k].data = d
<1> DEFINE K == {k}
           node == [left |-> Nil, right |-> Nil, parent |-> Nil,
                    prev |-> Nil, next |-> Nil, height |-> 0, data |-> d]
           s == [root |-> k, first |-> k, node |-> [n \in K |-> node]]
           U == [n \in K |-> K]
<1>1. Insert(NewTree, k, d) = s
  BY DEF Insert, NewTree
<1>2. s \in Trees(K, D)
  BY DEF Trees, Nodes
<1>3. /\ s.root = k /\ s.first = k /\ s.node[k].left = Nil /\ s.node[k].right = Nil
      /\ s.node[k].parent = Nil /\ s.node[k].prev = Nil /\ s.node[k].next = Nil
      /\ s.node[k].height = 0 /\ s.node[k].data = d
  OBVIOUS
<1>4. IsFiniteSet(K) /\ U[k] = K /\ U \in [K -> SUBSET K]
  BY FS_Singleton
<1> HIDE DEF s, U
<1>5. Shape(s, K, U)
  <2>1. ShapeAt(s, U, k)
    BY <1>3, <1>4 DEF ShapeAt, Below
  <2> QED
    BY <1>3, <1>4, <2>1 DEF Shape
<1>6. HeightIs(s, k) /\ InBalance(s, k)
  <2>1. SubtreeHeight(s, Nil) = 0
    BY DEF SubtreeHeight
  <2> QED
    BY <1>3, <2>1 DEF HeightIs, HeightOf, Higher, InBalance
<1>7. Threaded(s, K)
  BY <1>3 DEF Threaded, IsNext, IsPrev
<1>8. Whole(s, K, D, U)
  BY <1>2, <1>5, <1>6 DEF Whole
<1> QED
  BY <1>1, <1>3, <1>7, <1>8 DEF IsIndex

(* A tree with the data d at k, and that of t at other keys.               *)
DataAt(s, t, K, k, d) ==
    s.node[k].data = d /\ \A n \in K \ {k} : s.node[n].data = t.node[n].data

(* A new key keeps the index sound: it stays a balanced search tree with   *)
(* its neighbours linked, and the data of the other keys stay, whatever    *)
(* rotations the way up takes (avl_tree.h, insert).                        *)
THEOREM InsertIs ==
    ASSUME NEW K, NEW D, NEW t, IsIndex(t, K, D), NEW k \in Nat \ K, NEW d \in D
    PROVE  LET s == Insert(t, k, d) IN IsIndex(s, K \cup {k}, D) /\ DataAt(s, t, K, k, d)
<1> DEFINE K1 == K \cup {k}
           p == LastOnPath(t, k)
           b == IF k < p THEN t.node[p].prev ELSE p
           e == IF k < p THEN p ELSE t.node[p].next
           s0 == Leaf(t, p, k, d)
           s1 == UpdateHeight(s0, k)
           s2 == Ballance(s1, k)
           s == Insert(t, k, d)
<1>1. PICK U : Whole(t, K, D, U)
  BY DEF IsIndex
<1>2. /\ t \in Trees(K, D) /\ Shape(t, K, U) /\ Threaded(t, K)
      /\ \A x \in K : HeightIs(t, x) /\ InBalance(t, x)
  BY <1>1 DEF Whole, IsIndex
<1>3. /\ K \in SUBSET Nat /\ Nil \notin K /\ K1 \in SUBSET Nat
      /\ \A n \in K : n \in U[n] /\ U[n] \in SUBSET K
      /\ t.root \in K
  <2>1. K \in SUBSET Nat /\ Nil \notin K /\ \A n \in K : n \in U[n] /\ U[n] \in SUBSET K
    BY <1>2, UnderItself
  <2>2. t.root \in K
    BY <1>2 DEF Shape
  <2> QED
    BY <2>1, <2>2
<1>4. s = s2
  <2>1. t.root # Nil /\ k \notin Keys(t)
    BY <1>2, <1>3, KeysAre
  <2> QED
    BY <2>1 DEF Insert
<1>5. p \in K /\ Apart(K, U, k, p) /\ EndOfPath(t, k, p)
  BY <1>2, PathEnds
<1> HIDE DEF p
<1>6. s0 \in Trees(K1, D) /\ HasLeaf(s0, t, K, p, k, d, b, e)
  BY <1>2, <1>3, <1>5, LeafIs
<1>7. IsPrev(K, k, b) /\ IsNext(K, k, e)
  BY <1>2, <1>5, BesideLeaf
<1> HIDE DEF b, e, s0, s1, s2, s
<1> DEFINE U1 == WithLeaf(U, K, p, k)
<1>8. Threaded(s0, K1)
  BY <1>2, <1>3, <1>6, <1>7, LeafThreaded
<1>9. Shape(s0, K1, U1)
  BY <1>2, <1>5, <1>6, LeafShape
<1>10. U1[k] = {k} /\ \A x \in K : U1[x] = IF p \in U[x] THEN U[x] \cup {k} ELSE U[x]
  BY DEF WithLeaf
<1> HIDE DEF U1
<1>11. LeafLinks(s0, t, K, p, k)
  <2>1. /\ k < p => t.node[p].left = Nil
        /\ ~ (k < p) => t.node[p].right = Nil
    BY <1>2, <1>5, EndIs
  <2> QED
    BY <1>6, <2>1 DEF HasLeaf, LeafLinks
<1>12. ASSUME NEW x \in K1, k \notin U1[x] PROVE HeightIs(s0, x)
  <2>1. x \in K /\ x # p
    BY <1>3, <1>10, <1>12
  <2>2. /\ s0.node[x].left = t.node[x].left /\ s0.node[x].right = t.node[x].right
        /\ \A n \in K : s0.node[n].height = t.node[n].height
    BY <1>6, <2>1 DEF HasLeaf
  <2>3. t.node[x].left \in K \cup {Nil} /\ t.node[x].right \in K \cup {Nil} /\ HeightIs(t, x)
    BY <1>2, <2>1, NodeIs
  <2>4. \A m \in K \cup {Nil} : SubtreeHeight(s0, m) = SubtreeHeight(t, m)
    BY <2>2 DEF SubtreeHeight
  <2> QED
    BY <2>1, <2>2, <2>3, <2>4 DEF HeightIs, HeightOf
<1>13. /\ s1 \in Trees(K1, D) /\ OnlyHeights(s1, s0, K1) /\ \A x \in K1 : HeightIs(s1, x)
  BY <1>6, <1>9, <1>12, HeightsUpdated DEF s1
<1>14. Shape(s1, K1, U1)
  BY <1>6, <1>9, <1>13, ShapeStays
<1>15. LeafLinks(s1, t, K, p, k)
  BY <1>11, <1>13 DEF LeafLinks, OnlyHeights
<1>16. Lifted(s1, U1, t, K, D, k)
  <2>1. \A x \in K : Grows(s1, t, U1, k, x, x) /\ GrowsBelow(s1, t, U1, k, x)
    BY <1>2, <1>5, <1>13, <1>14, <1>15, Growth
  <2>2. SubtreeHeight(s1, k) = 1 /\ InBalance(s1, k)
    <3>1. s1.node[k].left = Nil /\ s1.node[k].right = Nil /\ HeightIs(s1, k) /\ k # Nil
      BY <1>13, <1>15 DEF LeafLinks, Nil
    <3>2. SubtreeHeight(s1, Nil) = 0 /\ SubtreeHeight(s1, k) = s1.node[k].height + 1
      BY <3>1 DEF SubtreeHeight
    <3> QED
      BY <3>1, <3>2 DEF HeightIs, HeightOf, Higher, InBalance
  <2> QED
    BY <1>2, <1>10, <1>13, <1>14, <2>1, <2>2 DEF Lifted
<1>17. SameOrder(s2, s1, K1) /\ \E V : Whole(s2, K1, D, V)
  BY <1>16, BallanceIs DEF s2
<1>18. SameOrder(s2, s0, K1)
  BY <1>13, <1>17 DEF SameOrder, OnlyHeights
<1>19. Threaded(s2, K1)
  BY <1>8, <1>18, ThreadedStays
<1>20. s2.node[k].data = d /\ \A n \in K : s2.node[n].data = t.node[n].data
  <2>1. s0.node[k].data = d /\ \A n \in K : s0.node[n].data = t.node[n].data
    BY <1>6 DEF HasLeaf
  <2> QED
    BY <1>18, <2>1 DEF SameOrder
<1> QED
  BY <1>4, <1>17, <1>19, <1>20 DEF IsIndex, DataAt, s

(* Other data at a key leaves the tree as it is.                           *)
LEMMA DataSet ==
    ASSUME NEW K, NEW D, NEW t, IsIndex(t, K, D), NEW k \in K, NEW d \in D
    PROVE  LET s == [t EXCEPT !.node[k].data = d] IN IsIndex(s, K, D) /\ DataAt(s, t, K, k, d)
<1> DEFINE s == [t EXCEPT !.node[k].data = d]
           Node(n) == IF n = k THEN [t.node[n] EXCEPT !.data = d] ELSE t.node[n]
<1>1. PICK U : Whole(t, K, D, U)
  BY DEF IsIndex
<1>2. t \in Trees(K, D) /\ t.node \in [K -> Nodes(K, D)] /\ Shape(t, K, U) /\ Threaded(t, K)
  BY <1>1, KeysAre DEF Whole, IsIndex
<1>3. s = [root |-> t.root, first |-> t.first, node |-> [n \in K |-> Node(n)]]
  BY <1>2 DEF Trees
<1>4. ASSUME NEW n \in K
      PROVE  /\ Node(n) \in Nodes(K, D)
             /\ Node(n).left = t.node[n].left /\ Node(n).right = t.node[n].right
             /\ Node(n).parent = t.node[n].parent
             /\ Node(n).height = t.node[n].height
             /\ Node(n).prev = t.node[n].prev /\ Node(n).next = t.node[n].next
             /\ Node(n).data = IF n = k THEN d ELSE t.node[n].data
  <2>1. t.node[n] \in Nodes(K, D)
    BY <1>2
  <2> QED
    BY <2>1 DEF Nodes
<1> HIDE DEF Node
<1>5. s \in Trees(K, D) /\ s.root = t.root /\ s.first = t.first /\ \A n \in K : s.node[n] = Node(n)
  <2>1. t.root \in K \cup {Nil} /\ t.first \in K \cup {Nil} /\ \A n \in K : Node(n) \in Nodes(K, D)
    BY <1>2, <1>4 DEF Trees
  <2> QED
    BY <1>3, <2>1 DEF Trees
<1> HIDE DEF s
<1>6. \A n \in K : /\ s.node[n].left = t.node[n].left /\ s.node[n].right = t.node[n].right
                   /\ s.node[n].parent = t.node[n].parent
                   /\ s.node[n].height = t.node[n].height
                   /\ s.node[n].prev = t.node[n].prev /\ s.node[n].next = t.node[n].next
                   /\ s.node[n].data = IF n = k THEN d ELSE t.node[n].data
  BY <1>4, <1>5
<1>7. Threaded(s, K)
  BY <1>2, <1>5, <1>6 DEF Threaded
<1>8. Whole(s, K, D, U)
  <2>1. \A m \in K \cup {Nil} : SubtreeHeight(s, m) = SubtreeHeight(t, m)
    BY <1>6 DEF SubtreeHeight
  <2>2. ASSUME NEW x \in K PROVE HeightIs(s, x) /\ InBalance(s, x) /\ ShapeAt(s, U, x)
    <3>1. HeightIs(t, x) /\ InBalance(t, x) /\ ShapeAt(t, U, x)
      BY <1>1 DEF Whole, Shape
    <3>2. /\ s.node[x].left = t.node[x].left /\ s.node[x].right = t.node[x].right
          /\ s.node[x].height = t.node[x].height
          /\ t.node[x].left \in K \cup {Nil} /\ t.node[x].right \in K \cup {Nil}
      BY <1>2, <1>6, NodeIs
    <3>3. \A m \in K : s.node[m].parent = t.node[m].parent
      BY <1>6
    <3> QED
      BY <2>1, <3>1, <3>2, <3>3 DEF HeightIs, HeightOf, InBalance, ShapeAt
  <2>3. Shape(s, K, U)
    BY <1>2, <1>5, <1>6, <2>2 DEF Shape
  <2> QED
    BY <1>5, <2>2, <2>3 DEF Whole
<1> QED
  <2>1. IsIndex(s, K, D)
    BY <1>7, <1>8 DEF IsIndex
  <2>2. DataAt(s, t, K, k, d)
    BY <1>6 DEF DataAt
  <2> QED
    BY <2>1, <2>2 DEF s

LEMMA UnderIs ==
    ASSUME NEW K, NEW D, NEW t \in Trees(K, D), NEW U, Shape(t, K, U), NEW n \in K \cup {Nil}
    PROVE  Under(t, n) = Below(U, n)
<1> DEFINE S == K \cup {Nil}
           below[m \in S] ==
               IF m = Nil THEN {}
               ELSE {m} \cup below[t.node[m].left] \cup below[t.node[m].right]
           g == [m \in S |-> Below(U, m)]
<1>1. Keys(t) = K /\ Nil \notin K
  BY KeysAre, UnderItself
<1>2. Under(t, n) = below[n]
  BY <1>1 DEF Under
<1>3. below = [m \in S |-> IF m = Nil THEN {}
                           ELSE {m} \cup below[t.node[m].left] \cup below[t.node[m].right]]
  <2>1. g = [m \in S |-> IF m = Nil THEN {} ELSE {m} \cup g[t.node[m].left] \cup g[t.node[m].right]]
    <3>1. ASSUME NEW m \in S
          PROVE  g[m] = IF m = Nil THEN {} ELSE {m} \cup g[t.node[m].left] \cup g[t.node[m].right]
      <4>1. CASE m = Nil
        BY <4>1 DEF Below
      <4>2. CASE m # Nil
        <5>1. m \in K
          BY <4>2
        <5>2. t.node[m].left \in S /\ t.node[m].right \in S
          BY <5>1, NodeIs
        <5>3. ShapeAt(t, U, m)
          BY <5>1 DEF Shape
        <5>4. U[m] = {m} \cup Below(U, t.node[m].left) \cup Below(U, t.node[m].right)
          BY <5>3 DEF ShapeAt
        <5>5. Below(U, m) = U[m]
          BY <4>2 DEF Below
        <5> QED
          BY <4>2, <5>2, <5>4, <5>5
      <4> QED
        BY <4>1, <4>2
    <3>2. g = [m \in S |-> g[m]]
      OBVIOUS
    <3> HIDE DEF g, S
    <3> QED
      BY <3>1, <3>2
  <2> QED
    BY <2>1
<1> HIDE DEF below
<1> DEFINE T == {m \in K : below[m] = U[m]}
<1>4. below[Nil] = {}
  BY <1>3
<1>5. ASSUME NEW m \in K, t.node[m].left \in T \cup {Nil}, t.node[m].right \in T \cup {Nil}
      PROVE  m \in T
  <2>1. below[m] = {m} \cup below[t.node[m].left] \cup below[t.node[m].right]
    BY <1>1, <1>3
  <2>2. ASSUME NEW c \in T \cup {Nil} PROVE below[c] = Below(U, c)
    BY <1>1, <1>4, <2>2 DEF Below
  <2>3. ShapeAt(t, U, m)
    BY DEF Shape
  <2> QED
    BY <1>5, <2>1, <2>2, <2>3 DEF ShapeAt
<1>6. \A m \in K : m \in T
  <2> HIDE DEF T
  <2> QED
    BY <1>5, FromBelow
<1> QED
  BY <1>1, <1>2, <1>4, <1>6 DEF Below

(* Such an index is what the runs take for a sound one (avl_tree.h).       *)
LEMMA IndexSound ==
    ASSUME NEW K, NEW D, NEW t, IsIndex(t, K, D)
    PROVE  IsAvl(t) /\ IsThreaded(t)
<1>1. PICK U : Whole(t, K, D, U)
  BY DEF IsIndex
<1>2. t \in Trees(K, D) /\ Shape(t, K, U) /\ Threaded(t, K) /\ Keys(t) = K
  BY <1>1, KeysAre DEF Whole, IsIndex
<1>3. /\ K \in SUBSET Nat /\ Nil \notin K /\ t.root \in K /\ U[t.root] = K
      /\ t.node[t.root].parent = Nil
  BY <1>2, UnderItself DEF Shape
<1>4. \A n \in K \cup {Nil} : Under(t, n) = Below(U, n)
  BY <1>2, UnderIs
<1>5. IsAvl(t)
  <2>1. Under(t, t.root) = K
    BY <1>3, <1>4 DEF Below
  <2>2. ASSUME NEW n \in K
        PROVE  /\ \A k \in Under(t, t.node[n].left) : k < n
               /\ \A k \in Under(t, t.node[n].right) : n < k
               /\ \A c \in {t.node[n].left, t.node[n].right} \ {Nil} : t.node[c].parent = n
               /\ t.node[n].height = HeightOf(t, n)
               /\ InBalance(t, n)
    <3>1. ShapeAt(t, U, n) /\ HeightIs(t, n) /\ InBalance(t, n)
      BY <1>1, <1>2 DEF Whole, Shape
    <3>2. t.node[n].left \in K \cup {Nil} /\ t.node[n].right \in K \cup {Nil}
      BY <1>2, NodeIs
    <3> QED
      BY <1>4, <3>1, <3>2 DEF ShapeAt, HeightIs
  <2> QED
    BY <1>2, <1>3, <2>1, <2>2 DEF IsAvl
<1>6. IsThreaded(t)
  <2>1. t.first \in K /\ \A x \in K : t.first <= x
    BY <1>2 DEF Threaded
  <2>2. t.first = CHOOSE k \in K : \A m \in K : k <= m
    <3>1. \A x, y \in K : x <= y /\ y <= x => x = y
      BY <1>3
    <3> QED
      BY <2>1, <3>1
  <2>3. ASSUME NEW n \in K
        PROVE  /\ t.node[n].next = IF \E k \in K : n < k
                                   THEN CHOOSE k \in K : n < k /\ \A m \in K : n < m => k <= m
                                   ELSE Nil
               /\ t.node[n].next # Nil => t.node[t.node[n].next].prev = n
    <3> DEFINE e == t.node[n].next
    <3>1. IsNext(K, n, e)
      BY <1>2 DEF Threaded
    <3> HIDE DEF e
    <3>2. n \in Nat
      BY <1>3
    <3>3. CASE e = Nil /\ \A x \in K : x <= n
      <4>1. ~ \E k \in K : n < k
        <5>1. \A k \in K : k \in Nat /\ k <= n
          BY <1>3, <3>3
        <5> QED
          BY <3>2, <5>1
      <4> QED
        BY <3>3, <4>1 DEF e
    <3>4. CASE e \in K /\ n < e /\ \A x \in K : n < x => e <= x
      <4>1. \A y \in K : n < y /\ (\A m \in K : n < m => y <= m) => y = e
        <5> SUFFICES ASSUME NEW y \in K, n < y, \A m \in K : n < m => y <= m PROVE y = e
          OBVIOUS
        <5>1. y <= e /\ e <= y /\ y \in Nat /\ e \in Nat
          BY <1>3, <3>4
        <5> QED
          BY <5>1
      <4>2. e = CHOOSE k \in K : n < k /\ \A m \in K : n < m => k <= m
        BY <3>4, <4>1
      <4>3. t.node[e].prev = n
        <5> DEFINE f == t.node[e].prev
        <5>1. IsPrev(K, e, f)
          BY <1>2, <3>4 DEF Threaded
        <5> HIDE DEF f
        <5>2. e \in Nat /\ ~ (e <= n)
          BY <1>3, <3>2, <3>4
        <5>3. f \in K /\ f < e /\ n <= f
          BY <3>4, <5>1, <5>2 DEF IsPrev
        <5>4. f \in Nat /\ ~ (n < f)
          <6>1. f \in Nat /\ ~ (e <= f)
            BY <1>3, <5>2, <5>3
          <6> QED
            BY <3>4, <5>3, <6>1
        <5> QED
          BY <3>2, <5>3, <5>4 DEF f
      <4> QED
        BY <3>4, <4>2, <4>3 DEF e
    <3> QED
      BY <3>1, <3>3, <3>4 DEF IsNext
  <2>4. t.node[t.first].prev = Nil
    <3> DEFINE f == t.node[t.first].prev
    <3>1. IsPrev(K, t.first, f)
      BY <1>2, <2>1 DEF Threaded
    <3>2. ASSUME NEW x \in K, x < t.first PROVE FALSE
      <4>1. t.first \in Nat /\ x \in Nat /\ t.first <= x
        BY <1>3, <2>1
      <4> QED
        BY <3>2, <4>1
    <3> QED
      BY <3>1, <3>2 DEF IsPrev
  <2> QED
    BY <1>2, <1>3, <2>1, <2>2, <2>3, <2>4 DEF IsThreaded
<1> QED
  BY <1>5, <1>6

-----------------------------------------------------------------------------
(* The order of values. *)

InOrder(s) == \A i, j \in 1..Len(s) : i < j => Less(s[i], s[j])

LEMMA LessIs ==
    ASSUME NEW u \in Nat \X Nat, NEW v \in Nat \X Nat, NEW w \in Nat \X Nat
    PROVE  /\ ~ Less(v, v)
           /\ Less(u, v) /\ Less(v, w) => Less(u, w)
           /\ Less(u, v) \/ u = v \/ Less(v, u)
           /\ Less(u, v) => Hash(u) <= Hash(v)
           /\ Hash(u) < Hash(v) => Less(u, v)
           /\ Hash(u) \in Nat
<1>1. /\ u[1] \in Nat /\ u[2] \in Nat /\ v[1] \in Nat /\ v[2] \in Nat
      /\ w[1] \in Nat /\ w[2] \in Nat /\ u = <<u[1], u[2]>> /\ v = <<v[1], v[2]>>
  OBVIOUS
<1>2. u[1] = v[1] /\ u[2] = v[2] => u = v
  BY <1>1
<1> QED
  BY <1>1, <1>2 DEF Less, Hash

Sorted(V, s) == V \in SUBSET (Nat \X Nat) /\ s \in Seq(V) /\ InOrder(s)

LEMMA SortedIs ==
    ASSUME NEW V, NEW s, Sorted(V, s)
    PROVE  /\ Len(s) \in Nat /\ DOMAIN s = 1..Len(s)
           /\ \A i \in 1..Len(s) : s[i] \in V /\ s[i] \in Nat \X Nat /\ Hash(s[i]) \in Nat
           /\ \A i, j \in 1..Len(s) : i <= j => Hash(s[i]) <= Hash(s[j])
<1>1. /\ Len(s) \in Nat /\ DOMAIN s = 1..Len(s)
      /\ \A i \in 1..Len(s) : s[i] \in V /\ s[i] \in Nat \X Nat
  BY DEF Sorted
<1>2. \A i \in 1..Len(s) : Hash(s[i]) \in Nat
  BY <1>1, LessIs
<1>3. ASSUME NEW i \in 1..Len(s), NEW j \in 1..Len(s), i <= j
      PROVE  Hash(s[i]) <= Hash(s[j])
  <2>1. CASE i = j
    BY <1>2, <2>1
  <2>2. CASE i # j
    <3>1. i < j
      BY <1>1, <1>3, <2>2
    <3>2. Less(s[i], s[j])
      BY <3>1 DEF Sorted, InOrder
    <3> QED
      BY <1>1, <3>2, LessIs
  <2> QED
    BY <2>1, <2>2
<1> QED
  BY <1>1, <1>2, <1>3

(* The place add looks for.                                                *)
PlaceFor(s, v) == FindFirstGe(Len(s), {i \in DOMAIN s : Less(s[i], v)})

LEMMA PlaceForIs ==
    ASSUME NEW V, NEW s, Sorted(V, s), NEW v \in V
    PROVE  LET at == PlaceFor(s, v)
           IN  /\ at \in 1..(Len(s) + 1)
               /\ \A i \in 1..Len(s) : i < at => Less(s[i], v)
               /\ \A i \in 1..Len(s) : ~ (i < at) => s[i] = v \/ Less(v, s[i])
               /\ (at <= Len(s) /\ s[at] = v) <=> v \in Range(s)
<1> DEFINE at == PlaceFor(s, v)
           below == {i \in DOMAIN s : Less(s[i], v)}
<1>0. /\ Len(s) \in Nat /\ DOMAIN s = 1..Len(s) /\ v \in Nat \X Nat
      /\ \A i \in 1..Len(s) : s[i] \in Nat \X Nat
  BY SortedIs DEF Sorted
<1>1. Downward(Len(s), below)
  <2> SUFFICES ASSUME NEW i \in 1..Len(s), Less(s[i], v), NEW j \in 1..i
               PROVE  j \in DOMAIN s /\ Less(s[j], v)
    BY DEF Downward
  <2>1. j \in 1..Len(s) /\ (j = i \/ j < i)
    BY <1>0
  <2>2. j < i => Less(s[j], s[i])
    BY <2>1 DEF Sorted, InOrder
  <2> QED
    BY <1>0, <2>1, <2>2, LessIs
<1>2. IsFirstGe(Len(s), below, at)
  <2> HIDE DEF below
  <2> QED
    BY <1>0, <1>1, FindFirstGeIs DEF below, PlaceFor
<1>3. at \in 1..(Len(s) + 1) /\ \A i \in 1..Len(s) : Less(s[i], v) <=> i < at
  BY <1>0, <1>2 DEF IsFirstGe
<1> HIDE DEF at
<1>4. \A i \in 1..Len(s) : ~ (i < at) => s[i] = v \/ Less(v, s[i])
  BY <1>0, <1>3, LessIs
<1>5. ASSUME v \in Range(s) PROVE at <= Len(s) /\ s[at] = v
  <2>1. PICK i \in 1..Len(s) : s[i] = v
    BY <1>0, <1>5 DEF Range
  <2>2. ~ (i < at)
    BY <1>0, <1>3, <2>1, LessIs
  <2>3. at \in 1..Len(s) /\ at <= i
    BY <1>0, <1>3, <2>2
  <2>4. ~ (at < at)
    BY <2>3
  <2>5. s[at] = v \/ Less(v, s[at])
    BY <1>4, <2>3, <2>4
  <2>6. at < i => Less(s[at], s[i])
    BY <2>3 DEF Sorted, InOrder
  <2>7. ~ (Less(v, s[at]) /\ Less(s[at], v))
    BY <1>0, <2>3, LessIs
  <2> QED
    BY <2>1, <2>3, <2>5, <2>6, <2>7
<1>6. ASSUME at <= Len(s), s[at] = v PROVE v \in Range(s)
  <2>1. at \in DOMAIN s
    BY <1>0, <1>3, <1>6
  <2> QED
    BY <1>6, <2>1 DEF Range
<1> QED
  BY <1>3, <1>4, <1>5, <1>6 DEF at

LEMMA InsertAtRange ==
    ASSUME NEW V, NEW s \in Seq(V), NEW v \in V, NEW at \in 1..(Len(s) + 1)
    PROVE  Range(InsertAt(s, at, v)) = Range(s) \cup {v}
<1> DEFINE w == InsertAt(s, at, v)
<1>1. PICK L \in Nat : L = Len(s) /\ DOMAIN s = 1..L /\ at \in 1..(L + 1)
  OBVIOUS
<1>2. /\ w \in Seq(V) /\ Len(w) = L + 1
      /\ \A i \in 1..(at - 1) : w[i] = s[i]
      /\ w[at] = v
      /\ \A i \in (at + 1)..(L + 1) : w[i] = s[i - 1]
  <2>1. s \in Seq(V) /\ v \in V /\ at \in 1..(Len(s) + 1)
    BY <1>1
  <2>2. /\ w \in Seq(V) /\ Len(w) = Len(s) + 1
        /\ \A i \in 1..(at - 1) : w[i] = s[i]
        /\ w[at] = v
        /\ \A i \in (at + 1)..(Len(s) + 1) : w[i] = s[i - 1]
    <3>1. w \in Seq(V) /\ Len(w) = Len(s) + 1
      BY <2>1, InsertAtIs
    <3>2. \A i \in 1..(at - 1) : w[i] = s[i]
      BY <2>1, InsertAtIs
    <3>3. w[at] = v
      BY <2>1, InsertAtIs
    <3>4. \A i \in (at + 1)..(Len(s) + 1) : w[i] = s[i - 1]
      BY <2>1, InsertAtIs
    <3> QED
      BY <3>1, <3>2, <3>3, <3>4
  <2> QED
    BY <1>1, <2>2
<1> HIDE DEF w
<1>3. DOMAIN w = 1..(L + 1)
  BY <1>2
<1>4. ASSUME NEW x \in Range(w) PROVE x \in Range(s) \cup {v}
  <2>1. PICK i \in 1..(L + 1) : x = w[i]
    BY <1>3 DEF Range
  <2>2. i \in 1..(at - 1) \/ i = at \/ (i \in (at + 1)..(L + 1) /\ i - 1 \in 1..L)
    BY <1>1
  <2>3. i \in 1..(at - 1) => i \in 1..L
    BY <1>1
  <2> QED
    BY <1>1, <1>2, <2>1, <2>2, <2>3 DEF Range
<1>5. ASSUME NEW x \in Range(s) PROVE x \in Range(w)
  <2>1. PICK i \in 1..L : x = s[i]
    BY <1>1 DEF Range
  <2>2. CASE i < at
    <3>1. i \in 1..(at - 1) /\ i \in DOMAIN w
      BY <1>1, <1>3, <2>2
    <3> QED
      BY <1>2, <2>1, <3>1 DEF Range
  <2>3. CASE ~ (i < at)
    <3> DEFINE k == i + 1
    <3>1. k \in (at + 1)..(L + 1) /\ k \in DOMAIN w /\ k - 1 = i
      BY <1>1, <1>3, <2>3
    <3> HIDE DEF k
    <3> QED
      BY <1>2, <2>1, <3>1 DEF Range
  <2> QED
    BY <2>2, <2>3
<1>6. v \in Range(w)
  <2>1. at \in DOMAIN w
    BY <1>1, <1>3
  <2> QED
    BY <1>2, <2>1 DEF Range
<1> QED
  BY <1>4, <1>5, <1>6 DEF w

(* With the new value at its place the order is kept.                      *)
LEMMA InsertAtInOrder ==
    ASSUME NEW V, NEW s, Sorted(V, s), NEW v \in V, v \notin Range(s)
    PROVE  Sorted(V, InsertAt(s, PlaceFor(s, v), v))
<1> DEFINE at == PlaceFor(s, v)
           w == InsertAt(s, at, v)
<1>0. /\ s \in Seq(V) /\ v \in Nat \X Nat /\ V \in SUBSET (Nat \X Nat)
      /\ \A i \in 1..Len(s) : s[i] \in Nat \X Nat
      /\ \A i, j \in 1..Len(s) : i < j => Less(s[i], s[j])
  BY SortedIs DEF Sorted, InOrder
<1>1. PICK L \in Nat : L = Len(s) /\ DOMAIN s = 1..L
  BY <1>0
<1>2. /\ at \in 1..(L + 1)
      /\ \A i \in 1..L : i < at => Less(s[i], v)
      /\ \A i \in 1..L : ~ (i < at) => Less(v, s[i])
  <2>1. \A i \in 1..L : s[i] # v
    BY <1>1 DEF Range
  <2> QED
    BY <1>1, <2>1, PlaceForIs
<1> HIDE DEF at
<1>3. /\ w \in Seq(V) /\ Len(w) = L + 1
      /\ \A i \in 1..(at - 1) : w[i] = s[i]
      /\ w[at] = v
      /\ \A i \in (at + 1)..(L + 1) : w[i] = s[i - 1]
  <2>1. s \in Seq(V) /\ v \in V /\ at \in 1..(Len(s) + 1)
    BY <1>0, <1>1, <1>2
  <2>2. /\ w \in Seq(V) /\ Len(w) = Len(s) + 1
        /\ \A i \in 1..(at - 1) : w[i] = s[i]
        /\ w[at] = v
        /\ \A i \in (at + 1)..(Len(s) + 1) : w[i] = s[i - 1]
    BY <2>1, InsertAtIs
  <2> QED
    BY <1>1, <2>2
<1> HIDE DEF w
<1>4. ASSUME NEW i \in 1..(L + 1), NEW j \in 1..(L + 1), i < j PROVE Less(w[i], w[j])
  <2>1. CASE j < at
    <3>1. i \in 1..(at - 1) /\ j \in 1..(at - 1) /\ i \in 1..L /\ j \in 1..L
      BY <1>2, <1>4, <2>1
    <3> QED
      BY <1>0, <1>1, <1>3, <1>4, <3>1
  <2>2. CASE j = at
    <3>1. i \in 1..(at - 1) /\ i \in 1..L /\ i < at
      BY <1>2, <1>4, <2>2
    <3> QED
      BY <1>2, <1>3, <2>2, <3>1
  <2>3. CASE at < j
    <3> DEFINE k == j - 1
    <3>1. j \in (at + 1)..(L + 1) /\ k \in 1..L /\ ~ (k < at)
      BY <1>2, <2>3
    <3>2. w[j] = s[k]
      BY <1>3, <3>1
    <3>3. CASE i < at
      <4>1. i \in 1..(at - 1) /\ i \in 1..L /\ i < k
        BY <1>2, <2>3, <3>3
      <4> HIDE DEF k
      <4> QED
        BY <1>0, <1>1, <1>3, <3>1, <3>2, <4>1
    <3>4. CASE i = at
      <4> HIDE DEF k
      <4> QED
        BY <1>2, <1>3, <3>1, <3>2, <3>4
    <3>5. CASE at < i
      <4> DEFINE h == i - 1
      <4>1. i \in (at + 1)..(L + 1) /\ h \in 1..L /\ h < k
        BY <1>2, <1>4, <3>5
      <4>2. w[i] = s[h]
        BY <1>3, <4>1
      <4> HIDE DEF k, h
      <4> QED
        BY <1>0, <1>1, <3>1, <3>2, <4>1, <4>2
    <3> QED
      BY <1>2, <3>3, <3>4, <3>5
  <2> QED
    BY <1>2, <2>1, <2>2, <2>3
<1> QED
  BY <1>0, <1>3, <1>4 DEF Sorted, InOrder, w, at

(* A part in a row is in order.                                            *)
LEMMA PartInOrder ==
    ASSUME NEW V, NEW s, Sorted(V, s), NEW a \in 1..Len(s)
    PROVE  LET u == SubSeq(s, 1, a)
               w == SubSeq(s, a + 1, Len(s))
           IN  /\ Sorted(V, u) /\ Sorted(V, w) /\ Range(s) = Range(u) \cup Range(w)
               /\ \A x \in Range(u) : \A y \in Range(w) : Less(x, y)
<1> DEFINE u == SubSeq(s, 1, a)
           w == SubSeq(s, a + 1, Len(s))
<1>0. /\ s \in Seq(V) /\ Len(s) \in Nat /\ V \in SUBSET (Nat \X Nat) /\ DOMAIN s = 1..Len(s)
      /\ \A i, j \in 1..Len(s) : i < j => Less(s[i], s[j])
  BY SortedIs DEF Sorted, InOrder
<1>1. PICK L \in Nat : L = Len(s) /\ a \in 1..L
  BY <1>0
<1>2. u \in Seq(V) /\ Len(u) = a /\ \A i \in 1..a : u[i] = s[i]
  <2>1. a \in Nat /\ a <= Len(s)
    BY <1>0
  <2> QED
    BY <1>0, <2>1, CutOffIs
<1>3. w \in Seq(V) /\ Len(w) = L - a /\ \A i \in 1..(L - a) : w[i] = s[a + i]
  <2>1. a \in Nat /\ a <= Len(s)
    BY <1>0
  <2> QED
    BY <1>0, <1>1, <2>1, SubSeqIs
<1> HIDE DEF u, w
<1>4. DOMAIN u = 1..a /\ DOMAIN w = 1..(L - a)
  BY <1>2, <1>3
<1>5. Sorted(V, u)
  <2>1. \A i \in 1..a : i \in 1..L
    BY <1>1
  <2> QED
    BY <1>0, <1>1, <1>2, <2>1 DEF Sorted, InOrder
<1>6. Sorted(V, w)
  <2>1. ASSUME NEW i \in 1..(L - a), NEW j \in 1..(L - a), i < j PROVE Less(w[i], w[j])
    <3> DEFINE h == a + i
               k == a + j
    <3>1. h \in 1..L /\ k \in 1..L /\ h < k
      BY <1>1, <2>1
    <3>2. w[i] = s[h] /\ w[j] = s[k]
      BY <1>3
    <3> HIDE DEF h, k
    <3> QED
      BY <1>0, <1>1, <3>1, <3>2
  <2> QED
    BY <1>0, <1>3, <2>1 DEF Sorted, InOrder
<1>7. ASSUME NEW x \in Range(u), NEW y \in Range(w) PROVE Less(x, y)
  <2>1. PICK i \in 1..a : x = u[i]
    BY <1>4 DEF Range
  <2>2. PICK j \in 1..(L - a) : y = w[j]
    BY <1>4 DEF Range
  <2> DEFINE k == a + j
  <2>3. i \in 1..L /\ k \in 1..L /\ i < k
    BY <1>1
  <2>4. x = s[i] /\ y = s[k]
    BY <1>2, <1>3, <2>1, <2>2
  <2> HIDE DEF k
  <2> QED
    BY <1>0, <1>1, <2>3, <2>4
<1>8. ASSUME NEW x \in Range(s) PROVE x \in Range(u) \cup Range(w)
  <2>1. PICK i \in 1..L : x = s[i]
    BY <1>0, <1>1 DEF Range
  <2>2. CASE i <= a
    <3>1. i \in 1..a
      BY <2>2
    <3> QED
      BY <1>2, <1>4, <2>1, <3>1 DEF Range
  <2>3. CASE ~ (i <= a)
    <3> DEFINE k == i - a
    <3>1. k \in 1..(L - a) /\ a + k = i
      BY <1>1, <2>3
    <3> HIDE DEF k
    <3> QED
      BY <1>3, <1>4, <2>1, <3>1 DEF Range
  <2> QED
    BY <2>2, <2>3
<1>9. ASSUME NEW x \in Range(u) PROVE x \in Range(s)
  <2>1. PICK i \in 1..a : x = u[i]
    BY <1>4, <1>9 DEF Range
  <2>2. i \in DOMAIN s
    BY <1>0, <1>1
  <2> QED
    BY <1>2, <2>1, <2>2 DEF Range
<1>10. ASSUME NEW x \in Range(w) PROVE x \in Range(s)
  <2>1. PICK i \in 1..(L - a) : x = w[i]
    BY <1>4, <1>10 DEF Range
  <2>2. a + i \in DOMAIN s
    BY <1>0, <1>1
  <2> QED
    BY <1>3, <2>1, <2>2 DEF Range
<1> QED
  BY <1>5, <1>6, <1>7, <1>8, <1>9, <1>10 DEF u, w

(* What find answers.                                                      *)
LEMMA FindInChainIs ==
    ASSUME NEW V, NEW s, Sorted(V, s), NEW v \in V
    PROVE  FindInChain(s, v) <=> v \in Range(s)
<1> DEFINE below == {i \in DOMAIN s : Hash(s[i]) < Hash(v)}
           at == FindFirstGe(Len(s), below)
<1>0. /\ Len(s) \in Nat /\ DOMAIN s = 1..Len(s) /\ Hash(v) \in Nat
      /\ \A i \in 1..Len(s) : Hash(s[i]) \in Nat
      /\ \A i, j \in 1..Len(s) : i <= j => Hash(s[i]) <= Hash(s[j])
  <2>1. v \in Nat \X Nat
    BY DEF Sorted
  <2> QED
    BY <2>1, SortedIs, LessIs
<1>1. Downward(Len(s), below)
  <2> SUFFICES ASSUME NEW i \in 1..Len(s), Hash(s[i]) < Hash(v), NEW j \in 1..i
               PROVE  j \in DOMAIN s /\ Hash(s[j]) < Hash(v)
    BY DEF Downward
  <2>1. j \in 1..Len(s) /\ j <= i
    BY <1>0
  <2> QED
    BY <1>0, <2>1
<1>2. IsFirstGe(Len(s), below, at)
  <2> HIDE DEF below
  <2> QED
    BY <1>0, <1>1, FindFirstGeIs
<1>3. at \in 1..(Len(s) + 1) /\ \A i \in 1..Len(s) : Hash(s[i]) < Hash(v) <=> i < at
  BY <1>0, <1>2 DEF IsFirstGe
<1>4. FindInChain(s, v) <=>
         \E i \in at..Len(s) : s[i] = v /\ \A j \in at..i : Hash(s[j]) = Hash(v)
  BY DEF FindInChain
<1> HIDE DEF at, below
<1>5. ASSUME NEW i \in at..Len(s), s[i] = v PROVE v \in Range(s)
  <2>1. i \in DOMAIN s
    BY <1>0, <1>3
  <2> QED
    BY <1>5, <2>1 DEF Range
<1>6. ASSUME NEW i \in 1..Len(s), s[i] = v
      PROVE  i \in at..Len(s) /\ \A j \in at..i : Hash(s[j]) = Hash(v)
  <2>1. ~ (i < at)
    BY <1>0, <1>3, <1>6
  <2>2. i \in at..Len(s)
    BY <1>0, <1>3, <2>1
  <2>3. ASSUME NEW j \in at..i PROVE Hash(s[j]) = Hash(v)
    <3>1. j \in 1..Len(s) /\ ~ (j < at) /\ j <= i
      BY <1>0, <1>3
    <3> QED
      BY <1>0, <1>3, <1>6, <3>1
  <2> QED
    BY <2>2, <2>3
<1>7. v \in Range(s) => \E i \in 1..Len(s) : s[i] = v
  BY <1>0 DEF Range
<1> QED
  BY <1>4, <1>5, <1>6, <1>7

-----------------------------------------------------------------------------
(* A chain and what it holds. *)

Blocks == [prev : Nat, next : Nat, items : Seq(Values)]

ChainInfos == [first : Nat, last : Nat, count : Nat]

Linked(bs, info, ids) ==
    LET n == Len(ids)
    IN  /\ n \in Nat \ {0} /\ ids \in Seq(1..Len(bs)) /\ NoRepeats(ids)
        /\ info = ChainInfo(ids[1], ids[n], n)
        /\ \A i \in 1..n :
              /\ bs[ids[i]].prev = IF i = 1 THEN ids[1] ELSE ids[i - 1]
              /\ bs[ids[i]].next = IF i = n THEN ids[n] ELSE ids[i + 1]

LEMMA LinkedBy ==
    ASSUME NEW bs, NEW ids, NEW info, Len(ids) \in Nat \ {0}, ids \in Seq(1..Len(bs)),
           NoRepeats(ids), info = ChainInfo(ids[1], ids[Len(ids)], Len(ids)),
           \A i \in 1..Len(ids) :
              /\ bs[ids[i]].prev = IF i = 1 THEN ids[1] ELSE ids[i - 1]
              /\ bs[ids[i]].next = IF i = Len(ids) THEN ids[Len(ids)] ELSE ids[i + 1]
    PROVE  Linked(bs, info, ids)
  BY DEF Linked

RowsOf(bs, ids) == [i \in 1..Len(ids) |-> bs[ids[i]].items]

(* The chain of the blocks ids, with the limits info, holds s.             *)
ChainHolds(bs, info, ids, m, s) ==
    /\ Linked(bs, info, ids)
    /\ Rows(Values, RowsOf(bs, ids), Len(ids), m, s)
    /\ Len(ids) > 1 => bs[ids[Len(ids)]].items # << >>

LEMMA Neighbours ==
    ASSUME NEW n \in Nat, NEW i \in 1..n
    PROVE  /\ i # n => i \in 1..(n - 1) /\ i + 1 \in 1..n
           /\ i # 1 => i - 1 \in 1..n
  OBVIOUS

LEMMA LinkedIs ==
    ASSUME NEW bs \in Seq(Blocks), NEW info, NEW ids, Linked(bs, info, ids)
    PROVE  /\ Len(ids) \in Nat \ {0} /\ Len(ids) \in 1..Len(ids) /\ 1 \in 1..Len(ids)
           /\ DOMAIN ids = 1..Len(ids) /\ DOMAIN bs = 1..Len(bs) /\ Len(bs) \in Nat
           /\ \A i \in 1..Len(ids) : ids[i] \in 1..Len(bs) /\ bs[ids[i]] \in Blocks
           /\ \A i, j \in 1..Len(ids) : ids[i] = ids[j] => i = j
           /\ info = ChainInfo(ids[1], ids[Len(ids)], Len(ids)) /\ info \in ChainInfos
           /\ Range(ids) \subseteq 1..Len(bs)
           /\ \A b : b \in Range(ids) <=> \E i \in 1..Len(ids) : ids[i] = b
<1>1. /\ Len(ids) \in Nat \ {0} /\ ids \in Seq(1..Len(bs)) /\ NoRepeats(ids)
      /\ info = ChainInfo(ids[1], ids[Len(ids)], Len(ids))
  BY DEF Linked
<1>2. /\ Len(ids) \in 1..Len(ids) /\ 1 \in 1..Len(ids) /\ DOMAIN ids = 1..Len(ids)
      /\ DOMAIN bs = 1..Len(bs) /\ Len(bs) \in Nat
      /\ \A i \in 1..Len(ids) : ids[i] \in 1..Len(bs)
  BY <1>1
<1>3. \A b \in 1..Len(bs) : bs[b] \in Blocks
  OBVIOUS
<1>4. info \in ChainInfos
  BY <1>1, <1>2 DEF ChainInfo, ChainInfos
<1> QED
  BY <1>1, <1>2, <1>3, <1>4 DEF NoRepeats, Range

(* What the chain holds is what its elements are.                          *)
LEMMA HeldIs ==
    ASSUME NEW bs \in Seq(Blocks), NEW info, NEW ids, NEW m, NEW s, ChainHolds(bs, info, ids, m, s)
    PROVE  /\ IsChain(bs, info, ids, m) /\ ChainIds(bs, info.first) = ids
           /\ Elements([i \in DOMAIN ids |-> bs[ids[i]]]) = s
<1> DEFINE n == Len(ids)
           it == RowsOf(bs, ids)
           line == [i \in DOMAIN ids |-> bs[ids[i]]]
<1>0. Linked(bs, info, ids) /\ Rows(Values, it, n, m, s)
  BY DEF ChainHolds
<1>1. /\ n \in Nat \ {0} /\ n \in 1..n /\ DOMAIN ids = 1..n /\ DOMAIN bs = 1..Len(bs)
      /\ \A i \in 1..n : ids[i] \in 1..Len(bs) /\ bs[ids[i]] \in Blocks
  BY <1>0, LinkedIs
<1>2. /\ \A i \in 1..n : it[i] = bs[ids[i]].items
      /\ \A i \in 1..(n - 1) : Len(it[i]) = m
      /\ m \in Nat \ {0}
  BY <1>0, RowsAre DEF RowsOf
<1>3. ASSUME NEW i \in 1..n PROVE (i < n => Len(bs[ids[i]].items) = m) /\ (n > 1 => bs[ids[i]].items # << >>)
  <2>1. CASE i = n
    BY <2>1 DEF ChainHolds
  <2>2. CASE i # n
    <3>1. i \in 1..(n - 1)
      <4>1. n \in Nat
        BY <1>1
      <4> QED
        BY <2>2, <4>1, Neighbours
    <3>2. Len(bs[ids[i]].items) = m
      BY <1>2, <3>1
    <3>3. Len(<< >>) = 0
      OBVIOUS
    <3> QED
      BY <1>2, <3>2, <3>3
  <2> QED
    BY <2>1, <2>2
<1>4. IsChain(bs, info, ids, m)
  <2>1. ids \in Seq(DOMAIN bs) /\ n > 0 /\ NoRepeats(ids)
    <3>1. ids \in Seq(1..Len(bs)) /\ NoRepeats(ids)
      BY <1>0 DEF Linked
    <3>2. DOMAIN bs = 1..Len(bs)
      BY <1>1
    <3>3. n > 0
      BY <1>1
    <3> QED
      BY <3>1, <3>2, <3>3
  <2> QED
    BY <1>0, <1>3, <2>1 DEF Linked, IsChain
<1>5. ChainIds(bs, info.first) = ids
  BY <1>4, ChainIsWay
<1>6. Elements(line) = s
  <2>1. line = [i \in 1..n |-> line[i]] /\ \A i \in 1..n : line[i] \in Blocks /\ line[i] = bs[ids[i]]
    BY <1>1
  <2>2. Len(line) = n
    <3> HIDE DEF line
    <3> QED
      BY <1>1, <2>1, IsSequence
  <2>3. \A i \in 1..n : line[i].items = it[i]
    BY <1>2, <2>1
  <2> HIDE DEF line, it
  <2> QED
    BY <1>0, <2>2, <2>3, RowsAreElements
<1> QED
  BY <1>4, <1>5, <1>6

(* A chain that may have an empty last block, with room in it.             *)
HasRoom(bs, info, ids, m, s) ==
    /\ Linked(bs, info, ids)
    /\ Rows(Values, RowsOf(bs, ids), Len(ids), m, s)
    /\ Len(bs[ids[Len(ids)]].items) < m

(* Beside the blocks ids2 of the one there are in bs2 those of bs beside   *)
(* the blocks ids of the other.                                            *)
Beside(bs2, ids2, bs, ids) ==
    /\ bs2 \in Seq(Blocks) /\ Len(bs) <= Len(bs2)
    /\ \A b \in 1..Len(bs) : b \notin Range(ids) => bs2[b] = bs[b]
    /\ Range(ids2) = Range(ids) \cup ((Len(bs) + 1)..Len(bs2))

LEMMA AppendedIs ==
    ASSUME NEW bs \in Seq(Blocks), NEW info, NEW ids, NEW m, NEW s, ChainHolds(bs, info, ids, m, s),
           Len(bs[ids[Len(ids)]].items) = m,
           NEW g, g = AppendNewBlock([blocks |-> bs, info |-> info, ids |-> ids])
    PROVE  /\ HasRoom(g.blocks, g.info, g.ids, m, s) /\ Beside(g.blocks, g.ids, bs, ids)
           /\ g = [blocks |-> g.blocks, info |-> g.info, ids |-> g.ids]
<1> DEFINE n == Len(ids)
           N == Len(bs)
           id == N + 1
           old == ids[n]
           kept == [bs EXCEPT ![old].next = id]
           made == [prev |-> old, next |-> id, items |-> << >>]
<1>0. Linked(bs, info, ids) /\ Rows(Values, RowsOf(bs, ids), n, m, s)
  BY DEF ChainHolds
<1>1. /\ n \in Nat \ {0} /\ n \in 1..n /\ 1 \in 1..n /\ DOMAIN ids = 1..n
      /\ DOMAIN bs = 1..N /\ N \in Nat
      /\ \A i \in 1..n : ids[i] \in 1..N /\ bs[ids[i]] \in Blocks
      /\ \A i, j \in 1..n : ids[i] = ids[j] => i = j
      /\ info = ChainInfo(ids[1], ids[n], n)
  BY <1>0, LinkedIs
<1>2. /\ kept \in Seq(Blocks) /\ Len(kept) = N
      /\ \A b \in 1..N : kept[b] = IF b = old THEN [bs[b] EXCEPT !.next = id] ELSE bs[b]
  <2>1. kept = [b \in 1..N |-> IF b = old THEN [bs[b] EXCEPT !.next = id] ELSE bs[b]]
    BY <1>1
  <2>2. \A b \in 1..N : (IF b = old THEN [bs[b] EXCEPT !.next = id] ELSE bs[b]) \in Blocks
    <3>1. \A b \in 1..N : bs[b] \in Blocks
      OBVIOUS
    <3>2. id \in Nat
      BY <1>1
    <3> HIDE DEF id
    <3>3. \A b \in 1..N : [bs[b] EXCEPT !.next = id] \in Blocks
      BY <3>1, <3>2 DEF Blocks
    <3> QED
      BY <3>1, <3>3
  <2>3. \A b \in 1..N : kept[b] \in Blocks
    BY <2>1, <2>2
  <2>4. kept = [b \in 1..N |-> kept[b]]
    BY <2>1
  <2> HIDE DEF kept
  <2>5. kept \in Seq(Blocks) /\ Len(kept) = N
    BY <1>1, <2>3, <2>4, IsSequence
  <2> QED
    BY <2>1, <2>5
<1>3. made \in Blocks /\ made = [EmptyBlock(id) EXCEPT !.prev = old]
  BY <1>1 DEF Blocks, EmptyBlock
<1>4. info.last = old /\ info.first = ids[1] /\ info.count = n
  BY <1>1 DEF ChainInfo
<1>5. g = [blocks |-> Append(kept, made), info |-> ChainInfo(ids[1], id, n + 1), ids |-> Append(ids, id)]
  BY <1>3, <1>4 DEF AppendNewBlock
<1> DEFINE B == Append(kept, made)
           I == Append(ids, id)
<1> HIDE DEF kept, made
<1>6. /\ B \in Seq(Blocks) /\ Len(B) = N + 1 /\ B[id] = made
      /\ \A b \in 1..N : B[b] = kept[b]
  BY <1>1, <1>2, <1>3
<1>7. /\ I \in Seq(1..(N + 1)) /\ Len(I) = n + 1 /\ I[n + 1] = id
      /\ \A i \in 1..n : I[i] = ids[i]
  <2>1. ids \in Seq(1..(N + 1))
    <3>1. ids = [i \in 1..n |-> ids[i]]
      <4>1. ids \in Seq(1..N)
        BY <1>0 DEF Linked
      <4> QED
        BY <4>1
    <3>2. \A i \in 1..n : ids[i] \in 1..(N + 1)
      BY <1>1
    <3> QED
      BY <1>1, <3>1, <3>2, IsSequence
  <2>2. id \in 1..(N + 1)
    BY <1>1
  <2> HIDE DEF id
  <2> QED
    BY <2>1, <2>2
<1> HIDE DEF B, I
<1>8. /\ \A i \in 1..(n + 1) : i = n + 1 \/ (i \in 1..n /\ i # n + 1)
      /\ \A i \in 1..n : i \in 1..(n + 1) /\ i # n + 1
      /\ n + 1 \in 1..(n + 1) /\ n + 1 \in Nat \ {0} /\ 1 \in 1..(n + 1)
      /\ \A b \in 1..N : b # id /\ b \in 1..(N + 1)
      /\ id \in 1..(N + 1)
  BY <1>1
<1>9. NoRepeats(I)
  <2>1. DOMAIN I = 1..(n + 1)
    BY <1>7
  <2>2. ASSUME NEW i \in 1..(n + 1), NEW j \in 1..(n + 1), I[i] = I[j] PROVE i = j
    BY <1>1, <1>7, <1>8, <2>2
  <2> QED
    BY <2>1, <2>2 DEF NoRepeats
<1>10. ASSUME NEW i \in 1..(n + 1)
       PROVE  /\ B[I[i]].prev = IF i = 1 THEN I[1] ELSE I[i - 1]
              /\ B[I[i]].next = IF i = n + 1 THEN I[n + 1] ELSE I[i + 1]
  <2>1. CASE i = n + 1
    <3>1. B[I[i]] = made /\ i # 1 /\ i - 1 = n
      BY <1>1, <1>6, <1>7, <2>1
    <3>2. made.prev = old /\ made.next = id
      BY DEF made
    <3>3. I[n] = old
      BY <1>1, <1>7
    <3> QED
      BY <1>7, <2>1, <3>1, <3>2, <3>3
  <2>2. CASE i # n + 1
    <3>1. i \in 1..n /\ I[i] = ids[i] /\ ids[i] \in 1..N
      BY <1>1, <1>7, <1>8, <2>2
    <3>2. B[I[i]] = IF ids[i] = old THEN [bs[ids[i]] EXCEPT !.next = id] ELSE bs[ids[i]]
      BY <1>2, <1>6, <3>1
    <3>3. ids[i] = old <=> i = n
      BY <1>1, <3>1
    <3>4. bs[ids[i]] \in Blocks
      BY <1>1, <3>1
    <3>5. B[I[i]].prev = bs[ids[i]].prev /\ B[I[i]].next = IF i = n THEN id ELSE bs[ids[i]].next
      BY <3>2, <3>3, <3>4 DEF Blocks
    <3>6. /\ bs[ids[i]].prev = IF i = 1 THEN ids[1] ELSE ids[i - 1]
          /\ bs[ids[i]].next = IF i = n THEN ids[n] ELSE ids[i + 1]
      BY <1>0, <3>1 DEF Linked
    <3>7. I[1] = ids[1] /\ (i # 1 => I[i - 1] = ids[i - 1]) /\ (i # n => I[i + 1] = ids[i + 1])
      <4>1. (i # 1 => i - 1 \in 1..n) /\ (i # n => i + 1 \in 1..n)
        <5>1. n \in Nat /\ i \in 1..n
          BY <1>1, <3>1
        <5> QED
          BY <5>1, Neighbours
      <4> QED
        BY <1>1, <1>7, <4>1
    <3>8. i = n => I[i + 1] = id
      BY <1>7
    <3> QED
      BY <2>2, <3>5, <3>6, <3>7, <3>8
  <2> QED
    BY <2>1, <2>2
<1>11. Linked(B, ChainInfo(ids[1], id, n + 1), I)
  <2>1. I[1] = ids[1]
    BY <1>1, <1>7
  <2> QED
    BY <1>6, <1>7, <1>8, <1>9, <1>10, <2>1 DEF Linked
<1>12. RowsOf(B, I) = [i \in 1..(n + 1) |-> IF i = n + 1 THEN << >> ELSE RowsOf(bs, ids)[i]]
  <2>1. ASSUME NEW i \in 1..(n + 1) PROVE B[I[i]].items = IF i = n + 1 THEN << >> ELSE RowsOf(bs, ids)[i]
    <3>1. CASE i = n + 1
      BY <1>6, <1>7, <3>1 DEF made
    <3>2. CASE i # n + 1
      <4>1. i \in 1..n /\ I[i] = ids[i] /\ ids[i] \in 1..N /\ bs[ids[i]] \in Blocks
        BY <1>1, <1>7, <1>8, <3>2
      <4>2. B[I[i]] = IF ids[i] = old THEN [bs[ids[i]] EXCEPT !.next = id] ELSE bs[ids[i]]
        BY <1>2, <1>6, <4>1
      <4>3. B[I[i]].items = bs[ids[i]].items
        BY <4>1, <4>2 DEF Blocks
      <4> QED
        BY <3>2, <4>1, <4>3 DEF RowsOf
    <3> QED
      BY <3>1, <3>2
  <2> QED
    BY <1>7, <2>1 DEF RowsOf
<1>13. Rows(Values, RowsOf(B, I), n + 1, m, s)
  <2>1. Len(RowsOf(bs, ids)[n]) = m
    BY <1>1 DEF RowsOf
  <2> QED
    BY <1>0, <1>12, <2>1, MoreRows
<1>14. Len(B[I[n + 1]].items) < m
  <2>1. B[I[n + 1]].items = << >>
    BY <1>6, <1>7 DEF made
  <2>2. m \in Nat \ {0}
    BY <1>0, RowsAre
  <2> QED
    BY <2>1, <2>2
<1>15. HasRoom(B, ChainInfo(ids[1], id, n + 1), I, m, s)
  BY <1>7, <1>11, <1>13, <1>14 DEF HasRoom
<1>16. Range(I) = Range(ids) \cup ((N + 1)..Len(B))
  <2>1. Range(I) = Range(ids) \cup {id}
    <3>1. ids \in Seq(Nat) /\ id \in Nat
      <4>1. ids \in Seq(1..N)
        BY <1>0 DEF Linked
      <4>2. 1..N \subseteq Nat
        OBVIOUS
      <4> QED
        BY <1>1, <4>1, <4>2
    <3> QED
      BY <3>1, RangeOfAppend DEF I
  <2>2. (N + 1)..Len(B) = {id}
    BY <1>1, <1>6
  <2> QED
    BY <2>1, <2>2
<1>17. ASSUME NEW b \in 1..N, b \notin Range(ids) PROVE B[b] = bs[b]
  <2>1. b # old
    BY <1>1, <1>17 DEF Range
  <2> QED
    BY <1>2, <1>6, <2>1
<1>18. Beside(B, I, bs, ids)
  BY <1>1, <1>6, <1>16, <1>17 DEF Beside
<1>19. g = [blocks |-> B, info |-> ChainInfo(ids[1], id, n + 1), ids |-> I]
  BY <1>5 DEF B, I
<1> QED
  BY <1>15, <1>18, <1>19

-----------------------------------------------------------------------------
(* A value inserted into a chain. *)

LEMMA BesideTwice ==
    ASSUME NEW bs \in Seq(Blocks), NEW ids, NEW bs1, NEW ids1, NEW bs2, NEW ids2,
           Beside(bs1, ids1, bs, ids), Beside(bs2, ids2, bs1, ids1)
    PROVE  Beside(bs2, ids2, bs, ids)
<1>1. PICK N, N1, N2 \in Nat :
         /\ N = Len(bs) /\ N1 = Len(bs1) /\ N2 = Len(bs2) /\ N <= N1 /\ N1 <= N2
         /\ bs2 \in Seq(Blocks)
         /\ Range(ids1) = Range(ids) \cup ((N + 1)..N1)
         /\ Range(ids2) = Range(ids1) \cup ((N1 + 1)..N2)
  <2>1. bs1 \in Seq(Blocks) /\ bs2 \in Seq(Blocks)
    BY DEF Beside
  <2>2. Len(bs) \in Nat /\ Len(bs1) \in Nat /\ Len(bs2) \in Nat
    BY <2>1
  <2>3. /\ Len(bs) <= Len(bs1) /\ Len(bs1) <= Len(bs2)
        /\ Range(ids1) = Range(ids) \cup ((Len(bs) + 1)..Len(bs1))
        /\ Range(ids2) = Range(ids1) \cup ((Len(bs1) + 1)..Len(bs2))
    BY DEF Beside
  <2> QED
    BY <2>1, <2>2, <2>3
<1>2. Range(ids2) = Range(ids) \cup ((N + 1)..N2)
  <2>1. (N + 1)..N2 = ((N + 1)..N1) \cup ((N1 + 1)..N2)
    BY <1>1
  <2> QED
    BY <1>1, <2>1
<1>3. ASSUME NEW b \in 1..N, b \notin Range(ids) PROVE bs2[b] = bs[b]
  <2>1. b \in 1..N1 /\ b \notin (N + 1)..N1
    BY <1>1
  <2>2. b \notin Range(ids1)
    BY <1>1, <1>3, <2>1
  <2>3. bs1[b] = bs[b]
    BY <1>1, <1>3 DEF Beside
  <2>4. bs2[b] = bs1[b]
    BY <1>1, <2>1, <2>2 DEF Beside
  <2> QED
    BY <2>3, <2>4
<1>4. N <= N2
  BY <1>1
<1> QED
  BY <1>1, <1>2, <1>3, <1>4 DEF Beside

LEMMA PlacedIs ==
    ASSUME NEW bs \in Seq(Blocks), NEW info, NEW ids, NEW s, HasRoom(bs, info, ids, maxItems, s),
           NEW at \in 1..(Len(s) + 1), NEW v \in Values,
           NEW d, d = [blocks |-> bs, info |-> info, ids |-> ids],
           NEW c, c = InsertAtPlace(d, at, v)
    PROVE  /\ ChainHolds(c.blocks, c.info, c.ids, maxItems, InsertAt(s, at, v))
           /\ Beside(c.blocks, c.ids, bs, ids)
           /\ c = [blocks |-> c.blocks, info |-> info, ids |-> ids]
<1> DEFINE n == Len(d.ids)
           N == Len(d.blocks)
           m == maxItems
           it == RowsOf(bs, ids)
           blk == ((at - 1) \div m) + 1
           pos == ((at - 1) % m) + 1
           old(i) == d.blocks[d.ids[i]].items
           Fit(i, q) == IF i < n THEN SubSeq(q, 1, m) ELSE q
           new(i) == CASE i < blk -> old(i)
                       [] i = blk -> Fit(i, InsertAt(old(i), pos, v))
                       [] i > blk -> Fit(i, <<old(i - 1)[m]>> \o old(i))
           made == [i \in 1..n |-> NewRow(it, n, m, at, v, i)]
           B == [b \in 1..N |-> IF \E i \in 1..n : d.ids[i] = b
                                THEN [d.blocks[b] EXCEPT !.items = new(CHOOSE i \in 1..n : d.ids[i] = b)]
                                ELSE d.blocks[b]]
<1>a. d.blocks = bs /\ d.info = info /\ d.ids = ids
  OBVIOUS
<1>b. n = Len(ids) /\ N = Len(bs) /\ \A i : old(i) = bs[ids[i]].items
  BY <1>a
<1>c. c = [d EXCEPT !.blocks = B]
  BY DEF InsertAtPlace
<1>d. B = [b \in 1..N |-> IF \E i \in 1..n : ids[i] = b
                           THEN [bs[b] EXCEPT !.items = new(CHOOSE i \in 1..n : ids[i] = b)]
                           ELSE bs[b]]
  <2> HIDE DEF new, n, N
  <2> QED
    BY <1>a
<1> HIDE DEF old
<1>0. Linked(bs, info, ids) /\ Rows(Values, it, n, m, s) /\ Len(it[n]) < m
  <2>1. Linked(bs, info, ids) /\ Rows(Values, it, Len(ids), m, s)
        /\ Len(bs[ids[Len(ids)]].items) < m
    BY DEF HasRoom
  <2>2. Len(ids) \in 1..Len(ids)
    BY <2>1, LinkedIs
  <2> HIDE DEF n, m
  <2> QED
    BY <1>b, <2>1, <2>2 DEF RowsOf
<1>1. /\ n \in Nat \ {0} /\ n \in 1..n /\ m \in Nat \ {0} /\ DOMAIN bs = 1..N /\ N \in Nat
      /\ \A i \in 1..n : ids[i] \in 1..N /\ bs[ids[i]] \in Blocks
      /\ \A i, j \in 1..n : ids[i] = ids[j] => i = j
      /\ \A b : b \in Range(ids) <=> \E i \in 1..n : ids[i] = b
      /\ Range(ids) \subseteq 1..N
  <2>1. m \in Nat \ {0}
    <3> HIDE DEF n, N, m, it
    <3> QED
      BY <1>0, RowsAre
  <2>2. /\ Len(ids) \in Nat \ {0} /\ Len(ids) \in 1..Len(ids)
        /\ DOMAIN bs = 1..Len(bs) /\ Len(bs) \in Nat
        /\ \A i \in 1..Len(ids) : ids[i] \in 1..Len(bs) /\ bs[ids[i]] \in Blocks
        /\ \A i, j \in 1..Len(ids) : ids[i] = ids[j] => i = j
        /\ \A b : b \in Range(ids) <=> \E i \in 1..Len(ids) : ids[i] = b
        /\ Range(ids) \subseteq 1..Len(bs)
    BY <1>0, LinkedIs
  <2> HIDE DEF n, N, m
  <2> QED
    BY <1>b, <2>1, <2>2
<1>2. c = [blocks |-> B, info |-> info, ids |-> ids]
  <2> HIDE DEF B
  <2> QED
    BY <1>a, <1>c
<1> HIDE DEF n, N
<1>3. at \in Nat \ {0}
  OBVIOUS
<1>4. blk \in Nat \ {0}
  <2> HIDE DEF m
  <2>1. at - 1 \in Nat
    BY <1>3
  <2> DEFINE a == at - 1
  <2> HIDE DEF a
  <2>2. a \div m \in Nat
    BY <1>1, <2>1, Division DEF a
  <2> QED
    BY <2>2 DEF a
<1> HIDE DEF blk, pos
<1>5. ASSUME NEW i \in 1..n PROVE new(i) = made[i]
  <2>0. blk = ((at - 1) \div m) + 1 /\ pos = ((at - 1) % m) + 1
    BY DEF blk, pos
  <2>1. old(i) = it[i]
    BY <1>b DEF RowsOf
  <2>2. made[i] = CASE i < blk -> it[i]
                    [] i = blk -> Fitting(InsertAt(it[i], pos, v), i, n, m)
                    [] i > blk -> Fitting(<<it[i - 1][m]>> \o it[i], i, n, m)
    BY <2>0 DEF NewRow
  <2> DEFINE a == Fitting(InsertAt(it[i], pos, v), i, n, m)
             z == Fitting(<<it[i - 1][m]>> \o it[i], i, n, m)
             e == Fit(i, InsertAt(old(i), pos, v))
             f == Fit(i, <<old(i - 1)[m]>> \o old(i))
  <2>3. /\ made[i] = CASE i < blk -> it[i] [] i = blk -> a [] i > blk -> z
        /\ new(i) = CASE i < blk -> old(i) [] i = blk -> e [] i > blk -> f
    BY <2>2
  <2>4. a = e
    BY <2>1 DEF Fitting
  <2>5. i > blk => z = f
    <3>1. i > blk => i - 1 \in 1..n
      BY <1>1, <1>4
    <3>2. i > blk => old(i - 1) = it[i - 1]
      BY <1>b, <3>1 DEF RowsOf
    <3> QED
      BY <2>1, <3>2 DEF Fitting
  <2> DEFINE x == made[i]
             y == new(i)
             o == old(i)
             r == it[i]
  <2>6. /\ x = CASE i < blk -> r [] i = blk -> a [] i > blk -> z
        /\ y = CASE i < blk -> o [] i = blk -> e [] i > blk -> f
    BY <2>3
  <2>7. o = r
    BY <2>1
  <2> HIDE DEF a, z, e, f, x, y, o, r
  <2>8. ~ (i < blk /\ i = blk) /\ ~ (i > blk /\ i = blk) /\ ~ (i < blk /\ i > blk)
        /\ (i < blk \/ i = blk \/ i > blk)
    BY <1>4
  <2>9. CASE i < blk
    <3>1. x = r /\ y = o
      BY <2>6, <2>8, <2>9
    <3> QED
      BY <2>7, <3>1 DEF x, y
  <2>10. CASE i = blk
    <3>1. x = a
      BY <2>6, <2>8, <2>10, Zenon
    <3>2. y = e
      BY <2>6, <2>8, <2>10, Zenon
    <3> QED
      BY <2>4, <3>1, <3>2 DEF x, y
  <2>11. CASE i > blk
    <3>1. x = z
      BY <2>6, <2>8, <2>11, Zenon
    <3>2. y = f
      BY <2>6, <2>8, <2>11, Zenon
    <3> QED
      BY <2>5, <2>11, <3>1, <3>2 DEF x, y
  <2> QED
    BY <2>8, <2>9, <2>10, <2>11
<1>6. Rows(Values, made, n, m, InsertAt(s, at, v)) /\ Len(made[n]) > 0
  <2>1. HasPlace(Values, it, n, m, s, at, v)
    BY <1>0 DEF HasPlace
  <2>2. made = [i \in 1..n |-> NewRow(it, n, m, at, v, i)]
    OBVIOUS
  <2> HIDE DEF made, it, n, m
  <2> QED
    BY <2>1, <2>2, InsertRows
<1>7. /\ DOMAIN B = 1..N
      /\ \A i \in 1..n : B[ids[i]] = [bs[ids[i]] EXCEPT !.items = made[i]]
      /\ \A b \in 1..N : b \notin Range(ids) => B[b] = bs[b]
  <2>1. ASSUME NEW i \in 1..n PROVE B[ids[i]] = [bs[ids[i]] EXCEPT !.items = made[i]]
    <3>1. (CHOOSE j \in 1..n : ids[j] = ids[i]) = i
      BY <1>1
    <3> DEFINE j == CHOOSE k \in 1..n : ids[k] = ids[i]
    <3>2. j = i
      BY <3>1
    <3>3. new(j) = made[i]
      <4> HIDE DEF new, made, j
      <4> QED
        BY <1>5, <3>2
    <3>4. B[ids[i]] = [bs[ids[i]] EXCEPT !.items = new(j)]
      <4>1. ids[i] \in 1..N /\ \E k \in 1..n : ids[k] = ids[i]
        BY <1>1
      <4> HIDE DEF new, B
      <4> QED
        BY <1>d, <4>1
    <3> HIDE DEF new, made, j, B
    <3> QED
      BY <3>3, <3>4
  <2>2. \A b \in 1..N : b \notin Range(ids) => B[b] = bs[b]
    <3> HIDE DEF new, B
    <3> QED
      BY <1>1, <1>d
  <2>3. DOMAIN B = 1..N
    <3> HIDE DEF new, B
    <3> QED
      BY <1>d
  <2> HIDE DEF B, made
  <2> QED
    BY <2>1, <2>2, <2>3
<1> HIDE DEF new
<1>8. B = [b \in 1..N |-> B[b]]
  BY <1>d
<1> HIDE DEF B
<1>9. ASSUME NEW i \in 1..n
      PROVE  /\ B[ids[i]] \in Blocks /\ B[ids[i]].items = made[i]
             /\ B[ids[i]].prev = bs[ids[i]].prev /\ B[ids[i]].next = bs[ids[i]].next
  <2>1. made[i] \in Seq(Values)
    <3> HIDE DEF made
    <3> QED
      BY <1>6, RowsAre
  <2>2. B[ids[i]] = [bs[ids[i]] EXCEPT !.items = made[i]] /\ bs[ids[i]] \in Blocks
    <3> HIDE DEF made
    <3> QED
      BY <1>1, <1>7
  <2> HIDE DEF made
  <2> QED
    BY <2>1, <2>2 DEF Blocks
<1>10. B \in Seq(Blocks) /\ Len(B) = N
  <2>1. ASSUME NEW b \in 1..N PROVE B[b] \in Blocks
    <3>1. CASE b \in Range(ids)
      <4>1. PICK i \in 1..n : ids[i] = b
        BY <1>1, <3>1
      <4> QED
        BY <1>9, <4>1
    <3>2. CASE b \notin Range(ids)
      <4>1. B[b] = bs[b]
        <5> HIDE DEF made
        <5> QED
          BY <1>7, <3>2
      <4>2. bs[b] \in Blocks
        <5>1. b \in 1..Len(bs)
          BY <1>b
        <5> QED
          BY <5>1
      <4> QED
        BY <4>1, <4>2
    <3> QED
      BY <3>1, <3>2
  <2> QED
    BY <1>1, <1>8, <2>1, IsSequence
<1>11. Linked(B, info, ids)
  <2>1. \A i \in 1..n : B[ids[i]].prev = bs[ids[i]].prev /\ B[ids[i]].next = bs[ids[i]].next
    BY <1>9
  <2> QED
    BY <1>0, <1>10, <1>b, <2>1 DEF Linked
<1>12. RowsOf(B, ids) = made
  <2>1. \A i \in 1..n : B[ids[i]].items = made[i]
    BY <1>9
  <2>2. made = [i \in 1..n |-> made[i]]
    OBVIOUS
  <2> HIDE DEF made
  <2> QED
    BY <1>b, <2>1, <2>2 DEF RowsOf
<1>13. B[ids[n]].items # << >>
  <2>1. B[ids[n]].items = made[n] /\ Len(made[n]) > 0
    BY <1>1, <1>6, <1>9
  <2>2. Len(<< >>) = 0
    OBVIOUS
  <2> HIDE DEF made
  <2> QED
    BY <2>1, <2>2
<1>14. ChainHolds(B, info, ids, m, InsertAt(s, at, v))
  <2> HIDE DEF made
  <2> QED
    BY <1>6, <1>11, <1>12, <1>13, <1>b DEF ChainHolds
<1>15. Beside(B, ids, bs, ids)
  <2>1. (N + 1)..N = {}
    BY <1>1
  <2>2. \A b \in 1..N : b \notin Range(ids) => B[b] = bs[b]
    <3> HIDE DEF made
    <3> QED
      BY <1>7
  <2>3. N <= N
    BY <1>1
  <2> QED
    BY <1>10, <1>b, <2>1, <2>2, <2>3 DEF Beside
<1> HIDE DEF m
<1> QED
  BY <1>2, <1>14, <1>15 DEF m

(* What Add makes of the chain.                                            *)
GrownBy(c, s, v) ==
    InsertAtPlace(IF Len(s) = maxItems * c.info.count THEN AppendNewBlock(c) ELSE c,
                  PlaceFor(s, v), v)

LEMMA GrownIs ==
    ASSUME NEW bs \in Seq(Blocks), NEW info, NEW ids, NEW s, ChainHolds(bs, info, ids, maxItems, s),
           InOrder(s), NEW v \in Values,
           NEW c, c = GrownBy([blocks |-> bs, info |-> info, ids |-> ids], s, v)
    PROVE  /\ ChainHolds(c.blocks, c.info, c.ids, maxItems, InsertAt(s, PlaceFor(s, v), v))
           /\ Beside(c.blocks, c.ids, bs, ids)
           /\ c = [blocks |-> c.blocks, info |-> c.info, ids |-> c.ids]
<1> DEFINE n == Len(ids)
           m == maxItems
           base == [blocks |-> bs, info |-> info, ids |-> ids]
           full == Len(s) = m * info.count
           g == IF full THEN AppendNewBlock(base) ELSE base
           at == PlaceFor(s, v)
           it == RowsOf(bs, ids)
<1>0. Linked(bs, info, ids) /\ Rows(Values, it, n, m, s)
  BY DEF ChainHolds
<1>1. /\ n \in Nat \ {0} /\ n \in 1..n /\ m \in Nat \ {0} /\ s \in Seq(Values)
      /\ it[n] = bs[ids[n]].items /\ Len(it[n]) \in Nat /\ Len(it[n]) <= m
      /\ info = ChainInfo(ids[1], ids[n], n) /\ Len(s) = Row(n, m) + Len(it[n])
  BY <1>0, LinkedIs, RowsAre DEF RowsOf
<1>2. at \in 1..(Len(s) + 1)
  <2>1. Sorted(Values, s)
    BY <1>1, HashsetAssumption DEF Sorted
  <2> QED
    BY <2>1, PlaceForIs
<1>3. full <=> Len(it[n]) = m
  <2>1. info.count = n
    BY <1>1 DEF ChainInfo
  <2>2. m * n = Row(n, m) + m /\ Row(n, m) \in Nat
    <3>1. Row(n + 1, m) = Row(n, m) + m /\ Row(n, m) \in Nat
      BY <1>1, RowIs
    <3>2. Row(n + 1, m) = m * n
      <4>1. (n + 1) - 1 = n
        BY <1>1
      <4>2. n * m = m * n
        BY <1>1
      <4> QED
        BY <4>1, <4>2 DEF Row
    <3> QED
      BY <3>1, <3>2
  <2> DEFINE q == m * n
  <2>3. full <=> Len(s) = q
    BY <2>1
  <2> HIDE DEF q, full, it, m, n
  <2>4. q = Row(n, m) + m
    BY <2>2 DEF q
  <2> QED
    BY <1>1, <2>2, <2>3, <2>4
<1>4. /\ HasRoom(g.blocks, g.info, g.ids, m, s) /\ Beside(g.blocks, g.ids, bs, ids)
      /\ g = [blocks |-> g.blocks, info |-> g.info, ids |-> g.ids] /\ g.blocks \in Seq(Blocks)
  <2>1. CASE full
    <3>1. g = AppendNewBlock(base)
      BY <2>1
    <3>2. Len(bs[ids[n]].items) = m
      BY <1>1, <1>3, <2>1
    <3> HIDE DEF g, full
    <3>3. /\ HasRoom(g.blocks, g.info, g.ids, m, s) /\ Beside(g.blocks, g.ids, bs, ids)
          /\ g = [blocks |-> g.blocks, info |-> g.info, ids |-> g.ids]
      BY <3>1, <3>2, AppendedIs
    <3> QED
      BY <3>3 DEF Beside
  <2>2. CASE ~ full
    <3>1. g = base
      BY <2>2
    <3>2. Len(bs[ids[n]].items) < m
      BY <1>1, <1>3, <2>2
    <3>3. HasRoom(bs, info, ids, m, s)
      BY <1>0, <3>2 DEF HasRoom
    <3>4. Beside(bs, ids, bs, ids)
      <4>1. Len(bs) \in Nat
        OBVIOUS
      <4>2. (Len(bs) + 1)..Len(bs) = {} /\ Len(bs) <= Len(bs)
        BY <4>1
      <4> QED
        BY <4>2 DEF Beside
    <3>5. g.blocks = bs /\ g.info = info /\ g.ids = ids
      BY <3>1
    <3> HIDE DEF g, full
    <3> QED
      BY <3>1, <3>3, <3>4, <3>5
  <2> QED
    BY <2>1, <2>2
<1>5. c = InsertAtPlace(g, at, v)
  BY DEF GrownBy
<1> HIDE DEF g, full, at
<1>6. /\ ChainHolds(c.blocks, c.info, c.ids, maxItems, InsertAt(s, at, v))
      /\ Beside(c.blocks, c.ids, g.blocks, g.ids)
      /\ c = [blocks |-> c.blocks, info |-> g.info, ids |-> g.ids]
  <2>1. c = InsertAtPlace([blocks |-> g.blocks, info |-> g.info, ids |-> g.ids], at, v)
    BY <1>4, <1>5
  <2>2. HasRoom(g.blocks, g.info, g.ids, maxItems, s)
    BY <1>4
  <2> QED
    BY <1>2, <1>4, <2>1, <2>2, PlacedIs
<1>7. Beside(c.blocks, c.ids, bs, ids)
  BY <1>4, <1>6, BesideTwice
<1>8. c.info = g.info /\ c.ids = g.ids
  BY <1>6
<1> QED
  BY <1>6, <1>7, <1>8 DEF at

-----------------------------------------------------------------------------
(* The storage, its index, and what the chains hold. *)

(* ch names the blocks of each chain, el its values.                       *)
AllChains(bs, t, K, m, ch, el) ==
    /\ bs \in Seq(Blocks)
    /\ \A k \in K : ChainHolds(bs, t.node[k].data, ch[k], m, el[k])
    /\ \A k, l \in K : k # l => Range(ch[k]) \cap Range(ch[l]) = {}
    /\ \A b \in 1..Len(bs) : \E k \in K : b \in Range(ch[k])

(* Each value is where the index leads to from its hash.                   *)
Filed(K, el) ==
    \A k \in K : InOrder(el[k]) /\ \A v \in Range(el[k]) : IsFloor(K, Hash(v), k)

Filled(K, el) == (K = {0} /\ el[0] = << >>) \/ \A k \in K : el[k] # << >>

Stored(bs, t, K, m, ch, el) ==
    /\ m \in Nat \ {0} /\ 0 \in K /\ IsIndex(t, K, ChainInfos)
    /\ AllChains(bs, t, K, m, ch, el) /\ Filed(K, el) /\ Filled(K, el)

(* What a chain holds depends on its blocks alone.                         *)
LEMMA HoldsStill ==
    ASSUME NEW bs \in Seq(Blocks), NEW info, NEW ids, NEW m, NEW s, ChainHolds(bs, info, ids, m, s),
           NEW bs2 \in Seq(Blocks), Len(bs) <= Len(bs2),
           \A b \in Range(ids) : bs2[b] = bs[b]
    PROVE  ChainHolds(bs2, info, ids, m, s)
<1> DEFINE n == Len(ids)
<1>0. Linked(bs, info, ids)
  BY DEF ChainHolds
<1>1. /\ n \in Nat \ {0} /\ n \in 1..n /\ Len(bs) \in Nat /\ Len(bs2) \in Nat
      /\ \A i \in 1..n : ids[i] \in 1..Len(bs) /\ ids[i] \in Range(ids)
  <2>1. Len(bs2) \in Nat
    OBVIOUS
  <2> QED
    BY <1>0, <2>1, LinkedIs
<1>2. \A i \in 1..n : bs2[ids[i]] = bs[ids[i]]
  BY <1>1
<1>3. ids \in Seq(1..Len(bs2))
  <2>1. ids = [i \in 1..n |-> ids[i]]
    <3>1. ids \in Seq(1..Len(bs))
      BY <1>0 DEF Linked
    <3> QED
      BY <3>1
  <2>2. \A i \in 1..n : ids[i] \in 1..Len(bs2)
    BY <1>1
  <2> QED
    BY <1>1, <2>1, <2>2, IsSequence
<1>4. Linked(bs2, info, ids)
  BY <1>0, <1>2, <1>3 DEF Linked
<1>5. RowsOf(bs2, ids) = RowsOf(bs, ids)
  BY <1>2 DEF RowsOf
<1>6. bs2[ids[n]] = bs[ids[n]]
  BY <1>1, <1>2
<1> QED
  BY <1>4, <1>5, <1>6 DEF ChainHolds

(* A chain takes the place of one that it has grown from.                  *)
LEMMA KeepIs ==
    ASSUME NEW bs, NEW t, NEW K, NEW m, NEW ch, NEW el, Stored(bs, t, K, m, ch, el), NEW key \in K,
           NEW bs2, NEW info2, NEW ids2, NEW s2, ChainHolds(bs2, info2, ids2, m, s2),
           Beside(bs2, ids2, bs, ch[key]),
           InOrder(s2), s2 # << >>, \A v \in Range(s2) : IsFloor(K, Hash(v), key),
           NEW ch2, ch2 = [k \in K |-> IF k = key THEN ids2 ELSE ch[k]],
           NEW el2, el2 = [k \in K |-> IF k = key THEN s2 ELSE el[k]],
           NEW t2, t2 = [t EXCEPT !.node[key].data = info2]
    PROVE  Stored(bs2, t2, K, m, ch2, el2)
<1>1. /\ m \in Nat \ {0} /\ 0 \in K /\ IsIndex(t, K, ChainInfos)
      /\ AllChains(bs, t, K, m, ch, el) /\ Filed(K, el) /\ Filled(K, el)
  BY DEF Stored
<1>2. /\ bs \in Seq(Blocks) /\ bs2 \in Seq(Blocks) /\ Len(bs) <= Len(bs2)
      /\ Len(bs) \in Nat /\ Len(bs2) \in Nat
      /\ \A b \in 1..Len(bs) : b \notin Range(ch[key]) => bs2[b] = bs[b]
      /\ Range(ids2) = Range(ch[key]) \cup ((Len(bs) + 1)..Len(bs2))
  <2>1. bs \in Seq(Blocks)
    BY <1>1 DEF AllChains
  <2>2. bs2 \in Seq(Blocks)
    BY DEF Beside
  <2>3. Len(bs) \in Nat /\ Len(bs2) \in Nat
    BY <2>1, <2>2
  <2> QED
    BY <2>1, <2>2, <2>3 DEF Beside
<1>3. info2 \in ChainInfos
  BY <1>2, LinkedIs DEF ChainHolds
<1>4. /\ IsIndex(t2, K, ChainInfos) /\ t2.node[key].data = info2
      /\ \A k \in K \ {key} : t2.node[k].data = t.node[k].data
  <2>1. IsIndex(t2, K, ChainInfos) /\ DataAt(t2, t, K, key, info2)
    BY <1>1, <1>3, DataSet
  <2> QED
    BY <2>1 DEF DataAt
<1>5. ASSUME NEW k \in K, k # key
      PROVE  /\ ChainHolds(bs, t.node[k].data, ch[k], m, el[k]) /\ Range(ch[k]) \subseteq 1..Len(bs)
             /\ Range(ch[k]) \cap Range(ch[key]) = {}
  <2>1. ChainHolds(bs, t.node[k].data, ch[k], m, el[k])
    BY <1>1 DEF AllChains
  <2>2. Range(ch[k]) \subseteq 1..Len(bs)
    BY <1>2, <2>1, LinkedIs DEF ChainHolds
  <2> QED
    BY <1>1, <1>5, <2>1, <2>2 DEF AllChains
<1>6. ASSUME NEW k \in K PROVE ChainHolds(bs2, t2.node[k].data, ch2[k], m, el2[k])
  <2>1. CASE k = key
    BY <1>4, <2>1
  <2>2. CASE k # key
    <3>1. \A b \in Range(ch[k]) : bs2[b] = bs[b]
      BY <1>2, <1>5, <2>2
    <3>2. ChainHolds(bs2, t.node[k].data, ch[k], m, el[k])
      BY <1>2, <1>5, <2>2, <3>1, HoldsStill
    <3> QED
      BY <1>4, <2>2, <3>2
  <2> QED
    BY <2>1, <2>2
<1>7. ASSUME NEW k \in K, k # key PROVE Range(ch2[k]) \cap Range(ids2) = {} /\ ch2[k] = ch[k]
  <2>1. (1..Len(bs)) \cap ((Len(bs) + 1)..Len(bs2)) = {}
    BY <1>2
  <2> QED
    BY <1>2, <1>5, <1>7, <2>1
<1>8. ASSUME NEW k \in K, NEW l \in K, k # l PROVE Range(ch2[k]) \cap Range(ch2[l]) = {}
  <2>1. CASE k = key
    BY <1>7, <1>8, <2>1
  <2>2. CASE l = key
    BY <1>7, <1>8, <2>2
  <2>3. CASE k # key /\ l # key
    BY <1>1, <1>7, <1>8, <2>3 DEF AllChains
  <2> QED
    BY <2>1, <2>2, <2>3
<1>9. ASSUME NEW b \in 1..Len(bs2) PROVE \E k \in K : b \in Range(ch2[k])
  <2>1. ch2[key] = ids2
    OBVIOUS
  <2>2. CASE b \in 1..Len(bs)
    <3>1. PICK k \in K : b \in Range(ch[k])
      BY <1>1, <2>2 DEF AllChains
    <3>2. CASE k = key
      BY <1>2, <2>1, <3>1, <3>2
    <3>3. CASE k # key
      BY <1>7, <3>1, <3>3
    <3> QED
      BY <3>2, <3>3
  <2>3. CASE b \notin 1..Len(bs)
    <3>1. b \in (Len(bs) + 1)..Len(bs2)
      BY <1>2, <2>3
    <3> QED
      BY <1>2, <2>1, <3>1
  <2> QED
    BY <2>2, <2>3
<1>10. AllChains(bs2, t2, K, m, ch2, el2)
  BY <1>2, <1>6, <1>8, <1>9 DEF AllChains
<1>11. Filed(K, el2)
  BY <1>1 DEF Filed
<1>12. Filled(K, el2)
  <2>1. \A k \in K \ {key} : el[k] # << >>
    BY <1>1 DEF Filled
  <2> QED
    BY <2>1 DEF Filled
<1> QED
  BY <1>1, <1>4, <1>10, <1>11, <1>12 DEF Stored

-----------------------------------------------------------------------------
(* A chain cut in two. *)

CutLinks(bs, left, right) == [bs EXCEPT ![left].next = left, ![right].prev = right]

LEMMA CutLinksIs ==
    ASSUME NEW bs \in Seq(Blocks), NEW left \in 1..Len(bs), NEW right \in 1..Len(bs), left # right,
           NEW bs2, bs2 = CutLinks(bs, left, right)
    PROVE  /\ bs2 \in Seq(Blocks) /\ Len(bs2) = Len(bs)
           /\ \A b \in 1..Len(bs) :
                 /\ b \notin {left, right} => bs2[b] = bs[b]
                 /\ bs2[b].items = bs[b].items
                 /\ bs2[b].next = IF b = left THEN left ELSE bs[b].next
                 /\ bs2[b].prev = IF b = right THEN right ELSE bs[b].prev
<1> DEFINE N == Len(bs)
           made == [b \in 1..N |->
                      IF b = left THEN [bs[b] EXCEPT !.next = left]
                      ELSE IF b = right THEN [bs[b] EXCEPT !.prev = right] ELSE bs[b]]
<1>1. N \in Nat /\ DOMAIN bs = 1..N /\ left \in Nat /\ right \in Nat /\ \A b \in 1..N : bs[b] \in Blocks
  OBVIOUS
<1>2. bs2 = made
  <2> HIDE DEF N
  <2>1. bs = [b \in 1..N |-> bs[b]]
    <3>1. bs = [b \in 1..Len(bs) |-> bs[b]]
      OBVIOUS
    <3> QED
      BY <3>1 DEF N
  <2> QED
    BY <1>1, <2>1 DEF CutLinks, N
<1>3. ASSUME NEW b \in 1..N
      PROVE  /\ made[b] \in Blocks
             /\ b \notin {left, right} => made[b] = bs[b]
             /\ made[b].items = bs[b].items
             /\ made[b].next = IF b = left THEN left ELSE bs[b].next
             /\ made[b].prev = IF b = right THEN right ELSE bs[b].prev
  <2>1. bs[b] \in Blocks
    BY <1>1
  <2> HIDE DEF N
  <2>2. made[b] = IF b = left THEN [bs[b] EXCEPT !.next = left]
                  ELSE IF b = right THEN [bs[b] EXCEPT !.prev = right] ELSE bs[b]
    OBVIOUS
  <2> HIDE DEF made
  <2>3. CASE b = left
    BY <1>1, <2>1, <2>2, <2>3 DEF Blocks
  <2>4. CASE b = right
    BY <1>1, <2>1, <2>2, <2>4 DEF Blocks
  <2>5. CASE b # left /\ b # right
    BY <2>1, <2>2, <2>5
  <2> QED
    BY <2>3, <2>4, <2>5
<1>4. made = [b \in 1..N |-> made[b]]
  OBVIOUS
<1> HIDE DEF made
<1>5. made \in Seq(Blocks) /\ Len(made) = N
  <2> HIDE DEF N
  <2> QED
    BY <1>1, <1>3, <1>4, IsSequence
<1> QED
  BY <1>2, <1>3, <1>5

InParts(bs2, ids, p, l, r) ==
    /\ Linked(bs2, ChainInfo(ids[1], ids[p], p), l)
    /\ Linked(bs2, ChainInfo(ids[p + 1], ids[Len(ids)], Len(ids) - p), r)
    /\ Len(l) = p /\ Len(r) = Len(ids) - p
    /\ \A i \in 1..p : l[i] = ids[i]
    /\ \A i \in 1..(Len(ids) - p) : r[i] = ids[p + i]
    /\ Range(ids) = Range(l) \cup Range(r) /\ Range(l) \cap Range(r) = {}

LEMMA LinkedCut ==
    ASSUME NEW bs \in Seq(Blocks), NEW info, NEW ids, Linked(bs, info, ids), NEW p \in 1..(Len(ids) - 1),
           NEW bs2, bs2 = CutLinks(bs, ids[p], ids[p + 1]),
           NEW l, l = SubSeq(ids, 1, p), NEW r, r = SubSeq(ids, p + 1, Len(ids))
    PROVE  InParts(bs2, ids, p, l, r)
<1>1. PICK n, N \in Nat :
         /\ n = Len(ids) /\ N = Len(bs) /\ n # 0 /\ p \in 1..(n - 1)
         /\ \A i \in 1..n : ids[i] \in 1..N
         /\ \A i, j \in 1..n : ids[i] = ids[j] => i = j
         /\ \A b : b \in Range(ids) <=> \E i \in 1..n : ids[i] = b
  <2>1. /\ Len(ids) \in Nat /\ Len(ids) # 0 /\ Len(bs) \in Nat
        /\ \A i \in 1..Len(ids) : ids[i] \in 1..Len(bs)
        /\ \A i, j \in 1..Len(ids) : ids[i] = ids[j] => i = j
        /\ \A b : b \in Range(ids) <=> \E i \in 1..Len(ids) : ids[i] = b
    BY LinkedIs
  <2> QED
    BY <2>1
<1>2. \A i \in 1..n : /\ bs[ids[i]].prev = IF i = 1 THEN ids[1] ELSE ids[i - 1]
                      /\ bs[ids[i]].next = IF i = n THEN ids[n] ELSE ids[i + 1]
  BY <1>1 DEF Linked
<1>3. /\ p \in 1..n /\ p + 1 \in 1..n /\ p # p + 1 /\ ids[p] # ids[p + 1]
      /\ p \in Nat \ {0} /\ n - p \in Nat \ {0}
      /\ ids[p] \in 1..N /\ ids[p + 1] \in 1..N
  <2>1. p \in 1..n /\ p + 1 \in 1..n /\ p # p + 1 /\ p \in Nat \ {0} /\ n - p \in Nat \ {0}
    BY <1>1
  <2> QED
    BY <1>1, <2>1
<1>4. /\ bs2 \in Seq(Blocks) /\ Len(bs2) = N
      /\ \A b \in 1..N : /\ bs2[b].next = IF b = ids[p] THEN ids[p] ELSE bs[b].next
                         /\ bs2[b].prev = IF b = ids[p + 1] THEN ids[p + 1] ELSE bs[b].prev
  BY <1>1, <1>3, CutLinksIs
<1>5. ids \in Seq(1..N)
  BY <1>1 DEF Linked
<1>6. l \in Seq(1..N) /\ Len(l) = p /\ \A i \in 1..p : l[i] = ids[i]
  <2>1. p \in Nat /\ p <= Len(ids)
    BY <1>1, <1>3
  <2> QED
    BY <1>5, <2>1, CutOffIs
<1>7. r \in Seq(1..N) /\ Len(r) = n - p /\ \A i \in 1..(n - p) : r[i] = ids[p + i]
  <2>1. p \in Nat /\ p <= Len(ids)
    BY <1>1, <1>3
  <2>2. r \in Seq(1..N) /\ Len(r) = Len(ids) - p /\ \A i \in 1..(Len(ids) - p) : r[i] = ids[p + i]
    BY <1>5, <2>1, SubSeqIs
  <2>3. Len(ids) = n
    BY <1>1
  <2> QED
    BY <2>2, <2>3
<1>8. DOMAIN l = 1..p /\ DOMAIN r = 1..(n - p)
  BY <1>6, <1>7
<1>9. /\ \A i \in 1..p : i \in 1..n /\ i # p + 1
      /\ \A i \in 1..(n - p) : p + i \in 1..n /\ p + i # p
  BY <1>1, <1>3
<1>10. Linked(bs2, ChainInfo(ids[1], ids[p], p), l)
  <2>1. NoRepeats(l)
    BY <1>1, <1>6, <1>8, <1>9 DEF NoRepeats
  <2>2. ASSUME NEW i \in 1..p
        PROVE  /\ bs2[l[i]].prev = IF i = 1 THEN l[1] ELSE l[i - 1]
               /\ bs2[l[i]].next = IF i = p THEN l[p] ELSE l[i + 1]
    <3>1. l[i] = ids[i] /\ i \in 1..n /\ ids[i] \in 1..N /\ ids[i] # ids[p + 1] /\ (ids[i] = ids[p] <=> i = p)
      BY <1>1, <1>3, <1>6, <1>9
    <3>2. bs2[ids[i]].prev = bs[ids[i]].prev
      BY <1>4, <3>1
    <3>3. bs2[ids[i]].next = IF i = p THEN ids[p] ELSE bs[ids[i]].next
      BY <1>4, <3>1
    <3>4. /\ i # 1 => i - 1 \in 1..p
          /\ i # p => i + 1 \in 1..p /\ i # n
          /\ 1 \in 1..p /\ p \in 1..p
      BY <1>1, <1>3
    <3>5. l[1] = ids[1] /\ l[p] = ids[p] /\ (i # 1 => l[i - 1] = ids[i - 1]) /\ (i # p => l[i + 1] = ids[i + 1])
      BY <1>6, <3>4
    <3> QED
      BY <1>2, <3>1, <3>2, <3>3, <3>4, <3>5
  <2>3. l[1] = ids[1] /\ l[p] = ids[p]
    <3>1. 1 \in 1..p /\ p \in 1..p
      BY <1>3
    <3> QED
      BY <1>6, <3>1
  <2>4. l \in Seq(1..Len(bs2)) /\ Len(l) \in Nat \ {0}
    BY <1>3, <1>4, <1>6
  <2>5. Len(l) = p
    BY <1>6
  <2>6. ChainInfo(ids[1], ids[p], p) = ChainInfo(l[1], l[Len(l)], Len(l))
    BY <2>3, <2>5
  <2>7. \A i \in 1..Len(l) :
           /\ bs2[l[i]].prev = IF i = 1 THEN l[1] ELSE l[i - 1]
           /\ bs2[l[i]].next = IF i = Len(l) THEN l[Len(l)] ELSE l[i + 1]
    BY <2>2, <2>5
  <2> QED
    BY <2>1, <2>4, <2>6, <2>7, LinkedBy<1>11. Linked(bs2, ChainInfo(ids[p + 1], ids[n], n - p), r)
  <2>1. NoRepeats(r)
    <3> SUFFICES ASSUME NEW i \in 1..(n - p), NEW j \in 1..(n - p), r[i] = r[j] PROVE i = j
      BY <1>8 DEF NoRepeats
    <3>1. ids[p + i] = ids[p + j] /\ p + i \in 1..n /\ p + j \in 1..n
      BY <1>7, <1>9
    <3>2. p + i = p + j
      BY <1>1, <3>1
    <3> QED
      BY <1>3, <3>2
  <2>2. ASSUME NEW i \in 1..(n - p)
        PROVE  /\ bs2[r[i]].prev = IF i = 1 THEN r[1] ELSE r[i - 1]
               /\ bs2[r[i]].next = IF i = n - p THEN r[n - p] ELSE r[i + 1]
    <3> DEFINE k == p + i
    <3>1. k \in 1..n /\ k # p /\ (k = p + 1 <=> i = 1) /\ (k = n <=> i = n - p) /\ k # 1
      BY <1>1, <1>3
    <3>2. r[i] = ids[k] /\ ids[k] \in 1..N /\ ids[k] # ids[p] /\ (ids[k] = ids[p + 1] <=> i = 1)
      BY <1>1, <1>3, <1>7, <3>1
    <3>3. /\ i # 1 => i - 1 \in 1..(n - p) /\ p + (i - 1) = k - 1
          /\ i # n - p => i + 1 \in 1..(n - p) /\ p + (i + 1) = k + 1
          /\ 1 \in 1..(n - p) /\ n - p \in 1..(n - p) /\ p + (n - p) = n
      BY <1>1, <1>3
    <3>4. /\ r[1] = ids[p + 1] /\ r[n - p] = ids[n]
          /\ i # 1 => r[i - 1] = ids[k - 1]
          /\ i # n - p => r[i + 1] = ids[k + 1]
      BY <1>7, <3>3
    <3> HIDE DEF k
    <3>5. bs2[ids[k]].next = bs[ids[k]].next
      BY <1>4, <3>2
    <3>6. bs2[ids[k]].prev = IF i = 1 THEN ids[p + 1] ELSE bs[ids[k]].prev
      BY <1>4, <3>2
    <3>7. bs2[r[i]].prev = IF i = 1 THEN r[1] ELSE r[i - 1]
      BY <1>2, <3>1, <3>2, <3>4, <3>6
    <3>8. bs2[r[i]].next = IF i = n - p THEN r[n - p] ELSE r[i + 1]
      BY <1>2, <3>1, <3>2, <3>4, <3>5
    <3> QED
      BY <3>7, <3>8
  <2>3. r[1] = ids[p + 1] /\ r[n - p] = ids[n]
    <3>1. 1 \in 1..(n - p) /\ n - p \in 1..(n - p) /\ p + (n - p) = n
      BY <1>1, <1>3
    <3> QED
      BY <1>7, <3>1
  <2>4. r \in Seq(1..Len(bs2)) /\ Len(r) \in Nat \ {0}
    BY <1>3, <1>4, <1>7
  <2>5. Len(r) = n - p
    BY <1>7
  <2>6. ChainInfo(ids[p + 1], ids[n], n - p) = ChainInfo(r[1], r[Len(r)], Len(r))
    BY <2>3, <2>5
  <2>7. \A i \in 1..Len(r) :
           /\ bs2[r[i]].prev = IF i = 1 THEN r[1] ELSE r[i - 1]
           /\ bs2[r[i]].next = IF i = Len(r) THEN r[Len(r)] ELSE r[i + 1]
    BY <2>2, <2>5
  <2> QED
    BY <2>1, <2>4, <2>6, <2>7, LinkedBy<1>12. ASSUME NEW b \in Range(ids) PROVE b \in Range(l) \cup Range(r)
  <2>1. PICK i \in 1..n : b = ids[i]
    BY <1>1, <1>12
  <2>2. CASE i <= p
    <3>1. i \in 1..p
      BY <1>3, <2>2
    <3> QED
      BY <1>6, <1>8, <2>1, <3>1 DEF Range
  <2>3. CASE ~ (i <= p)
    <3> DEFINE k == i - p
    <3>1. k \in 1..(n - p) /\ p + k = i
      BY <1>1, <1>3, <2>3
    <3> HIDE DEF k
    <3> QED
      BY <1>7, <1>8, <2>1, <3>1 DEF Range
  <2> QED
    BY <2>2, <2>3
<1>13. ASSUME NEW b \in Range(l) PROVE \E i \in 1..p : b = ids[i]
  BY <1>6, <1>8, <1>13 DEF Range
<1>14. ASSUME NEW b \in Range(r) PROVE \E i \in 1..(n - p) : b = ids[p + i]
  BY <1>7, <1>8, <1>14 DEF Range
<1>15. Range(l) \subseteq Range(ids) /\ Range(r) \subseteq Range(ids)
  BY <1>1, <1>9, <1>13, <1>14
<1>16. ASSUME NEW b \in Range(l), b \in Range(r) PROVE FALSE
  <2>1. PICK i \in 1..p : b = ids[i]
    BY <1>13
  <2>2. PICK j \in 1..(n - p) : b = ids[p + j]
    BY <1>14, <1>16
  <2>3. i = p + j
    BY <1>1, <1>9, <2>1, <2>2
  <2> QED
    BY <1>3, <2>3
<1> QED
  BY <1>1, <1>6, <1>7, <1>10, <1>11, <1>12, <1>15, <1>16 DEF InParts

-----------------------------------------------------------------------------
(* What the parts of a chain hold. *)

AreTwoChains(bs2, bs, ids, m, s, p, l, r, a) ==
    /\ bs2 \in Seq(Blocks) /\ Len(bs2) = Len(bs)
    /\ \A b \in 1..Len(bs) : b \notin Range(ids) => bs2[b] = bs[b]
    /\ a \in 1..Len(s) /\ a + 1 \in 1..Len(s)
    /\ ChainHolds(bs2, ChainInfo(ids[1], ids[p], p), l, m, SubSeq(s, 1, a))
    /\ ChainHolds(bs2, ChainInfo(ids[p + 1], ids[Len(ids)], Len(ids) - p), r, m,
                  SubSeq(s, a + 1, Len(s)))
    /\ Range(ids) = Range(l) \cup Range(r) /\ Range(l) \cap Range(r) = {}
    /\ LastHash(bs[ids[p]]) = Hash(s[a])
    /\ FirstHash(bs[ids[p + 1]]) = Hash(s[a + 1])

LEMMA ChainCut ==
    ASSUME NEW bs \in Seq(Blocks), NEW info, NEW ids, NEW m, NEW s, ChainHolds(bs, info, ids, m, s),
           NEW p \in 1..(Len(ids) - 1),
           NEW bs2, bs2 = CutLinks(bs, ids[p], ids[p + 1]),
           NEW l, l = SubSeq(ids, 1, p), NEW r, r = SubSeq(ids, p + 1, Len(ids)),
           NEW a, a = Row(p + 1, m)
    PROVE  AreTwoChains(bs2, bs, ids, m, s, p, l, r, a)
<1> DEFINE n == Len(ids)
           it == RowsOf(bs, ids)
<1>0. Linked(bs, info, ids) /\ Rows(Values, it, n, m, s)
  BY DEF ChainHolds
<1>1. /\ n \in Nat \ {0} /\ n \in 1..n /\ Len(bs) \in Nat /\ DOMAIN ids = 1..n
      /\ \A i \in 1..n : ids[i] \in 1..Len(bs) /\ bs[ids[i]] \in Blocks
      /\ \A i, j \in 1..n : ids[i] = ids[j] => i = j
      /\ Range(ids) \subseteq 1..Len(bs)
      /\ \A b : b \in Range(ids) <=> \E i \in 1..n : ids[i] = b
  BY <1>0, LinkedIs
<1>2. /\ p \in 1..n /\ p + 1 \in 1..n /\ p # p + 1 /\ p \in Nat \ {0} /\ n - p \in Nat \ {0}
      /\ p + (n - p) = n /\ n > 1 /\ p \in 1..(n - 1) /\ p \in 1..p /\ n - p \in 1..(n - p)
  <2> HIDE DEF n
  <2>1. p \in 1..(n - 1)
    BY DEF n
  <2> QED
    BY <1>1, <2>1
<1>3. /\ Linked(bs2, ChainInfo(ids[1], ids[p], p), l)
      /\ Linked(bs2, ChainInfo(ids[p + 1], ids[n], n - p), r)
      /\ Len(l) = p /\ Len(r) = n - p
      /\ \A i \in 1..p : l[i] = ids[i]
      /\ \A i \in 1..(n - p) : r[i] = ids[p + i]
      /\ Range(ids) = Range(l) \cup Range(r) /\ Range(l) \cap Range(r) = {}
  <2>1. Linked(bs, info, ids) /\ p \in 1..(Len(ids) - 1)
    BY <1>0
  <2>2. InParts(bs2, ids, p, l, r)
    BY <2>1, LinkedCut
  <2> QED
    BY <2>2 DEF InParts
<1>4. /\ bs2 \in Seq(Blocks) /\ Len(bs2) = Len(bs)
      /\ \A b \in 1..Len(bs) : /\ b \notin {ids[p], ids[p + 1]} => bs2[b] = bs[b]
                               /\ bs2[b].items = bs[b].items
  <2>1. ids[p] \in 1..Len(bs) /\ ids[p + 1] \in 1..Len(bs) /\ ids[p] # ids[p + 1]
    <3> HIDE DEF n
    <3> QED
      BY <1>1, <1>2
  <2>2. bs2 \in Seq(Blocks) /\ Len(bs2) = Len(bs)
    BY <2>1, CutLinksIs
  <2>3. \A b \in 1..Len(bs) : b \notin {ids[p], ids[p + 1]} => bs2[b] = bs[b]
    BY <2>1, CutLinksIs
  <2>4. \A b \in 1..Len(bs) : bs2[b].items = bs[b].items
    <3> HIDE DEF n
    <3> QED
      BY <2>1, CutLinksIs
  <2> QED
    BY <2>2, <2>3, <2>4
<1>5. \A b \in 1..Len(bs) : b \notin Range(ids) => bs2[b] = bs[b]
  <2>1. ids[p] \in Range(ids) /\ ids[p + 1] \in Range(ids)
    BY <1>1, <1>2
  <2> QED
    BY <1>4, <2>1
<1>6. \A i \in 1..n : it[i] = bs[ids[i]].items /\ bs2[ids[i]].items = it[i]
  BY <1>1, <1>4 DEF RowsOf
<1>7. /\ m \in Nat \ {0} /\ Len(it[p]) = m
      /\ \A i \in 1..n : it[i] \in Seq(Values) /\ Len(it[i]) \in Nat
      /\ \A i \in 1..(n - 1) : Len(it[i]) = m
      /\ s \in Seq(Values) /\ Len(s) \in Nat
  <2> HIDE DEF n, it
  <2>1. m \in Nat \ {0} /\ s \in Seq(Values) /\ Len(s) \in Nat
    BY <1>0, RowsAre
  <2>2. \A i \in 1..n : it[i] \in Seq(Values) /\ Len(it[i]) \in Nat
    BY <1>0, RowsAre
  <2>3. \A i \in 1..(n - 1) : Len(it[i]) = m
    BY <1>0, RowsAre
  <2> QED
    BY <1>2, <2>1, <2>2, <2>3
<1>8. it[n] # << >>
  BY <1>1, <1>2, <1>6 DEF ChainHolds
<1>9. Len(it[p + 1]) \in Nat \ {0}
  <2>1. CASE p + 1 = n
    <3>1. it[n] \in Seq(Values) /\ Len(it[n]) \in Nat
      BY <1>1, <1>7
    <3>2. Len(it[n]) # 0
      <4> DEFINE x == it[n]
      <4>1. x \in Seq(Values) /\ x # << >>
        BY <1>8, <3>1
      <4> HIDE DEF x
      <4>2. Len(x) # 0
        BY <4>1
      <4> QED
        BY <4>2 DEF x
    <3> QED
      BY <2>1, <3>1, <3>2
  <2>2. CASE p + 1 # n
    <3>1. p + 1 \in 1..(n - 1)
      <4> HIDE DEF n
      <4> QED
        BY <1>1, <1>2, <2>2
    <3> QED
      BY <1>7, <3>1
  <2> QED
    BY <2>1, <2>2
<1> DEFINE lt == [i \in 1..p |-> it[i]]
           rt == [i \in 1..(n - p) |-> it[p + i]]
<1>10. /\ a \in 1..Len(s)
       /\ Rows(Values, lt, p, m, SubSeq(s, 1, a))
       /\ Rows(Values, rt, n - p, m, SubSeq(s, a + 1, Len(s)))
  <2> HIDE DEF n, it
  <2> QED
    BY <1>0, <1>2, CutRows
<1>11. /\ \A i \in 1..p : i \in 1..n
       /\ \A i \in 1..(n - p) : p + i \in 1..n
  <2> HIDE DEF n
  <2> QED
    BY <1>1, <1>2
<1>12. RowsOf(bs2, l) = lt /\ RowsOf(bs2, r) = rt
  <2>1. \A i \in 1..p : bs2[l[i]].items = it[i]
    BY <1>3, <1>6, <1>11
  <2>2. \A i \in 1..(n - p) : bs2[r[i]].items = it[p + i]
    BY <1>3, <1>6, <1>11
  <2>3. Len(l) = p /\ Len(r) = n - p
    BY <1>3
  <2> HIDE DEF n, it
  <2> QED
    BY <2>1, <2>2, <2>3 DEF RowsOf
<1>13. ChainHolds(bs2, ChainInfo(ids[1], ids[p], p), l, m, SubSeq(s, 1, a))
  <2>1. bs2[l[p]].items = it[p]
    BY <1>2, <1>3, <1>6
  <2>2. it[p] # << >>
    <3>1. Len(<< >>) = 0
      OBVIOUS
    <3> QED
      BY <1>7, <3>1
  <2>3. Len(l) = p
    BY <1>3
  <2> QED
    BY <1>3, <1>10, <1>12, <2>1, <2>2, <2>3 DEF ChainHolds
<1>14. ChainHolds(bs2, ChainInfo(ids[p + 1], ids[n], n - p), r, m, SubSeq(s, a + 1, Len(s)))
  <2>1. bs2[r[n - p]].items = it[n]
    <3>1. r[n - p] = ids[n]
      BY <1>2, <1>3
    <3> QED
      BY <1>1, <1>6, <3>1
  <2>2. Len(r) = n - p
    BY <1>3
  <2> QED
    BY <1>3, <1>8, <1>10, <1>12, <2>1, <2>2 DEF ChainHolds
<1>15. LastHash(bs[ids[p]]) = Hash(s[a])
  <2>1. m \in 1..Len(it[p])
    BY <1>7
  <2>2. s[Row(p, m) + m] = it[p][m]
    <3> HIDE DEF n, it
    <3> QED
      BY <1>0, <1>2, <2>1, PlaceOfRow
  <2>3. Row(p + 1, m) = Row(p, m) + m
    BY <1>2, <1>7, RowIs
  <2>4. bs[ids[p]].items = it[p]
    BY <1>2, <1>6
  <2> QED
    BY <1>7, <2>2, <2>3, <2>4 DEF LastHash
<1>16. FirstHash(bs[ids[p + 1]]) = Hash(s[a + 1]) /\ a + 1 \in 1..Len(s)
  <2>1. 1 \in 1..Len(it[p + 1])
    BY <1>9
  <2>2. Row(p + 1, m) + 1 \in 1..Len(s) /\ s[Row(p + 1, m) + 1] = it[p + 1][1]
    <3> DEFINE q == p + 1
    <3>1. q \in 1..n /\ 1 \in 1..Len(it[q])
      BY <1>2, <2>1
    <3> HIDE DEF n, it, q
    <3>2. Row(q, m) + 1 \in 1..Len(s) /\ s[Row(q, m) + 1] = it[q][1]
      BY <1>0, <3>1, PlaceOfRow
    <3> QED
      BY <3>2 DEF q
  <2>3. bs[ids[p + 1]].items = it[p + 1]
    BY <1>2, <1>6
  <2> QED
    BY <2>2, <2>3 DEF FirstHash
<1> QED
  BY <1>3, <1>4, <1>5, <1>10, <1>13, <1>14, <1>15, <1>16 DEF AreTwoChains

-----------------------------------------------------------------------------
(* The cut of a chain, and of what the index leads to. *)

(* A sequence in order is cut at a, between two hashes.                    *)
AreInOrder(s, a, u, w) ==
    /\ InOrder(u) /\ InOrder(w) /\ u # << >> /\ w # << >>
    /\ Range(s) = Range(u) \cup Range(w)
    /\ Hash(s[a]) < Hash(s[a + 1]) /\ Hash(s[a]) \in Nat /\ Hash(s[a + 1]) \in Nat
    /\ \A x \in Range(u) : Hash(x) \in Nat /\ Hash(x) <= Hash(s[a])
    /\ \A x \in Range(w) : Hash(x) \in Nat /\ Hash(s[a + 1]) <= Hash(x)

LEMMA CutHashes ==
    ASSUME NEW V, NEW s, Sorted(V, s), NEW a \in 1..Len(s), a + 1 \in 1..Len(s),
           Hash(s[a]) # Hash(s[a + 1]),
           NEW u, u = SubSeq(s, 1, a), NEW w, w = SubSeq(s, a + 1, Len(s))
    PROVE  AreInOrder(s, a, u, w)
<1>1. /\ s \in Seq(V) /\ Len(s) \in Nat
      /\ \A i \in 1..Len(s) : Hash(s[i]) \in Nat
      /\ \A i, j \in 1..Len(s) : i <= j => Hash(s[i]) <= Hash(s[j])
  BY SortedIs DEF Sorted
<1>2. PICK L \in Nat : L = Len(s) /\ a \in 1..L /\ a + 1 \in 1..L /\ a <= L /\ a \in Nat
  BY <1>1
<1>3. /\ Sorted(V, u) /\ Sorted(V, w) /\ Range(s) = Range(u) \cup Range(w)
  BY PartInOrder
<1>4. u \in Seq(V) /\ Len(u) = a /\ \A i \in 1..a : u[i] = s[i]
  <2>1. a \in Nat /\ a <= Len(s)
    BY <1>2
  <2> QED
    BY <1>1, <2>1, CutOffIs
<1>5. w \in Seq(V) /\ Len(w) = L - a /\ \A i \in 1..(L - a) : w[i] = s[a + i]
  <2>1. a \in Nat /\ a <= Len(s)
    BY <1>2
  <2>2. w \in Seq(V) /\ Len(w) = Len(s) - a /\ \A i \in 1..(Len(s) - a) : w[i] = s[a + i]
    BY <1>1, <2>1, SubSeqIs
  <2> QED
    BY <1>2, <2>2
<1>6. Hash(s[a]) < Hash(s[a + 1]) /\ Hash(s[a]) \in Nat /\ Hash(s[a + 1]) \in Nat
  <2>1. a <= a + 1
    BY <1>2
  <2>2. Hash(s[a]) <= Hash(s[a + 1]) /\ Hash(s[a]) \in Nat /\ Hash(s[a + 1]) \in Nat
    BY <1>1, <1>2, <2>1
  <2> QED
    BY <2>2
<1>7. u # << >> /\ w # << >>
  <2>1. Len(u) # 0 /\ Len(w) # 0
    BY <1>2, <1>4, <1>5
  <2>2. Len(<< >>) = 0
    OBVIOUS
  <2> QED
    BY <2>1, <2>2
<1>8. ASSUME NEW x \in Range(u) PROVE Hash(x) \in Nat /\ Hash(x) <= Hash(s[a])
  <2>1. PICK i \in 1..a : x = s[i]
    BY <1>4, <1>8 DEF Range
  <2>2. i \in 1..Len(s) /\ i <= a
    BY <1>2
  <2> QED
    BY <1>1, <2>1, <2>2
<1>9. ASSUME NEW x \in Range(w) PROVE Hash(x) \in Nat /\ Hash(s[a + 1]) <= Hash(x)
  <2>0. DOMAIN w = 1..(L - a)
    BY <1>5
  <2>3. PICK i \in DOMAIN w : x = w[i]
    BY <1>9 DEF Range
  <2>1. i \in 1..(L - a) /\ x = s[a + i]
    BY <1>5, <2>0, <2>3
  <2>2. a + i \in 1..Len(s) /\ a + 1 <= a + i /\ a + 1 \in 1..Len(s)
    BY <1>2
  <2> QED
    BY <1>1, <2>1, <2>2
<1> QED
  BY <1>3, <1>6, <1>7, <1>8, <1>9 DEF Sorted, AreInOrder

(* Who is led where when k2 is added above key.                            *)
FloorsWith(K, key, h, k2) ==
    /\ k2 \notin K
    /\ \A x \in Nat : x <= h /\ IsFloor(K, x, key) => IsFloor(K \cup {k2}, x, key)
    /\ \A x \in Nat : k2 <= x /\ IsFloor(K, x, key) => IsFloor(K \cup {k2}, x, k2)
    /\ \A k \in K \ {key} : \A x \in Nat : IsFloor(K, x, k) => IsFloor(K \cup {k2}, x, k)

LEMMA FloorsAfterCut ==
    ASSUME NEW K \in SUBSET Nat, NEW key \in K, NEW h \in Nat, NEW k2 \in Nat,
           IsFloor(K, h, key), IsFloor(K, k2, key), h < k2
    PROVE  FloorsWith(K, key, h, k2)
<1>1. key \in Nat /\ key < k2 /\ \A x \in K : x \in Nat
  BY DEF IsFloor
<1>2. k2 \notin K
  BY <1>1 DEF IsFloor
<1>3. ASSUME NEW x \in Nat, x <= h, IsFloor(K, x, key) PROVE IsFloor(K \cup {k2}, x, key)
  BY <1>1, <1>3 DEF IsFloor
<1>4. ASSUME NEW x \in Nat, k2 <= x, IsFloor(K, x, key) PROVE IsFloor(K \cup {k2}, x, k2)
  BY <1>1, <1>4 DEF IsFloor
<1>5. ASSUME NEW k \in K \ {key}, NEW x \in Nat, IsFloor(K, x, k) PROVE IsFloor(K \cup {k2}, x, k)
  <2>1. k \in Nat /\ k # key /\ k <= x
    BY <1>1, <1>5 DEF IsFloor
  <2>2. k <= k2 => k <= key
    BY DEF IsFloor
  <2>3. key <= x => key <= k
    BY <1>5 DEF IsFloor
  <2>4. k2 <= x => k2 <= k
    BY <1>1, <2>1, <2>2, <2>3
  <2> QED
    BY <1>5, <2>4 DEF IsFloor
<1> QED
  BY <1>2, <1>3, <1>4, <1>5 DEF FloorsWith

Held(K, el) == UNION {Range(el[k]) : k \in K}

(* The storage is whole and holds the values S.                            *)
StoredAs(bs, t, m, S) ==
    \E K, ch, el : Stored(bs, t, K, m, ch, el) /\ Held(K, el) = S

LEMMA SplitIs ==
    ASSUME NEW bs, NEW t, NEW K, NEW m, NEW ch, NEW el, Stored(bs, t, K, m, ch, el), NEW key \in K,
           NEW p \in 1..(Len(ch[key]) - 1),
           NEW left, left = ch[key][p], NEW right, right = ch[key][p + 1],
           NEW k2, k2 = FirstHash(bs[right]), k2 # LastHash(bs[left]),
           NEW bs2, bs2 = CutLinks(bs, left, right),
           NEW info, info = ChainInfo(ch[key][1], left, p),
           NEW info2, info2 = ChainInfo(right, ch[key][Len(ch[key])], Len(ch[key]) - p),
           NEW t2, t2 = Insert([t EXCEPT !.node[key].data = info], k2, info2)
    PROVE  StoredAs(bs2, t2, m, Held(K, el))
<1> DEFINE ids == ch[key]
           s == el[key]
           a == Row(p + 1, m)
           l == SubSeq(ids, 1, p)
           r == SubSeq(ids, p + 1, Len(ids))
           u == SubSeq(s, 1, a)
           w == SubSeq(s, a + 1, Len(s))
           K2 == K \cup {k2}
           ch2 == [k \in K2 |-> IF k = key THEN l ELSE IF k = k2 THEN r ELSE ch[k]]
           el2 == [k \in K2 |-> IF k = key THEN u ELSE IF k = k2 THEN w ELSE el[k]]
<1>0. PICK t1 : t1 = [t EXCEPT !.node[key].data = info]
  OBVIOUS
<1>1. /\ m \in Nat \ {0} /\ 0 \in K /\ IsIndex(t, K, ChainInfos)
      /\ AllChains(bs, t, K, m, ch, el) /\ Filed(K, el) /\ Filled(K, el)
  BY DEF Stored
<1>2. /\ bs \in Seq(Blocks)
      /\ \A k \in K : ChainHolds(bs, t.node[k].data, ch[k], m, el[k])
      /\ \A k, j \in K : k # j => Range(ch[k]) \cap Range(ch[j]) = {}
      /\ \A b \in 1..Len(bs) : \E k \in K : b \in Range(ch[k])
  BY <1>1 DEF AllChains
<1>3. /\ bs2 \in Seq(Blocks) /\ Len(bs2) = Len(bs)
      /\ \A b \in 1..Len(bs) : b \notin Range(ids) => bs2[b] = bs[b]
      /\ a \in 1..Len(s) /\ a + 1 \in 1..Len(s)
      /\ ChainHolds(bs2, info, l, m, u)
      /\ ChainHolds(bs2, info2, r, m, w)
      /\ Range(ids) = Range(l) \cup Range(r) /\ Range(l) \cap Range(r) = {}
      /\ LastHash(bs[left]) = Hash(s[a])
      /\ k2 = Hash(s[a + 1])
  <2>1. ChainHolds(bs, t.node[key].data, ids, m, s)
    BY <1>2
  <2>2. p \in 1..(Len(ids) - 1) /\ bs2 = CutLinks(bs, ids[p], ids[p + 1])
    OBVIOUS
  <2>3. AreTwoChains(bs2, bs, ids, m, s, p, l, r, a)
    <3> HIDE DEF ids, s
    <3> QED
      BY <1>2, <2>1, <2>2, ChainCut
  <2>4. info = ChainInfo(ids[1], ids[p], p) /\ info2 = ChainInfo(ids[p + 1], ids[Len(ids)], Len(ids) - p)
        /\ left = ids[p] /\ right = ids[p + 1]
    OBVIOUS
  <2> HIDE DEF ids, s, l, r, a
  <2> QED
    BY <2>3, <2>4 DEF AreTwoChains
<1>4. s \in Seq(Values) /\ Sorted(Values, s)
  BY <1>1, <1>2, HashsetAssumption DEF ChainHolds, Rows, Filed, Sorted
<1>5. /\ InOrder(u) /\ InOrder(w) /\ u # << >> /\ w # << >>
      /\ Range(s) = Range(u) \cup Range(w)
      /\ Hash(s[a]) < k2 /\ Hash(s[a]) \in Nat /\ k2 \in Nat
      /\ \A x \in Range(u) : Hash(x) \in Nat /\ Hash(x) <= Hash(s[a])
      /\ \A x \in Range(w) : Hash(x) \in Nat /\ k2 <= Hash(x)
  <2>1. Hash(s[a]) # Hash(s[a + 1])
    BY <1>3
  <2>2. AreInOrder(s, a, u, w)
    <3> HIDE DEF s, a
    <3> QED
      BY <1>3, <1>4, <2>1, CutHashes
  <2> HIDE DEF s, a, u, w
  <2> QED
    BY <1>3, <2>2 DEF AreInOrder
<1>6. K \in SUBSET Nat
  BY <1>1 DEF IsIndex, Whole, Shape
<1>7. /\ k2 \notin K
      /\ \A x \in Nat : x <= Hash(s[a]) /\ IsFloor(K, x, key) => IsFloor(K2, x, key)
      /\ \A x \in Nat : k2 <= x /\ IsFloor(K, x, key) => IsFloor(K2, x, k2)
      /\ \A k \in K \ {key} : \A x \in Nat : IsFloor(K, x, k) => IsFloor(K2, x, k)
  <2>1. s[a] \in Range(s) /\ s[a + 1] \in Range(s)
    <3>1. a \in 1..Len(s) /\ a + 1 \in 1..Len(s) /\ DOMAIN s = 1..Len(s)
      BY <1>3, <1>4
    <3> HIDE DEF s, a
    <3> QED
      BY <3>1 DEF Range
  <2>2. IsFloor(K, Hash(s[a]), key) /\ IsFloor(K, k2, key)
    BY <1>1, <1>3, <2>1 DEF Filed
  <2> DEFINE h == Hash(s[a])
  <2>3. h \in Nat /\ k2 \in Nat /\ h < k2
    BY <1>5
  <2> HIDE DEF h
  <2>4. FloorsWith(K, key, h, k2)
    BY <1>6, <2>2, <2>3, FloorsAfterCut DEF h
  <2> QED
    BY <2>4 DEF FloorsWith, h
<1>8. info \in ChainInfos /\ info2 \in ChainInfos
  BY <1>3, LinkedIs DEF ChainHolds
<1>9. /\ IsIndex(t1, K, ChainInfos) /\ t1.node[key].data = info
      /\ \A k \in K \ {key} : t1.node[k].data = t.node[k].data
  <2>1. IsIndex(t, K, ChainInfos) /\ info \in ChainInfos
    BY <1>1, <1>8
  <2>2. IsIndex(t1, K, ChainInfos) /\ DataAt(t1, t, K, key, info)
    BY <1>0, <2>1, DataSet
  <2> QED
    BY <2>2 DEF DataAt
<1>10. /\ IsIndex(t2, K2, ChainInfos)
       /\ t2.node[k2].data = info2
       /\ \A k \in K : t2.node[k].data = t1.node[k].data
  <2>1. k2 \in Nat \ K
    BY <1>5, <1>7
  <2>2. t2 = Insert(t1, k2, info2)
    BY <1>0
  <2>4. IsIndex(t1, K, ChainInfos) /\ info2 \in ChainInfos
    BY <1>8, <1>9
  <2>5. /\ IsIndex(Insert(t1, k2, info2), K \cup {k2}, ChainInfos)
        /\ DataAt(Insert(t1, k2, info2), t1, K, k2, info2)
    BY <2>1, <2>4, InsertIs
  <2>3. IsIndex(t2, K \cup {k2}, ChainInfos) /\ DataAt(t2, t1, K, k2, info2)
    BY <2>2, <2>5
  <2> QED
    BY <2>1, <2>3 DEF DataAt
<1>11. /\ ch2[key] = l /\ ch2[k2] = r /\ \A k \in K \ {key} : ch2[k] = ch[k]
       /\ el2[key] = u /\ el2[k2] = w /\ \A k \in K \ {key} : el2[k] = el[k]
       /\ k2 # key /\ \A k \in K2 : k = key \/ k = k2 \/ k \in K \ {key}
  BY <1>7
<1> HIDE DEF ch2, el2, l, r, u, w, a
<1>12. ASSUME NEW k \in K \ {key}
       PROVE  ChainHolds(bs2, t2.node[k].data, ch[k], m, el[k]) /\ Range(ch[k]) \cap Range(ids) = {}
  <2>1. ChainHolds(bs, t.node[k].data, ch[k], m, el[k]) /\ Range(ch[k]) \cap Range(ids) = {}
    BY <1>2
  <2>2. Range(ch[k]) \subseteq 1..Len(bs)
    BY <1>2, <2>1, LinkedIs DEF ChainHolds
  <2>3. \A b \in Range(ch[k]) : bs2[b] = bs[b]
    BY <1>3, <2>1, <2>2
  <2>4. Len(bs) <= Len(bs2)
    <3>1. Len(bs) \in Nat
      BY <1>2
    <3> QED
      BY <1>3, <3>1
  <2>5. ChainHolds(bs2, t.node[k].data, ch[k], m, el[k])
    <3> DEFINE d == t.node[k].data
               c == ch[k]
               e == el[k]
    <3>1. ChainHolds(bs, d, c, m, e) /\ \A b \in Range(c) : bs2[b] = bs[b]
      BY <2>1, <2>3
    <3> HIDE DEF d, c, e
    <3>2. ChainHolds(bs2, d, c, m, e)
      BY <1>2, <1>3, <2>4, <3>1, HoldsStill
    <3> QED
      BY <3>2 DEF d, c, e
  <2> QED
    BY <1>9, <1>10, <2>1, <2>5
<1>13. AllChains(bs2, t2, K2, m, ch2, el2)
  <2>1. ASSUME NEW k \in K2 PROVE ChainHolds(bs2, t2.node[k].data, ch2[k], m, el2[k])
    <3>1. CASE k = key
      BY <1>3, <1>9, <1>10, <1>11, <3>1
    <3>2. CASE k = k2
      BY <1>3, <1>10, <1>11, <3>2
    <3>3. CASE k \in K \ {key}
      BY <1>11, <1>12, <3>3
    <3> QED
      BY <1>11, <3>1, <3>2, <3>3
  <2>2. ASSUME NEW k \in K2, NEW j \in K2, k # j PROVE Range(ch2[k]) \cap Range(ch2[j]) = {}
    <3>1. ASSUME NEW i \in K \ {key}
          PROVE  Range(ch2[i]) \cap Range(ch2[key]) = {} /\ Range(ch2[i]) \cap Range(ch2[k2]) = {}
      BY <1>3, <1>11, <1>12
    <3>2. Range(ch2[key]) \cap Range(ch2[k2]) = {}
      BY <1>3, <1>11
    <3>3. CASE k \in K \ {key} /\ j \in K \ {key}
      BY <1>2, <1>11, <2>2, <3>3
    <3>4. CASE k \in K \ {key} /\ j \in {key, k2}
      BY <3>1, <3>4
    <3>5. CASE j \in K \ {key} /\ k \in {key, k2}
      BY <3>1, <3>5
    <3>6. CASE j \in {key, k2} /\ k \in {key, k2}
      BY <2>2, <3>2, <3>6
    <3> QED
      BY <1>11, <3>3, <3>4, <3>5, <3>6
  <2>3. ASSUME NEW b \in 1..Len(bs2) PROVE \E k \in K2 : b \in Range(ch2[k])
    <3>1. PICK k \in K : b \in Range(ch[k])
      BY <1>2, <1>3
    <3>2. CASE k = key
      BY <1>3, <1>11, <3>1, <3>2
    <3>3. CASE k # key
      BY <1>11, <3>1, <3>3
    <3> QED
      BY <3>2, <3>3
  <2> QED
    BY <1>3, <2>1, <2>2, <2>3 DEF AllChains
<1>14. Filed(K2, el2)
  <2> SUFFICES ASSUME NEW k \in K2
               PROVE  InOrder(el2[k]) /\ \A v \in Range(el2[k]) : IsFloor(K2, Hash(v), k)
    BY DEF Filed
  <2>1. CASE k = key
    <3>1. \A v \in Range(u) : IsFloor(K, Hash(v), key)
      BY <1>1, <1>5 DEF Filed
    <3> QED
      BY <1>5, <1>7, <1>11, <2>1, <3>1
  <2>2. CASE k = k2
    <3>1. \A v \in Range(w) : IsFloor(K, Hash(v), key)
      BY <1>1, <1>5 DEF Filed
    <3> QED
      BY <1>5, <1>7, <1>11, <2>2, <3>1
  <2>3. CASE k \in K \ {key}
    <3>1. InOrder(el[k]) /\ \A v \in Range(el[k]) : IsFloor(K, Hash(v), k)
      BY <1>1, <2>3 DEF Filed
    <3>2. \A v \in Range(el[k]) : Hash(v) \in Nat
      <4>1. el[k] \in Seq(Values)
        BY <1>2, <2>3 DEF ChainHolds, Rows
      <4>2. \A v \in Range(el[k]) : v \in Values
        BY <4>1, RangeIsIn
      <4> QED
        BY <4>2, HashsetAssumption DEF Hash
    <3> QED
      BY <1>7, <1>11, <2>3, <3>1, <3>2
  <2> QED
    BY <1>11, <2>1, <2>2, <2>3
<1>15. Filled(K2, el2)
  <2>1. s # << >>
    <3>1. Len(<< >>) = 0
      OBVIOUS
    <3> QED
      BY <1>3, <3>1
  <2>2. \A k \in K : el[k] # << >>
    BY <1>1, <2>1 DEF Filled
  <2> QED
    BY <1>5, <1>11, <2>2 DEF Filled
<1>16. Held(K2, el2) = Held(K, el)
  BY <1>5, <1>11 DEF Held
<1>17. Stored(bs2, t2, K2, m, ch2, el2)
  BY <1>1, <1>10, <1>13, <1>14, <1>15 DEF Stored
<1> QED
  BY <1>16, <1>17 DEF StoredAs

-----------------------------------------------------------------------------
(* What the chains hold is what the blocks hold, and the index leads there.*)

MembersOf(bs) == UNION {Range(bs[b].items) : b \in 1..Len(bs)}

LEMMA MembersHeld ==
    ASSUME NEW bs, NEW t, NEW K, NEW m, NEW ch, NEW el, Stored(bs, t, K, m, ch, el)
    PROVE  /\ MembersOf(bs) = Held(K, el)
           /\ \A k \in K : el[k] \in Seq(Values) /\ Sorted(Values, el[k])
           /\ Held(K, el) \subseteq Values
           /\ K \in SUBSET Nat /\ Keys(t) = K /\ bs \in Seq(Blocks)
<1>1. /\ m \in Nat \ {0} /\ 0 \in K /\ IsIndex(t, K, ChainInfos)
      /\ AllChains(bs, t, K, m, ch, el) /\ Filed(K, el)
  BY DEF Stored
<1>2. /\ bs \in Seq(Blocks)
      /\ \A k \in K : ChainHolds(bs, t.node[k].data, ch[k], m, el[k])
      /\ \A b \in 1..Len(bs) : \E k \in K : b \in Range(ch[k])
  BY <1>1 DEF AllChains
<1>3. ASSUME NEW k \in K
      PROVE  /\ el[k] \in Seq(Values) /\ Sorted(Values, el[k])
             /\ \A v \in Range(el[k]) : \E b \in Range(ch[k]) : v \in Range(bs[b].items)
             /\ \A b \in Range(ch[k]) : Range(bs[b].items) \subseteq Range(el[k])
             /\ Range(ch[k]) \subseteq 1..Len(bs)
  <2> DEFINE ids == ch[k]
             s == el[k]
             info == t.node[k].data
             it == RowsOf(bs, ids)
  <2>1. ChainHolds(bs, info, ids, m, s)
    BY <1>2
  <2>2. Linked(bs, info, ids) /\ Rows(Values, it, Len(ids), m, s)
    BY <2>1 DEF ChainHolds
  <2>3. s \in Seq(Values) /\ Sorted(Values, s)
    BY <1>1, <2>2, HashsetAssumption DEF Rows, Filed, Sorted
  <2>4. /\ Range(ids) \subseteq 1..Len(bs)
        /\ \A b : b \in Range(ids) <=> \E i \in 1..Len(ids) : ids[i] = b
    BY <1>2, <2>2, LinkedIs
  <2>5. \A i \in 1..Len(ids) : it[i] = bs[ids[i]].items
    BY DEF RowsOf
  <2> HIDE DEF it
  <2>6. /\ \A v \in Range(s) : \E i \in 1..Len(ids) : v \in Range(it[i])
        /\ \A i \in 1..Len(ids) : \A v \in Range(it[i]) : v \in Range(s)
    BY <2>2, RowsRange
  <2>7. \A v \in Range(s) : \E b \in Range(ids) : v \in Range(bs[b].items)
    BY <2>4, <2>5, <2>6
  <2>8. \A b \in Range(ids) : Range(bs[b].items) \subseteq Range(s)
    BY <2>4, <2>5, <2>6
  <2> QED
    BY <2>3, <2>4, <2>7, <2>8
<1>4. ASSUME NEW v \in MembersOf(bs) PROVE v \in Held(K, el)
  <2>1. PICK b \in 1..Len(bs) : v \in Range(bs[b].items)
    BY DEF MembersOf
  <2>2. PICK k \in K : b \in Range(ch[k])
    BY <1>2
  <2> QED
    BY <1>3, <2>1, <2>2 DEF Held
<1>5. ASSUME NEW v \in Held(K, el) PROVE v \in MembersOf(bs)
  <2>1. PICK k \in K : v \in Range(el[k])
    BY DEF Held
  <2>2. PICK b \in Range(ch[k]) : v \in Range(bs[b].items)
    BY <1>3, <2>1
  <2>3. b \in 1..Len(bs)
    BY <1>3
  <2> QED
    BY <2>2, <2>3 DEF MembersOf
<1>6. Held(K, el) \subseteq Values
  <2>1. \A k \in K : Range(el[k]) \subseteq Values
    BY <1>3, RangeIsIn
  <2> QED
    BY <2>1 DEF Held
<1>7. K \in SUBSET Nat /\ Keys(t) = K
  BY <1>1, KeysAre DEF IsIndex, Whole, Shape
<1> QED
  BY <1>2, <1>3, <1>4, <1>5, <1>6, <1>7

(* Where the index leads to from the hash of a value.                      *)
LEMMA FloorIs ==
    ASSUME NEW bs, NEW t, NEW K, NEW m, NEW ch, NEW el, Stored(bs, t, K, m, ch, el),
           NEW v \in Values, NEW key, key = LowerBound(t, Hash(v))
    PROVE  IsFloor(K, Hash(v), key) /\ key \in K /\ (v \in Held(K, el) <=> v \in Range(el[key]))
<1>1. 0 \in K /\ IsIndex(t, K, ChainInfos) /\ Filed(K, el) /\ K \in SUBSET Nat
  BY MembersHeld DEF Stored
<1>2. PICK U : t \in Trees(K, ChainInfos) /\ Shape(t, K, U) /\ Threaded(t, K)
  BY <1>1 DEF IsIndex, Whole
<1>3. Hash(v) \in Nat /\ \E b \in K : b <= Hash(v)
  <2>1. Hash(v) \in Nat
    BY HashsetAssumption DEF Hash
  <2>2. 0 <= Hash(v)
    BY <2>1
  <2> QED
    BY <1>1, <2>1, <2>2
<1>4. IsFloor(K, Hash(v), key)
  BY <1>2, <1>3, LowerBoundIs
<1>5. ASSUME NEW k \in K, v \in Range(el[k]) PROVE k = key
  <2>1. IsFloor(K, Hash(v), k)
    BY <1>1, <1>5 DEF Filed
  <2>2. k <= key /\ key <= k /\ k \in Nat /\ key \in Nat
    BY <1>1, <1>4, <2>1 DEF IsFloor
  <2> QED
    BY <2>2
<1>6. key \in K
  BY <1>4 DEF IsFloor
<1> QED
  BY <1>4, <1>5, <1>6 DEF Held

(* The chain that an operation works on.                                   *)
LEMMA ChainAtIs ==
    ASSUME NEW K, NEW m, NEW ch, NEW el, Stored(blocks, index, K, m, ch, el), NEW key \in K
    PROVE  /\ ChainAt(key) = [blocks |-> blocks, info |-> index.node[key].data, ids |-> ch[key]]
           /\ Elements(BlocksOf(ChainAt(key))) = el[key]
           /\ IsChain(blocks, index.node[key].data, ch[key], m)
<1> DEFINE info == index.node[key].data
           ids == ch[key]
           s == el[key]
<1>1. blocks \in Seq(Blocks) /\ ChainHolds(blocks, info, ids, m, s)
  BY DEF Stored, AllChains
<1>2. /\ IsChain(blocks, info, ids, m) /\ ChainIds(blocks, info.first) = ids
      /\ Elements([i \in DOMAIN ids |-> blocks[ids[i]]]) = s
  <2> HIDE DEF info, ids, s
  <2> QED
    BY <1>1, HeldIs
<1>3. ChainAt(key) = [blocks |-> blocks, info |-> info, ids |-> ids]
  BY <1>2 DEF ChainAt
<1>4. BlocksOf(ChainAt(key)) = [i \in DOMAIN ids |-> blocks[ids[i]]]
  BY <1>3 DEF BlocksOf
<1> QED
  BY <1>2, <1>3, <1>4

(* Data put at a key twice.                                                *)
PutAt(t, k, d) == [t EXCEPT !.node[k].data = d]

LEMMA DataTwice ==
    ASSUME NEW K, NEW D, NEW t, IsIndex(t, K, D), NEW k \in K, NEW d, NEW e
    PROVE  PutAt(PutAt(t, k, d), k, e) = PutAt(t, k, e)
<1>0. PICK u : u = PutAt(t, k, d) /\ u = [t EXCEPT !.node[k].data = d]
  BY DEF PutAt
<1>1. PICK U : Whole(t, K, D, U)
  BY DEF IsIndex
<1>2. t \in Trees(K, D) /\ t.node \in [K -> Nodes(K, D)] /\ t.node[k] \in Nodes(K, D)
  BY <1>1, KeysAre DEF Whole
<1> DEFINE A(x) == [t.node[k] EXCEPT !.data = x]
           B(x) == [n \in K |-> IF n = k THEN A(x) ELSE t.node[n]]
<1>3. \A x : [t EXCEPT !.node[k].data = x] = [root |-> t.root, first |-> t.first, node |-> B(x)]
  BY <1>2 DEF Trees
<1>4. [A(d) EXCEPT !.data = e] = A(e)
  BY <1>2 DEF Nodes
<1> HIDE DEF A
<1>5. [B(d) EXCEPT ![k] = A(e)] = B(e)
  OBVIOUS
<1>6. B(d)[k] = A(d)
  OBVIOUS
<1> DEFINE t1 == [root |-> t.root, first |-> t.first, node |-> B(d)]
<1>7. [t1 EXCEPT !.node[k].data = e] = [root |-> t.root, first |-> t.first, node |-> B(e)]
  <2>1. [t1 EXCEPT !.node[k].data = e] =
            [root |-> t.root, first |-> t.first, node |-> [B(d) EXCEPT ![k] = [B(d)[k] EXCEPT !.data = e]]]
    <3> HIDE DEF B
    <3> QED
      OBVIOUS
  <2> QED
    BY <1>4, <1>5, <1>6, <2>1
<1> HIDE DEF B
<1>9. u = t1
  BY <1>0, <1>3
<1> HIDE DEF t1
<1>10. [u EXCEPT !.node[k].data = e] = [t EXCEPT !.node[k].data = e]
  <2>1. [t EXCEPT !.node[k].data = e] = [root |-> t.root, first |-> t.first, node |-> B(e)]
    BY <1>3
  <2> QED
    BY <1>7, <1>9, <2>1
<1> QED
  BY <1>0, <1>10 DEF PutAt

LEMMA NewIs ==
    ASSUME NEW m \in Nat \ {0},
           NEW bs, bs = <<EmptyBlock(1)>>,
           NEW t, t = Insert(NewTree, 0, ChainInfo(1, 1, 1))
    PROVE  StoredAs(bs, t, m, {})
<1> DEFINE K == {0}
           ids == <<1>>
           s == << >>
           info == ChainInfo(1, 1, 1)
           ch == [k \in K |-> ids]
           el == [k \in K |-> s]
<1>1. bs \in Seq(Blocks) /\ Len(bs) = 1 /\ bs[1] = EmptyBlock(1)
  <2>1. EmptyBlock(1) \in Blocks
    BY DEF EmptyBlock, Blocks
  <2> QED
    BY <2>1
<1>2. IsIndex(t, K, ChainInfos) /\ t.node[0].data = info
  <2>1. info \in ChainInfos
    BY DEF ChainInfo, ChainInfos
  <2> HIDE DEF info
  <2> QED
    BY <2>1, FirstInsert DEF info
<1>3. /\ Len(ids) = 1 /\ ids[1] = 1 /\ DOMAIN ids = {1} /\ 1..1 = {1} /\ ids \in Seq(1..1)
      /\ DOMAIN s = {} /\ Len(s) = 0 /\ s \in Seq(Values)
  OBVIOUS
<1>4. Range(ids) = {1} /\ Range(s) = {}
  BY <1>3 DEF Range
<1>5. ChainHolds(bs, info, ids, m, s)
  <2>1. Linked(bs, info, ids)
    BY <1>1, <1>3 DEF Linked, NoRepeats, EmptyBlock
  <2>2. RowsOf(bs, ids) = [i \in 1..1 |-> << >>]
    BY <1>1, <1>3 DEF RowsOf, EmptyBlock
  <2>3. Rows(Values, RowsOf(bs, ids), 1, m, s)
    <3>1. Row(1, m) = 0
      BY RowIs
    <3> DEFINE it == [i \in 1..1 |-> << >>]
    <3>2. it \in [1..1 -> Seq(Values)] /\ \A i \in 1..1 : it[i] = << >> /\ Len(it[i]) = 0
      BY <1>3
    <3>3. 1..(1 - 1) = {} /\ 1 \in 1..1 /\ \A i \in 1..1 : 1..Len(it[i]) = {}
      BY <3>2
    <3> HIDE DEF it
    <3>4. Rows(Values, it, 1, m, s)
      BY <1>3, <3>1, <3>2, <3>3 DEF Rows
    <3> QED
      BY <2>2, <3>4 DEF it
  <2> QED
    BY <1>3, <2>1, <2>3 DEF ChainHolds
<1>6. ch[0] = ids /\ el[0] = s /\ 0 \in K /\ \A k \in K : k = 0
  OBVIOUS
<1> HIDE DEF ch, el, K, ids, s, info
<1>7. AllChains(bs, t, K, m, ch, el)
  BY <1>1, <1>2, <1>3, <1>4, <1>5, <1>6 DEF AllChains
<1>8. Filed(K, el)
  BY <1>3, <1>4, <1>6 DEF Filed, InOrder
<1>9. Filled(K, el)
  BY <1>6 DEF Filled, K, s
<1>10. Held(K, el) = {}
  BY <1>4, <1>6 DEF Held
<1> QED
  BY <1>2, <1>6, <1>7, <1>8, <1>9, <1>10 DEF Stored, StoredAs

-----------------------------------------------------------------------------
(* The insertion of a value. *)

(* A chain that has grown by v, in one piece.                              *)
LEMMA KeptWhole ==
    ASSUME NEW K, NEW ch, NEW el, Stored(blocks, index, K, maxItems, ch, el), NEW v \in Values,
           NEW key, key \in K, IsFloor(K, Hash(v), key), v \notin Held(K, el),
           NEW c, c = GrownBy(ChainAt(key), el[key], v),
           NEW t, t = [index EXCEPT !.node[key].data = c.info]
    PROVE  \E ch2, el2 : /\ Stored(c.blocks, t, K, maxItems, ch2, el2) /\ ch2[key] = c.ids
                         /\ Held(K, el2) = Held(K, el) \cup {v}
<1> DEFINE s == el[key]
           s2 == InsertAt(s, PlaceFor(s, v), v)
           ids == ch[key]
           info == index.node[key].data
           ch2 == [k \in K |-> IF k = key THEN c.ids ELSE ch[k]]
           el2 == [k \in K |-> IF k = key THEN s2 ELSE el[k]]
<1>1. /\ blocks \in Seq(Blocks) /\ ChainHolds(blocks, info, ids, maxItems, s)
      /\ InOrder(s) /\ \A w \in Range(s) : IsFloor(K, Hash(w), key)
  BY DEF Stored, AllChains, Filed
<1>2. s \in Seq(Values) /\ Sorted(Values, s) /\ v \notin Range(s)
  BY MembersHeld DEF Held
<1>3. /\ ChainHolds(c.blocks, c.info, c.ids, maxItems, s2)
      /\ Beside(c.blocks, c.ids, blocks, ids)
  <2>1. c = GrownBy([blocks |-> blocks, info |-> info, ids |-> ids], s, v)
    BY ChainAtIs
  <2> HIDE DEF info, ids, s
  <2> QED
    BY <1>1, <2>1, GrownIs DEF s2
<1>4. InOrder(s2) /\ Range(s2) = Range(s) \cup {v} /\ s2 # << >>
  <2>1. PlaceFor(s, v) \in 1..(Len(s) + 1)
    BY <1>2, PlaceForIs
  <2>2. Range(s2) = Range(s) \cup {v}
    <3> DEFINE at == PlaceFor(s, v)
    <3>1. at \in 1..(Len(s) + 1)
      BY <2>1
    <3> HIDE DEF at, s
    <3>2. Range(InsertAt(s, at, v)) = Range(s) \cup {v}
      BY <1>2, <3>1, InsertAtRange
    <3> QED
      BY <3>2 DEF at
  <2>3. Sorted(Values, s2)
    BY <1>2, InsertAtInOrder
  <2>4. v \in Range(s2) /\ DOMAIN << >> = {}
    BY <2>2
  <2> QED
    BY <2>2, <2>3, <2>4 DEF Sorted, Range
<1>5. \A w \in Range(s2) : IsFloor(K, Hash(w), key)
  BY <1>1, <1>4
<1>6. Stored(c.blocks, t, K, maxItems, ch2, el2)
  <2> HIDE DEF s2
  <2> QED
    BY <1>3, <1>4, <1>5, KeepIs
<1>7. Held(K, el2) = Held(K, el) \cup {v}
  <2>1. el2[key] = s2 /\ \A k \in K \ {key} : el2[k] = el[k]
    OBVIOUS
  <2> HIDE DEF el2, s2
  <2> QED
    BY <1>4, <2>1 DEF Held
<1> QED
  BY <1>6, <1>7

(* What its cut makes of it.                                               *)
LEMMA CutInTwo ==
    ASSUME NEW c, NEW K, NEW ch, NEW el, NEW key \in K, IsIndex(index, K, ChainInfos),
           NEW t, t = [index EXCEPT !.node[key].data = c.info],
           Stored(c.blocks, t, K, maxItems, ch, el), ch[key] = c.ids, c.info = t.node[key].data,
           PartitionedBlock(BlocksOf(c)) # 0, Split(c, key)
    PROVE  StoredAs(blocks', index', maxItems, Held(K, el))
<1> DEFINE ids == c.ids
           n == Len(ids)
           p == PartitionedBlock(BlocksOf(c))
           left == ids[p]
           right == ids[p + 1]
           info == ChainInfo(ids[1], left, p)
           info2 == ChainInfo(right, ids[n], n - p)
           k2 == FirstHash(c.blocks[right])
<1>1. c.blocks \in Seq(Blocks) /\ Linked(c.blocks, c.info, ids)
  BY DEF Stored, AllChains, ChainHolds
<1>2. /\ n \in Nat \ {0} /\ DOMAIN ids = 1..n
      /\ c.info = ChainInfo(ids[1], ids[n], n)
  BY <1>1, LinkedIs
<1>3. Len(BlocksOf(c)) = n /\ \A i \in 1..n : BlocksOf(c)[i] = c.blocks[ids[i]]
  <2>1. BlocksOf(c) = [i \in 1..n |-> c.blocks[ids[i]]]
    BY <1>2 DEF BlocksOf
  <2> QED
    BY <1>2, <2>1
<1>4. p \in 1..(n - 1) /\ k2 # LastHash(c.blocks[left])
  <2>1. p \in 1..(n - 1) /\ FirstHash(BlocksOf(c)[p + 1]) # LastHash(BlocksOf(c)[p])
    <3>1. Len(BlocksOf(c)) \in Nat \ {0}
      BY <1>2, <1>3
    <3>2. p \in 0..(Len(BlocksOf(c)) - 1) /\ p # 0 /\ FirstHash(BlocksOf(c)[p + 1]) # LastHash(BlocksOf(c)[p])
      BY <3>1, PartitionedBlockIsOne
    <3>3. p \in 1..(n - 1)
      <4> HIDE DEF p, n
      <4> QED
        BY <1>2, <1>3, <3>2
    <3> QED
      BY <3>2, <3>3
  <2>2. p \in 1..n /\ p + 1 \in 1..n
    <3> HIDE DEF n, p
    <3> QED
      BY <1>2, <2>1
  <2> QED
    BY <1>3, <2>1, <2>2
<1>5. c.info.first = ids[1] /\ c.info.last = ids[n]
  <2>1. PICK i, x, y : i = c.info /\ x = ids[1] /\ y = ids[n] /\ i = ChainInfo(x, y, n)
    BY <1>2
  <2>2. i.first = x /\ i.last = y
    BY <2>1 DEF ChainInfo
  <2> QED
    BY <2>1, <2>2
<1>6. /\ blocks' = CutLinks(c.blocks, left, right)
      /\ index' = Insert([index EXCEPT !.node[key].data = info], k2, info2)
  BY <1>5 DEF Split, CutLinks
<1>7. [t EXCEPT !.node[key].data = info] = [index EXCEPT !.node[key].data = info]
  <2> HIDE DEF info
  <2>1. t = PutAt(index, key, c.info)
    BY DEF PutAt
  <2>2. PutAt(PutAt(index, key, c.info), key, info) = PutAt(index, key, info)
    BY DataTwice
  <2>3. PutAt(t, key, info) = PutAt(index, key, info)
    BY <2>1, <2>2
  <2> QED
    BY <2>3 DEF PutAt
<1>8. index' = Insert([t EXCEPT !.node[key].data = info], k2, info2)
  BY <1>6, <1>7
<1> HIDE DEF p
<1>9. /\ p \in 1..(Len(ch[key]) - 1) /\ left = ch[key][p] /\ right = ch[key][p + 1]
      /\ info = ChainInfo(ch[key][1], left, p)
      /\ info2 = ChainInfo(right, ch[key][Len(ch[key])], Len(ch[key]) - p)
  BY <1>4
<1> HIDE DEF left, right, info, info2, k2, ids, n
<1>10. k2 = FirstHash(c.blocks[right])
  BY DEF k2
<1>11. PICK bs, ix : bs = blocks' /\ ix = index' /\ bs = CutLinks(c.blocks, left, right)
  BY <1>6
<1>12. StoredAs(bs, ix, maxItems, Held(K, el))
  BY <1>4, <1>8, <1>9, <1>10, <1>11, SplitIs
<1> QED
  BY <1>11, <1>12

LEMMA AddIs ==
    ASSUME NEW K, NEW ch, NEW el, Stored(blocks, index, K, maxItems, ch, el),
           NEW v \in Values, Add(v)
    PROVE  /\ answer' = <<v, v \in Held(K, el)>> /\ maxItems' = maxItems
           /\ v \in Held(K, el) => UNCHANGED <<blocks, index, size>>
           /\ v \notin Held(K, el) =>
                 size' = size + 1 /\ StoredAs(blocks', index', maxItems, Held(K, el) \cup {v})
<1> DEFINE key == LowerBound(index, Hash(v))
           c == ChainAt(key)
           all == Elements(BlocksOf(c))
           at == PlaceFor(all, v)
           known == at <= Len(all) /\ all[at] = v
           new == GrownBy(c, all, v)
<1>1. key \in K /\ IsFloor(K, Hash(v), key) /\ (v \in Held(K, el) <=> v \in Range(el[key]))
  BY FloorIs
<1> HIDE DEF key
<1>2. all = el[key]
  BY <1>1, ChainAtIs
<1>3. Sorted(Values, el[key])
  BY <1>1, MembersHeld
<1>4. known <=> v \in Held(K, el)
  BY <1>1, <1>2, <1>3, PlaceForIs
<1>5. /\ answer' = <<v, known>> /\ maxItems' = maxItems
      /\ known => UNCHANGED <<blocks, index, size>>
      /\ ~ known => /\ size' = size + 1
                    /\ IF ShouldSplit(new.info, BlocksOf(new)) THEN Split(new, key) ELSE KeepWhole(new, key)
  BY DEF Add, PlaceFor, GrownBy, key
<1>6. known = (v \in Held(K, el))
  BY <1>4
<1> HIDE DEF known, all
<1>7. ASSUME v \notin Held(K, el) PROVE (size' = size + 1 /\ StoredAs(blocks', index', maxItems, Held(K, el) \cup {v}))
  <2> DEFINE t == [index EXCEPT !.node[key].data = new.info]
  <2>1. new = GrownBy(ChainAt(key), el[key], v)
    BY <1>2
  <2> HIDE DEF new, c
  <2>2. PICK ch1, el1 : /\ Stored(new.blocks, t, K, maxItems, ch1, el1) /\ ch1[key] = new.ids
                        /\ Held(K, el1) = Held(K, el) \cup {v}
    BY <1>1, <1>7, <2>1, KeptWhole
  <2>3. CASE ShouldSplit(new.info, BlocksOf(new))
    <3>1. PartitionedBlock(BlocksOf(new)) # 0 /\ Split(new, key)
      BY <1>4, <1>5, <1>7, <2>3 DEF ShouldSplit
    <3>2. IsIndex(index, K, ChainInfos) /\ IsIndex(t, K, ChainInfos)
      BY <2>2 DEF Stored
    <3>3. new.info = t.node[key].data
      <4>1. PICK U : Whole(index, K, ChainInfos, U)
        BY <3>2 DEF IsIndex
      <4>2. index \in Trees(K, ChainInfos) /\ index.node \in [K -> Nodes(K, ChainInfos)]
            /\ index.node[key] \in Nodes(K, ChainInfos)
        BY <1>1, <4>1, KeysAre DEF Whole
      <4> QED
        BY <1>1, <4>2 DEF Trees, Nodes
    <3>4. PICK x, u : x = new /\ u = t /\ u = [index EXCEPT !.node[key].data = x.info]
      OBVIOUS
    <3> HIDE DEF t
    <3>5. /\ IsIndex(index, K, ChainInfos)
          /\ Stored(x.blocks, u, K, maxItems, ch1, el1) /\ ch1[key] = x.ids /\ x.info = u.node[key].data
          /\ PartitionedBlock(BlocksOf(x)) # 0 /\ Split(x, key)
      BY <2>2, <3>1, <3>2, <3>3, <3>4
    <3>6. StoredAs(blocks', index', maxItems, Held(K, el1))
      BY <1>1, <3>4, <3>5, CutInTwo
    <3> QED
      BY <1>4, <1>5, <1>7, <2>2, <3>6
  <2>4. CASE ~ ShouldSplit(new.info, BlocksOf(new))
    <3>1. blocks' = new.blocks /\ index' = t /\ size' = size + 1
      BY <1>4, <1>5, <1>7, <2>4 DEF KeepWhole
    <3> QED
      BY <2>2, <3>1 DEF StoredAs
  <2> QED
    BY <2>3, <2>4
<1> QED
  BY <1>5, <1>6, <1>7

-----------------------------------------------------------------------------
(* The invariant. *)

IInv ==
    /\ StoredAs(blocks, index, maxItems, Members)
    /\ maxItems \in Capacities
    /\ answer \in {<< >>} \cup (Values \X BOOLEAN)
    /\ IsFiniteSet(Members) /\ size = Cardinality(Members)

LEMMA MembersFollow ==
    /\ Members = MembersOf(blocks) /\ Members' = MembersOf(blocks')
    /\ \A bs, t, m, S : StoredAs(bs, t, m, S) => MembersOf(bs) = S /\ S \subseteq Values
<1>1. Members = MembersOf(blocks) /\ Members' = MembersOf(blocks')
  BY DEF Members, MembersOf, BlockIds
<1>2. ASSUME NEW bs, NEW t, NEW m, NEW S, StoredAs(bs, t, m, S)
      PROVE  MembersOf(bs) = S /\ S \subseteq Values
  <2>1. PICK K, ch, el : Stored(bs, t, K, m, ch, el) /\ Held(K, el) = S
    BY <1>2 DEF StoredAs
  <2>2. MembersOf(bs) = Held(K, el) /\ Held(K, el) \subseteq Values
    BY <2>1, MembersHeld
  <2> QED
    BY <2>1, <2>2
<1> QED
  BY <1>1, <1>2

LEMMA InitIs == Init => IInv /\ Members = {}
<1> SUFFICES ASSUME Init PROVE IInv /\ Members = {}
  OBVIOUS
<1>1. maxItems \in Capacities /\ maxItems \in Nat \ {0} /\ size = 0 /\ answer = << >>
  BY HashsetAssumption DEF Init
<1>2. StoredAs(blocks, index, maxItems, {})
  <2>1. blocks = <<EmptyBlock(1)>> /\ index = Insert(NewTree, 0, ChainInfo(1, 1, 1))
    BY DEF Init
  <2> QED
    BY <1>1, <2>1, NewIs
<1>3. Members = {}
  BY <1>2, MembersFollow
<1>4. IsFiniteSet({}) /\ Cardinality({}) = 0
  BY FS_EmptySet
<1> QED
  BY <1>1, <1>2, <1>3, <1>4 DEF IInv

(* What an insertion and a search do to the set and what they answer.      *)
LEMMA AddAnswers ==
    ASSUME IInv, NEW v \in Values, Add(v)
    PROVE  IInv' /\ answer' = <<v, v \in Members>> /\ Members' = Members \cup {v}
<1>1. /\ StoredAs(blocks, index, maxItems, Members) /\ maxItems \in Capacities
      /\ IsFiniteSet(Members) /\ size = Cardinality(Members)
  BY DEF IInv
<1>2. PICK K, ch, el : Stored(blocks, index, K, maxItems, ch, el) /\ Held(K, el) = Members
  BY <1>1 DEF StoredAs
<1>3. /\ answer' = <<v, v \in Members>> /\ maxItems' = maxItems
      /\ v \in Members => UNCHANGED <<blocks, index, size>>
      /\ v \notin Members =>
            size' = size + 1 /\ StoredAs(blocks', index', maxItems, Members \cup {v})
  BY <1>2, AddIs
<1>4. answer' \in {<< >>} \cup (Values \X BOOLEAN) /\ maxItems' \in Capacities
  <2>1. PICK r \in BOOLEAN : answer' = <<v, r>>
    <3>1. CASE v \in Members
      <4>1. (v \in Members) = TRUE
        BY <3>1
      <4> QED
        BY <1>3, <4>1, Zenon
    <3>2. CASE v \notin Members
      <4>1. (v \in Members) = FALSE
        BY <3>2
      <4> QED
        BY <1>3, <4>1, Zenon
    <3> QED
      BY <3>1, <3>2
  <2>2. <<v, r>> \in Values \X BOOLEAN
    OBVIOUS
  <2> QED
    BY <1>1, <1>3, <2>1, <2>2
<1>5. CASE v \in Members
  <2>1. blocks' = blocks /\ index' = index /\ size' = size /\ maxItems' = maxItems
    BY <1>3, <1>5
  <2>2. Members' = Members
    BY <2>1, MembersFollow
  <2>3. StoredAs(blocks', index', maxItems', Members')
    BY <1>1, <2>1, <2>2
  <2>4. Members' = Members \cup {v}
    BY <1>5, <2>2
  <2> QED
    BY <1>1, <1>3, <1>4, <2>1, <2>2, <2>3, <2>4 DEF IInv
<1>6. CASE v \notin Members
  <2>1. StoredAs(blocks', index', maxItems', Members \cup {v}) /\ size' = size + 1
    BY <1>3, <1>6
  <2>2. Members' = Members \cup {v}
    BY <2>1, MembersFollow
  <2>3. IsFiniteSet(Members \cup {v}) /\ Cardinality(Members \cup {v}) = Cardinality(Members) + 1
    BY <1>1, <1>6, FS_AddElement
  <2> QED
    BY <1>1, <1>3, <1>4, <2>1, <2>2, <2>3 DEF IInv
<1> QED
  BY <1>5, <1>6

LEMMA FindAnswers ==
    ASSUME IInv, NEW v \in Values, Find(v)
    PROVE  IInv' /\ answer' = <<v, v \in Members>> /\ Members' = Members
<1>1. /\ StoredAs(blocks, index, maxItems, Members) /\ maxItems \in Capacities
      /\ IsFiniteSet(Members) /\ size = Cardinality(Members)
  BY DEF IInv
<1>2. PICK K, ch, el : Stored(blocks, index, K, maxItems, ch, el) /\ Held(K, el) = Members
  BY <1>1 DEF StoredAs
<1> DEFINE key == LowerBound(index, Hash(v))
<1>3. key \in K /\ (v \in Members <=> v \in Range(el[key]))
  BY <1>2, FloorIs
<1>4. /\ answer' = <<v, FindInChain(Elements(BlocksOf(ChainAt(key))), v)>>
      /\ UNCHANGED <<maxItems, blocks, index, size>>
  BY DEF Find
<1> HIDE DEF key
<1>5. FindInChain(el[key], v) <=> v \in Range(el[key])
  <2>1. Sorted(Values, el[key])
    BY <1>2, <1>3, MembersHeld
  <2> QED
    BY <2>1, FindInChainIs
<1>6. Elements(BlocksOf(ChainAt(key))) = el[key]
  BY <1>2, <1>3, ChainAtIs
<1>7. FindInChain(el[key], v) = (v \in Members)
  <2>1. FindInChain(el[key], v) \in BOOLEAN
    BY DEF FindInChain
  <2> QED
    BY <1>3, <1>5, <2>1
<1>8. answer' = <<v, v \in Members>>
  BY <1>4, <1>6, <1>7
<1>9. Members' = Members
  BY <1>4, MembersFollow
<1>10. answer' \in {<< >>} \cup (Values \X BOOLEAN)
  <2>1. PICK r \in BOOLEAN : answer' = <<v, r>>
    <3>1. CASE v \in Members
      <4>1. (v \in Members) = TRUE
        BY <3>1
      <4> QED
        BY <1>8, <4>1, Zenon
    <3>2. CASE v \notin Members
      <4>1. (v \in Members) = FALSE
        BY <3>2
      <4> QED
        BY <1>8, <4>1, Zenon
    <3> QED
      BY <3>1, <3>2
  <2>2. <<v, r>> \in Values \X BOOLEAN
    OBVIOUS
  <2> QED
    BY <2>1, <2>2
<1>11. StoredAs(blocks', index', maxItems', Members')
  BY <1>1, <1>4, <1>9
<1> QED
  BY <1>1, <1>4, <1>8, <1>9, <1>10, <1>11 DEF IInv

LEMMA StutterIs ==
    ASSUME UNCHANGED vars
    PROVE  (IInv => IInv') /\ Members' = Members /\ answer' = answer
<1>1. /\ maxItems' = maxItems /\ blocks' = blocks /\ index' = index
      /\ size' = size /\ answer' = answer
  BY DEF vars
<1>2. Members' = Members
  BY <1>1, MembersFollow
<1> QED
  BY <1>1, <1>2 DEF IInv

(* The chains, their values and the index belong together in every state   *)
(* that is reached: the constructor makes them so, and insert and find     *)
(* leave them so (complex_hashset_base.h, try_ballance_chain).             *)
THEOREM InductiveInvariant == Spec => []IInv
<1>1. Init => IInv
  BY InitIs
<1>2. IInv /\ [Next]_vars => IInv'
  BY AddAnswers, FindAnswers, StutterIs DEF Next
<1> QED
  BY <1>1, <1>2, PTL DEF Spec

-----------------------------------------------------------------------------
(* What the invariant says. *)

(* The chain that k leads to has the blocks ids and holds s.               *)
Leads(k, ids, s) ==
    LET n == Len(ids)
    IN  /\ index.node[k].data = ChainInfo(ids[1], ids[n], n)
        /\ n \in Nat \ {0} /\ n \in 1..n /\ 1 \in 1..n
        /\ \A i \in 1..n :
              /\ ids[i] \in BlockIds
              /\ blocks[ids[i]].prev = IF i = 1 THEN ids[1] ELSE ids[i - 1]
              /\ blocks[ids[i]].next = IF i = n THEN ids[n] ELSE ids[i + 1]
              /\ blocks[ids[i]].items \in Seq(Values)
              /\ Len(blocks[ids[i]].items) <= maxItems
        /\ \A i \in 1..(n - 1) : Len(blocks[ids[i]].items) = maxItems
        /\ blocks[ids[n]].items # << >> \/ s = << >>
        /\ Range(ids) = {ids[i] : i \in 1..n}

LEMMA LimitsAre ==
    ASSUME NEW K, NEW ch, NEW el, Stored(blocks, index, K, maxItems, ch, el), NEW k \in K
    PROVE  Leads(k, ch[k], el[k])
<1> DEFINE ids == ch[k]
           n == Len(ids)
           s == el[k]
           info == index.node[k].data
           it == RowsOf(blocks, ids)
<1>1. blocks \in Seq(Blocks) /\ ChainHolds(blocks, info, ids, maxItems, s)
  BY DEF Stored, AllChains
<1> HIDE DEF ids, s, info
<1>2. /\ Linked(blocks, info, ids) /\ Rows(Values, it, n, maxItems, s)
      /\ n > 1 => blocks[ids[n]].items # << >>
  BY <1>1 DEF ChainHolds
<1>3. /\ n \in Nat \ {0} /\ n \in 1..n /\ 1 \in 1..n /\ DOMAIN ids = 1..n
      /\ info = ChainInfo(ids[1], ids[n], n)
      /\ \A i \in 1..n : ids[i] \in BlockIds
  BY <1>1, <1>2, LinkedIs DEF BlockIds
<1>4. \A i \in 1..n : /\ blocks[ids[i]].prev = IF i = 1 THEN ids[1] ELSE ids[i - 1]
                      /\ blocks[ids[i]].next = IF i = n THEN ids[n] ELSE ids[i + 1]
  BY <1>2 DEF Linked
<1>5. \A i \in 1..n : it[i] = blocks[ids[i]].items
  BY DEF RowsOf
<1> HIDE DEF it, n
<1>6. /\ maxItems \in Nat \ {0} /\ s \in Seq(Values) /\ Len(s) = Row(n, maxItems) + Len(it[n])
      /\ \A i \in 1..n : it[i] \in Seq(Values) /\ Len(it[i]) \in Nat /\ Len(it[i]) <= maxItems
      /\ \A i \in 1..(n - 1) : Len(it[i]) = maxItems
  BY <1>2, RowsAre
<1>7. \A i \in 1..(n - 1) : i \in 1..n
  BY <1>3
<1>8. blocks[ids[n]].items # << >> \/ s = << >>
  <2>1. CASE n > 1
    BY <1>2, <2>1
  <2>2. CASE ~ (n > 1)
    <3>1. n = 1
      BY <1>3, <2>2
    <3>2. Row(1, maxItems) = 0
      BY <1>6, RowIs
    <3>3. it[n] = << >> => Len(s) = 0
      <4>1. Len(<< >>) = 0
        OBVIOUS
      <4> QED
        BY <1>6, <3>1, <3>2, <4>1
    <3>4. Len(s) = 0 => s = << >>
      BY <1>6
    <3> QED
      BY <1>3, <1>5, <3>3, <3>4
  <2> QED
    BY <2>1, <2>2
<1>9. Range(ids) = {ids[i] : i \in 1..n}
  BY <1>3 DEF Range
<1>10. /\ \A i \in 1..n : blocks[ids[i]].items \in Seq(Values) /\ Len(blocks[ids[i]].items) <= maxItems
       /\ \A i \in 1..(n - 1) : Len(blocks[ids[i]].items) = maxItems
  BY <1>5, <1>6, <1>7
<1> QED
  BY <1>3, <1>4, <1>8, <1>9, <1>10 DEF Leads, ids, n, s, info

LEMMA TypeFollows == IInv => TypeOK
<1> SUFFICES ASSUME IInv PROVE TypeOK
  OBVIOUS
<1>1. /\ maxItems \in Capacities /\ answer \in {<< >>} \cup (Values \X BOOLEAN)
      /\ IsFiniteSet(Members) /\ size = Cardinality(Members)
  BY DEF IInv
<1>2. PICK K, ch, el : Stored(blocks, index, K, maxItems, ch, el)
  BY DEF IInv, StoredAs
<1>3. size \in Nat
  BY <1>1, FS_CardinalityType
<1>4. ASSUME NEW b \in BlockIds
      PROVE  /\ blocks[b].prev \in BlockIds /\ blocks[b].next \in BlockIds
             /\ blocks[b].items \in Seq(Values) /\ Len(blocks[b].items) <= maxItems
  <2>1. PICK k \in K : b \in Range(ch[k])
    BY <1>2 DEF Stored, AllChains, BlockIds
  <2> DEFINE ids == ch[k]
             n == Len(ids)
  <2>2. /\ n \in Nat \ {0} /\ n \in 1..n /\ 1 \in 1..n
        /\ \A i \in 1..n :
              /\ ids[i] \in BlockIds
              /\ blocks[ids[i]].prev = IF i = 1 THEN ids[1] ELSE ids[i - 1]
              /\ blocks[ids[i]].next = IF i = n THEN ids[n] ELSE ids[i + 1]
              /\ blocks[ids[i]].items \in Seq(Values)
              /\ Len(blocks[ids[i]].items) <= maxItems
        /\ Range(ids) = {ids[i] : i \in 1..n}
    <3>1. Leads(k, ids, el[k])
      BY <1>2, LimitsAre
    <3> HIDE DEF ids
    <3> QED
      BY <3>1 DEF Leads
  <2> HIDE DEF ids, n
  <2>3. PICK i \in 1..n : b = ids[i]
    BY <2>1, <2>2 DEF ids
  <2>4. (i # 1 => i - 1 \in 1..n) /\ (i # n => i + 1 \in 1..n)
    BY <2>2
  <2> QED
    BY <2>2, <2>3, <2>4
<1>5. TreeType(index, [first : BlockIds, last : BlockIds, count : Nat \ {0}])
  <2>1. PICK U : Whole(index, K, ChainInfos, U)
    BY <1>2 DEF Stored, IsIndex
  <2>2. /\ index \in Trees(K, ChainInfos) /\ Keys(index) = K /\ K \in SUBSET Nat
        /\ \A k \in K : index.node[k] \in Nodes(K, ChainInfos)
    BY <2>1, KeysAre DEF Whole, Shape
  <2>3. ASSUME NEW k \in K
        PROVE  index.node[k].data \in [first : BlockIds, last : BlockIds, count : Nat \ {0}]
    <3>1. /\ index.node[k].data = ChainInfo(ch[k][1], ch[k][Len(ch[k])], Len(ch[k]))
          /\ Len(ch[k]) \in Nat \ {0} /\ ch[k][1] \in BlockIds /\ ch[k][Len(ch[k])] \in BlockIds
      <4>1. Leads(k, ch[k], el[k])
        BY <1>2, LimitsAre
      <4> QED
        BY <4>1 DEF Leads
    <3> QED
      BY <3>1 DEF ChainInfo
  <2> QED
    BY <2>2, <2>3 DEF TreeType, Trees, Nodes
<1> QED
  BY <1>1, <1>3, <1>4, <1>5 DEF TypeOK

LEMMA WholeFollows == IInv => ChainsAreWhole
<1> SUFFICES ASSUME IInv PROVE ChainsAreWhole
  OBVIOUS
<1>1. size = Cardinality(Members)
  BY DEF IInv
<1>2. PICK K, ch, el : Stored(blocks, index, K, maxItems, ch, el) /\ Held(K, el) = Members
  BY DEF IInv, StoredAs
<1>3. Keys(index) = K
  BY <1>2, MembersHeld
<1>4. \A k \in K : ChainOf(k) = ch[k]
  <2> SUFFICES ASSUME NEW k \in K PROVE ChainOf(k) = ch[k]
    OBVIOUS
  <2>1. ChainAt(k) = [blocks |-> blocks, info |-> index.node[k].data, ids |-> ch[k]]
    BY <1>2, ChainAtIs
  <2> QED
    BY <2>1 DEF ChainOf
<1>5. \A k \in K : {ChainOf(k)[i] : i \in 1..Len(ChainOf(k))} = Range(ch[k])
  <2> SUFFICES ASSUME NEW k \in K PROVE {ChainOf(k)[i] : i \in 1..Len(ChainOf(k))} = Range(ch[k])
    OBVIOUS
  <2>1. Range(ch[k]) = {ch[k][i] : i \in 1..Len(ch[k])}
    <3> DEFINE ids == ch[k]
    <3>1. Leads(k, ids, el[k])
      BY <1>2, LimitsAre
    <3> HIDE DEF ids
    <3>2. Range(ids) = {ids[i] : i \in 1..Len(ids)}
      BY <3>1 DEF Leads
    <3> QED
      BY <3>2 DEF ids
  <2> QED
    BY <1>4, <2>1
<1>6. ASSUME NEW b \in BlockIds
      PROVE  \E k \in K : /\ b \in Range(ch[k])
                          /\ \A m \in K \ {k} : b \notin Range(ch[m])
  <2>1. /\ \E k \in K : b \in Range(ch[k])
        /\ \A k, l \in K : k # l => Range(ch[k]) \cap Range(ch[l]) = {}
    BY <1>2 DEF Stored, AllChains, BlockIds
  <2> QED
    BY <2>1
<1>7. ASSUME NEW k \in K
      PROVE  LET ids == ChainOf(k)
                 n   == Len(ids)
             IN  /\ index.node[k].data = ChainInfo(ids[1], ids[n], n)
                 /\ \A i \in 1..n : blocks[ids[i]].prev = IF i = 1 THEN ids[1] ELSE ids[i - 1]
                 /\ \A i \in 1..(n - 1) : Len(blocks[ids[i]].items) = maxItems
                 /\ blocks[ids[n]].items # << >> \/ size = 0
  <2> DEFINE ids == ch[k]
             n == Len(ids)
  <2>1. /\ index.node[k].data = ChainInfo(ids[1], ids[n], n)
        /\ \A i \in 1..n : blocks[ids[i]].prev = IF i = 1 THEN ids[1] ELSE ids[i - 1]
        /\ \A i \in 1..(n - 1) : Len(blocks[ids[i]].items) = maxItems
        /\ blocks[ids[n]].items # << >> \/ el[k] = << >>
    <3>1. Leads(k, ids, el[k])
      BY <1>2, LimitsAre
    <3> HIDE DEF ids
    <3> QED
      BY <3>1 DEF Leads
  <2>2. el[k] = << >> => size = 0
    <3> HAVE el[k] = << >>
    <3>1. K = {0} /\ el[0] = << >>
      BY <1>2 DEF Stored, Filled
    <3>2. Range(<< >>) = {}
      BY DEF Range
    <3>3. Members = {}
      BY <1>2, <3>1, <3>2 DEF Held
    <3> QED
      BY <1>1, <3>3, FS_EmptySet
  <2>3. ChainOf(k) = ids
    BY <1>4
  <2> HIDE DEF ids
  <2> QED
    BY <2>1, <2>2, <2>3
<1> DEFINE Ids(k) == {ChainOf(k)[i] : i \in 1..Len(ChainOf(k))}
<1>8. \A b \in BlockIds : \E k \in K : b \in Ids(k) /\ \A m \in K \ {k} : b \notin Ids(m)
  <2> HIDE DEF Ids
  <2> QED
    BY <1>5, <1>6 DEF Ids
<1> QED
  BY <1>1, <1>3, <1>7, <1>8 DEF ChainsAreWhole

LEMMA ChainFollows == IInv => HashFindsItsChain
<1> SUFFICES ASSUME IInv PROVE HashFindsItsChain
  OBVIOUS
<1>1. PICK K, ch, el : Stored(blocks, index, K, maxItems, ch, el) /\ Held(K, el) = Members
  BY DEF IInv, StoredAs
<1>2. Keys(index) = K /\ K \in SUBSET Nat
  BY <1>1, MembersHeld
<1>3. ASSUME NEW k \in K
      PROVE  /\ Elements(BlocksOf(ChainAt(k))) = el[k]
             /\ \A i \in 1..Len(el[k]) :
                   /\ LowerBound(index, Hash(el[k][i])) = k
                   /\ i < Len(el[k]) => Less(el[k][i], el[k][i + 1])
  <2>1. Elements(BlocksOf(ChainAt(k))) = el[k]
    BY <1>1, ChainAtIs
  <2>2. /\ el[k] \in Seq(Values) /\ InOrder(el[k])
        /\ \A v \in Range(el[k]) : IsFloor(K, Hash(v), k)
    BY <1>1, MembersHeld DEF Stored, Filed
  <2> DEFINE s == el[k]
  <2>3. s \in Seq(Values) /\ InOrder(s)
    BY <2>2
  <2>4. ASSUME NEW i \in 1..Len(s) PROVE LowerBound(index, Hash(s[i])) = k
    <3> DEFINE v == s[i]
               key == LowerBound(index, Hash(v))
    <3>1. v \in Values /\ v \in Range(s)
      BY <2>3 DEF Range
    <3>2. IsFloor(K, Hash(v), k)
      BY <2>2, <3>1
    <3> HIDE DEF v, s
    <3>3. IsFloor(K, Hash(v), key)
      BY <1>1, <3>1, FloorIs
    <3> HIDE DEF key
    <3>4. k \in Nat /\ key \in Nat /\ k <= key /\ key <= k
      BY <1>2, <3>2, <3>3 DEF IsFloor
    <3>5. key = k
      BY <3>4
    <3> QED
      BY <3>5 DEF key, v
  <2>5. ASSUME NEW i \in 1..Len(s), i < Len(s) PROVE Less(s[i], s[i + 1])
    <3> HIDE DEF s
    <3>1. Len(s) \in Nat
      BY <2>3
    <3>2. i + 1 \in 1..Len(s) /\ i < i + 1
      BY <2>5, <3>1
    <3> QED
      BY <2>3, <3>2 DEF InOrder
  <2> QED
    BY <2>1, <2>4, <2>5
<1> QED
  BY <1>2, <1>3 DEF HashFindsItsChain

(* The parts of the state have their types; no block holds more values     *)
(* than fit (block_chain.h, insert).                                       *)
THEOREM TypeIsKept == Spec => []TypeOK
  BY InductiveInvariant, TypeFollows, PTL

(* Every block is in one chain, whose limits and links are true, and only  *)
(* the last block of a chain has room: the places that insert and          *)
(* fast_offset compute are right for every capacity (block_chain.h).       *)
THEOREM ChainsStayWhole == Spec => []ChainsAreWhole
  BY InductiveInvariant, WholeFollows, PTL

(* However chains are cut, the hash of a value leads to the chain that     *)
(* holds it, and the chain is sorted (complex_hashset_base.h,              *)
(* try_ballance_chain).                                                    *)
THEOREM HashesLead == Spec => []HashFindsItsChain
  BY InductiveInvariant, ChainFollows, PTL

(* The index is a balanced search tree with neighbours linked after any    *)
(* order of insertions: the rotations do what they are for (avl_tree.h,    *)
(* ballance).                                                              *)
THEOREM IndexStaysSound == Spec => []IndexIsSound
<1>1. IInv => IndexIsSound
  <2> SUFFICES ASSUME IInv PROVE IndexIsSound
    OBVIOUS
  <2>1. PICK K : IsIndex(index, K, ChainInfos)
    BY DEF IInv, StoredAs, Stored
  <2> QED
    BY <2>1, IndexSound DEF IndexIsSound
<1> QED
  BY <1>1, InductiveInvariant, PTL

(* The hash set is a set: insert answers that a value is new exactly when  *)
(* it was not inserted before, and find that it is known exactly when it   *)
(* was (buffered_complex_hashset.h, insert and find).                      *)
THEOREM IsAStateSet == Spec => RefinesStateSet
<1>1. Init => Abstract!Init
  BY InitIs DEF Init, Abstract!Init
<1>2. IInv /\ [Next]_vars => [Abstract!Next]_(Abstract!vars)
  <2> SUFFICES ASSUME IInv, [Next]_vars PROVE [Abstract!Next]_(Abstract!vars)
    OBVIOUS
  <2>1. CASE UNCHANGED vars
    BY <2>1, StutterIs DEF Abstract!vars
  <2>2. ASSUME NEW v \in Values, Add(v) PROVE Abstract!Next
    <3>1. answer' = <<v, v \in Members>> /\ Members' = Members \cup {v}
      BY <2>2, AddAnswers
    <3> QED
      BY <3>1 DEF Abstract!Next, Abstract!Insert, Abstract!Answer
  <2>3. ASSUME NEW v \in Values, Find(v) PROVE Abstract!Next
    <3>1. answer' = <<v, v \in Members>> /\ Members' = Members
      BY <2>3, FindAnswers
    <3> QED
      BY <3>1 DEF Abstract!Next, Abstract!Find, Abstract!Answer
  <2> QED
    BY <2>1, <2>2, <2>3 DEF Next
<1> QED
  BY <1>1, <1>2, InductiveInvariant, PTL DEF Spec, RefinesStateSet, Abstract!Spec
=============================================================================
