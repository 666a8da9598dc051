--------------------------- MODULE BlockChainProofs ---------------------------
(***************************************************************************)
(* What the proofs about the two hash sets share: functions that are       *)
(* defined by recursion on numbers, and chains of blocks.                  *)
(***************************************************************************)
EXTENDS BlockChain, FiniteSetTheorems, SequenceTheorems, WellFoundedInduction, TLAPS

-----------------------------------------------------------------------------
(* A set of natural numbers that has an element has a least one.           *)
LEMMA LeastNumber ==
    ASSUME NEW T \in SUBSET Nat, T # {}
    PROVE  \E x \in T : \A y \in T : x <= y
<1> DEFINE R == OpToRel(<, Nat)
<1>1. IsWellFoundedOn(R, Nat)
  BY NatLessThanWellFounded
<1>2. \A x, y \in Nat : <<y, x>> \in R <=> y < x
  BY DEF OpToRel
<1> HIDE DEF R
<1>3. \E x \in T : \A y \in T : ~ (<<y, x>> \in R)
  BY <1>1, WFMin, Zenon
<1>4. PICK x \in T : \A y \in T : ~ (<<y, x>> \in R)
  BY <1>3
<1>5. ASSUME NEW y \in T PROVE x <= y
  <2>1. ~ (<<y, x>> \in R) /\ x \in Nat /\ y \in Nat
    BY <1>4
  <2>2. ~ (y < x)
    BY <2>1, <1>2, Zenon
  <2> QED
    BY <2>1, <2>2
<1> QED
  BY <1>5

(* A set that has 0, and with a number up to N the next, has all of them.  *)
LEMMA CountUp ==
    ASSUME NEW N \in Nat, NEW T, 0 \in T, \A i \in 1..N : i - 1 \in T => i \in T
    PROVE  \A i \in 0..N : i \in T
<1> DEFINE Out == {i \in 0..N : i \notin T}
<1> SUFFICES ASSUME Out # {} PROVE FALSE
  OBVIOUS
<1>1. PICK i \in Out : \A j \in Out : i <= j
  <2>1. Out \in SUBSET Nat
    OBVIOUS
  <2> HIDE DEF Out
  <2> QED
    BY <2>1, LeastNumber
<1>2. i \in 0..N /\ i \notin T /\ i # 0
  BY <1>1
<1>3. i \in 1..N /\ i - 1 \in 0..N /\ ~ (i <= i - 1)
  BY <1>2
<1>4. i - 1 \in T
  BY <1>1, <1>3
<1> QED
  BY <1>2, <1>3, <1>4

(* A function that begins with base and goes on by steps within D.         *)
StepsIn(N, D, step) == \A i \in 1..N : \A d \in D : step[i][d] \in D

GoesOn(g, N, D, base, step) ==
    /\ g \in [0..N -> D] /\ g[0] = base
    /\ \A i \in 1..N : g[i] = step[i][g[i - 1]]

(* It exists.                                                              *)
LEMMA Recursion ==
    ASSUME NEW N \in Nat, NEW D, NEW base \in D, NEW step, StepsIn(N, D, step)
    PROVE  \E g : GoesOn(g, N, D, base, step)
<1> DEFINE Upto(g, n) == /\ g \in [0..n -> D] /\ g[0] = base
                         /\ \A i \in 1..n : g[i] = step[i][g[i - 1]]
           T == {n \in 0..N : \E g : Upto(g, n)}
<1>1. 0 \in T
  <2>1. Upto([i \in 0..0 |-> base], 0)
    OBVIOUS
  <2>2. 0 \in 0..N
    OBVIOUS
  <2> HIDE DEF Upto
  <2> QED
    BY <2>1, <2>2
<1>2. ASSUME NEW n \in 1..N, n - 1 \in T PROVE n \in T
  <2>1. PICK g : Upto(g, n - 1)
    BY <1>2
  <2>2. n \in Int /\ n >= 1 /\ n - 1 \in 0..(n - 1) /\ n \in 0..N
    OBVIOUS
  <2>3. g[n - 1] \in D
    BY <2>1, <2>2
  <2> DEFINE h == [i \in 0..n |-> IF i = n THEN step[n][g[n - 1]] ELSE g[i]]
  <2>4. h \in [0..n -> D] /\ h[0] = base
    <3>1. step[n][g[n - 1]] \in D
      BY <2>3 DEF StepsIn
    <3>2. \A i \in 0..n : i # n => i \in 0..(n - 1) /\ g[i] \in D
      BY <2>1, <2>2
    <3>3. 0 \in 0..n /\ 0 # n
      BY <2>2
    <3> QED
      BY <2>1, <3>1, <3>2, <3>3
  <2>5. ASSUME NEW i \in 1..n PROVE h[i] = step[i][h[i - 1]]
    <3>1. i \in 0..n /\ i - 1 \in 0..n /\ i - 1 # n
      BY <2>2
    <3>2. h[i - 1] = g[i - 1] /\ h[i] = IF i = n THEN step[n][g[n - 1]] ELSE g[i]
      BY <3>1
    <3>3. i # n => i \in 1..(n - 1)
      BY <2>2
    <3> HIDE DEF h
    <3> QED
      BY <2>1, <3>2, <3>3
  <2>6. Upto(h, n)
    <3> HIDE DEF h
    <3> QED
      BY <2>4, <2>5
  <2> HIDE DEF h, Upto
  <2> QED
    BY <2>2, <2>6
<1> HIDE DEF T
<1>3. \A n \in 0..N : n \in T
  BY <1>1, <1>2, CountUp
<1>4. N \in T
  BY <1>3
<1> QED
  BY <1>4 DEF T, GoesOn

LEMMA OnlyOne == \A x : Only({x}) = x
  BY DEF Only
-----------------------------------------------------------------------------
(* The sequences the proofs speak of. *)

NoRepeats(s) == \A i, j \in DOMAIN s : s[i] = s[j] => i = j

LEMMA IsSequence ==
    ASSUME NEW S, NEW n \in Nat, NEW s, s = [i \in 1..n |-> s[i]],
           \A i \in 1..n : s[i] \in S
    PROVE  s \in Seq(S) /\ Len(s) = n /\ DOMAIN s = 1..n
OBVIOUS

(* What the elements of a sequence are, and of a longer one.               *)
LEMMA RangeOfAppend ==
    ASSUME NEW S, NEW s \in Seq(S), NEW e \in S
    PROVE  Range(Append(s, e)) = Range(s) \cup {e}
<1>1. /\ Append(s, e) \in Seq(S) /\ DOMAIN Append(s, e) = 1..(Len(s) + 1)
      /\ DOMAIN s = 1..Len(s) /\ Len(s) \in Nat
      /\ \A i \in 1..Len(s) : Append(s, e)[i] = s[i]
      /\ Append(s, e)[Len(s) + 1] = e
  OBVIOUS
<1> DEFINE t == Append(s, e)
<1> HIDE DEF t
<1>2. \A i \in 1..(Len(s) + 1) : i \in 1..Len(s) \/ i = Len(s) + 1
  BY <1>1
<1>3. /\ \A i \in 1..Len(s) : i \in 1..(Len(s) + 1)
      /\ Len(s) + 1 \in 1..(Len(s) + 1)
  BY <1>1
<1> QED
  BY <1>1, <1>2, <1>3 DEF Range, t

LEMMA RangeOfSubSeq ==
    ASSUME NEW S, NEW s \in Seq(S), NEW a \in Nat \ {0}, NEW b \in Int, b <= Len(s)
    PROVE  /\ Range(SubSeq(s, a, b)) \subseteq Range(s)
           /\ \A i \in a..b : s[i] \in Range(SubSeq(s, a, b))
<1> DEFINE u == SubSeq(s, a, b)
<1>1. CASE b < a
  BY <1>1 DEF Range
<1>2. CASE b >= a
  <2>1. /\ u \in Seq(S) /\ DOMAIN u = 1..(b - a + 1) /\ DOMAIN s = 1..Len(s)
        /\ \A i \in 1..(b - a + 1) : u[i] = s[a + i - 1] /\ a + i - 1 \in 1..Len(s)
    BY <1>2
  <2> HIDE DEF u
  <2>2. \A i \in a..b : i - a + 1 \in 1..(b - a + 1) /\ a + (i - a + 1) - 1 = i
    BY <1>2
  <2>3. \A i \in a..b : s[i] \in Range(u)
    BY <2>1, <2>2 DEF Range
  <2>4. Range(u) \subseteq Range(s)
    BY <2>1 DEF Range
  <2> QED
    BY <2>3, <2>4 DEF u
<1> QED
  BY <1>1, <1>2

LEMMA RangeIsIn ==
    ASSUME NEW S, NEW s \in Seq(S)
    PROVE  Range(s) \subseteq S /\ DOMAIN s = 1..Len(s) /\ Len(s) \in Nat
           /\ \A i \in DOMAIN s : s[i] \in Range(s)
<1>1. DOMAIN s = 1..Len(s) /\ Len(s) \in Nat /\ \A i \in 1..Len(s) : s[i] \in S
  BY LenProperties, ElementOfSeq
<1> QED
  BY <1>1 DEF Range

LEMMA PairIs ==
    ASSUME NEW S, NEW s \in S, NEW t \in S
    PROVE  <<s, t>> \in [{1, 2} -> S] /\ <<s, t>>[1] = s /\ <<s, t>>[2] = t
<1>1. {1, 2} = 1..2
  OBVIOUS
<1>2. <<s, t>> \in [1..2 -> S]
  OBVIOUS
<1> QED
  BY <1>1, <1>2
-----------------------------------------------------------------------------
(* The values of the blocks of a chain. *)

LEMMA ElementsBuilt ==
    ASSUME NEW V, NEW bs, Len(bs) \in Nat, \A i \in 1..Len(bs) : bs[i].items \in Seq(V)
    PROVE  \E g \in [0..Len(bs) -> Seq(V)] :
              /\ g[0] = << >> /\ Elements(bs) = g[Len(bs)]
              /\ \A i \in 1..Len(bs) : g[i] = g[i - 1] \o bs[i].items
<1> DEFINE N == Len(bs)
           step == [i \in 1..N |-> [s \in Seq(V) |-> s \o bs[i].items]]
<1>1. StepsIn(N, Seq(V), step) /\ << >> \in Seq(V) /\ N \in Nat
  BY DEF StepsIn
<1>2. PICK g : GoesOn(g, N, Seq(V), << >>, step)
  <2> HIDE DEF N, step
  <2> QED
    BY <1>1, Recursion
<1>3. ASSUME NEW i \in 1..N PROVE g[i] = g[i - 1] \o bs[i].items /\ g[i - 1] \in Seq(V)
  <2>1. i - 1 \in 0..N
    OBVIOUS
  <2> QED
    BY <2>1, <1>2 DEF GoesOn
<1>4. g = [i \in 0..N |-> IF i = 0 THEN << >> ELSE g[i - 1] \o bs[i].items]
  <2>1. \A i \in 0..N : i # 0 => i \in 1..N
    OBVIOUS
  <2> HIDE DEF N, step
  <2> QED
    BY <1>2, <1>3, <2>1 DEF GoesOn
<1> DEFINE upTo[i \in 0..N] == IF i = 0 THEN << >> ELSE upTo[i - 1] \o bs[i].items
<1>5. upTo = [i \in 0..N |-> IF i = 0 THEN << >> ELSE upTo[i - 1] \o bs[i].items]
  BY <1>4
<1>6. Elements(bs) = upTo[N]
  BY DEF Elements
<1> HIDE DEF upTo
<1> DEFINE T == {i \in 0..N : upTo[i] = g[i]}
<1>7. \A i \in 0..N : i \in T
  <2>1. 0 \in T
    BY <1>2, <1>5 DEF GoesOn
  <2>2. ASSUME NEW i \in 1..N, i - 1 \in T PROVE i \in T
    <3>1. i \in 0..N /\ i # 0
      OBVIOUS
    <3> HIDE DEF N
    <3> QED
      BY <1>3, <1>5, <2>2, <3>1
  <2> HIDE DEF T
  <2> QED
    BY <2>1, <2>2, CountUp
<1>8. Elements(bs) = g[N]
  BY <1>6, <1>7
<1> HIDE DEF step
<1> QED
  BY <1>2, <1>3, <1>8 DEF GoesOn

AreOf(s, bs) == \A v \in Range(s) : \E i \in 1..Len(bs) : v \in Range(bs[i].items)

(* All of them are in a block, and their number when all blocks but the    *)
(* last are full.                                                          *)
LEMMA ElementsAre ==
    ASSUME NEW V, NEW bs, Len(bs) \in Nat \ {0},
           \A i \in 1..Len(bs) : bs[i].items \in Seq(V),
           NEW m \in Nat, \A i \in 1..(Len(bs) - 1) : Len(bs[i].items) = m
    PROVE  /\ Elements(bs) \in Seq(V)
           /\ AreOf(Elements(bs), bs)
           /\ Len(Elements(bs)) = (Len(bs) - 1) * m + Len(bs[Len(bs)].items)
<1> DEFINE N == Len(bs)
<1>1. PICK g \in [0..N -> Seq(V)] :
              /\ g[0] = << >> /\ Elements(bs) = g[N]
              /\ \A i \in 1..N : g[i] = g[i - 1] \o bs[i].items
  BY ElementsBuilt
<1> DEFINE T == {i \in 0..N : /\ \A v \in Range(g[i]) : \E j \in 1..N : v \in Range(bs[j].items)
                              /\ i < N => Len(g[i]) = i * m}
<1>2. 0 \in T
  <2>1. Range(<< >>) = {}
    BY DEF Range
  <2> QED
    BY <1>1, <2>1
<1>3. ASSUME NEW i \in 1..N, i - 1 \in T PROVE i \in T
  <2>1. /\ g[i] = g[i - 1] \o bs[i].items /\ g[i - 1] \in Seq(V) /\ bs[i].items \in Seq(V)
        /\ i - 1 \in 0..N /\ i \in 0..N
    <3>1. i - 1 \in 0..N /\ i \in 0..N
      OBVIOUS
    <3>2. g[i - 1] \in Seq(V)
      BY <1>1, <3>1
    <3> QED
      BY <1>1, <3>1, <3>2
  <2>2. Range(g[i]) = Range(g[i - 1]) \cup Range(bs[i].items)
    BY <2>1, RangeConcatenation
  <2>3. \A v \in Range(g[i]) : \E j \in 1..N : v \in Range(bs[j].items)
    BY <1>3, <2>2
  <2>4. i < N => Len(g[i]) = i * m
    <3> SUFFICES ASSUME i < N PROVE Len(g[i]) = i * m
      OBVIOUS
    <3>1. Len(g[i - 1]) = (i - 1) * m
      BY <1>3
    <3>2. i \in 1..(N - 1)
      OBVIOUS
    <3>3. Len(bs[i].items) = m
      BY <3>2
    <3>4. Len(g[i]) = Len(g[i - 1]) + Len(bs[i].items)
      BY <2>1
    <3>5. (i - 1) * m + m = i * m
      OBVIOUS
    <3> QED
      BY <3>1, <3>3, <3>4, <3>5
  <2> QED
    BY <2>1, <2>3, <2>4
<1>4. \A i \in 0..N : i \in T
  <2> HIDE DEF T
  <2> QED
    BY <1>2, <1>3, CountUp
<1>5. N \in 0..N /\ N - 1 \in 0..N /\ N \in 1..N /\ N - 1 < N
  OBVIOUS
<1>6. \A v \in Range(g[N]) : \E j \in 1..N : v \in Range(bs[j].items)
  BY <1>4, <1>5
<1>7. Len(g[N - 1]) = (N - 1) * m /\ g[N - 1] \in Seq(V)
  BY <1>4, <1>5
<1>8. g[N] = g[N - 1] \o bs[N].items /\ bs[N].items \in Seq(V) /\ g[N] \in Seq(V)
  BY <1>1, <1>5
<1>9. Len(g[N]) = (N - 1) * m + Len(bs[N].items)
  <2>1. Len(g[N]) = Len(g[N - 1]) + Len(bs[N].items)
    <3> DEFINE s == g[N - 1]
               e == bs[N].items
    <3>1. s \in Seq(V) /\ e \in Seq(V) /\ g[N] = s \o e
      BY <1>7, <1>8
    <3> HIDE DEF s, e
    <3>2. Len(s \o e) = Len(s) + Len(e)
      BY <3>1
    <3> QED
      BY <3>1, <3>2 DEF s, e
  <2> QED
    BY <1>7, <2>1
<1> QED
  BY <1>1, <1>6, <1>8, <1>9 DEF AreOf
-----------------------------------------------------------------------------
(* Chains of blocks. *)

(* The blocks ids of bs, with their links, are the chain the limits name.  *)
(* All of its blocks but the last are full, and none of several is empty.  *)
IsChain(bs, info, ids, max) ==
    LET n == Len(ids)
    IN  /\ ids \in Seq(DOMAIN bs) /\ n > 0 /\ NoRepeats(ids)
        /\ info = ChainInfo(ids[1], ids[n], n)
        /\ \A i \in 1..n :
              /\ bs[ids[i]].prev = IF i = 1 THEN ids[1] ELSE ids[i - 1]
              /\ bs[ids[i]].next = IF i = n THEN ids[n] ELSE ids[i + 1]
              /\ i < n => Len(bs[ids[i]].items) = max
              /\ n > 1 => bs[ids[i]].items # << >>

(* A sequence of different numbers up to N is no longer than N.            *)
LEMMA NoMoreThan ==
    ASSUME NEW N \in Nat, NEW s \in Seq(1..N), NoRepeats(s)
    PROVE  Len(s) <= N
<1>1. IsFiniteSet(1..N) /\ Cardinality(1..N) = N
  BY FS_Interval
<1>2. IsFiniteSet(1..Len(s)) /\ Cardinality(1..Len(s)) = Len(s)
  <2> DEFINE n == Len(s)
  <2>1. n \in Nat
    OBVIOUS
  <2> HIDE DEF n
  <2>2. IsFiniteSet(1..n) /\ Cardinality(1..n) = n
    BY <2>1, FS_Interval
  <2> QED
    BY <2>2 DEF n
<1>3. s \in Injection(1..Len(s), 1..N)
  BY DEF NoRepeats, Injection, IsInjective
<1> QED
  BY <1>1, <1>2, <1>3, FS_Injection

(* The way along the links of a chain is the chain.                        *)
LEMMA ChainIsWay ==
    ASSUME NEW S, NEW bs \in Seq(S), NEW info, NEW ids, NEW max, IsChain(bs, info, ids, max)
    PROVE  ChainIds(bs, info.first) = ids
<1> DEFINE N == Len(bs)
           n == Len(ids)
           m(i) == IF i + 1 < n THEN i + 1 ELSE n
           g == [i \in 0..N |-> SubSeq(ids, 1, m(i))]
           Goes(w) == IF bs[w[Len(w)]].next = w[Len(w)] THEN w
                      ELSE Append(w, bs[w[Len(w)]].next)
<1>1. /\ N \in Nat /\ DOMAIN bs = 1..N /\ ids \in Seq(1..N) /\ n \in Nat /\ n > 0 /\ NoRepeats(ids)
      /\ info.first = ids[1]
      /\ \A i \in 1..n : bs[ids[i]].next = IF i = n THEN ids[n] ELSE ids[i + 1]
  BY DEF IsChain, ChainInfo
<1>2. n <= N
  BY <1>1, NoMoreThan
<1>3. DOMAIN ids = 1..n /\ \A i \in 1..n : ids[i] \in 1..N
  BY <1>1
<1> HIDE DEF N, n
<1>4. ASSUME NEW i \in 1..N PROVE g[i] = Goes(g[i - 1])
  <2> DEFINE w == SubSeq(ids, 1, m(i - 1))
  <2>1. m(i - 1) \in 1..n
    BY <1>1
  <2>2. w \in Seq(1..N) /\ Len(w) = m(i - 1) /\ \A j \in 1..m(i - 1) : w[j] = ids[j]
    <3>1. 1 \in Int /\ m(i - 1) \in Int /\ 1 <= m(i - 1) /\ \A j \in 1..m(i - 1) : ids[j] \in 1..N
      BY <1>1, <1>3, <2>1
    <3> DEFINE e == m(i - 1)
    <3> HIDE DEF m
    <3>2. /\ SubSeq(ids, 1, e) \in Seq(1..N)
          /\ Len(SubSeq(ids, 1, e)) = IF 1 <= e THEN e - 1 + 1 ELSE 0
          /\ \A j \in 1..(e - 1 + 1) : SubSeq(ids, 1, e)[j] = ids[1 + j - 1]
      <4> HIDE DEF e
      <4> QED
        BY <3>1, SubSeqProperties DEF e
    <3>3. \A j \in 1..e : j \in 1..(e - 1 + 1) /\ 1 + j - 1 = j
      BY <3>1
    <3> QED
      BY <3>1, <3>2, <3>3
  <2>3. g[i - 1] = w /\ g[i] = SubSeq(ids, 1, m(i))
    <3>1. i - 1 \in 0..N /\ i \in 0..N
      BY <1>1
    <3> QED
      BY <3>1
  <2>4. w[Len(w)] = ids[m(i - 1)]
    BY <2>1, <2>2
  <2> HIDE DEF w, g
  <2>5. CASE i < n
    <3>1. m(i - 1) = i /\ m(i) = i + 1 /\ i \in 1..n /\ i + 1 \in 1..n /\ i # n
      BY <2>5, <1>1
    <3> HIDE DEF m
    <3>2. bs[ids[i]].next = ids[i + 1] /\ ids[i + 1] # ids[i]
      <4>1. ids[i + 1] # ids[i]
        <5>1. i \in DOMAIN ids /\ i + 1 \in DOMAIN ids /\ i + 1 # i
          BY <1>3, <3>1
        <5> QED
          BY <1>1, <5>1 DEF NoRepeats
      <4> QED
        BY <4>1, <1>1, <3>1
    <3>3. Goes(w) = Append(w, ids[i + 1])
      BY <2>4, <3>1, <3>2
    <3>4. SubSeq(ids, 1, i + 1) = Append(SubSeq(ids, 1, i), ids[i + 1])
      <4> DEFINE j == i + 1
      <4>1. 1 \in 1..Len(ids) /\ j \in 1..Len(ids) /\ j - 1 = i /\ ids \in Seq(1..N)
        BY <1>1, <3>1 DEF n
      <4> HIDE DEF j
      <4>4. SubSeq(ids, 1, j) = SubSeq(ids, 1, j - 1) \o <<ids[j]>>
        BY <4>1, SubSeqRecursiveSecond
      <4>2. SubSeq(ids, 1, i + 1) = SubSeq(ids, 1, i) \o <<ids[i + 1]>>
        BY <4>1, <4>4 DEF j
      <4>3. SubSeq(ids, 1, i) \in Seq(1..N) /\ ids[i + 1] \in 1..N
        BY <2>2, <3>1, <1>3 DEF w
      <4> QED
        BY <4>2, <4>3, AppendIsConcat
    <3> QED
      BY <2>3, <3>1, <3>3, <3>4 DEF w
  <2>6. CASE ~ (i < n)
    <3>1. m(i - 1) = n /\ m(i) = n /\ n \in 1..n
      BY <2>6, <1>1
    <3> HIDE DEF m
    <3>2. bs[ids[n]].next = ids[n]
      BY <1>1, <3>1
    <3>3. Goes(w) = w
      BY <2>4, <3>1, <3>2
    <3> QED
      BY <2>3, <3>1, <3>3 DEF w
  <2> QED
    BY <2>5, <2>6
<1>5. g[0] = <<info.first>>
  <2>1. m(0) = 1 /\ 0 \in 0..N
    BY <1>1
  <2>2. SubSeq(ids, 1, 1) = <<ids[1]>>
    <3>0. 1 \in 1..n
      BY <1>1
    <3>1. ids[1] \in 1..N /\ 1 \in 1..Len(ids) /\ 1 \in Int
      BY <1>3, <3>0 DEF n
    <3>2. SubSeq(ids, 1, 1) = <<ids[1]>> \o SubSeq(ids, 2, 1)
      BY <1>1, <3>1, SubSeqRecursiveFirst
    <3>3. SubSeq(ids, 2, 1) = << >>
      BY SubSeqEmpty
    <3>4. <<ids[1]>> \in Seq(1..N)
      BY <3>1
    <3> QED
      BY <3>2, <3>3, <3>4, ConcatEmptySeq
  <2> HIDE DEF m
  <2> QED
    BY <2>1, <2>2, <1>1
<1>6. g[N] = ids
  <2>1. m(N) = n /\ N \in 0..N
    BY <1>1, <1>2
  <2>2. SubSeq(ids, 1, n) = ids
    BY <1>1 DEF n
  <2> HIDE DEF m
  <2> QED
    BY <2>1, <2>2
<1>7. g = [i \in 0..N |-> g[i]]
  OBVIOUS
<1> HIDE DEF g
<1> DEFINE way[i \in 0..N] == IF i = 0 THEN <<info.first>>
                              ELSE Only({Goes(w) : w \in {way[i - 1]}})
<1>8. \A f : \A i : Only({Goes(w) : w \in {f[i - 1]}}) = Goes(f[i - 1])
  <2> SUFFICES ASSUME NEW f, NEW i
               PROVE  Only({Goes(w) : w \in {f[i - 1]}}) = Goes(f[i - 1])
    OBVIOUS
  <2> DEFINE x == f[i - 1]
  <2>1. {Goes(w) : w \in {x}} = {Goes(x)}
    OBVIOUS
  <2> HIDE DEF Goes
  <2> QED
    BY <2>1, OnlyOne
<1>9. g = [i \in 0..N |-> IF i = 0 THEN <<info.first>>
                          ELSE Only({Goes(w) : w \in {g[i - 1]}})]
  <2>1. \A i \in 0..N : i # 0 => i \in 1..N
    BY <1>1
  <2>2. ASSUME NEW i \in 0..N
        PROVE  g[i] = IF i = 0 THEN <<info.first>>
                      ELSE Only({Goes(w) : w \in {g[i - 1]}})
    <3> HIDE DEF Goes
    <3> QED
      BY <1>4, <1>5, <1>8, <2>1
  <2> HIDE DEF Goes
  <2> QED
    BY <1>7, <2>2
<1>10. way = [i \in 0..N |-> IF i = 0 THEN <<info.first>>
                             ELSE Only({Goes(w) : w \in {way[i - 1]}})]
  BY <1>9
<1>11. ChainIds(bs, info.first) = way[N]
  BY DEF ChainIds, N
<1> HIDE DEF way, Goes
<1> DEFINE T == {i \in 0..N : way[i] = g[i]}
<1>12. \A i \in 0..N : i \in T
  <2>1. 0 \in T
    BY <1>1, <1>5, <1>10
  <2>2. ASSUME NEW i \in 1..N, i - 1 \in T PROVE i \in T
    <3>1. i \in 0..N /\ i # 0
      BY <1>1
    <3> QED
      BY <1>4, <1>8, <1>10, <2>2, <3>1
  <2> HIDE DEF T
  <2> QED
    BY <1>1, <2>1, <2>2, CountUp
<1> QED
  BY <1>1, <1>6, <1>11, <1>12

(* The place of a cut is one of a block, counted from 0, and if it is not  *)
(* block 0 it is between two hashes.                                       *)
LEMMA PartitionedBlockIsOne ==
    ASSUME NEW bs, Len(bs) \in Nat \ {0}
    PROVE  LET p == PartitionedBlock(bs)
           IN  p \in 0..(Len(bs) - 1) /\ (p = 0 \/ FirstHash(bs[p + 1]) # LastHash(bs[p]))
<1> DEFINE M == Len(bs) - 1
           middle == Len(bs) \div 2
           Cut(i) == FirstHash(bs[i + 1]) # LastHash(bs[i])
           Nearer(i, b) == IF Cut(i) /\ Distance(i, middle) < Distance(b, middle) THEN i ELSE b
           D == {b \in 0..M : b = 0 \/ Cut(b)}
           step == [i \in 1..M |-> [b \in D |-> Nearer(i, b)]]
<1>1. M \in Nat /\ 0 \in D /\ \A i \in 1..M : i \in 0..M /\ i # 0 /\ i - 1 \in 0..M
  OBVIOUS
<1>2. StepsIn(M, D, step)
  <2> SUFFICES ASSUME NEW i \in 1..M, NEW b \in D PROVE step[i][b] \in D
    BY DEF StepsIn
  <2> HIDE DEF M, middle
  <2>1. i \in 0..M
    BY <1>1
  <2>2. step[i][b] = Nearer(i, b)
    <3> HIDE DEF D, Nearer
    <3> QED
      OBVIOUS
  <2> HIDE DEF Cut
  <2> QED
    BY <2>1, <2>2
<1> HIDE DEF M, middle, Cut, D
<1>3. PICK g : GoesOn(g, M, D, 0, step)
  <2> HIDE DEF step
  <2>2. \E g : GoesOn(g, M, D, 0, step)
    BY <1>1, <1>2, Recursion
  <2> QED
    BY <2>2
<1>4. ASSUME NEW i \in 1..M PROVE g[i] = Nearer(i, g[i - 1])
  <2>1. i - 1 \in 0..M
    BY <1>1
  <2>2. g[i - 1] \in D /\ g[i] = step[i][g[i - 1]]
    BY <1>3, <2>1 DEF GoesOn
  <2> HIDE DEF Nearer
  <2> QED
    BY <2>2
<1> HIDE DEF step
<1>5. \A f : \A i : Only({Nearer(i, b) : b \in {f[i - 1]}}) = Nearer(i, f[i - 1])
  <2> SUFFICES ASSUME NEW f, NEW i
               PROVE  Only({Nearer(i, b) : b \in {f[i - 1]}}) = Nearer(i, f[i - 1])
    OBVIOUS
  <2> DEFINE x == f[i - 1]
  <2>1. {Nearer(i, b) : b \in {x}} = {Nearer(i, x)}
    OBVIOUS
  <2> HIDE DEF Nearer
  <2> QED
    BY <2>1, OnlyOne
<1> DEFINE best[i \in 0..M] == IF i = 0 THEN 0
                               ELSE Only({Nearer(i, b) : b \in {best[i - 1]}})
<1>6. g = [i \in 0..M |-> IF i = 0 THEN 0 ELSE Only({Nearer(i, b) : b \in {g[i - 1]}})]
  <2>1. \A i \in 0..M : i # 0 => i \in 1..M
    BY <1>1
  <2>2. g = [i \in 0..M |-> g[i]] /\ g[0] = 0
    BY <1>3 DEF GoesOn
  <2>3. ASSUME NEW i \in 0..M
        PROVE  g[i] = IF i = 0 THEN 0 ELSE Only({Nearer(i, b) : b \in {g[i - 1]}})
    <3> HIDE DEF Nearer
    <3> QED
      BY <1>4, <1>5, <2>1, <2>2
  <2> HIDE DEF Nearer
  <2> QED
    BY <2>2, <2>3
<1>7. best = [i \in 0..M |-> IF i = 0 THEN 0 ELSE Only({Nearer(i, b) : b \in {best[i - 1]}})]
  BY <1>6
<1>8. PartitionedBlock(bs) = best[M]
  BY DEF PartitionedBlock, M, middle, Cut
<1> HIDE DEF best
<1>9. ASSUME NEW i \in 1..M, NEW b \in D PROVE Nearer(i, b) \in D
  BY <1>1, <1>9 DEF D
<1> DEFINE T == {i \in 0..M : best[i] \in D}
<1>10. \A i \in 0..M : i \in T
  <2>1. 0 \in T
    BY <1>1, <1>7
  <2>2. ASSUME NEW i \in 1..M, i - 1 \in T PROVE i \in T
    <3>1. i \in 0..M /\ i # 0
      BY <1>1
    <3>2. best[i] = Nearer(i, best[i - 1])
      <4> HIDE DEF Nearer
      <4> QED
        BY <1>5, <1>7, <3>1
    <3>3. best[i - 1] \in D
      BY <2>2
    <3> HIDE DEF Nearer
    <3> QED
      BY <1>9, <3>1, <3>2, <3>3
  <2> HIDE DEF T
  <2> QED
    BY <1>1, <2>1, <2>2, CountUp
<1>11. M \in 0..M
  BY <1>1
<1>12. PartitionedBlock(bs) \in D
  BY <1>8, <1>10, <1>11
<1> QED
  BY <1>1, <1>12 DEF D, M, Cut

(* What f makes of base in N turns.                                        *)
Turns(g, N, D, base, f) ==
    /\ g \in [0..N -> D] /\ g[0] = base
    /\ \A i \in 1..N : g[i] = f[g[i - 1]]

LEMMA Iteration ==
    ASSUME NEW N \in Nat, NEW D, NEW base \in D, NEW f, \A d \in D : f[d] \in D
    PROVE  \E g : Turns(g, N, D, base, f)
<1> DEFINE step == [i \in 1..N |-> f]
<1>1. StepsIn(N, D, step)
  BY DEF StepsIn
<1>2. \A i \in 1..N : step[i] = f
  OBVIOUS
<1> HIDE DEF step
<1>3. PICK g : GoesOn(g, N, D, base, step)
  BY <1>1, Recursion
<1> QED
  BY <1>2, <1>3 DEF GoesOn, Turns

(* A function with the same equation is the same.                          *)
LEMMA TurnsAreOne ==
    ASSUME NEW N \in Nat, NEW D, NEW base, NEW f, NEW g, Turns(g, N, D, base, f),
           NEW h, h = [i \in 0..N |-> IF i = 0 THEN base ELSE f[h[i - 1]]]
    PROVE  h = g
<1> DEFINE T == {i \in 0..N : h[i] = g[i]}
<1>1. 0 \in T
  BY DEF Turns
<1>2. ASSUME NEW i \in 1..N, i - 1 \in T PROVE i \in T
  <2>1. i \in 0..N /\ i # 0
    OBVIOUS
  <2> QED
    BY <1>2, <2>1 DEF Turns
<1>3. \A i \in 0..N : i \in T
  <2> HIDE DEF T
  <2> QED
    BY <1>1, <1>2, CountUp
<1>4. g \in [0..N -> D] /\ h = [i \in 0..N |-> h[i]]
  BY DEF Turns
<1> QED
  BY <1>3, <1>4

-----------------------------------------------------------------------------
(* Numbers and sequences. *)

LEMMA Division ==
    ASSUME NEW a \in Nat, NEW m \in Nat \ {0}
    PROVE  a \div m \in Nat /\ a % m \in 0..(m - 1) /\ a = m * (a \div m) + (a % m)
  OBVIOUS

(* A greater multiple is greater by a whole m.                             *)
LEMMA Multiples ==
    ASSUME NEW a \in Nat, NEW b \in Nat, NEW m \in Nat
    PROVE  a * m \in Nat /\ (a + 1) * m = a * m + m /\ (a < b => a * m + m <= b * m)
  OBVIOUS

(* A longer sequence.                                                      *)
LEMMA InsertAtIs ==
    ASSUME NEW V, NEW s \in Seq(V), NEW v \in V, NEW at \in 1..(Len(s) + 1)
    PROVE  /\ InsertAt(s, at, v) \in Seq(V) /\ Len(InsertAt(s, at, v)) = Len(s) + 1
           /\ \A i \in 1..(at - 1) : InsertAt(s, at, v)[i] = s[i]
           /\ InsertAt(s, at, v)[at] = v
           /\ \A i \in (at + 1)..(Len(s) + 1) : InsertAt(s, at, v)[i] = s[i - 1]
<1> DEFINE a == SubSeq(s, 1, at - 1)
           b == SubSeq(s, at, Len(s))
           t == a \o <<v>> \o b
<1>1. /\ a \in Seq(V) /\ Len(a) = at - 1 /\ \A i \in 1..(at - 1) : a[i] = s[i]
  OBVIOUS
<1>2. /\ b \in Seq(V) /\ Len(b) = Len(s) - at + 1
      /\ \A i \in 1..(Len(s) - at + 1) : b[i] = s[at + i - 1]
  OBVIOUS
<1>3. <<v>> \in Seq(V) /\ Len(<<v>>) = 1 /\ <<v>>[1] = v
  OBVIOUS
<1> HIDE DEF a, b
<1>4. /\ t \in Seq(V) /\ Len(t) = Len(s) + 1
      /\ \A i \in 1..(at - 1) : t[i] = a[i]
      /\ t[at] = v
      /\ \A i \in (at + 1)..(Len(s) + 1) : t[i] = b[i - at]
  <2> DEFINE e == <<v>>
             u == a \o e
  <2>1. e \in Seq(V) /\ Len(e) = 1 /\ e[1] = v
    OBVIOUS
  <2> HIDE DEF e
  <2>2. u \in Seq(V) /\ Len(u) = Len(a) + Len(e)
        /\ \A i \in 1..(Len(a) + Len(e)) : u[i] = IF i <= Len(a) THEN a[i] ELSE e[i - Len(a)]
    <3>1. a \in Seq(V) /\ e \in Seq(V)
      BY <1>1, <2>1
    <3> HIDE DEF u
    <3>2. u = a \o e
      BY DEF u
    <3> QED
      BY <3>1, <3>2, ConcatProperties, Zenon
  <2>3. t = u \o b
    BY DEF e
  <2> HIDE DEF u, t
  <2>4. t \in Seq(V) /\ Len(t) = Len(u) + Len(b)
        /\ \A i \in 1..(Len(u) + Len(b)) : t[i] = IF i <= Len(u) THEN u[i] ELSE b[i - Len(u)]
    <3>1. u \in Seq(V) /\ b \in Seq(V)
      BY <1>2, <2>2
    <3> QED
      BY <2>3, <3>1, ConcatProperties, Zenon
  <2>5. PICK n \in Nat : n = Len(s)
    OBVIOUS
  <2>6. Len(a) = at - 1 /\ Len(e) = 1 /\ Len(b) = n - at + 1 /\ at \in 1..(n + 1)
    BY <1>1, <1>2, <2>1, <2>5
  <2>7. Len(u) = at /\ Len(t) = n + 1
    BY <2>2, <2>4, <2>6
  <2>8. \A i \in 1..(at - 1) : t[i] = a[i]
    BY <2>2, <2>4, <2>6, <2>7
  <2>9. \A i \in (at + 1)..(n + 1) : t[i] = b[i - at]
    BY <2>4, <2>6, <2>7
  <2>10. t[at] = e[1]
    BY <2>2, <2>4, <2>6, <2>7
  <2> QED
    BY <2>1, <2>4, <2>5, <2>7, <2>8, <2>9, <2>10
<1>5. \A i \in (at + 1)..(Len(s) + 1) : i - at \in 1..(Len(s) - at + 1) /\ at + (i - at) - 1 = i - 1
  OBVIOUS
<1>6. InsertAt(s, at, v) = t
  BY DEF InsertAt, a, b
<1> HIDE DEF t
<1> QED
  BY <1>1, <1>2, <1>4, <1>5, <1>6

LEMMA CutOffIs ==
    ASSUME NEW V, NEW s \in Seq(V), NEW m \in Nat, m <= Len(s)
    PROVE  /\ SubSeq(s, 1, m) \in Seq(V) /\ Len(SubSeq(s, 1, m)) = m
           /\ \A i \in 1..m : SubSeq(s, 1, m)[i] = s[i]
  OBVIOUS

LEMMA PrefixedIs ==
    ASSUME NEW V, NEW s \in Seq(V), NEW v \in V
    PROVE  /\ <<v>> \o s \in Seq(V) /\ Len(<<v>> \o s) = Len(s) + 1
           /\ (<<v>> \o s)[1] = v
           /\ \A i \in 2..(Len(s) + 1) : (<<v>> \o s)[i] = s[i - 1]
  OBVIOUS

-----------------------------------------------------------------------------
(* The search for a place. *)

(* r is the first of the positions 1 to n that is not below.               *)
IsFirstGe(n, below, r) == r \in 1..(n + 1) /\ \A i \in 1..n : i \in below <=> i < r

Downward(n, below) == \A i \in 1..n : i \in below => \A j \in 1..i : j \in below

(* The first one is between the limits of w.                               *)
Between(w, n, below) ==
    /\ w.begin \in 1..n /\ w.end \in 2..(n + 1) /\ w.begin < w.end
    /\ \A j \in 1..(w.begin - 1) : j \in below
    /\ w.end - 1 \notin below

Halved(w, below) ==
    LET step == (w.end - w.begin) \div 2
    IN  IF w.end - w.begin <= 1 THEN w
        ELSE IF w.begin + step - 1 \in below THEN [w EXCEPT !.begin = @ + step]
        ELSE [w EXCEPT !.end = w.begin + step]

(* Half the way is some way, but not all.                                  *)
LEMMA HalvedIs ==
    ASSUME NEW n \in Nat, NEW below, Downward(n, below),
           NEW w \in [begin : 1..n, end : 2..(n + 1)], Between(w, n, below)
    PROVE  LET u == Halved(w, below)
           IN  /\ u \in [begin : 1..n, end : 2..(n + 1)] /\ Between(u, n, below)
               /\ w.end - w.begin > 1 => u.end - u.begin < w.end - w.begin
               /\ w.end - w.begin <= 1 => u = w
<1> DEFINE step == (w.end - w.begin) \div 2
           u == Halved(w, below)
<1>0. w.begin \in 1..n /\ w.end \in 2..(n + 1) /\ w.begin < w.end
  BY DEF Between
<1>1. CASE w.end - w.begin <= 1
  BY <1>0, <1>1 DEF Halved
<1>2. CASE w.end - w.begin > 1
  <2>1. step \in Nat \ {0} /\ step < w.end - w.begin
    BY <1>0, <1>2
  <2>2. u = IF w.begin + step - 1 \in below THEN [begin |-> w.begin + step, end |-> w.end]
            ELSE [begin |-> w.begin, end |-> w.begin + step]
    BY <1>0, <1>2 DEF Halved
  <2> HIDE DEF step, u
  <2>3. CASE w.begin + step - 1 \in below
    <3>1. u = [begin |-> w.begin + step, end |-> w.end]
      BY <2>2, <2>3
    <3>2. u.begin = w.begin + step /\ u.end = w.end
      BY <3>1
    <3>3. u.begin \in 1..n /\ u.begin < u.end /\ u.begin - 1 \in 1..n
      BY <1>0, <2>1, <3>2
    <3>4. \A j \in 1..(u.begin - 1) : j \in below
      <4> DEFINE d == w.begin + step - 1
      <4>1. d = u.begin - 1 /\ d \in below
        BY <1>0, <2>1, <2>3, <3>2
      <4> HIDE DEF d
      <4> QED
        BY <3>3, <4>1 DEF Downward
    <3>5. u.end - 1 \notin below
      BY <3>2 DEF Between
    <3>6. Between(u, n, below)
      BY <1>0, <3>2, <3>3, <3>4, <3>5 DEF Between
    <3> QED
      BY <1>0, <1>2, <2>1, <3>1, <3>2, <3>3, <3>6 DEF u
  <2>4. CASE w.begin + step - 1 \notin below
    <3>1. u = [begin |-> w.begin, end |-> w.begin + step]
      BY <2>2, <2>4
    <3>2. u.begin = w.begin /\ u.end = w.begin + step
      BY <3>1
    <3>3. u.end \in 2..(n + 1) /\ u.begin < u.end
      BY <1>0, <2>1, <3>2
    <3>4. \A j \in 1..(u.begin - 1) : j \in below
      BY <3>2 DEF Between
    <3>5. u.end - 1 \notin below
      <4>1. u.end - 1 = w.begin + step - 1
        BY <1>0, <2>1, <3>2
      <4> QED
        BY <2>4, <4>1
    <3>6. Between(u, n, below)
      BY <1>0, <3>2, <3>3, <3>4, <3>5 DEF Between
    <3> QED
      BY <1>0, <1>2, <2>1, <3>1, <3>2, <3>3, <3>6 DEF u
  <2> QED
    BY <2>3, <2>4
<1> QED
  BY <1>0, <1>1, <1>2

(* The bisection finds the first position not below, or the one after the  *)
(* last, whatever the number of positions (algorithm.h, find_first_ge).    *)
THEOREM FindFirstGeIs ==
    ASSUME NEW n \in Nat, NEW below, Downward(n, below)
    PROVE  IsFirstGe(n, below, FindFirstGe(n, below))
<1>1. CASE n = 0 \/ 1 \notin below
  <2>1. FindFirstGe(n, below) = 1
    BY <1>1 DEF FindFirstGe
  <2>2. \A i \in 1..n : i \notin below
    BY <1>1 DEF Downward
  <2> QED
    BY <2>1, <2>2 DEF IsFirstGe
<1>2. CASE n # 0 /\ 1 \in below /\ n \in below
  <2>1. FindFirstGe(n, below) = n + 1
    BY <1>2 DEF FindFirstGe
  <2>2. \A i \in 1..n : i \in below
    BY <1>2 DEF Downward
  <2> QED
    BY <2>1, <2>2 DEF IsFirstGe
<1>3. CASE n # 0 /\ 1 \in below /\ n \notin below
  <2> DEFINE L == [begin : 1..n, end : 2..(n + 1)]
             W == {w \in L : Between(w, n, below)}
             f == [w \in W |-> Halved(w, below)]
             base == [begin |-> 1, end |-> n + 1]
             turn[i \in 0..n] == IF i = 0 THEN base ELSE Halved(turn[i - 1], below)
  <2>1. base \in W
    BY <1>3 DEF Between
  <2>2. \A w \in W : f[w] \in W
    BY HalvedIs
  <2>3. PICK g : Turns(g, n, W, base, f)
    <3> HIDE DEF W, f, base
    <3> QED
      BY <2>1, <2>2, Iteration
  <2>4. turn = [i \in 0..n |-> IF i = 0 THEN base ELSE Halved(turn[i - 1], below)]
    <3>1. g = [i \in 0..n |-> IF i = 0 THEN base ELSE Halved(g[i - 1], below)]
      <4>1. \A i \in 0..n : i # 0 => i \in 1..n /\ i - 1 \in 0..n
        OBVIOUS
      <4> HIDE DEF base
      <4> QED
        BY <2>3, <4>1 DEF Turns
    <3> QED
      BY <3>1
  <2>5. FindFirstGe(n, below) = turn[n].begin
    BY <1>3 DEF FindFirstGe, Halved
  <2> HIDE DEF turn
  <2> DEFINE Gap(w) == w.end - w.begin
             T == {i \in 0..n : turn[i] \in W /\ (Gap(turn[i]) <= 1 \/ Gap(turn[i]) <= n - i)}
  <2>6. 0 \in T
    <3>1. turn[0] = base
      BY <2>4
    <3>2. Gap(base) = n
      OBVIOUS
    <3> HIDE DEF W, base, Gap
    <3> QED
      BY <2>1, <3>1, <3>2
  <2>7. ASSUME NEW i \in 1..n, i - 1 \in T PROVE i \in T
    <3>1. turn[i] = Halved(turn[i - 1], below) /\ turn[i - 1] \in W
      BY <2>4, <2>7
    <3> DEFINE w == turn[i - 1]
               u == turn[i]
    <3> HIDE DEF w, u
    <3>2. u = Halved(w, below) /\ w \in L /\ Between(w, n, below)
      BY <3>1 DEF u, w
    <3>3. /\ u \in L /\ Between(u, n, below)
          /\ w.end - w.begin > 1 => u.end - u.begin < w.end - w.begin
          /\ w.end - w.begin <= 1 => u = w
      <4> HIDE DEF L
      <4> QED
        BY <3>2, HalvedIs DEF L
    <3>4. Gap(w) \in Int /\ Gap(u) \in Int
      BY <3>2, <3>3
    <3>5. Gap(w) <= 1 \/ Gap(w) <= n - (i - 1)
      BY <2>7 DEF w
    <3>6. Gap(u) <= 1 \/ Gap(u) <= n - i
      BY <3>3, <3>4, <3>5
    <3>7. turn[i] \in W /\ (Gap(turn[i]) <= 1 \/ Gap(turn[i]) <= n - i)
      <4>1. u \in W
        BY <3>3
      <4> HIDE DEF W, Gap
      <4> QED
        BY <3>6, <4>1 DEF u
    <3> HIDE DEF W, Gap
    <3> QED
      BY <3>7
  <2>8. \A i \in 0..n : i \in T
    <3> HIDE DEF T
    <3> QED
      BY <2>6, <2>7, CountUp
  <2>9. n \in T
    <3> HIDE DEF T
    <3> QED
      BY <2>8
  <2>10. PICK w \in L : w = turn[n] /\ Between(w, n, below) /\ w.end - w.begin <= 1
    <3>1. turn[n] \in W /\ (Gap(turn[n]) <= 1 \/ Gap(turn[n]) <= n - n)
      BY <2>9
    <3>2. turn[n] \in L /\ Between(turn[n], n, below)
      BY <3>1
    <3>3. turn[n].end \in Int /\ turn[n].begin \in Int
      BY <3>2
    <3>4. turn[n].end - turn[n].begin <= 1
      BY <3>1, <3>3
    <3> QED
      BY <3>2, <3>4
  <2>11. w.begin \in 1..n /\ w.end = w.begin + 1
    BY <2>10 DEF Between
  <2>12. \A j \in 1..(w.begin - 1) : j \in below
    BY <2>10 DEF Between
  <2>13. w.begin \notin below
    BY <2>10, <2>11 DEF Between
  <2>14. ASSUME NEW j \in 1..n, j \in below PROVE j < w.begin
    BY <2>11, <2>13, <2>14 DEF Downward
  <2>15. \A j \in 1..n : j < w.begin => j \in 1..(w.begin - 1)
    BY <2>11
  <2> QED
    BY <2>5, <2>10, <2>11, <2>12, <2>14, <2>15 DEF IsFirstGe
<1> QED
  BY <1>1, <1>2, <1>3

-----------------------------------------------------------------------------
(* The values of a chain in rows: each block but the last holds m of them. *)

(* What comes before row i.                                                *)
Row(i, m) == (i - 1) * m

LEMMA RowIs ==
    ASSUME NEW m \in Nat
    PROVE  /\ Row(1, m) = 0
           /\ \A i \in Nat \ {0} : Row(i, m) \in Nat /\ Row(i + 1, m) = Row(i, m) + m
           /\ \A i, k \in Nat \ {0} : i < k => Row(i, m) + m <= Row(k, m)
<1>1. \A a \in Nat : a * m \in Nat /\ (a + 1) * m = a * m + m
  BY Multiples
<1>2. \A a, b \in Nat : a < b => a * m + m <= b * m
  BY Multiples
<1>3. ASSUME NEW i \in Nat \ {0} PROVE Row(i, m) \in Nat /\ Row(i + 1, m) = Row(i, m) + m
  <2> DEFINE a == i - 1
  <2>1. a \in Nat /\ a + 1 = (i + 1) - 1
    OBVIOUS
  <2>2. Row(i, m) = a * m /\ Row(i + 1, m) = (a + 1) * m
    BY <2>1 DEF Row
  <2> QED
    BY <1>1, <2>1, <2>2
<1>4. ASSUME NEW i \in Nat \ {0}, NEW k \in Nat \ {0}, i < k PROVE Row(i, m) + m <= Row(k, m)
  <2> DEFINE a == i - 1
             b == k - 1
  <2>1. a \in Nat /\ b \in Nat /\ a < b
    BY <1>4
  <2>2. Row(i, m) = a * m /\ Row(k, m) = b * m
    BY DEF Row
  <2> QED
    BY <1>2, <2>1, <2>2
<1>5. Row(1, m) = 0
  BY DEF Row
<1> QED
  BY <1>3, <1>4, <1>5

(* The places of a sequence that is laid out in rows of m.                 *)
LEMMA PlaceIs ==
    ASSUME NEW m \in Nat \ {0}, NEW p \in Nat \ {0}
    PROVE  \E i \in Nat \ {0}, j \in 1..m :
              /\ p = Row(i, m) + j
              /\ i = ((p - 1) \div m) + 1 /\ j = ((p - 1) % m) + 1
  BY DEF Row

Rows(V, it, n, m, s) ==
    /\ n \in Nat \ {0} /\ m \in Nat \ {0} /\ s \in Seq(V)
    /\ it \in [1..n -> Seq(V)]
    /\ \A i \in 1..n : Len(it[i]) <= m
    /\ \A i \in 1..(n - 1) : Len(it[i]) = m
    /\ Len(s) = Row(n, m) + Len(it[n])
    /\ \A i \in 1..n : \A j \in 1..Len(it[i]) : s[Row(i, m) + j] = it[i][j]

LEMMA RowsAre ==
    ASSUME NEW V, NEW it, NEW n, NEW m, NEW s, Rows(V, it, n, m, s)
    PROVE  /\ n \in Nat \ {0} /\ n \in 1..n /\ m \in Nat \ {0}
           /\ s \in Seq(V) /\ Len(s) \in Nat /\ Len(s) = Row(n, m) + Len(it[n])
           /\ \A i \in 1..n : it[i] \in Seq(V) /\ Len(it[i]) \in Nat /\ Len(it[i]) <= m
           /\ \A i \in 1..(n - 1) : Len(it[i]) = m
           /\ Row(n, m) \in Nat
<1>1. /\ n \in Nat \ {0} /\ m \in Nat \ {0} /\ s \in Seq(V) /\ it \in [1..n -> Seq(V)]
      /\ Len(s) = Row(n, m) + Len(it[n])
  BY DEF Rows
<1>2. n \in 1..n /\ n - 1 \in Nat
  BY <1>1
<1>3. Row(n, m) \in Nat
  BY <1>1, <1>2, RowIs
<1>4. \A i \in 1..n : it[i] \in Seq(V) /\ Len(it[i]) \in Nat
  BY <1>1
<1> QED
  BY <1>1, <1>2, <1>3, <1>4 DEF Rows

(* Every place of the sequence is one of a row.                            *)
LEMMA PlaceInRows ==
    ASSUME NEW V, NEW it, NEW n, NEW m, NEW s, Rows(V, it, n, m, s), NEW p \in 1..Len(s)
    PROVE  \E i \in 1..n : \E j \in 1..Len(it[i]) :
              /\ p = Row(i, m) + j /\ s[p] = it[i][j]
<1>0. n \in Nat \ {0} /\ n \in 1..n /\ m \in Nat \ {0} /\ Len(s) \in Nat /\ p \in Nat \ {0}
  BY RowsAre
<1>1. PICK i \in Nat \ {0}, j \in 1..m : p = Row(i, m) + j
  <2> HIDE DEF Rows
  <2>1. \E i \in Nat \ {0}, j \in 1..m :
            /\ p = Row(i, m) + j
            /\ i = ((p - 1) \div m) + 1 /\ j = ((p - 1) % m) + 1
    BY <1>0, PlaceIs
  <2> QED
    BY <2>1
<1>2. /\ it[n] \in Seq(V) /\ Len(it[n]) <= m /\ p <= Row(n, m) + Len(it[n])
      /\ Len(it[n]) \in Nat /\ Row(n, m) \in Nat
  BY <1>0, RowsAre
<1>3. i <= n
  <2> SUFFICES ASSUME n < i PROVE FALSE
    BY <1>0
  <2>1. PICK a, b \in Nat : a = Row(n, m) /\ b = Row(i, m) /\ a + m <= b
    BY <1>0, RowIs
  <2> QED
    BY <1>0, <1>1, <1>2, <2>1
<1>4. i \in 1..n /\ it[i] \in Seq(V) /\ Len(it[i]) \in Nat
  <2>1. i \in 1..n
    BY <1>0, <1>3
  <2> QED
    BY <2>1, RowsAre
<1>5. j \in 1..Len(it[i])
  <2>1. CASE i = n
    <3>1. PICK a \in Nat : a = Row(n, m)
      BY <1>2
    <3> QED
      BY <1>1, <1>2, <1>4, <2>1, <3>1
  <2>2. CASE i # n
    <3>1. i \in 1..(n - 1)
      BY <1>0, <1>4, <2>2
    <3> QED
      BY <3>1, RowsAre
  <2> QED
    BY <2>1, <2>2
<1> QED
  BY <1>1, <1>4, <1>5 DEF Rows

(* A place in a row is one of the sequence.                                *)
LEMMA PlaceOfRow ==
    ASSUME NEW V, NEW it, NEW n, NEW m, NEW s, Rows(V, it, n, m, s),
           NEW i \in 1..n, NEW j \in 1..Len(it[i])
    PROVE  /\ Row(i, m) + j \in 1..Len(s) /\ s[Row(i, m) + j] = it[i][j]
           /\ it[i][j] \in V
<1>0. /\ n \in Nat \ {0} /\ m \in Nat \ {0} /\ it[i] \in Seq(V)
      /\ Len(s) = Row(n, m) + Len(it[n]) /\ Len(it[i]) <= m
      /\ Len(it[i]) \in Nat /\ Len(it[n]) \in Nat
  BY RowsAre
<1>1. PICK a, b \in Nat : a = Row(i, m) /\ b = Row(n, m) /\ (i < n => a + m <= b)
  <2>1. i \in Nat \ {0}
    OBVIOUS
  <2>2. Row(i, m) \in Nat /\ Row(n, m) \in Nat /\ (i < n => Row(i, m) + m <= Row(n, m))
    BY <1>0, <2>1, RowIs
  <2> QED
    BY <2>2
<1>4. a + j \in 1..Len(s)
  <2>1. CASE i = n
    BY <1>0, <1>1, <2>1
  <2>2. CASE i # n
    BY SMTT(40), <1>0, <1>1, <2>2
  <2> QED
    BY <2>1, <2>2
<1>5. it[i][j] \in V
  BY <1>0
<1> QED
  BY <1>1, <1>4, <1>5 DEF Rows

(* The values in rows are those of the rows.                               *)
LEMMA RowsRange ==
    ASSUME NEW V, NEW it, NEW n, NEW m, NEW s, Rows(V, it, n, m, s)
    PROVE  /\ \A v \in Range(s) : \E i \in 1..n : v \in Range(it[i])
           /\ \A i \in 1..n : \A v \in Range(it[i]) : v \in Range(s)
<1>0. /\ s \in Seq(V) /\ DOMAIN s = 1..Len(s)
      /\ \A i \in 1..n : it[i] \in Seq(V) /\ DOMAIN it[i] = 1..Len(it[i])
  BY SMTT(40) DEF Rows
<1>1. ASSUME NEW v \in Range(s) PROVE \E i \in 1..n : v \in Range(it[i])
  <2>1. PICK p \in 1..Len(s) : v = s[p]
    BY <1>0, <1>1 DEF Range
  <2>2. PICK i \in 1..n : \E j \in 1..Len(it[i]) : s[p] = it[i][j]
    BY PlaceInRows
  <2> QED
    BY <1>0, <2>1, <2>2 DEF Range
<1>2. ASSUME NEW i \in 1..n, NEW v \in Range(it[i]) PROVE v \in Range(s)
  <2>1. PICK j \in 1..Len(it[i]) : v = it[i][j]
    BY <1>0, <1>2 DEF Range
  <2>2. Row(i, m) + j \in 1..Len(s) /\ s[Row(i, m) + j] = it[i][j]
    BY PlaceOfRow
  <2> QED
    BY <1>0, <2>1, <2>2 DEF Range
<1> QED
  BY <1>1, <1>2

LEMMA RowsAreOne ==
    ASSUME NEW V, NEW it, NEW n, NEW m, NEW s, Rows(V, it, n, m, s), NEW u, Rows(V, it, n, m, u)
    PROVE  u = s
<1>1. s \in Seq(V) /\ u \in Seq(V) /\ Len(s) = Len(u)
  BY DEF Rows
<1>2. ASSUME NEW p \in 1..Len(s) PROVE u[p] = s[p]
  <2>1. PICK i \in 1..n : \E j \in 1..Len(it[i]) : p = Row(i, m) + j /\ s[p] = it[i][j]
    BY PlaceInRows
  <2>2. PICK j \in 1..Len(it[i]) : p = Row(i, m) + j /\ s[p] = it[i][j]
    BY <2>1
  <2>3. u[Row(i, m) + j] = it[i][j]
    BY <2>2, PlaceOfRow
  <2> QED
    BY <2>2, <2>3
<1> QED
  BY <1>1, <1>2, SeqEqual

(* What Elements answers is in rows.                                       *)
LEMMA ConcatIs ==
    ASSUME NEW V, NEW x \in Seq(V), NEW y \in Seq(V)
    PROVE  /\ Len(x \o y) = Len(x) + Len(y)
           /\ \A q \in 1..(Len(x) + Len(y)) :
                 (x \o y)[q] = IF q <= Len(x) THEN x[q] ELSE y[q - Len(x)]
  OBVIOUS

LEMMA ElementsInRows ==
    ASSUME NEW V, NEW n \in Nat \ {0}, NEW m \in Nat \ {0}, NEW it \in [1..n -> Seq(V)],
           \A i \in 1..n : Len(it[i]) <= m, \A i \in 1..(n - 1) : Len(it[i]) = m,
           NEW bs, Len(bs) = n, \A i \in 1..n : bs[i].items = it[i]
    PROVE  Rows(V, it, n, m, Elements(bs))
<1>1. PICK g \in [0..n -> Seq(V)] :
         /\ g[0] = << >> /\ Elements(bs) = g[n]
         /\ \A i \in 1..n : g[i] = g[i - 1] \o it[i]
  <2>1. Len(bs) \in Nat /\ \A i \in 1..Len(bs) : bs[i].items \in Seq(V) /\ bs[i].items = it[i]
    OBVIOUS
  <2>2. PICK g \in [0..Len(bs) -> Seq(V)] :
              /\ g[0] = << >> /\ Elements(bs) = g[Len(bs)]
              /\ \A i \in 1..Len(bs) : g[i] = g[i - 1] \o bs[i].items
    BY <2>1, ElementsBuilt
  <2> QED
    BY <2>1, <2>2
<1> DEFINE Laid(i) == /\ i > 0 => Len(g[i]) = Row(i, m) + Len(it[i])
                      /\ \A k \in 1..i : \A j \in 1..Len(it[k]) :
                            /\ Row(k, m) + j \in 1..Len(g[i])
                            /\ g[i][Row(k, m) + j] = it[k][j]
           T == {i \in 0..n : Laid(i)}
<1>2. 0 \in T
  OBVIOUS
<1> HIDE DEF Laid
<1>3. ASSUME NEW i \in 1..n, i - 1 \in T PROVE i \in T
  <2>1. /\ i - 1 \in 0..n /\ i \in 0..n
        /\ g[i - 1] \in Seq(V) /\ it[i] \in Seq(V) /\ g[i] = g[i - 1] \o it[i]
        /\ Laid(i - 1)
    <3>1. i - 1 \in 0..n /\ i \in 0..n
      OBVIOUS
    <3>2. Laid(i - 1)
      BY <1>3
    <3> QED
      BY <1>1, <3>1, <3>2
  <2> DEFINE a == Row(i, m)
  <2>2. Len(g[i - 1]) = a /\ a \in Nat
    <3>1. CASE i = 1
      BY <1>1, <3>1, RowIs
    <3>2. CASE i # 1
      <4> DEFINE k == i - 1
      <4>1. k \in 1..(n - 1) /\ k > 0 /\ k + 1 = i /\ k \in Nat \ {0}
        BY <3>2
      <4>2. Len(g[k]) = Row(k, m) + Len(it[k]) /\ Len(it[k]) = m
        BY <2>1, <4>1 DEF Laid
      <4> HIDE DEF k
      <4>3. Row(k + 1, m) = Row(k, m) + m /\ Row(k + 1, m) \in Nat
        <5>1. k \in Nat \ {0} /\ k + 1 \in Nat \ {0} /\ m \in Nat
          BY <4>1
        <5> QED
          BY <5>1, RowIs
      <4> QED
        BY <4>1, <4>2, <4>3 DEF k
    <3> QED
      BY <3>1, <3>2
  <2>3. /\ Len(g[i]) = Len(g[i - 1]) + Len(it[i])
        /\ \A q \in 1..(Len(g[i - 1]) + Len(it[i])) :
              g[i][q] = IF q <= Len(g[i - 1]) THEN g[i - 1][q] ELSE it[i][q - Len(g[i - 1])]
    <3> DEFINE x == g[i - 1]
               y == it[i]
               z == g[i]
    <3>1. x \in Seq(V) /\ y \in Seq(V) /\ z = x \o y
      BY <2>1
    <3> HIDE DEF x, y, z
    <3>2. Len(x \o y) = Len(x) + Len(y)
          /\ \A q \in 1..(Len(x) + Len(y)) :
                (x \o y)[q] = IF q <= Len(x) THEN x[q] ELSE y[q - Len(x)]
      BY <3>1, ConcatIs
    <3>3. Len(z) = Len(x) + Len(y)
          /\ \A q \in 1..(Len(x) + Len(y)) : z[q] = IF q <= Len(x) THEN x[q] ELSE y[q - Len(x)]
      BY <3>1, <3>2, Zenon
    <3> QED
      BY <3>3 DEF x, y, z
  <2> HIDE DEF a
  <2>4. Len(it[i]) \in Nat
    BY <2>1
  <2>5. ASSUME NEW k \in 1..i, NEW j \in 1..Len(it[k])
        PROVE  Row(k, m) + j \in 1..Len(g[i]) /\ g[i][Row(k, m) + j] = it[k][j]
    <3>1. CASE k = i
      <4>1. a + j \in 1..Len(g[i]) /\ ~ (a + j <= a) /\ (a + j) - a = j
        BY SMTT(40), <2>2, <2>3, <2>4, <3>1
      <4>2. g[i][a + j] = it[i][j]
        BY <2>2, <2>3, <2>4, <4>1
      <4> QED
        BY <3>1, <4>1, <4>2 DEF a
    <3>2. CASE k # i
      <4>1. k \in 1..(i - 1)
        BY <3>2
      <4> DEFINE q == Row(k, m) + j
      <4>2. q \in 1..Len(g[i - 1]) /\ g[i - 1][q] = it[k][j]
        BY <2>1, <4>1 DEF Laid
      <4> HIDE DEF q
      <4>3. q \in 1..Len(g[i]) /\ g[i][q] = g[i - 1][q]
        <5>1. PICK o, e, u \in Nat : o = Len(g[i - 1]) /\ e = Len(it[i]) /\ u = Len(g[i])
          BY <2>1, <2>3, <2>4
        <5>2. q \in 1..o /\ u = o + e
          BY <2>3, <4>2, <5>1
        <5>3. q \in 1..(o + e) /\ q <= o
          BY <5>2
        <5>4. g[i][q] = g[i - 1][q]
          BY <2>3, <5>1, <5>3
        <5> QED
          BY <5>1, <5>2, <5>3, <5>4
      <4> QED
        BY <4>2, <4>3 DEF q
    <3> QED
      BY <3>1, <3>2
  <2>6. Len(g[i]) = Row(i, m) + Len(it[i])
    BY <2>2, <2>3 DEF a
  <2> QED
    BY <2>1, <2>5, <2>6 DEF Laid
<1>4. \A i \in 0..n : i \in T
  <2> HIDE DEF T
  <2> QED
    BY <1>2, <1>3, CountUp
<1>5. Laid(n) /\ n > 0 /\ g[n] \in Seq(V)
  <2>1. n \in T
    <3> HIDE DEF T
    <3> QED
      BY <1>4
  <2> QED
    BY <1>1, <2>1
<1> QED
  BY ZenonT(40), <1>1, <1>5 DEF Rows, Laid

LEMMA RowsAreElements ==
    ASSUME NEW V, NEW it, NEW n, NEW m, NEW s, Rows(V, it, n, m, s),
           NEW bs, Len(bs) = n, \A i \in 1..n : bs[i].items = it[i]
    PROVE  Elements(bs) = s
<1>1. Rows(V, it, n, m, Elements(bs))
  <2>1. /\ n \in Nat \ {0} /\ m \in Nat \ {0} /\ it \in [1..n -> Seq(V)]
        /\ \A i \in 1..n : Len(it[i]) <= m
        /\ \A i \in 1..(n - 1) : Len(it[i]) = m
    BY DEF Rows
  <2> QED
    BY <2>1, ElementsInRows
<1> QED
  BY <1>1, RowsAreOne

-----------------------------------------------------------------------------
(* A value put into the rows: the rows from its place on hand their last   *)
(* value to the next.                                                      *)
Fitting(s, i, n, m) == IF i < n THEN SubSeq(s, 1, m) ELSE s

NewRow(it, n, m, at, v, i) ==
    LET blk == ((at - 1) \div m) + 1
        pos == ((at - 1) % m) + 1
    IN  CASE i < blk -> it[i]
          [] i = blk -> Fitting(InsertAt(it[i], pos, v), i, n, m)
          [] i > blk -> Fitting(<<it[i - 1][m]>> \o it[i], i, n, m)

(* What is kept of a row that is one too long.                             *)
LEMMA FittingIs ==
    ASSUME NEW V, NEW s \in Seq(V), NEW n \in Nat, NEW i \in Nat, NEW m \in Nat,
           i < n => Len(s) = m + 1
    PROVE  /\ Fitting(s, i, n, m) \in Seq(V)
           /\ Len(Fitting(s, i, n, m)) = IF i < n THEN m ELSE Len(s)
           /\ \A j \in 1..Len(Fitting(s, i, n, m)) : Fitting(s, i, n, m)[j] = s[j]
<1>1. CASE i < n
  <2>1. m <= Len(s)
    BY <1>1
  <2> QED
    BY <1>1, <2>1, CutOffIs DEF Fitting
<1>2. CASE ~ (i < n)
  BY <1>2 DEF Fitting
<1> QED
  BY <1>1, <1>2

(* u is the row i of the longer sequence w.                                *)
IsRow(V, u, i, it, n, m, w) ==
    /\ u \in Seq(V) /\ Len(u) = IF i < n THEN m ELSE Len(it[n]) + 1
    /\ \A j \in 1..Len(u) : w[Row(i, m) + j] = u[j]

(* There is room for v, and a place.                                       *)
HasPlace(V, it, n, m, s, at, v) ==
    Rows(V, it, n, m, s) /\ Len(it[n]) < m /\ at \in 1..(Len(s) + 1) /\ v \in V

LEMMA InsertRow ==
    ASSUME NEW V, NEW it, NEW n, NEW m, NEW s, NEW at, NEW v, HasPlace(V, it, n, m, s, at, v),
           NEW i \in 1..n
    PROVE  IsRow(V, NewRow(it, n, m, at, v, i), i, it, n, m, InsertAt(s, at, v))
<1> DEFINE w == InsertAt(s, at, v)
           N == NewRow(it, n, m, at, v, i)
<1>0. /\ Rows(V, it, n, m, s) /\ v \in V /\ s \in Seq(V) /\ it[i] \in Seq(V)
      /\ n \in Nat \ {0} /\ m \in Nat \ {0} /\ i \in Nat \ {0} /\ n \in 1..n
  BY RowsAre DEF HasPlace
<1>1. PICK L, li, ln, ri, rn \in Nat :
         /\ L = Len(s) /\ li = Len(it[i]) /\ ln = Len(it[n])
         /\ ri = Row(i, m) /\ rn = Row(n, m)
         /\ L = rn + ln /\ (i < n => li = m) /\ ln < m /\ li <= m /\ at \in 1..(L + 1)
  <2>1. /\ Len(s) \in Nat /\ Len(it[i]) \in Nat /\ Len(it[n]) \in Nat
        /\ Row(i, m) \in Nat /\ Row(n, m) \in Nat
        /\ Len(s) = Row(n, m) + Len(it[n]) /\ Len(it[i]) <= m
    <3>1. /\ Len(s) \in Nat /\ Len(it[i]) \in Nat /\ Len(it[n]) \in Nat
          /\ Len(s) = Row(n, m) + Len(it[n]) /\ Len(it[i]) <= m
      BY <1>0, RowsAre
    <3>2. Row(i, m) \in Nat /\ Row(n, m) \in Nat
      BY <1>0, RowIs
    <3> QED
      BY <3>1, <3>2
  <2>2. i < n => Len(it[i]) = m
    <3>1. i < n => i \in 1..(n - 1)
      BY <1>0
    <3> QED
      BY <1>0, <3>1, RowsAre
  <2>3. Len(it[n]) < m /\ at \in 1..(Len(s) + 1)
    BY DEF HasPlace
  <2> QED
    BY <2>1, <2>2, <2>3
<1>2. /\ \A p \in 1..(at - 1) : w[p] = s[p]
      /\ w[at] = v
      /\ \A p \in (at + 1)..(L + 1) : w[p] = s[p - 1]
  <2>1. s \in Seq(V) /\ v \in V /\ at \in 1..(Len(s) + 1)
    BY <1>0, <1>1
  <2>2. /\ \A p \in 1..(at - 1) : w[p] = s[p]
        /\ w[at] = v
        /\ \A p \in (at + 1)..(Len(s) + 1) : w[p] = s[p - 1]
    BY <2>1, InsertAtIs
  <2> QED
    BY <1>1, <2>2
<1>3. PICK blk \in Nat \ {0}, pos \in 1..m :
         /\ at = Row(blk, m) + pos
         /\ N = CASE i < blk -> it[i]
                  [] i = blk -> Fitting(InsertAt(it[i], pos, v), i, n, m)
                  [] i > blk -> Fitting(<<it[i - 1][m]>> \o it[i], i, n, m)
  <2>1. at \in Nat \ {0}
    BY <1>1
  <2>2. PICK blk \in Nat \ {0}, pos \in 1..m :
           /\ at = Row(blk, m) + pos
           /\ blk = ((at - 1) \div m) + 1 /\ pos = ((at - 1) % m) + 1
    BY <1>0, <2>1, PlaceIs
  <2> QED
    BY <2>2 DEF NewRow
<1>4. /\ i < blk => N = it[i]
      /\ i = blk => N = Fitting(InsertAt(it[i], pos, v), i, n, m)
      /\ i > blk => N = Fitting(<<it[i - 1][m]>> \o it[i], i, n, m)
  <2> DEFINE a == Fitting(InsertAt(it[i], pos, v), i, n, m)
             b == Fitting(<<it[i - 1][m]>> \o it[i], i, n, m)
  <2>1. N = CASE i < blk -> it[i] [] i = blk -> a [] i > blk -> b
    BY <1>3
  <2> HIDE DEF a, b, N
  <2>2. ~ (i < blk /\ i = blk) /\ ~ (i > blk /\ i = blk) /\ ~ (i < blk /\ i > blk)
    BY <1>0, <1>3
  <2>3. i < blk => N = it[i]
    BY <2>1, <2>2
  <2>4. i = blk => N = a
    BY <2>1, <2>2
  <2>5. i > blk => N = b
    BY <2>1, <2>2
  <2> QED
    BY <2>3, <2>4, <2>5 DEF a, b
<1>5. PICK rb \in Nat :
         /\ at = rb + pos
         /\ i < blk => ri + m <= rb
         /\ blk < i => rb + m <= ri
         /\ n < blk => rn + m <= rb
         /\ i = blk => ri = rb
  <2>1. /\ Row(blk, m) \in Nat
        /\ i < blk => Row(i, m) + m <= Row(blk, m)
        /\ blk < i => Row(blk, m) + m <= Row(i, m)
        /\ n < blk => Row(n, m) + m <= Row(blk, m)
    BY <1>0, <1>3, RowIs
  <2> QED
    BY <1>1, <1>3, <2>1
<1>6. blk <= n
  BY SMTT(40), <1>0, <1>1, <1>5
<1>7. ASSUME NEW j \in 1..li
      PROVE  ri + j \in 1..L /\ s[ri + j] = it[i][j] /\ it[i][j] \in V
  <2>1. j \in 1..Len(it[i])
    BY <1>1
  <2>2. Row(i, m) + j \in 1..Len(s) /\ s[Row(i, m) + j] = it[i][j] /\ it[i][j] \in V
    BY <1>0, <2>1, PlaceOfRow
  <2> QED
    BY <1>1, <2>2
<1> HIDE DEF w, N
<1>8. ASSUME NEW lN \in Nat, N \in Seq(V), Len(N) = lN, lN = IF i < n THEN m ELSE ln + 1,
             \A j \in 1..lN : w[ri + j] = N[j]
      PROVE  IsRow(V, N, i, it, n, m, w)
  BY <1>1, <1>8 DEF IsRow
<1>9. CASE i < blk
  <2>1. i < n /\ N = it[i] /\ li = m
    BY SMTT(40), <1>0, <1>1, <1>3, <1>4, <1>6, <1>9
  <2>2. ASSUME NEW j \in 1..li PROVE w[ri + j] = N[j]
    <3>1. ri + j \in 1..(at - 1)
      <4>1. j \in 1..m /\ ri + m <= rb /\ rb < at
        BY <1>3, <1>5, <1>9, <2>1
      <4>2. ri \in Nat /\ rb \in Nat /\ m \in Nat /\ at \in Nat
        BY <1>0, <1>1, <1>5
      <4> QED
        BY <4>1, <4>2
    <3> QED
      BY <1>2, <1>7, <2>1, <3>1
  <2> QED
    BY <1>0, <1>1, <1>8, <2>1, <2>2 DEF w, N
<1>10. CASE i = blk
  <2> DEFINE q == InsertAt(it[i], pos, v)
  <2>1. pos \in 1..(li + 1)
    <3>1. ri = rb /\ at = rb + pos /\ rb \in Nat /\ pos \in Nat
      BY <1>0, <1>3, <1>5, <1>10
    <3>2. pos <= li + 1 /\ pos >= 1
      <4>1. pos >= 1 /\ pos <= m /\ li \in Nat
        BY <1>0, <1>1, <1>3
      <4>2. CASE i < n
        BY <1>0, <1>1, <4>1, <4>2
      <4>3. CASE ~ (i < n)
        <5>1. i = n
          BY <1>0, <4>3
        <5>2. ri = rn /\ li = ln /\ L = rn + ln /\ at <= L + 1
          BY <1>1, <5>1
        <5> QED
          BY <3>1, <4>1, <5>2
      <4> QED
        BY <4>2, <4>3
    <3> QED
      BY <3>1, <3>2
  <2>2. /\ q \in Seq(V) /\ Len(q) = li + 1
        /\ \A j \in 1..(pos - 1) : q[j] = it[i][j]
        /\ q[pos] = v
        /\ \A j \in (pos + 1)..(li + 1) : q[j] = it[i][j - 1]
    <3>1. pos \in 1..(Len(it[i]) + 1) /\ it[i] \in Seq(V) /\ v \in V
      BY <1>0, <1>1, <2>1
    <3>2. /\ q \in Seq(V) /\ Len(q) = Len(it[i]) + 1
          /\ \A j \in 1..(pos - 1) : q[j] = it[i][j]
          /\ q[pos] = v
          /\ \A j \in (pos + 1)..(Len(it[i]) + 1) : q[j] = it[i][j - 1]
      <4> DEFINE u == it[i]
      <4>1. pos \in 1..(Len(u) + 1) /\ u \in Seq(V)
        BY <3>1
      <4> HIDE DEF u
      <4>2. InsertAt(u, pos, v) \in Seq(V) /\ Len(InsertAt(u, pos, v)) = Len(u) + 1
        BY <3>1, <4>1, InsertAtIs
      <4>3. /\ \A j \in 1..(pos - 1) : InsertAt(u, pos, v)[j] = u[j]
            /\ InsertAt(u, pos, v)[pos] = v
        BY <3>1, <4>1, InsertAtIs
      <4>4. \A j \in (pos + 1)..(Len(u) + 1) : InsertAt(u, pos, v)[j] = u[j - 1]
        BY <3>1, <4>1, InsertAtIs
      <4> QED
        BY <4>2, <4>3, <4>4 DEF u
    <3> QED
      BY <1>1, <3>2
  <2>3. N = Fitting(q, i, n, m)
    BY <1>4, <1>10
  <2> HIDE DEF q
  <2>4. PICK lN \in Nat :
           /\ N \in Seq(V) /\ Len(N) = lN /\ lN = (IF i < n THEN m ELSE ln + 1) /\ lN <= li + 1
           /\ \A j \in 1..lN : N[j] = q[j]
    <3>1. n \in Nat /\ i \in Nat /\ m \in Nat /\ q \in Seq(V) /\ (i < n => Len(q) = m + 1)
      BY <1>0, <1>1, <2>2, <2>3
    <3>2. /\ N \in Seq(V) /\ Len(N) = IF i < n THEN m ELSE Len(q)
          /\ \A j \in 1..Len(N) : N[j] = q[j]
      BY <2>2, <2>3, <3>1, FittingIs
    <3>3. (i < n /\ li = m) \/ (i = n /\ li = ln)
      BY <1>0, <1>1, <1>6, <1>10
    <3>4. Len(N) = (IF i < n THEN m ELSE ln + 1) /\ Len(N) <= li + 1 /\ Len(N) \in Nat
      <4>1. Len(q) = li + 1
        BY <2>2, <2>3
      <4>2. CASE i < n /\ li = m
        BY <1>1, <3>1, <3>2, <4>2
      <4>3. CASE i = n /\ li = ln
        <5>1. ~ (i < n)
          BY <3>1, <4>3
        <5>2. Len(N) = ln + 1
          BY <3>2, <4>1, <4>3, <5>1
        <5> QED
          BY <1>1, <4>3, <5>1, <5>2
      <4> QED
        BY <3>3, <4>2, <4>3
    <3> QED
      BY <3>2, <3>4
  <2>5. ASSUME NEW j \in 1..lN PROVE w[ri + j] = q[j]
    <3>0. j \in 1..(li + 1)
      BY <2>4
    <3>1. CASE j < pos
      <4>1. j \in 1..(pos - 1) /\ j \in 1..li /\ ri + j \in 1..(at - 1)
        BY <1>5, <1>10, <2>1, <3>0, <3>1
      <4> QED
        BY <1>2, <1>7, <2>2, <4>1
    <3>2. CASE j = pos
      <4>1. ri + j = at
        BY <1>5, <1>10, <3>2
      <4> QED
        BY <1>2, <2>2, <3>2, <4>1
    <3>3. CASE j > pos
      <4> DEFINE k == j - 1
      <4>1. /\ j \in (pos + 1)..(li + 1) /\ k \in 1..li
            /\ ri + j - 1 = ri + k
        BY <2>1, <3>0, <3>3
      <4>2. q[j] = it[i][k]
        BY <2>2, <4>1
      <4> HIDE DEF k
      <4>3. ri + k \in 1..L /\ s[ri + k] = it[i][k]
        BY <1>7, <4>1
      <4>4. ri + j \in (at + 1)..(L + 1)
        BY SMTT(40), <1>1, <1>5, <1>10, <3>3, <4>1, <4>3
      <4>5. w[ri + j] = s[ri + k]
        BY <1>2, <4>1, <4>4
      <4> QED
        BY <4>2, <4>3, <4>5
    <3> QED
      BY <1>3, <2>4, <3>1, <3>2, <3>3
  <2> QED
    BY <1>8, <2>4, <2>5 DEF w, N
<1>11. CASE i > blk
  <2> DEFINE h == i - 1
             e == it[h][m]
             q == <<e>> \o it[i]
  <2>1. h \in 1..n /\ h \in 1..(n - 1) /\ h \in Nat \ {0} /\ h + 1 = i
    BY <1>0, <1>3, <1>11
  <2>2. PICK rh \in Nat : rh = Row(h, m) /\ ri = rh + m /\ Len(it[h]) = m
    <3> HIDE DEF h
    <3>1. Row(h + 1, m) = Row(h, m) + m /\ Row(h, m) \in Nat
      BY <1>0, <2>1, RowIs
    <3>2. Len(it[h]) = m
      BY <1>0, <2>1, RowsAre
    <3> QED
      BY <1>1, <2>1, <3>1, <3>2
  <2>3. e \in V /\ rh + m \in 1..L /\ s[rh + m] = e
    <3> HIDE DEF h
    <3>1. m \in 1..Len(it[h])
      BY <1>0, <2>2
    <3>2. it[h][m] \in V /\ Row(h, m) + m \in 1..Len(s) /\ s[Row(h, m) + m] = it[h][m]
      BY <1>0, <2>1, <3>1, PlaceOfRow
    <3> QED
      BY <1>1, <2>2, <3>2
  <2>4. N = Fitting(q, i, n, m)
    BY <1>4, <1>11
  <2> HIDE DEF h, e
  <2>5. /\ q \in Seq(V) /\ Len(q) = li + 1 /\ q[1] = e
        /\ \A j \in 2..(li + 1) : q[j] = it[i][j - 1]
    <3>1. /\ q \in Seq(V) /\ Len(q) = Len(it[i]) + 1 /\ q[1] = e
          /\ \A j \in 2..(Len(it[i]) + 1) : q[j] = it[i][j - 1]
      BY <1>0, <2>3, PrefixedIs
    <3> QED
      BY <1>1, <3>1
  <2> HIDE DEF q
  <2>6. PICK lN \in Nat :
           /\ N \in Seq(V) /\ Len(N) = lN /\ lN = (IF i < n THEN m ELSE ln + 1) /\ lN <= li + 1
           /\ \A j \in 1..lN : N[j] = q[j]
    <3>1. n \in Nat /\ i \in Nat /\ m \in Nat /\ q \in Seq(V) /\ (i < n => Len(q) = m + 1)
      BY <1>0, <1>1, <2>4, <2>5
    <3>2. /\ N \in Seq(V) /\ Len(N) = IF i < n THEN m ELSE Len(q)
          /\ \A j \in 1..Len(N) : N[j] = q[j]
      BY <2>4, <2>5, <3>1, FittingIs
    <3>3. (i < n /\ li = m) \/ (i = n /\ li = ln)
      BY <1>0, <1>1
    <3>4. Len(N) = (IF i < n THEN m ELSE ln + 1) /\ Len(N) <= li + 1 /\ Len(N) \in Nat
      <4>1. Len(q) = li + 1
        BY <2>4, <2>5
      <4>2. CASE i < n /\ li = m
        BY <1>1, <3>1, <3>2, <4>2
      <4>3. CASE i = n /\ li = ln
        <5>1. ~ (i < n)
          BY <3>1, <4>3
        <5>2. Len(N) = ln + 1
          BY <3>2, <4>1, <4>3, <5>1
        <5> QED
          BY <1>1, <4>3, <5>1, <5>2
      <4> QED
        BY <3>3, <4>2, <4>3
    <3> QED
      BY <3>2, <3>4
  <2>7. ASSUME NEW j \in 1..lN PROVE w[ri + j] = q[j]
    <3>0. j \in 1..(li + 1)
      BY <2>6
    <3> DEFINE k == j - 1
    <3>1. ri + j - 1 = ri + k /\ k \in Nat
      BY <3>0
    <3>2. at <= ri
      BY <1>0, <1>1, <1>3, <1>5, <1>11
    <3>3. s[ri + k] = q[j] /\ ri + k <= L
      <4>1. CASE j = 1
        <5>1. ri + k = rh + m
          BY <2>2, <4>1
        <5> QED
          BY <2>3, <2>5, <4>1, <5>1
      <4>2. CASE j # 1
        <5>1. k \in 1..li /\ j \in 2..(li + 1)
          BY <3>0, <4>2
        <5>2. q[j] = it[i][k]
          BY <2>5, <5>1
        <5> HIDE DEF k
        <5>3. ri + k \in 1..L /\ s[ri + k] = it[i][k]
          BY <1>7, <5>1
        <5> QED
          BY <5>2, <5>3
      <4> QED
        BY <4>1, <4>2
    <3>4. ri + j \in (at + 1)..(L + 1)
      <4>1. /\ j \in Nat \ {0} /\ ri + k <= L /\ k = j - 1
            /\ ri \in Nat /\ at \in Nat /\ L \in Nat
        BY <1>1, <3>0, <3>3
      <4> HIDE DEF k
      <4> QED
        BY SMTT(40), <3>2, <4>1
    <3>5. w[ri + j] = s[ri + j - 1]
      BY <1>2, <3>4
    <3> QED
      BY <3>1, <3>3, <3>5
  <2> QED
    BY <1>8, <2>6, <2>7 DEF w, N
<1> QED
  BY <1>0, <1>3, <1>9, <1>10, <1>11

LEMMA InsertRows ==
    ASSUME NEW V, NEW it, NEW n, NEW m, NEW s, NEW at, NEW v, HasPlace(V, it, n, m, s, at, v),
           NEW new, new = [i \in 1..n |-> NewRow(it, n, m, at, v, i)]
    PROVE  Rows(V, new, n, m, InsertAt(s, at, v)) /\ Len(new[n]) > 0
<1> DEFINE w == InsertAt(s, at, v)
<1>0. /\ n \in Nat \ {0} /\ m \in Nat \ {0} /\ s \in Seq(V) /\ Len(s) \in Nat /\ n \in 1..n
      /\ Len(it[n]) \in Nat /\ Len(s) = Row(n, m) + Len(it[n]) /\ Row(n, m) \in Nat
      /\ Len(it[n]) < m /\ at \in 1..(Len(s) + 1) /\ v \in V
  BY RowsAre DEF HasPlace
<1>1. w \in Seq(V) /\ Len(w) = Len(s) + 1
  BY <1>0, InsertAtIs
<1> HIDE DEF w
<1>2. \A i \in 1..n : IsRow(V, new[i], i, it, n, m, w)
  BY InsertRow DEF w
<1>3. new \in [1..n -> Seq(V)]
  <2>1. \A i \in 1..n : new[i] \in Seq(V)
    BY <1>2 DEF IsRow
  <2>2. new = [i \in 1..n |-> new[i]]
    OBVIOUS
  <2> QED
    BY <2>1, <2>2
<1>4. \A i \in 1..n : Len(new[i]) = IF i < n THEN m ELSE Len(it[n]) + 1
  BY <1>2 DEF IsRow
<1>5. \A i \in 1..n : Len(new[i]) <= m
  BY <1>0, <1>4
<1>6. \A i \in 1..(n - 1) : Len(new[i]) = m
  BY <1>0, <1>4
<1>7. Len(new[n]) = Len(it[n]) + 1
  BY <1>0, <1>4
<1>8. Len(w) = Row(n, m) + Len(new[n])
  <2>1. PICK a, b \in Nat : a = Row(n, m) /\ b = Len(it[n]) /\ Len(s) = a + b
    BY <1>0
  <2>2. Len(w) = a + b + 1 /\ Len(new[n]) = b + 1
    BY <1>1, <1>7, <2>1
  <2> QED
    BY <2>1, <2>2
<1>9. \A i \in 1..n : \A j \in 1..Len(new[i]) : w[Row(i, m) + j] = new[i][j]
  BY <1>2 DEF IsRow
<1>10. Rows(V, new, n, m, w)
  BY <1>0, <1>1, <1>3, <1>5, <1>6, <1>8, <1>9 DEF Rows
<1> QED
  BY <1>0, <1>7, <1>10 DEF w

-----------------------------------------------------------------------------
(* One more row, and the rows cut in two. *)

LEMMA MoreRows ==
    ASSUME NEW V, NEW it, NEW n, NEW m, NEW s, Rows(V, it, n, m, s), Len(it[n]) = m,
           NEW new, new = [i \in 1..(n + 1) |-> IF i = n + 1 THEN << >> ELSE it[i]]
    PROVE  Rows(V, new, n + 1, m, s)
<1>0. /\ n \in Nat \ {0} /\ m \in Nat \ {0} /\ s \in Seq(V) /\ n \in 1..n
      /\ Len(s) = Row(n, m) + Len(it[n])
      /\ \A i \in 1..n : it[i] \in Seq(V) /\ Len(it[i]) <= m
      /\ \A i \in 1..(n - 1) : Len(it[i]) = m
  BY RowsAre
<1>1. /\ n + 1 \in Nat \ {0} /\ n + 1 \in 1..(n + 1) /\ (n + 1) - 1 = n
      /\ \A i \in 1..(n + 1) : i = n + 1 \/ (i \in 1..n /\ i # n + 1)
      /\ \A i \in 1..n : i = n \/ i \in 1..(n - 1)
      /\ \A i \in 1..n : i \in 1..(n + 1) /\ i # n + 1
  BY <1>0
<1>2. /\ new[n + 1] = << >> /\ \A i \in 1..n : new[i] = it[i]
      /\ << >> \in Seq(V) /\ Len(<< >>) = 0
  BY <1>1
<1>3. Row(n + 1, m) = Row(n, m) + m /\ Row(n + 1, m) \in Nat
  BY <1>0, RowIs
<1>4. new \in [1..(n + 1) -> Seq(V)]
  <2>1. \A i \in 1..(n + 1) : (IF i = n + 1 THEN << >> ELSE it[i]) \in Seq(V)
    BY <1>0, <1>1, <1>2
  <2> QED
    BY <2>1
<1>5. \A i \in 1..(n + 1) : Len(new[i]) <= m
  BY <1>0, <1>1, <1>2
<1>6. \A i \in 1..n : Len(new[i]) = m
  BY <1>0, <1>1, <1>2
<1>7. Len(s) = Row(n + 1, m) + Len(new[n + 1])
  <2>1. Len(s) = Row(n + 1, m)
    BY <1>0, <1>3
  <2>2. Len(new[n + 1]) = 0
    BY <1>2
  <2> QED
    BY <1>3, <2>1, <2>2
<1>8. \A i \in 1..(n + 1) : \A j \in 1..Len(new[i]) : s[Row(i, m) + j] = new[i][j]
  <2> SUFFICES ASSUME NEW i \in 1..(n + 1), NEW j \in 1..Len(new[i])
               PROVE  s[Row(i, m) + j] = new[i][j]
    OBVIOUS
  <2>1. CASE i = n + 1
    BY <1>2, <2>1
  <2>2. CASE i # n + 1
    <3>1. i \in 1..n /\ new[i] = it[i]
      BY <1>1, <1>2, <2>2
    <3> QED
      BY <3>1 DEF Rows
  <2> QED
    BY <2>1, <2>2
<1> QED
  BY <1>0, <1>1, <1>4, <1>5, <1>6, <1>7, <1>8 DEF Rows

LEMMA RowSum ==
    ASSUME NEW m \in Nat, NEW p \in Nat, NEW i \in Nat \ {0}
    PROVE  Row(p + i, m) = Row(p + 1, m) + Row(i, m)
<1>1. \A a, b \in Nat : (a + b) * m = a * m + b * m
  OBVIOUS
<1>2. PICK b \in Nat : b = i - 1
  OBVIOUS
<1>3. Row(p + i, m) = (p + b) * m /\ Row(p + 1, m) = p * m /\ Row(i, m) = b * m
  <2>1. (p + i) - 1 = p + b /\ (p + 1) - 1 = p
    BY <1>2
  <2> QED
    BY <1>2, <2>1 DEF Row
<1> QED
  BY <1>1, <1>3

LEMMA SubSeqIs ==
    ASSUME NEW V, NEW s \in Seq(V), NEW a \in Nat, a <= Len(s)
    PROVE  /\ SubSeq(s, a + 1, Len(s)) \in Seq(V)
           /\ Len(SubSeq(s, a + 1, Len(s))) = Len(s) - a
           /\ \A i \in 1..(Len(s) - a) : SubSeq(s, a + 1, Len(s))[i] = s[a + i]
  OBVIOUS

(* The rows up to p and those after it.                                    *)
LEMMA CutRows ==
    ASSUME NEW V, NEW it, NEW n, NEW m, NEW s, Rows(V, it, n, m, s), NEW p \in 1..(n - 1),
           NEW lt, lt = [i \in 1..p |-> it[i]],
           NEW rt, rt = [i \in 1..(n - p) |-> it[p + i]]
    PROVE  /\ Row(p + 1, m) \in 1..Len(s)
           /\ Rows(V, lt, p, m, SubSeq(s, 1, Row(p + 1, m)))
           /\ Rows(V, rt, n - p, m, SubSeq(s, Row(p + 1, m) + 1, Len(s)))
<1>0. /\ n \in Nat \ {0} /\ m \in Nat \ {0} /\ s \in Seq(V) /\ n \in 1..n
      /\ \A i \in 1..n : it[i] \in Seq(V) /\ Len(it[i]) <= m
      /\ \A i \in 1..(n - 1) : Len(it[i]) = m
  BY RowsAre
<1>1. PICK L, a, rp, rn, ln \in Nat :
         /\ L = Len(s) /\ a = Row(p + 1, m) /\ rp = Row(p, m) /\ rn = Row(n, m) /\ ln = Len(it[n])
         /\ L = rn + ln /\ a = rp + m /\ a <= rn /\ a > 0
  <2>1. p \in Nat \ {0} /\ p + 1 \in Nat \ {0} /\ p < n /\ (p + 1 < n \/ p + 1 = n)
    BY <1>0
  <2>2. Len(s) \in Nat /\ Len(it[n]) \in Nat /\ Len(s) = Row(n, m) + Len(it[n])
    BY <1>0, RowsAre
  <2>3. /\ Row(p, m) \in Nat /\ Row(n, m) \in Nat /\ Row(p + 1, m) \in Nat
        /\ Row(p + 1, m) = Row(p, m) + m /\ Row(p, m) + m <= Row(n, m)
    BY <1>0, <2>1, RowIs
  <2>4. Row(p + 1, m) <= Row(n, m) /\ Row(p + 1, m) > 0
    BY <1>0, <2>3
  <2> QED
    BY <2>2, <2>3, <2>4
<1> DEFINE u == SubSeq(s, 1, a)
           w == SubSeq(s, a + 1, L)
<1>2. u \in Seq(V) /\ Len(u) = a /\ \A i \in 1..a : u[i] = s[i]
  <2>1. a <= Len(s)
    BY <1>1
  <2> QED
    BY <1>0, <2>1, CutOffIs
<1>3. w \in Seq(V) /\ Len(w) = L - a /\ \A i \in 1..(L - a) : w[i] = s[a + i]
  <2>1. a <= Len(s) /\ L = Len(s)
    BY <1>1
  <2> QED
    BY <1>0, <2>1, SubSeqIs
<1> HIDE DEF u, w
<1>4. /\ p \in Nat \ {0} /\ n - p \in Nat \ {0} /\ (n - p) - 1 = (n - 1) - p
      /\ p \in 1..(n - 1) /\ n - p \in 1..(n - p) /\ p + (n - p) = n
      /\ \A i \in 1..p : i \in 1..n /\ i \in 1..(n - 1)
      /\ \A i \in 1..(n - p) : p + i \in 1..n
      /\ \A i \in 1..((n - p) - 1) : p + i \in 1..(n - 1) /\ i \in 1..(n - p)
  BY <1>0
<1>5. Rows(V, lt, p, m, u)
  <2>1. lt \in [1..p -> Seq(V)] /\ \A i \in 1..p : lt[i] = it[i] /\ Len(lt[i]) = m
    BY <1>0, <1>4
  <2>2. Len(u) = Row(p, m) + Len(lt[p])
    BY SMTT(40), <1>1, <1>2, <1>4, <2>1
  <2>3. ASSUME NEW i \in 1..p, NEW j \in 1..Len(lt[i]) PROVE u[Row(i, m) + j] = lt[i][j]
    <3>1. j \in 1..m /\ lt[i] = it[i] /\ i \in 1..n /\ j \in 1..Len(it[i])
      BY <1>4, <2>1, <2>3
    <3>2. PICK ri \in Nat : ri = Row(i, m) /\ ri + m <= a
      <4>1. i \in Nat \ {0} /\ i < p + 1 /\ p + 1 \in Nat \ {0}
        BY <1>4
      <4>2. Row(i, m) \in Nat /\ Row(i, m) + m <= Row(p + 1, m)
        BY <1>0, <4>1, RowIs
      <4> QED
        BY <1>1, <4>2
    <3>3. ri + j \in 1..a
      BY <1>0, <3>1, <3>2
    <3>4. s[ri + j] = it[i][j]
      BY <3>1, <3>2 DEF Rows
    <3> QED
      BY <1>2, <3>1, <3>2, <3>3, <3>4
  <2>4. \A i \in 1..p : Len(lt[i]) <= m
    BY <1>0, <2>1
  <2>5. \A i \in 1..(p - 1) : Len(lt[i]) = m
    BY <1>4, <2>1
  <2> QED
    BY <1>0, <1>2, <1>4, <2>1, <2>2, <2>3, <2>4, <2>5 DEF Rows
<1>6. Rows(V, rt, n - p, m, w)
  <2>1. rt \in [1..(n - p) -> Seq(V)] /\ \A i \in 1..(n - p) : rt[i] = it[p + i]
    BY <1>0, <1>4
  <2>2. ASSUME NEW i \in 1..(n - p) PROVE Row(p + i, m) = a + Row(i, m) /\ Row(i, m) \in Nat
    <3>1. i \in Nat \ {0} /\ p \in Nat /\ m \in Nat
      BY <1>0, <1>4
    <3> QED
      BY <1>1, <3>1, RowSum, RowIs
  <2>3. Len(w) = Row(n - p, m) + Len(rt[n - p])
    <3>1. Row(n, m) = a + Row(n - p, m) /\ Row(n - p, m) \in Nat /\ rt[n - p] = it[n]
      BY <1>4, <2>1, <2>2
    <3>2. PICK b \in Nat : b = Row(n - p, m) /\ rn = a + b
      BY <1>1, <3>1
    <3>3. Len(w) = L - a /\ L = rn + ln /\ Len(rt[n - p]) = ln
      BY <1>1, <1>3, <3>1
    <3>4. L - a = b + ln
      <4>1. L \in Nat /\ a \in Nat /\ rn \in Nat /\ ln \in Nat /\ b \in Nat
        BY <1>1, <3>2
      <4>2. L = rn + ln /\ rn = a + b
        BY <3>2, <3>3
      <4> QED
        BY <4>1, <4>2
    <3> QED
      BY <3>2, <3>3, <3>4
  <2>4. ASSUME NEW i \in 1..(n - p), NEW j \in 1..Len(rt[i]) PROVE w[Row(i, m) + j] = rt[i][j]
    <3>1. rt[i] = it[p + i] /\ p + i \in 1..n /\ j \in 1..Len(it[p + i])
      BY <1>4, <2>1, <2>4
    <3>2. PICK ri \in Nat : ri = Row(i, m) /\ Row(p + i, m) = a + ri
      BY <2>2
    <3>3. a + ri + j \in 1..L /\ s[a + ri + j] = it[p + i][j]
      <4> DEFINE k == p + i
      <4>1. k \in 1..n /\ j \in 1..Len(it[k]) /\ Row(k, m) = a + ri
        BY <3>1, <3>2
      <4> HIDE DEF k
      <4>2. Row(k, m) + j \in 1..Len(s) /\ s[Row(k, m) + j] = it[k][j]
        BY <4>1, PlaceOfRow
      <4> QED
        BY <1>1, <4>1, <4>2 DEF k
    <3>4. ri + j \in 1..(L - a) /\ a + (ri + j) = a + ri + j
      <4>1. j \in Nat \ {0} /\ a \in Nat /\ L \in Nat /\ ri \in Nat
        BY <1>1, <2>4, <3>2
      <4>2. a + ri + j <= L
        BY <3>3
      <4> QED
        BY <4>1, <4>2
    <3>5. w[ri + j] = s[a + (ri + j)]
      BY <1>3, <3>4
    <3> QED
      BY <3>1, <3>2, <3>3, <3>4, <3>5
  <2>5. \A i \in 1..(n - p) : Len(rt[i]) <= m
    BY <1>0, <1>4, <2>1
  <2>6. \A i \in 1..((n - p) - 1) : Len(rt[i]) = m
    BY <1>0, <1>4, <2>1
  <2> QED
    BY <1>0, <1>3, <1>4, <2>1, <2>3, <2>4, <2>5, <2>6 DEF Rows
<1>7. a \in 1..L
  BY <1>1
<1> QED
  BY <1>1, <1>5, <1>6, <1>7 DEF u, w
=============================================================================
