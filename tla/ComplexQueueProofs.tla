------------------------- MODULE ComplexQueueProofs -------------------------
(***************************************************************************)
(* The layer of the open list for every size of its caches and of its      *)
(* blocks, and any number of values: it is a queue.                        *)
(***************************************************************************)
EXTENDS ComplexQueue, SequenceTheorems, WellFoundedInduction, TLAPS

(* A set of natural numbers that has an element has a least one.           *)
LEMMA LeastNumber ==
    ASSUME NEW T \in SUBSET Nat, T # {}
    PROVE  \E x \in T : \A y \in T : x <= y
<1> DEFINE R == OpToRel(<, Nat)
<1>1. IsWellFoundedOn(R, Nat)
  BY NatLessThanWellFounded
<1>2. \A x, y \in Nat : <<y, x>> \in R <=> y < x
  BY DEF OpToRel
<1> HIDE DEF R
<1>3. \E x \in T : \A y \in T : ~ (<<y, x>> \in R)
  BY <1>1, WFMin, Zenon
<1>4. PICK x \in T : \A y \in T : ~ (<<y, x>> \in R)
  BY <1>3
<1>5. ASSUME NEW y \in T PROVE x <= y
  <2>1. ~ (<<y, x>> \in R) /\ x \in Nat /\ y \in Nat
    BY <1>4
  <2>2. ~ (y < x)
    BY <2>1, <1>2, Zenon
  <2> QED
    BY <2>1, <2>2
<1> QED
  BY <1>5
-----------------------------------------------------------------------------
(* Sequences of sequences, put together. *)

(* Concatenation is associative, also with one element in front.           *)
LEMMA ConcatTwice ==
    ASSUME NEW V
    PROVE  \A r, s, t \in Seq(V) : (r \o s) \o t = r \o (s \o t)
<1> SUFFICES ASSUME NEW r \in Seq(V), NEW s \in Seq(V), NEW t \in Seq(V)
             PROVE  (r \o s) \o t = r \o (s \o t)
  OBVIOUS
<1> DEFINE left == (r \o s) \o t
           right == r \o (s \o t)
<1>1. /\ left \in Seq(V) /\ right \in Seq(V)
      /\ Len(left) = Len(r) + Len(s) + Len(t) /\ Len(right) = Len(left)
  OBVIOUS
<1>2. ASSUME NEW i \in 1..Len(left) PROVE left[i] = right[i]
  OBVIOUS
<1> HIDE DEF left, right
<1>3. left = right
  BY <1>1, <1>2
<1> QED
  BY <1>3 DEF left, right

(* The sequences put together so far, the first i of them at place i.      *)
IsFlat(g, seqs) ==
    \A i \in 1..Len(seqs) : g[i] = IF i = 1 THEN seqs[i] ELSE g[i - 1] \o seqs[i]

(* FlattenSeq is what its definition says.                                 *)
LEMMA FlattenSteps ==
    ASSUME NEW V, NEW seqs \in Seq(Seq(V)), seqs # << >>
    PROVE  \E g \in [1..Len(seqs) -> Seq(V)] :
              IsFlat(g, seqs) /\ FlattenSeq(seqs) = g[Len(seqs)]
<1> DEFINE N == Len(seqs)
           Sum(g, i) == IF i = 1 THEN seqs[i] ELSE g[i - 1] \o seqs[i]
           Upto(g, n) == g \in [1..n -> Seq(V)] /\ \A i \in 1..n : g[i] = Sum(g, i)
<1>1. N \in Nat /\ N >= 1 /\ \A i \in 1..N : seqs[i] \in Seq(V)
  OBVIOUS
<1> HIDE DEF N
<1>2. \A n \in Nat : n <= N => \E g : Upto(g, n)
  <2> DEFINE Without == {n \in Nat : n <= N /\ ~ \E g : Upto(g, n)}
  <2> SUFFICES ASSUME Without # {} PROVE FALSE
    OBVIOUS
  <2>1. PICK n \in Without : \A m \in Without : n <= m
    <3> HIDE DEF Upto
    <3>1. Without \in SUBSET Nat
      OBVIOUS
    <3> HIDE DEF Without
    <3> QED
      BY <3>1, LeastNumber
  <2>2. CASE n = 0
    <3>1. Upto([i \in 1..0 |-> << >>], 0)
      OBVIOUS
    <3> QED
      BY <2>2, <3>1
  <2>3. CASE n # 0
    <3>1. n \in Nat /\ n - 1 \in Nat /\ ~ (n <= n - 1) /\ n <= N /\ n - 1 <= N
      BY <2>3, <1>1
    <3>2. PICK g : Upto(g, n - 1)
      BY <2>1, <3>1
    <3> DEFINE h == [i \in 1..n |-> IF i = n THEN Sum(g, n) ELSE g[i]]
    <3>3. Sum(g, n) \in Seq(V)
      BY <3>1, <3>2, <1>1
    <3>4. h \in [1..n -> Seq(V)]
      <4> HIDE DEF Sum
      <4> QED
        BY <3>1, <3>2, <3>3
    <3>5. ASSUME NEW i \in 1..n PROVE h[i] = Sum(h, i)
      <4>1. i \in Int /\ i - 1 # n /\ (i # 1 => i - 1 \in 1..n)
        BY <3>1
      <4>2. i # 1 => h[i - 1] = g[i - 1]
        BY <4>1
      <4>3. Sum(h, i) = Sum(g, i)
        <5> HIDE DEF h
        <5> QED
          BY <4>2
      <4>4. h[i] = IF i = n THEN Sum(g, n) ELSE g[i]
        <5> HIDE DEF Sum
        <5> QED
          OBVIOUS
      <4>5. i # n => i \in 1..(n - 1)
        BY <3>1
      <4>6. i # n => g[i] = Sum(g, i)
        BY <4>5, <3>2
      <4> HIDE DEF h, Sum
      <4> QED
        BY <4>3, <4>4, <4>6
    <3>6. Upto(h, n)
      <4> HIDE DEF h, Sum
      <4> QED
        BY <3>4, <3>5
    <3> QED
      BY <2>1, <3>6
  <2> QED
    BY <2>2, <2>3
<1>3. PICK g : Upto(g, N)
  <2>1. N <= N
    BY <1>1
  <2> HIDE DEF Upto
  <2> QED
    BY <1>1, <1>2, <2>1
<1>4. g = [i \in 1..N |-> Sum(g, i)]
  BY <1>3
<1> DEFINE flat == CHOOSE f : f = [i \in 1..N |-> IF i = 1 THEN seqs[i] ELSE f[i - 1] \o seqs[i]]
<1>5. flat = [i \in 1..N |-> Sum(flat, i)]
  BY <1>4
<1>6. FlattenSeq(seqs) = flat[N]
  BY <1>1 DEF FlattenSeq, N
<1> HIDE DEF flat
<1>7. ASSUME NEW i \in 1..N PROVE flat[i] = g[i]
  <2> DEFINE Apart == {j \in 1..N : flat[j] # g[j]}
  <2> SUFFICES ASSUME Apart # {} PROVE FALSE
    OBVIOUS
  <2>1. PICK j \in Apart : \A k \in Apart : j <= k
    <3>1. Apart \in SUBSET Nat
      OBVIOUS
    <3> HIDE DEF Apart
    <3> QED
      BY <3>1, LeastNumber
  <2>2. j \in 1..N /\ flat[j] = Sum(flat, j) /\ g[j] = Sum(g, j)
    BY <2>1, <1>3, <1>5
  <2>3. j # 1 => flat[j - 1] = g[j - 1]
    <3>1. j # 1 => j - 1 \in 1..N /\ ~ (j <= j - 1)
      BY <1>1, <2>2
    <3> QED
      BY <3>1, <2>1
  <2> QED
    BY <2>1, <2>2, <2>3
<1>8. FlattenSeq(seqs) = g[N] /\ IsFlat(g, seqs)
  <2>1. N \in 1..N
    BY <1>1
  <2>2. FlattenSeq(seqs) = g[N]
    BY <2>1, <1>6, <1>7
  <2>3. \A i \in 1..N : g[i] = Sum(g, i)
    BY <1>3
  <2> QED
    BY <2>2, <2>3 DEF IsFlat, N
<1> QED
  BY <1>3, <1>8 DEF N

(* Whatever is built like it is what FlattenSeq gives.                     *)
LEMMA FlattenIs ==
    ASSUME NEW V, NEW seqs \in Seq(Seq(V)), seqs # << >>,
           NEW g, IsFlat(g, seqs)
    PROVE  FlattenSeq(seqs) = g[Len(seqs)]
<1>1. PICK f \in [1..Len(seqs) -> Seq(V)] :
          IsFlat(f, seqs) /\ FlattenSeq(seqs) = f[Len(seqs)]
  BY FlattenSteps
<1> DEFINE N == Len(seqs)
           Apart == {j \in 1..N : f[j] # g[j]}
<1>2. N \in Nat /\ N \in 1..N
  OBVIOUS
<1>3. ASSUME Apart # {} PROVE FALSE
  <2>1. PICK j \in Apart : \A k \in Apart : j <= k
    <3>1. Apart \in SUBSET Nat
      OBVIOUS
    <3> HIDE DEF Apart
    <3> QED
      BY <1>3, <3>1, LeastNumber
  <2>2. j \in 1..N
    BY <2>1
  <2>3. j # 1 => f[j - 1] = g[j - 1]
    <3>1. j # 1 => j - 1 \in 1..N /\ ~ (j <= j - 1)
      BY <2>2
    <3> QED
      BY <3>1, <2>1
  <2> QED
    BY ZenonT(60), <2>1, <2>2, <2>3, <1>1 DEF IsFlat
<1> QED
  BY <1>1, <1>2, <1>3

LEMMA FlattenEmpty == FlattenSeq(<< >>) = << >>
BY DEF FlattenSeq

LEMMA FlattenType ==
    ASSUME NEW V, NEW seqs \in Seq(Seq(V))
    PROVE  FlattenSeq(seqs) \in Seq(V)
<1>1. CASE seqs = << >>
  <2>1. << >> \in Seq(V)
    OBVIOUS
  <2> QED
    BY <1>1, <2>1, FlattenEmpty
<1>2. CASE seqs # << >>
  <2>1. PICK g \in [1..Len(seqs) -> Seq(V)] : FlattenSeq(seqs) = g[Len(seqs)]
    BY <1>2, FlattenSteps
  <2>2. Len(seqs) \in 1..Len(seqs)
    BY <1>2
  <2> QED
    BY <2>1, <2>2
<1> QED
  BY <1>1, <1>2

(* One more sequence behind the others.                                    *)
LEMMA FlattenAppend ==
    ASSUME NEW V, NEW seqs \in Seq(Seq(V)), NEW s \in Seq(V)
    PROVE  FlattenSeq(Append(seqs, s)) = FlattenSeq(seqs) \o s
<1> DEFINE all == Append(seqs, s)
           N == Len(seqs)
<1>1. /\ all \in Seq(Seq(V)) /\ all # << >> /\ N \in Nat /\ Len(all) = N + 1
      /\ all[N + 1] = s /\ \A i \in 1..N : all[i] = seqs[i]
  <2> DEFINE S == Seq(V)
  <2>1. seqs \in Seq(S) /\ s \in S
    OBVIOUS
  <2> HIDE DEF S
  <2>2. /\ all \in Seq(S) /\ N \in Nat /\ Len(all) = N + 1
        /\ all[N + 1] = s /\ \A i \in 1..N : all[i] = seqs[i]
    BY <2>1
  <2>3. all # << >>
    <3> HIDE DEF all
    <3>1. Len(all) # 0 /\ Len(<< >>) = 0
      BY <2>2
    <3> QED
      BY <3>1
  <2> QED
    BY <2>2, <2>3 DEF S
<1>2. CASE seqs = << >>
  <2>1. IsFlat(all, all)
    BY <1>1, <1>2 DEF IsFlat
  <2>2. FlattenSeq(all) = all[Len(all)]
    BY <2>1, <1>1, FlattenIs
  <2>3. FlattenSeq(all) = s
    BY <2>2, <1>1
  <2> QED
    BY <2>3, <1>2, FlattenEmpty
<1>3. CASE seqs # << >>
  <2>1. PICK g \in [1..N -> Seq(V)] : IsFlat(g, seqs) /\ FlattenSeq(seqs) = g[N]
    BY <1>3, FlattenSteps
  <2> DEFINE h == [i \in 1..(N + 1) |-> IF i = N + 1 THEN g[N] \o s ELSE g[i]]
  <2> HIDE DEF all
  <2>2. IsFlat(h, all)
    <3>1. N >= 1
      BY <1>1, <1>3
    <3>2. ASSUME NEW i \in 1..(N + 1)
          PROVE  h[i] = IF i = 1 THEN all[i] ELSE h[i - 1] \o all[i]
      <4>1. CASE i = N + 1
        <5>1. i # 1 /\ i - 1 = N /\ N \in 1..(N + 1) /\ N # N + 1
          BY <3>1, <4>1
        <5> QED
          BY <5>1, <4>1, <1>1
      <4>2. CASE i # N + 1
        <5>1. i \in 1..N /\ (i # 1 => i - 1 \in 1..(N + 1) /\ i - 1 # N + 1)
          BY <4>2, <1>1
        <5>2. g[i] = IF i = 1 THEN seqs[i] ELSE g[i - 1] \o seqs[i]
          BY <5>1, <2>1 DEF IsFlat
        <5> QED
          BY <5>1, <5>2, <4>2, <1>1
      <4> QED
        BY <4>1, <4>2
    <3> HIDE DEF h
    <3> QED
      BY <3>2, <1>1 DEF IsFlat
  <2>3. FlattenSeq(all) = h[N + 1]
    <3> HIDE DEF h
    <3> QED
      BY <2>2, <1>1, FlattenIs
  <2> QED
    BY <2>1, <2>3, <1>1 DEF all
<1> QED
  BY <1>2, <1>3

(* One more sequence in front of the others.                               *)
LEMMA FlattenFront ==
    ASSUME NEW V
    PROVE  \A seqs, all \in Seq(Seq(V)) : \A s \in Seq(V) :
              /\ Len(all) = Len(seqs) + 1 /\ all[1] = s
              /\ \A i \in 1..Len(seqs) : all[i + 1] = seqs[i]
              => FlattenSeq(all) = s \o FlattenSeq(seqs)
<1>4. \A s, r, t \in Seq(V) : (s \o r) \o t = s \o (r \o t)
  BY ConcatTwice
<1> SUFFICES ASSUME NEW seqs \in Seq(Seq(V)), NEW s \in Seq(V),
                    NEW all \in Seq(Seq(V)), Len(all) = Len(seqs) + 1, all[1] = s,
                    \A i \in 1..Len(seqs) : all[i + 1] = seqs[i]
             PROVE  FlattenSeq(all) = s \o FlattenSeq(seqs)
  OBVIOUS
<1> DEFINE N == Len(seqs)
<1>1. all # << >> /\ N \in Nat
  OBVIOUS
<1>2. CASE seqs = << >>
  <2>1. IsFlat(all, all) /\ Len(all) = 1
    BY <1>2 DEF IsFlat
  <2>2. FlattenSeq(all) = all[1]
    BY <2>1, <1>1, FlattenIs
  <2> QED
    BY <2>2, <1>2, FlattenEmpty
<1>3. CASE seqs # << >>
  <2>1. PICK g \in [1..N -> Seq(V)] : IsFlat(g, seqs) /\ FlattenSeq(seqs) = g[N]
    BY <1>3, FlattenSteps
  <2> DEFINE h == [i \in 1..(N + 1) |-> IF i = 1 THEN s ELSE s \o g[i - 1]]
  <2>2. IsFlat(h, all)
    <3>1. N >= 1
      BY <1>1, <1>3
    <3>2. ASSUME NEW i \in 1..(N + 1)
          PROVE  h[i] = IF i = 1 THEN all[i] ELSE h[i - 1] \o all[i]
      <4>1. CASE i = 1
        BY <4>1
      <4>2. CASE i # 1
        <5>1. i - 1 \in 1..N /\ i - 1 \in 1..(N + 1) /\ all[(i - 1) + 1] = seqs[i - 1]
          <6>1. i \in Int /\ i >= 2 /\ i <= N + 1
            BY <4>2, <1>1
          <6>2. i - 1 \in 1..N /\ i - 1 \in 1..(N + 1)
            BY <6>1, <1>1
          <6> QED
            BY <6>2
        <5>2. (i - 1) + 1 = i /\ all[i] = seqs[i - 1] /\ seqs[i - 1] \in Seq(V)
          BY <5>1
        <5>3. g[i - 1] = IF i - 1 = 1 THEN seqs[i - 1] ELSE g[(i - 1) - 1] \o seqs[i - 1]
          BY <5>1, <2>1 DEF IsFlat
        <5>4. CASE i - 1 = 1
          BY <5>1, <5>2, <5>3, <5>4, <4>2
        <5>5. CASE i - 1 # 1
          <6>1. (i - 1) - 1 \in 1..N /\ g[(i - 1) - 1] \in Seq(V)
            <7>1. i \in Int /\ i >= 3 /\ i <= N + 1
              BY <5>1, <5>5, <1>1
            <7>2. (i - 1) - 1 \in 1..N
              BY <7>1, <1>1
            <7> QED
              BY <7>2, <2>1
          <6>2. (s \o g[(i - 1) - 1]) \o seqs[i - 1] = s \o (g[(i - 1) - 1] \o seqs[i - 1])
            BY <1>4, <6>1, <5>2, Zenon
          <6> QED
            BY <6>2, <5>1, <5>2, <5>3, <5>5, <4>2
        <5> QED
          BY <5>4, <5>5
      <4> QED
        BY <4>1, <4>2
    <3> HIDE DEF h
    <3> QED
      BY <3>2, <1>1 DEF IsFlat
  <2>3. FlattenSeq(all) = h[N + 1]
    <3> HIDE DEF h
    <3> QED
      BY <2>2, <1>1, FlattenIs
  <2> QED
    BY SMTT(60), <2>1, <2>3, <1>1, <1>3
<1> QED
  BY <1>2, <1>3
-----------------------------------------------------------------------------
(* The blocks of an external_queue. *)

AnyBlock == [first : Nat, vals : Seq(Values)]

QueueType ==
    [front : [Slots -> AnyBlock], first : Nat, last : Int, fileIndex : Nat,
     tail : [Slots -> AnyBlock], tailLast : Nat,
     read : Seq(AnyBlock), write : Seq(AnyBlock), size : Nat]

FrontLen(q) == q.last + 1 - q.first
ReadLen(q) == Len(q.read) - q.fileIndex

(* The caches and the files hold as many blocks as the queue has, and an   *)
(* empty queue has none in the files and the tail.                         *)
QueueShape(q) ==
    /\ q \in QueueType
    /\ q.tailLast <= CachedBlocks
    /\ q.fileIndex <= Len(q.read)
    /\ q.size = 0 => q.fileIndex = Len(q.read) /\ q.write = << >> /\ q.tailLast = 0
    /\ q.size # 0 =>
          /\ q.first <= q.last /\ q.last < CachedBlocks
          /\ q.size = FrontLen(q) + ReadLen(q) + Len(q.write) + q.tailLast

(* The i-th block: in the front cache, the read file, the write file or    *)
(* the tail cache.                                                         *)
BlockAt(q, i) ==
    IF i <= FrontLen(q) THEN q.front[q.first + i - 1]
    ELSE IF i <= FrontLen(q) + ReadLen(q) THEN q.read[q.fileIndex + i - FrontLen(q)]
    ELSE IF i <= FrontLen(q) + ReadLen(q) + Len(q.write)
         THEN q.write[i - FrontLen(q) - ReadLen(q)]
         ELSE q.tail[i - FrontLen(q) - ReadLen(q) - Len(q.write) - 1]

LEMMA QueueTypes ==
    ASSUME NEW q, QueueShape(q)
    PROVE  /\ q.front \in [Slots -> AnyBlock] /\ q.tail \in [Slots -> AnyBlock]
           /\ q.first \in Nat /\ q.last \in Int /\ q.fileIndex \in Nat
           /\ q.tailLast \in Nat /\ q.size \in Nat
           /\ q.read \in Seq(AnyBlock) /\ q.write \in Seq(AnyBlock)
           /\ Len(q.read) \in Nat /\ Len(q.write) \in Nat
           /\ CachedBlocks \in Nat \ {0}
<1>1. q \in QueueType
  BY DEF QueueShape
<1> QED
  BY <1>1, QueueAssumption DEF QueueType

LEMMA SliceIs ==
    ASSUME NEW a \in [Slots -> AnyBlock], NEW from \in Nat, NEW to \in Int,
           from <= to, to <= CachedBlocks
    PROVE  /\ Slice(a, from, to) \in Seq(AnyBlock)
           /\ Len(Slice(a, from, to)) = to - from
           /\ \A i \in 1..(to - from) : Slice(a, from, to)[i] = a[from + i - 1]
<1>1. CachedBlocks \in Nat /\ to - from \in Nat
  BY QueueAssumption
<1>2. ASSUME NEW i \in 1..(to - from) PROVE a[from + i - 1] \in AnyBlock
  <2>1. from + i - 1 \in Slots
    BY <1>1 DEF Slots
  <2> QED
    BY <2>1
<1> QED
  BY <1>1, <1>2 DEF Slice

(* A part of a sequence up to its end. *)
LEMMA RestIs ==
    ASSUME NEW s \in Seq(AnyBlock), NEW n \in Nat, n <= Len(s)
    PROVE  /\ SubSeq(s, n + 1, Len(s)) \in Seq(AnyBlock)
           /\ Len(SubSeq(s, n + 1, Len(s))) = Len(s) - n
           /\ \A i \in 1..(Len(s) - n) : SubSeq(s, n + 1, Len(s))[i] = s[n + i]
<1>1. Len(s) \in Nat /\ n + 1 \in Int
  OBVIOUS
<1>2. \A i \in (n + 1)..Len(s) : s[i] \in AnyBlock
  BY <1>1
<1>3. /\ SubSeq(s, n + 1, Len(s)) \in Seq(AnyBlock)
      /\ Len(SubSeq(s, n + 1, Len(s))) = IF n + 1 <= Len(s) THEN Len(s) - (n + 1) + 1 ELSE 0
      /\ \A i \in 1..(Len(s) - (n + 1) + 1) :
            SubSeq(s, n + 1, Len(s))[i] = s[(n + 1) + i - 1]
  BY <1>1, <1>2, SubSeqProperties
<1>4. ASSUME NEW i \in 1..(Len(s) - n) PROVE SubSeq(s, n + 1, Len(s))[i] = s[n + i]
  <2>1. Len(s) - (n + 1) + 1 = Len(s) - n /\ (n + 1) + i - 1 = n + i
    BY <1>1
  <2> QED
    BY <1>3, <2>1
<1>5. (IF n + 1 <= Len(s) THEN Len(s) - (n + 1) + 1 ELSE 0) = Len(s) - n
  BY <1>1
<1> QED
  BY <1>3, <1>4, <1>5

(* s is the sequences a, b, c and d in a row. *)
IsRow(s, a, b, c, d) ==
    /\ Len(s) = Len(a) + Len(b) + Len(c) + Len(d)
    /\ \A i \in 1..(Len(a) + Len(b) + Len(c) + Len(d)) :
          s[i] = IF i <= Len(a) THEN a[i]
                 ELSE IF i <= Len(a) + Len(b) THEN b[i - Len(a)]
                 ELSE IF i <= Len(a) + Len(b) + Len(c) THEN c[i - Len(a) - Len(b)]
                 ELSE d[i - Len(a) - Len(b) - Len(c)]

LEMMA FourInARow ==
    ASSUME NEW V
    PROVE  \A a, b, c, d \in Seq(V) :
              a \o b \o c \o d \in Seq(V) /\ IsRow(a \o b \o c \o d, a, b, c, d)
BY DEF IsRow

(* What is in the queue: as many blocks as its size, each at its place.    *)
LEMMA BlocksAre ==
    ASSUME NEW q, QueueShape(q)
    PROVE  /\ BlocksOf(q) \in Seq(AnyBlock)
           /\ Len(BlocksOf(q)) = q.size
           /\ \A i \in 1..q.size : BlocksOf(q)[i] = BlockAt(q, i)
<1>1. /\ q.front \in [Slots -> AnyBlock] /\ q.tail \in [Slots -> AnyBlock]
      /\ q.first \in Nat /\ q.last \in Int /\ q.fileIndex \in Nat
      /\ q.tailLast \in Nat /\ q.size \in Nat
      /\ q.read \in Seq(AnyBlock) /\ q.write \in Seq(AnyBlock)
      /\ Len(q.read) \in Nat /\ Len(q.write) \in Nat
      /\ q.tailLast <= CachedBlocks /\ q.fileIndex <= Len(q.read)
      /\ CachedBlocks \in Nat \ {0}
  BY QueueTypes DEF QueueShape
<1>2. CASE q.size = 0
  <2>1. BlocksOf(q) = << >>
    BY <1>2 DEF BlocksOf
  <2> QED
    BY <2>1, <1>2
<1>3. CASE q.size # 0
  <2> DEFINE a == Slice(q.front, q.first, q.last + 1)
             b == SubSeq(q.read, q.fileIndex + 1, Len(q.read))
             c == q.write
             d == Slice(q.tail, 0, q.tailLast)
  <2>1. /\ q.first <= q.last + 1 /\ q.last + 1 <= CachedBlocks
        /\ q.size = FrontLen(q) + ReadLen(q) + Len(q.write) + q.tailLast
    BY <1>1, <1>3 DEF QueueShape
  <2>2. /\ a \in Seq(AnyBlock) /\ Len(a) = FrontLen(q)
        /\ \A i \in 1..FrontLen(q) : a[i] = q.front[q.first + i - 1]
    <3> DEFINE to == q.last + 1
    <3>1. to \in Int /\ q.first <= to /\ to <= CachedBlocks /\ to - q.first = FrontLen(q)
      <4>1. q.first \in Int /\ q.last \in Int /\ CachedBlocks \in Int
        BY <1>1
      <4>2. q.first <= to /\ to <= CachedBlocks
        BY <2>1
      <4>3. to - q.first = FrontLen(q)
        BY <4>1 DEF FrontLen
      <4>4. to \in Int
        BY <4>1
      <4> QED
        BY <4>2, <4>3, <4>4
    <3> HIDE DEF to
    <3>2. /\ Slice(q.front, q.first, to) \in Seq(AnyBlock)
          /\ Len(Slice(q.front, q.first, to)) = to - q.first
          /\ \A i \in 1..(to - q.first) :
                Slice(q.front, q.first, to)[i] = q.front[q.first + i - 1]
      BY <1>1, <3>1, SliceIs
    <3> QED
      BY <3>1, <3>2 DEF to
  <2>3. /\ b \in Seq(AnyBlock) /\ Len(b) = ReadLen(q)
        /\ \A i \in 1..ReadLen(q) : b[i] = q.read[q.fileIndex + i]
    BY <1>1, RestIs DEF ReadLen
  <2>4. /\ d \in Seq(AnyBlock) /\ Len(d) = q.tailLast
        /\ \A i \in 1..q.tailLast : d[i] = q.tail[i - 1]
    <3>1. /\ d \in Seq(AnyBlock) /\ Len(d) = q.tailLast - 0
          /\ \A i \in 1..(q.tailLast - 0) : d[i] = q.tail[0 + i - 1]
      <4>1. 0 \in Nat /\ q.tailLast \in Int /\ 0 <= q.tailLast
        BY <1>1
      <4> QED
        BY <1>1, <4>1, SliceIs
    <3>2. q.tailLast - 0 = q.tailLast /\ \A i \in 1..q.tailLast : 0 + i - 1 = i - 1
      BY <1>1
    <3> QED
      BY <3>1, <3>2
  <2>5. BlocksOf(q) = a \o b \o c \o d
    BY <1>3 DEF BlocksOf
  <2>6. FrontLen(q) \in Nat /\ ReadLen(q) \in Nat
    <3>1. q.last + 1 - q.first \in Nat
      BY <1>1, <2>1
    <3>2. Len(q.read) - q.fileIndex \in Nat
      BY <1>1
    <3> QED
      BY <3>1, <3>2 DEF FrontLen, ReadLen
  <2>10. c \in Seq(AnyBlock)
    BY <1>1
  <2> HIDE DEF a, b, c, d
  <2>7. BlocksOf(q) \in Seq(AnyBlock) /\ IsRow(BlocksOf(q), a, b, c, d)
    <3>1. a \o b \o c \o d \in Seq(AnyBlock) /\ IsRow(a \o b \o c \o d, a, b, c, d)
      BY <2>2, <2>3, <2>4, <2>10, FourInARow
    <3> QED
      BY <3>1, <2>5
  <2>8. ASSUME NEW i \in 1..q.size PROVE BlocksOf(q)[i] = BlockAt(q, i)
    <3> DEFINE f == FrontLen(q)
               r == ReadLen(q)
               w == Len(q.write)
    <3>1. f \in Nat /\ r \in Nat /\ w \in Nat /\ q.size = f + r + w + q.tailLast
      BY <1>1, <2>1, <2>6
    <3>2. BlocksOf(q)[i] = IF i <= f THEN a[i]
                           ELSE IF i <= f + r THEN b[i - f]
                           ELSE IF i <= f + r + w THEN c[i - f - r]
                           ELSE d[i - f - r - w]
      <4>1. Len(a) = f /\ Len(b) = r /\ Len(c) = w /\ Len(d) = q.tailLast
        BY <2>2, <2>3, <2>4 DEF c
      <4>2. i \in 1..(Len(a) + Len(b) + Len(c) + Len(d))
        BY <4>1, <3>1
      <4> HIDE DEF f, r, w
      <4> QED
        BY <2>7, <4>1, <4>2 DEF IsRow
    <3>3. BlockAt(q, i) = IF i <= f THEN q.front[q.first + i - 1]
                          ELSE IF i <= f + r THEN q.read[q.fileIndex + i - f]
                          ELSE IF i <= f + r + w THEN q.write[i - f - r]
                          ELSE q.tail[i - f - r - w - 1]
      BY DEF BlockAt
    <3>4. /\ \A j \in 1..f : a[j] = q.front[q.first + j - 1]
          /\ \A j \in 1..r : b[j] = q.read[q.fileIndex + j]
          /\ \A j \in 1..q.tailLast : d[j] = q.tail[j - 1]
      BY <2>2, <2>3, <2>4
    <3>9. c = q.write /\ w = Len(c)
      BY DEF c
    <3> HIDE DEF f, r, w
    <3>5. CASE i <= f
      <4>1. i \in 1..f
        BY <3>1, <3>5
      <4> QED
        BY <4>1, <3>2, <3>3, <3>4, <3>5
    <3>6. CASE ~ (i <= f) /\ i <= f + r
      <4>1. i - f \in 1..r /\ q.fileIndex + (i - f) = q.fileIndex + i - f
        BY <1>1, <3>1, <3>6
      <4> QED
        BY <4>1, <3>2, <3>3, <3>4, <3>6
    <3>7. CASE ~ (i <= f) /\ ~ (i <= f + r) /\ i <= f + r + w
      BY <3>2, <3>3, <3>7, <3>9
    <3>8. CASE ~ (i <= f) /\ ~ (i <= f + r) /\ ~ (i <= f + r + w)
      <4>1. i - f - r - w \in 1..q.tailLast
        BY <1>1, <3>1, <3>8
      <4> QED
        BY <4>1, <3>2, <3>3, <3>4, <3>8
    <3> QED
      BY <3>5, <3>6, <3>7, <3>8
  <2>9. Len(BlocksOf(q)) = q.size
    BY <2>1, <2>2, <2>3, <2>4, <2>7 DEF c, IsRow
  <2> QED
    BY <2>7, <2>8, <2>9
<1> QED
  BY <1>2, <1>3
-----------------------------------------------------------------------------
(* Popping a block takes the oldest one away. *)

(* What is behind the front cache. *)
RestLen(q) == ReadLen(q) + Len(q.write) + q.tailLast

RestAt(q, j) ==
    IF j <= ReadLen(q) THEN q.read[q.fileIndex + j]
    ELSE IF j <= ReadLen(q) + Len(q.write) THEN q.write[j - ReadLen(q)]
    ELSE q.tail[j - ReadLen(q) - Len(q.write) - 1]

(* The files and the caches of a queue, whatever is in front.              *)
FilesFit(q) ==
    /\ q \in QueueType
    /\ q.tailLast <= CachedBlocks
    /\ q.fileIndex <= Len(q.read)

LEMMA FileTypes ==
    ASSUME NEW q, FilesFit(q)
    PROVE  /\ q.front \in [Slots -> AnyBlock] /\ q.tail \in [Slots -> AnyBlock]
           /\ q.first \in Nat /\ q.last \in Int /\ q.fileIndex \in Nat
           /\ q.tailLast \in Nat /\ q.size \in Nat
           /\ q.read \in Seq(AnyBlock) /\ q.write \in Seq(AnyBlock)
           /\ Len(q.read) \in Nat /\ Len(q.write) \in Nat
           /\ CachedBlocks \in Nat \ {0}
           /\ ReadLen(q) \in Nat /\ RestLen(q) \in Nat
<1>1. q \in QueueType
  BY DEF FilesFit
<1>2. /\ q.front \in [Slots -> AnyBlock] /\ q.tail \in [Slots -> AnyBlock]
      /\ q.first \in Nat /\ q.last \in Int /\ q.fileIndex \in Nat
      /\ q.tailLast \in Nat /\ q.size \in Nat
      /\ q.read \in Seq(AnyBlock) /\ q.write \in Seq(AnyBlock)
  BY <1>1 DEF QueueType
<1>3. Len(q.read) \in Nat /\ Len(q.write) \in Nat
  BY <1>2
<1>4. q.fileIndex <= Len(q.read)
  BY DEF FilesFit
<1>5. ReadLen(q) \in Nat
  BY <1>2, <1>3, <1>4 DEF ReadLen
<1>6. RestLen(q) \in Nat
  BY <1>2, <1>3, <1>5 DEF RestLen
<1> QED
  BY <1>2, <1>3, <1>5, <1>6, QueueAssumption

LEMMA ShapeFits ==
    ASSUME NEW q, QueueShape(q)
    PROVE  FilesFit(q)
BY DEF QueueShape, FilesFit

(* The front cache, filled anew.                                           *)
Filled(s) ==
    LET step == Min2(ReadLen(s), CachedBlocks)
    IN  [s EXCEPT !.front = [i \in Slots |->
                        IF i < step THEN s.read[s.fileIndex + i + 1] ELSE @[i]],
                  !.last      = step - 1,
                  !.fileIndex = @ + step,
                  !.first     = 0]

LEMMA FilledIs ==
    ASSUME NEW s, FilesFit(s)
    PROVE  /\ FilesFit(Filled(s))
           /\ Filled(s).first = 0
           /\ Filled(s).last + 1 \in 0..CachedBlocks
           /\ Filled(s).tailLast = s.tailLast
           /\ Filled(s).read = s.read
           /\ Filled(s).write = s.write
           /\ Filled(s).size = s.size
           /\ ReadLen(Filled(s)) = ReadLen(s) - (Filled(s).last + 1)
           /\ ReadLen(s) # 0 => Filled(s).last >= 0
           /\ Filled(s).last < 0 => ReadLen(Filled(s)) = 0
           /\ Filled(s).fileIndex = s.fileIndex + Filled(s).last + 1
           /\ ReadLen(s) # 0 => Filled(s).front[0] = s.read[s.fileIndex + 1]
           /\ \A j \in 1..RestLen(s) : BlockAt(Filled(s), j) = RestAt(s, j)
<1> DEFINE step == Min2(ReadLen(s), CachedBlocks)
           front == [i \in Slots |-> IF i < step THEN s.read[s.fileIndex + i + 1] ELSE s.front[i]]
           p == Filled(s)
<1>1. /\ s \in QueueType
      /\ s.front \in [Slots -> AnyBlock] /\ s.tail \in [Slots -> AnyBlock]
      /\ s.first \in Nat /\ s.last \in Int /\ s.fileIndex \in Nat
      /\ s.tailLast \in Nat /\ s.size \in Nat
      /\ s.read \in Seq(AnyBlock) /\ s.write \in Seq(AnyBlock)
      /\ Len(s.read) \in Nat /\ Len(s.write) \in Nat
      /\ CachedBlocks \in Nat \ {0}
      /\ ReadLen(s) \in Nat
      /\ s.tailLast <= CachedBlocks
  BY FileTypes DEF FilesFit
<1>2. /\ step \in Nat /\ step <= CachedBlocks /\ step <= ReadLen(s)
      /\ step = CachedBlocks \/ step = ReadLen(s)
  BY <1>1 DEF Min2
<1>3. s.fileIndex + ReadLen(s) = Len(s.read)
  BY <1>1 DEF ReadLen
<1> HIDE DEF step
<1>4. front \in [Slots -> AnyBlock]
  <2>1. ASSUME NEW i \in Slots, i < step PROVE s.read[s.fileIndex + i + 1] \in AnyBlock
    <3>1. i \in Nat
      BY <1>1 DEF Slots
    <3>2. s.fileIndex + i + 1 \in 1..Len(s.read)
      BY <1>1, <1>2, <1>3, <2>1, <3>1
    <3> QED
      BY <1>1, <3>2
  <2> QED
    BY <1>1, <2>1
<1>5. p = [s EXCEPT !.front = front, !.last = step - 1,
                    !.fileIndex = s.fileIndex + step, !.first = 0]
  BY DEF Filled, step
<1>6. /\ p.front = front /\ p.last = step - 1 /\ p.fileIndex = s.fileIndex + step
      /\ p.first = 0 /\ p.tail = s.tail /\ p.tailLast = s.tailLast
      /\ p.read = s.read /\ p.write = s.write /\ p.size = s.size
  <2> HIDE DEF front, p
  <2> QED
    BY <1>1, <1>5 DEF QueueType
<1>7. p \in QueueType
  <2>1. step - 1 \in Int /\ s.fileIndex + step \in Nat
    BY <1>1, <1>2
  <2> HIDE DEF front, p
  <2> QED
    BY <1>1, <1>4, <1>5, <2>1 DEF QueueType
<1> HIDE DEF p
<1>8. /\ ReadLen(p) = ReadLen(s) - step
      /\ FrontLen(p) = step
      /\ p.last + 1 = step
      /\ p.fileIndex <= Len(p.read)
  BY <1>1, <1>2, <1>3, <1>6 DEF ReadLen, FrontLen
<1>9. FilesFit(p)
  BY <1>1, <1>6, <1>7, <1>8 DEF FilesFit
<1>10. ASSUME ReadLen(s) # 0 PROVE p.last >= 0 /\ p.front[0] = s.read[s.fileIndex + 1]
  <2>1. 0 < step /\ 0 \in Slots
    BY <1>1, <1>2, <1>10 DEF Slots
  <2>2. front[0] = s.read[s.fileIndex + 0 + 1] /\ s.fileIndex + 0 + 1 = s.fileIndex + 1
    BY <1>1, <2>1
  <2> QED
    BY <1>2, <1>6, <2>1, <2>2
<1>11. ASSUME NEW j \in 1..RestLen(s) PROVE BlockAt(p, j) = RestAt(s, j)
  <2>1. BlockAt(p, j) = IF j <= step THEN front[j - 1]
                        ELSE IF j <= ReadLen(s) THEN s.read[s.fileIndex + j]
                        ELSE IF j <= ReadLen(s) + Len(s.write) THEN s.write[j - ReadLen(s)]
                        ELSE s.tail[j - ReadLen(s) - Len(s.write) - 1]
    <3>1. j \in Int /\ step + (ReadLen(s) - step) = ReadLen(s)
      BY <1>1, <1>2
    <3>2. /\ 0 + j - 1 = j - 1
          /\ (s.fileIndex + step) + j - step = s.fileIndex + j
          /\ j - step - (ReadLen(s) - step) = j - ReadLen(s)
      BY <1>1, <1>2, <3>1
    <3> HIDE DEF front
    <3> QED
      BY <1>6, <1>8, <3>1, <3>2 DEF BlockAt
  <2>2. CASE j <= step
    <3>1. j - 1 \in Slots /\ j - 1 < step
      BY <1>1, <1>2, <2>2 DEF Slots
    <3>2. front[j - 1] = s.read[s.fileIndex + (j - 1) + 1]
      BY <3>1
    <3>3. s.fileIndex + (j - 1) + 1 = s.fileIndex + j /\ j <= ReadLen(s)
      BY <1>1, <1>2, <2>2
    <3> QED
      BY <2>1, <2>2, <3>2, <3>3 DEF RestAt
  <2>3. CASE ~ (j <= step)
    BY <2>1, <2>3 DEF RestAt
  <2> QED
    BY <2>2, <2>3
<1>12. p.last < 0 => ReadLen(p) = 0
  BY <1>1, <1>2, <1>6, <1>8
<1>13. p.last + 1 \in 0..CachedBlocks /\ p.fileIndex = s.fileIndex + p.last + 1
  <2>1. p.last + 1 \in 0..CachedBlocks
    BY <1>1, <1>2, <1>8
  <2>2. s.fileIndex + step = s.fileIndex + (step - 1) + 1
    <3>1. s.fileIndex \in Int /\ step \in Int
      BY <1>1, <1>2
    <3> QED
      BY <3>1
  <2> QED
    BY <1>6, <2>1, <2>2
<1> QED
  BY <1>6, <1>8, <1>9, <1>10, <1>11, <1>12, <1>13 DEF p

(* Swapping the files leaves what is behind the front cache.               *)
LEMMA SwapIs ==
    ASSUME NEW q, FilesFit(q), q.fileIndex = Len(q.read)
    PROVE  /\ FilesFit(SwapBuffers(q))
           /\ SwapBuffers(q).fileIndex = 0
           /\ SwapBuffers(q).tailLast = 0
           /\ SwapBuffers(q).write = << >>
           /\ SwapBuffers(q).size = q.size
           /\ SwapBuffers(q).read \in Seq(AnyBlock)
           /\ Len(SwapBuffers(q).read) = Len(q.write) + q.tailLast
           /\ \A i \in 1..Len(q.write) : SwapBuffers(q).read[i] = q.write[i]
           /\ \A i \in 1..q.tailLast : SwapBuffers(q).read[Len(q.write) + i] = q.tail[i - 1]
           /\ ReadLen(SwapBuffers(q)) = RestLen(q)
           /\ RestLen(SwapBuffers(q)) = RestLen(q)
           /\ \A j \in 1..RestLen(q) : RestAt(SwapBuffers(q), j) = RestAt(q, j)
<1> DEFINE d == Slice(q.tail, 0, q.tailLast)
           all == q.write \o d
           s == SwapBuffers(q)
<1>1. /\ q \in QueueType
      /\ q.front \in [Slots -> AnyBlock] /\ q.tail \in [Slots -> AnyBlock]
      /\ q.first \in Nat /\ q.last \in Int /\ q.fileIndex \in Nat
      /\ q.tailLast \in Nat /\ q.size \in Nat
      /\ q.read \in Seq(AnyBlock) /\ q.write \in Seq(AnyBlock)
      /\ Len(q.read) \in Nat /\ Len(q.write) \in Nat
      /\ CachedBlocks \in Nat \ {0}
      /\ q.tailLast <= CachedBlocks
  BY FileTypes DEF FilesFit
<1>2. /\ d \in Seq(AnyBlock) /\ Len(d) = q.tailLast
      /\ \A i \in 1..q.tailLast : d[i] = q.tail[i - 1]
  <2>1. /\ d \in Seq(AnyBlock) /\ Len(d) = q.tailLast - 0
        /\ \A i \in 1..(q.tailLast - 0) : d[i] = q.tail[0 + i - 1]
    <3>1. 0 \in Nat /\ q.tailLast \in Int /\ 0 <= q.tailLast
      BY <1>1
    <3> QED
      BY <1>1, <3>1, SliceIs
  <2>2. q.tailLast - 0 = q.tailLast /\ \A i \in 1..q.tailLast : 0 + i - 1 = i - 1
    BY <1>1
  <2> QED
    BY <2>1, <2>2
<1>3. s = [q EXCEPT !.read = all, !.write = << >>, !.first = 0, !.last = 0,
                    !.fileIndex = 0, !.tailLast = 0]
  BY <1>1 DEF SwapBuffers, FlushTail, QueueType
<1> HIDE DEF d
<1>4. /\ all \in Seq(AnyBlock) /\ Len(all) = Len(q.write) + q.tailLast
      /\ \A i \in 1..Len(q.write) : all[i] = q.write[i]
      /\ \A i \in 1..q.tailLast : all[Len(q.write) + i] = d[i]
  <2>1. \A v, w \in Seq(AnyBlock) :
           /\ v \o w \in Seq(AnyBlock) /\ Len(v \o w) = Len(v) + Len(w)
           /\ \A i \in 1..Len(v) : (v \o w)[i] = v[i]
           /\ \A i \in 1..Len(w) : (v \o w)[Len(v) + i] = w[i]
    OBVIOUS
  <2>2. q.write \in Seq(AnyBlock) /\ d \in Seq(AnyBlock)
    BY <1>1, <1>2
  <2>3. /\ all \in Seq(AnyBlock) /\ Len(all) = Len(q.write) + Len(d)
        /\ \A i \in 1..Len(q.write) : all[i] = q.write[i]
        /\ \A i \in 1..Len(d) : all[Len(q.write) + i] = d[i]
    BY <2>1, <2>2
  <2> HIDE DEF all
  <2> QED
    BY <1>2, <2>3
<1> HIDE DEF all, s
<1>5. /\ s.read = all /\ s.write = << >> /\ s.fileIndex = 0 /\ s.tailLast = 0
      /\ s.size = q.size
  BY <1>1, <1>3 DEF QueueType
<1>6. s \in QueueType
  <2>1. << >> \in Seq(AnyBlock)
    OBVIOUS
  <2>2. s = [front |-> q.front, first |-> 0, last |-> 0, fileIndex |-> 0,
             tail |-> q.tail, tailLast |-> 0, read |-> all, write |-> << >>,
             size |-> q.size]
    BY <1>1, <1>3 DEF QueueType
  <2>3. 0 \in Nat /\ 0 \in Int
    OBVIOUS
  <2> QED
    BY <1>1, <1>4, <2>1, <2>2, <2>3 DEF QueueType
<1>7. FilesFit(s)
  BY <1>1, <1>4, <1>5, <1>6 DEF FilesFit
<1>8. ReadLen(q) = 0 /\ RestLen(q) = Len(q.write) + q.tailLast
  BY <1>1 DEF ReadLen, RestLen
<1>9. ReadLen(s) = RestLen(q) /\ RestLen(s) = RestLen(q)
  <2>1. Len(s.write) = 0
    BY <1>5
  <2> QED
    BY <1>1, <1>4, <1>5, <1>8, <2>1 DEF ReadLen, RestLen
<1>10. ASSUME NEW j \in 1..RestLen(q) PROVE RestAt(s, j) = RestAt(q, j)
  <2>1. RestAt(s, j) = all[j]
    <3>1. j <= ReadLen(s) /\ 0 + j = j
      BY <1>1, <1>8, <1>9
    <3> QED
      BY <1>5, <3>1 DEF RestAt
  <2>2. CASE j <= Len(q.write)
    <3>1. ~ (j <= ReadLen(q)) /\ j <= ReadLen(q) + Len(q.write) /\ j - ReadLen(q) = j
      BY <1>1, <1>8, <2>2
    <3>2. j \in 1..Len(q.write)
      BY <1>1, <1>8, <2>2
    <3> QED
      BY <1>4, <2>1, <3>1, <3>2 DEF RestAt
  <2>3. CASE ~ (j <= Len(q.write))
    <3> DEFINE i == j - Len(q.write)
    <3>1. /\ ~ (j <= ReadLen(q)) /\ ~ (j <= ReadLen(q) + Len(q.write))
          /\ j - ReadLen(q) - Len(q.write) - 1 = i - 1
          /\ i \in 1..q.tailLast /\ Len(q.write) + i = j
      BY <1>1, <1>8, <2>3
    <3> HIDE DEF i
    <3>2. all[j] = q.tail[i - 1]
      BY <1>2, <1>4, <3>1
    <3> QED
      BY <2>1, <3>1, <3>2 DEF RestAt
  <2> QED
    BY <2>2, <2>3
<1>11. /\ \A i \in 1..Len(q.write) : s.read[i] = q.write[i]
       /\ \A i \in 1..q.tailLast : s.read[Len(q.write) + i] = q.tail[i - 1]
  BY <1>2, <1>4, <1>5
<1> QED
  BY <1>4, <1>5, <1>7, <1>9, <1>10, <1>11 DEF s

(* What is behind the front cache, in the queue.                           *)
LEMMA RestIsBehind ==
    ASSUME NEW q, QueueShape(q), q.size # 0
    PROVE  /\ FrontLen(q) \in Nat /\ FrontLen(q) # 0
           /\ q.size = FrontLen(q) + RestLen(q)
           /\ \A j \in 1..RestLen(q) : BlockAt(q, FrontLen(q) + j) = RestAt(q, j)
<1>1. FilesFit(q)
  BY ShapeFits
<1>2. /\ q.first \in Nat /\ q.last \in Int /\ q.fileIndex \in Nat
      /\ q.tailLast \in Nat /\ q.size \in Nat
      /\ Len(q.read) \in Nat /\ Len(q.write) \in Nat
      /\ ReadLen(q) \in Nat /\ RestLen(q) \in Nat
  BY <1>1, FileTypes
<1>3. /\ q.first <= q.last
      /\ q.size = FrontLen(q) + ReadLen(q) + Len(q.write) + q.tailLast
  BY DEF QueueShape
<1>4. FrontLen(q) \in Nat /\ FrontLen(q) # 0
  <2>1. q.last + 1 - q.first \in Nat /\ q.last + 1 - q.first # 0
    <3>1. q.first \in Nat /\ q.last \in Int /\ q.first <= q.last
      BY <1>2, <1>3
    <3> QED
      BY <3>1
  <2> QED
    BY <2>1 DEF FrontLen
<1>5. q.size = FrontLen(q) + RestLen(q)
  BY <1>2, <1>3, <1>4 DEF RestLen
<1>6. ASSUME NEW j \in 1..RestLen(q)
      PROVE  BlockAt(q, FrontLen(q) + j) = RestAt(q, j)
  <2> DEFINE f == FrontLen(q)
             r == ReadLen(q)
             w == Len(q.write)
             i == f + j
  <2>1. BlockAt(q, i) = IF i <= f THEN q.front[q.first + i - 1]
                        ELSE IF i <= f + r THEN q.read[q.fileIndex + i - f]
                        ELSE IF i <= f + r + w THEN q.write[i - f - r]
                        ELSE q.tail[i - f - r - w - 1]
    BY DEF BlockAt
  <2>2. RestAt(q, j) = IF j <= r THEN q.read[q.fileIndex + j]
                       ELSE IF j <= r + w THEN q.write[j - r]
                       ELSE q.tail[j - r - w - 1]
    BY DEF RestAt
  <2>5. /\ f \in Nat /\ r \in Nat /\ w \in Nat /\ j \in Nat /\ j >= 1
        /\ q.fileIndex \in Nat
    BY <1>2, <1>4
  <2> HIDE DEF f, r, w
  <2>3. /\ ~ (i <= f) /\ (i <= f + r <=> j <= r) /\ (i <= f + r + w <=> j <= r + w)
        /\ q.fileIndex + i - f = q.fileIndex + j /\ i - f - r = j - r
        /\ i - f - r - w - 1 = j - r - w - 1
    BY <2>5
  <2> HIDE DEF i
  <2>4. BlockAt(q, i) = RestAt(q, j)
    BY <2>1, <2>2, <2>3
  <2> QED
    BY <2>4 DEF i, f
<1> QED
  BY <1>4, <1>5, <1>6
-----------------------------------------------------------------------------
(* Only the newest block of the queue, or the last of the read file, has   *)
(* room; and back() is the newest one or full.                             *)

Full(b) == Len(b.vals) = ValsPerBlock

FullButNewest(q) ==
    /\ \A i \in 1..Len(q.write) : Full(q.write[i])
    /\ \A i \in Slots : i + 1 < q.tailLast => Full(q.tail[i])
    /\ q.size # 0 /\ q.tailLast = 0 =>
          /\ q.write = << >>
          /\ \A i \in 1..Len(q.read) :
                q.fileIndex < i /\ i < Len(q.read) => Full(q.read[i])
          /\ Full(q.front[0]) \/ (q.last = 0 /\ q.fileIndex = Len(q.read))

(* A queue with another size field has the same blocks at the same places. *)
LEMMA SameFieldsSameBlocks ==
    ASSUME NEW p, NEW q,
           p.front = q.front, p.first = q.first, p.last = q.last,
           p.fileIndex = q.fileIndex, p.tail = q.tail, p.tailLast = q.tailLast,
           p.read = q.read, p.write = q.write
    PROVE  /\ FrontLen(p) = FrontLen(q) /\ ReadLen(p) = ReadLen(q)
           /\ RestLen(p) = RestLen(q)
           /\ \A i \in Int : BlockAt(p, i) = BlockAt(q, i)
BY DEF FrontLen, ReadLen, RestLen, BlockAt

LEMMA PopNextInFront ==
    ASSUME NEW q, QueueShape(q), q.size # 0, q.first # q.last
    PROVE  /\ QueueShape(PopBlock(q))
           /\ PopBlock(q).size = q.size - 1
           /\ \A i \in 1..(q.size - 1) : BlockAt(PopBlock(q), i) = BlockAt(q, i + 1)
           /\ FullButNewest(q) => FullButNewest(PopBlock(q))
<1> DEFINE p == PopBlock(q)
<1>1. /\ q \in QueueType
      /\ q.first \in Nat /\ q.last \in Int /\ q.fileIndex \in Nat
      /\ q.tailLast \in Nat /\ q.size \in Nat
      /\ Len(q.read) \in Nat /\ Len(q.write) \in Nat
      /\ ReadLen(q) \in Nat /\ q.first <= q.last
  BY FileTypes, ShapeFits DEF QueueShape
<1>2. p = [q EXCEPT !.first = @ + 1, !.size = @ - 1]
  BY <1>1 DEF PopBlock, QueueType
<1> HIDE DEF p
<1>3. /\ p.front = q.front /\ p.first = q.first + 1 /\ p.last = q.last
      /\ p.fileIndex = q.fileIndex /\ p.tail = q.tail /\ p.tailLast = q.tailLast
      /\ p.read = q.read /\ p.write = q.write /\ p.size = q.size - 1
  BY <1>1, <1>2 DEF QueueType
<1>4. p \in QueueType
  <2>1. q.first + 1 \in Nat /\ q.size - 1 \in Nat
    BY <1>1
  <2> QED
    BY <1>1, <1>2, <2>1 DEF QueueType
<1>5. /\ ReadLen(p) = ReadLen(q) /\ FrontLen(p) = FrontLen(q) - 1
      /\ FrontLen(q) \in Nat /\ FrontLen(q) >= 2
  <2>1. /\ q.last + 1 - (q.first + 1) = (q.last + 1 - q.first) - 1
        /\ q.last + 1 - q.first \in Nat /\ q.last + 1 - q.first >= 2
    <3>1. q.first \in Int /\ q.last \in Int /\ q.first < q.last
      BY <1>1
    <3> QED
      BY <3>1
  <2> QED
    BY <1>3, <2>1 DEF ReadLen, FrontLen
<1>6. q.size = FrontLen(q) + ReadLen(q) + Len(q.write) + q.tailLast /\ q.last < CachedBlocks
  BY DEF QueueShape
<1>7. QueueShape(p)
  <2>1. p.size # 0 /\ p.size = FrontLen(p) + ReadLen(p) + Len(p.write) + p.tailLast
    <3>1. (FrontLen(q) + ReadLen(q) + Len(q.write) + q.tailLast) - 1
            = (FrontLen(q) - 1) + ReadLen(q) + Len(q.write) + q.tailLast
      BY <1>1, <1>5
    <3>2. q.size >= 2
      BY <1>1, <1>5, <1>6
    <3>3. q.size - 1 # 0
      BY <1>1, <3>2
    <3> QED
      BY <1>3, <1>5, <1>6, <3>1, <3>3
  <2>2. p.first <= p.last
    BY <1>1, <1>3
  <2> QED
    BY <1>3, <1>4, <1>6, <2>1, <2>2 DEF QueueShape
<1>8. ASSUME NEW i \in 1..(q.size - 1) PROVE BlockAt(p, i) = BlockAt(q, i + 1)
  <2> DEFINE f == FrontLen(q)
             r == ReadLen(q)
             w == Len(q.write)
  <2>1. BlockAt(q, i + 1) = IF i + 1 <= f THEN q.front[q.first + (i + 1) - 1]
                            ELSE IF i + 1 <= f + r THEN q.read[q.fileIndex + (i + 1) - f]
                            ELSE IF i + 1 <= f + r + w THEN q.write[(i + 1) - f - r]
                            ELSE q.tail[(i + 1) - f - r - w - 1]
    BY DEF BlockAt
  <2>2. BlockAt(p, i) = IF i <= f - 1 THEN q.front[(q.first + 1) + i - 1]
                        ELSE IF i <= (f - 1) + r THEN q.read[q.fileIndex + i - (f - 1)]
                        ELSE IF i <= (f - 1) + r + w THEN q.write[i - (f - 1) - r]
                        ELSE q.tail[i - (f - 1) - r - w - 1]
    BY <1>3, <1>5 DEF BlockAt
  <2>3. f \in Int /\ r \in Int /\ w \in Int /\ i \in Int /\ q.first \in Int /\ q.fileIndex \in Int
    BY <1>1, <1>5
  <2> HIDE DEF f, r, w
  <2>4. /\ (i <= f - 1 <=> i + 1 <= f) /\ (i <= (f - 1) + r <=> i + 1 <= f + r)
        /\ (i <= (f - 1) + r + w <=> i + 1 <= f + r + w)
        /\ (q.first + 1) + i - 1 = q.first + (i + 1) - 1
        /\ q.fileIndex + i - (f - 1) = q.fileIndex + (i + 1) - f
        /\ i - (f - 1) - r = (i + 1) - f - r
        /\ i - (f - 1) - r - w - 1 = (i + 1) - f - r - w - 1
    BY <2>3
  <2> QED
    BY <2>1, <2>2, <2>4
<1>9. FullButNewest(q) => FullButNewest(p)
  <2>1. q.last # 0
    BY <1>1
  <2> QED
    BY <1>3, <2>1 DEF FullButNewest
<1> QED
  BY <1>3, <1>7, <1>8, <1>9 DEF p

LEMMA PopLastInFront ==
    ASSUME NEW q, QueueShape(q), q.size # 0, q.first = q.last
    PROVE  /\ QueueShape(PopBlock(q))
           /\ PopBlock(q).size = q.size - 1
           /\ \A i \in 1..(q.size - 1) : BlockAt(PopBlock(q), i) = BlockAt(q, i + 1)
           /\ FullButNewest(q) => FullButNewest(PopBlock(q))
<1> DEFINE s == IF q.fileIndex = Len(q.read) THEN SwapBuffers(q) ELSE q
           e == Filled(s)
           p == PopBlock(q)
<1>1. FilesFit(q)
  BY ShapeFits
<1>2. /\ q.first \in Nat /\ q.last \in Int /\ q.fileIndex \in Nat
      /\ q.tailLast \in Nat /\ q.size \in Nat
      /\ Len(q.read) \in Nat /\ Len(q.write) \in Nat
      /\ ReadLen(q) \in Nat /\ RestLen(q) \in Nat
      /\ CachedBlocks \in Nat \ {0}
  BY <1>1, FileTypes
<1>3. FrontLen(q) = 1 /\ q.size = 1 + RestLen(q)
      /\ \A j \in 1..RestLen(q) : BlockAt(q, 1 + j) = RestAt(q, j)
  <2>1. q.last + 1 - q.first = 1
    BY <1>2
  <2>2. FrontLen(q) = 1
    BY <2>1 DEF FrontLen
  <2> QED
    BY <2>2, RestIsBehind
<1>4. /\ FilesFit(s) /\ s.size = q.size /\ RestLen(s) = RestLen(q)
      /\ \A j \in 1..RestLen(q) : RestAt(s, j) = RestAt(q, j)
      /\ RestLen(q) # 0 => ReadLen(s) # 0
  <2>1. CASE q.fileIndex = Len(q.read)
    BY <1>1, <2>1, SwapIs
  <2>2. CASE q.fileIndex # Len(q.read)
    <3>1. ReadLen(q) # 0
      BY <1>2, <2>2 DEF ReadLen
    <3> QED
      BY <1>1, <2>2, <3>1
  <2> QED
    BY <2>1, <2>2
<1>5. p = [e EXCEPT !.size = @ - 1]
  BY DEF PopBlock, Refill, Filled, ReadLen
<1> HIDE DEF s
<1>6. /\ s.fileIndex \in Nat /\ s.tailLast \in Nat /\ Len(s.write) \in Nat
      /\ ReadLen(s) \in Nat /\ s.write \in Seq(AnyBlock)
      /\ Len(s.read) \in Nat /\ s.tailLast <= CachedBlocks
  BY <1>4, FileTypes DEF FilesFit
<1>7. /\ FilesFit(e) /\ e.first = 0 /\ e.last + 1 \in 0..CachedBlocks
      /\ e.tailLast = s.tailLast /\ e.read = s.read /\ e.write = s.write
      /\ e.size = s.size
      /\ ReadLen(e) = ReadLen(s) - (e.last + 1)
      /\ ReadLen(s) # 0 => e.last >= 0
      /\ e.fileIndex = s.fileIndex + e.last + 1
      /\ ReadLen(s) # 0 => e.front[0] = s.read[s.fileIndex + 1]
      /\ \A j \in 1..RestLen(s) : BlockAt(e, j) = RestAt(s, j)
  BY <1>4, FilledIs
<1>8. e \in QueueType /\ e.last \in Int /\ e.fileIndex \in Nat
      /\ ReadLen(e) \in Nat /\ e.fileIndex <= Len(e.read)
  BY <1>7, FileTypes DEF FilesFit
<1> HIDE DEF e, p
<1>9. /\ p.front = e.front /\ p.first = e.first /\ p.last = e.last
      /\ p.fileIndex = e.fileIndex /\ p.tail = e.tail /\ p.tailLast = e.tailLast
      /\ p.read = e.read /\ p.write = e.write /\ p.size = e.size - 1
  BY <1>5, <1>8 DEF QueueType
<1>10. p \in QueueType /\ p.size = RestLen(q)
  <2>1. e.size - 1 = RestLen(q) /\ e.size - 1 \in Nat
    BY <1>2, <1>3, <1>4, <1>7
  <2> QED
    BY <1>5, <1>8, <1>9, <2>1 DEF QueueType
<1>11. /\ FrontLen(p) = e.last + 1 /\ ReadLen(p) = ReadLen(e)
       /\ \A i \in Int : BlockAt(p, i) = BlockAt(e, i)
  <2>1. FrontLen(p) = FrontLen(e) /\ ReadLen(p) = ReadLen(e)
        /\ \A i \in Int : BlockAt(p, i) = BlockAt(e, i)
    BY <1>9, SameFieldsSameBlocks
  <2>2. e.last + 1 - 0 = e.last + 1
    BY <1>8
  <2> QED
    BY <1>7, <2>1, <2>2 DEF FrontLen
<1>12. RestLen(q) = ReadLen(s) + Len(s.write) + s.tailLast
  BY <1>4 DEF RestLen
<1>13. QueueShape(p)
  <2>1. ASSUME RestLen(q) = 0
        PROVE  p.fileIndex = Len(p.read) /\ p.write = << >> /\ p.tailLast = 0
    <3>1. ReadLen(s) = 0 /\ Len(s.write) = 0 /\ s.tailLast = 0
      BY <1>6, <1>12, <2>1
    <3>2. s.write = << >>
      BY <1>6, <3>1
    <3>3. ReadLen(e) = 0
      BY <1>7, <1>8, <3>1
    <3>4. e.fileIndex = Len(e.read)
      <4>1. Len(e.read) \in Nat
        BY <1>6, <1>7
      <4> QED
        BY <3>3, <4>1, <1>8 DEF ReadLen
    <3> QED
      BY <1>7, <1>9, <3>1, <3>2, <3>4
  <2>2. ASSUME RestLen(q) # 0
        PROVE  /\ p.first <= p.last /\ p.last < CachedBlocks
               /\ p.size = FrontLen(p) + ReadLen(p) + Len(p.write) + p.tailLast
    <3>1. e.last >= 0 /\ e.last < CachedBlocks
      BY <1>2, <1>4, <1>7, <1>8, <2>2
    <3>2. RestLen(q) = (e.last + 1) + ReadLen(e) + Len(s.write) + s.tailLast
      <4>1. ReadLen(s) = (e.last + 1) + ReadLen(e)
        BY <1>6, <1>7, <1>8
      <4> QED
        BY <1>12, <4>1
    <3> QED
      BY <1>7, <1>9, <1>10, <1>11, <3>1, <3>2
  <2> QED
    BY <1>6, <1>7, <1>8, <1>9, <1>10, <2>1, <2>2 DEF QueueShape
<1>14. ASSUME NEW i \in 1..(q.size - 1) PROVE BlockAt(p, i) = BlockAt(q, i + 1)
  <2>1. i \in 1..RestLen(q) /\ i \in Int /\ i + 1 = 1 + i
    BY <1>2, <1>3
  <2> QED
    BY <1>3, <1>4, <1>7, <1>11, <2>1
<1>15. ASSUME FullButNewest(q) PROVE FullButNewest(p)
  <2>1. ASSUME p.size # 0
        PROVE  e.last >= 0 /\ e.front[0] = s.read[s.fileIndex + 1] /\ ReadLen(s) # 0
    BY <1>4, <1>7, <1>10, <2>1
  <2>2. ASSUME p.size # 0, Len(s.read) <= s.fileIndex + 1
        PROVE  e.last = 0 /\ e.fileIndex = Len(e.read)
    <3>1. ReadLen(s) <= 1
      BY <1>6, <2>2 DEF ReadLen
    <3>2. e.last = 0 /\ ReadLen(e) = 0
      BY <1>6, <1>7, <1>8, <2>1, <2>2, <3>1
    <3>3. Len(e.read) \in Nat
      BY <1>6, <1>7
    <3> QED
      BY <1>8, <3>2, <3>3 DEF ReadLen
  <2>3. ASSUME p.size # 0,
               \A i \in 1..Len(s.read) :
                  s.fileIndex < i /\ i < Len(s.read) => Full(s.read[i])
        PROVE  /\ \A i \in 1..Len(p.read) :
                     p.fileIndex < i /\ i < Len(p.read) => Full(p.read[i])
               /\ Full(p.front[0]) \/ (p.last = 0 /\ p.fileIndex = Len(p.read))
    <3>1. s.fileIndex <= e.fileIndex
      <4>1. e.last >= 0
        BY <2>1, <2>3
      <4>2. s.fileIndex <= s.fileIndex + e.last + 1
        BY <1>6, <1>8, <4>1
      <4> QED
        BY <1>7, <4>2
    <3>2. ASSUME NEW i \in 1..Len(p.read), p.fileIndex < i, i < Len(p.read)
          PROVE  Full(p.read[i])
      <4>1. i \in 1..Len(s.read) /\ e.fileIndex < i /\ i < Len(s.read)
        BY <1>7, <1>9, <3>2
      <4>2. s.fileIndex < i
        BY <1>6, <1>8, <3>1, <4>1
      <4> QED
        BY <1>7, <1>9, <2>3, <4>1, <4>2
    <3>3. CASE Len(s.read) <= s.fileIndex + 1
      BY <1>9, <2>2, <2>3, <3>2, <3>3
    <3>4. CASE ~ (Len(s.read) <= s.fileIndex + 1)
      <4>1. /\ s.fileIndex + 1 \in 1..Len(s.read)
            /\ s.fileIndex < s.fileIndex + 1 /\ s.fileIndex + 1 < Len(s.read)
        BY <1>6, <3>4
      <4>2. Full(e.front[0])
        BY <2>1, <2>3, <4>1
      <4> QED
        BY <1>9, <3>2, <4>2
    <3> QED
      BY <3>3, <3>4
  <2>4. CASE q.fileIndex # Len(q.read)
    <3>1. s = q
      BY <2>4 DEF s
    <3>2. e.tail = q.tail
      BY <3>1, <1>1 DEF e, Filled, FilesFit, QueueType
    <3>3. p.size # 0 /\ p.tailLast = 0 => q.size # 0 /\ q.tailLast = 0
      BY <1>7, <1>9, <3>1
    <3> QED
      BY <1>7, <1>9, <1>15, <2>3, <3>1, <3>2, <3>3 DEF FullButNewest
  <2>5. CASE q.fileIndex = Len(q.read)
    <3>1. /\ s.fileIndex = 0 /\ s.tailLast = 0 /\ s.write = << >>
          /\ Len(s.read) = Len(q.write) + q.tailLast
          /\ \A i \in 1..Len(q.write) : s.read[i] = q.write[i]
          /\ \A i \in 1..q.tailLast : s.read[Len(q.write) + i] = q.tail[i - 1]
      BY <1>1, <2>5, SwapIs DEF s
    <3>2. ASSUME NEW i \in 1..Len(s.read), i < Len(s.read)
          PROVE  Full(s.read[i])
      <4>1. CASE i <= Len(q.write)
        <5>1. i \in 1..Len(q.write)
          BY <4>1
        <5> QED
          BY <1>15, <3>1, <5>1 DEF FullButNewest
      <4>2. CASE ~ (i <= Len(q.write))
        <5> DEFINE k == i - Len(q.write)
        <5>1. /\ k \in 1..q.tailLast /\ Len(q.write) + k = i
              /\ (k - 1) + 1 < q.tailLast
          BY <1>2, <3>1, <3>2, <4>2
        <5>2. k - 1 \in Slots
          <6>1. q.tailLast <= CachedBlocks
            BY <1>1 DEF FilesFit
          <6> QED
            BY <1>2, <5>1, <6>1 DEF Slots
        <5> HIDE DEF k
        <5>3. s.read[i] = q.tail[k - 1]
          BY <3>1, <5>1
        <5> QED
          BY <1>15, <5>1, <5>2, <5>3 DEF FullButNewest
      <4> QED
        BY <4>1, <4>2
    <3>3. p.write = << >> /\ p.tailLast = 0
      BY <1>7, <1>9, <3>1
    <3>4. \A i \in 1..Len(p.write) : Full(p.write[i])
      BY <3>3
    <3>5. \A i \in Slots : ~ (i + 1 < 0)
      BY DEF Slots
    <3> QED
      BY <2>3, <3>2, <3>3, <3>4, <3>5 DEF FullButNewest
  <2> QED
    BY <2>4, <2>5
<1> QED
  <2>1. p.size = q.size - 1
    BY <1>4, <1>7, <1>9
  <2> QED
    BY <2>1, <1>13, <1>14, <1>15 DEF p

(* pop: the queue without its oldest block.                                *)
LEMMA PopIs ==
    ASSUME NEW q, QueueShape(q), q.size # 0
    PROVE  /\ QueueShape(PopBlock(q))
           /\ BlocksOf(PopBlock(q)) = Tail(BlocksOf(q))
           /\ FullButNewest(q) => FullButNewest(PopBlock(q))
<1> DEFINE p == PopBlock(q)
<1>1. /\ QueueShape(p) /\ p.size = q.size - 1
      /\ \A i \in 1..(q.size - 1) : BlockAt(p, i) = BlockAt(q, i + 1)
      /\ FullButNewest(q) => FullButNewest(p)
  <2>1. CASE q.first = q.last
    BY <2>1, PopLastInFront
  <2>2. CASE q.first # q.last
    BY <2>2, PopNextInFront
  <2> QED
    BY <2>1, <2>2
<1>2. q.size \in Nat \ {0}
  BY QueueTypes
<1>3. /\ BlocksOf(q) \in Seq(AnyBlock) /\ Len(BlocksOf(q)) = q.size
      /\ \A i \in 1..q.size : BlocksOf(q)[i] = BlockAt(q, i)
  BY BlocksAre
<1>4. /\ BlocksOf(p) \in Seq(AnyBlock) /\ Len(BlocksOf(p)) = p.size
      /\ \A i \in 1..p.size : BlocksOf(p)[i] = BlockAt(p, i)
  BY <1>1, BlocksAre
<1> HIDE DEF p
<1>5. BlocksOf(q) # << >>
  BY <1>2, <1>3
<1>6. /\ Tail(BlocksOf(q)) \in Seq(AnyBlock)
      /\ Len(Tail(BlocksOf(q))) = q.size - 1
      /\ \A i \in 1..Len(Tail(BlocksOf(q))) : Tail(BlocksOf(q))[i] = BlocksOf(q)[i + 1]
  BY <1>3, <1>5, HeadTailProperties
<1>7. ASSUME NEW i \in 1..(q.size - 1) PROVE BlocksOf(p)[i] = Tail(BlocksOf(q))[i]
  <2>1. i + 1 \in 1..q.size
    BY <1>2
  <2> QED
    BY <1>1, <1>3, <1>4, <1>6, <2>1
<1>8. BlocksOf(p) = Tail(BlocksOf(q))
  BY <1>1, <1>4, <1>6, <1>7, SeqEqual
<1> QED
  BY <1>1, <1>8 DEF p
-----------------------------------------------------------------------------
(* Pushing a block makes it the newest one. *)

LEMMA PushEmpty ==
    ASSUME NEW q, QueueShape(q), q.size = 0, NEW b \in AnyBlock
    PROVE  /\ QueueShape(PushBlock(q, b))
           /\ PushBlock(q, b).size = 1
           /\ BlockAt(PushBlock(q, b), 1) = b
           /\ BackBlock(PushBlock(q, b)) = b
           /\ FullButNewest(PushBlock(q, b))
<1> DEFINE r == PushBlock(q, b)
           front == [q.front EXCEPT ![0] = b]
<1>1. /\ q \in QueueType /\ q.front \in [Slots -> AnyBlock]
      /\ q.fileIndex \in Nat /\ Len(q.read) \in Nat
      /\ CachedBlocks \in Nat \ {0}
      /\ q.fileIndex = Len(q.read) /\ q.write = << >> /\ q.tailLast = 0
  BY QueueTypes DEF QueueShape
<1>2. 0 \in Slots
  BY <1>1 DEF Slots
<1>3. front \in [Slots -> AnyBlock] /\ front[0] = b
  BY <1>1, <1>2
<1>4. r = [q EXCEPT !.first = 0, !.last = 0, !.front = front, !.size = 1]
  BY <1>1 DEF PushBlock, QueueType
<1> HIDE DEF r, front
<1>5. /\ r.front = front /\ r.first = 0 /\ r.last = 0
      /\ r.fileIndex = q.fileIndex /\ r.tail = q.tail /\ r.tailLast = q.tailLast
      /\ r.read = q.read /\ r.write = q.write /\ r.size = 1
  BY <1>1, <1>4 DEF QueueType
<1>6. r \in QueueType
  <2>1. 0 \in Nat /\ 0 \in Int /\ 1 \in Nat
    OBVIOUS
  <2> QED
    BY <1>1, <1>3, <1>4, <2>1 DEF QueueType
<1>7. FrontLen(r) = 1 /\ ReadLen(r) = 0 /\ Len(r.write) = 0
  BY <1>1, <1>5 DEF FrontLen, ReadLen
<1>8. QueueShape(r)
  BY <1>1, <1>5, <1>6, <1>7 DEF QueueShape
<1>9. BlockAt(r, 1) = b /\ BackBlock(r) = b
  BY <1>1, <1>3, <1>5, <1>7 DEF BlockAt, BackBlock
<1>10. FullButNewest(r)
  <2>1. \A i \in 1..Len(r.write) : Full(r.write[i])
    BY <1>7
  <2>2. \A i \in Slots : ~ (i + 1 < 0)
    BY DEF Slots
  <2>3. \A i \in 1..Len(r.read) : ~ (r.fileIndex < i)
    BY <1>1, <1>5
  <2> QED
    BY <1>1, <1>5, <2>1, <2>2, <2>3 DEF FullButNewest
<1> QED
  BY <1>5, <1>8, <1>9, <1>10 DEF r

(* A block behind those of the tail cache, which has room.                 *)
Tailed(q, b) ==
    [q EXCEPT !.tail[q.tailLast] = b, !.tailLast = @ + 1, !.size = @ + 1]

LEMMA TailedIs ==
    ASSUME NEW q, QueueShape(q), q.size # 0, q.tailLast # CachedBlocks, NEW b \in AnyBlock
    PROVE  /\ QueueShape(Tailed(q, b))
           /\ Tailed(q, b).size = q.size + 1
           /\ Tailed(q, b).tailLast = q.tailLast + 1
           /\ Tailed(q, b).write = q.write
           /\ Tailed(q, b).tail[q.tailLast] = b
           /\ \A i \in Slots : i # q.tailLast => Tailed(q, b).tail[i] = q.tail[i]
           /\ \A i \in 1..q.size : BlockAt(Tailed(q, b), i) = BlockAt(q, i)
           /\ BlockAt(Tailed(q, b), q.size + 1) = b
           /\ BackBlock(Tailed(q, b)) = b
<1> DEFINE r == Tailed(q, b)
           tail == [q.tail EXCEPT ![q.tailLast] = b]
<1>1. /\ q \in QueueType /\ q.tail \in [Slots -> AnyBlock]
      /\ q.first \in Nat /\ q.last \in Int /\ q.fileIndex \in Nat
      /\ q.tailLast \in Nat /\ q.size \in Nat
      /\ Len(q.read) \in Nat /\ Len(q.write) \in Nat
      /\ ReadLen(q) \in Nat /\ CachedBlocks \in Nat
      /\ q.tailLast <= CachedBlocks
  BY FileTypes, ShapeFits DEF QueueShape
<1>2. q.tailLast \in Slots
  BY <1>1 DEF Slots
<1>3. /\ tail \in [Slots -> AnyBlock] /\ tail[q.tailLast] = b
      /\ \A i \in Slots : i # q.tailLast => tail[i] = q.tail[i]
  BY <1>1, <1>2
<1>4. r = [q EXCEPT !.tail = tail, !.tailLast = q.tailLast + 1, !.size = q.size + 1]
  BY <1>1 DEF Tailed, QueueType
<1> HIDE DEF r, tail
<1>5. /\ r.front = q.front /\ r.first = q.first /\ r.last = q.last
      /\ r.fileIndex = q.fileIndex /\ r.tail = tail /\ r.tailLast = q.tailLast + 1
      /\ r.read = q.read /\ r.write = q.write /\ r.size = q.size + 1
  BY <1>1, <1>4 DEF QueueType
<1>6. r \in QueueType
  <2>1. q.tailLast + 1 \in Nat /\ q.size + 1 \in Nat
    BY <1>1
  <2> QED
    BY <1>1, <1>3, <1>4, <2>1 DEF QueueType
<1>7. FrontLen(r) = FrontLen(q) /\ ReadLen(r) = ReadLen(q) /\ FrontLen(q) \in Nat
  BY <1>5, RestIsBehind DEF FrontLen, ReadLen
<1>8. /\ q.first <= q.last /\ q.last < CachedBlocks
      /\ q.size = FrontLen(q) + ReadLen(q) + Len(q.write) + q.tailLast
      /\ q.fileIndex <= Len(q.read)
  BY DEF QueueShape
<1>9. QueueShape(r)
  <2>1. r.size # 0 /\ r.tailLast <= CachedBlocks
    BY <1>1, <1>5
  <2>2. r.size = FrontLen(r) + ReadLen(r) + Len(r.write) + r.tailLast
    <3>1. (FrontLen(q) + ReadLen(q) + Len(q.write) + q.tailLast) + 1
            = FrontLen(q) + ReadLen(q) + Len(q.write) + (q.tailLast + 1)
      <4>1. \A i, j, k, l \in Int : (i + j + k + l) + 1 = i + j + k + (l + 1)
        OBVIOUS
      <4>2. /\ FrontLen(q) \in Int /\ ReadLen(q) \in Int
            /\ Len(q.write) \in Int /\ q.tailLast \in Int
        BY <1>1, <1>7
      <4> QED
        BY <4>1, <4>2
    <3> QED
      BY <1>5, <1>7, <1>8, <3>1
  <2> QED
    BY <1>5, <1>6, <1>8, <2>1, <2>2 DEF QueueShape
<1>10. \A i \in Int : BlockAt(r, i) = IF i <= FrontLen(q) THEN q.front[q.first + i - 1]
          ELSE IF i <= FrontLen(q) + ReadLen(q) THEN q.read[q.fileIndex + i - FrontLen(q)]
          ELSE IF i <= FrontLen(q) + ReadLen(q) + Len(q.write)
               THEN q.write[i - FrontLen(q) - ReadLen(q)]
               ELSE tail[i - FrontLen(q) - ReadLen(q) - Len(q.write) - 1]
  BY <1>5, <1>7 DEF BlockAt
<1> DEFINE n == FrontLen(q) + ReadLen(q) + Len(q.write)
<1>11. n \in Nat /\ q.size = n + q.tailLast
       /\ FrontLen(q) + ReadLen(q) <= n /\ FrontLen(q) <= n
  BY <1>1, <1>7, <1>8
<1>12. \A i \in Int : i - FrontLen(q) - ReadLen(q) - Len(q.write) - 1 = i - n - 1
  BY <1>1, <1>7
<1> HIDE DEF n
<1>13. ASSUME NEW i \in 1..q.size PROVE BlockAt(r, i) = BlockAt(q, i)
  <2>1. CASE i <= n
    BY <1>10, <2>1 DEF BlockAt, n
  <2>2. CASE ~ (i <= n)
    <3>1. i - n - 1 \in Slots /\ i - n - 1 # q.tailLast
      BY <1>1, <1>11, <2>2 DEF Slots
    <3>2. tail[i - n - 1] = q.tail[i - n - 1]
      BY <1>3, <3>1
    <3> QED
      BY <1>10, <1>12, <3>2 DEF BlockAt
  <2> QED
    BY <2>1, <2>2
<1>14. BlockAt(r, q.size + 1) = b
  <2> DEFINE i == q.size + 1
  <2>1. i \in Int /\ ~ (i <= n) /\ ~ (i <= FrontLen(q)) /\ ~ (i <= FrontLen(q) + ReadLen(q))
        /\ i - n - 1 = q.tailLast
    <3>1. /\ FrontLen(q) \in Int /\ ReadLen(q) \in Int /\ q.size \in Int
          /\ n \in Int /\ q.tailLast \in Nat
      BY <1>1, <1>7, <1>11
    <3>2. q.size + 1 = n + q.tailLast + 1
      BY <1>11
    <3>3. (n + q.tailLast + 1) - n - 1 = q.tailLast
      BY <3>1
    <3>4. q.size + 1 \in Int /\ ~ (q.size + 1 <= n)
      BY <3>1, <3>2
    <3>5. FrontLen(q) <= n /\ FrontLen(q) + ReadLen(q) <= n
      BY <1>11
    <3> HIDE DEF i
    <3>6. i \in Int /\ ~ (i <= n) /\ i = n + q.tailLast + 1
      BY <3>2, <3>4 DEF i
    <3>7. ~ (i <= FrontLen(q)) /\ ~ (i <= FrontLen(q) + ReadLen(q))
      <4> DEFINE g == FrontLen(q) + ReadLen(q)
      <4>1. g \in Int /\ g <= n
        BY <3>1, <3>5
      <4> HIDE DEF g
      <4>2. ~ (i <= g)
        BY <3>1, <3>6, <4>1
      <4>3. ~ (i <= FrontLen(q))
        BY <3>1, <3>5, <3>6
      <4> QED
        BY <4>2, <4>3 DEF g
    <3> QED
      BY <3>3, <3>6, <3>7
  <2> HIDE DEF i
  <2>2. BlockAt(r, i) = tail[i - n - 1]
    BY <1>10, <1>12, <2>1 DEF n
  <2> QED
    BY <1>3, <2>1, <2>2 DEF i
<1>15. BackBlock(r) = b
  <2>1. q.tailLast + 1 # 0 /\ (q.tailLast + 1) - 1 = q.tailLast
    BY <1>1
  <2> QED
    BY <1>3, <1>5, <2>1 DEF BackBlock
<1> QED
  BY <1>3, <1>5, <1>9, <1>13, <1>14, <1>15 DEF r

(* The tail cache goes to the write file: the blocks stay where they are.  *)
LEMMA FlushIs ==
    ASSUME NEW q, QueueShape(q), q.size # 0
    PROVE  /\ QueueShape(FlushTail(q))
           /\ FlushTail(q).size = q.size
           /\ FlushTail(q).tailLast = 0
           /\ FlushTail(q).write \in Seq(AnyBlock)
           /\ Len(FlushTail(q).write) = Len(q.write) + q.tailLast
           /\ \A i \in 1..Len(q.write) : FlushTail(q).write[i] = q.write[i]
           /\ \A i \in 1..q.tailLast : FlushTail(q).write[Len(q.write) + i] = q.tail[i - 1]
           /\ \A i \in 1..q.size : BlockAt(FlushTail(q), i) = BlockAt(q, i)
<1> DEFINE d == Slice(q.tail, 0, q.tailLast)
           all == q.write \o d
           f == FlushTail(q)
<1>1. /\ q \in QueueType /\ q.tail \in [Slots -> AnyBlock]
      /\ q.first \in Nat /\ q.last \in Int /\ q.fileIndex \in Nat
      /\ q.tailLast \in Nat /\ q.size \in Nat
      /\ q.write \in Seq(AnyBlock)
      /\ Len(q.read) \in Nat /\ Len(q.write) \in Nat
      /\ ReadLen(q) \in Nat /\ CachedBlocks \in Nat
      /\ q.tailLast <= CachedBlocks
  BY FileTypes, ShapeFits DEF QueueShape
<1>2. /\ d \in Seq(AnyBlock) /\ Len(d) = q.tailLast
      /\ \A i \in 1..q.tailLast : d[i] = q.tail[i - 1]
  <2>1. /\ d \in Seq(AnyBlock) /\ Len(d) = q.tailLast - 0
        /\ \A i \in 1..(q.tailLast - 0) : d[i] = q.tail[0 + i - 1]
    <3>1. 0 \in Nat /\ q.tailLast \in Int /\ 0 <= q.tailLast
      BY <1>1
    <3> QED
      BY <1>1, <3>1, SliceIs
  <2>2. q.tailLast - 0 = q.tailLast /\ \A i \in 1..q.tailLast : 0 + i - 1 = i - 1
    BY <1>1
  <2> QED
    BY <2>1, <2>2
<1>3. f = [q EXCEPT !.write = all, !.tailLast = 0]
  BY <1>1 DEF FlushTail, QueueType
<1> HIDE DEF d
<1>4. /\ all \in Seq(AnyBlock) /\ Len(all) = Len(q.write) + q.tailLast
      /\ \A i \in 1..Len(q.write) : all[i] = q.write[i]
      /\ \A i \in 1..q.tailLast : all[Len(q.write) + i] = q.tail[i - 1]
  <2>1. \A v, w \in Seq(AnyBlock) :
           /\ v \o w \in Seq(AnyBlock) /\ Len(v \o w) = Len(v) + Len(w)
           /\ \A i \in 1..Len(v) : (v \o w)[i] = v[i]
           /\ \A i \in 1..Len(w) : (v \o w)[Len(v) + i] = w[i]
    OBVIOUS
  <2>2. q.write \in Seq(AnyBlock) /\ d \in Seq(AnyBlock)
    BY <1>1, <1>2
  <2>3. /\ all \in Seq(AnyBlock) /\ Len(all) = Len(q.write) + Len(d)
        /\ \A i \in 1..Len(q.write) : all[i] = q.write[i]
        /\ \A i \in 1..Len(d) : all[Len(q.write) + i] = d[i]
    BY <2>1, <2>2
  <2> HIDE DEF all
  <2> QED
    BY <1>2, <2>3
<1> HIDE DEF all, f
<1>5. /\ f.front = q.front /\ f.first = q.first /\ f.last = q.last
      /\ f.fileIndex = q.fileIndex /\ f.tail = q.tail /\ f.tailLast = 0
      /\ f.read = q.read /\ f.write = all /\ f.size = q.size
  BY <1>1, <1>3 DEF QueueType
<1>6. f \in QueueType
  <2>1. 0 \in Nat
    OBVIOUS
  <2> QED
    BY <1>1, <1>3, <1>4, <2>1 DEF QueueType
<1>7. FrontLen(f) = FrontLen(q) /\ ReadLen(f) = ReadLen(q) /\ FrontLen(q) \in Nat
  BY <1>5, RestIsBehind DEF FrontLen, ReadLen
<1>8. /\ q.first <= q.last /\ q.last < CachedBlocks
      /\ q.size = FrontLen(q) + ReadLen(q) + Len(q.write) + q.tailLast
      /\ q.fileIndex <= Len(q.read)
  BY DEF QueueShape
<1>9. QueueShape(f)
  <2>1. f.size = FrontLen(f) + ReadLen(f) + Len(f.write) + f.tailLast
    <3>1. FrontLen(q) + ReadLen(q) + Len(q.write) + q.tailLast
            = FrontLen(q) + ReadLen(q) + (Len(q.write) + q.tailLast) + 0
      BY <1>1, <1>7
    <3> QED
      BY <1>4, <1>5, <1>7, <1>8, <3>1
  <2>2. 0 <= CachedBlocks
    BY <1>1
  <2> QED
    BY <1>5, <1>6, <1>8, <2>1, <2>2 DEF QueueShape
<1>10. ASSUME NEW i \in 1..q.size PROVE BlockAt(f, i) = BlockAt(q, i)
  <2> DEFINE n == FrontLen(q) + ReadLen(q)
             w == Len(q.write)
  <2>1. n \in Nat /\ w \in Nat /\ i \in Int /\ i <= n + w + q.tailLast
    BY <1>1, <1>7, <1>8
  <2>2. i - FrontLen(q) - ReadLen(q) = i - n
        /\ i - FrontLen(q) - ReadLen(q) - Len(q.write) - 1 = (i - n - w) - 1
    BY <1>1, <1>7
  <2>3. BlockAt(f, i) = IF i <= FrontLen(q) THEN q.front[q.first + i - 1]
                        ELSE IF i <= n THEN q.read[q.fileIndex + i - FrontLen(q)]
                        ELSE IF i <= n + (w + q.tailLast) THEN all[i - n]
                        ELSE f.tail[i - FrontLen(f) - ReadLen(f) - Len(f.write) - 1]
    BY <1>4, <1>5, <1>7, <2>2 DEF BlockAt
  <2>4. BlockAt(q, i) = IF i <= FrontLen(q) THEN q.front[q.first + i - 1]
                        ELSE IF i <= n THEN q.read[q.fileIndex + i - FrontLen(q)]
                        ELSE IF i <= n + w THEN q.write[i - n]
                        ELSE q.tail[(i - n - w) - 1]
    BY <2>2 DEF BlockAt
  <2>5. \A j \in 1..w : all[j] = q.write[j]
    BY <1>4
  <2>6. \A j \in 1..q.tailLast : all[w + j] = q.tail[j - 1]
    BY <1>4
  <2> HIDE DEF n, w
  <2>7. i <= n + (w + q.tailLast)
    BY <1>1, <2>1
  <2>8. CASE i <= n
    BY <2>3, <2>4, <2>8
  <2>9. CASE ~ (i <= n) /\ i <= n + w
    <3>1. i - n \in 1..w
      BY <2>1, <2>9
    <3> QED
      BY <2>3, <2>4, <2>5, <2>7, <2>9, <3>1
  <2>10. CASE ~ (i <= n) /\ ~ (i <= n + w)
    <3>1. i - n - w \in 1..q.tailLast /\ w + (i - n - w) = i - n
      BY <1>1, <2>1, <2>10
    <3>2. all[i - n] = q.tail[(i - n - w) - 1]
      BY <2>6, <3>1
    <3> QED
      BY <2>3, <2>4, <2>7, <2>10, <3>2
  <2> QED
    BY <2>8, <2>9, <2>10
<1> QED
  BY <1>4, <1>5, <1>9, <1>10 DEF f

LEMMA PushBehind ==
    ASSUME NEW q, QueueShape(q), q.size # 0, NEW b \in AnyBlock
    PROVE  /\ QueueShape(PushBlock(q, b))
           /\ PushBlock(q, b).size = q.size + 1
           /\ \A i \in 1..q.size : BlockAt(PushBlock(q, b), i) = BlockAt(q, i)
           /\ BlockAt(PushBlock(q, b), q.size + 1) = b
           /\ BackBlock(PushBlock(q, b)) = b
           /\ FullButNewest(q) /\ Full(BackBlock(q)) => FullButNewest(PushBlock(q, b))
<1> DEFINE f == IF q.tailLast = CachedBlocks THEN FlushTail(q) ELSE q
           r == PushBlock(q, b)
<1>1. /\ q.tailLast \in Nat /\ CachedBlocks \in Nat \ {0}
      /\ q.write \in Seq(AnyBlock) /\ q.size \in Nat
      /\ q.tailLast <= CachedBlocks /\ Len(q.write) \in Nat
  BY QueueTypes DEF QueueShape
<1>2. r = Tailed(f, b)
  BY DEF PushBlock, Tailed
<1>3. /\ QueueShape(f) /\ f.size = q.size /\ f.tailLast # CachedBlocks
      /\ \A i \in 1..q.size : BlockAt(f, i) = BlockAt(q, i)
  <2>1. CASE q.tailLast = CachedBlocks
    BY <1>1, <2>1, FlushIs
  <2>2. CASE q.tailLast # CachedBlocks
    BY <2>2
  <2> QED
    BY <2>1, <2>2
<1>4. /\ QueueShape(r) /\ r.size = q.size + 1
      /\ r.tailLast = f.tailLast + 1 /\ r.write = f.write
      /\ \A i \in Slots : i # f.tailLast => r.tail[i] = f.tail[i]
      /\ \A i \in 1..q.size : BlockAt(r, i) = BlockAt(f, i)
      /\ BlockAt(r, q.size + 1) = b /\ BackBlock(r) = b
  <2> HIDE DEF f, r
  <2> QED
    BY <1>2, <1>3, TailedIs
<1> HIDE DEF r
<1>5. ASSUME FullButNewest(q), Full(BackBlock(q)) PROVE FullButNewest(r)
  <2>1. r.tailLast # 0 /\ f.tailLast \in Nat
    <3>1. f.tailLast \in Nat
      BY <1>3, QueueTypes
    <3> QED
      BY <1>4, <3>1
  <2>2. ASSUME q.tailLast # 0 PROVE Full(q.tail[q.tailLast - 1])
    BY <1>5, <2>2 DEF BackBlock
  <2>3. ASSUME NEW i \in Slots, i < q.tailLast PROVE Full(q.tail[i])
    <3>1. i \in Nat
      BY <1>1 DEF Slots
    <3>2. CASE i + 1 < q.tailLast
      BY <1>5, <3>2 DEF FullButNewest
    <3>3. CASE ~ (i + 1 < q.tailLast)
      <4>1. q.tailLast # 0 /\ i = q.tailLast - 1
        BY <1>1, <2>3, <3>1, <3>3
      <4> QED
        BY <2>2, <4>1
    <3> QED
      BY <3>2, <3>3
  <2>4. \A i \in 1..Len(q.write) : Full(q.write[i])
    BY <1>5 DEF FullButNewest
  <2>5. CASE q.tailLast # CachedBlocks
    <3>1. f = q
      BY <2>5
    <3>2. ASSUME NEW i \in Slots, i + 1 < r.tailLast PROVE Full(r.tail[i])
      <4>1. i \in Nat
        BY <1>1 DEF Slots
      <4>2. i < q.tailLast /\ i # q.tailLast
        BY <1>1, <1>4, <3>1, <3>2, <4>1
      <4> QED
        BY <1>4, <2>3, <3>1, <4>2
    <3> QED
      BY <1>4, <2>1, <2>4, <3>1, <3>2 DEF FullButNewest
  <2>6. CASE q.tailLast = CachedBlocks
    <3>1. f = FlushTail(q)
      BY <2>6
    <3>2. /\ f.tailLast = 0 /\ Len(f.write) = Len(q.write) + q.tailLast
          /\ \A i \in 1..Len(q.write) : f.write[i] = q.write[i]
          /\ \A i \in 1..q.tailLast : f.write[Len(q.write) + i] = q.tail[i - 1]
      BY <3>1, FlushIs
    <3> HIDE DEF f
    <3>3. ASSUME NEW i \in 1..Len(f.write) PROVE Full(f.write[i])
      <4>1. CASE i <= Len(q.write)
        <5>1. i \in 1..Len(q.write)
          BY <4>1
        <5> QED
          BY <2>4, <3>2, <5>1
      <4>2. CASE ~ (i <= Len(q.write))
        <5> DEFINE k == i - Len(q.write)
        <5>1. k \in 1..q.tailLast /\ Len(q.write) + k = i
          BY <1>1, <3>2, <4>2
        <5>2. k - 1 \in Slots /\ k - 1 < q.tailLast
          BY <1>1, <5>1 DEF Slots
        <5> HIDE DEF k
        <5> QED
          BY <2>3, <3>2, <5>1, <5>2
      <4> QED
        BY <4>1, <4>2
    <3>4. \A i \in Slots : ~ (i + 1 < 0 + 1)
      BY DEF Slots
    <3> QED
      BY <1>4, <2>1, <3>2, <3>3, <3>4 DEF FullButNewest
  <2> QED
    BY <2>5, <2>6
<1> QED
  BY <1>3, <1>4, <1>5 DEF r

(* push: the queue with one more block behind.                             *)
LEMMA PushIs ==
    ASSUME NEW q, QueueShape(q), NEW b \in AnyBlock
    PROVE  /\ QueueShape(PushBlock(q, b))
           /\ PushBlock(q, b).size = q.size + 1
           /\ BlocksOf(PushBlock(q, b)) = Append(BlocksOf(q), b)
           /\ BackBlock(PushBlock(q, b)) = b
           /\ FullButNewest(q) /\ (q.size # 0 => Full(BackBlock(q)))
                => FullButNewest(PushBlock(q, b))
<1> DEFINE r == PushBlock(q, b)
<1>1. q.size \in Nat
  BY QueueTypes
<1>2. /\ QueueShape(r) /\ r.size = q.size + 1 /\ BackBlock(r) = b
      /\ \A i \in 1..q.size : BlockAt(r, i) = BlockAt(q, i)
      /\ BlockAt(r, q.size + 1) = b
      /\ FullButNewest(q) /\ (q.size # 0 => Full(BackBlock(q))) => FullButNewest(r)
  <2>1. CASE q.size = 0
    <3>1. q.size + 1 = 1 /\ \A i \in 1..q.size : FALSE
      BY <2>1
    <3> QED
      BY <2>1, <3>1, PushEmpty
  <2>2. CASE q.size # 0
    BY <2>2, PushBehind
  <2> QED
    BY <2>1, <2>2
<1> HIDE DEF r
<1>3. /\ BlocksOf(q) \in Seq(AnyBlock) /\ Len(BlocksOf(q)) = q.size
      /\ \A i \in 1..q.size : BlocksOf(q)[i] = BlockAt(q, i)
  BY BlocksAre
<1>4. /\ BlocksOf(r) \in Seq(AnyBlock) /\ Len(BlocksOf(r)) = q.size + 1
      /\ \A i \in 1..(q.size + 1) : BlocksOf(r)[i] = BlockAt(r, i)
  BY <1>2, BlocksAre
<1>5. /\ Append(BlocksOf(q), b) \in Seq(AnyBlock)
      /\ Len(Append(BlocksOf(q), b)) = q.size + 1
      /\ \A i \in 1..q.size : Append(BlocksOf(q), b)[i] = BlocksOf(q)[i]
      /\ Append(BlocksOf(q), b)[q.size + 1] = b
  BY <1>3, AppendProperties
<1>6. ASSUME NEW i \in 1..(q.size + 1) PROVE BlocksOf(r)[i] = Append(BlocksOf(q), b)[i]
  <2>1. CASE i = q.size + 1
    BY <1>2, <1>4, <1>5, <2>1
  <2>2. CASE i # q.size + 1
    <3>1. i \in 1..q.size
      BY <1>1, <2>2
    <3> QED
      BY <1>2, <1>3, <1>4, <1>5, <3>1
  <2> QED
    BY <2>1, <2>2
<1>7. BlocksOf(r) = Append(BlocksOf(q), b)
  BY <1>4, <1>5, <1>6, SeqEqual
<1> QED
  BY <1>2, <1>7 DEF r
-----------------------------------------------------------------------------
(* Writing through the references of front() and back(). *)

(* back() returns the newest block whenever that block has room: it may be *)
(* written to, and stays the newest.                                       *)
LEMMA BackIs ==
    ASSUME NEW q, QueueShape(q), FullButNewest(q), q.size # 0, ~ Full(BackBlock(q))
    PROVE  BlockAt(q, q.size) = BackBlock(q)
<1>1. /\ q.first \in Nat /\ q.last \in Int /\ q.fileIndex \in Nat
      /\ q.tailLast \in Nat /\ q.size \in Nat
      /\ Len(q.read) \in Nat /\ Len(q.write) \in Nat
      /\ ReadLen(q) \in Nat /\ FrontLen(q) \in Nat
      /\ q.first <= q.last
      /\ q.size = FrontLen(q) + ReadLen(q) + Len(q.write) + q.tailLast
  BY FileTypes, ShapeFits, RestIsBehind DEF QueueShape
<1>2. CASE q.tailLast = 0
  <2>1. BackBlock(q) = q.front[0]
    BY <1>2 DEF BackBlock
  <2>2. q.write = << >> /\ q.last = 0 /\ q.fileIndex = Len(q.read)
    BY <1>2, <2>1 DEF FullButNewest
  <2>3. q.first = 0
    BY <1>1, <2>2
  <2>4. FrontLen(q) = 1 /\ ReadLen(q) = 0 /\ Len(q.write) = 0
    BY <1>1, <2>2, <2>3 DEF FrontLen, ReadLen
  <2>5. q.size = 1
    BY <1>1, <1>2, <2>4
  <2> QED
    BY <2>1, <2>3, <2>4, <2>5 DEF BlockAt
<1>3. CASE q.tailLast # 0
  <2> DEFINE f == FrontLen(q)
             r == ReadLen(q)
             w == Len(q.write)
  <2>1. BackBlock(q) = q.tail[q.tailLast - 1]
    BY <1>3 DEF BackBlock
  <2>2. BlockAt(q, q.size) = IF q.size <= f THEN q.front[q.first + q.size - 1]
                             ELSE IF q.size <= f + r THEN q.read[q.fileIndex + q.size - f]
                             ELSE IF q.size <= f + r + w THEN q.write[q.size - f - r]
                             ELSE q.tail[q.size - f - r - w - 1]
    BY DEF BlockAt
  <2>3. /\ f \in Nat /\ r \in Nat /\ w \in Nat /\ q.tailLast \in Nat \ {0}
        /\ q.size = f + r + w + q.tailLast
    BY <1>1, <1>3
  <2> HIDE DEF f, r, w
  <2>4. /\ ~ (q.size <= f) /\ ~ (q.size <= f + r) /\ ~ (q.size <= f + r + w)
        /\ q.size - f - r - w - 1 = q.tailLast - 1
    BY <2>3
  <2> QED
    BY <2>1, <2>2, <2>4
<1> QED
  BY <1>2, <1>3

LEMMA SetBackIs ==
    ASSUME NEW q, QueueShape(q), FullButNewest(q), q.size # 0, ~ Full(BackBlock(q)),
           NEW b \in AnyBlock
    PROVE  /\ QueueShape(SetBack(q, b)) /\ FullButNewest(SetBack(q, b))
           /\ SetBack(q, b).size = q.size
           /\ BlocksOf(SetBack(q, b)) = [BlocksOf(q) EXCEPT ![q.size] = b]
<1> DEFINE r == SetBack(q, b)
<1>1. /\ q \in QueueType
      /\ q.front \in [Slots -> AnyBlock] /\ q.tail \in [Slots -> AnyBlock]
      /\ q.first \in Nat /\ q.last \in Int /\ q.fileIndex \in Nat
      /\ q.tailLast \in Nat /\ q.size \in Nat \ {0}
      /\ Len(q.read) \in Nat /\ Len(q.write) \in Nat
      /\ ReadLen(q) \in Nat /\ FrontLen(q) \in Nat
      /\ q.first <= q.last
      /\ q.size = FrontLen(q) + ReadLen(q) + Len(q.write) + q.tailLast
      /\ CachedBlocks \in Nat \ {0} /\ q.tailLast <= CachedBlocks
  BY FileTypes, ShapeFits, RestIsBehind DEF QueueShape
<1>2. /\ QueueShape(r) /\ FullButNewest(r) /\ r.size = q.size
      /\ \A i \in 1..q.size : BlockAt(r, i) = IF i = q.size THEN b ELSE BlockAt(q, i)
  <2>1. CASE q.tailLast = 0
    <3> DEFINE front == [q.front EXCEPT ![0] = b]
    <3>1. 0 \in Slots
      BY <1>1 DEF Slots
    <3>2. front \in [Slots -> AnyBlock] /\ front[0] = b
      BY <1>1, <3>1
    <3>3. r = [q EXCEPT !.front = front]
      BY <1>1, <2>1 DEF SetBack, QueueType
    <3> HIDE DEF r, front
    <3>4. /\ r.front = front /\ r.first = q.first /\ r.last = q.last
          /\ r.fileIndex = q.fileIndex /\ r.tail = q.tail /\ r.tailLast = q.tailLast
          /\ r.read = q.read /\ r.write = q.write /\ r.size = q.size
      BY <1>1, <3>3 DEF QueueType
    <3>5. r \in QueueType
      BY <1>1, <3>2, <3>3 DEF QueueType
    <3>6. FrontLen(r) = FrontLen(q) /\ ReadLen(r) = ReadLen(q)
      BY <3>4 DEF FrontLen, ReadLen
    <3>7. QueueShape(r)
      BY <3>4, <3>5, <3>6 DEF QueueShape
    <3>8. q.write = << >> /\ q.last = 0 /\ q.fileIndex = Len(q.read)
      BY <2>1 DEF FullButNewest, BackBlock
    <3>9. q.first = 0 /\ q.last = 0
      BY <1>1, <3>8
    <3>10. FrontLen(q) = 1 /\ ReadLen(q) = 0 /\ Len(q.write) = 0
      BY <1>1, <3>8, <3>9 DEF FrontLen, ReadLen
    <3>11. q.size = 1
      BY <1>1, <2>1, <3>10
    <3>12. FullButNewest(r)
      BY <3>4, <3>8 DEF FullButNewest
    <3>13. BlockAt(r, 1) = b
      BY <3>2, <3>4, <3>6, <3>9, <3>10 DEF BlockAt
    <3> QED
      BY <3>4, <3>7, <3>11, <3>12, <3>13
  <2>2. CASE q.tailLast # 0
    <3> DEFINE k == q.tailLast - 1
               tail == [q.tail EXCEPT ![k] = b]
    <3>1. k \in Slots
      BY SMTT(60), <1>1, <2>2 DEF Slots
    <3>2. /\ tail \in [Slots -> AnyBlock] /\ tail[k] = b
          /\ \A i \in Slots : i # k => tail[i] = q.tail[i]
      BY <1>1, <3>1
    <3>3. r = [q EXCEPT !.tail = tail]
      BY <1>1, <2>2 DEF SetBack, QueueType
    <3> HIDE DEF r, tail
    <3>4. /\ r.front = q.front /\ r.first = q.first /\ r.last = q.last
          /\ r.fileIndex = q.fileIndex /\ r.tail = tail /\ r.tailLast = q.tailLast
          /\ r.read = q.read /\ r.write = q.write /\ r.size = q.size
      BY <1>1, <3>3 DEF QueueType
    <3>5. r \in QueueType
      BY <1>1, <3>2, <3>3 DEF QueueType
    <3>6. FrontLen(r) = FrontLen(q) /\ ReadLen(r) = ReadLen(q)
      BY <3>4 DEF FrontLen, ReadLen
    <3>7. QueueShape(r)
      BY <3>4, <3>5, <3>6 DEF QueueShape
    <3>8. \A i \in Slots : i + 1 < q.tailLast => i # k
      <4>1. \A i \in Slots : i \in Int
        BY DEF Slots
      <4> QED
        BY <1>1, <4>1
    <3>9. FullButNewest(r)
      <4>1. \A i \in Slots : i + 1 < r.tailLast => Full(r.tail[i])
        BY <3>2, <3>4, <3>8 DEF FullButNewest
      <4> QED
        BY <2>2, <3>4, <4>1 DEF FullButNewest
    <3> DEFINE n == FrontLen(q) + ReadLen(q) + Len(q.write)
    <3>10. /\ \A i \in Int : BlockAt(r, i) =
                IF i <= n THEN BlockAt(q, i) ELSE tail[i - n - 1]
           /\ \A i \in Int : ~ (i <= n) => BlockAt(q, i) = q.tail[i - n - 1]
      <4>1. ASSUME NEW i \in Int
            PROVE  /\ BlockAt(r, i) = IF i <= n THEN BlockAt(q, i) ELSE tail[i - n - 1]
                   /\ ~ (i <= n) => BlockAt(q, i) = q.tail[i - n - 1]
        <5> DEFINE f == FrontLen(q)
                   l == ReadLen(q)
                   w == Len(q.write)
        <5>1. f \in Nat /\ l \in Nat /\ w \in Nat
          BY <1>1
        <5>2. BlockAt(q, i) = IF i <= f THEN q.front[q.first + i - 1]
                              ELSE IF i <= f + l THEN q.read[q.fileIndex + i - f]
                              ELSE IF i <= f + l + w THEN q.write[i - f - l]
                              ELSE q.tail[i - f - l - w - 1]
          BY DEF BlockAt
        <5>3. BlockAt(r, i) = IF i <= f THEN q.front[q.first + i - 1]
                              ELSE IF i <= f + l THEN q.read[q.fileIndex + i - f]
                              ELSE IF i <= f + l + w THEN q.write[i - f - l]
                              ELSE tail[i - f - l - w - 1]
          BY <3>4, <3>6 DEF BlockAt
        <5>4. n = f + l + w
          OBVIOUS
        <5> HIDE DEF f, l, w, n
        <5>5. /\ ~ (i <= n) => ~ (i <= f) /\ ~ (i <= f + l) /\ ~ (i <= f + l + w)
              /\ i <= n => i <= f + l + w
              /\ i - f - l - w - 1 = i - n - 1
          BY <5>1, <5>4
        <5> QED
          BY <5>2, <5>3, <5>5
      <4> QED
        BY <4>1
    <3>11. n \in Nat /\ q.size = n + q.tailLast
      BY <1>1
    <3> HIDE DEF n
    <3>12. ASSUME NEW i \in 1..q.size
           PROVE  BlockAt(r, i) = IF i = q.size THEN b ELSE BlockAt(q, i)
      <4>0. k = q.tailLast - 1 /\ i \in Int
        BY <1>1
      <4> HIDE DEF k
      <4>1. CASE i = q.size
        <5>1. ~ (i <= n) /\ i - n - 1 = k
          BY <1>1, <2>2, <3>11, <4>0, <4>1
        <5> QED
          BY <3>2, <3>10, <4>0, <4>1, <5>1
      <4>2. CASE i # q.size /\ i <= n
        BY <3>10, <4>0, <4>2
      <4>3. CASE i # q.size /\ ~ (i <= n)
        <5>1. i - n - 1 \in Slots /\ i - n - 1 # k
          <6>1. /\ i \in Int /\ n \in Int /\ q.tailLast \in Int /\ CachedBlocks \in Int
                /\ i < n + q.tailLast /\ n < i /\ q.tailLast <= CachedBlocks
            BY <1>1, <3>11, <4>0, <4>3
          <6>2. /\ i - n - 1 \in 0..(CachedBlocks - 1)
                /\ i - n - 1 # q.tailLast - 1
            BY <6>1
          <6> QED
            BY <4>0, <6>2 DEF Slots
        <5> QED
          BY <3>2, <3>10, <4>0, <4>3, <5>1
      <4> QED
        BY <4>1, <4>2, <4>3
    <3> QED
      BY <3>4, <3>7, <3>9, <3>12
  <2> QED
    BY <2>1, <2>2
<1> HIDE DEF r
<1>3. /\ BlocksOf(q) \in Seq(AnyBlock) /\ Len(BlocksOf(q)) = q.size
      /\ \A i \in 1..q.size : BlocksOf(q)[i] = BlockAt(q, i)
  BY BlocksAre
<1>4. /\ BlocksOf(r) \in Seq(AnyBlock) /\ Len(BlocksOf(r)) = q.size
      /\ \A i \in 1..q.size : BlocksOf(r)[i] = BlockAt(r, i)
  BY <1>2, BlocksAre
<1> DEFINE c == [BlocksOf(q) EXCEPT ![q.size] = b]
<1>5. /\ c \in Seq(AnyBlock) /\ Len(c) = q.size
      /\ \A i \in 1..q.size : c[i] = IF i = q.size THEN b ELSE BlocksOf(q)[i]
  <2>1. q.size \in 1..q.size
    BY <1>1
  <2> QED
    BY <1>3, <2>1, ExceptSeq
<1> HIDE DEF c
<1>6. ASSUME NEW i \in 1..q.size PROVE BlocksOf(r)[i] = c[i]
  BY <1>2, <1>3, <1>4, <1>5
<1>7. BlocksOf(r) = c
  BY <1>4, <1>5, <1>6, SeqEqual
<1> QED
  BY <1>2, <1>7 DEF r, c

(* front() returns the oldest block. *)
LEMMA FrontIs ==
    ASSUME NEW q, QueueShape(q), q.size # 0
    PROVE  q.first \in Slots /\ BlockAt(q, 1) = FrontBlock(q)
<1>1. /\ q.first \in Nat /\ q.last \in Int /\ q.first <= q.last
      /\ q.last < CachedBlocks /\ CachedBlocks \in Nat
  BY QueueTypes DEF QueueShape
<1>2. FrontLen(q) \in Nat /\ FrontLen(q) # 0
  BY RestIsBehind
<1>3. 1 <= FrontLen(q) /\ q.first + 1 - 1 = q.first
  BY <1>1, <1>2
<1> QED
  BY <1>1, <1>3 DEF Slots, BlockAt, FrontBlock

LEMMA SetFrontIs ==
    ASSUME NEW q, QueueShape(q), q.size # 0, NEW b \in AnyBlock,
           Full(FrontBlock(q)) => Full(b)
    PROVE  /\ QueueShape(SetFront(q, b))
           /\ SetFront(q, b).size = q.size
           /\ BlocksOf(SetFront(q, b)) = [BlocksOf(q) EXCEPT ![1] = b]
           /\ FullButNewest(q) => FullButNewest(SetFront(q, b))
<1> DEFINE r == SetFront(q, b)
           front == [q.front EXCEPT ![q.first] = b]
<1>1. /\ q \in QueueType /\ q.front \in [Slots -> AnyBlock]
      /\ q.first \in Nat /\ q.last \in Int /\ q.first <= q.last
      /\ q.last < CachedBlocks /\ CachedBlocks \in Nat /\ q.size \in Nat \ {0}
      /\ q.first \in Slots
  BY QueueTypes, FrontIs DEF QueueShape
<1>2. /\ front \in [Slots -> AnyBlock] /\ front[q.first] = b
      /\ \A i \in Slots : i # q.first => front[i] = q.front[i]
  BY <1>1
<1>3. r = [q EXCEPT !.front = front]
  BY <1>1 DEF SetFront, QueueType
<1> HIDE DEF r, front
<1>4. /\ r.front = front /\ r.first = q.first /\ r.last = q.last
      /\ r.fileIndex = q.fileIndex /\ r.tail = q.tail /\ r.tailLast = q.tailLast
      /\ r.read = q.read /\ r.write = q.write /\ r.size = q.size
  BY <1>1, <1>3 DEF QueueType
<1>5. r \in QueueType
  BY <1>1, <1>2, <1>3 DEF QueueType
<1>6. FrontLen(r) = FrontLen(q) /\ ReadLen(r) = ReadLen(q)
  BY <1>4 DEF FrontLen, ReadLen
<1>7. QueueShape(r)
  BY <1>4, <1>5, <1>6 DEF QueueShape
<1>8. ASSUME FullButNewest(q) PROVE FullButNewest(r)
  <2>1. Full(q.front[0]) => Full(front[0])
    <3>1. 0 \in Slots
      BY <1>1 DEF Slots
    <3>2. CASE q.first = 0
      BY <1>2, <3>2 DEF FrontBlock
    <3>3. CASE q.first # 0
      BY <1>2, <3>1, <3>3
    <3> QED
      BY <3>2, <3>3
  <2> QED
    BY <1>4, <1>8, <2>1 DEF FullButNewest
<1>9. ASSUME NEW i \in 1..q.size
      PROVE  BlockAt(r, i) = IF i = 1 THEN b ELSE BlockAt(q, i)
  <2>1. CASE i <= FrontLen(q)
    <3>1. BlockAt(r, i) = front[q.first + i - 1] /\ BlockAt(q, i) = q.front[q.first + i - 1]
      BY <1>4, <1>6, <2>1 DEF BlockAt
    <3>2. CASE i = 1
      <4>1. q.first + i - 1 = q.first
        BY <1>1, <3>2
      <4> QED
        BY <1>2, <3>1, <3>2, <4>1
    <3>3. CASE i # 1
      <4>1. i <= q.last + 1 - q.first
        BY <2>1 DEF FrontLen
      <4>2. q.first + i - 1 \in Slots /\ q.first + i - 1 # q.first
        BY <1>1, <3>3, <4>1 DEF Slots
      <4> QED
        BY <1>2, <3>1, <3>3, <4>2
    <3> QED
      BY <3>2, <3>3
  <2>2. CASE ~ (i <= FrontLen(q))
    <3>1. FrontLen(q) \in Nat /\ FrontLen(q) # 0
      BY RestIsBehind
    <3>2. i # 1
      BY <2>2, <3>1
    <3> QED
      BY <1>4, <1>6, <2>2, <3>2 DEF BlockAt
  <2> QED
    BY <2>1, <2>2
<1>10. /\ BlocksOf(q) \in Seq(AnyBlock) /\ Len(BlocksOf(q)) = q.size
       /\ \A i \in 1..q.size : BlocksOf(q)[i] = BlockAt(q, i)
  BY BlocksAre
<1>11. /\ BlocksOf(r) \in Seq(AnyBlock) /\ Len(BlocksOf(r)) = q.size
       /\ \A i \in 1..q.size : BlocksOf(r)[i] = BlockAt(r, i)
  BY <1>4, <1>7, BlocksAre
<1> DEFINE c == [BlocksOf(q) EXCEPT ![1] = b]
<1>12. /\ c \in Seq(AnyBlock) /\ Len(c) = q.size
       /\ \A i \in 1..q.size : c[i] = IF i = 1 THEN b ELSE BlocksOf(q)[i]
  <2>1. 1 \in 1..q.size
    BY <1>1
  <2> QED
    BY <1>10, <2>1, ExceptSeq
<1> HIDE DEF c
<1>13. ASSUME NEW i \in 1..q.size PROVE BlocksOf(r)[i] = c[i]
  BY <1>9, <1>10, <1>11, <1>12
<1>14. BlocksOf(r) = c
  BY <1>11, <1>12, <1>13, SeqEqual
<1> QED
  BY <1>4, <1>7, <1>8, <1>14 DEF r, c
-----------------------------------------------------------------------------
(* The values in a sequence of blocks, oldest first. *)

Held(s) == FlattenSeq([i \in 1..Len(s) |-> Unread(s[i])])

LEMMA UnreadIs ==
    ASSUME NEW b \in AnyBlock
    PROVE  /\ Unread(b) \in Seq(Values)
           /\ Len(Unread(b)) = IF b.first < Len(b.vals) THEN Len(b.vals) - b.first ELSE 0
           /\ \A i \in 1..(Len(b.vals) - b.first) : Unread(b)[i] = b.vals[b.first + i]
<1> DEFINE v == b.vals
           n == b.first
<1>1. v \in Seq(Values) /\ n \in Nat /\ Len(v) \in Nat
  BY DEF AnyBlock
<1>2. Unread(b) = SubSeq(v, n + 1, Len(v))
  BY DEF Unread
<1> HIDE DEF v, n
<1>3. \A i \in (n + 1)..Len(v) : v[i] \in Values
  <2>1. ASSUME NEW i \in (n + 1)..Len(v) PROVE v[i] \in Values
    <3>1. i \in 1..Len(v)
      BY <1>1
    <3> QED
      BY <1>1, <3>1
  <2> QED
    BY <2>1
<1>4. n + 1 \in Int /\ Len(v) \in Int
  BY <1>1
<1>5. /\ SubSeq(v, n + 1, Len(v)) \in Seq(Values)
      /\ Len(SubSeq(v, n + 1, Len(v))) = IF n + 1 <= Len(v) THEN Len(v) - (n + 1) + 1 ELSE 0
      /\ \A i \in 1..(Len(v) - (n + 1) + 1) :
            SubSeq(v, n + 1, Len(v))[i] = v[(n + 1) + i - 1]
  BY <1>3, <1>4, SubSeqProperties
<1>6. Len(v) - (n + 1) + 1 = Len(v) - n /\ (n + 1 <= Len(v) <=> n < Len(v))
  BY <1>1
<1>7. ASSUME NEW i \in 1..(Len(v) - n)
      PROVE  SubSeq(v, n + 1, Len(v))[i] = v[n + i]
  <2>1. (n + 1) + i - 1 = n + i
    BY <1>1
  <2> QED
    BY <1>5, <1>6, <2>1
<1>8. Len(SubSeq(v, n + 1, Len(v))) = IF n < Len(v) THEN Len(v) - n ELSE 0
  BY <1>5, <1>6
<1> QED
  BY <1>2, <1>5, <1>7, <1>8 DEF v, n

LEMMA UnreadOfAll ==
    ASSUME NEW s \in Seq(AnyBlock)
    PROVE  /\ [i \in 1..Len(s) |-> Unread(s[i])] \in Seq(Seq(Values))
           /\ Len([i \in 1..Len(s) |-> Unread(s[i])]) = Len(s)
<1>1. Len(s) \in Nat
  OBVIOUS
<1>2. ASSUME NEW i \in 1..Len(s) PROVE Unread(s[i]) \in Seq(Values)
  <2>1. s[i] \in AnyBlock
    OBVIOUS
  <2> QED
    BY <2>1, UnreadIs
<1> DEFINE S == Seq(Values)
           m == [i \in 1..Len(s) |-> Unread(s[i])]
<1>3. m \in [1..Len(s) -> S]
  BY <1>2
<1> HIDE DEF S, m
<1>4. m \in Seq(S) /\ Len(m) = Len(s)
  BY <1>1, <1>3
<1> QED
  BY <1>4 DEF S, m

LEMMA HeldType ==
    ASSUME NEW s \in Seq(AnyBlock)
    PROVE  Held(s) \in Seq(Values)
BY UnreadOfAll, FlattenType DEF Held

(* One more block behind the others.                                       *)
LEMMA HeldAppend ==
    ASSUME NEW s \in Seq(AnyBlock), NEW b \in AnyBlock
    PROVE  Held(Append(s, b)) = Held(s) \o Unread(b)
<1> DEFINE m == [i \in 1..Len(s) |-> Unread(s[i])]
           a == Append(s, b)
           n == [i \in 1..Len(a) |-> Unread(a[i])]
           S == Seq(Values)
<1>1. /\ a \in Seq(AnyBlock) /\ Len(a) = Len(s) + 1 /\ Len(s) \in Nat
      /\ \A i \in 1..Len(s) : a[i] = s[i]
      /\ a[Len(s) + 1] = b
  BY AppendProperties
<1> HIDE DEF a
<1>2. m \in Seq(S) /\ Len(m) = Len(s) /\ n \in Seq(S) /\ Len(n) = Len(a)
  BY <1>1, UnreadOfAll
<1>3. Unread(b) \in S
  BY UnreadIs
<1>4. \A i \in 1..Len(s) : n[i] = m[i]
  BY <1>1
<1>5. n[Len(s) + 1] = Unread(b)
  <2>1. Len(s) + 1 \in 1..Len(a)
    BY <1>1
  <2> QED
    BY <1>1, <2>1
<1> HIDE DEF m, n
<1>6. n = Append(m, Unread(b))
  <2> HIDE DEF S
  <2>1. /\ Append(m, Unread(b)) \in Seq(S)
        /\ Len(Append(m, Unread(b))) = Len(s) + 1
        /\ \A i \in 1..Len(s) : Append(m, Unread(b))[i] = m[i]
        /\ Append(m, Unread(b))[Len(s) + 1] = Unread(b)
    BY <1>2, <1>3, AppendProperties
  <2>2. ASSUME NEW i \in 1..(Len(s) + 1) PROVE n[i] = Append(m, Unread(b))[i]
    <3>1. CASE i = Len(s) + 1
      BY <1>5, <2>1, <3>1
    <3>2. CASE i # Len(s) + 1
      <4>1. i \in 1..Len(s)
        BY <1>1, <3>2
      <4> QED
        BY <1>4, <2>1, <4>1
    <3> QED
      BY <3>1, <3>2
  <2> QED
    BY <1>1, <1>2, <2>1, <2>2, SeqEqual
<1>7. FlattenSeq(Append(m, Unread(b))) = FlattenSeq(m) \o Unread(b)
  BY <1>2, <1>3, FlattenAppend
<1> QED
  BY <1>6, <1>7 DEF Held, m, n, a

(* The blocks without the oldest.                                          *)
LEMMA HeldTail ==
    ASSUME NEW s \in Seq(AnyBlock), s # << >>
    PROVE  Held(s) = Unread(s[1]) \o Held(Tail(s))
<1> DEFINE m == [i \in 1..Len(s) |-> Unread(s[i])]
           t == Tail(s)
           n == [i \in 1..Len(t) |-> Unread(t[i])]
           S == Seq(Values)
<1>1. /\ t \in Seq(AnyBlock) /\ Len(t) = Len(s) - 1 /\ Len(s) \in Nat
      /\ Len(s) # 0
      /\ \A i \in 1..Len(t) : t[i] = s[i + 1]
  BY HeadTailProperties, EmptySeq
<1> HIDE DEF t
<1>2. m \in Seq(S) /\ Len(m) = Len(s) /\ n \in Seq(S) /\ Len(n) = Len(t)
  BY <1>1, UnreadOfAll
<1>3. 1 \in 1..Len(s) /\ s[1] \in AnyBlock
  BY <1>1
<1>4. Unread(s[1]) \in S /\ m[1] = Unread(s[1])
  BY <1>3, UnreadIs
<1>5. ASSUME NEW i \in 1..Len(t) PROVE m[i + 1] = n[i]
  <2>1. i + 1 \in 1..Len(s)
    BY <1>1
  <2> QED
    BY <1>1, <2>1
<1> HIDE DEF m, n
<1>6. Len(m) = Len(n) + 1
  BY <1>1, <1>2
<1>7. FlattenSeq(m) = Unread(s[1]) \o FlattenSeq(n)
  <2>1. \A i \in 1..Len(n) : m[i + 1] = n[i]
    BY <1>2, <1>5
  <2>2. \A x, y \in Seq(Seq(Values)) : \A z \in Seq(Values) :
           /\ Len(y) = Len(x) + 1 /\ y[1] = z
           /\ \A i \in 1..Len(x) : y[i + 1] = x[i]
           => FlattenSeq(y) = z \o FlattenSeq(x)
    BY FlattenFront
  <2>3. m[1] = Unread(s[1]) /\ Unread(s[1]) \in Seq(Values)
    BY <1>4
  <2> QED
    BY <1>2, <1>6, <2>1, <2>2, <2>3
<1> QED
  BY <1>7 DEF Held, m, n, t
-----------------------------------------------------------------------------
(* The layer. *)

(* No block of the queue has been read to its end. *)
Live(s) == \A i \in 1..Len(s) : s[i].first < Len(s[i].vals)

LayerInv ==
    /\ QueueShape(base)
    /\ FullButNewest(base)
    /\ Live(BlocksOf(base))
    /\ size = Len(Contents)
    /\ pushed \in 0..MaxPushes

LEMMA ContentsAre == Contents = Held(BlocksOf(base)) /\ Contents' = Held(BlocksOf(base'))
BY DEF Contents, Held

LEMMA EmptyIsBlock == EmptyBlock \in AnyBlock /\ Unread(EmptyBlock) = << >> /\ ~ Full(EmptyBlock)
<1>1. << >> \in Seq(Values) /\ Len(<< >>) = 0 /\ 0 \in Nat
  OBVIOUS
<1>2. EmptyBlock \in AnyBlock /\ EmptyBlock.vals = << >>
  BY <1>1 DEF EmptyBlock, AnyBlock
<1>3. ~ Full(EmptyBlock)
  BY <1>1, <1>2, QueueAssumption DEF Full
<1>4. Unread(EmptyBlock) \in Seq(Values) /\ Len(Unread(EmptyBlock)) = 0
  <2>1. Len(Unread(EmptyBlock)) =
           IF EmptyBlock.first < Len(EmptyBlock.vals)
           THEN Len(EmptyBlock.vals) - EmptyBlock.first ELSE 0
    BY <1>2, UnreadIs
  <2>2. EmptyBlock.first = 0 /\ Len(EmptyBlock.vals) = 0
    BY <1>1, <1>2 DEF EmptyBlock
  <2>3. Unread(EmptyBlock) \in Seq(Values)
    BY <1>2, UnreadIs
  <2> QED
    BY <2>1, <2>2, <2>3
<1> QED
  BY <1>2, <1>3, <1>4

LEMMA LayerInit == Init => LayerInv /\ Contents = << >>
<1> SUFFICES ASSUME Init PROVE LayerInv /\ Contents = << >>
  OBVIOUS
<1>1. base = NewQueue /\ size = 0 /\ pushed = 0
  BY DEF Init
<1>2. NewQueue \in QueueType
  <2>1. [i \in Slots |-> EmptyBlock] \in [Slots -> AnyBlock]
    BY EmptyIsBlock
  <2>2. << >> \in Seq(AnyBlock) /\ 0 \in Nat /\ 0 \in Int
    OBVIOUS
  <2> QED
    BY <2>1, <2>2 DEF NewQueue, QueueType
<1>3. /\ base.size = 0 /\ base.read = << >> /\ base.write = << >>
      /\ base.fileIndex = 0 /\ base.tailLast = 0
  BY <1>1 DEF NewQueue
<1>4. BlocksOf(base) = << >>
  BY <1>3 DEF BlocksOf
<1>5. QueueShape(base)
  BY <1>1, <1>2, <1>3, QueueAssumption DEF QueueShape
<1>6. FullButNewest(base)
  <2>1. \A i \in Slots : ~ (i + 1 < 0)
    BY DEF Slots
  <2> QED
    BY <1>3, <2>1 DEF FullButNewest
<1>7. Contents = << >>
  <2>1. Held(BlocksOf(base)) = FlattenSeq(<< >>)
    BY <1>4 DEF Held
  <2> QED
    BY <2>1, FlattenEmpty, ContentsAre
<1>8. Live(BlocksOf(base))
  BY <1>4 DEF Live
<1>9. size = Len(Contents) /\ pushed \in 0..MaxPushes
  BY <1>1, <1>7, QueueAssumption
<1> QED
  BY <1>5, <1>6, <1>7, <1>8, <1>9 DEF LayerInv

(* push puts its value behind the others.                                  *)
LEMMA LayerPush ==
    ASSUME LayerInv, Push
    PROVE  LayerInv' /\ Contents' = Append(Contents, pushed + 1)
<1> DEFINE q == WithRoom(base)
           v == pushed + 1
           b == BackBlock(q)
           c == [b EXCEPT !.vals = Append(@, v)]
           s == BlocksOf(q)
           n == q.size
<1>1. /\ QueueShape(base) /\ FullButNewest(base) /\ Live(BlocksOf(base))
      /\ size = Len(Contents) /\ pushed \in 0..MaxPushes
  BY DEF LayerInv
<1>2. /\ base' = SetBack(q, c) /\ size' = size + 1 /\ pushed' = v
      /\ pushed < MaxPushes
  BY DEF Push
<1>3. v \in Values /\ v \in 0..MaxPushes
  <2>1. MaxPushes \in Nat
    BY QueueAssumption
  <2> QED
    BY <1>1, <1>2, <2>1 DEF Values
<1>4. /\ BlocksOf(base) \in Seq(AnyBlock) /\ Len(BlocksOf(base)) = base.size
      /\ base.size \in Nat
  BY <1>1, BlocksAre, QueueTypes
<1>5. /\ QueueShape(q) /\ FullButNewest(q) /\ n # 0 /\ ~ Full(b)
      /\ Held(s) = Contents
      /\ \A i \in 1..Len(s) : i < Len(s) => s[i].first < Len(s[i].vals)
      /\ b.first <= Len(b.vals)
  <2>1. CASE base.size = 0 \/ Full(BackBlock(base))
    <3>1. q = PushBlock(base, EmptyBlock)
      BY <2>1 DEF WithRoom, Full
    <3> HIDE DEF q
    <3>2. /\ QueueShape(q) /\ n = base.size + 1 /\ b = EmptyBlock
          /\ s = Append(BlocksOf(base), EmptyBlock)
          /\ FullButNewest(q)
      BY <1>1, <2>1, <3>1, EmptyIsBlock, PushIs
    <3>3. Held(s) = Contents
      <4>1. Held(s) = Held(BlocksOf(base)) \o << >>
        BY <1>4, <3>2, EmptyIsBlock, HeldAppend
      <4>2. Held(BlocksOf(base)) \in Seq(Values)
        BY <1>4, HeldType
      <4> QED
        BY <4>1, <4>2, ContentsAre
    <3>4. /\ Len(s) = base.size + 1
          /\ \A i \in 1..base.size : s[i] = BlocksOf(base)[i]
      BY <1>4, <3>2, EmptyIsBlock, AppendProperties
    <3>5. ASSUME NEW i \in 1..Len(s), i < Len(s) PROVE s[i].first < Len(s[i].vals)
      <4>1. i \in 1..base.size
        BY <1>4, <3>4, <3>5
      <4> QED
        BY <1>1, <1>4, <3>4, <4>1 DEF Live
    <3>6. b.first <= Len(b.vals)
      BY <3>2 DEF EmptyBlock
    <3>7. n # 0
      BY <1>4, <3>2
    <3> QED
      BY <3>2, <3>3, <3>5, <3>6, <3>7, EmptyIsBlock
  <2>2. CASE ~ (base.size = 0 \/ Full(BackBlock(base)))
    <3>1. q = base
      BY <2>2 DEF WithRoom, Full
    <3> HIDE DEF q
    <3>2. Held(s) = Contents
      BY <3>1, ContentsAre
    <3>3. b = s[n]
      <4>1. BlockAt(base, base.size) = BackBlock(base)
        BY <1>1, <2>2, BackIs
      <4>2. base.size \in 1..base.size
        BY <1>4, <2>2
      <4> QED
        BY <1>1, <3>1, <4>1, <4>2, BlocksAre
    <3>4. n \in 1..Len(s)
      BY <1>4, <2>2, <3>1
    <3>5. b.first < Len(b.vals)
      BY <1>1, <3>1, <3>3, <3>4 DEF Live
    <3>6. b \in AnyBlock
      BY <1>4, <3>1, <3>3, <3>4
    <3>7. b.first \in Nat /\ Len(b.vals) \in Nat
      BY <3>6 DEF AnyBlock
    <3>8. b.first <= Len(b.vals)
      BY <3>5, <3>7
    <3> QED
      BY <1>1, <2>2, <3>1, <3>2, <3>8 DEF Live
  <2> QED
    BY <2>1, <2>2
<1> HIDE DEF q
<1>6. /\ s \in Seq(AnyBlock) /\ Len(s) = n /\ n \in Nat /\ n \in 1..n /\ b = s[n]
  <2>1. s \in Seq(AnyBlock) /\ Len(s) = n /\ \A i \in 1..n : s[i] = BlockAt(q, i)
    BY <1>5, BlocksAre
  <2>2. n \in Nat
    BY <1>5, QueueTypes
  <2>3. BlockAt(q, n) = b
    BY <1>5, BackIs
  <2> QED
    BY <1>5, <2>1, <2>2, <2>3
<1>7. b \in AnyBlock /\ b.vals \in Seq(Values) /\ b.first \in Nat /\ Len(b.vals) \in Nat
  <2>1. b \in AnyBlock
    BY <1>6
  <2> HIDE DEF b
  <2> QED
    BY <2>1 DEF AnyBlock
<1> HIDE DEF b
<1>8. /\ c \in AnyBlock /\ c.first = b.first /\ c.vals = Append(b.vals, v)
      /\ Len(c.vals) = Len(b.vals) + 1
  BY <1>3, <1>7 DEF AnyBlock
<1>9. Unread(c) = Append(Unread(b), v)
  <2> DEFINE f == b.first
             l == Len(b.vals)
             u == Unread(b)
  <2>1. /\ u \in Seq(Values) /\ Len(u) = IF f < l THEN l - f ELSE 0
        /\ \A i \in 1..(l - f) : u[i] = b.vals[f + i]
    BY <1>7, UnreadIs
  <2>2. /\ Unread(c) \in Seq(Values)
        /\ Len(Unread(c)) = IF f < l + 1 THEN (l + 1) - f ELSE 0
        /\ \A i \in 1..((l + 1) - f) : Unread(c)[i] = Append(b.vals, v)[f + i]
    <3> HIDE DEF c
    <3> QED
      BY <1>8, UnreadIs
  <2>3. f \in Nat /\ l \in Nat /\ f <= l
    BY <1>5, <1>7
  <2>4. /\ \A i \in 1..l : Append(b.vals, v)[i] = b.vals[i]
        /\ Append(b.vals, v)[l + 1] = v
    BY <1>3, <1>7, AppendProperties
  <2> HIDE DEF f, l, u, c
  <2>5. Len(u) = l - f /\ Len(Unread(c)) = (l - f) + 1 /\ (l + 1) - f = (l - f) + 1
        /\ l - f \in Nat
    BY <2>1, <2>2, <2>3
  <2>6. /\ Append(u, v) \in Seq(Values) /\ Len(Append(u, v)) = (l - f) + 1
        /\ \A i \in 1..(l - f) : Append(u, v)[i] = u[i]
        /\ Append(u, v)[(l - f) + 1] = v
    BY <1>3, <2>1, <2>5, AppendProperties
  <2>7. ASSUME NEW i \in 1..((l - f) + 1) PROVE Unread(c)[i] = Append(u, v)[i]
    <3>1. Unread(c)[i] = Append(b.vals, v)[f + i]
      BY <2>2, <2>5
    <3>2. CASE i = (l - f) + 1
      <4>1. f + i = l + 1
        BY <2>3, <3>2
      <4> QED
        BY <2>4, <2>6, <3>1, <3>2, <4>1
    <3>3. CASE i # (l - f) + 1
      <4>1. i \in 1..(l - f) /\ f + i \in 1..l
        BY <2>3, <2>5, <3>3
      <4> QED
        BY <2>1, <2>4, <2>6, <3>1, <4>1
    <3> QED
      BY <3>2, <3>3
  <2>8. Unread(c) = Append(u, v)
    BY <2>2, <2>5, <2>6, <2>7, SeqEqual
  <2> QED
    BY <2>8 DEF u
<1> HIDE DEF c
<1>10. /\ QueueShape(base') /\ FullButNewest(base')
       /\ BlocksOf(base') = [s EXCEPT ![n] = c]
  BY <1>2, <1>5, <1>8, SetBackIs DEF b
<1> DEFINE o == SubSeq(s, 1, n - 1)
           t == BlocksOf(base')
<1>11. /\ o \in Seq(AnyBlock) /\ Len(o) = n - 1
       /\ \A i \in 1..(n - 1) : o[i] = s[i]
  <2>1. 1 \in Int /\ n - 1 \in Int /\ \A i \in 1..(n - 1) : s[i] \in AnyBlock
    <3>1. \A i \in 1..(n - 1) : i \in 1..Len(s)
      BY <1>6
    <3> HIDE DEF s
    <3> QED
      BY <1>6, <3>1
  <2>2. /\ o \in Seq(AnyBlock)
        /\ Len(o) = IF 1 <= n - 1 THEN (n - 1) - 1 + 1 ELSE 0
        /\ \A i \in 1..((n - 1) - 1 + 1) : o[i] = s[1 + i - 1]
    <3> HIDE DEF s, n
    <3> QED
      BY <2>1, SubSeqProperties
  <2>3. (n - 1) - 1 + 1 = n - 1 /\ n >= 1
    BY <1>6
  <2>4. ASSUME NEW i \in 1..(n - 1) PROVE o[i] = s[i]
    <3>1. 1 + i - 1 = i
      BY <1>6
    <3> QED
      BY <2>2, <2>3, <3>1
  <2>5. Len(o) = n - 1
    <3> HIDE DEF o, n
    <3> QED
      BY <1>6, <2>2, <2>3
  <2> QED
    BY <2>2, <2>4, <2>5
<1>12. /\ t \in Seq(AnyBlock) /\ Len(t) = n
       /\ \A i \in 1..n : t[i] = IF i = n THEN c ELSE s[i]
  <2> HIDE DEF s, n
  <2> QED
    BY <1>6, <1>8, <1>10, ExceptSeq
<1> HIDE DEF s, n, o, t
<1>13. s = Append(o, b) /\ t = Append(o, c)
  <2>1. ASSUME NEW x \in AnyBlock, NEW y \in Seq(AnyBlock), Len(y) = n, y[n] = x,
               \A i \in 1..(n - 1) : y[i] = s[i]
        PROVE  y = Append(o, x)
    <3>1. /\ Append(o, x) \in Seq(AnyBlock) /\ Len(Append(o, x)) = (n - 1) + 1
          /\ \A i \in 1..(n - 1) : Append(o, x)[i] = o[i]
          /\ Append(o, x)[(n - 1) + 1] = x
      BY <1>11, AppendProperties
    <3>2. (n - 1) + 1 = n
      BY <1>6
    <3>3. ASSUME NEW i \in 1..n PROVE y[i] = Append(o, x)[i]
      <4>1. CASE i = n
        BY <2>1, <3>1, <3>2, <4>1
      <4>2. CASE i # n
        <5>1. i \in 1..(n - 1)
          BY <1>6, <4>2
        <5> QED
          BY <1>11, <2>1, <3>1, <5>1
      <4> QED
        BY <4>1, <4>2
    <3> QED
      BY <2>1, <3>1, <3>2, <3>3, SeqEqual
  <2>2. \A i \in 1..(n - 1) : i \in 1..n /\ i # n
    BY <1>6
  <2>3. \A i \in 1..(n - 1) : t[i] = s[i]
    BY <1>12, <2>2
  <2>4. t[n] = c
    BY <1>6, <1>12
  <2> QED
    BY <1>6, <1>7, <1>8, <1>12, <2>1, <2>3, <2>4
<1>14. Contents' = Append(Contents, v) /\ Len(Contents') = Len(Contents) + 1
  <2>1. Contents = Held(o) \o Unread(b)
    BY <1>5, <1>7, <1>11, <1>13, HeldAppend DEF s
  <2>2. Contents' = Held(o) \o Append(Unread(b), v)
    BY <1>8, <1>9, <1>11, <1>13, HeldAppend, ContentsAre DEF t
  <2>3. Held(o) \in Seq(Values) /\ Unread(b) \in Seq(Values)
    BY <1>7, <1>11, HeldType, UnreadIs
  <2>4. \A h, u \in Seq(Values) : \A x \in Values :
           /\ h \o Append(u, x) = Append(h \o u, x)
           /\ Len(Append(h \o u, x)) = Len(h \o u) + 1
    <3>1. ASSUME NEW h \in Seq(Values), NEW u \in Seq(Values), NEW x \in Values
          PROVE  /\ h \o Append(u, x) = Append(h \o u, x)
                 /\ Len(Append(h \o u, x)) = Len(h \o u) + 1
      OBVIOUS
    <3> QED
      BY <3>1
  <2> QED
    BY <1>3, <2>1, <2>2, <2>3, <2>4
<1>15. Live(t)
  <2>1. ASSUME NEW i \in 1..Len(t) PROVE t[i].first < Len(t[i].vals)
    <3>1. CASE i = n
      <4>1. c.first < Len(c.vals)
        BY <1>5, <1>7, <1>8
      <4> QED
        BY <1>12, <3>1, <4>1
    <3>2. CASE i # n
      <4>1. i \in 1..Len(s) /\ i < Len(s) /\ i \in 1..n
        BY <1>6, <1>12, <3>2
      <4> QED
        BY <1>5, <1>12, <3>2, <4>1 DEF s
    <3> QED
      BY <3>1, <3>2
  <2> QED
    BY <2>1 DEF Live
<1>16. Live(BlocksOf(base')) /\ size' = Len(Contents')
  BY <1>1, <1>2, <1>14, <1>15 DEF t
<1> QED
  BY <1>2, <1>3, <1>10, <1>14, <1>16 DEF LayerInv

(* top and pop take the value pushed longest ago.                          *)
LEMMA LayerTake ==
    ASSUME LayerInv, Take
    PROVE  LayerInv' /\ Contents # << >> /\ out' = <<Head(Contents)>> /\ Contents' = Tail(Contents)
<1> DEFINE b == FrontBlock(base)
           c == [b EXCEPT !.first = @ + 1]
           q == SetFront(base, c)
           v == b.vals[b.first + 1]
           s == BlocksOf(base)
           t == BlocksOf(q)
           n == base.size
<1>1. /\ QueueShape(base) /\ FullButNewest(base) /\ Live(s)
      /\ size = Len(Contents) /\ pushed \in 0..MaxPushes
  BY DEF LayerInv
<1>2. /\ size # 0 /\ out' = <<v>> /\ size' = size - 1 /\ pushed' = pushed
      /\ base' = IF b.first + 1 = Len(b.vals) THEN PopBlock(q) ELSE q
  BY DEF Take
<1>3. /\ s \in Seq(AnyBlock) /\ Len(s) = n /\ n \in Nat
      /\ \A i \in 1..n : s[i] = BlockAt(base, i)
  BY <1>1, BlocksAre, QueueTypes
<1>4. n # 0
  <2>1. ASSUME n = 0 PROVE FALSE
    <3>1. s = << >>
      BY <2>1 DEF BlocksOf
    <3>2. Held(s) = FlattenSeq(<< >>)
      BY <3>1 DEF Held
    <3>3. Contents = << >>
      BY <3>2, ContentsAre, FlattenEmpty
    <3> QED
      BY <1>1, <1>2, <3>3
  <2> QED
    BY <2>1
<1>5. 1 \in 1..n /\ s[1] = b /\ b \in AnyBlock
  <2>1. 1 \in 1..n
    BY <1>3, <1>4
  <2>2. BlockAt(base, 1) = b
    BY <1>1, <1>4, FrontIs
  <2> HIDE DEF b, s, n
  <2> QED
    BY <1>3, <2>1, <2>2
<1>6. b.first < Len(b.vals)
  <2> HIDE DEF b, s, n
  <2> QED
    BY <1>1, <1>3, <1>5 DEF Live
<1> HIDE DEF b
<1>7. b.vals \in Seq(Values) /\ b.first \in Nat /\ Len(b.vals) \in Nat
  BY <1>5 DEF AnyBlock
<1>8. c \in AnyBlock /\ c.first = b.first + 1 /\ c.vals = b.vals
  BY <1>5, <1>7 DEF AnyBlock
<1>9. v \in Values
  <2>1. b.first + 1 \in 1..Len(b.vals)
    BY <1>6, <1>7
  <2> QED
    BY <1>7, <2>1
<1>10. Unread(b) = <<v>> \o Unread(c)
  <2> DEFINE f == b.first
             l == Len(b.vals)
             u == Unread(c)
  <2>1. /\ Unread(b) \in Seq(Values)
        /\ Len(Unread(b)) = IF f < l THEN l - f ELSE 0
        /\ \A i \in 1..(l - f) : Unread(b)[i] = b.vals[f + i]
    BY <1>5, UnreadIs
  <2>2. /\ u \in Seq(Values)
        /\ Len(u) = IF f + 1 < l THEN l - (f + 1) ELSE 0
        /\ \A i \in 1..(l - (f + 1)) : u[i] = b.vals[(f + 1) + i]
    <3> HIDE DEF c
    <3> QED
      BY <1>8, UnreadIs
  <2>3. f \in Nat /\ l \in Nat /\ f < l /\ v = b.vals[f + 1]
    BY <1>6, <1>7
  <2> HIDE DEF f, l, u, c, v
  <2>4. Len(Unread(b)) = l - f /\ Len(u) = (l - f) - 1 /\ l - (f + 1) = (l - f) - 1
        /\ l - f \in Nat
    BY <2>1, <2>2, <2>3
  <2>5. \A x \in Seq(Values) : \A y \in Values :
           /\ <<y>> \o x \in Seq(Values) /\ Len(<<y>> \o x) = Len(x) + 1
           /\ (<<y>> \o x)[1] = y
           /\ \A i \in 1..Len(x) : (<<y>> \o x)[i + 1] = x[i]
    OBVIOUS
  <2>6. /\ <<v>> \o u \in Seq(Values) /\ Len(<<v>> \o u) = l - f
        /\ (<<v>> \o u)[1] = v
        /\ \A i \in 1..((l - f) - 1) : (<<v>> \o u)[i + 1] = u[i]
    <3>1. Len(u) + 1 = l - f
      BY <2>4
    <3> QED
      BY <1>9, <2>2, <2>4, <2>5, <3>1
  <2>7. ASSUME NEW i \in 1..(l - f) PROVE Unread(b)[i] = (<<v>> \o u)[i]
    <3>1. CASE i = 1
      BY <2>1, <2>3, <2>6, <3>1
    <3>2. CASE i # 1
      <4>1. i - 1 \in 1..((l - f) - 1) /\ (i - 1) + 1 = i /\ (f + 1) + (i - 1) = f + i
        BY <2>3, <2>4, <3>2
      <4>2. (<<v>> \o u)[i] = u[i - 1]
        BY <2>6, <4>1
      <4>3. u[i - 1] = b.vals[f + i]
        BY <2>2, <2>4, <4>1
      <4> QED
        BY <2>1, <4>2, <4>3
    <3> QED
      BY <3>1, <3>2
  <2>8. Unread(b) = <<v>> \o u
    BY <2>1, <2>4, <2>6, <2>7, SeqEqual
  <2> QED
    BY <2>8 DEF u
<1> HIDE DEF c, v
<1>11. /\ QueueShape(q) /\ q.size = n /\ FullButNewest(q)
       /\ t = [s EXCEPT ![1] = c]
  <2>1. Full(FrontBlock(base)) => Full(c)
    BY <1>8 DEF Full, b
  <2> QED
    BY <1>1, <1>4, <1>8, <2>1, SetFrontIs
<1>12. /\ QueueShape(PopBlock(q)) /\ FullButNewest(PopBlock(q))
       /\ BlocksOf(PopBlock(q)) = Tail(t)
  <2> HIDE DEF q
  <2> QED
    BY <1>4, <1>11, PopIs
<1> HIDE DEF q, s, n
<1>13. /\ t \in Seq(AnyBlock) /\ Len(t) = n
       /\ t[1] = c
       /\ \A i \in 1..n : i # 1 => t[i] = s[i]
  BY <1>3, <1>5, <1>8, <1>11, ExceptSeq
<1> HIDE DEF t
<1>14. s # << >> /\ t # << >>
  <2>1. Len(<< >>) = 0
    OBVIOUS
  <2> QED
    BY <1>3, <1>4, <1>13, <2>1
<1>15. /\ Tail(s) \in Seq(AnyBlock) /\ Len(Tail(s)) = n - 1
       /\ \A i \in 1..(n - 1) : Tail(s)[i] = s[i + 1]
  BY <1>3, <1>14, HeadTailProperties
<1>16. /\ Tail(t) \in Seq(AnyBlock) /\ Len(Tail(t)) = n - 1
       /\ \A i \in 1..(n - 1) : Tail(t)[i] = t[i + 1]
  BY <1>13, <1>14, HeadTailProperties
<1>17. Tail(t) = Tail(s)
  <2>1. ASSUME NEW i \in 1..(n - 1) PROVE Tail(t)[i] = Tail(s)[i]
    <3>1. i + 1 \in 1..n /\ i + 1 # 1
      BY <1>3
    <3> QED
      BY <1>13, <1>15, <1>16, <3>1
  <2> QED
    BY <1>15, <1>16, <2>1, SeqEqual
<1>18. Contents = <<v>> \o (Unread(c) \o Held(Tail(s)))
  <2>1. Contents = (<<v>> \o Unread(c)) \o Held(Tail(s))
    BY <1>3, <1>5, <1>10, <1>14, HeldTail, ContentsAre DEF s
  <2>2. \A x, y, z \in Seq(Values) : (x \o y) \o z = x \o (y \o z)
    BY ConcatTwice
  <2>3. <<v>> \in Seq(Values) /\ Unread(c) \in Seq(Values) /\ Held(Tail(s)) \in Seq(Values)
    <3>1. <<v>> \in Seq(Values)
      BY <1>9
    <3>2. Held(Tail(s)) \in Seq(Values)
      BY <1>15, HeldType
    <3>3. Unread(c) \in Seq(Values)
      BY <1>8, UnreadIs
    <3> QED
      BY <3>1, <3>2, <3>3
  <2> QED
    BY <2>1, <2>2, <2>3
<1>19. /\ QueueShape(base') /\ FullButNewest(base')
       /\ Live(BlocksOf(base'))
       /\ Contents' = Unread(c) \o Held(Tail(s))
  <2>1. CASE b.first + 1 = Len(b.vals)
    <3>1. base' = PopBlock(q)
      BY <1>2, <2>1
    <3>2. BlocksOf(base') = Tail(s)
      BY <1>12, <1>17, <3>1
    <3>3. Unread(c) = << >>
      <4>1. Unread(c) \in Seq(Values) /\ Len(Unread(c)) = 0
        <5>1. ~ (c.first < Len(c.vals))
          BY <1>7, <1>8, <2>1
        <5> QED
          BY <1>8, <5>1, UnreadIs
      <4> QED
        BY <4>1
    <3>4. Held(Tail(s)) \in Seq(Values)
      BY <1>15, HeldType
    <3>5. Contents' = Held(Tail(s))
      BY <3>2, ContentsAre
    <3>6. << >> \o Held(Tail(s)) = Held(Tail(s))
      BY <3>4
    <3>7. Live(Tail(s))
      <4>1. ASSUME NEW i \in 1..Len(Tail(s))
            PROVE  Tail(s)[i].first < Len(Tail(s)[i].vals)
        <5>1. i + 1 \in 1..Len(s) /\ i \in 1..(n - 1)
          BY <1>3, <1>15
        <5> QED
          BY <1>1, <1>15, <5>1 DEF Live
      <4> QED
        BY <4>1 DEF Live
    <3> QED
      BY <1>12, <3>1, <3>2, <3>3, <3>5, <3>6, <3>7
  <2>2. CASE b.first + 1 # Len(b.vals)
    <3>1. base' = q
      BY <1>2, <2>2
    <3>2. BlocksOf(base') = t
      BY <3>1 DEF t
    <3>3. Contents' = Unread(c) \o Held(Tail(s))
      BY <1>13, <1>14, <1>17, <3>2, HeldTail, ContentsAre
    <3>4. Live(t)
      <4>1. c.first < Len(c.vals)
        BY <1>6, <1>7, <1>8, <2>2
      <4>2. ASSUME NEW i \in 1..Len(t) PROVE t[i].first < Len(t[i].vals)
        <5>1. i \in 1..n /\ i \in 1..Len(s)
          BY <1>3, <1>13
        <5>2. CASE i = 1
          BY <1>13, <4>1, <5>2
        <5>3. CASE i # 1
          BY <1>1, <1>13, <5>1, <5>3 DEF Live
        <5> QED
          BY <5>2, <5>3
      <4> QED
        BY <4>2 DEF Live
    <3> QED
      BY <1>11, <3>1, <3>2, <3>3, <3>4
  <2> QED
    BY <2>1, <2>2
<1>20. /\ Contents # << >> /\ Head(Contents) = v /\ Contents' = Tail(Contents)
       /\ Len(Contents') = Len(Contents) - 1
  <2>1. \A x \in Seq(Values) : \A y \in Values :
           /\ <<y>> \o x # << >> /\ Head(<<y>> \o x) = y /\ Tail(<<y>> \o x) = x
           /\ Len(x) = Len(<<y>> \o x) - 1
    <3>1. ASSUME NEW x \in Seq(Values), NEW y \in Values
          PROVE  /\ <<y>> \o x # << >> /\ Head(<<y>> \o x) = y /\ Tail(<<y>> \o x) = x
                 /\ Len(x) = Len(<<y>> \o x) - 1
      <4> DEFINE z == <<y>> \o x
      <4>1. /\ z \in Seq(Values) /\ Len(z) = Len(x) + 1 /\ z[1] = y /\ Len(x) \in Nat
            /\ \A i \in 1..Len(x) : z[i + 1] = x[i]
        OBVIOUS
      <4> HIDE DEF z
      <4>2. z # << >>
        <5>1. Len(<< >>) = 0
          OBVIOUS
        <5> QED
          BY <4>1, <5>1
      <4>3. /\ Head(z) = y /\ Tail(z) \in Seq(Values) /\ Len(Tail(z)) = Len(x)
            /\ \A i \in 1..Len(x) : Tail(z)[i] = z[i + 1]
        <5>1. /\ Tail(z) \in Seq(Values) /\ Len(Tail(z)) = Len(z) - 1
              /\ \A i \in 1..Len(Tail(z)) : Tail(z)[i] = z[i + 1]
          BY <4>1, <4>2, HeadTailProperties
        <5>2. Head(z) = z[1]
          BY <4>1, <4>2
        <5> QED
          BY <4>1, <5>1, <5>2
      <4>4. \A i \in 1..Len(x) : Tail(z)[i] = x[i]
        BY <4>1, <4>3
      <4>5. Tail(z) = x
        BY <4>3, <4>4, SeqEqual
      <4> QED
        BY <4>1, <4>2, <4>3, <4>5 DEF z
    <3> QED
      BY <3>1
  <2>2. Unread(c) \o Held(Tail(s)) \in Seq(Values)
    <3>1. Unread(c) \in Seq(Values) /\ Held(Tail(s)) \in Seq(Values)
      BY <1>8, <1>15, HeldType, UnreadIs
    <3> QED
      BY <3>1
  <2> QED
    BY <1>9, <1>18, <1>19, <2>1, <2>2
<1>21. size' = Len(Contents')
  BY <1>1, <1>2, <1>20
<1> QED
  BY <1>1, <1>2, <1>19, <1>20, <1>21 DEF LayerInv
-----------------------------------------------------------------------------
LEMMA LayerStep == LayerInv /\ [Next]_vars => LayerInv'
<1> SUFFICES ASSUME LayerInv, [Next]_vars PROVE LayerInv'
  OBVIOUS
<1>1. CASE Push
  BY <1>1, LayerPush
<1>2. CASE Take
  BY <1>2, LayerTake
<1>3. CASE UNCHANGED vars
  <2>1. base' = base /\ size' = size /\ pushed' = pushed
    BY <1>3 DEF vars
  <2>2. Contents' = Contents
    BY <2>1, ContentsAre
  <2> QED
    BY <2>1, <2>2 DEF LayerInv
<1> QED
  BY <1>1, <1>2, <1>3 DEF Next, Exhausted

(* A layer of the open list, however its caches and blocks are sized, is a *)
(* queue: each value leaves once, in the order of the pushes, although the *)
(* blocks pass through two caches and two files that swap                  *)
(* (complex_queue.h push and pop, external_queue.h).                       *)
THEOREM LayerIsFifo == Spec => RefinesFifo
<1>1. Init => LayerInv
  BY LayerInit
<1>2. Init => Layer!Init
  BY LayerInit DEF Init, Layer!Init
<1>3. LayerInv /\ [Next]_vars => [Layer!Next]_Layer!vars
  <2> SUFFICES ASSUME LayerInv, [Next]_vars PROVE [Layer!Next]_Layer!vars
    OBVIOUS
  <2>1. CASE Push
    <3>1. Contents' = Append(Contents, pushed + 1) /\ out' = out
      BY <2>1, LayerPush DEF Push
    <3>2. pushed + 1 \in Values
      BY <2>1, QueueAssumption DEF LayerInv, Push, Values
    <3> QED
      BY <3>1, <3>2 DEF Layer!Next, Layer!Put
  <2>2. CASE Take
    BY <2>2, LayerTake DEF Layer!Next, Layer!Take
  <2>3. CASE UNCHANGED vars
    <3>1. base' = base /\ out' = out
      BY <2>3 DEF vars
    <3>2. Contents' = Contents
      BY <3>1, ContentsAre
    <3> QED
      BY <3>1, <3>2 DEF Layer!vars
  <2> QED
    BY <2>1, <2>2, <2>3 DEF Next, Exhausted
<1> QED
  BY <1>1, <1>2, <1>3, LayerStep, PTL DEF Spec, RefinesFifo, Layer!Spec

(* A value is only ever written to the newest block: back() returns slot 0 *)
(* of the front cache whenever the tail cache is empty, which may be stale,*)
(* but then that block is full and a new one is pushed                     *)
(* (external_queue.h:57, complex_queue.h push).                            *)
THEOREM LayerBack == Spec => []BackIsNewestOrFull
<1>1. Init => LayerInv
  BY LayerInit
<1>2. LayerInv => BackIsNewestOrFull
  <2> SUFFICES ASSUME LayerInv, base.size # 0, Len(BackBlock(base).vals) < ValsPerBlock
               PROVE  BackBlock(base) = BlocksOf(base)[base.size]
    BY DEF BackIsNewestOrFull
  <2>1. QueueShape(base) /\ FullButNewest(base)
    BY DEF LayerInv
  <2>2. ~ Full(BackBlock(base))
    BY QueueAssumption DEF Full
  <2>3. BlockAt(base, base.size) = BackBlock(base)
    BY <2>1, <2>2, BackIs
  <2>4. base.size \in 1..base.size
    BY <2>1, QueueTypes
  <2> QED
    BY <2>1, <2>3, <2>4, BlocksAre
<1> QED
  BY <1>1, <1>2, LayerStep, PTL DEF Spec
=============================================================================
