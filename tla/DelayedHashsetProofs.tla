------------------------ MODULE DelayedHashsetProofs ------------------------
(***************************************************************************)
(* The delayed hash set, for every set of values, every size of a block    *)
(* and any number of requests: no request is lost, none of the values of   *)
(* one merge is new twice unless another has its hash, and every chain on  *)
(* disk is what its entry in the index says.                               *)
(***************************************************************************)
EXTENDS DelayedHashset, BlockChainProofs

Ask == [val : Values, id : Nat]

Vals(R) == {r.val : r \in R}
-----------------------------------------------------------------------------
(* The requests of a group. *)

(* Different requests for one value have another value of that hash beside.*)
HasTwin(v) == \E w \in Values \ {v} : Hash(w) = Hash(v)

Twins(R) == \A r, q \in R : r # q /\ r.val = q.val => HasTwin(r.val)

SortedAsks(s) == \A i, j \in DOMAIN s : i < j => Hash(s[i].val) <= Hash(s[j].val)

(* What unique keeps of a sorted sequence of different requests: each value*)
(* of it, and none twice in a row.                                         *)
IsThinned(s, i, k) ==
    /\ k \in Seq(Ask) /\ NoRepeats(k) /\ SortedAsks(k)
    /\ Range(k) \subseteq {s[j] : j \in 1..i}
    /\ \A j \in 1..i : s[j].val \in Vals(Range(k))
    /\ \A j \in 1..(Len(k) - 1) : k[j].val # k[j + 1].val
    /\ i > 0 => k # << >> /\ k[Len(k)].val = s[i].val

LEMMA ThinnedGrows ==
    ASSUME NEW s \in Seq(Ask), NoRepeats(s), SortedAsks(s),
           NEW i \in 1..Len(s), NEW k, IsThinned(s, i - 1, k)
    PROVE  IsThinned(s, i, IF i > 1 /\ s[i].val = s[i - 1].val THEN k ELSE Append(k, s[i]))
<1>1. /\ i \in Nat /\ i > 0 /\ s[i] \in Ask /\ DOMAIN s = 1..Len(s) /\ i \in DOMAIN s
      /\ \A j \in 1..(i - 1) : j \in 1..i /\ j \in DOMAIN s /\ j < i /\ j # i
      /\ \A j \in 1..i : j = i \/ j \in 1..(i - 1)
      /\ i \in 1..i
  OBVIOUS
<1>2. /\ k \in Seq(Ask) /\ NoRepeats(k) /\ SortedAsks(k)
      /\ Range(k) \subseteq {s[j] : j \in 1..(i - 1)}
      /\ \A j \in 1..(i - 1) : s[j].val \in Vals(Range(k))
      /\ \A j \in 1..(Len(k) - 1) : k[j].val # k[j + 1].val
      /\ i - 1 > 0 => k # << >> /\ k[Len(k)].val = s[i - 1].val
  BY DEF IsThinned
<1>3. CASE i > 1 /\ s[i].val = s[i - 1].val
  <2>1. i - 1 > 0 /\ i - 1 \in 1..(i - 1)
    BY <1>1, <1>3
  <2>2. \A j \in 1..i : s[j].val \in Vals(Range(k))
    BY <1>1, <1>2, <1>3, <2>1
  <2>3. Range(k) \subseteq {s[j] : j \in 1..i}
    BY <1>1, <1>2
  <2>4. k # << >> /\ k[Len(k)].val = s[i].val
    BY <1>2, <1>3, <2>1
  <2> QED
    BY <1>2, <1>3, <2>2, <2>3, <2>4 DEF IsThinned
<1>4. CASE ~ (i > 1 /\ s[i].val = s[i - 1].val)
  <2> DEFINE m == Append(k, s[i])
             n == Len(k)
  <2>1. /\ m \in Seq(Ask) /\ m # << >> /\ Len(m) = n + 1 /\ n \in Nat
        /\ \A j \in 1..n : m[j] = k[j]
        /\ m[n + 1] = s[i] /\ DOMAIN m = 1..(n + 1) /\ DOMAIN k = 1..n
    <3>1. k \in Seq(Ask) /\ s[i] \in Ask
      BY <1>1, <1>2
    <3>2. n \in Nat /\ DOMAIN k = 1..n
      BY <3>1, LenProperties
    <3>3. /\ m \in Seq(Ask) /\ m # << >> /\ Len(m) = n + 1
          /\ \A j \in 1..n : m[j] = k[j]
          /\ m[n + 1] = s[i]
      BY <3>1, AppendProperties
    <3>4. DOMAIN m = 1..(n + 1)
      BY <3>3, LenProperties
    <3> QED
      BY <3>2, <3>3, <3>4
  <2>2. Range(m) = Range(k) \cup {s[i]}
    BY <1>1, <1>2, RangeOfAppend
  <2> HIDE DEF m, n
  <2>3. \A j \in 1..n : k[j] \in Range(k)
    BY <2>1 DEF Range
  <2>4. \A j \in 1..n : \E a \in 1..(i - 1) : k[j] = s[a]
    BY <1>2, <2>3
  <2>5. \A j \in 1..(n + 1) : j \in 1..n \/ j = n + 1
    BY <2>1
  <2>6. \A j \in 1..n : k[j] # s[i] /\ Hash(k[j].val) <= Hash(s[i].val)
    <3> SUFFICES ASSUME NEW j \in 1..n
                 PROVE  k[j] # s[i] /\ Hash(k[j].val) <= Hash(s[i].val)
      OBVIOUS
    <3>1. PICK a \in 1..(i - 1) : k[j] = s[a]
      BY <2>4
    <3> QED
      BY <3>1, <1>1 DEF NoRepeats, SortedAsks
  <2>7. NoRepeats(m)
    BY <1>2, <2>1, <2>5, <2>6 DEF NoRepeats
  <2>8. SortedAsks(m)
    <3> SUFFICES ASSUME NEW a \in 1..(n + 1), NEW b \in 1..(n + 1), a < b
                 PROVE  Hash(m[a].val) <= Hash(m[b].val)
      BY <2>1 DEF SortedAsks
    <3>1. a \in 1..n
      BY <2>1
    <3>2. CASE b = n + 1
      BY <2>1, <2>6, <3>1, <3>2
    <3>3. CASE b \in 1..n
      BY <1>2, <2>1, <3>1, <3>3 DEF SortedAsks
    <3> QED
      BY <2>5, <3>2, <3>3
  <2>9. Range(m) \subseteq {s[j] : j \in 1..i}
    BY <1>1, <1>2, <2>2
  <2>10. \A j \in 1..i : s[j].val \in Vals(Range(m))
    <3>1. Vals(Range(k)) \subseteq Vals(Range(m)) /\ s[i].val \in Vals(Range(m))
      BY <2>2 DEF Vals
    <3> QED
      BY <1>1, <1>2, <3>1
  <2>11. \A j \in 1..(Len(m) - 1) : m[j].val # m[j + 1].val
    <3> SUFFICES ASSUME NEW j \in 1..n PROVE m[j].val # m[j + 1].val
      BY <2>1
    <3>1. CASE j = n
      <4>1. n > 0
        BY <3>1, <2>1
      <4>2. i > 1
        <5> SUFFICES ASSUME i = 1 PROVE FALSE
          BY <1>1
        <5>1. Range(k) = {}
          BY <1>2
        <5> QED
          BY <2>3, <5>1
      <4>3. k[n].val = s[i - 1].val
        BY <1>2, <4>2, <1>1 DEF n
      <4> QED
        BY <1>4, <2>1, <3>1, <4>2, <4>3
    <3>2. CASE j # n
      <4>1. j \in 1..(n - 1) /\ j + 1 \in 1..n
        BY <2>1, <3>2
      <4> QED
        BY <1>2, <2>1, <4>1 DEF n
    <3> QED
      BY <3>1, <3>2
  <2>12. m # << >> /\ m[Len(m)].val = s[i].val
    BY <2>1
  <2>13. IsThinned(s, i, m)
    BY <2>1, <2>7, <2>8, <2>9, <2>10, <2>11, <2>12 DEF IsThinned
  <2> QED
    BY <1>4, <2>13 DEF m
<1> QED
  BY <1>3, <1>4

LEMMA HashIsNat == \A v \in Values : Hash(v) \in Nat
  BY DelayedAssumption DEF Hash

LEMMA UniqueThins ==
    ASSUME NEW s \in Seq(Ask), NoRepeats(s), SortedAsks(s)
    PROVE  IsThinned(s, Len(s), Unique(s))
<1> DEFINE N == Len(s)
           Keep(i, k) == IF i > 1 /\ s[i].val = s[i - 1].val THEN k ELSE Append(k, s[i])
           step == [i \in 1..N |-> [k \in Seq(Ask) |-> Keep(i, k)]]
<1>1. N \in Nat /\ << >> \in Seq(Ask) /\ \A i \in 1..N : s[i] \in Ask
  OBVIOUS
<1>2. StepsIn(N, Seq(Ask), step)
  <2> SUFFICES ASSUME NEW i \in 1..N, NEW k \in Seq(Ask) PROVE step[i][k] \in Seq(Ask)
    BY DEF StepsIn
  <2>1. step[i][k] = Keep(i, k)
    OBVIOUS
  <2>2. Append(k, s[i]) \in Seq(Ask)
    BY <1>1
  <2> QED
    BY <2>1, <2>2
<1> HIDE DEF N
<1>3. PICK g : GoesOn(g, N, Seq(Ask), << >>, step)
  <2> HIDE DEF step
  <2> QED
    BY <1>1, <1>2, Recursion
<1>4. ASSUME NEW i \in 1..N PROVE g[i] = Keep(i, g[i - 1])
  <2>1. i - 1 \in 0..N
    BY <1>1
  <2>2. g[i - 1] \in Seq(Ask) /\ g[i] = step[i][g[i - 1]]
    BY <1>3, <2>1 DEF GoesOn
  <2> HIDE DEF Keep
  <2> QED
    BY <2>2
<1> HIDE DEF step
<1> DEFINE kept[i \in 0..N] == IF i = 0 THEN << >>
                               ELSE IF i > 1 /\ s[i].val = s[i - 1].val THEN kept[i - 1]
                               ELSE Append(kept[i - 1], s[i])
<1>5. g = [i \in 0..N |-> IF i = 0 THEN << >>
                          ELSE IF i > 1 /\ s[i].val = s[i - 1].val THEN g[i - 1]
                          ELSE Append(g[i - 1], s[i])]
  <2>1. \A i \in 0..N : i # 0 => i \in 1..N
    BY <1>1
  <2>2. g = [i \in 0..N |-> g[i]] /\ g[0] = << >>
    BY <1>3 DEF GoesOn
  <2>3. ASSUME NEW i \in 0..N
        PROVE  g[i] = IF i = 0 THEN << >>
                      ELSE IF i > 1 /\ s[i].val = s[i - 1].val THEN g[i - 1]
                      ELSE Append(g[i - 1], s[i])
    BY <1>4, <2>1, <2>2
  <2> QED
    BY <2>2, <2>3
<1>6. kept = [i \in 0..N |-> IF i = 0 THEN << >>
                             ELSE IF i > 1 /\ s[i].val = s[i - 1].val THEN kept[i - 1]
                             ELSE Append(kept[i - 1], s[i])]
  BY <1>5
<1>7. Unique(s) = kept[N]
  BY DEF Unique, N
<1> HIDE DEF kept
<1> DEFINE T == {i \in 0..N : IsThinned(s, i, kept[i])}
<1>8. \A i \in 0..N : i \in T
  <2>1. 0 \in T
    <3>1. kept[0] = << >> /\ 0 \in 0..N
      BY <1>1, <1>6
    <3>2. Range(<< >>) = {}
      BY DEF Range
    <3>3. IsThinned(s, 0, << >>)
      BY <3>2 DEF IsThinned, NoRepeats, SortedAsks
    <3> QED
      BY <3>1, <3>3
  <2>2. ASSUME NEW i \in 1..N, i - 1 \in T PROVE i \in T
    <3>1. i \in 0..N /\ i # 0
      BY <1>1
    <3>2. kept[i] = IF i > 1 /\ s[i].val = s[i - 1].val THEN kept[i - 1]
                    ELSE Append(kept[i - 1], s[i])
      BY <1>6, <3>1
    <3>3. IsThinned(s, i - 1, kept[i - 1]) /\ i \in 1..Len(s)
      BY <2>2 DEF N
    <3>4. IsThinned(s, i, kept[i])
      BY <3>2, <3>3, ThinnedGrows
    <3> QED
      BY <3>1, <3>4
  <2> HIDE DEF T
  <2> QED
    BY <1>1, <2>1, <2>2, CountUp
<1>9. N \in 0..N
  BY <1>1
<1> QED
  BY <1>7, <1>8, <1>9 DEF N

(* A value that is left twice has another one of its hash between: the one *)
(* that follows it in the order by hash.                                   *)
LEMMA ThinnedHasTwins ==
    ASSUME NEW s, NEW i, NEW k, IsThinned(s, i, k)
    PROVE  Twins(Range(k))
<1>1. /\ k \in Seq(Ask) /\ SortedAsks(k) /\ DOMAIN k = 1..Len(k) /\ Len(k) \in Nat
      /\ \A j \in 1..(Len(k) - 1) : k[j].val # k[j + 1].val
  BY LenProperties DEF IsThinned
<1>2. \A a \in 1..Len(k) : k[a].val \in Values /\ Hash(k[a].val) \in Nat
  <2> SUFFICES ASSUME NEW a \in 1..Len(k)
               PROVE  k[a].val \in Values /\ Hash(k[a].val) \in Nat
    OBVIOUS
  <2>1. k[a] \in Ask
    BY <1>1, ElementOfSeq
  <2>2. k[a].val \in Values
    BY <2>1 DEF Ask
  <2> QED
    BY <2>2, HashIsNat
<1>3. ASSUME NEW a \in 1..Len(k), NEW b \in 1..Len(k), a < b, k[a].val = k[b].val
      PROVE  HasTwin(k[a].val)
  <2>1. a \in 1..(Len(k) - 1) /\ a + 1 \in 1..Len(k) /\ a < a + 1 /\ (a + 1 = b \/ a + 1 < b)
    BY <1>1, <1>3
  <2>2. k[a].val # k[a + 1].val
    BY <1>1, <2>1
  <2>3. a + 1 < b
    BY <1>3, <2>1, <2>2
  <2>4. /\ Hash(k[a].val) <= Hash(k[a + 1].val)
        /\ Hash(k[a + 1].val) <= Hash(k[b].val)
    BY <1>1, <2>1, <2>3 DEF SortedAsks
  <2>5. Hash(k[a + 1].val) = Hash(k[a].val)
    BY <1>2, <1>3, <2>1, <2>4
  <2> QED
    BY <1>2, <2>1, <2>2, <2>5 DEF HasTwin
<1>4. ASSUME NEW r \in Range(k), NEW q \in Range(k), r # q, r.val = q.val
      PROVE  HasTwin(r.val)
  <2>1. PICK a \in 1..Len(k), b \in 1..Len(k) : k[a] = r /\ k[b] = q
    BY <1>1 DEF Range
  <2>2. a < b \/ b < a
    BY <1>1, <1>4, <2>1
  <2> QED
    BY <1>3, <1>4, <2>1, <2>2
<1> QED
  BY <1>4 DEF Twins

(* Where the requests s and the chain all are gone through to after n      *)
(* turns: what is kept of the requests passed and what was in the chain.   *)
Place(all, s) == [i : 1..(Len(all) + 1), j : 1..(Len(s) + 1), kept : Seq(Ask)]

IsSifted(all, s, n, t) ==
    /\ t \in Place(all, s)
    /\ NoRepeats(t.kept)
    /\ Range(t.kept) \subseteq {s[a] : a \in 1..(t.j - 1)}
    /\ \A a \in 1..(t.j - 1) : s[a] \in Range(t.kept) \/ s[a].val \in Range(all)
    /\ t.j > Len(s) \/ t.i + t.j >= n + 2

LEMMA PlaceMoves ==
    ASSUME NEW all, NEW s, NEW t \in Place(all, s),
           NEW j \in 1..(Len(s) + 1), NEW k \in Seq(Ask)
    PROVE  [t EXCEPT !.j = j, !.kept = k] \in Place(all, s)
<1> DEFINE I == 1..(Len(all) + 1)
           J == 1..(Len(s) + 1)
<1>1. j \in J /\ t \in [i : I, j : J, kept : Seq(Ask)]
      /\ Place(all, s) = [i : I, j : J, kept : Seq(Ask)]
  BY DEF Place
<1> HIDE DEF I, J
<1> QED
  BY <1>1

LEMMA PlaceMovesI ==
    ASSUME NEW all, NEW s, NEW t \in Place(all, s), NEW i \in 1..(Len(all) + 1)
    PROVE  /\ [t EXCEPT !.i = i] \in Place(all, s) /\ [t EXCEPT !.i = i].i = i
           /\ [t EXCEPT !.i = i].j = t.j /\ [t EXCEPT !.i = i].kept = t.kept
<1> DEFINE I == 1..(Len(all) + 1)
           J == 1..(Len(s) + 1)
<1>1. i \in I /\ t \in [i : I, j : J, kept : Seq(Ask)]
      /\ Place(all, s) = [i : I, j : J, kept : Seq(Ask)]
  BY DEF Place
<1> HIDE DEF I, J
<1> QED
  BY <1>1

LEMMA PlaceMovesJ ==
    ASSUME NEW all, NEW s, NEW t \in Place(all, s), NEW j \in 1..(Len(s) + 1)
    PROVE  /\ [t EXCEPT !.j = j] \in Place(all, s) /\ [t EXCEPT !.j = j].j = j
           /\ [t EXCEPT !.j = j].i = t.i /\ [t EXCEPT !.j = j].kept = t.kept
<1> DEFINE I == 1..(Len(all) + 1)
           J == 1..(Len(s) + 1)
<1>1. j \in J /\ t \in [i : I, j : J, kept : Seq(Ask)]
      /\ Place(all, s) = [i : I, j : J, kept : Seq(Ask)]
  BY DEF Place
<1> HIDE DEF I, J
<1> QED
  BY <1>1

LEMMA KeepSifts ==
    ASSUME NEW all \in Seq(Values), NEW s \in Seq(Ask), NoRepeats(s), NEW n \in Nat \ {0},
           NEW t, IsSifted(all, s, n - 1, t), t.j <= Len(s)
    PROVE  IsSifted(all, s, n, [t EXCEPT !.j = @ + 1, !.kept = Append(@, s[t.j])])
<1> DEFINE u == [t EXCEPT !.j = @ + 1, !.kept = Append(@, s[t.j])]
           k == t.kept
           j == t.j
<1>1. /\ t \in Place(all, s) /\ j \in 1..Len(s) /\ k \in Seq(Ask) /\ NoRepeats(k)
      /\ Range(k) \subseteq {s[a] : a \in 1..(j - 1)}
      /\ \A a \in 1..(j - 1) : s[a] \in Range(k) \/ s[a].val \in Range(all)
      /\ j > Len(s) \/ t.i + j >= n + 1
      /\ t.i \in 1..(Len(all) + 1) /\ Len(all) \in Nat /\ Len(s) \in Nat /\ DOMAIN s = 1..Len(s)
  BY DEF IsSifted, Place
<1>2. u.i = t.i /\ u.j = j + 1 /\ u.kept = Append(k, s[j])
  BY <1>1 DEF Place
<1>3. s[j] \in Ask
  BY <1>1, ElementOfSeq
<1>4. Append(k, s[j]) \in Seq(Ask) /\ Range(Append(k, s[j])) = Range(k) \cup {s[j]}
  BY <1>1, <1>3, RangeOfAppend, AppendProperties
<1>5. u \in Place(all, s)
  <2>1. j + 1 \in 1..(Len(s) + 1) /\ t.i \in 1..(Len(all) + 1)
    BY <1>1
  <2>2. [t EXCEPT !.j = j + 1, !.kept = Append(k, s[j])] \in Place(all, s)
    BY <1>1, <1>4, <2>1, PlaceMoves
  <2> QED
    BY <2>2
<1>6. NoRepeats(Append(k, s[j]))
  <2> DEFINE m == Append(k, s[j])
             l == Len(k)
  <2>1. /\ l \in Nat /\ DOMAIN k = 1..l /\ m \in Seq(Ask) /\ Len(m) = l + 1
        /\ \A a \in 1..l : m[a] = k[a]
        /\ m[l + 1] = s[j]
    BY <1>1, <1>3, LenProperties, AppendProperties
  <2>2. DOMAIN m = 1..(l + 1)
    BY <2>1, LenProperties
  <2> HIDE DEF m, l
  <2>3. \A a \in 1..l : k[a] # s[j]
    <3> SUFFICES ASSUME NEW a \in 1..l, k[a] = s[j] PROVE FALSE
      OBVIOUS
    <3>1. s[j] \in Range(k)
      BY <2>1 DEF Range
    <3>2. PICK b \in 1..(j - 1) : s[j] = s[b]
      BY <1>1, <3>1
    <3>3. b \in DOMAIN s /\ j \in DOMAIN s /\ b # j
      BY <1>1
    <3> QED
      BY <3>2, <3>3 DEF NoRepeats
  <2>4. \A a \in 1..(l + 1) : a \in 1..l \/ a = l + 1
    BY <2>1
  <2>5. NoRepeats(m)
    BY <1>1, <2>1, <2>2, <2>3, <2>4 DEF NoRepeats
  <2> QED
    BY <2>5 DEF m
<1> HIDE DEF u, k, j
<1>7. \A a \in 1..(j + 1 - 1) : a = j \/ a \in 1..(j - 1)
  BY <1>1
<1>8. \A a \in 1..(j - 1) : a \in 1..(j + 1 - 1)
  BY <1>1
<1>9. j \in 1..(j + 1 - 1)
  BY <1>1
<1>10. Range(u.kept) \subseteq {s[a] : a \in 1..(u.j - 1)}
  BY <1>1, <1>2, <1>4, <1>8, <1>9, SMTT(30)
<1>11. \A a \in 1..(u.j - 1) : s[a] \in Range(u.kept) \/ s[a].val \in Range(all)
  BY <1>1, <1>2, <1>4, <1>7, SMTT(30)
<1>12. u.j > Len(s) \/ u.i + u.j >= n + 2
  BY <1>1, <1>2
<1>13. IsSifted(all, s, n, u)
  BY <1>2, <1>5, <1>6, <1>10, <1>11, <1>12 DEF IsSifted
<1> QED
  BY <1>13 DEF u

(* unique against the chain: what is left are requests of before, and what *)
(* is gone has its value in the chain.                                     *)
LEMMA NotInSifts ==
    ASSUME NEW all \in Seq(Values), NEW s \in Seq(Ask), NoRepeats(s)
    PROVE  /\ NotIn(all, s) \in Seq(Ask) /\ NoRepeats(NotIn(all, s))
           /\ Range(NotIn(all, s)) \subseteq Range(s)
           /\ \A r \in Range(s) : r \in Range(NotIn(all, s)) \/ r.val \in Range(all)
<1> DEFINE N == Len(all) + Len(s)
           Known(v, i) == \E e \in i..Len(all) :
                             all[e] = v /\ \A d \in i..e : Hash(all[d]) = Hash(all[i])
           Keep(t) == [t EXCEPT !.j = @ + 1, !.kept = Append(@, s[t.j])]
           Turn(t) == IF t.j > Len(s) THEN t
                      ELSE IF t.i > Len(all) THEN Keep(t)
                      ELSE IF Hash(all[t.i]) < Hash(s[t.j].val) THEN [t EXCEPT !.i = @ + 1]
                      ELSE IF Known(s[t.j].val, t.i) THEN [t EXCEPT !.j = @ + 1]
                      ELSE Keep(t)
           start == [i |-> 1, j |-> 1, kept |-> << >>]
           step == [n \in 1..N |-> [t \in Place(all, s) |-> Turn(t)]]
<1>1. /\ Len(all) \in Nat /\ Len(s) \in Nat /\ N \in Nat /\ start \in Place(all, s)
      /\ DOMAIN s = 1..Len(s) /\ DOMAIN all = 1..Len(all)
  BY LenProperties DEF Place
<1>2. ASSUME NEW t \in Place(all, s), t.j <= Len(s) PROVE Keep(t) \in Place(all, s)
  <2>1. t.j \in 1..Len(s) /\ t.kept \in Seq(Ask)
    BY <1>1, <1>2 DEF Place
  <2>2. Append(t.kept, s[t.j]) \in Seq(Ask)
    BY <2>1, ElementOfSeq, AppendProperties
  <2>3. t.j + 1 \in 1..(Len(s) + 1) /\ t.i \in 1..(Len(all) + 1)
    BY <1>1, <2>1, SMTT(30) DEF Place
  <2>4. [t EXCEPT !.j = t.j + 1, !.kept = Append(t.kept, s[t.j])] \in Place(all, s)
    BY <2>2, <2>3, PlaceMoves
  <2> QED
    BY <2>4
<1>3. ASSUME NEW t \in Place(all, s) PROVE Turn(t) \in Place(all, s)
  <2>1. t.i \in 1..(Len(all) + 1) /\ t.j \in 1..(Len(s) + 1)
    BY DEF Place
  <2>2. CASE t.j > Len(s)
    BY <2>2
  <2>3. CASE t.j <= Len(s)
    <3>1. t.i <= Len(all) => [t EXCEPT !.i = @ + 1] \in Place(all, s)
      BY <1>1, <2>1, SMTT(30) DEF Place
    <3>2. [t EXCEPT !.j = @ + 1] \in Place(all, s)
      BY <1>1, <2>1, <2>3 DEF Place
    <3>3. Keep(t) \in Place(all, s)
      BY <1>2, <2>3
    <3>4. t.i > Len(all) \/ t.i <= Len(all)
      BY <1>1, <2>1
    <3> HIDE DEF Keep, Known
    <3> QED
      BY <3>1, <3>2, <3>3, <3>4
  <2> QED
    BY <1>1, <2>1, <2>2, <2>3
<1>4. StepsIn(N, Place(all, s), step)
  <2> HIDE DEF Turn
  <2> QED
    BY <1>3 DEF StepsIn
<1> HIDE DEF N, start
<1>5. PICK g : GoesOn(g, N, Place(all, s), start, step)
  <2> HIDE DEF step
  <2> QED
    BY <1>1, <1>4, Recursion
<1>6. ASSUME NEW n \in 1..N PROVE g[n] = Turn(g[n - 1])
  <2>1. n - 1 \in 0..N
    BY <1>1
  <2>2. g[n - 1] \in Place(all, s) /\ g[n] = step[n][g[n - 1]]
    BY <1>5, <2>1 DEF GoesOn
  <2> HIDE DEF Turn
  <2> QED
    BY <2>2
<1> HIDE DEF step
<1>7. \A f : \A n : Only({Turn(t) : t \in {f[n - 1]}}) = Turn(f[n - 1])
  <2> SUFFICES ASSUME NEW f, NEW n
               PROVE  Only({Turn(t) : t \in {f[n - 1]}}) = Turn(f[n - 1])
    OBVIOUS
  <2> DEFINE x == f[n - 1]
  <2> HIDE DEF Turn
  <2>1. {Turn(t) : t \in {x}} = {Turn(x)}
    OBVIOUS
  <2> QED
    BY <2>1, OnlyOne
<1> DEFINE turn[n \in 0..N] == IF n = 0 THEN start ELSE Only({Turn(t) : t \in {turn[n - 1]}})
<1>8. g = [n \in 0..N |-> IF n = 0 THEN start ELSE Only({Turn(t) : t \in {g[n - 1]}})]
  <2>1. \A n \in 0..N : n # 0 => n \in 1..N
    BY <1>1
  <2>2. g = [n \in 0..N |-> g[n]] /\ g[0] = start
    BY <1>5 DEF GoesOn
  <2> HIDE DEF Turn
  <2>3. ASSUME NEW n \in 0..N
        PROVE  g[n] = IF n = 0 THEN start ELSE Only({Turn(t) : t \in {g[n - 1]}})
    BY <1>6, <1>7, <2>1, <2>2
  <2> QED
    BY <2>2, <2>3
<1>9. turn = [n \in 0..N |-> IF n = 0 THEN start ELSE Only({Turn(t) : t \in {turn[n - 1]}})]
  <2> HIDE DEF Turn
  <2> QED
    BY <1>8
<1>10. NotIn(all, s) = turn[N].kept
  BY DEF NotIn, N, start
<1> HIDE DEF turn
<1>11. turn[0] = start /\ \A n \in 1..N : turn[n] = Turn(turn[n - 1])
  <2>1. \A n \in 1..N : n \in 0..N /\ n # 0
    BY <1>1
  <2>2. 0 \in 0..N
    BY <1>1
  <2> HIDE DEF Turn
  <2> QED
    BY <1>7, <1>9, <2>1, <2>2
<1> DEFINE T == {n \in 0..N : IsSifted(all, s, n, turn[n])}
<1>12. 0 \in T
  <2>1. /\ start.i = 1 /\ start.j = 1 /\ start.kept = << >> /\ Range(<< >>) = {}
        /\ 1..(1 - 1) = {} /\ 0 \in 0..N
    BY <1>1 DEF start, Range
  <2>2. IsSifted(all, s, 0, start)
    BY <1>1, <2>1 DEF IsSifted, NoRepeats
  <2> QED
    BY <1>11, <2>1, <2>2
<1>13. ASSUME NEW n \in 1..N, n - 1 \in T PROVE n \in T
  <2> DEFINE t == turn[n - 1]
  <2>1. IsSifted(all, s, n - 1, t) /\ turn[n] = Turn(t) /\ n \in 0..N /\ n \in Nat \ {0}
    <3> HIDE DEF Turn
    <3> QED
      BY <1>1, <1>11, <1>13
  <2> HIDE DEF t
  <2>2. /\ t \in Place(all, s) /\ t.i \in 1..(Len(all) + 1) /\ t.j \in 1..(Len(s) + 1)
        /\ NoRepeats(t.kept)
        /\ Range(t.kept) \subseteq {s[a] : a \in 1..(t.j - 1)}
        /\ \A a \in 1..(t.j - 1) : s[a] \in Range(t.kept) \/ s[a].val \in Range(all)
        /\ t.j > Len(s) \/ t.i + t.j >= n + 1
    BY <2>1 DEF IsSifted, Place
  <2>3. CASE t.j > Len(s)
    <3>1. Turn(t) = t
      BY <2>3
    <3> HIDE DEF Turn
    <3>2. IsSifted(all, s, n, t)
      BY <2>2, <2>3 DEF IsSifted
    <3> QED
      BY <2>1, <3>1, <3>2
  <2>4. CASE t.j <= Len(s)
    <3>1. IsSifted(all, s, n, Keep(t))
      BY <2>1, <2>4, KeepSifts
    <3>2. ASSUME t.i <= Len(all) PROVE IsSifted(all, s, n, [t EXCEPT !.i = @ + 1])
      <4> DEFINE u == [t EXCEPT !.i = @ + 1]
      <4>1. u \in Place(all, s) /\ u.i = t.i + 1 /\ u.j = t.j /\ u.kept = t.kept
        <5>1. t.i + 1 \in 1..(Len(all) + 1)
          BY <1>1, <2>2, <3>2
        <5>2. t \in Place(all, s) /\ t.j \in 1..(Len(s) + 1) /\ t.kept \in Seq(Ask)
          BY <2>2 DEF Place
        <5>3. u = [t EXCEPT !.i = t.i + 1]
          OBVIOUS
        <5> DEFINE n1 == t.i + 1
        <5> HIDE DEF u, n1
        <5>4. u = [t EXCEPT !.i = n1] /\ n1 \in 1..(Len(all) + 1)
          BY <5>1, <5>3 DEF n1
        <5>5. u \in Place(all, s) /\ u.i = n1 /\ u.j = t.j /\ u.kept = t.kept
          BY <5>2, <5>4, PlaceMovesI
        <5> QED
          BY <5>5 DEF n1
      <4> HIDE DEF u
      <4>2. u.j > Len(s) \/ u.i + u.j >= n + 2
        BY <1>1, <2>1, <2>2, <2>4, <4>1, SMTT(30)
      <4>3. IsSifted(all, s, n, u)
        BY <2>2, <4>1, <4>2 DEF IsSifted
      <4> QED
        BY <4>3 DEF u
    <3>3. ASSUME t.i <= Len(all), Known(s[t.j].val, t.i)
          PROVE  IsSifted(all, s, n, [t EXCEPT !.j = @ + 1])
      <4> DEFINE u == [t EXCEPT !.j = @ + 1]
      <4>1. u \in Place(all, s) /\ u.i = t.i /\ u.j = t.j + 1 /\ u.kept = t.kept
        <5>1. t.j + 1 \in 1..(Len(s) + 1)
          BY <1>1, <2>2, <2>4
        <5>2. t \in Place(all, s) /\ t.i \in 1..(Len(all) + 1) /\ t.kept \in Seq(Ask)
          BY <2>2 DEF Place
        <5>3. u = [t EXCEPT !.j = t.j + 1]
          OBVIOUS
        <5> DEFINE n1 == t.j + 1
        <5> HIDE DEF u, n1
        <5>4. u = [t EXCEPT !.j = n1] /\ n1 \in 1..(Len(s) + 1)
          BY <5>1, <5>3 DEF n1
        <5>5. u \in Place(all, s) /\ u.j = n1 /\ u.i = t.i /\ u.kept = t.kept
          BY <5>2, <5>4, PlaceMovesJ
        <5> QED
          BY <5>5 DEF n1
      <4> HIDE DEF u
      <4>2. s[t.j].val \in Range(all)
        <5>1. PICK e \in t.i..Len(all) : all[e] = s[t.j].val
          BY <3>3
        <5>2. e \in DOMAIN all
          BY <1>1, <2>2
        <5> QED
          BY <5>1, <5>2 DEF Range
      <4>3. \A a \in 1..(u.j - 1) : a = t.j \/ a \in 1..(t.j - 1)
        BY <2>2, <4>1
      <4>4. \A a \in 1..(t.j - 1) : a \in 1..(u.j - 1)
        BY <2>2, <4>1
      <4>5. u.j > Len(s) \/ u.i + u.j >= n + 2
        BY <1>1, <2>1, <2>2, <2>4, <4>1, SMTT(30)
      <4>6. \A a \in 1..(u.j - 1) : s[a] \in Range(u.kept) \/ s[a].val \in Range(all)
        BY <2>2, <4>1, <4>2, <4>3
      <4>7. Range(u.kept) \subseteq {s[a] : a \in 1..(u.j - 1)}
        BY <2>2, <4>1, <4>4
      <4>8. IsSifted(all, s, n, u)
        BY <2>2, <4>1, <4>5, <4>6, <4>7 DEF IsSifted
      <4> QED
        BY <4>8 DEF u
    <3>4. IsSifted(all, s, n, Turn(t))
      <4>1. ~ (t.j > Len(s)) /\ (t.i > Len(all) \/ t.i <= Len(all))
        BY <1>1, <2>2, <2>4
      <4> HIDE DEF Keep, Known
      <4> QED
        BY <3>1, <3>2, <3>3, <4>1
    <3> HIDE DEF Turn
    <3> QED
      BY <2>1, <3>4
  <2>5. t.j > Len(s) \/ t.j <= Len(s)
    BY <1>1, <2>2
  <2> QED
    BY <2>3, <2>4, <2>5
<1>14. N \in T
  <2> HIDE DEF T
  <2>1. \A n \in 0..N : n \in T
    BY <1>1, <1>12, <1>13, CountUp
  <2>2. N \in 0..N
    BY <1>1
  <2> QED
    BY <2>1, <2>2
<1> DEFINE t == turn[N]
<1>15. IsSifted(all, s, N, t)
  BY <1>14
<1> HIDE DEF t, T, Turn
<1>16. /\ t.i \in 1..(Len(all) + 1) /\ t.j \in 1..(Len(s) + 1) /\ t.kept \in Seq(Ask)
       /\ NoRepeats(t.kept)
       /\ Range(t.kept) \subseteq {s[a] : a \in 1..(t.j - 1)}
       /\ \A a \in 1..(t.j - 1) : s[a] \in Range(t.kept) \/ s[a].val \in Range(all)
       /\ t.j > Len(s) \/ t.i + t.j >= N + 2
  BY <1>15 DEF IsSifted, Place
<1>17. t.j - 1 = Len(s)
  BY <1>1, <1>16 DEF N
<1>18. Range(s) = {s[a] : a \in 1..Len(s)}
  BY RangeEquality
<1> QED
  BY <1>10, <1>16, <1>17, <1>18 DEF t

(* Where the merge from the end is after n turns, and what it has so far.  *)
IsMerging(all, s, n, t) ==
    /\ t \in [i : 0..Len(all), j : 0..Len(s), out : Seq(Values)]
    /\ t.i + t.j = Len(all) + Len(s) - n
    /\ Len(t.out) = n
    /\ Range(t.out) \subseteq Range(all) \cup Vals(Range(s))

LEMMA MergingGoesOn ==
    ASSUME NEW all \in Seq(Values), NEW s \in Seq(Ask), NEW n \in 1..(Len(all) + Len(s)),
           NEW t, IsMerging(all, s, n - 1, t)
    PROVE  IsMerging(all, s, n,
               IF t.j > 0 /\ (t.i > 0 => Hash(s[t.j].val) > Hash(all[t.i]))
               THEN [t EXCEPT !.j = @ - 1, !.out = <<s[t.j].val>> \o @]
               ELSE [t EXCEPT !.i = @ - 1, !.out = <<all[t.i]>> \o @])
<1> DEFINE i == t.i
           j == t.j
           out == t.out
           I == 0..Len(all)
           J == 0..Len(s)
<1>1. /\ i \in I /\ j \in J /\ out \in Seq(Values) /\ t \in [i : I, j : J, out : Seq(Values)]
      /\ i + j = Len(all) + Len(s) - n + 1 /\ Len(out) = n - 1
      /\ Range(out) \subseteq Range(all) \cup Vals(Range(s))
      /\ Len(all) \in Nat /\ Len(s) \in Nat
      /\ DOMAIN all = 1..Len(all) /\ DOMAIN s = 1..Len(s)
      /\ n \in Nat /\ n >= 1 /\ n <= Len(all) + Len(s)
  BY LenProperties DEF IsMerging
<1>2. ASSUME NEW v \in Values, v \in Range(all) \cup Vals(Range(s))
      PROVE  /\ <<v>> \o out \in Seq(Values) /\ Len(<<v>> \o out) = n
             /\ Range(<<v>> \o out) \subseteq Range(all) \cup Vals(Range(s))
  <2> DEFINE e == <<v>>
             x == e \o out
  <2>1. e \in Seq(Values) /\ Len(e) = 1 /\ Range(e) = {v}
    BY DEF Range
  <2> HIDE DEF e, out
  <2>2. x \in Seq(Values) /\ Len(x) = Len(e) + Len(out)
    BY <1>1, <2>1, ConcatProperties
  <2>3. Range(x) = Range(e) \cup Range(out)
    BY <1>1, <2>1, RangeConcatenation
  <2> HIDE DEF x
  <2>4. Len(x) = n
    BY <1>1, <2>1, <2>2
  <2>5. Range(x) \subseteq Range(all) \cup Vals(Range(s))
    BY <1>1, <1>2, <2>1, <2>3
  <2> QED
    BY <2>2, <2>4, <2>5 DEF x, e, out
<1>3. ASSUME j > 0
      PROVE  IsMerging(all, s, n, [t EXCEPT !.j = @ - 1, !.out = <<s[t.j].val>> \o @])
  <2> DEFINE x == <<s[j].val>> \o out
             j1 == j - 1
             u == [t EXCEPT !.j = j1, !.out = x]
  <2>1. j \in DOMAIN s /\ j - 1 \in J /\ i + (j - 1) = Len(all) + Len(s) - n
    BY <1>1, <1>3
  <2>2. s[j] \in Ask /\ s[j] \in Range(s)
    BY <1>1, <2>1, ElementOfSeq DEF Range
  <2>3. s[j].val \in Values /\ s[j].val \in Range(all) \cup Vals(Range(s))
    BY <2>2 DEF Ask, Vals
  <2>4. /\ x \in Seq(Values) /\ Len(x) = n /\ j1 \in J /\ i + j1 = Len(all) + Len(s) - n
        /\ Range(x) \subseteq Range(all) \cup Vals(Range(s))
    BY <1>2, <2>1, <2>3
  <2> HIDE DEF x, j1
  <2>5. u \in [i : I, j : J, out : Seq(Values)] /\ u.i = i /\ u.j = j1 /\ u.out = x
    <3> HIDE DEF I, J
    <3> QED
      BY <1>1, <2>4
  <2> HIDE DEF u
  <2>6. IsMerging(all, s, n, u)
    BY <2>4, <2>5 DEF IsMerging
  <2> QED
    BY <2>6 DEF u, x, j1
<1>4. ASSUME i > 0
      PROVE  IsMerging(all, s, n, [t EXCEPT !.i = @ - 1, !.out = <<all[t.i]>> \o @])
  <2> DEFINE x == <<all[i]>> \o out
             i1 == i - 1
             u == [t EXCEPT !.i = i1, !.out = x]
  <2>0. i \in Nat /\ i <= Len(all) /\ j \in Nat
    BY <1>1
  <2>1. i \in DOMAIN all /\ i - 1 \in I /\ (i - 1) + j = Len(all) + Len(s) - n
    <3> HIDE DEF i, j
    <3> QED
      BY <1>1, <1>4, <2>0
  <2>2. all[i] \in Values /\ all[i] \in Range(all)
    BY <1>1, <2>1, ElementOfSeq DEF Range
  <2>3. /\ x \in Seq(Values) /\ Len(x) = n /\ i1 \in I /\ i1 + j = Len(all) + Len(s) - n
        /\ Range(x) \subseteq Range(all) \cup Vals(Range(s))
    BY <1>2, <2>1, <2>2
  <2> HIDE DEF x, i1
  <2>4. u \in [i : I, j : J, out : Seq(Values)] /\ u.i = i1 /\ u.j = j /\ u.out = x
    <3> HIDE DEF I, J
    <3> QED
      BY <1>1, <2>3
  <2> HIDE DEF u
  <2>5. IsMerging(all, s, n, u)
    BY <2>3, <2>4 DEF IsMerging
  <2> QED
    BY <2>5 DEF u, x, i1
<1>5. j > 0 \/ i > 0
  BY <1>1
<1>6. CASE j > 0 /\ (i > 0 => Hash(s[j].val) > Hash(all[i]))
  BY <1>3, <1>6
<1>7. CASE ~ (j > 0 /\ (i > 0 => Hash(s[j].val) > Hash(all[i])))
  BY <1>4, <1>5, <1>7
<1> QED
  BY <1>6, <1>7

(* The merge has as many values as there were, and no other.               *)
LEMMA MergedIs ==
    ASSUME NEW all \in Seq(Values), NEW s \in Seq(Ask)
    PROVE  /\ Merged(all, s) \in Seq(Values)
           /\ Len(Merged(all, s)) = Len(all) + Len(s)
           /\ Range(Merged(all, s)) \subseteq Range(all) \cup Vals(Range(s))
<1> DEFINE N == Len(all) + Len(s)
           Turn(t) == IF t.j > 0 /\ (t.i > 0 => Hash(s[t.j].val) > Hash(all[t.i]))
                      THEN [t EXCEPT !.j = @ - 1, !.out = <<s[t.j].val>> \o @]
                      ELSE [t EXCEPT !.i = @ - 1, !.out = <<all[t.i]>> \o @]
           start == [i |-> Len(all), j |-> Len(s), out |-> << >>]
           D == {t \in [i : 0..Len(all), j : 0..Len(s), out : Seq(Values)] :
                     \E n \in 0..N : IsMerging(all, s, n, t)}
           step == [n \in 1..N |-> [t \in D |-> IF IsMerging(all, s, n - 1, t) THEN Turn(t) ELSE t]]
<1>1. /\ Len(all) \in Nat /\ Len(s) \in Nat /\ N \in Nat /\ 0 \in 0..N
      /\ IsMerging(all, s, 0, start)
  <2>1. Len(all) \in Nat /\ Len(s) \in Nat
    BY LenProperties
  <2>2. Range(<< >>) = {} /\ << >> \in Seq(Values) /\ Len(<< >>) = 0
    BY DEF Range
  <2> QED
    BY <2>1, <2>2 DEF IsMerging
<1> HIDE DEF start, Turn
<1>2. ASSUME NEW n \in 1..N, NEW t, IsMerging(all, s, n - 1, t)
      PROVE  IsMerging(all, s, n, Turn(t))
  BY <1>2, MergingGoesOn DEF Turn
<1>3. \A n \in 0..N : \A t : IsMerging(all, s, n, t) => t \in D
  BY DEF IsMerging
<1>4. \A n \in 1..N : n - 1 \in 0..N /\ n \in 0..N /\ n # 0
  BY <1>1
<1> HIDE DEF N, D
<1>5. StepsIn(N, D, step) /\ start \in D
  <2>1. \A n \in 1..N : \A t \in D : step[n][t] = IF IsMerging(all, s, n - 1, t) THEN Turn(t) ELSE t
    OBVIOUS
  <2> HIDE DEF step
  <2> QED
    BY <1>1, <1>2, <1>3, <1>4, <2>1 DEF StepsIn
<1>6. PICK g : GoesOn(g, N, D, start, step)
  <2> HIDE DEF step
  <2> QED
    BY <1>1, <1>5, Recursion
<1> DEFINE Tg == {n \in 0..N : IsMerging(all, s, n, g[n])}
<1>7. \A n \in 1..N : n - 1 \in Tg => g[n] = Turn(g[n - 1]) /\ n \in Tg
  <2> SUFFICES ASSUME NEW n \in 1..N, n - 1 \in Tg
               PROVE  g[n] = Turn(g[n - 1]) /\ n \in Tg
    OBVIOUS
  <2>1. IsMerging(all, s, n - 1, g[n - 1]) /\ g[n - 1] \in D /\ g[n] = step[n][g[n - 1]]
    BY <1>3, <1>4, <1>6 DEF GoesOn
  <2>2. g[n] = Turn(g[n - 1])
    BY <2>1
  <2> QED
    BY <1>2, <1>4, <2>1, <2>2
<1>8. \A n \in 0..N : n \in Tg
  <2>1. 0 \in Tg
    BY <1>1, <1>6 DEF GoesOn
  <2> HIDE DEF Tg
  <2> QED
    BY <1>1, <1>7, <2>1, CountUp
<1>9. \A n \in 1..N : g[n] = Turn(g[n - 1])
  BY <1>4, <1>7, <1>8
<1> HIDE DEF step, Tg
<1>10. \A f : \A n : Only({Turn(t) : t \in {f[n - 1]}}) = Turn(f[n - 1])
  <2> SUFFICES ASSUME NEW f, NEW n
               PROVE  Only({Turn(t) : t \in {f[n - 1]}}) = Turn(f[n - 1])
    OBVIOUS
  <2> DEFINE x == f[n - 1]
  <2>1. {Turn(t) : t \in {x}} = {Turn(x)}
    OBVIOUS
  <2> QED
    BY <2>1, OnlyOne
<1> DEFINE turn[n \in 0..N] == IF n = 0 THEN start ELSE Only({Turn(t) : t \in {turn[n - 1]}})
<1>11. g = [n \in 0..N |-> IF n = 0 THEN start ELSE Only({Turn(t) : t \in {g[n - 1]}})]
  <2>1. \A n \in 0..N : n # 0 => n \in 1..N
    BY <1>1
  <2>2. g = [n \in 0..N |-> g[n]] /\ g[0] = start
    BY <1>6 DEF GoesOn
  <2>3. ASSUME NEW n \in 0..N
        PROVE  g[n] = IF n = 0 THEN start ELSE Only({Turn(t) : t \in {g[n - 1]}})
    BY <1>9, <1>10, <2>1, <2>2
  <2> QED
    BY <2>2, <2>3
<1>12. turn = [n \in 0..N |-> IF n = 0 THEN start ELSE Only({Turn(t) : t \in {turn[n - 1]}})]
  BY <1>11
<1>13. Merged(all, s) = turn[N].out
  BY DEF Merged, N, start, Turn
<1> HIDE DEF turn
<1> DEFINE T == {n \in 0..N : IsMerging(all, s, n, turn[n])}
<1>14. \A n \in 0..N : n \in T
  <2>1. 0 \in T
    BY <1>1, <1>12
  <2>2. ASSUME NEW n \in 1..N, n - 1 \in T PROVE n \in T
    <3>1. turn[n] = Turn(turn[n - 1])
      BY <1>4, <1>10, <1>12
    <3> QED
      BY <1>2, <1>4, <2>2, <3>1
  <2> HIDE DEF T
  <2> QED
    BY <1>1, <2>1, <2>2, CountUp
<1>15. IsMerging(all, s, N, turn[N])
  <2>1. N \in 0..N
    BY <1>1
  <2> QED
    BY <1>14, <2>1
<1> QED
  BY <1>13, <1>15 DEF IsMerging, N
-----------------------------------------------------------------------------
(* A chain under work.  *)

Limits == [first : Nat, last : Nat, count : Nat]

Work == [ids : Seq(Nat), blocks : Seq(Block), info : Limits, modified : SUBSET Nat,
         cuts : Seq([hash : Nat, info : Limits])]

(* The blocks from the place lo to the place hi are linked to a chain.     *)
Linked(ids, bs, lo, hi) ==
    \A i \in lo..hi :
        /\ bs[i].prev = IF i = lo THEN ids[lo] ELSE ids[i - 1]
        /\ bs[i].next = IF i = hi THEN ids[hi] ELSE ids[i + 1]

IsSegment(d, info, lo, hi) ==
    /\ lo \in 1..Len(d.ids) /\ hi \in lo..Len(d.ids)
    /\ info = ChainInfo(d.ids[lo], d.ids[hi], hi - lo + 1)
    /\ Linked(d.ids, d.blocks, lo, hi)

LEMMA CeilDivIs ==
    ASSUME NEW n \in Nat, NEW d \in Nat \ {0}
    PROVE  CeilDiv(n, d) \in Nat /\ (CeilDiv(n, d) - 1) * d < n
<1> DEFINE m == n + d - 1
           q == m \div d
<1>1. m \in Nat /\ d \in Nat /\ d > 0
  OBVIOUS
<1>2. q \in Nat /\ q * d <= m
  <2> HIDE DEF m
  <2>1. q \in Int /\ m = (d * q) + (m % d) /\ 0 <= m % d /\ m % d < d
    BY <1>1
  <2>2. d * q = q * d
    BY <1>1, <2>1
  <2>3. q >= 0
    BY <1>1, <2>1
  <2> QED
    BY <1>1, <2>1, <2>2, <2>3
<1> HIDE DEF q
<1>3. (q - 1) * d = q * d - d
  BY <1>1, <1>2
<1>4. (q - 1) * d < n
  BY <1>1, <1>2, <1>3
<1> QED
  BY <1>2, <1>4 DEF CeilDiv, q

LEMMA BlockLinked ==
    ASSUME NEW b \in Block, NEW x \in Nat
    PROVE  /\ [b EXCEPT !.next = x] \in Block /\ [b EXCEPT !.next = x].next = x
           /\ [b EXCEPT !.next = x].prev = b.prev /\ [b EXCEPT !.next = x].items = b.items
           /\ [b EXCEPT !.prev = x] \in Block /\ [b EXCEPT !.prev = x].prev = x
           /\ [b EXCEPT !.prev = x].next = b.next /\ [b EXCEPT !.prev = x].items = b.items
<1> DEFINE I == Seq(Values)
<1>1. b \in [prev : Nat, next : Nat, items : I] /\ Block = [prev : Nat, next : Nat, items : I]
  BY DEF Block
<1> HIDE DEF I
<1> QED
  BY <1>1

LEMMA BlockRefilled ==
    ASSUME NEW b \in Block, NEW s \in Seq(Values)
    PROVE  /\ [b EXCEPT !.items = s] \in Block /\ [b EXCEPT !.items = s].items = s
           /\ [b EXCEPT !.items = s].prev = b.prev /\ [b EXCEPT !.items = s].next = b.next
<1> DEFINE I == Seq(Values)
<1>1. b \in [prev : Nat, next : Nat, items : I] /\ Block = [prev : Nat, next : Nat, items : I]
      /\ s \in I
  BY DEF Block
<1> HIDE DEF I
<1> QED
  BY <1>1

LEMMA EmptyIsBlock ==
    ASSUME NEW x \in Nat, NEW y \in Nat
    PROVE  /\ [EmptyBlock(x) EXCEPT !.prev = y] \in Block
           /\ [EmptyBlock(x) EXCEPT !.prev = y] = [prev |-> y, next |-> x, items |-> << >>]
           /\ EmptyBlock(x) \in Block
<1>1. << >> \in Seq(Values)
  OBVIOUS
<1>2. [EmptyBlock(x) EXCEPT !.prev = y] = [prev |-> y, next |-> x, items |-> << >>]
  BY DEF EmptyBlock
<1>3. [prev |-> y, next |-> x, items |-> << >>] \in Block
  BY <1>1 DEF Block
<1>4. EmptyBlock(x) \in Block
  BY <1>1 DEF EmptyBlock, Block
<1> QED
  BY <1>2, <1>3, <1>4

(* What the chain c has become by i blocks appended, numbered from id on.  *)
IsGrown(c, d, i, id) ==
    LET m == Len(c.ids)
    IN  /\ d \in Work /\ Len(d.ids) = m + i /\ Len(d.blocks) = m + i
        /\ \A j \in 1..(m + i) : d.ids[j] = IF j <= m THEN c.ids[j] ELSE id + j - m - 1
        /\ d.info = ChainInfo(d.ids[1], d.ids[m + i], m + i)
        /\ Linked(d.ids, d.blocks, 1, m + i)
        /\ d.cuts = << >>
        /\ i > 0 => m \in d.modified
        /\ \A j \in 1..m : j \notin d.modified =>
              d.blocks[j].prev = c.blocks[j].prev /\ d.blocks[j].next = c.blocks[j].next

LEMMA WorkIs ==
    ASSUME NEW d
    PROVE  d \in Work <=>
              /\ d = [ids |-> d.ids, blocks |-> d.blocks, info |-> d.info,
                      modified |-> d.modified, cuts |-> d.cuts]
              /\ d.ids \in Seq(Nat) /\ d.blocks \in Seq(Block) /\ d.info \in Limits
              /\ d.modified \in SUBSET Nat /\ d.cuts \in Seq([hash : Nat, info : Limits])
<1> DEFINE A == Seq(Nat)
           B == Seq(Block)
           C == Limits
           D == SUBSET Nat
           E == Seq([hash : Nat, info : Limits])
<1>1. Work = [ids : A, blocks : B, info : C, modified : D, cuts : E]
  BY DEF Work
<1> HIDE DEF A, B, C, D, E
<1>2. d \in [ids : A, blocks : B, info : C, modified : D, cuts : E] <=>
              /\ d = [ids |-> d.ids, blocks |-> d.blocks, info |-> d.info,
                      modified |-> d.modified, cuts |-> d.cuts]
              /\ d.ids \in A /\ d.blocks \in B /\ d.info \in C
              /\ d.modified \in D /\ d.cuts \in E
  OBVIOUS
<1> QED
  BY <1>1, <1>2 DEF A, B, C, D, E

LEMMA RecordWithFour ==
    ASSUME NEW A, NEW B, NEW C, NEW D, NEW E,
           NEW d \in [ids : A, blocks : B, info : C, modified : D, cuts : E],
           NEW o \in A, NEW q \in B, NEW i \in C, NEW m \in D
    PROVE  LET u == [d EXCEPT !.ids = o, !.blocks = q, !.info = i, !.modified = m]
           IN  /\ u \in [ids : A, blocks : B, info : C, modified : D, cuts : E]
               /\ u.ids = o /\ u.blocks = q /\ u.info = i /\ u.modified = m /\ u.cuts = d.cuts
OBVIOUS

LEMMA AppendedIs ==
    ASSUME NEW d \in Work, NEW x \in Nat, Len(d.ids) \in Nat \ {0},
           Len(d.blocks) = Len(d.ids)
    PROVE  LET n == Len(d.ids)
               u == AppendNewBlock(d, x)
           IN  /\ u \in Work /\ u.ids = Append(d.ids, x)
               /\ u.info = ChainInfo(d.info.first, x, d.info.count + 1)
               /\ u.modified = d.modified \cup {n, n + 1} /\ u.cuts = d.cuts
               /\ Len(u.blocks) = n + 1
               /\ \A j \in 1..(n - 1) : u.blocks[j] = d.blocks[j]
               /\ u.blocks[n].prev = d.blocks[n].prev /\ u.blocks[n].next = x
               /\ u.blocks[n + 1].prev = d.ids[n] /\ u.blocks[n + 1].next = x
<1> DEFINE n == Len(d.ids)
           u == AppendNewBlock(d, x)
           b == [d.blocks[n] EXCEPT !.next = x]
           bs == [d.blocks EXCEPT ![n] = b]
           e == [EmptyBlock(x) EXCEPT !.prev = d.ids[n]]
           i == ChainInfo(d.info.first, x, d.info.count + 1)
<1>1. /\ d = [ids |-> d.ids, blocks |-> d.blocks, info |-> d.info,
              modified |-> d.modified, cuts |-> d.cuts]
      /\ d.ids \in Seq(Nat) /\ d.blocks \in Seq(Block) /\ d.info \in Limits
      /\ d.modified \in SUBSET Nat /\ d.cuts \in Seq([hash : Nat, info : Limits])
  BY WorkIs
<1>2. n \in Nat /\ n > 0 /\ n \in 1..n /\ n + 1 \in 1..(n + 1) /\ Len(d.blocks) = n
      /\ \A j \in 1..(n - 1) : j \in 1..n /\ j # n /\ j \in 1..(n + 1)
  OBVIOUS
<1>3. d.ids[n] \in Nat /\ d.blocks[n] \in Block
  BY <1>1, <1>2, ElementOfSeq
<1>4. b \in Block /\ b.next = x /\ b.prev = d.blocks[n].prev
  BY <1>3, BlockLinked
<1>5. e \in Block /\ e = [prev |-> d.ids[n], next |-> x, items |-> << >>]
  BY <1>3, EmptyIsBlock
<1>6. u = [ids |-> Append(d.ids, x), blocks |-> Append(bs, e), info |-> i,
           modified |-> d.modified \cup {n, n + 1}, cuts |-> d.cuts]
  <2> DEFINE o == Append(d.ids, x)
             q == Append(bs, e)
             m == d.modified \cup {n, n + 1}
  <2>1. u = [d EXCEPT !.ids = o, !.blocks = q, !.info = i, !.modified = m]
    <3> HIDE DEF e
    <3> QED
      BY DEF AppendNewBlock, e
  <2> HIDE DEF o, q, m, i, u
  <2>2. u = [ids |-> o, blocks |-> q, info |-> i, modified |-> m, cuts |-> d.cuts]
    BY <1>1, <2>1, RecordWithFour
  <2> QED
    BY <2>2 DEF o, q, m
<1>7. bs \in Seq(Block) /\ Len(bs) = n /\ bs[n] = b /\ \A j \in 1..n : j # n => bs[j] = d.blocks[j]
  BY <1>1, <1>2, <1>4, ExceptSeq
<1> HIDE DEF u, b, bs, e, n, i
<1>8. /\ Append(bs, e) \in Seq(Block) /\ Len(Append(bs, e)) = n + 1
      /\ \A j \in 1..n : Append(bs, e)[j] = bs[j]
      /\ Append(bs, e)[n + 1] = e
  BY <1>5, <1>7, AppendProperties
<1>9. Append(d.ids, x) \in Seq(Nat)
  BY <1>1, AppendProperties
<1>10. i \in Limits /\ d.modified \cup {n, n + 1} \in SUBSET Nat
  BY <1>1, <1>2 DEF i, ChainInfo, Limits
<1> DEFINE o == Append(d.ids, x)
           q == Append(bs, e)
           m == d.modified \cup {n, n + 1}
           k == d.cuts
<1> HIDE DEF o, q, m, k
<1>11. u = [ids |-> o, blocks |-> q, info |-> i, modified |-> m, cuts |-> k]
  BY <1>6 DEF o, q, m, k
<1>12. u.ids = o /\ u.blocks = q /\ u.info = i /\ u.modified = m /\ u.cuts = k
  BY <1>11
<1>13. u \in Work
  BY <1>1, <1>8, <1>9, <1>10, <1>11, <1>12, WorkIs DEF o, q, m, k
<1>14. /\ \A j \in 1..(n - 1) : u.blocks[j] = d.blocks[j]
       /\ u.blocks[n].prev = d.blocks[n].prev /\ u.blocks[n].next = x
       /\ u.blocks[n + 1].prev = d.ids[n] /\ u.blocks[n + 1].next = x
  BY <1>2, <1>4, <1>5, <1>7, <1>8, <1>12 DEF q
<1> QED
  BY <1>8, <1>12, <1>13, <1>14 DEF u, n, i, o, q, m, k

LEMMA AppendGrows ==
    ASSUME NEW c, Len(c.ids) \in Nat \ {0}, NEW i \in Nat \ {0}, NEW id \in Nat,
           NEW d, IsGrown(c, d, i - 1, id)
    PROVE  IsGrown(c, AppendNewBlock(d, id + i - 1), i, id)
<1> DEFINE m == Len(c.ids)
           x == id + i - 1
           u == AppendNewBlock(d, x)
           n == m + (i - 1)
<1>1. /\ m \in Nat /\ m > 0 /\ x \in Nat /\ n \in Nat /\ n > 0 /\ n + 1 = m + i
      /\ i \in Nat /\ i > 0 /\ id \in Nat
      /\ \A j \in 1..m : j \in 1..n
      /\ n <= m => n = m
  OBVIOUS
<1>2. /\ d \in Work /\ Len(d.ids) = n /\ Len(d.blocks) = n
      /\ \A j \in 1..n : d.ids[j] = IF j <= m THEN c.ids[j] ELSE id + j - m - 1
      /\ d.info = ChainInfo(d.ids[1], d.ids[n], n)
      /\ Linked(d.ids, d.blocks, 1, n)
      /\ d.cuts = << >>
      /\ i - 1 > 0 => m \in d.modified
      /\ \A j \in 1..m : j \notin d.modified =>
              d.blocks[j].prev = c.blocks[j].prev /\ d.blocks[j].next = c.blocks[j].next
  BY DEF IsGrown
<1> HIDE DEF n, x, m
<1>3. /\ u \in Work /\ u.ids = Append(d.ids, x)
      /\ u.info = ChainInfo(d.info.first, x, d.info.count + 1)
      /\ u.modified = d.modified \cup {n, n + 1} /\ u.cuts = d.cuts
      /\ Len(u.blocks) = n + 1
      /\ \A j \in 1..(n - 1) : u.blocks[j] = d.blocks[j]
      /\ u.blocks[n].prev = d.blocks[n].prev /\ u.blocks[n].next = x
      /\ u.blocks[n + 1].prev = d.ids[n] /\ u.blocks[n + 1].next = x
  <2>1. Len(d.ids) \in Nat \ {0} /\ Len(d.blocks) = Len(d.ids) /\ d \in Work /\ x \in Nat
    BY <1>1, <1>2
  <2>2. LET last == Len(d.ids)
            w == AppendNewBlock(d, x)
        IN  /\ w \in Work /\ w.ids = Append(d.ids, x)
            /\ w.info = ChainInfo(d.info.first, x, d.info.count + 1)
            /\ w.modified = d.modified \cup {last, last + 1} /\ w.cuts = d.cuts
            /\ Len(w.blocks) = last + 1
            /\ \A j \in 1..(last - 1) : w.blocks[j] = d.blocks[j]
            /\ w.blocks[last].prev = d.blocks[last].prev /\ w.blocks[last].next = x
            /\ w.blocks[last + 1].prev = d.ids[last] /\ w.blocks[last + 1].next = x
    <3> HIDE DEF u
    <3> QED
      BY <2>1, AppendedIs
  <2>3. Len(d.ids) = n
    BY <1>2
  <2> QED
    BY <2>2, <2>3
<1> HIDE DEF u
<1>4. d.ids \in Seq(Nat)
  BY <1>2, WorkIs
<1>5. /\ Len(u.ids) = n + 1 /\ u.ids[n + 1] = x
      /\ \A j \in 1..n : u.ids[j] = d.ids[j]
  <2> DEFINE o == d.ids
  <2>1. o \in Seq(Nat) /\ Len(o) = n /\ u.ids = Append(o, x)
    BY <1>2, <1>3, <1>4
  <2>2. \A j \in 1..n : u.ids[j] = o[j]
    <3> HIDE DEF o
    <3> QED
      BY <1>1, <2>1, AppendProperties
  <2>3. Len(u.ids) = n + 1 /\ u.ids[n + 1] = x
    <3> HIDE DEF o
    <3> QED
      BY <1>1, <2>1, AppendProperties
  <2> QED
    BY <2>2, <2>3
<1>6. /\ \A j \in 1..(n + 1) : j = n + 1 \/ j \in 1..n
      /\ \A j \in 1..n : j = n \/ j \in 1..(n - 1)
      /\ 1 \in 1..n /\ n \in 1..n /\ n + 1 # n
  BY <1>1
<1>7. \A j \in 1..(m + i) : u.ids[j] = IF j <= m THEN c.ids[j] ELSE id + j - m - 1
  <2> SUFFICES ASSUME NEW j \in 1..(n + 1)
               PROVE  u.ids[j] = IF j <= m THEN c.ids[j] ELSE id + j - m - 1
    BY <1>1
  <2>1. CASE j \in 1..n
    BY <1>2, <1>5, <2>1
  <2>2. CASE j = n + 1
    <3>1. ~ (j <= m) /\ id + j - m - 1 = x
      BY <1>1, <2>2 DEF x, n
    <3> QED
      BY <1>5, <2>2, <3>1
  <2> QED
    BY <1>6, <2>1, <2>2
<1>8. u.info = ChainInfo(u.ids[1], u.ids[m + i], m + i)
  <2>1. d.info.first = d.ids[1] /\ d.info.count = n
    BY <1>2 DEF ChainInfo
  <2> QED
    BY <1>1, <1>3, <1>5, <1>6, <2>1
<1>9. Linked(u.ids, u.blocks, 1, m + i)
  <2> SUFFICES ASSUME NEW j \in 1..(n + 1)
               PROVE  /\ u.blocks[j].prev = IF j = 1 THEN u.ids[1] ELSE u.ids[j - 1]
                      /\ u.blocks[j].next = IF j = n + 1 THEN u.ids[n + 1] ELSE u.ids[j + 1]
    BY <1>1 DEF Linked
  <2>1. \A a \in 1..n : /\ d.blocks[a].prev = IF a = 1 THEN d.ids[1] ELSE d.ids[a - 1]
                        /\ d.blocks[a].next = IF a = n THEN d.ids[n] ELSE d.ids[a + 1]
    BY <1>2 DEF Linked
  <2>2. CASE j = n + 1
    <3>1. j # 1 /\ j - 1 = n
      BY <1>1, <2>2
    <3> QED
      BY <1>3, <1>5, <1>6, <2>2, <3>1
  <2>3. CASE j = n
    <3>1. j - 1 \in 1..n \/ j = 1
      BY <1>1, <2>3
    <3> QED
      BY <1>3, <1>5, <1>6, <2>1, <2>3, <3>1
  <2>4. CASE j \in 1..(n - 1)
    <3>1. (j - 1 \in 1..n \/ j = 1) /\ j + 1 \in 1..n /\ j # n /\ j # n + 1 /\ j \in 1..n
      BY <1>1, <2>4
    <3> QED
      BY <1>3, <1>5, <1>6, <2>1, <2>4, <3>1
  <2> QED
    BY <1>6, <2>2, <2>3, <2>4
<1>10. m \in u.modified
  <2>1. i - 1 > 0 \/ n = m
    BY <1>1 DEF n
  <2> QED
    BY <1>2, <1>3, <2>1
<1>11. \A j \in 1..m : j \notin u.modified =>
              u.blocks[j].prev = c.blocks[j].prev /\ u.blocks[j].next = c.blocks[j].next
  <2> SUFFICES ASSUME NEW j \in 1..m, j \notin u.modified
               PROVE  u.blocks[j].prev = c.blocks[j].prev /\ u.blocks[j].next = c.blocks[j].next
    OBVIOUS
  <2>1. j \notin d.modified /\ j # n /\ j \in 1..(n - 1)
    BY <1>1, <1>3, <1>6
  <2> QED
    BY <1>2, <1>3, <2>1
<1>12. IsGrown(c, u, i, id)
  BY <1>1, <1>2, <1>3, <1>5, <1>7, <1>8, <1>9, <1>10, <1>11 DEF IsGrown, m
<1> QED
  BY <1>12 DEF u, x

(* The chain after resize_chain.                                           *)
LEMMA ResizedIs ==
    ASSUME NEW c, Len(c.ids) \in Nat \ {0}, NEW id \in Nat, IsGrown(c, c, 0, id),
           NEW n \in Nat, maxItems \in Nat \ {0}
    PROVE  \E more \in Nat :
              /\ IsGrown(c, Resized(c, n, id), more, id)
              /\ Len(c.ids) + more >= CeilDiv(n, maxItems)
              /\ more > 0 => Len(c.ids) + more = CeilDiv(n, maxItems)
<1> DEFINE missing == CeilDiv(n, maxItems) - c.info.count
           N == IF missing < 0 THEN 0 ELSE missing
           D == {d \in Work : \E i \in 0..N : IsGrown(c, d, i, id)}
           step == [i \in 1..N |-> [d \in D |-> IF IsGrown(c, d, i - 1, id)
                                                THEN AppendNewBlock(d, id + i - 1) ELSE d]]
<1>1. CeilDiv(n, maxItems) \in Nat
  BY CeilDivIs
<1>2. c.info.count = Len(c.ids)
  <2>1. c.info = ChainInfo(c.ids[1], c.ids[Len(c.ids) + 0], Len(c.ids) + 0)
    BY DEF IsGrown
  <2> QED
    BY <2>1 DEF ChainInfo
<1>3. /\ N \in Nat /\ Len(c.ids) + N >= CeilDiv(n, maxItems)
      /\ N > 0 => Len(c.ids) + N = CeilDiv(n, maxItems)
  BY <1>1, <1>2
<1> HIDE DEF N
<1>4. /\ \A i \in 1..N : i - 1 \in 0..N /\ i \in 0..N /\ i # 0 /\ i \in Nat \ {0}
      /\ 0 \in 0..N /\ N \in 0..N
  BY <1>3
<1>5. \A i \in 1..N : \A d : IsGrown(c, d, i - 1, id) => IsGrown(c, AppendNewBlock(d, id + i - 1), i, id)
  BY <1>4, AppendGrows
<1>6. \A i \in 0..N : \A d : IsGrown(c, d, i, id) => d \in D
  BY DEF IsGrown
<1> HIDE DEF D
<1>7. StepsIn(N, D, step) /\ c \in D
  <2>1. \A i \in 1..N : \A d \in D : step[i][d] = IF IsGrown(c, d, i - 1, id)
                                                THEN AppendNewBlock(d, id + i - 1) ELSE d
    OBVIOUS
  <2> HIDE DEF step
  <2> QED
    BY <1>4, <1>5, <1>6, <2>1 DEF StepsIn
<1>8. PICK g : GoesOn(g, N, D, c, step)
  <2> HIDE DEF step
  <2> QED
    BY <1>3, <1>7, Recursion
<1> DEFINE Tg == {i \in 0..N : IsGrown(c, g[i], i, id)}
<1>9. \A i \in 1..N : i - 1 \in Tg => g[i] = AppendNewBlock(g[i - 1], id + i - 1) /\ i \in Tg
  <2> SUFFICES ASSUME NEW i \in 1..N, i - 1 \in Tg
               PROVE  g[i] = AppendNewBlock(g[i - 1], id + i - 1) /\ i \in Tg
    OBVIOUS
  <2>1. IsGrown(c, g[i - 1], i - 1, id) /\ g[i - 1] \in D /\ g[i] = step[i][g[i - 1]]
    BY <1>4, <1>6, <1>8 DEF GoesOn
  <2>2. g[i] = AppendNewBlock(g[i - 1], id + i - 1)
    BY <2>1
  <2> QED
    BY <1>4, <1>5, <2>1, <2>2
<1>10. \A i \in 0..N : i \in Tg
  <2>1. 0 \in Tg
    BY <1>4, <1>8 DEF GoesOn
  <2> HIDE DEF Tg
  <2> QED
    BY <1>3, <1>9, <2>1, CountUp
<1>11. \A i \in 1..N : g[i] = AppendNewBlock(g[i - 1], id + i - 1)
  BY <1>4, <1>9, <1>10
<1> HIDE DEF step
<1> DEFINE More(d, i) == AppendNewBlock(d, id + i - 1)
<1>12. \A f : \A i : Only({More(d, i) : d \in {f[i - 1]}}) = More(f[i - 1], i)
  <2> SUFFICES ASSUME NEW f, NEW i
               PROVE  Only({More(d, i) : d \in {f[i - 1]}}) = More(f[i - 1], i)
    OBVIOUS
  <2> DEFINE x == f[i - 1]
  <2> HIDE DEF More
  <2>1. {More(d, i) : d \in {x}} = {More(x, i)}
    OBVIOUS
  <2> QED
    BY <2>1, OnlyOne
<1> DEFINE grown[i \in 0..N] == IF i = 0 THEN c ELSE Only({More(d, i) : d \in {grown[i - 1]}})
<1>13. g = [i \in 0..N |-> IF i = 0 THEN c ELSE Only({More(d, i) : d \in {g[i - 1]}})]
  <2>1. \A i \in 0..N : i # 0 => i \in 1..N
    BY <1>3
  <2>2. g = [i \in 0..N |-> g[i]] /\ g[0] = c
    BY <1>8 DEF GoesOn
  <2>3. ASSUME NEW i \in 0..N
        PROVE  g[i] = IF i = 0 THEN c ELSE Only({More(d, i) : d \in {g[i - 1]}})
    BY <1>11, <1>12, <2>1, <2>2
  <2> QED
    BY <2>2, <2>3
<1>14. grown = [i \in 0..N |-> IF i = 0 THEN c ELSE Only({More(d, i) : d \in {grown[i - 1]}})]
  <2> HIDE DEF More
  <2> QED
    BY <1>13
<1>15. Resized(c, n, id) = grown[N]
  BY DEF Resized, N
<1> HIDE DEF grown
<1> DEFINE T == {i \in 0..N : IsGrown(c, grown[i], i, id)}
<1>16. \A i \in 0..N : i \in T
  <2>1. 0 \in T
    BY <1>4, <1>14
  <2>2. ASSUME NEW i \in 1..N, i - 1 \in T PROVE i \in T
    <3>1. grown[i] = More(grown[i - 1], i)
      <4> HIDE DEF More
      <4> QED
        BY <1>4, <1>12, <1>14
    <3> QED
      BY <1>4, <1>5, <2>2, <3>1
  <2> HIDE DEF T
  <2> QED
    BY <1>3, <2>1, <2>2, CountUp
<1>17. IsGrown(c, Resized(c, n, id), N, id)
  BY <1>4, <1>15, <1>16
<1> QED
  BY <1>3, <1>17

(* What the places hold when the values are put in.                        *)
IsFilled(bs, N, all) ==
    \A j \in 1..N :
        /\ bs[j].items \in Seq(Values) /\ Range(bs[j].items) \subseteq Range(all)
        /\ j < N => Len(bs[j].items) = maxItems
        /\ N > 1 => bs[j].items # << >>

LEMMA Products ==
    ASSUME NEW i \in Nat, NEW n \in Nat, i <= n, NEW m \in Nat
    PROVE  i * m <= n * m /\ i * m \in Nat /\ n * m \in Nat
<1>1. n * m = i * m + (n - i) * m
  OBVIOUS
<1>2. n - i \in Nat /\ (n - i) * m \in Nat /\ i * m \in Nat
  OBVIOUS
<1> QED
  BY <1>1, <1>2

LEMMA RefilledIs ==
    ASSUME NEW d \in Work, NEW N \in Nat \ {0}, Len(d.blocks) = N, NEW all \in Seq(Values),
           maxItems \in Nat \ {0}, N > 1 => Len(all) > (N - 1) * maxItems
    PROVE  LET u == Refilled(d, all)
           IN  /\ u \in Work /\ u.ids = d.ids /\ u.info = d.info
               /\ u.modified = d.modified /\ u.cuts = d.cuts
               /\ Len(u.blocks) = N /\ IsFilled(u.blocks, N, all)
               /\ \A j \in 1..N : /\ u.blocks[j].prev = d.blocks[j].prev
                                  /\ u.blocks[j].next = d.blocks[j].next
<1> DEFINE Upto(i) == IF i * maxItems < Len(all) THEN i * maxItems ELSE Len(all)
           part(i) == SubSeq(all, (i - 1) * maxItems + 1, Upto(i))
           bs == [i \in DOMAIN d.blocks |-> [d.blocks[i] EXCEPT !.items = part(i)]]
           u == Refilled(d, all)
<1>1. /\ d.blocks \in Seq(Block) /\ d \in Work
      /\ DOMAIN d.blocks = 1..N /\ Len(all) \in Nat /\ DOMAIN all = 1..Len(all)
      /\ \A i \in 1..N : d.blocks[i] \in Block
      /\ N \in Nat /\ N > 0 /\ maxItems \in Nat /\ maxItems > 0
  BY WorkIs, LenProperties, ElementOfSeq
<1>2. ASSUME NEW i \in 1..N
      PROVE  /\ part(i) \in Seq(Values) /\ Range(part(i)) \subseteq Range(all)
             /\ i < N => Len(part(i)) = maxItems
             /\ N > 1 => part(i) # << >>
  <2> DEFINE a == (i - 1) * maxItems + 1
             b == Upto(i)
  <2>1. i \in Nat /\ i - 1 \in Nat /\ i - 1 <= N - 1 /\ N - 1 \in Nat /\ i <= N
    BY <1>1
  <2>2. (i - 1) * maxItems \in Nat /\ i * maxItems = (i - 1) * maxItems + maxItems
        /\ (i - 1) * maxItems <= (N - 1) * maxItems /\ i * maxItems \in Nat
    BY <1>1, <2>1, Products
  <2>3. a \in Nat \ {0} /\ b \in Nat /\ b <= Len(all)
    BY <1>1, <2>2
  <2>4. i < N => i * maxItems < Len(all)
    <3> SUFFICES ASSUME i < N PROVE i * maxItems < Len(all)
      OBVIOUS
    <3>1. i <= N - 1 /\ N > 1
      BY <1>1, <2>1
    <3>2. i * maxItems <= (N - 1) * maxItems /\ (N - 1) * maxItems \in Nat
      BY <1>1, <2>1, <3>1, Products
    <3> QED
      BY <1>1, <2>2, <3>1, <3>2, SMTT(30)
  <2>5. i < N => b = i * maxItems
    BY <2>4
  <2>6. N > 1 => a <= b
    <3> SUFFICES ASSUME N > 1 PROVE a <= b
      OBVIOUS
    <3>1. (i - 1) * maxItems < Len(all)
      <4>1. (N - 1) * maxItems \in Nat
        BY <1>1, <2>1, Products
      <4> QED
        BY <1>1, <2>2, <4>1
    <3> QED
      BY <1>1, <2>2, <3>1
  <2>7. part(i) = SubSeq(all, a, b)
    OBVIOUS
  <2>8. a \in 1..(Len(all) + 1) \/ a > b
    BY <2>3, <1>1
  <2> HIDE DEF a, b, part, Upto
  <2>9. SubSeq(all, a, b) \in Seq(Values) /\ Len(SubSeq(all, a, b)) = IF a <= b THEN b - a + 1 ELSE 0
    BY <1>1, <2>3, <2>8
  <2>10. Range(SubSeq(all, a, b)) \subseteq Range(all)
    BY <2>3, RangeOfSubSeq
  <2>11. i < N => Len(SubSeq(all, a, b)) = maxItems
    <3> SUFFICES ASSUME i < N PROVE Len(SubSeq(all, a, b)) = maxItems
      OBVIOUS
    <3>1. N > 1
      BY <1>1, <2>1
    <3> QED
      BY <1>1, <2>2, <2>5, <2>6, <2>9, <3>1 DEF a
  <2>12. N > 1 => SubSeq(all, a, b) # << >>
    <3> SUFFICES ASSUME N > 1 PROVE Len(SubSeq(all, a, b)) # 0
      BY <2>9
    <3> QED
      BY <2>3, <2>6, <2>9
  <2> QED
    BY <2>7, <2>9, <2>10, <2>11, <2>12
<1>3. u = [d EXCEPT !.blocks = bs]
  BY DEF Refilled
<1> HIDE DEF part, Upto, u
<1>4. \A i \in 1..N :
          /\ bs[i] \in Block /\ bs[i].items = part(i)
          /\ bs[i].prev = d.blocks[i].prev /\ bs[i].next = d.blocks[i].next
  <2> SUFFICES ASSUME NEW i \in 1..N
               PROVE  /\ bs[i] \in Block /\ bs[i].items = part(i)
                      /\ bs[i].prev = d.blocks[i].prev /\ bs[i].next = d.blocks[i].next
    OBVIOUS
  <2>1. bs[i] = [d.blocks[i] EXCEPT !.items = part(i)]
    BY <1>1
  <2> HIDE DEF bs
  <2> QED
    BY <1>1, <1>2, <2>1, BlockRefilled
<1>5. bs \in Seq(Block) /\ Len(bs) = N
  <2>1. bs = [i \in 1..N |-> bs[i]]
    BY <1>1
  <2> HIDE DEF bs
  <2> QED
    BY <1>1, <1>4, <2>1
<1> HIDE DEF bs
<1>6. /\ u \in Work /\ u.ids = d.ids /\ u.info = d.info /\ u.blocks = bs
      /\ u.modified = d.modified /\ u.cuts = d.cuts
  <2> DEFINE A == Seq(Nat)
             B == Seq(Block)
             C == Limits
             D == SUBSET Nat
             E == Seq([hash : Nat, info : Limits])
  <2>1. Work = [ids : A, blocks : B, info : C, modified : D, cuts : E] /\ bs \in B
    BY <1>5 DEF Work
  <2> HIDE DEF A, B, C, D, E
  <2> QED
    BY <1>1, <1>3, <2>1
<1>7. IsFilled(u.blocks, N, all)
  BY <1>2, <1>4, <1>6 DEF IsFilled
<1> QED
  BY <1>4, <1>5, <1>6, <1>7 DEF u

LEMMA RestIs ==
    ASSUME NEW d \in Work, NEW N \in Nat, Len(d.blocks) = N, d.info.count \in 1..N
    PROVE  /\ Len(Rest(d)) = d.info.count
           /\ PartitionedBlock(Rest(d)) # 0 => PartitionedBlock(Rest(d)) \in 1..(d.info.count - 1)
<1> DEFINE q == d.info.count
           s == d.blocks
<1>1. s \in Seq(Block) /\ Len(s) = N /\ q \in Nat /\ q > 0 /\ q <= N
  BY WorkIs
<1>2. Len(Rest(d)) = q
  <2>1. Rest(d) = SubSeq(s, 1, q)
    BY DEF Rest
  <2> HIDE DEF s, q
  <2> QED
    BY <1>1, <2>1
<1>3. PartitionedBlock(Rest(d)) \in 0..(q - 1)
  <2> DEFINE r == Rest(d)
  <2> HIDE DEF q
  <2>1. Len(r) \in Nat \ {0} /\ Len(r) = q
    BY <1>1, <1>2
  <2> HIDE DEF r
  <2>2. PartitionedBlock(r) \in 0..(Len(r) - 1)
    BY <2>1, PartitionedBlockIsOne
  <2> QED
    BY <2>1, <2>2 DEF r
<1> QED
  BY <1>1, <1>2, <1>3

LEMMA CutIs ==
    ASSUME NEW d \in Work, NEW N \in Nat, Len(d.blocks) = N, Len(d.ids) = N,
           d.info.count \in 1..N, PartitionedBlock(Rest(d)) # 0,
           \A j \in 1..N : d.blocks[j].items # << >>
    PROVE  LET p == PartitionedBlock(Rest(d))
               u == CutOff(d)
           IN  /\ p \in 1..(d.info.count - 1)
               /\ u \in Work /\ u.ids = d.ids /\ Len(u.blocks) = N
               /\ u.info = ChainInfo(d.info.first, d.ids[p], p)
               /\ u.modified = d.modified \cup {p, p + 1}
               /\ \E h \in Nat : u.cuts = Append(d.cuts, [hash |-> h,
                         info |-> ChainInfo(d.ids[p + 1], d.info.last, d.info.count - p)])
               /\ \A j \in 1..N :
                     /\ u.blocks[j].items = d.blocks[j].items
                     /\ u.blocks[j].next = IF j = p THEN d.ids[p] ELSE d.blocks[j].next
                     /\ u.blocks[j].prev = IF j = p + 1 THEN d.ids[p + 1] ELSE d.blocks[j].prev
<1> DEFINE p == PartitionedBlock(Rest(d))
           u == CutOff(d)
           q == d.info.count
           h == FirstHash(d.blocks[p + 1])
           b == [d.blocks EXCEPT ![p].next = d.ids[p]]
           e == [b EXCEPT ![p + 1].prev = d.ids[p + 1]]
           i == ChainInfo(d.info.first, d.ids[p], p)
           cut == [hash |-> h, info |-> ChainInfo(d.ids[p + 1], d.info.last, q - p)]
           k == Append(d.cuts, cut)
           m == d.modified \cup {p, p + 1}
<1>1. /\ d.ids \in Seq(Nat) /\ d.blocks \in Seq(Block) /\ d.info \in Limits
      /\ d.modified \in SUBSET Nat /\ d.cuts \in Seq([hash : Nat, info : Limits])
  BY WorkIs
<1>2. p \in 1..(q - 1)
  BY RestIs
<1> HIDE DEF p
<1>3. /\ p \in 1..N /\ p + 1 \in 1..N /\ p \in Nat /\ q - p \in Nat /\ p + 1 # p
      /\ p + 1 \in Nat
  BY <1>2
<1>4. d.ids[p] \in Nat /\ d.ids[p + 1] \in Nat /\ \A j \in 1..N : d.blocks[j] \in Block
  BY <1>1, <1>3, ElementOfSeq
<1>5. h \in Nat
  <2>1. d.blocks[p + 1].items \in Seq(Values) /\ d.blocks[p + 1].items # << >>
    BY <1>3, <1>4 DEF Block
  <2>2. d.blocks[p + 1].items[1] \in Values
    BY <2>1
  <2> QED
    BY <2>2, HashIsNat DEF FirstHash
<1> HIDE DEF h
<1>6. /\ b \in Seq(Block) /\ Len(b) = N
      /\ \A j \in 1..N : /\ b[j] \in Block /\ b[j].items = d.blocks[j].items
                         /\ b[j].next = IF j = p THEN d.ids[p] ELSE d.blocks[j].next
                         /\ b[j].prev = d.blocks[j].prev
  <2> DEFINE x == [d.blocks[p] EXCEPT !.next = d.ids[p]]
  <2>1. x \in Block /\ x.next = d.ids[p] /\ x.prev = d.blocks[p].prev /\ x.items = d.blocks[p].items
    BY <1>3, <1>4, BlockLinked
  <2>2. b = [d.blocks EXCEPT ![p] = x]
    OBVIOUS
  <2> HIDE DEF x, b
  <2>3. b \in Seq(Block) /\ Len(b) = N /\ \A j \in 1..N : b[j] = IF j = p THEN x ELSE d.blocks[j]
    <3>1. p \in 1..Len(d.blocks)
      BY <1>3
    <3> QED
      BY <1>1, <2>1, <2>2, <3>1, ExceptSeq
  <2> QED
    BY <1>4, <2>1, <2>3
<1> HIDE DEF b
<1>7. /\ e \in Seq(Block) /\ Len(e) = N
      /\ \A j \in 1..N : /\ e[j].items = b[j].items
                         /\ e[j].next = b[j].next
                         /\ e[j].prev = IF j = p + 1 THEN d.ids[p + 1] ELSE b[j].prev
  <2> DEFINE x == [b[p + 1] EXCEPT !.prev = d.ids[p + 1]]
  <2>1. x \in Block /\ x.prev = d.ids[p + 1] /\ x.next = b[p + 1].next /\ x.items = b[p + 1].items
    <3>1. b[p + 1] \in Block /\ d.ids[p + 1] \in Nat
      BY <1>3, <1>4, <1>6
    <3> QED
      BY <3>1, BlockLinked
  <2>2. e = [b EXCEPT ![p + 1] = x]
    OBVIOUS
  <2> HIDE DEF x, e
  <2>3. e \in Seq(Block) /\ Len(e) = N /\ \A j \in 1..N : e[j] = IF j = p + 1 THEN x ELSE b[j]
    <3>1. p + 1 \in 1..Len(b)
      BY <1>3, <1>6
    <3> QED
      BY <1>6, <2>1, <2>2, <3>1, ExceptSeq
  <2> QED
    BY <2>1, <2>3
<1>8. i \in Limits /\ m \in SUBSET Nat
  BY <1>1, <1>3, <1>4 DEF ChainInfo, Limits
<1>9. k \in Seq([hash : Nat, info : Limits])
  <2>1. ChainInfo(d.ids[p + 1], d.info.last, q - p) \in Limits
    BY <1>1, <1>3, <1>4 DEF ChainInfo, Limits
  <2>2. cut \in [hash : Nat, info : Limits]
    BY <1>5, <2>1
  <2> HIDE DEF cut
  <2> QED
    BY <1>1, <2>2, AppendProperties
<1>10. u = [d EXCEPT !.blocks = e, !.info = i, !.modified = m, !.cuts = k]
  <2>1. e = [d.blocks EXCEPT ![p].next = d.ids[p], ![p + 1].prev = d.ids[p + 1]]
    BY DEF b
  <2> HIDE DEF e
  <2> QED
    BY <2>1 DEF CutOff, p, h
<1> HIDE DEF u, i, m, k, e
<1>11. u \in Work /\ u.ids = d.ids /\ u.blocks = e /\ u.info = i /\ u.modified = m /\ u.cuts = k
  <2> DEFINE A == Seq(Nat)
             B == Seq(Block)
             C == Limits
             D == SUBSET Nat
             E == Seq([hash : Nat, info : Limits])
  <2>1. Work = [ids : A, blocks : B, info : C, modified : D, cuts : E]
        /\ e \in B /\ i \in C /\ m \in D /\ k \in E
    BY <1>7, <1>8, <1>9 DEF Work
  <2> HIDE DEF A, B, C, D, E
  <2> QED
    BY <1>10, <2>1
<1>12. \A j \in 1..N :
          /\ u.blocks[j].items = d.blocks[j].items
          /\ u.blocks[j].next = IF j = p THEN d.ids[p] ELSE d.blocks[j].next
          /\ u.blocks[j].prev = IF j = p + 1 THEN d.ids[p + 1] ELSE d.blocks[j].prev
  BY <1>6, <1>7, <1>11
<1>13. \E g \in Nat : u.cuts = Append(d.cuts, [hash |-> g,
                         info |-> ChainInfo(d.ids[p + 1], d.info.last, d.info.count - p)])
  BY <1>5, <1>11 DEF k
<1> QED
  BY <1>2, <1>7, <1>11, <1>12, <1>13 DEF p, u, i, m

(* The chains cut off from d, the blocks from a place in lo to one in hi.  *)
CutsAt(d, lo, hi) ==
    /\ \A j \in 1..Len(d.cuts) :
          IsSegment(d, d.cuts[j].info, lo[j], hi[j]) /\ lo[j] > d.info.count
    /\ \A i, j \in 1..Len(d.cuts) : i # j => hi[i] < lo[j] \/ hi[j] < lo[i]

(* What f has become by cuts.                                              *)
IsCut(f, N, d) ==
    /\ d \in Work /\ d.ids = f.ids /\ Len(d.ids) = N /\ Len(d.blocks) = N
    /\ f.modified \subseteq d.modified
    /\ \A j \in 1..N :
          /\ d.blocks[j].items = f.blocks[j].items
          /\ j \notin d.modified => /\ d.blocks[j].prev = f.blocks[j].prev
                                    /\ d.blocks[j].next = f.blocks[j].next
    /\ IsSegment(d, d.info, 1, d.info.count)
    /\ \E lo, hi : CutsAt(d, lo, hi)

LEMMA CutKeeps ==
    ASSUME NEW f, NEW N \in Nat, NEW d, IsCut(f, N, d), ShouldSplit(d.info, Rest(d)),
           N > 1 => \A j \in 1..N : f.blocks[j].items # << >>
    PROVE  IsCut(f, N, CutOff(d))
<1> DEFINE p == PartitionedBlock(Rest(d))
           u == CutOff(d)
           q == d.info.count
           K == Len(d.cuts)
<1>1. /\ d \in Work /\ d.ids = f.ids /\ Len(d.ids) = N /\ Len(d.blocks) = N
      /\ f.modified \subseteq d.modified
      /\ \A j \in 1..N :
          /\ d.blocks[j].items = f.blocks[j].items
          /\ j \notin d.modified => /\ d.blocks[j].prev = f.blocks[j].prev
                                    /\ d.blocks[j].next = f.blocks[j].next
      /\ IsSegment(d, d.info, 1, q)
  BY DEF IsCut
<1>2. PICK lo, hi : CutsAt(d, lo, hi)
  BY DEF IsCut
<1>3. q \in 1..N /\ d.info = ChainInfo(d.ids[1], d.ids[q], q) /\ Linked(d.ids, d.blocks, 1, q)
  BY <1>1 DEF IsSegment
<1>4. PartitionedBlock(Rest(d)) # 0 /\ N > 1
  BY <1>1, <1>3 DEF ShouldSplit, MaxBlocksPerChain
<1>5. /\ p \in 1..(q - 1)
      /\ u \in Work /\ u.ids = d.ids /\ Len(u.blocks) = N
      /\ u.info = ChainInfo(d.info.first, d.ids[p], p)
      /\ u.modified = d.modified \cup {p, p + 1}
      /\ \E h \in Nat : u.cuts = Append(d.cuts, [hash |-> h,
                info |-> ChainInfo(d.ids[p + 1], d.info.last, d.info.count - p)])
      /\ \A j \in 1..N :
            /\ u.blocks[j].items = d.blocks[j].items
            /\ u.blocks[j].next = IF j = p THEN d.ids[p] ELSE d.blocks[j].next
            /\ u.blocks[j].prev = IF j = p + 1 THEN d.ids[p + 1] ELSE d.blocks[j].prev
  <2>1. \A j \in 1..N : d.blocks[j].items # << >>
    BY <1>1, <1>4
  <2> HIDE DEF p, u
  <2> QED
    BY <1>1, <1>3, <1>4, <2>1, CutIs DEF p, u
<1> HIDE DEF p, u, q
<1>6. PICK h \in Nat : u.cuts = Append(d.cuts, [hash |-> h,
                info |-> ChainInfo(d.ids[p + 1], d.info.last, q - p)])
  BY <1>5 DEF q
<1> DEFINE cut == [hash |-> h, info |-> ChainInfo(d.ids[p + 1], d.info.last, q - p)]
<1>7. /\ d.info.first = d.ids[1] /\ d.info.last = d.ids[q] /\ d.info.count = q
      /\ u.info = ChainInfo(d.ids[1], d.ids[p], p) /\ u.info.count = p
      /\ cut.info = ChainInfo(d.ids[p + 1], d.ids[q], q - p)
  BY <1>3, <1>5 DEF ChainInfo
<1>8. /\ K \in Nat /\ Len(u.cuts) = K + 1 /\ u.cuts[K + 1] = cut
      /\ \A j \in 1..K : u.cuts[j] = d.cuts[j]
  <2>1. d.cuts \in Seq([hash : Nat, info : Limits])
    BY <1>1, WorkIs
  <2>2. u.cuts \in Seq([hash : Nat, info : Limits]) /\ u.cuts = Append(d.cuts, cut)
    BY <1>5, <1>6, WorkIs
  <2> DEFINE s == d.cuts
  <2> HIDE DEF cut, s
  <2>3. K = Len(s) /\ u.cuts = Append(s, cut) /\ s \in Seq([hash : Nat, info : Limits])
    BY <2>1, <2>2 DEF s
  <2> HIDE DEF K
  <2>4. K \in Nat /\ Len(u.cuts) = K + 1 /\ u.cuts[K + 1] = cut /\ \A j \in 1..K : u.cuts[j] = s[j]
    BY <2>3
  <2> QED
    BY <2>4 DEF s
<1> HIDE DEF cut, K
<1>9. /\ p \in Nat /\ p > 0 /\ q \in Nat /\ p < q /\ q <= N /\ p \in 1..N /\ p + 1 \in 1..N
      /\ q \in 1..N
      /\ \A j \in 1..p : j \in 1..q /\ j \in 1..N /\ j # p + 1
      /\ \A j \in (p + 1)..q : j \in 1..q /\ j \in 1..N /\ j # p
  BY <1>3, <1>5
<1>10. /\ \A j \in 1..q : /\ d.blocks[j].prev = IF j = 1 THEN d.ids[1] ELSE d.ids[j - 1]
                          /\ d.blocks[j].next = IF j = q THEN d.ids[q] ELSE d.ids[j + 1]
  BY <1>3 DEF Linked
<1>11. IsSegment(u, u.info, 1, p)
  <2>1. 1 \in 1..N /\ p - 1 + 1 = p /\ p \in 1..N
    BY <1>9
  <2>2. ASSUME NEW j \in 1..p
        PROVE  /\ u.blocks[j].prev = IF j = 1 THEN u.ids[1] ELSE u.ids[j - 1]
               /\ u.blocks[j].next = IF j = p THEN u.ids[p] ELSE u.ids[j + 1]
    <3>1. j # q /\ j \in 1..q /\ j \in 1..N /\ j # p + 1
      BY <1>9
    <3>2. u.blocks[j].prev = d.blocks[j].prev
          /\ u.blocks[j].next = IF j = p THEN d.ids[p] ELSE d.blocks[j].next
      BY <1>5, <3>1
    <3>3. d.blocks[j].prev = (IF j = 1 THEN d.ids[1] ELSE d.ids[j - 1])
          /\ d.blocks[j].next = d.ids[j + 1]
      BY <1>10, <3>1
    <3> QED
      BY <1>5, <3>2, <3>3
  <2>3. Linked(u.ids, u.blocks, 1, p)
    BY <2>2 DEF Linked
  <2> QED
    BY <1>1, <1>5, <1>7, <2>1, <2>3 DEF IsSegment
<1>12. IsSegment(u, cut.info, p + 1, q)
  <2>1. p + 1 \in 1..N /\ q - (p + 1) + 1 = q - p /\ q \in (p + 1)..N
    BY <1>9
  <2>2. ASSUME NEW j \in (p + 1)..q
        PROVE  /\ u.blocks[j].prev = IF j = p + 1 THEN u.ids[p + 1] ELSE u.ids[j - 1]
               /\ u.blocks[j].next = IF j = q THEN u.ids[q] ELSE u.ids[j + 1]
    <3>1. j # 1 /\ j \in 1..q /\ j \in 1..N /\ j # p
      BY <1>9
    <3>2. u.blocks[j].next = d.blocks[j].next
          /\ u.blocks[j].prev = IF j = p + 1 THEN d.ids[p + 1] ELSE d.blocks[j].prev
      BY <1>5, <3>1
    <3>3. d.blocks[j].next = (IF j = q THEN d.ids[q] ELSE d.ids[j + 1])
          /\ d.blocks[j].prev = d.ids[j - 1]
      BY <1>10, <3>1
    <3> QED
      BY <1>5, <3>2, <3>3
  <2>3. Linked(u.ids, u.blocks, p + 1, q)
    BY <2>2 DEF Linked
  <2> QED
    BY <1>1, <1>5, <1>7, <2>1, <2>3 DEF IsSegment
<1> DEFINE lo2 == [j \in 1..(K + 1) |-> IF j = K + 1 THEN p + 1 ELSE lo[j]]
           hi2 == [j \in 1..(K + 1) |-> IF j = K + 1 THEN q ELSE hi[j]]
<1>13. /\ lo2[K + 1] = p + 1 /\ hi2[K + 1] = q
       /\ \A j \in 1..K : lo2[j] = lo[j] /\ hi2[j] = hi[j] /\ j # K + 1
       /\ \A j \in 1..(K + 1) : j = K + 1 \/ j \in 1..K
  BY <1>8
<1> HIDE DEF lo2, hi2
<1>14. ASSUME NEW j \in 1..K
       PROVE  /\ IsSegment(u, u.cuts[j].info, lo[j], hi[j]) /\ lo[j] > q /\ lo[j] > p
              /\ hi[j] \in Int /\ lo[j] \in Int /\ q < lo[j]
  <2>1. IsSegment(d, d.cuts[j].info, lo[j], hi[j]) /\ lo[j] > q
    BY <1>2, <1>7 DEF CutsAt, K
  <2>2. lo[j] \in 1..N /\ hi[j] \in lo[j]..N
    BY <1>1, <2>1 DEF IsSegment
  <2>3. lo[j] \in Nat /\ hi[j] \in Nat /\ lo[j] > p /\ q < lo[j]
        /\ \A i \in lo[j]..hi[j] : i \in 1..N /\ i # p /\ i # p + 1
    BY <1>9, <2>1, <2>2
  <2>4. Linked(u.ids, u.blocks, lo[j], hi[j])
    BY <1>5, <2>1, <2>3 DEF IsSegment, Linked
  <2>5. IsSegment(u, u.cuts[j].info, lo[j], hi[j])
    BY <1>1, <1>5, <1>8, <2>1, <2>4 DEF IsSegment
  <2> QED
    BY <2>1, <2>3, <2>5
<1>15. CutsAt(u, lo2, hi2)
  <2>1. ASSUME NEW j \in 1..Len(u.cuts)
        PROVE  IsSegment(u, u.cuts[j].info, lo2[j], hi2[j]) /\ lo2[j] > u.info.count
    <3>1. CASE j = K + 1
      <4>1. p + 1 > p
        BY <1>9
      <4> QED
        BY <1>7, <1>8, <1>12, <1>13, <3>1, <4>1
    <3>2. CASE j \in 1..K
      BY <1>7, <1>13, <1>14, <3>2
    <3> QED
      BY <1>8, <1>13, <3>1, <3>2
  <2>2. ASSUME NEW i \in 1..Len(u.cuts), NEW j \in 1..Len(u.cuts), i # j
        PROVE  hi2[i] < lo2[j] \/ hi2[j] < lo2[i]
    <3>1. CASE i \in 1..K /\ j \in 1..K
      BY <1>2, <1>13, <2>2, <3>1 DEF CutsAt, K
    <3>2. CASE i = K + 1 /\ j \in 1..K
      BY <1>13, <1>14, <3>2
    <3>3. CASE j = K + 1 /\ i \in 1..K
      BY <1>13, <1>14, <3>3
    <3> QED
      BY <1>8, <1>13, <2>2, <3>1, <3>2, <3>3
  <2> QED
    BY <2>1, <2>2 DEF CutsAt
<1>16. \A j \in 1..N :
          /\ u.blocks[j].items = f.blocks[j].items
          /\ j \notin u.modified => /\ u.blocks[j].prev = f.blocks[j].prev
                                    /\ u.blocks[j].next = f.blocks[j].next
  BY <1>1, <1>5
<1>17. IsCut(f, N, u)
  BY <1>1, <1>5, <1>7, <1>11, <1>15, <1>16 DEF IsCut
<1> QED
  BY <1>17 DEF u

LEMMA BalancedIs ==
    ASSUME NEW f, NEW N \in Nat, IsCut(f, N, f),
           N > 1 => \A j \in 1..N : f.blocks[j].items # << >>
    PROVE  IsCut(f, N, Balanced(f))
<1> DEFINE M == Len(f.ids)
           Turn(d) == IF ShouldSplit(d.info, Rest(d)) THEN CutOff(d) ELSE d
           D == {d \in Work : IsCut(f, N, d)}
           step == [i \in 1..M |-> [d \in D |-> Turn(d)]]
<1>1. M \in Nat /\ f \in D
  BY DEF IsCut
<1> HIDE DEF M
<1>2. \A d \in D : Turn(d) \in D
  <2> SUFFICES ASSUME NEW d \in D PROVE Turn(d) \in D
    OBVIOUS
  <2>1. IsCut(f, N, Turn(d))
    BY CutKeeps
  <2> HIDE DEF Turn
  <2> QED
    BY <2>1 DEF IsCut
<1> HIDE DEF D, Turn
<1>3. StepsIn(M, D, step)
  BY <1>2 DEF StepsIn
<1>4. PICK g : GoesOn(g, M, D, f, step)
  <2> HIDE DEF step
  <2> QED
    BY <1>1, <1>3, Recursion
<1>5. \A i \in 1..M : g[i] = Turn(g[i - 1])
  <2> SUFFICES ASSUME NEW i \in 1..M PROVE g[i] = Turn(g[i - 1])
    OBVIOUS
  <2>1. i - 1 \in 0..M
    BY <1>1
  <2>2. g[i - 1] \in D /\ g[i] = step[i][g[i - 1]]
    BY <1>4, <2>1 DEF GoesOn
  <2> QED
    BY <2>2
<1> HIDE DEF step
<1>6. \A t : \A i : Only({Turn(d) : d \in {t[i - 1]}}) = Turn(t[i - 1])
  <2> SUFFICES ASSUME NEW t, NEW i
               PROVE  Only({Turn(d) : d \in {t[i - 1]}}) = Turn(t[i - 1])
    OBVIOUS
  <2> DEFINE x == t[i - 1]
  <2>1. {Turn(d) : d \in {x}} = {Turn(x)}
    OBVIOUS
  <2> QED
    BY <2>1, OnlyOne
<1> DEFINE turn[i \in 0..M] == IF i = 0 THEN f ELSE Only({Turn(d) : d \in {turn[i - 1]}})
<1>7. g = [i \in 0..M |-> IF i = 0 THEN f ELSE Only({Turn(d) : d \in {g[i - 1]}})]
  <2>1. \A i \in 0..M : i # 0 => i \in 1..M
    BY <1>1
  <2>2. g = [i \in 0..M |-> g[i]] /\ g[0] = f
    BY <1>4 DEF GoesOn
  <2>3. ASSUME NEW i \in 0..M
        PROVE  g[i] = IF i = 0 THEN f ELSE Only({Turn(d) : d \in {g[i - 1]}})
    BY <1>5, <1>6, <2>1, <2>2
  <2> QED
    BY <2>2, <2>3
<1>8. turn = [i \in 0..M |-> IF i = 0 THEN f ELSE Only({Turn(d) : d \in {turn[i - 1]}})]
  BY <1>7
<1>9. Balanced(f) = turn[M]
  BY DEF Balanced, M, Turn
<1> HIDE DEF turn
<1> DEFINE T == {i \in 0..M : turn[i] \in D}
<1>10. \A i \in 0..M : i \in T
  <2>1. 0 \in T
    <3>1. 0 \in 0..M
      BY <1>1
    <3> QED
      BY <1>1, <1>8, <3>1
  <2>2. ASSUME NEW i \in 1..M, i - 1 \in T PROVE i \in T
    <3>1. i \in 0..M /\ i # 0
      BY <1>1
    <3>2. turn[i] = Turn(turn[i - 1])
      BY <1>6, <1>8, <3>1
    <3> QED
      BY <1>2, <2>2, <3>1, <3>2
  <2> HIDE DEF T
  <2> QED
    BY <1>1, <2>1, <2>2, CountUp
<1>11. Balanced(f) \in D
  <2>1. M \in 0..M
    BY <1>1
  <2> QED
    BY <1>9, <1>10, <2>1
<1> QED
  BY <1>11 DEF D

(* What has become of the chain old, of whose values and others V tells.   *)
IsDone(d, N, old, id, V) ==
    LET m == Len(old)
    IN  /\ d \in Work /\ Len(d.ids) = N /\ Len(d.blocks) = N /\ m <= N
        /\ \A j \in 1..N : d.ids[j] = IF j <= m THEN old[j] ELSE id + j - m - 1
        /\ IsSegment(d, d.info, 1, d.info.count)
        /\ \E lo, hi : CutsAt(d, lo, hi)
        /\ N > m => m \in d.modified
        /\ \A j \in 1..N :
              /\ d.blocks[j].items \in Seq(Values) /\ Range(d.blocks[j].items) \subseteq V
              /\ j < N => Len(d.blocks[j].items) = maxItems
              /\ N > 1 => d.blocks[j].items # << >>
        /\ \A j \in 1..m : j \notin d.modified =>
              /\ d.blocks[j].prev = file[old[j]].prev
              /\ d.blocks[j].next = file[old[j]].next

(* A chain of the file as it is read.                                      *)
LEMMA ReadIs ==
    ASSUME maxItems \in Nat \ {0}, file \in Seq(Block), NEW info, NEW old,
           IsChain(file, info, old, maxItems), NEW id \in Nat
    PROVE  LET c == ReadChain(info)
               m == Len(old)
           IN  /\ c.ids = old /\ m \in Nat \ {0} /\ IsGrown(c, c, 0, id) /\ Len(c.blocks) = m
               /\ \A j \in 1..m : c.blocks[j] = file[old[j]] /\ c.blocks[j] \in Block
               /\ \A j \in 1..(m - 1) : Len(c.blocks[j].items) = maxItems
               /\ m > 1 => \A j \in 1..m : c.blocks[j].items # << >>
<1> DEFINE c == ReadChain(info)
           m == Len(old)
           bs == [i \in DOMAIN old |-> file[old[i]]]
<1>1. /\ old \in Seq(DOMAIN file) /\ m > 0 /\ m \in Nat
      /\ info = ChainInfo(old[1], old[m], m)
      /\ \A i \in 1..m :
            /\ file[old[i]].prev = IF i = 1 THEN old[1] ELSE old[i - 1]
            /\ file[old[i]].next = IF i = m THEN old[m] ELSE old[i + 1]
            /\ i < m => Len(file[old[i]].items) = maxItems
            /\ m > 1 => file[old[i]].items # << >>
  BY LenProperties DEF IsChain
<1>2. ChainIds(file, info.first) = old
  BY ChainIsWay
<1>3. /\ DOMAIN old = 1..m /\ DOMAIN file = 1..Len(file) /\ Len(file) \in Nat
      /\ \A i \in 1..m : old[i] \in DOMAIN file /\ old[i] \in Nat /\ file[old[i]] \in Block
  BY <1>1, LenProperties, ElementOfSeq
<1>4. c = [ids |-> old, blocks |-> bs, info |-> info, modified |-> {}, cuts |-> << >>]
  BY <1>2 DEF ReadChain
<1>5. bs \in Seq(Block) /\ Len(bs) = m /\ \A j \in 1..m : bs[j] = file[old[j]]
  <2>1. bs = [i \in 1..m |-> file[old[i]]]
    BY <1>3
  <2>2. bs = [i \in 1..m |-> bs[i]] /\ \A i \in 1..m : bs[i] = file[old[i]] /\ bs[i] \in Block
    BY <1>3, <2>1
  <2>3. m \in Nat
    BY <1>1
  <2> HIDE DEF m, bs
  <2>4. bs \in Seq(Block) /\ Len(bs) = m
    BY <2>2, <2>3
  <2> QED
    BY <2>2, <2>4
<1> HIDE DEF c, bs, m
<1>6. c.ids = old /\ c.blocks = bs /\ c.info = info /\ c.modified = {} /\ c.cuts = << >>
  BY <1>4
<1>7. old \in Seq(Nat)
  <2>1. DOMAIN file \subseteq Nat
    BY <1>3
  <2> QED
    BY <1>1, <2>1
<1>8. info \in Limits
  <2>1. 1 \in 1..m /\ m \in 1..m
    BY <1>1
  <2> QED
    BY <1>1, <1>3, <2>1 DEF Limits, ChainInfo
<1>9. c \in Work
  <2>1. << >> \in Seq([hash : Nat, info : Limits]) /\ {} \in SUBSET Nat
    OBVIOUS
  <2> QED
    BY <1>4, <1>5, <1>6, <1>7, <1>8, <2>1, WorkIs
<1>10. Linked(old, bs, 1, m)
  BY <1>1, <1>5 DEF Linked
<1>11. IsGrown(c, c, 0, id)
  <2>1. m + 0 = m /\ m = Len(old)
    BY <1>1 DEF m
  <2>2. \A j \in 1..m : j <= m
    BY <1>1
  <2> QED
    BY <1>1, <1>5, <1>6, <1>9, <1>10, <2>1, <2>2 DEF IsGrown
<1>12. \A j \in 1..(m - 1) : j \in 1..m /\ j < m
  BY <1>1
<1>13. /\ \A j \in 1..m : c.blocks[j] = file[old[j]] /\ c.blocks[j] \in Block
       /\ Len(c.blocks) = m
  BY <1>3, <1>5, <1>6
<1>14. /\ \A j \in 1..(m - 1) : Len(c.blocks[j].items) = maxItems
       /\ m > 1 => \A j \in 1..m : c.blocks[j].items # << >>
  <2>1. \A j \in 1..(m - 1) : Len(file[old[j]].items) = maxItems
    BY <1>1, <1>12
  <2>2. m > 1 => \A j \in 1..m : file[old[j]].items # << >>
    BY <1>1
  <2> QED
    BY <1>12, <1>13, <2>1, <2>2
<1>15. m \in Nat \ {0}
  BY <1>1
<1> QED
  BY <1>6, <1>11, <1>13, <1>14, <1>15 DEF c, m

InFile(all) == \A v \in Range(all) : \E b \in DOMAIN file : v \in Range(file[b].items)

HasMerged(d, old, id, all, new) ==
    \E N \in Nat : IsDone(d, N, old, id, Range(all) \cup Vals(Range(new)))

(* merge_into_chain, of the chain and of the requests that are left.       *)
LEMMA MergeWorks ==
    ASSUME maxItems \in Nat \ {0}, file \in Seq(Block), NEW info, NEW old,
           IsChain(file, info, old, maxItems), NEW id \in Nat, NEW new \in Seq(Ask),
           NEW all, all = Elements(ReadChain(info).blocks),
           NEW long, long = Resized(ReadChain(info), Len(all) + Len(new), id),
           NEW full, full = Refilled(long, Merged(all, new))
    PROVE  /\ ReadChain(info).ids = old
           /\ all \in Seq(Values)
           /\ InFile(all)
           /\ HasMerged(Balanced(full), old, id, all, new)
<1> DEFINE c == ReadChain(info)
           m == Len(old)
           merged == Merged(all, new)
<1>1. /\ c.ids = old /\ m \in Nat \ {0} /\ IsGrown(c, c, 0, id) /\ Len(c.blocks) = m
      /\ \A j \in 1..m : c.blocks[j] = file[old[j]] /\ c.blocks[j] \in Block
      /\ \A j \in 1..(m - 1) : Len(c.blocks[j].items) = maxItems
      /\ m > 1 => \A j \in 1..m : c.blocks[j].items # << >>
  <2> HIDE DEF c
  <2> QED
    BY ReadIs DEF c
<1> HIDE DEF c, m
<1>2. \A j \in 1..m : c.blocks[j].items \in Seq(Values)
  BY <1>1 DEF Block
<1>3. /\ all \in Seq(Values)
      /\ \A v \in Range(all) : \E i \in 1..m : v \in Range(c.blocks[i].items)
      /\ Len(all) = (m - 1) * maxItems + Len(c.blocks[m].items)
  <2> DEFINE bs == c.blocks
  <2>1. Len(bs) \in Nat \ {0} /\ \A i \in 1..Len(bs) : bs[i].items \in Seq(Values)
    BY <1>1, <1>2
  <2>2. \A i \in 1..(Len(bs) - 1) : Len(bs[i].items) = maxItems
    BY <1>1
  <2>3. maxItems \in Nat /\ all = Elements(bs) /\ Len(bs) = m
    BY <1>1 DEF c
  <2> HIDE DEF bs
  <2>4. /\ Elements(bs) \in Seq(Values)
        /\ AreOf(Elements(bs), bs)
        /\ Len(Elements(bs)) = (Len(bs) - 1) * maxItems + Len(bs[Len(bs)].items)
    BY <2>1, <2>2, <2>3, ElementsAre
  <2> QED
    BY <2>3, <2>4 DEF bs, AreOf
<1>4. \A v \in Range(all) : \E b \in DOMAIN file : v \in Range(file[b].items)
  <2>1. \A i \in 1..m : old[i] \in DOMAIN file
    <3>1. old \in Seq(DOMAIN file)
      BY DEF IsChain
    <3> QED
      BY <3>1, ElementOfSeq DEF m
  <2> SUFFICES ASSUME NEW v \in Range(all) PROVE \E b \in DOMAIN file : v \in Range(file[b].items)
    OBVIOUS
  <2>2. PICK i \in 1..m : v \in Range(c.blocks[i].items)
    BY <1>3
  <2> QED
    BY <1>1, <2>1, <2>2
<1>5. /\ merged \in Seq(Values) /\ Len(merged) = Len(all) + Len(new)
      /\ Range(merged) \subseteq Range(all) \cup Vals(Range(new))
  BY <1>3, MergedIs
<1> HIDE DEF merged
<1>6. Len(all) \in Nat /\ Len(new) \in Nat /\ Len(all) + Len(new) \in Nat
  BY <1>3, LenProperties
<1> DEFINE n == Len(all) + Len(new)
<1>7. PICK more \in Nat :
          /\ IsGrown(c, long, more, id)
          /\ m + more >= CeilDiv(n, maxItems)
          /\ more > 0 => m + more = CeilDiv(n, maxItems)
  <2>1. Len(c.ids) = m
    BY <1>1 DEF m
  <2>2. long = Resized(c, n, id)
    BY DEF c
  <2>3. n \in Nat
    BY <1>6
  <2>4. Len(c.ids) \in Nat \ {0}
    BY <1>1, <2>1
  <2> HIDE DEF n
  <2>5. PICK more \in Nat :
              /\ IsGrown(c, Resized(c, n, id), more, id)
              /\ Len(c.ids) + more >= CeilDiv(n, maxItems)
              /\ more > 0 => Len(c.ids) + more = CeilDiv(n, maxItems)
    BY <1>1, <2>3, <2>4, ResizedIs
  <2> QED
    BY <2>1, <2>2, <2>5
<1> DEFINE N == m + more
<1>8. /\ long \in Work /\ Len(long.ids) = N /\ Len(long.blocks) = N
      /\ \A j \in 1..N : long.ids[j] = IF j <= m THEN old[j] ELSE id + j - m - 1
      /\ long.info = ChainInfo(long.ids[1], long.ids[N], N)
      /\ Linked(long.ids, long.blocks, 1, N)
      /\ long.cuts = << >>
      /\ more > 0 => m \in long.modified
      /\ \A j \in 1..m : j \notin long.modified =>
              long.blocks[j].prev = c.blocks[j].prev /\ long.blocks[j].next = c.blocks[j].next
  BY <1>1, <1>7 DEF IsGrown, m
<1>9. N > 1 => Len(merged) > (N - 1) * maxItems
  <2> SUFFICES ASSUME N > 1 PROVE Len(merged) > (N - 1) * maxItems
    OBVIOUS
  <2>1. CASE more > 0
    <3>1. (CeilDiv(n, maxItems) - 1) * maxItems < n
      <4>1. n \in Nat
        BY <1>6
      <4> HIDE DEF n
      <4> QED
        BY <4>1, CeilDivIs
    <3>2. N = CeilDiv(n, maxItems) /\ n = Len(merged) /\ n \in Nat
      BY <1>5, <1>6, <1>7, <2>1
    <3> HIDE DEF N, n
    <3>3. (N - 1) * maxItems < n
      BY <3>1, <3>2
    <3>4. N \in Nat /\ (N - 1) * maxItems \in Int
      BY <1>1, <1>7 DEF N
    <3> QED
      BY <3>2, <3>3, <3>4
  <2>2. CASE more = 0
    <3>1. N = m /\ m > 1 /\ m \in 1..m
      BY <1>1, <2>2
    <3>2. c.blocks[m].items # << >> /\ c.blocks[m].items \in Seq(Values)
      BY <1>1, <1>2, <3>1
    <3>3. Len(c.blocks[m].items) > 0 /\ Len(c.blocks[m].items) \in Nat
      <4> DEFINE s == c.blocks[m].items
      <4>1. s # << >> /\ s \in Seq(Values)
        BY <3>2
      <4> HIDE DEF s
      <4>2. Len(s) > 0 /\ Len(s) \in Nat
        BY <4>1
      <4> QED
        BY <4>2 DEF s
    <3>4. (m - 1) * maxItems \in Nat
      <4>1. m - 1 \in Nat /\ maxItems \in Nat /\ m - 1 <= m - 1
        BY <1>1, <3>1
      <4> QED
        BY <4>1, Products
    <3> DEFINE x == (m - 1) * maxItems
               y == Len(c.blocks[m].items)
    <3>5. Len(merged) = x + y + Len(new) /\ N - 1 = m - 1
      BY <1>3, <1>5, <3>1
    <3> HIDE DEF x, y, N
    <3>6. x \in Nat /\ y \in Nat /\ y > 0 /\ (N - 1) * maxItems = x
      BY <3>3, <3>4, <3>5 DEF x, y
    <3> QED
      BY <1>6, <3>5, <3>6
  <2>3. more > 0 \/ more = 0
    BY <1>7
  <2> QED
    BY <2>1, <2>2, <2>3
<1>10. N \in Nat /\ N > 0 /\ m <= N /\ \A j \in 1..m : j \in 1..N
  BY <1>1, <1>7
<1>11. more > 0 <=> N > m
  BY <1>1, <1>7
<1> HIDE DEF N
<1>12. /\ full \in Work /\ full.ids = long.ids /\ full.info = long.info
       /\ full.modified = long.modified /\ full.cuts = long.cuts
       /\ Len(full.blocks) = N /\ IsFilled(full.blocks, N, merged)
       /\ \A j \in 1..N : /\ full.blocks[j].prev = long.blocks[j].prev
                          /\ full.blocks[j].next = long.blocks[j].next
  <2>1. full = Refilled(long, merged) /\ N \in Nat \ {0}
    BY <1>10 DEF merged
  <2>2. LET u == Refilled(long, merged)
        IN  /\ u \in Work /\ u.ids = long.ids /\ u.info = long.info
            /\ u.modified = long.modified /\ u.cuts = long.cuts
            /\ Len(u.blocks) = N /\ IsFilled(u.blocks, N, merged)
            /\ \A j \in 1..N : /\ u.blocks[j].prev = long.blocks[j].prev
                               /\ u.blocks[j].next = long.blocks[j].next
    BY <1>5, <1>8, <1>9, <2>1, RefilledIs
  <2> QED
    BY <2>1, <2>2
<1>13. IsCut(full, N, full)
  <2>1. full.info.count = N /\ N - 1 + 1 = N /\ 1 \in 1..N /\ N \in 1..N
    BY <1>8, <1>10, <1>12 DEF ChainInfo
  <2>2. Linked(full.ids, full.blocks, 1, N)
    <3>1. \A j \in 1..N :
              /\ long.blocks[j].prev = IF j = 1 THEN long.ids[1] ELSE long.ids[j - 1]
              /\ long.blocks[j].next = IF j = N THEN long.ids[N] ELSE long.ids[j + 1]
      BY <1>8 DEF Linked
    <3>2. full.ids = long.ids
      BY <1>12
    <3>3. \A j \in 1..N : /\ full.blocks[j].prev = long.blocks[j].prev
                          /\ full.blocks[j].next = long.blocks[j].next
      BY <1>12
    <3> QED
      BY <3>1, <3>2, <3>3 DEF Linked
  <2>3. IsSegment(full, full.info, 1, full.info.count)
    BY <1>8, <1>12, <2>1, <2>2 DEF IsSegment
  <2>4. CutsAt(full, << >>, << >>)
    <3>1. Len(full.cuts) = 0
      BY <1>8, <1>12
    <3>2. 1..0 = {}
      OBVIOUS
    <3> QED
      BY <3>1, <3>2 DEF CutsAt
  <2> QED
    BY <1>8, <1>12, <2>3, <2>4 DEF IsCut
<1> DEFINE d == Balanced(full)
<1>14. IsCut(full, N, d)
  <2>1. N > 1 => \A j \in 1..N : full.blocks[j].items # << >>
    BY <1>12 DEF IsFilled
  <2> HIDE DEF d
  <2> QED
    BY <1>10, <1>13, <2>1, BalancedIs DEF d
<1> HIDE DEF d
<1>15. IsDone(d, N, old, id, Range(all) \cup Vals(Range(new)))
  <2>1. /\ d \in Work /\ d.ids = full.ids /\ Len(d.ids) = N /\ Len(d.blocks) = N
        /\ full.modified \subseteq d.modified
        /\ \A j \in 1..N :
              /\ d.blocks[j].items = full.blocks[j].items
              /\ j \notin d.modified => /\ d.blocks[j].prev = full.blocks[j].prev
                                        /\ d.blocks[j].next = full.blocks[j].next
        /\ IsSegment(d, d.info, 1, d.info.count)
        /\ \E lo, hi : CutsAt(d, lo, hi)
    BY <1>14 DEF IsCut
  <2>2. \A j \in 1..N :
              /\ d.blocks[j].items \in Seq(Values)
              /\ Range(d.blocks[j].items) \subseteq Range(all) \cup Vals(Range(new))
              /\ j < N => Len(d.blocks[j].items) = maxItems
              /\ N > 1 => d.blocks[j].items # << >>
    BY <1>5, <1>12, <2>1 DEF IsFilled
  <2>3. \A j \in 1..m : j \notin d.modified =>
              /\ d.blocks[j].prev = file[old[j]].prev
              /\ d.blocks[j].next = file[old[j]].next
    <3> SUFFICES ASSUME NEW j \in 1..m, j \notin d.modified
                 PROVE  /\ d.blocks[j].prev = file[old[j]].prev
                        /\ d.blocks[j].next = file[old[j]].next
      OBVIOUS
    <3>1. j \in 1..N /\ j \notin full.modified /\ j \notin long.modified
      BY <1>10, <1>12, <2>1
    <3>2. long.blocks[j].prev = c.blocks[j].prev /\ long.blocks[j].next = c.blocks[j].next
      BY <1>8, <3>1
    <3>3. c.blocks[j] = file[old[j]]
      BY <1>1
    <3>4. /\ d.blocks[j].prev = long.blocks[j].prev
          /\ d.blocks[j].next = long.blocks[j].next
      BY <1>12, <2>1, <3>1
    <3> QED
      BY <3>2, <3>3, <3>4
  <2>4. N > m => m \in d.modified
    BY <1>8, <1>11, <1>12, <2>1
  <2>5. \A j \in 1..N : d.ids[j] = IF j <= m THEN old[j] ELSE id + j - m - 1
    BY <1>8, <1>12, <2>1
  <2> QED
    BY <1>10, <2>1, <2>2, <2>3, <2>4, <2>5 DEF IsDone, m
<1> QED
  BY <1>1, <1>3, <1>4, <1>10, <1>15 DEF c, d, InFile, HasMerged
-----------------------------------------------------------------------------
(* The chains on disk, with the blocks to be written: those of the index   *)
(* and those cut off in this merge.                                        *)

Disk == file \o newBlocks

Tags(ix, cs) == ({0} \X DOMAIN ix) \cup ({1} \X DOMAIN cs)

InfoOf(ix, cs, t) == IF t[1] = 0 THEN ix[t[2]] ELSE cs[t[2]].info

(* Each has the blocks F says; no two share one.                           *)
AreChains(bs, ix, cs, F, max) ==
    /\ \A t \in Tags(ix, cs) : IsChain(bs, InfoOf(ix, cs, t), F[t], max)
    /\ \A t, u \in Tags(ix, cs) : t # u => Range(F[t]) \cap Range(F[u]) = {}

(* The blocks with the numbers ids are linked as those of d and filled.    *)
IsWritten(bs, ids, d, N, max) ==
    /\ ids \in Seq(DOMAIN bs) /\ Len(ids) = N /\ NoRepeats(ids)
    /\ \A j \in 1..N :
          /\ bs[ids[j]].prev = d.blocks[j].prev /\ bs[ids[j]].next = d.blocks[j].next
          /\ j < N => Len(bs[ids[j]].items) = max
          /\ N > 1 => bs[ids[j]].items # << >>

(* All of s is found between two places of ids.                            *)
IsWithin(s, ids, lo, hi) == \A e \in Range(s) : \E j \in lo..hi : e = ids[j]

(* The file with the blocks at some places of the chain d written over.    *)
Overwritten(places, old, d) ==
    [b \in DOMAIN file |-> IF \E i \in places : old[i] = b
                          THEN d.blocks[CHOOSE i \in places : old[i] = b]
                          ELSE file[b]]

(* The blocks that are not of the chain old stay.                          *)
KeepsElse(bs, old) ==
    \A b \in DOMAIN Disk : b \in DOMAIN bs /\ (b \notin Range(old) => bs[b] = Disk[b])

TakesNew(ids, N, old) == \A j \in 1..N : ids[j] \in Range(old) \/ ids[j] \notin DOMAIN Disk

SameOrOf(bs, V) ==
    \A b \in DOMAIN bs : \/ Range(bs[b].items) \subseteq V
                         \/ b \in DOMAIN Disk /\ bs[b] = Disk[b]

LEMMA SegmentIsChain ==
    ASSUME NEW bs, NEW d, NEW N \in Nat, NEW max, IsWritten(bs, d.ids, d, N, max),
           NEW info, NEW lo, NEW hi, IsSegment(d, info, lo, hi)
    PROVE  /\ IsChain(bs, info, SubSeq(d.ids, lo, hi), max)
           /\ IsWithin(SubSeq(d.ids, lo, hi), d.ids, lo, hi)
<1> DEFINE I == d.ids
           s == SubSeq(I, lo, hi)
           n == hi - lo + 1
<1>1. /\ I \in Seq(DOMAIN bs) /\ Len(I) = N /\ NoRepeats(I) /\ DOMAIN I = 1..N
      /\ \A j \in 1..N :
            /\ bs[I[j]].prev = d.blocks[j].prev /\ bs[I[j]].next = d.blocks[j].next
            /\ j < N => Len(bs[I[j]].items) = max
            /\ N > 1 => bs[I[j]].items # << >>
  BY LenProperties DEF IsWritten
<1>2. /\ lo \in 1..N /\ hi \in lo..N
      /\ info = ChainInfo(I[lo], I[hi], hi - lo + 1)
      /\ \A i \in lo..hi :
            /\ d.blocks[i].prev = IF i = lo THEN I[lo] ELSE I[i - 1]
            /\ d.blocks[i].next = IF i = hi THEN I[hi] ELSE I[i + 1]
  BY <1>1 DEF IsSegment, Linked
<1> HIDE DEF I
<1>3. /\ lo \in Nat /\ hi \in Nat /\ lo > 0 /\ lo <= hi /\ hi <= N /\ n \in Nat /\ n > 0
      /\ \A i \in 1..n : lo + i - 1 \in lo..hi /\ lo + i - 1 \in 1..N
      /\ \A j \in lo..hi : j - lo + 1 \in 1..n /\ lo + (j - lo + 1) - 1 = j
  BY <1>2
<1>4. s \in Seq(DOMAIN bs) /\ Len(s) = n /\ DOMAIN s = 1..n /\ \A i \in 1..n : s[i] = I[lo + i - 1]
  <2>1. \A i \in lo..hi : I[i] \in DOMAIN bs
    <3>1. \A i \in lo..hi : i \in 1..N
      BY <1>3
    <3> QED
      BY <1>1, <3>1, ElementOfSeq
  <2>2. s \in Seq(DOMAIN bs) /\ Len(s) = n /\ \A i \in 1..n : s[i] = I[lo + i - 1]
    <3>1. lo \in Int /\ hi \in Int
      BY <1>3
    <3> HIDE DEF n
    <3>2. /\ SubSeq(I, lo, hi) \in Seq(DOMAIN bs)
          /\ Len(SubSeq(I, lo, hi)) = IF lo <= hi THEN hi - lo + 1 ELSE 0
          /\ \A i \in 1..(hi - lo + 1) : SubSeq(I, lo, hi)[i] = I[lo + i - 1]
      BY <2>1, <3>1, SubSeqProperties
    <3> QED
      BY <1>3, <3>2 DEF n
  <2> HIDE DEF s
  <2> QED
    BY <2>2, LenProperties
<1> HIDE DEF s
<1>5. NoRepeats(s)
  <2> SUFFICES ASSUME NEW i \in 1..n, NEW j \in 1..n, s[i] = s[j] PROVE i = j
    BY <1>4 DEF NoRepeats
  <2>1. I[lo + i - 1] = I[lo + j - 1] /\ lo + i - 1 \in DOMAIN I /\ lo + j - 1 \in DOMAIN I
    BY <1>1, <1>3, <1>4
  <2>2. lo + i - 1 = lo + j - 1
    BY <1>1, <2>1 DEF NoRepeats
  <2> QED
    BY <1>3, <2>2
<1>6. s[1] = I[lo] /\ s[n] = I[hi] /\ 1 \in 1..n /\ n \in 1..n
  <2>1. 1 \in 1..n /\ n \in 1..n /\ lo + 1 - 1 = lo /\ lo + n - 1 = hi
    BY <1>3
  <2> QED
    BY <1>4, <2>1
<1>7. ASSUME NEW i \in 1..n
      PROVE  /\ bs[s[i]].prev = IF i = 1 THEN s[1] ELSE s[i - 1]
             /\ bs[s[i]].next = IF i = n THEN s[n] ELSE s[i + 1]
             /\ i < n => Len(bs[s[i]].items) = max
             /\ n > 1 => bs[s[i]].items # << >>
  <2> DEFINE j == lo + i - 1
  <2>1. j \in lo..hi /\ j \in 1..N /\ s[i] = I[j]
    BY <1>3, <1>4
  <2>2. /\ i # 1 => i - 1 \in 1..n /\ lo + (i - 1) - 1 = j - 1 /\ j # lo
        /\ i # n => i + 1 \in 1..n /\ lo + (i + 1) - 1 = j + 1 /\ j # hi
        /\ i = 1 => j = lo
        /\ i = n => j = hi
        /\ i < n => j < N
        /\ n > 1 => N > 1
    BY <1>3
  <2> HIDE DEF j
  <2>3. bs[s[i]].prev = IF i = 1 THEN s[1] ELSE s[i - 1]
    BY <1>1, <1>2, <1>4, <1>6, <2>1, <2>2
  <2>4. bs[s[i]].next = IF i = n THEN s[n] ELSE s[i + 1]
    BY <1>1, <1>2, <1>4, <1>6, <2>1, <2>2
  <2> QED
    BY <1>1, <2>1, <2>2, <2>3, <2>4
<1>8. IsChain(bs, info, s, max)
  <2> HIDE DEF n
  <2>1. info = ChainInfo(s[1], s[n], n)
    BY <1>2, <1>6 DEF n
  <2> QED
    BY <1>3, <1>4, <1>5, <1>7, <2>1 DEF IsChain
<1>9. \A e \in Range(s) : \E j \in lo..hi : e = I[j]
  <2>1. \A i \in 1..n : \E j \in lo..hi : s[i] = I[j]
    BY <1>3, <1>4
  <2> HIDE DEF n
  <2> QED
    BY <1>4, <2>1 DEF Range
<1> QED
  BY <1>8, <1>9 DEF s, I, IsWithin

(* What WriteBack leaves on disk and to be written.                        *)
LEMMA WrittenBack ==
    ASSUME file \in Seq(Block), newBlocks \in Seq(Block), NEW info, NEW old,
           IsChain(file, info, old, maxItems), maxItems \in Nat \ {0},
           NEW N \in Nat, NEW V, NEW d,
           IsDone(d, N, old, Len(file) + Len(newBlocks) + 1, V),
           NEW places, places \subseteq DOMAIN old, DOMAIN old \cap d.modified \subseteq places,
           NEW written, written = Overwritten(places, old, d),
           NEW kept, kept = newBlocks \o SubSeq(d.blocks, Len(old) + 1, Len(d.blocks))
    PROVE  LET bs == written \o kept
           IN  /\ written \in Seq(Block) /\ kept \in Seq(Block) /\ Len(written) = Len(file)
               /\ IsWritten(bs, d.ids, d, N, maxItems)
               /\ KeepsElse(bs, old) /\ TakesNew(d.ids, N, old) /\ SameOrOf(bs, V)
<1> DEFINE m == Len(old)
           x == Len(file)
           y == Len(newBlocks)
           tail == SubSeq(d.blocks, m + 1, N)
           bs == written \o kept
<1>1. /\ x \in Nat /\ y \in Nat /\ DOMAIN file = 1..x /\ DOMAIN newBlocks = 1..y
      /\ \A b \in 1..x : file[b] \in Block
  BY LenProperties, ElementOfSeq
<1>2. /\ old \in Seq(1..x) /\ m \in Nat /\ m > 0 /\ NoRepeats(old) /\ DOMAIN old = 1..m
      /\ \A i \in 1..m :
            /\ i < m => Len(file[old[i]].items) = maxItems
            /\ m > 1 => file[old[i]].items # << >>
      /\ \A i \in 1..m : old[i] \in 1..x
  <2>1. old \in Seq(1..x)
    BY <1>1 DEF IsChain
  <2> QED
    BY <2>1, LenProperties, ElementOfSeq DEF IsChain
<1>3. /\ d.ids \in Seq(Nat) /\ d.blocks \in Seq(Block) /\ d.modified \in SUBSET Nat
      /\ Len(d.ids) = N /\ Len(d.blocks) = N /\ m <= N
      /\ \A j \in 1..N : d.ids[j] = IF j <= m THEN old[j] ELSE (x + y + 1) + j - m - 1
      /\ N > m => m \in d.modified
      /\ \A j \in 1..N :
            /\ d.blocks[j].items \in Seq(Values) /\ Range(d.blocks[j].items) \subseteq V
            /\ j < N => Len(d.blocks[j].items) = maxItems
            /\ N > 1 => d.blocks[j].items # << >>
      /\ \A j \in 1..m : j \notin d.modified =>
            /\ d.blocks[j].prev = file[old[j]].prev
            /\ d.blocks[j].next = file[old[j]].next
  BY WorkIs DEF IsDone
<1> HIDE DEF m, x, y
<1>4. \A j \in 1..N : d.blocks[j] \in Block
  BY <1>3, ElementOfSeq
<1>5. \A i \in places : (CHOOSE j \in places : old[j] = old[i]) = i
  BY <1>2 DEF NoRepeats
<1>6. /\ \A b \in 1..x : (\A i \in places : old[i] # b) => written[b] = file[b]
      /\ \A i \in places : written[old[i]] = d.blocks[i]
      /\ \A b \in 1..x : written[b] = file[b] \/ \E i \in places : b = old[i] /\ written[b] = d.blocks[i]
  <2>1. \A b \in 1..x : written[b] = IF \E i \in places : old[i] = b
                         THEN d.blocks[CHOOSE i \in places : old[i] = b]
                         ELSE file[b]
    BY <1>1 DEF Overwritten
  <2>2. \A i \in places : written[old[i]] = d.blocks[i]
    <3> SUFFICES ASSUME NEW i \in places PROVE written[old[i]] = d.blocks[i]
      OBVIOUS
    <3>1. old[i] \in 1..x
      BY <1>2
    <3>2. written[old[i]] = d.blocks[CHOOSE j \in places : old[j] = old[i]]
      BY <2>1, <3>1
    <3> QED
      BY <1>5, <3>2
  <2>3. \A b \in 1..x : (\A i \in places : old[i] # b) => written[b] = file[b]
    BY <2>1
  <2>4. ASSUME NEW b \in 1..x, ~ (written[b] = file[b])
        PROVE  \E i \in places : b = old[i] /\ written[b] = d.blocks[i]
    <3>1. PICK i \in places : old[i] = b
      BY <2>3, <2>4
    <3> QED
      BY <2>2, <3>1
  <2> QED
    BY <2>2, <2>3, <2>4
<1>7. written \in Seq(Block) /\ Len(written) = x
  <2>1. \A b \in 1..x : written[b] \in Block
    <3> SUFFICES ASSUME NEW b \in 1..x PROVE written[b] \in Block
      OBVIOUS
    <3>1. CASE written[b] = file[b]
      BY <1>1, <3>1
    <3>2. CASE \E i \in places : written[b] = d.blocks[i]
      <4>1. PICK i \in places : written[b] = d.blocks[i]
        BY <3>2
      <4>2. i \in 1..N
        BY <1>2, <1>3
      <4>3. d.blocks[i] \in Block
        BY <1>4, <4>2
      <4> QED
        BY <4>1, <4>3
    <3>3. written[b] = file[b] \/ \E i \in places : written[b] = d.blocks[i]
      <4>1. written[b] = file[b] \/ \E i \in places : b = old[i] /\ written[b] = d.blocks[i]
        BY <1>6
      <4> QED
        BY <4>1
    <3> QED
      BY <3>1, <3>2, <3>3
  <2>2. written = [b \in 1..x |-> written[b]]
    BY <1>1 DEF Overwritten
  <2> DEFINE w == written
  <2> HIDE DEF w
  <2>3. w \in Seq(Block) /\ Len(w) = x
    <3>1. w = [b \in 1..x |-> w[b]] /\ \A b \in 1..x : w[b] \in Block
      BY <2>1, <2>2 DEF w
    <3>2. x \in Nat
      BY <1>1
    <3> QED
      BY <3>1, <3>2, IsSequence
  <2> QED
    BY <2>3 DEF w
<1>8. /\ tail \in Seq(Block) /\ Len(tail) = N - m
      /\ \A i \in 1..(N - m) : tail[i] = d.blocks[m + i]
  <2>1. m + 1 \in Int /\ N \in Int /\ m + 1 <= N + 1 /\ \A i \in (m + 1)..N : d.blocks[i] \in Block
    BY <1>2, <1>3, <1>4
  <2> DEFINE a == m + 1
             q == d.blocks
  <2>2. a \in Int /\ \A i \in a..N : q[i] \in Block
    BY <2>1
  <2> HIDE DEF a, q
  <2>3. /\ SubSeq(q, a, N) \in Seq(Block)
        /\ Len(SubSeq(q, a, N)) = IF a <= N THEN N - a + 1 ELSE 0
        /\ \A i \in 1..(N - a + 1) : SubSeq(q, a, N)[i] = q[a + i - 1]
    BY <2>2, SubSeqProperties
  <2>4. \A i \in 1..(N - m) : i \in 1..(N - a + 1) /\ a + i - 1 = m + i
    BY <1>2 DEF a
  <2>5. (IF a <= N THEN N - a + 1 ELSE 0) = N - m
    BY <1>2, <1>3 DEF a
  <2> QED
    BY <2>3, <2>4, <2>5 DEF a, q
<1>9. kept = newBlocks \o tail
  BY <1>3 DEF m
<1> HIDE DEF tail
<1>10. /\ kept \in Seq(Block) /\ Len(kept) = y + (N - m)
       /\ \A i \in 1..y : kept[i] = newBlocks[i]
       /\ \A i \in 1..(N - m) : kept[y + i] = tail[i]
  <2> DEFINE s == newBlocks
  <2>0. s \in Seq(Block) /\ Len(s) = y /\ kept = s \o tail
    BY <1>9 DEF y
  <2> HIDE DEF s
  <2>1. /\ s \o tail \in Seq(Block) /\ Len(s \o tail) = Len(s) + Len(tail)
        /\ \A i \in 1..(Len(s) + Len(tail)) :
              (s \o tail)[i] = IF i <= Len(s) THEN s[i] ELSE tail[i - Len(s)]
    BY <1>8, <2>0, ConcatProperties
  <2>2. /\ \A i \in 1..y : i \in 1..(y + (N - m)) /\ i <= y
        /\ \A i \in 1..(N - m) : y + i \in 1..(y + (N - m)) /\ ~ (y + i <= y) /\ (y + i) - y = i
    BY <1>1, <1>2, <1>3
  <2> QED
    <3>1. kept \in Seq(Block) /\ Len(kept) = y + N - m
      <4>1. Len(tail) = N - m
        BY <1>8
      <4> QED
        BY <1>1, <1>2, <1>3, <2>0, <2>1, <4>1
    <3>2. ASSUME NEW i \in 1..y PROVE kept[i] = s[i]
      <4>1. i \in 1..(Len(s) + Len(tail)) /\ i <= Len(s)
        BY <1>8, <2>0, <2>2
      <4> QED
        BY <2>0, <2>1, <4>1
    <3>3. ASSUME NEW i \in 1..(N - m) PROVE kept[y + i] = tail[i]
      <4>1. y + i \in 1..(Len(s) + Len(tail)) /\ ~ (y + i <= Len(s)) /\ (y + i) - Len(s) = i
        BY <1>8, <2>0, <2>2
      <4> QED
        BY <2>0, <2>1, <4>1
    <3> QED
      BY <3>1, <3>2, <3>3 DEF s
<1> DEFINE Z == x + y + (N - m)
<1>11. /\ bs \in Seq(Block) /\ Len(bs) = Z /\ DOMAIN bs = 1..Z
       /\ \A b \in 1..x : bs[b] = written[b]
       /\ \A b \in 1..y : bs[x + b] = newBlocks[b]
       /\ \A i \in 1..(N - m) : bs[x + y + i] = d.blocks[m + i]
  <2> DEFINE w == written
             k == kept
  <2>0. w \in Seq(Block) /\ k \in Seq(Block) /\ Len(w) = x /\ Len(k) = y + (N - m) /\ bs = w \o k
    BY <1>7, <1>10
  <2> HIDE DEF w, k
  <2>1. /\ w \o k \in Seq(Block) /\ Len(w \o k) = Len(w) + Len(k)
        /\ \A i \in 1..(Len(w) + Len(k)) :
              (w \o k)[i] = IF i <= Len(w) THEN w[i] ELSE k[i - Len(w)]
    BY <2>0, ConcatProperties
  <2> HIDE DEF bs
  <2>2. bs \in Seq(Block) /\ Len(bs) = Z /\ DOMAIN bs = 1..Z
    <3>1. bs \in Seq(Block) /\ Len(bs) = Len(w) + Len(k)
      BY <2>0, <2>1
    <3>2. Len(w) + Len(k) = Z
      BY <1>1, <1>2, <1>3, <2>0
    <3> QED
      BY <3>1, <3>2, LenProperties
  <2>3. \A i \in 1..Z : bs[i] = IF i <= x THEN w[i] ELSE k[i - x]
    <3>1. x + (y + (N - m)) = Z
      BY <1>1, <1>2, <1>3
    <3> QED
      BY <2>0, <2>1, <3>1
  <2>4. /\ \A b \in 1..x : b \in 1..Z /\ b <= x
        /\ \A b \in 1..y : x + b \in 1..Z /\ ~ (x + b <= x) /\ (x + b) - x = b
        /\ \A i \in 1..(N - m) : /\ x + y + i \in 1..Z /\ ~ (x + y + i <= x)
                                 /\ (x + y + i) - x = y + i
    BY <1>1, <1>2, <1>3, SMTT(30)
  <2>5. \A b \in 1..x : bs[b] = written[b]
    BY <2>3, <2>4 DEF w
  <2>6. \A b \in 1..y : bs[x + b] = newBlocks[b]
    <3> SUFFICES ASSUME NEW b \in 1..y PROVE bs[x + b] = newBlocks[b]
      OBVIOUS
    <3>1. bs[x + b] = k[(x + b) - x] /\ (x + b) - x = b
      BY <2>3, <2>4
    <3>2. k[b] = newBlocks[b]
      BY <1>10 DEF k
    <3> QED
      BY <3>1, <3>2
  <2>7. \A i \in 1..(N - m) : bs[x + y + i] = d.blocks[m + i]
    <3> SUFFICES ASSUME NEW i \in 1..(N - m) PROVE bs[x + y + i] = d.blocks[m + i]
      OBVIOUS
    <3>1. bs[x + y + i] = k[(x + y + i) - x]
      BY <2>3, <2>4
    <3>2. (x + y + i) - x = y + i
      BY <2>4
    <3>3. k[y + i] = tail[i]
      BY <1>10 DEF k
    <3> QED
      BY <1>8, <3>1, <3>2, <3>3
  <2> QED
    BY <2>2, <2>5, <2>6, <2>7
<1> HIDE DEF bs
<1>12. /\ DOMAIN Disk = 1..(x + y)
       /\ \A b \in 1..x : Disk[b] = file[b]
       /\ \A b \in 1..y : Disk[x + b] = newBlocks[b]
  <2> DEFINE w == file
             k == newBlocks
  <2>0. w \in Seq(Block) /\ k \in Seq(Block) /\ Len(w) = x /\ Len(k) = y /\ Disk = w \o k
    BY DEF x, y, Disk
  <2> HIDE DEF w, k
  <2>1. /\ w \o k \in Seq(Block) /\ Len(w \o k) = Len(w) + Len(k)
        /\ \A i \in 1..(Len(w) + Len(k)) :
              (w \o k)[i] = IF i <= Len(w) THEN w[i] ELSE k[i - Len(w)]
    BY <2>0, ConcatProperties
  <2>2. DOMAIN Disk = 1..(x + y)
    BY <2>0, <2>1, LenProperties
  <2>3. /\ \A b \in 1..x : b \in 1..(x + y) /\ b <= x
        /\ \A b \in 1..y : x + b \in 1..(x + y) /\ ~ (x + b <= x) /\ (x + b) - x = b
    BY <1>1
  <2>4. \A b \in 1..x : Disk[b] = file[b]
    BY <2>0, <2>1, <2>3 DEF w
  <2>5. \A b \in 1..y : Disk[x + b] = k[b]
    <3> SUFFICES ASSUME NEW b \in 1..y PROVE Disk[x + b] = k[b]
      OBVIOUS
    <3>1. x + b \in 1..(Len(w) + Len(k)) /\ ~ (x + b <= Len(w)) /\ (x + b) - Len(w) = b
      BY <2>0, <2>3
    <3>2. (w \o k)[x + b] = k[(x + b) - Len(w)]
      BY <2>1, <3>1
    <3> QED
      BY <2>0, <3>1, <3>2
  <2> QED
    BY <2>2, <2>4, <2>5 DEF k
<1>13. /\ \A j \in 1..m : d.ids[j] = old[j] /\ d.ids[j] \in 1..x /\ j \in 1..N
       /\ \A i \in 1..(N - m) : d.ids[m + i] = x + y + i /\ m + i \in 1..N
       /\ \A j \in 1..N : j \in 1..m \/ \E i \in 1..(N - m) : j = m + i
  <2>1. /\ \A j \in 1..m : j <= m /\ j \in 1..N
        /\ \A i \in 1..(N - m) : /\ m + i \in 1..N /\ ~ (m + i <= m)
                                 /\ (x + y + 1) + (m + i) - m - 1 = x + y + i
    <3>1. x \in Nat /\ y \in Nat /\ m \in Nat /\ m <= N
      BY <1>1, <1>2, <1>3
    <3>2. \A i \in 1..(N - m) : m + i \in 1..N /\ ~ (m + i <= m)
      BY <3>1
    <3>3. \A i \in 1..(N - m) : (x + y + 1) + (m + i) - m - 1 = x + y + i
      BY <3>1
    <3>4. \A j \in 1..m : j <= m /\ j \in 1..N
      BY <3>1
    <3> QED
      BY <3>2, <3>3, <3>4
  <2>2. \A j \in 1..N : j \in 1..m \/ (j - m \in 1..(N - m) /\ j = m + (j - m))
    BY <1>2, <1>3
  <2> QED
    BY <1>2, <1>3, <2>1, <2>2
<1>14. ASSUME NEW j \in 1..N
       PROVE  /\ d.ids[j] \in 1..Z
              /\ bs[d.ids[j]].prev = d.blocks[j].prev /\ bs[d.ids[j]].next = d.blocks[j].next
              /\ j < N => Len(bs[d.ids[j]].items) = maxItems
              /\ N > 1 => bs[d.ids[j]].items # << >>
              /\ d.ids[j] \in Range(old) \/ d.ids[j] \notin 1..(x + y)
  <2>1. CASE j \in 1..m
    <3>1. d.ids[j] = old[j] /\ old[j] \in 1..x /\ bs[old[j]] = written[old[j]]
      BY <1>2, <1>11, <1>13, <2>1
    <3>2. old[j] \in 1..Z /\ old[j] \in Range(old)
      <4>1. 1..x \subseteq 1..Z
        BY <1>1, <1>2, <1>3
      <4> QED
        BY <1>2, <2>1, <3>1, <4>1 DEF Range
    <3>3. CASE j \in places
      <4>1. bs[d.ids[j]] = d.blocks[j]
        BY <1>6, <3>1, <3>3
      <4> QED
        BY <1>3, <3>1, <3>2, <4>1
    <3>4. CASE j \notin places
      <4>1. \A i \in places : old[i] # old[j]
        BY <1>2, <2>1, <3>4 DEF NoRepeats
      <4>2. bs[old[j]] = file[old[j]]
        BY <1>6, <3>1, <4>1
      <4>3. j \notin d.modified
        BY <1>2, <2>1, <3>4
      <4>4. j < N => j < m
        BY <1>2, <1>3, <2>1, <4>3
      <4>5. N > 1 => m > 1
        <5> SUFFICES ASSUME N > 1, m = 1 PROVE FALSE
          BY <1>2
        <5>1. j = m /\ N > m
          BY <2>1
        <5> QED
          BY <1>3, <4>3, <5>1
      <4>6. /\ bs[d.ids[j]].prev = d.blocks[j].prev /\ bs[d.ids[j]].next = d.blocks[j].next
        BY <1>3, <2>1, <3>1, <4>2, <4>3
      <4>7. /\ j < N => Len(bs[d.ids[j]].items) = maxItems
            /\ N > 1 => bs[d.ids[j]].items # << >>
        BY <1>2, <2>1, <3>1, <4>2, <4>4, <4>5
      <4> QED
        BY <3>1, <3>2, <4>6, <4>7
    <3> QED
      BY <3>3, <3>4
  <2>2. CASE \E i \in 1..(N - m) : j = m + i
    <3>1. PICK i \in 1..(N - m) : j = m + i
      BY <2>2
    <3>2. bs[d.ids[j]] = d.blocks[j] /\ d.ids[j] = x + y + i
      BY <1>11, <1>13, <3>1
    <3>3. x + y + i \in 1..Z /\ x + y + i \notin 1..(x + y)
      BY <1>1, <1>2, <1>3
    <3> QED
      BY <1>3, <3>2, <3>3
  <2> QED
    BY <1>13, <2>1, <2>2
<1>15. NoRepeats(d.ids)
  <2>1. DOMAIN d.ids = 1..N
    BY <1>3, LenProperties
  <2> SUFFICES ASSUME NEW i \in 1..N, NEW j \in 1..N, d.ids[i] = d.ids[j] PROVE i = j
    BY <2>1 DEF NoRepeats
  <2>2. CASE i \in 1..m /\ j \in 1..m
    BY <1>2, <1>13, <2>2 DEF NoRepeats
  <2>3. \A a \in 1..m : \A b \in 1..(N - m) : d.ids[a] # d.ids[m + b]
    <3>1. \A b \in 1..(N - m) : x + y + b \notin 1..x
      BY <1>1
    <3> QED
      BY <1>13, <3>1
  <2>4. \A a, b \in 1..(N - m) : d.ids[m + a] = d.ids[m + b] => a = b
    <3>1. \A a, b \in 1..(N - m) : x + y + a = x + y + b => a = b
      BY <1>1
    <3> QED
      BY <1>13, <3>1
  <2>5. CASE (\E a \in 1..(N - m) : i = m + a) /\ \E b \in 1..(N - m) : j = m + b
    BY <2>4, <2>5
  <2>6. CASE i \in 1..m /\ \E b \in 1..(N - m) : j = m + b
    BY <2>3, <2>6
  <2>7. CASE j \in 1..m /\ \E b \in 1..(N - m) : i = m + b
    BY <2>3, <2>7
  <2> QED
    BY <1>13, <2>2, <2>5, <2>6, <2>7
<1>16. IsWritten(bs, d.ids, d, N, maxItems)
  <2>1. d.ids \in Seq(DOMAIN bs)
    <3>1. \A j \in 1..N : d.ids[j] \in 1..Z
      BY <1>14
    <3> DEFINE I == d.ids
    <3>2. I \in Seq(Nat) /\ Len(I) = N /\ \A j \in 1..N : I[j] \in 1..Z
      BY <1>3, <3>1
    <3> HIDE DEF I, Z
    <3>3. I \in Seq(1..Z)
      <4>1. I = [j \in 1..N |-> I[j]]
        BY <3>2, LenProperties
      <4> QED
        BY <3>2, <4>1, IsSequence
    <3> QED
      BY <1>11, <3>3 DEF I
  <2> QED
    BY <1>3, <1>14, <1>15, <2>1 DEF IsWritten
<1>17. ASSUME NEW b \in DOMAIN Disk
       PROVE  b \in DOMAIN bs /\ (b \notin Range(old) => bs[b] = Disk[b])
  <2>1. b \in 1..x \/ \E a \in 1..y : b = x + a
    <3>1. b \in 1..x \/ (b - x \in 1..y /\ b = x + (b - x))
      BY <1>1, <1>12
    <3> QED
      BY <3>1
  <2>2. b \in 1..Z
    BY <1>1, <1>2, <1>3, <1>12
  <2>3. CASE \E a \in 1..y : b = x + a
    BY <1>11, <1>12, <2>2, <2>3
  <2>4. CASE b \in 1..x
    <3>1. b \notin Range(old) => \A i \in places : old[i] # b
      BY <1>2 DEF Range
    <3>2. b \notin Range(old) => written[b] = file[b]
      BY <1>6, <2>4, <3>1
    <3>3. bs[b] = written[b] /\ Disk[b] = file[b]
      BY <1>11, <1>12, <2>4
    <3> QED
      BY <1>11, <2>2, <3>2, <3>3
  <2> QED
    BY <2>1, <2>3, <2>4
<1>18. ASSUME NEW b \in DOMAIN bs
       PROVE  \/ Range(bs[b].items) \subseteq V
              \/ b \in DOMAIN Disk /\ bs[b] = Disk[b]
  <2>1. b \in 1..x \/ (\E a \in 1..y : b = x + a) \/ \E i \in 1..(N - m) : b = x + y + i
    <3>1. b \in 1..Z
      BY <1>11
    <3>2. x \in Nat /\ y \in Nat /\ m \in Nat /\ m <= N
      BY <1>1, <1>2, <1>3
    <3>3. CASE b <= x
      BY <3>1, <3>3
    <3>4. CASE b > x /\ b <= x + y
      <4>1. b - x \in 1..y /\ b = x + (b - x)
        BY <3>1, <3>2, <3>4
      <4> QED
        BY <4>1
    <3>5. CASE b > x + y
      <4>1. b - (x + y) \in 1..(N - m) /\ b = x + y + (b - (x + y))
        BY <3>1, <3>2, <3>5
      <4> QED
        BY <4>1
    <3> QED
      BY <3>1, <3>2, <3>3, <3>4, <3>5
  <2>2. CASE b \in 1..x
    <3>1. CASE written[b] = file[b]
      <4>1. b \in 1..(x + y)
        BY <1>1, <2>2
      <4> QED
        BY <1>11, <1>12, <2>2, <3>1, <4>1
    <3>2. CASE \E i \in places : b = old[i] /\ written[b] = d.blocks[i]
      <4>1. PICK i \in places : written[b] = d.blocks[i]
        BY <3>2
      <4>2. i \in 1..N
        BY <1>2, <1>3
      <4>3. Range(d.blocks[i].items) \subseteq V
        BY <1>3, <4>2
      <4>4. bs[b] = d.blocks[i]
        BY <1>11, <2>2, <4>1
      <4> QED
        BY <4>3, <4>4
    <3> QED
      BY <1>6, <2>2, <3>1, <3>2
  <2>3. CASE \E a \in 1..y : b = x + a
    <3>1. \A a \in 1..y : x + a \in 1..(x + y)
      BY <1>1
    <3> QED
      BY <1>11, <1>12, <2>3, <3>1, SMTT(30)
  <2>4. CASE \E i \in 1..(N - m) : b = x + y + i
    <3>1. PICK i \in 1..(N - m) : b = x + y + i
      BY <2>4
    <3>2. bs[b] = d.blocks[m + i] /\ m + i \in 1..N
      BY <1>11, <1>13, <3>1
    <3>3. Range(d.blocks[m + i].items) \subseteq V
      BY <1>3, <3>2
    <3> QED
      BY <3>2, <3>3
  <2> QED
    BY <2>1, <2>2, <2>3, <2>4
<1>19. \A j \in 1..N : d.ids[j] \in Range(old) \/ d.ids[j] \notin DOMAIN Disk
  BY <1>12, <1>14
<1> QED
  BY <1>7, <1>10, <1>16, <1>17, <1>18, <1>19 DEF bs, x, KeepsElse, TakesNew, SameOrOf

SameElse(F, G, k) == \A q \in DOMAIN index \ {k} : G[<<0, q>>] = F[<<0, q>>]

HasChains(F, k, bs, ix, cs) == \E G : AreChains(bs, ix, cs, G, maxItems) /\ SameElse(F, G, k)

(* A merge into a chain leaves the others, and as chains what it cuts off. *)
LEMMA MergeKeepsChains ==
    ASSUME maxItems \in Nat \ {0},
           cuts \in Seq([hash : Nat, info : Limits]),
           NEW F, AreChains(Disk, index, cuts, F, maxItems),
           NEW k \in DOMAIN index, NEW old, old = F[<<0, k>>],
           NEW N \in Nat, NEW id, NEW V, NEW d, IsDone(d, N, old, id, V),
           NEW bs, IsWritten(bs, d.ids, d, N, maxItems),
           KeepsElse(bs, old), TakesNew(d.ids, N, old),
           NEW ix, ix = [index EXCEPT ![k] = d.info],
           NEW cs, cs = cuts \o d.cuts
    PROVE  HasChains(F, k, bs, ix, cs)
<1> DEFINE K == Len(cuts)
           L == Len(d.cuts)
           I == d.ids
           q == d.info.count
<1>1. PICK lo, hi : CutsAt(d, lo, hi)
  BY DEF IsDone
<1>2. /\ IsSegment(d, d.info, 1, q)
      /\ \A j \in 1..L : IsSegment(d, d.cuts[j].info, lo[j], hi[j]) /\ lo[j] > q
      /\ \A i, j \in 1..L : i # j => hi[i] < lo[j] \/ hi[j] < lo[i]
  BY <1>1 DEF CutsAt, IsDone
<1>3. /\ K \in Nat /\ L \in Nat /\ DOMAIN cuts = 1..K /\ DOMAIN cs = 1..(K + L)
      /\ \A i \in 1..K : cs[i] = cuts[i]
      /\ \A j \in 1..L : cs[K + j] = d.cuts[j]
  <2> DEFINE s == cuts
             t == d.cuts
  <2>1. s \in Seq([hash : Nat, info : Limits]) /\ t \in Seq([hash : Nat, info : Limits])
        /\ cs = s \o t /\ Len(s) = K /\ Len(t) = L
    BY WorkIs DEF IsDone
  <2> HIDE DEF s, t, K, L
  <2>2. /\ s \o t \in Seq([hash : Nat, info : Limits]) /\ Len(s \o t) = Len(s) + Len(t)
        /\ \A i \in 1..(Len(s) + Len(t)) :
              (s \o t)[i] = IF i <= Len(s) THEN s[i] ELSE t[i - Len(s)]
    BY <2>1, ConcatProperties
  <2>3. K \in Nat /\ L \in Nat /\ DOMAIN s = 1..K /\ DOMAIN cs = 1..(K + L)
    BY <2>1, <2>2, LenProperties
  <2>4. /\ \A i \in 1..K : i \in 1..(K + L) /\ i <= K
        /\ \A j \in 1..L : K + j \in 1..(K + L) /\ ~ (K + j <= K) /\ (K + j) - K = j
    BY <2>3
  <2>5. \A i \in 1..K : cs[i] = s[i]
    BY <2>1, <2>2, <2>4
  <2>6. \A j \in 1..L : cs[K + j] = t[j]
    <3> SUFFICES ASSUME NEW j \in 1..L PROVE cs[K + j] = t[j]
      OBVIOUS
    <3>1. cs[K + j] = t[(K + j) - K]
      BY <2>1, <2>2, <2>4
    <3> QED
      BY <2>4, <3>1
  <2> QED
    BY <2>3, <2>5, <2>6 DEF s, t
<1> HIDE DEF K, L
<1>4. /\ DOMAIN ix = DOMAIN index /\ ix[k] = d.info
      /\ \A h \in DOMAIN index \ {k} : ix[h] = index[h]
  OBVIOUS
<1> DEFINE Own(t) == t = <<0, k>> \/ (t[1] = 1 /\ t[2] > K)
           From(t) == IF t = <<0, k>> THEN 1 ELSE lo[t[2] - K]
           To(t) == IF t = <<0, k>> THEN q ELSE hi[t[2] - K]
           G == [t \in Tags(ix, cs) |-> IF Own(t) THEN SubSeq(I, From(t), To(t)) ELSE F[t]]
<1>5. /\ \A t \in Tags(ix, cs) : \/ \E h \in DOMAIN index : t = <<0, h>>
                                 \/ \E i \in 1..(K + L) : t = <<1, i>>
      /\ \A h \in DOMAIN index : <<0, h>> \in Tags(ix, cs) /\ <<0, h>> \in Tags(index, cuts)
      /\ \A i \in 1..K : <<1, i>> \in Tags(index, cuts)
  BY <1>3, <1>4 DEF Tags
<1>6. \A i \in 1..(K + L) : i \in 1..K \/ (i > K /\ i - K \in 1..L /\ K + (i - K) = i)
  BY <1>3
<1>7. ASSUME NEW t \in Tags(ix, cs), Own(t), t # <<0, k>>
      PROVE  \E j \in 1..L : t = <<1, K + j>> /\ From(t) = lo[j] /\ To(t) = hi[j]
  <2>1. PICK i \in 1..(K + L) : t = <<1, i>>
    <3>1. t[1] = 1
      BY <1>7
    <3>2. ASSUME NEW h \in DOMAIN index, t = <<0, h>> PROVE FALSE
      <4>1. t[1] = 0
        BY <3>2
      <4> QED
        BY <3>1, <4>1
    <3> HIDE DEF Own, From, To
    <3> QED
      BY <1>5, <3>2
  <2>2. t[2] = i /\ i > K
    BY <1>7, <2>1
  <2>3. i \notin 1..K
    BY <1>3, <2>2
  <2>4. i - K \in 1..L /\ K + (i - K) = i
    BY <1>6, <2>3
  <2>5. From(t) = lo[i - K] /\ To(t) = hi[i - K]
    BY <1>7, <2>2
  <2> QED
    BY <2>1, <2>4, <2>5
<1>8. From(<<0, k>>) = 1 /\ To(<<0, k>>) = q
  OBVIOUS
<1> HIDE DEF From, To
<1>9. ASSUME NEW t \in Tags(ix, cs), Own(t)
      PROVE  IsSegment(d, InfoOf(ix, cs, t), From(t), To(t))
  <2>1. CASE t = <<0, k>>
    <3>1. InfoOf(ix, cs, t) = d.info
      BY <1>4, <2>1 DEF InfoOf
    <3> QED
      BY <1>2, <1>8, <2>1, <3>1
  <2>2. CASE t # <<0, k>>
    <3>1. PICK j \in 1..L : t = <<1, K + j>> /\ From(t) = lo[j] /\ To(t) = hi[j]
      BY <1>7, <1>9, <2>2
    <3>2. InfoOf(ix, cs, t) = d.cuts[j].info
      <4>1. t[1] = 1 /\ t[2] = K + j
        BY <3>1
      <4> QED
        BY <1>3, <3>1, <4>1, SMTT(30) DEF InfoOf
    <3> QED
      BY <1>2, <3>1, <3>2
  <2> QED
    BY <2>1, <2>2
<1>10. ASSUME NEW t \in Tags(ix, cs), NEW u \in Tags(ix, cs), Own(t), Own(u), t # u
       PROVE  To(t) < From(u) \/ To(u) < From(t)
  <2>1. CASE t = <<0, k>>
    <3>1. PICK j \in 1..L : From(u) = lo[j]
      BY <1>7, <1>10, <2>1
    <3>2. lo[j] > q /\ lo[j] \in Int /\ q \in Int
      BY <1>2 DEF IsSegment
    <3> QED
      BY <1>8, <2>1, <3>1, <3>2
  <2>2. CASE u = <<0, k>>
    <3>1. PICK j \in 1..L : From(t) = lo[j]
      BY <1>7, <1>10, <2>2
    <3>2. lo[j] > q /\ lo[j] \in Int /\ q \in Int
      BY <1>2 DEF IsSegment
    <3> QED
      BY <1>8, <2>2, <3>1, <3>2
  <2>3. CASE t # <<0, k>> /\ u # <<0, k>>
    <3>1. PICK i \in 1..L : t = <<1, K + i>> /\ From(t) = lo[i] /\ To(t) = hi[i]
      BY <1>7, <1>10, <2>3
    <3>2. PICK j \in 1..L : u = <<1, K + j>> /\ From(u) = lo[j] /\ To(u) = hi[j]
      BY <1>7, <1>10, <2>3
    <3>3. i # j
      BY <1>10, <3>1, <3>2
    <3> QED
      BY <1>2, <3>1, <3>2, <3>3
  <2> QED
    BY <2>1, <2>2, <2>3
<1>11. ASSUME NEW t \in Tags(ix, cs), Own(t)
       PROVE  /\ IsChain(bs, InfoOf(ix, cs, t), G[t], maxItems)
              /\ \A e \in Range(G[t]) : \E j \in From(t)..To(t) : e = I[j]
              /\ \A j \in From(t)..To(t) : j \in 1..N
  <2>1. G[t] = SubSeq(I, From(t), To(t))
    BY <1>11
  <2>2. IsSegment(d, InfoOf(ix, cs, t), From(t), To(t))
    BY <1>9, <1>11
  <2>3. \A j \in From(t)..To(t) : j \in 1..N
    <3>1. Len(I) = N
      BY DEF IsWritten
    <3>2. From(t) \in 1..N /\ To(t) \in From(t)..N
      BY <2>2, <3>1 DEF IsSegment
    <3> QED
      BY <3>2
  <2> HIDE DEF G
  <2>4. /\ IsChain(bs, InfoOf(ix, cs, t), SubSeq(I, From(t), To(t)), maxItems)
        /\ IsWithin(SubSeq(I, From(t), To(t)), I, From(t), To(t))
    <3> DEFINE a == From(t)
               b == To(t)
               f == InfoOf(ix, cs, t)
    <3>1. IsSegment(d, f, a, b)
      BY <2>2
    <3> HIDE DEF a, b, f
    <3>2. /\ IsChain(bs, f, SubSeq(d.ids, a, b), maxItems)
          /\ IsWithin(SubSeq(d.ids, a, b), d.ids, a, b)
      BY <3>1, SegmentIsChain
    <3> QED
      BY <3>2 DEF a, b, f
  <2> QED
    BY <2>1, <2>3, <2>4 DEF IsWithin
<1>12. ASSUME NEW t \in Tags(ix, cs), ~ Own(t)
       PROVE  /\ t \in Tags(index, cuts) /\ t # <<0, k>> /\ G[t] = F[t]
              /\ InfoOf(ix, cs, t) = InfoOf(index, cuts, t)
  <2>1. CASE \E h \in DOMAIN index : t = <<0, h>>
    <3>1. PICK h \in DOMAIN index : t = <<0, h>>
      BY <2>1
    <3>2. h # k
      BY <1>12, <3>1
    <3>3. InfoOf(ix, cs, t) = index[h] /\ InfoOf(index, cuts, t) = index[h]
      BY <1>4, <3>1, <3>2 DEF InfoOf
    <3> QED
      BY <1>5, <1>12, <3>1, <3>2, <3>3
  <2>2. CASE \E i \in 1..(K + L) : t = <<1, i>>
    <3>1. PICK i \in 1..(K + L) : t = <<1, i>>
      BY <2>2
    <3>2. i \in 1..K
      BY <1>6, <1>12, <3>1
    <3>3. InfoOf(ix, cs, t) = cuts[i].info /\ InfoOf(index, cuts, t) = cuts[i].info
      BY <1>3, <3>1, <3>2 DEF InfoOf
    <3> QED
      BY <1>5, <1>12, <3>1, <3>2, <3>3
  <2> QED
    BY <1>5, <2>1, <2>2
<1> HIDE DEF G, Own
<1>13. /\ \A t \in Tags(index, cuts) : IsChain(Disk, InfoOf(index, cuts, t), F[t], maxItems)
       /\ \A t, u \in Tags(index, cuts) : t # u => Range(F[t]) \cap Range(F[u]) = {}
  BY DEF AreChains
<1>14. ASSUME NEW t \in Tags(ix, cs), ~ Own(t)
       PROVE  /\ IsChain(bs, InfoOf(ix, cs, t), G[t], maxItems)
              /\ Range(G[t]) \subseteq DOMAIN Disk /\ Range(G[t]) \cap Range(old) = {}
  <2> DEFINE s == G[t]
             n == Len(s)
             info == InfoOf(ix, cs, t)
  <2>1. IsChain(Disk, info, s, maxItems)
    BY <1>12, <1>13, <1>14
  <2>2. Range(s) \cap Range(old) = {}
    BY <1>5, <1>12, <1>13, <1>14
  <2> HIDE DEF s, info
  <2>3. /\ s \in Seq(DOMAIN Disk) /\ n > 0 /\ NoRepeats(s)
        /\ info = ChainInfo(s[1], s[n], n)
        /\ \A i \in 1..n :
              /\ Disk[s[i]].prev = IF i = 1 THEN s[1] ELSE s[i - 1]
              /\ Disk[s[i]].next = IF i = n THEN s[n] ELSE s[i + 1]
              /\ i < n => Len(Disk[s[i]].items) = maxItems
              /\ n > 1 => Disk[s[i]].items # << >>
    BY <2>1 DEF IsChain
  <2>4. \A i \in 1..n : s[i] \in DOMAIN Disk /\ s[i] \in Range(s)
    BY <2>3, ElementOfSeq, LenProperties DEF Range
  <2>5. Range(s) \subseteq DOMAIN Disk
    <3>1. DOMAIN s = 1..n
      BY <2>3, LenProperties
    <3> QED
      BY <2>4, <3>1 DEF Range
  <2>6. \A i \in 1..n : bs[s[i]] = Disk[s[i]]
    BY <2>2, <2>4 DEF KeepsElse
  <2>7. s \in Seq(DOMAIN bs)
    <3>1. DOMAIN Disk \subseteq DOMAIN bs
      BY DEF KeepsElse
    <3> QED
      BY <2>3, <3>1, SeqMonotonic
  <2>8. IsChain(bs, info, s, maxItems)
    BY <2>3, <2>6, <2>7 DEF IsChain
  <2> QED
    BY <2>2, <2>5, <2>8 DEF s, info
<1>15. ASSUME NEW t \in Tags(ix, cs), NEW u \in Tags(ix, cs), Own(t), ~ Own(u)
       PROVE  Range(G[t]) \cap Range(G[u]) = {}
  <2>1. \A b \in Range(G[t]) : b \in Range(old) \/ b \notin DOMAIN Disk
    <3>1. /\ \A e \in Range(G[t]) : \E j \in From(t)..To(t) : e = I[j]
          /\ \A j \in From(t)..To(t) : j \in 1..N
      BY <1>11, <1>15
    <3>2. \A j \in 1..N : I[j] \in Range(old) \/ I[j] \notin DOMAIN Disk
      BY DEF TakesNew
    <3> HIDE DEF I
    <3> QED
      BY <3>1, <3>2
  <2>2. Range(G[u]) \subseteq DOMAIN Disk /\ Range(G[u]) \cap Range(old) = {}
    BY <1>14, <1>15
  <2> QED
    BY <2>1, <2>2
<1>16. ASSUME NEW t \in Tags(ix, cs), NEW u \in Tags(ix, cs), Own(t), Own(u), t # u
       PROVE  Range(G[t]) \cap Range(G[u]) = {}
  <2> SUFFICES ASSUME NEW e \in Range(G[t]), e \in Range(G[u]) PROVE FALSE
    OBVIOUS
  <2>1. PICK i \in From(t)..To(t) : e = I[i]
    BY <1>11, <1>16
  <2>2. PICK j \in From(u)..To(u) : e = I[j]
    BY <1>11, <1>16
  <2>3. i \in 1..N /\ j \in 1..N
    BY <1>11, <1>16
  <2>4. i = j
    <3>1. NoRepeats(I) /\ DOMAIN I = 1..N
      BY LenProperties DEF IsWritten
    <3> QED
      BY <2>1, <2>2, <2>3, <3>1 DEF NoRepeats
  <2>5. From(t) \in Int /\ To(t) \in Int /\ From(u) \in Int /\ To(u) \in Int
    <3>1. Len(d.ids) = N
      BY DEF IsWritten
    <3>2. /\ From(t) \in 1..N /\ To(t) \in From(t)..N
          /\ From(u) \in 1..N /\ To(u) \in From(u)..N
      BY <1>9, <1>16, <3>1 DEF IsSegment
    <3> QED
      BY <3>2
  <2>6. To(t) < From(u) \/ To(u) < From(t)
    BY <1>10, <1>16
  <2> QED
    BY <2>4, <2>5, <2>6
<1>17. AreChains(bs, ix, cs, G, maxItems)
  <2>1. \A t \in Tags(ix, cs) : IsChain(bs, InfoOf(ix, cs, t), G[t], maxItems)
    BY <1>11, <1>14
  <2>2. ASSUME NEW t \in Tags(ix, cs), NEW u \in Tags(ix, cs), t # u
        PROVE  Range(G[t]) \cap Range(G[u]) = {}
    <3>1. CASE Own(t) /\ Own(u)
      BY <1>16, <2>2, <3>1
    <3>2. CASE Own(t) /\ ~ Own(u)
      BY <1>15, <3>2
    <3>3. CASE ~ Own(t) /\ Own(u)
      BY <1>15, <3>3
    <3>4. CASE ~ Own(t) /\ ~ Own(u)
      BY <1>12, <1>13, <2>2, <3>4
    <3> QED
      BY <3>1, <3>2, <3>3, <3>4
  <2> QED
    BY <2>1, <2>2 DEF AreChains
<1>18. SameElse(F, G, k)
  <2> SUFFICES ASSUME NEW h \in DOMAIN index \ {k} PROVE G[<<0, h>>] = F[<<0, h>>]
    BY DEF SameElse
  <2>1. <<0, h>> \in Tags(ix, cs)
    BY <1>5
  <2>2. ~ Own(<<0, h>>)
    <3>1. <<0, h>> # <<0, k>> /\ <<0, h>>[1] = 0
      OBVIOUS
    <3> QED
      BY <3>1 DEF Own
  <2> QED
    BY <1>12, <2>1, <2>2
<1> QED
  BY <1>17, <1>18 DEF HasChains
-----------------------------------------------------------------------------
(* The inductive invariant. *)

IsTask(u) ==
    /\ u = [at |-> u.at, reqs |-> u.reqs, slot |-> u.slot]
    /\ u.at \in {"queued", "popped", "running"}
    /\ u.reqs \in Seq(Ask)

Types ==
    /\ maxItems \in Nat \ {0}
    /\ asked \in [Values -> Nat]
    /\ held = << >> \/ \E r \in Ask, b \in {1, 2} : held = <<r, b>>
    /\ buffers \in [{1, 2} -> Seq(Ask)]
    /\ first \in {1, 2}
    /\ controller \in {"swap", "lock", "merge", "undefined"}
    /\ DOMAIN tasks \subseteq DOMAIN index
    /\ \A k \in DOMAIN tasks : IsTask(tasks[k])
    /\ file \in Seq(Block) /\ newBlocks \in Seq(Block)
    /\ 0 \in DOMAIN index /\ DOMAIN index \subseteq Nat
    /\ cuts \in Seq([hash : Nat, info : Limits])
    /\ success \cup called \subseteq Ask

Quiet == Resting => tasks = NoTasks /\ cuts = << >> /\ newBlocks = << >>

(* A task that did not merge yet has no block of its chain among those to  *)
(* be written.                                                             *)
ChainsBy(F) ==
    /\ AreChains(Disk, index, cuts, F, maxItems)
    /\ \A k \in DOMAIN tasks : tasks[k].at # "running" => Range(F[<<0, k>>]) \subseteq DOMAIN file

Chains == \E F : ChainsBy(F)

(* Such a task has requests not answered yet, of its own chain.            *)
TaskFits(k, reqs) ==
    /\ SortedAsks(reqs)
    /\ Range(reqs) \subseteq Range(buffers[second]) \ Answered
    /\ \A r \in Range(reqs) : KeyOf(r) = k

TasksFit ==
    \A k \in DOMAIN tasks :
        /\ NoRepeats(tasks[k].reqs)
        /\ IF tasks[k].at = "running" THEN Twins(Range(tasks[k].reqs))
           ELSE TaskFits(k, tasks[k].reqs)

InHand == IF held # << >> THEN {held[1]} ELSE {}

(* The requests of tasks that did not merge yet.                           *)
Rests == UNION {Range(tasks[k].reqs) : k \in {m \in DOMAIN tasks : tasks[m].at # "running"}}

InRests(r) == \E k \in DOMAIN tasks : tasks[k].at # "running" /\ r \in Range(tasks[k].reqs)

(* Each request is at one place, and answered after it was there.          *)
Once ==
    /\ NoRepeats(buffers[1]) /\ NoRepeats(buffers[2])
    /\ Range(buffers[1]) \cap Range(buffers[2]) = {}
    /\ InHand \cap (Range(buffers[1]) \cup Range(buffers[2]) \cup Answered) = {}
    /\ Range(buffers[first]) \cap Answered = {}
    /\ Resting => Range(buffers[second]) \cap Answered = {}
    /\ \A r \in Range(buffers[1]) \cup Range(buffers[2]) \cup Answered \cup InHand :
          r.id <= asked[r.val]

Kept ==
    /\ \A v \in Values : \A n \in 1..asked[v] :
          [val |-> v, id |-> n] \in Unmerged \/ v \in Vals(Answered)
    /\ \A b \in DOMAIN Disk : Range(Disk[b].items) \subseteq Vals(Answered)
    /\ IsFiniteSet(Answered) /\ size = Cardinality(Answered)

IInv == Types /\ Quiet /\ Chains /\ TasksFit /\ Once /\ Kept

LEMMA UnmergedIs ==
    /\ Unmerged = InHand \cup Range(buffers[first])
                    \cup (IF Resting THEN Range(buffers[second]) ELSE {}) \cup Rests
    /\ Unmerged' = InHand' \cup Range(buffers'[first'])
                    \cup (IF Resting' THEN Range(buffers'[second']) ELSE {}) \cup Rests'
BY DEF Unmerged, InHand, Resting, Rests

LEMMA RestsAre == \A r : (r \in Rests <=> InRests(r)) /\ (r \in Rests' <=> InRests(r)')
BY DEF Rests, InRests

LEMMA InitIInv == Init => IInv
<1> SUFFICES ASSUME Init PROVE IInv
  OBVIOUS
<1> DEFINE info == ChainInfo(1, 1, 1)
<1>1. /\ maxItems \in Capacities /\ asked = [v \in Values |-> 0] /\ held = << >>
      /\ buffers = << << >>, << >> >> /\ first = 1 /\ controller = "swap" /\ tasks = NoTasks
      /\ file = <<EmptyBlock(1), EmptyBlock(2)>>
      /\ index = [h \in {0} |-> info]
      /\ newBlocks = << >> /\ cuts = << >> /\ size = 0 /\ success = {} /\ called = {}
  BY DEF Init
<1>2. /\ EmptyBlock(1) = [prev |-> 1, next |-> 1, items |-> << >>]
      /\ EmptyBlock(2) = [prev |-> 2, next |-> 2, items |-> << >>]
      /\ EmptyBlock(1) \in Block /\ EmptyBlock(2) \in Block
  <2>1. EmptyBlock(1) \in Block /\ EmptyBlock(2) \in Block
    BY EmptyIsBlock
  <2> QED
    BY <2>1 DEF EmptyBlock
<1>3. DOMAIN tasks = {}
  BY <1>1 DEF NoTasks
<1>4. Range(<< >>) = {}
  BY DEF Range
<1>5. Types
  <2>1. maxItems \in Nat \ {0}
    BY <1>1, DelayedAssumption
  <2>2. buffers \in [{1, 2} -> Seq(Ask)]
    <3>1. << >> \in Seq(Ask)
      OBVIOUS
    <3> DEFINE e == << >>
    <3>2. buffers = <<e, e>> /\ e \in Seq(Ask)
      BY <1>1, <3>1
    <3> HIDE DEF e
    <3> QED
      BY <3>2, PairIs
  <2>3. file \in Seq(Block) /\ newBlocks \in Seq(Block)
    BY <1>1, <1>2
  <2>4. cuts \in Seq([hash : Nat, info : Limits])
    BY <1>1
  <2> QED
    BY <1>1, <1>3, <2>1, <2>2, <2>3, <2>4 DEF Types
<1>6. Quiet
  BY <1>1 DEF Quiet
<1>7. Chains
  <2> DEFINE F == [t \in Tags(index, cuts) |-> <<1>>]
  <2>1. Tags(index, cuts) = {<<0, 0>>}
    BY <1>1 DEF Tags
  <2>2. Disk = <<EmptyBlock(1), EmptyBlock(2)>> /\ DOMAIN Disk = {1, 2} /\ Disk[1] = EmptyBlock(1)
    BY <1>1, <1>2 DEF Disk
  <2>3. InfoOf(index, cuts, <<0, 0>>) = info
    BY <1>1 DEF InfoOf
  <2>4. IsChain(Disk, info, <<1>>, maxItems)
    <3>1. <<1>> \in Seq(DOMAIN Disk) /\ Len(<<1>>) = 1 /\ NoRepeats(<<1>>) /\ <<1>>[1] = 1
      BY <2>2 DEF NoRepeats
    <3> QED
      BY <1>2, <2>2, <3>1 DEF IsChain
  <2>5. AreChains(Disk, index, cuts, F, maxItems)
    BY <2>1, <2>3, <2>4 DEF AreChains
  <2> HIDE DEF F
  <2>6. ChainsBy(F)
    BY <1>3, <2>5 DEF ChainsBy
  <2> QED
    BY <2>6 DEF Chains
<1>8. TasksFit
  BY <1>3 DEF TasksFit
<1>9. Answered = {} /\ InHand = {} /\ buffers[1] = << >> /\ buffers[2] = << >> /\ first = 1 /\ second = 2
  BY <1>1 DEF Answered, InHand, second
<1>10. Once
  BY <1>4, <1>9 DEF Once, NoRepeats
<1>11. Kept
  <2>1. \A v \in Values : 1..asked[v] = {}
    BY <1>1
  <2>2. DOMAIN Disk = {1, 2} /\ \A b \in {1, 2} : Disk[b].items = << >>
    BY <1>1, <1>2 DEF Disk
  <2>3. IsFiniteSet({}) /\ Cardinality({}) = 0
    BY FS_EmptySet
  <2> QED
    BY <1>1, <1>4, <1>9, <2>1, <2>2, <2>3 DEF Kept
<1> QED
  BY <1>5, <1>6, <1>7, <1>8, <1>10, <1>11 DEF IInv
-----------------------------------------------------------------------------
(* The steps of the caller. *)

LEMMA InsertKeeps ==
    ASSUME IInv, NEW v \in Values, InsertDelayed(v)
    PROVE  IInv'
<1> DEFINE r == [val |-> v, id |-> asked[v] + 1]
<1>1. /\ held = << >> /\ asked' = [asked EXCEPT ![v] = @ + 1] /\ held' = <<r, first>>
      /\ buffers' = buffers /\ success' = success /\ called' = called
      /\ maxItems' = maxItems /\ first' = first /\ controller' = controller /\ tasks' = tasks
      /\ file' = file /\ index' = index /\ newBlocks' = newBlocks /\ cuts' = cuts /\ size' = size
  BY DEF InsertDelayed, unchangedByCaller, disk
<1>2. Types
  BY DEF IInv
<1>3. /\ asked \in [Values -> Nat] /\ asked[v] \in Nat /\ r \in Ask
      /\ asked' \in [Values -> Nat]
      /\ \A w \in Values : asked'[w] = IF w = v THEN asked[v] + 1 ELSE asked[w]
  BY <1>1, <1>2 DEF Types, Ask
<1>4. Types'
  <2>1. \E q \in Ask, b \in {1, 2} : held' = <<q, b>>
    BY <1>1, <1>2, <1>3 DEF Types
  <2> QED
    BY <1>1, <1>2, <1>3, <2>1 DEF Types
<1>5. Quiet' /\ Chains'
  <2>1. Quiet' = Quiet /\ Disk' = Disk
    BY <1>1 DEF Quiet, Resting, Disk
  <2>2. \A F : ChainsBy(F) => ChainsBy(F)'
    BY <1>1, <2>1 DEF ChainsBy
  <2> QED
    BY <2>1, <2>2 DEF IInv, Chains
<1>6. Answered' = Answered /\ second' = second /\ Resting' = Resting
  BY <1>1 DEF Answered, second, Resting
<1>7. TasksFit'
  <2>1. \A q : KeyOf(q)' = KeyOf(q)
    BY <1>1 DEF KeyOf, BeginOf
  <2>2. TasksFit
    BY DEF IInv
  <2> QED
    BY <1>1, <1>6, <2>1, <2>2 DEF TasksFit, TaskFits
<1>8. InHand = {} /\ InHand' = {r}
  BY <1>1 DEF InHand
<1> DEFINE all == Range(buffers[1]) \cup Range(buffers[2]) \cup Answered
<1>9. \A q \in all : q \in Ask /\ q.id <= asked[q.val] /\ q # r
  <2>1. \A q \in all : q.id <= asked[q.val]
    BY DEF IInv, Once
  <2>2. all \subseteq Ask
    <3>1. ASSUME NEW b \in {1, 2} PROVE Range(buffers[b]) \subseteq Ask
      <4>1. buffers[b] \in Seq(Ask)
        BY <1>2 DEF Types
      <4> QED
        BY <4>1, RangeIsIn
    <3> QED
      BY <1>2, <3>1 DEF Types, Answered
  <2>3. ~ (r.id <= asked[r.val])
    BY <1>3
  <2> QED
    BY <2>1, <2>2, <2>3
<1>10. Once'
  <2>1. r \notin all
    BY <1>9
  <2>2. \A q \in all \cup {r} : q.id <= asked'[q.val]
    <3>1. r.id <= asked'[r.val]
      BY <1>3
    <3>2. ASSUME NEW q \in all PROVE q.id <= asked'[q.val]
      <4>1. q.val \in Values /\ q.id \in Nat /\ q.id <= asked[q.val]
        BY <1>9 DEF Ask
      <4> QED
        BY <1>3, <4>1
    <3> QED
      BY <3>1, <3>2
  <2>3. Once
    BY DEF IInv
  <2> QED
    BY <1>1, <1>6, <1>8, <2>1, <2>2, <2>3 DEF Once
<1>11. Kept'
  <2>1. Kept
    BY DEF IInv
  <2>2. Unmerged \subseteq Unmerged' /\ r \in Unmerged'
    BY <1>1, <1>6 DEF Unmerged
  <2>3. ASSUME NEW w \in Values, NEW n \in 1..asked'[w]
        PROVE  [val |-> w, id |-> n] \in Unmerged' \/ w \in Vals(Answered)
    <3>1. CASE n \in 1..asked[w]
      BY <2>1, <2>2, <3>1 DEF Kept
    <3>2. CASE n \notin 1..asked[w]
      <4>1. w = v /\ n = asked[v] + 1
        BY <1>3, <2>3, <3>2
      <4> QED
        BY <2>2, <4>1
    <3> QED
      BY <3>1, <3>2
  <2>4. Disk' = Disk
    BY <1>1 DEF Disk
  <2> QED
    BY <1>1, <1>6, <2>1, <2>3, <2>4 DEF Kept
<1> QED
  BY <1>4, <1>5, <1>7, <1>10, <1>11 DEF IInv

(* Steps that leave the disk as it is.                                     *)
LEMMA ChainsStay ==
    ASSUME Chains, UNCHANGED <<maxItems, file, index, newBlocks, cuts>>,
           \A k \in DOMAIN tasks' :
              k \in DOMAIN tasks /\ (tasks'[k].at # "running" => tasks[k].at # "running")
    PROVE  Chains'
<1>1. Disk' = Disk
  BY DEF Disk
<1>2. PICK F : ChainsBy(F)
  BY DEF Chains
<1>3. ChainsBy(F)'
  BY <1>1, <1>2 DEF ChainsBy
<1> QED
  BY <1>3 DEF Chains

LEMMA SameKeys ==
    ASSUME DOMAIN index' = DOMAIN index
    PROVE  \A r : KeyOf(r)' = KeyOf(r)
BY DEF KeyOf, BeginOf

LEMMA NoRepeatsAppended ==
    ASSUME NEW S, NEW s \in Seq(S), NEW e \in S, NoRepeats(s), e \notin Range(s)
    PROVE  NoRepeats(Append(s, e))
<1> DEFINE n == Len(s)
<1>1. /\ DOMAIN s = 1..n /\ n \in Nat /\ \A i \in 1..n : s[i] \in Range(s)
  BY RangeIsIn
<1>2. /\ DOMAIN Append(s, e) = 1..(n + 1) /\ Append(s, e)[n + 1] = e
      /\ \A i \in 1..n : Append(s, e)[i] = s[i]
  BY AppendProperties, LenProperties
<1>3. \A i \in 1..(n + 1) : i = n + 1 \/ i \in 1..n
  BY <1>1
<1> HIDE DEF n
<1> QED
  BY <1>1, <1>2, <1>3 DEF NoRepeats

LEMMA PushKeeps ==
    ASSUME IInv, controller # "undefined", PushRequest
    PROVE  IInv'
<1> DEFINE r == held[1]
           b == held[2]
<1>1. /\ held # << >> /\ ~ Locked(b)
      /\ buffers' = [buffers EXCEPT ![b] = Append(buffers[b], r)] /\ held' = << >>
      /\ asked' = asked /\ success' = success /\ called' = called
      /\ maxItems' = maxItems /\ first' = first /\ controller' = controller /\ tasks' = tasks
      /\ file' = file /\ index' = index /\ newBlocks' = newBlocks /\ cuts' = cuts /\ size' = size
  BY DEF PushRequest, unchangedByCaller, disk
<1>2. Types
  BY DEF IInv
<1>3. r \in Ask /\ b \in {1, 2} /\ buffers \in [{1, 2} -> Seq(Ask)] /\ first \in {1, 2}
  BY <1>1, <1>2 DEF Types
<1>4. /\ Answered' = Answered /\ second' = second /\ Resting' = Resting
      /\ second \in {1, 2} /\ second # first
  BY <1>1, <1>3 DEF Answered, second, Resting
<1>5. Once
  BY DEF IInv
<1>7. InHand = {r} /\ InHand' = {} /\ (b = second => Resting)
  <2>1. InHand = {r} /\ InHand' = {}
    BY <1>1 DEF InHand
  <2>2. b = second => Resting
    BY <1>1, <1>2 DEF Types, Locked, Resting
  <2> QED
    BY <2>1, <2>2
<1> HIDE DEF r, b
<1>8. /\ \A c \in {1, 2} : c # b => buffers'[c] = buffers[c]
      /\ buffers'[b] = Append(buffers[b], r)
      /\ buffers' \in [{1, 2} -> Seq(Ask)]
  BY <1>1, <1>3
<1>9. r \notin Range(buffers[1]) /\ r \notin Range(buffers[2]) /\ r \notin Answered
      /\ r.id <= asked[r.val]
  BY <1>5, <1>7 DEF Once
<1>10. Range(buffers'[b]) = Range(buffers[b]) \cup {r} /\ NoRepeats(buffers'[b])
  <2>1. NoRepeats(buffers[b]) /\ r \notin Range(buffers[b]) /\ buffers[b] \in Seq(Ask)
    BY <1>3, <1>5, <1>9 DEF Once
  <2> QED
    BY <1>3, <1>8, <2>1, NoRepeatsAppended, RangeOfAppend
<1>11. Types'
  BY <1>1, <1>2, <1>8 DEF Types
<1>12. Quiet'
  BY <1>1, <1>4 DEF IInv, Quiet
<1>13. Chains'
  BY <1>1, ChainsStay DEF IInv
<1>14. Range(buffers[second]) \subseteq Range(buffers'[second])
       /\ Range(buffers[first]) \subseteq Range(buffers'[first])
  BY <1>3, <1>4, <1>8, <1>10
<1>15. TasksFit'
  <2>1. \A q : KeyOf(q)' = KeyOf(q)
    BY <1>1, SameKeys
  <2>2. TasksFit /\ Range(buffers'[second'])  = Range(buffers'[second])
    BY <1>4 DEF IInv
  <2> QED
    BY <1>1, <1>4, <1>14, <2>1, <2>2 DEF TasksFit, TaskFits
<1>16. Once'
  <2>1. NoRepeats(buffers'[1]) /\ NoRepeats(buffers'[2])
    BY <1>3, <1>5, <1>8, <1>10 DEF Once
  <2>2. Range(buffers'[1]) \cup Range(buffers'[2])
          = Range(buffers[1]) \cup Range(buffers[2]) \cup {r}
    BY <1>3, <1>8, <1>10
  <2>3. Range(buffers'[1]) \cap Range(buffers'[2]) = {}
    <3>1. Range(buffers[1]) \cap Range(buffers[2]) = {}
      BY <1>5 DEF Once
    <3>2. CASE b = 1
      <4>1. buffers'[2] = buffers[2]
        <5>1. 2 \in {1, 2} /\ 2 # b
          BY <3>2
        <5> QED
          BY <1>8, <5>1
      <4>2. Range(buffers'[1]) = Range(buffers[1]) \cup {r}
        BY <1>10, <3>2
      <4> QED
        BY <1>9, <3>1, <4>1, <4>2
    <3>3. CASE b = 2
      <4>1. buffers'[1] = buffers[1]
        <5>1. 1 \in {1, 2} /\ 1 # b
          BY <3>3
        <5> QED
          BY <1>8, <5>1
      <4>2. Range(buffers'[2]) = Range(buffers[2]) \cup {r}
        BY <1>10, <3>3
      <4> QED
        BY <1>9, <3>1, <4>1, <4>2
    <3> QED
      BY <1>3, <3>2, <3>3
  <2>4. Range(buffers'[first]) \cap Answered = {}
    BY <1>3, <1>5, <1>8, <1>9, <1>10 DEF Once
  <2>5. Resting => Range(buffers'[second]) \cap Answered = {}
    BY <1>3, <1>4, <1>5, <1>8, <1>9, <1>10 DEF Once
  <2>6. \A q \in Range(buffers'[1]) \cup Range(buffers'[2]) \cup Answered :
           q.id <= asked[q.val]
    BY <1>5, <1>9, <2>2 DEF Once
  <2> QED
    BY <1>1, <1>4, <1>7, <2>1, <2>3, <2>4, <2>5, <2>6 DEF Once
<1>17. Kept'
  <2>1. Unmerged \subseteq Unmerged'
    <3>1. r \in Range(buffers'[first]) \/ (Resting /\ r \in Range(buffers'[second]))
      BY <1>3, <1>4, <1>7, <1>10 DEF Types
    <3>2. Rests' = Rests
      BY <1>1 DEF Rests
    <3> QED
      BY <1>1, <1>4, <1>7, <1>14, <3>1, <3>2, UnmergedIs
  <2>2. Disk' = Disk /\ Kept
    BY <1>1 DEF Disk, IInv
  <2> QED
    BY <1>1, <1>4, <2>1, <2>2 DEF Kept
<1> QED
  BY <1>11, <1>12, <1>13, <1>15, <1>16, <1>17 DEF IInv

LEMMA GetMergedKeeps ==
    ASSUME IInv, GetMerged
    PROVE  IInv'
<1>1. /\ called' = called \cup success /\ success' = {}
      /\ asked' = asked /\ held' = held /\ buffers' = buffers
      /\ maxItems' = maxItems /\ first' = first /\ controller' = controller /\ tasks' = tasks
      /\ file' = file /\ index' = index /\ newBlocks' = newBlocks /\ cuts' = cuts /\ size' = size
  BY DEF GetMerged, unchangedByCaller, disk
<1>2. /\ Answered' = Answered /\ second' = second /\ Resting' = Resting /\ Disk' = Disk
      /\ InHand' = InHand /\ Unmerged' = Unmerged
  BY <1>1 DEF Answered, second, Resting, Disk, InHand, Unmerged
<1>3. Types'
  BY <1>1 DEF IInv, Types
<1>4. Quiet' /\ Chains'
  BY <1>1, <1>2, ChainsStay DEF IInv, Quiet
<1>5. TasksFit'
  <2>1. \A q : KeyOf(q)' = KeyOf(q)
    BY <1>1, SameKeys
  <2> QED
    BY <1>1, <1>2, <2>1 DEF IInv, TasksFit, TaskFits
<1>6. Once' /\ Kept'
  BY <1>1, <1>2 DEF IInv, Once, Kept
<1> QED
  BY <1>3, <1>4, <1>5, <1>6 DEF IInv

(* The two buffers are exchanged while no task is there.                   *)
LEMMA SwapKeeps ==
    ASSUME IInv, SwapBuffers
    PROVE  IInv'
<1>1. /\ controller = "swap" /\ controller' = "lock" /\ first' = second
      /\ asked' = asked /\ held' = held /\ buffers' = buffers /\ success' = success
      /\ called' = called /\ maxItems' = maxItems /\ tasks' = tasks
      /\ file' = file /\ index' = index /\ newBlocks' = newBlocks /\ cuts' = cuts /\ size' = size
  BY DEF SwapBuffers, unchangedByController, disk
<1>2. Types
  BY DEF IInv
<1>3. Resting /\ Resting' /\ first' \in {1, 2} /\ second' = first /\ second \in {1, 2}
  BY <1>1, <1>2 DEF Types, Resting, second
<1>4. Answered' = Answered /\ Disk' = Disk /\ InHand' = InHand /\ tasks = NoTasks /\ DOMAIN tasks = {}
  BY <1>1, <1>3 DEF Answered, Disk, InHand, IInv, Quiet, NoTasks
<1>5. Types'
  BY <1>1, <1>2, <1>3 DEF Types
<1>6. Quiet' /\ Chains'
  BY <1>1, <1>3, <1>4, ChainsStay DEF IInv, Quiet, NoTasks
<1>7. TasksFit'
  BY <1>1, <1>4 DEF TasksFit
<1>8. Once'
  BY <1>1, <1>3, <1>4 DEF IInv, Once
<1>9. Kept'
  <2>1. Unmerged' = Unmerged
    BY <1>1, <1>3, <1>4 DEF Unmerged, Resting
  <2> QED
    BY <1>1, <1>4, <2>1 DEF IInv, Kept
<1> QED
  BY <1>5, <1>6, <1>7, <1>8, <1>9 DEF IInv
-----------------------------------------------------------------------------
(* The steps of a worker, but for the merge.                               *)

LEMMA TryPopKeeps ==
    ASSUME IInv, NEW k \in DOMAIN tasks, TryPop(k)
    PROVE  IInv'
<1>1. /\ tasks[k].at = "queued" /\ tasks' = [tasks EXCEPT ![k] = [@ EXCEPT !.at = "popped"]]
      /\ asked' = asked /\ held' = held /\ buffers' = buffers /\ success' = success
      /\ called' = called /\ maxItems' = maxItems /\ first' = first /\ controller' = controller
      /\ file' = file /\ index' = index /\ newBlocks' = newBlocks /\ cuts' = cuts /\ size' = size
  BY DEF TryPop, unchangedByWorker, disk
<1>2. /\ Answered' = Answered /\ second' = second /\ Resting' = Resting /\ Disk' = Disk
      /\ InHand' = InHand
  BY <1>1 DEF Answered, second, Resting, Disk, InHand
<1>3. Types
  BY DEF IInv
<1>4. /\ tasks[k] = [at |-> tasks[k].at, reqs |-> tasks[k].reqs, slot |-> tasks[k].slot]
      /\ tasks[k].reqs \in Seq(Ask)
  BY <1>3 DEF Types, IsTask
<1>5. /\ DOMAIN tasks' = DOMAIN tasks
      /\ tasks'[k] = [at |-> "popped", reqs |-> tasks[k].reqs, slot |-> tasks[k].slot]
      /\ \A m \in DOMAIN tasks : m # k => tasks'[m] = tasks[m]
  BY <1>1, <1>4
<1>6. Types'
  <2>1. IsTask(tasks'[k])
    BY <1>4, <1>5 DEF IsTask
  <2>2. \A m \in DOMAIN tasks' : IsTask(tasks'[m])
    BY <1>3, <1>5, <2>1 DEF Types
  <2> QED
    BY <1>1, <1>3, <1>5, <2>2 DEF Types
<1>7. ~ Resting
  BY <1>1 DEF IInv, Quiet, NoTasks
<1>8. Quiet' /\ Chains'
  BY <1>1, <1>2, <1>5, <1>7, ChainsStay DEF IInv, Quiet
<1>9. /\ tasks'[k].at = "popped" /\ tasks'[k].reqs = tasks[k].reqs /\ tasks[k].at # "running"
      /\ \A m \in DOMAIN tasks :
            /\ tasks'[m].reqs = tasks[m].reqs
            /\ tasks'[m].at = "running" <=> tasks[m].at = "running"
  BY <1>1, <1>4, <1>5
<1>10. TasksFit'
  <2>1. \A q : KeyOf(q)' = KeyOf(q)
    BY <1>1, SameKeys
  <2> QED
    BY <1>1, <1>2, <1>5, <1>9, <2>1 DEF IInv, TasksFit, TaskFits
<1>11. Once'
  BY <1>1, <1>2 DEF IInv, Once
<1>12. Kept'
  <2>1. Unmerged' = Unmerged
    <3>1. Rests' = Rests
      <4>1. \A r : InRests(r)' <=> InRests(r)
        BY <1>5, <1>9 DEF InRests
      <4> QED
        BY <4>1, RestsAre
    <3> QED
      BY <1>1, <1>2, <3>1, UnmergedIs
  <2> QED
    BY <1>1, <1>2, <2>1 DEF IInv, Kept
<1> QED
  BY <1>6, <1>8, <1>10, <1>11, <1>12 DEF IInv

LEMMA EndTaskKeeps ==
    ASSUME IInv, NEW k \in DOMAIN tasks, EndTask(k)
    PROVE  IInv'
<1>1. /\ tasks[k].at = "running" /\ tasks' = [m \in DOMAIN tasks \ {k} |-> tasks[m]]
      /\ asked' = asked /\ held' = held /\ buffers' = buffers /\ success' = success
      /\ called' = called /\ maxItems' = maxItems /\ first' = first /\ controller' = controller
      /\ file' = file /\ index' = index /\ newBlocks' = newBlocks /\ cuts' = cuts /\ size' = size
  BY DEF EndTask, unchangedByWorker, disk
<1>2. /\ Answered' = Answered /\ second' = second /\ Resting' = Resting /\ Disk' = Disk
      /\ InHand' = InHand
  BY <1>1 DEF Answered, second, Resting, Disk, InHand
<1>3. DOMAIN tasks' = DOMAIN tasks \ {k} /\ \A m \in DOMAIN tasks' : tasks'[m] = tasks[m]
  BY <1>1
<1>4. Types'
  BY <1>1, <1>3 DEF IInv, Types
<1>5. ~ Resting
  BY <1>1 DEF IInv, Quiet, NoTasks
<1>6. Quiet' /\ Chains'
  BY <1>1, <1>2, <1>3, <1>5, ChainsStay DEF IInv, Quiet
<1>7. TasksFit'
  <2>1. \A q : KeyOf(q)' = KeyOf(q)
    BY <1>1, SameKeys
  <2> QED
    BY <1>1, <1>2, <1>3, <2>1 DEF IInv, TasksFit, TaskFits
<1>8. Once'
  BY <1>1, <1>2 DEF IInv, Once
<1>9. Kept'
  <2>1. Unmerged' = Unmerged
    <3>1. Rests' = Rests
      <4>1. \A r : InRests(r)' <=> InRests(r)
        BY <1>1, <1>3 DEF InRests
      <4> QED
        BY <4>1, RestsAre
    <3> QED
      BY <1>1, <1>2, <3>1, UnmergedIs
  <2> QED
    BY <1>1, <1>2, <2>1 DEF IInv, Kept
<1> QED
  BY <1>4, <1>6, <1>7, <1>8, <1>9 DEF IInv
-----------------------------------------------------------------------------
(* The controller begins a merge. *)

LEMMA MinMaxIs ==
    ASSUME NEW N \in Nat, NEW T \in SUBSET (0..N), T # {}
    PROVE  /\ Min(T) \in T /\ \A x \in T : Min(T) <= x
           /\ Max(T) \in T /\ \A x \in T : x <= Max(T)
<1>1. \E x \in T : \A y \in T : x <= y
  BY LeastNumber
<1>2. \E x \in T : \A y \in T : x >= y
  <2> DEFINE U == {N - x : x \in T}
  <2>1. U \in SUBSET Nat /\ U # {}
    <3>1. \A x \in T : N - x \in Nat
      OBVIOUS
    <3>2. PICK x \in T : TRUE
      OBVIOUS
    <3>3. N - x \in U
      BY <3>2
    <3> QED
      BY <3>1, <3>3
  <2>2. PICK u \in U : \A y \in U : u <= y
    <3> HIDE DEF U
    <3> QED
      BY <2>1, LeastNumber
  <2>3. PICK x \in T : u = N - x
    BY <2>2
  <2>4. ASSUME NEW y \in T PROVE x >= y
    <3>1. N - x <= N - y
      BY <2>2, <2>3
    <3> QED
      BY <3>1
  <2> QED
    BY <2>4
<1>3. Min(T) \in T /\ \A x \in T : Min(T) <= x
  BY <1>1 DEF Min
<1>4. Max(T) \in T /\ \A x \in T : Max(T) >= x
  BY <1>2 DEF Max
<1> QED
  BY <1>3, <1>4

LEMMA BeginOfIs ==
    ASSUME Types, NEW h \in Nat
    PROVE  /\ BeginOf(h) \in DOMAIN index /\ BeginOf(h) \in Nat /\ BeginOf(h) <= h
           /\ \A b \in DOMAIN index : b <= h => b <= BeginOf(h)
<1> DEFINE T == {b \in DOMAIN index : b <= h}
<1>1. 0 \in DOMAIN index /\ DOMAIN index \subseteq Nat
  BY DEF Types
<1>2. T \in SUBSET (0..h) /\ 0 \in T
  BY <1>1
<1>3. Max(T) \in T /\ \A x \in T : x <= Max(T)
  <2> HIDE DEF T
  <2> QED
    BY <1>2, MinMaxIs
<1>4. BeginOf(h) = Max(T)
  BY DEF BeginOf
<1> QED
  BY <1>1, <1>3, <1>4

LEMMA KeysGrow ==
    ASSUME Types, NEW g \in Nat, NEW h \in Nat, g <= h
    PROVE  BeginOf(g) <= BeginOf(h)
<1>1. BeginOf(g) \in DOMAIN index /\ BeginOf(g) \in Nat /\ BeginOf(g) <= g
  BY BeginOfIs
<1>2. BeginOf(g) <= h
  BY <1>1
<1> QED
  BY <1>1, <1>2, BeginOfIs

(* Sorting puts the requests in another order.                             *)
LEMMA SortedIs ==
    ASSUME NEW c \in Seq(Ask), NoRepeats(c), NEW s \in SortedByHash(c)
    PROVE  /\ s \in Seq(Ask) /\ NoRepeats(s) /\ SortedAsks(s) /\ Range(s) = Range(c)
           /\ Len(s) = Len(c)
<1> DEFINE n == Len(c)
           D == DOMAIN c
<1>1. n \in Nat /\ D = 1..n /\ \A i \in D : c[i] \in Ask
  BY LenProperties, ElementOfSeq
<1>2. PICK p \in Bijection(D, D) : s = [i \in 1..n |-> c[p[i]]]
  BY DEF SortedByHash
<1>3. \A i, j \in D : i < j => Hash(s[i].val) <= Hash(s[j].val)
  BY DEF SortedByHash
<1>4. /\ p \in [D -> D] /\ \A i, j \in D : p[i] = p[j] => i = j
      /\ \A j \in D : \E i \in D : p[i] = j
  BY <1>2 DEF Bijection, Injection, Surjection, IsInjective
<1> HIDE DEF n, D
<1>5. \A i \in D : s[i] = c[p[i]] /\ p[i] \in D
  BY <1>1, <1>2, <1>4
<1>6. s \in Seq(Ask) /\ Len(s) = n /\ DOMAIN s = D
  <2>1. s = [i \in 1..n |-> s[i]] /\ \A i \in 1..n : s[i] \in Ask
    BY <1>1, <1>2, <1>5
  <2> QED
    BY <1>1, <2>1, IsSequence
<1>7. NoRepeats(s) /\ SortedAsks(s)
  <2>1. \A i, j \in D : c[i] = c[j] => i = j
    BY DEF NoRepeats, D
  <2> QED
    BY <1>3, <1>4, <1>5, <1>6, <2>1 DEF NoRepeats, SortedAsks
<1>8. Range(s) = Range(c)
  <2>1. Range(s) = {s[i] : i \in D} /\ Range(c) = {c[i] : i \in D}
    BY <1>6 DEF Range, D
  <2>2. \A i \in D : \E j \in D : s[i] = c[j]
    BY <1>5
  <2>3. \A j \in D : \E i \in D : s[i] = c[j]
    BY <1>4, <1>5
  <2> QED
    BY <2>1, <2>2, <2>3
<1> QED
  BY <1>6, <1>7, <1>8 DEF n

(* A group has the requests of one chain, and all requests are in groups.  *)
IsGroup(k, u, s) ==
    /\ IsTask(u) /\ u.at = "queued" /\ NoRepeats(u.reqs) /\ SortedAsks(u.reqs)
    /\ Range(u.reqs) \subseteq Range(s)
    /\ \A r \in Range(u.reqs) : KeyOf(r) = k
    /\ \A r \in Range(s) : KeyOf(r) = k => r \in Range(u.reqs)

LEMMA SubSeqOfSorted ==
    ASSUME NEW s \in Seq(Ask), NoRepeats(s), SortedAsks(s),
           NEW a \in DOMAIN s, NEW b \in DOMAIN s, a <= b
    PROVE  /\ SubSeq(s, a, b) \in Seq(Ask) /\ NoRepeats(SubSeq(s, a, b))
           /\ SortedAsks(SubSeq(s, a, b))
           /\ Range(SubSeq(s, a, b)) \subseteq {s[i] : i \in a..b}
           /\ \A i \in a..b : s[i] \in Range(SubSeq(s, a, b))
<1> DEFINE u == SubSeq(s, a, b)
           n == b - a + 1
<1>1. /\ DOMAIN s = 1..Len(s) /\ a \in Nat \ {0} /\ b \in Nat /\ b <= Len(s) /\ Len(s) \in Nat
      /\ \A i \in a..b : i \in 1..Len(s) /\ s[i] \in Ask
  OBVIOUS
<1>2. /\ u \in Seq(Ask) /\ Len(u) = n /\ \A i \in 1..n : u[i] = s[a + i - 1]
  BY <1>1
<1>3. DOMAIN u = 1..n /\ \A i \in 1..n : a + i - 1 \in a..b /\ a + i - 1 \in DOMAIN s
  BY <1>1, <1>2
<1> HIDE DEF u
<1>4. \A i, j \in 1..n : (a + i - 1 = a + j - 1 => i = j) /\ (i < j => a + i - 1 < a + j - 1)
  BY <1>1
<1>5. NoRepeats(u)
  BY <1>2, <1>3, <1>4 DEF NoRepeats
<1>6. SortedAsks(u)
  <2> SUFFICES ASSUME NEW i \in 1..n, NEW j \in 1..n, i < j
               PROVE  Hash(u[i].val) <= Hash(u[j].val)
    BY <1>3 DEF SortedAsks
  <2>1. a + i - 1 < a + j - 1 /\ a + i - 1 \in DOMAIN s /\ a + j - 1 \in DOMAIN s
    BY <1>3, <1>4
  <2>2. Hash(s[a + i - 1].val) <= Hash(s[a + j - 1].val)
    BY <2>1 DEF SortedAsks
  <2> QED
    BY <1>2, <2>2
<1>7. Range(u) \subseteq {s[i] : i \in a..b}
  BY <1>2, <1>3 DEF Range
<1>8. \A i \in a..b : s[i] \in Range(u)
  BY <1>1, RangeOfSubSeq DEF u
<1> QED
  BY <1>2, <1>5, <1>6, <1>7, <1>8 DEF u

LEMMA GroupsAre ==
    ASSUME Types, NEW s \in Seq(Ask), NoRepeats(s), SortedAsks(s)
    PROVE  /\ DOMAIN GroupsOf(s) \subseteq DOMAIN index
           /\ \A r \in Range(s) : KeyOf(r) \in DOMAIN GroupsOf(s)
           /\ \A k \in DOMAIN GroupsOf(s) : IsGroup(k, GroupsOf(s)[k], s)
<1> DEFINE n == Len(s)
           At(k) == {i \in DOMAIN s : KeyOf(s[i]) = k}
           t == GroupsOf(s)
<1>1. n \in Nat /\ DOMAIN s = 1..n /\ \A i \in DOMAIN s : s[i] \in Ask
  BY LenProperties, ElementOfSeq
<1>2. \A i \in DOMAIN s : Hash(s[i].val) \in Nat
  BY <1>1, HashIsNat DEF Ask
<1>3. \A i \in DOMAIN s : KeyOf(s[i]) \in DOMAIN index /\ KeyOf(s[i]) \in Nat
  BY <1>2, BeginOfIs DEF KeyOf
<1>4. ASSUME NEW i \in DOMAIN s, NEW j \in DOMAIN s, i <= j
      PROVE  KeyOf(s[i]) <= KeyOf(s[j])
  <2>1. CASE i = j
    BY <1>3, <2>1
  <2>2. CASE i < j
    <3>1. Hash(s[i].val) <= Hash(s[j].val)
      BY <2>2 DEF SortedAsks
    <3> QED
      BY <1>2, <3>1, KeysGrow DEF KeyOf
  <2> QED
    BY <1>1, <1>4, <2>1, <2>2
<1>5. DOMAIN t = {KeyOf(s[i]) : i \in DOMAIN s}
  BY DEF GroupsOf
<1>6. ASSUME NEW k \in DOMAIN t
      PROVE  /\ t[k].at = "queued" /\ t[k].reqs = SubSeq(s, Min(At(k)), Max(At(k)))
             /\ t[k] = [at |-> t[k].at, reqs |-> t[k].reqs, slot |-> t[k].slot]
  BY <1>5, <1>6 DEF GroupsOf
<1>7. ASSUME NEW k \in DOMAIN t PROVE IsGroup(k, t[k], s)
  <2> DEFINE T == At(k)
             a == Min(T)
             b == Max(T)
  <2>1. T \in SUBSET (0..n) /\ T # {} /\ T \subseteq DOMAIN s /\ \A i \in T : KeyOf(s[i]) = k
    BY <1>1, <1>5
  <2>2. a \in T /\ b \in T /\ \A i \in T : a <= i /\ i <= b
    <3> HIDE DEF T
    <3> QED
      BY <1>1, <2>1, MinMaxIs
  <2>3. t[k].reqs = SubSeq(s, a, b)
    BY <1>6
  <2>4. \A i \in DOMAIN s : KeyOf(s[i]) = k => i \in T
    OBVIOUS
  <2> HIDE DEF T, a, b, t
  <2>5. a \in DOMAIN s /\ b \in DOMAIN s /\ a <= b /\ \A i \in a..b : i \in DOMAIN s
    BY <1>1, <2>1, <2>2
  <2> DEFINE u == SubSeq(s, a, b)
  <2>6. /\ u \in Seq(Ask) /\ NoRepeats(u) /\ SortedAsks(u)
        /\ Range(u) \subseteq {s[i] : i \in a..b} /\ \A i \in a..b : s[i] \in Range(u)
    BY <2>5, SubSeqOfSorted
  <2>7. \A i \in a..b : KeyOf(s[i]) = k
    <3> SUFFICES ASSUME NEW i \in a..b PROVE KeyOf(s[i]) = k
      OBVIOUS
    <3>1. i \in DOMAIN s /\ a <= i /\ i <= b /\ KeyOf(s[a]) = k /\ KeyOf(s[b]) = k
      BY <1>1, <2>1, <2>2, <2>5
    <3>2. k <= KeyOf(s[i]) /\ KeyOf(s[i]) <= k /\ k \in Nat /\ KeyOf(s[i]) \in Nat
      BY <1>3, <1>4, <2>5, <3>1
    <3> QED
      BY <3>2
  <2>8. \A r \in Range(s) : KeyOf(r) = k => r \in Range(u)
    <3> SUFFICES ASSUME NEW i \in DOMAIN s, KeyOf(s[i]) = k PROVE s[i] \in Range(u)
      BY DEF Range
    <3>1. i \in a..b
      BY <1>1, <2>2, <2>4, <2>5
    <3> QED
      BY <2>6, <3>1
  <2>9. Range(u) \subseteq Range(s)
    BY <2>5, <2>6 DEF Range
  <2> HIDE DEF u
  <2>10. t[k].reqs = u
    BY <2>3 DEF u
  <2>11. \A r \in Range(u) : KeyOf(r) = k
    BY <2>6, <2>7
  <2>12. IsTask(t[k])
    BY <1>6, <2>6, <2>10 DEF IsTask
  <2> QED
    BY <1>6, <2>6, <2>8, <2>9, <2>10, <2>11, <2>12 DEF IsGroup
<1>8. DOMAIN t \subseteq DOMAIN index
  BY <1>3, <1>5
<1>9. \A r \in Range(s) : KeyOf(r) \in DOMAIN t
  BY <1>5 DEF Range
<1> QED
  BY <1>7, <1>8, <1>9

LEMMA BeginMergeKeeps ==
    ASSUME IInv, BeginMerge
    PROVE  IInv'
<1>1. /\ controller = "lock" /\ first' = first
      /\ asked' = asked /\ held' = held /\ success' = success /\ called' = called
      /\ maxItems' = maxItems /\ size' = size
      /\ file' = file /\ index' = index /\ newBlocks' = newBlocks /\ cuts' = cuts
  BY DEF BeginMerge, unchangedByController
<1>2. /\ Answered' = Answered /\ second' = second /\ Disk' = Disk /\ InHand' = InHand
  BY <1>1 DEF Answered, second, Disk, InHand
<1>3. Types /\ Resting /\ tasks = NoTasks /\ cuts = << >> /\ newBlocks = << >> /\ Disk = file
  BY <1>1 DEF IInv, Quiet, Resting, Disk, Types
<1>4. DOMAIN tasks = {}
  BY <1>3 DEF NoTasks
<1>5. \A q : KeyOf(q)' = KeyOf(q)
  BY <1>1, SameKeys
<1>6. CASE buffers[second] = << >>
  <2>1. controller' = "swap" /\ buffers' = buffers /\ tasks' = tasks
    BY <1>6 DEF BeginMerge
  <2>2. Resting'
    BY <2>1 DEF Resting
  <2>3. Types'
    BY <1>1, <2>1, <1>3 DEF Types
  <2>4. Quiet' /\ Chains'
    BY <1>1, <1>3, <1>4, <2>1, ChainsStay DEF IInv, Quiet
  <2>5. TasksFit'
    BY <1>4, <2>1 DEF TasksFit
  <2>6. Once'
    BY <1>1, <1>2, <1>3, <2>1, <2>2 DEF IInv, Once
  <2>7. Kept'
    <3>1. Rests' = Rests
      BY <2>1 DEF Rests
    <3>2. Unmerged' = Unmerged
      BY <1>1, <1>2, <1>3, <2>1, <2>2, <3>1, UnmergedIs
    <3> QED
      BY <1>1, <1>2, <3>2 DEF IInv, Kept
  <2> QED
    BY <2>3, <2>4, <2>5, <2>6, <2>7 DEF IInv
<1>7. CASE buffers[second] # << >>
  <2>1. controller' = "merge"
    BY <1>7 DEF BeginMerge
  <2>2. PICK s \in SortedByHash(buffers[second]) :
           buffers' = [buffers EXCEPT ![second] = s] /\ tasks' = GroupsOf(s)
    BY <1>7 DEF BeginMerge
  <2>3. /\ buffers \in [{1, 2} -> Seq(Ask)] /\ first \in {1, 2} /\ second \in {1, 2}
        /\ second # first
    BY <1>3 DEF Types, second
  <2>4. /\ NoRepeats(buffers[1]) /\ NoRepeats(buffers[2])
        /\ Range(buffers[1]) \cap Range(buffers[2]) = {}
        /\ Range(buffers[second]) \cap Answered = {}
    BY <1>3 DEF IInv, Once
  <2>5. /\ s \in Seq(Ask) /\ NoRepeats(s) /\ SortedAsks(s)
        /\ Range(s) = Range(buffers[second])
    <3>1. buffers[second] \in Seq(Ask) /\ NoRepeats(buffers[second])
      BY <2>3, <2>4
    <3> QED
      BY <3>1, <2>2, SortedIs
  <2>6. /\ buffers' \in [{1, 2} -> Seq(Ask)] /\ buffers'[second] = s
        /\ buffers'[first] = buffers[first]
        /\ \A b \in {1, 2} : Range(buffers'[b]) = Range(buffers[b]) /\ NoRepeats(buffers'[b])
    <3>1. buffers' \in [{1, 2} -> Seq(Ask)] /\ buffers'[second] = s
          /\ \A b \in {1, 2} : b # second => buffers'[b] = buffers[b]
      BY <2>2, <2>3, <2>5
    <3>2. \A b \in {1, 2} : NoRepeats(buffers[b])
      BY <2>4
    <3>3. \A b \in {1, 2} : Range(buffers'[b]) = Range(buffers[b]) /\ NoRepeats(buffers'[b])
      BY <2>5, <3>1, <3>2
    <3> QED
      BY <2>3, <3>1, <3>3
  <2>7. /\ DOMAIN tasks' \subseteq DOMAIN index
        /\ \A r \in Range(s) : KeyOf(r) \in DOMAIN tasks'
        /\ \A k \in DOMAIN tasks' : IsGroup(k, tasks'[k], s)
    BY <1>3, <2>2, <2>5, GroupsAre
  <2>8. ~ Resting'
    BY <2>1 DEF Resting
  <2>9. Types'
    <3>1. \A k \in DOMAIN tasks' : IsTask(tasks'[k])
      BY <2>7 DEF IsGroup
    <3> QED
      BY <1>1, <1>3, <2>1, <2>6, <2>7, <3>1 DEF Types
  <2>10. Quiet'
    BY <2>8 DEF Quiet
  <2>11. Chains'
    <3>1. PICK F : ChainsBy(F)
      BY DEF IInv, Chains
    <3>2. \A k \in DOMAIN index : Range(F[<<0, k>>]) \subseteq DOMAIN file
      <4> SUFFICES ASSUME NEW k \in DOMAIN index PROVE Range(F[<<0, k>>]) \subseteq DOMAIN file
        OBVIOUS
      <4>1. <<0, k>> \in Tags(index, cuts)
        BY DEF Tags
      <4>2. F[<<0, k>>] \in Seq(DOMAIN Disk)
        BY <3>1, <4>1 DEF ChainsBy, AreChains, IsChain
      <4> QED
        BY <1>3, <4>2, RangeIsIn
    <3>3. ChainsBy(F)'
      BY <1>1, <1>2, <2>7, <3>1, <3>2 DEF ChainsBy
    <3> QED
      BY <3>3 DEF Chains
  <2>12. TasksFit'
    <3>1. \A k \in DOMAIN tasks' : TaskFits(k, tasks[k].reqs)'
      <4> SUFFICES ASSUME NEW k \in DOMAIN tasks' PROVE TaskFits(k, tasks[k].reqs)'
        OBVIOUS
      <4>1. IsGroup(k, tasks'[k], s)
        BY <2>7
      <4> QED
        BY <1>2, <1>5, <2>4, <2>5, <2>6, <4>1 DEF TaskFits, IsGroup
    <3>2. \A k \in DOMAIN tasks' : NoRepeats(tasks'[k].reqs) /\ tasks'[k].at # "running"
      BY <2>7 DEF IsGroup
    <3> QED
      BY <3>1, <3>2 DEF TasksFit
  <2>13. Once'
    <3>1. Range(buffers'[1]) = Range(buffers[1]) /\ Range(buffers'[2]) = Range(buffers[2])
          /\ NoRepeats(buffers'[1]) /\ NoRepeats(buffers'[2])
      BY <2>6
    <3> QED
      BY <1>1, <1>2, <2>6, <2>8, <3>1 DEF IInv, Once
  <2>14. Kept'
    <3>1. \A r \in Range(s) : InRests(r)'
      BY <2>7 DEF InRests, IsGroup
    <3>2. Range(buffers[second]) \subseteq Rests'
      BY <2>5, <3>1, RestsAre
    <3>3. Rests = {}
      BY <1>4 DEF Rests
    <3>4. Unmerged \subseteq Unmerged'
      BY <1>1, <1>2, <2>6, <3>2, <3>3, UnmergedIs
    <3> QED
      BY <1>1, <1>2, <3>4 DEF IInv, Kept
  <2> QED
    BY <2>9, <2>10, <2>11, <2>12, <2>13, <2>14 DEF IInv
<1> QED
  BY <1>6, <1>7
-----------------------------------------------------------------------------
(* The controller ends a merge: the chains cut off get their entries, but  *)
(* of two that begin with the same hash only the first.                    *)

LEMMA CutsGetEntries ==
    ASSUME Types, NEW F, AreChains(Disk, index, cuts, F, maxItems),
           NEW ix, ix = [h \in DOMAIN index \cup CutHashes |->
                            IF h \in DOMAIN index THEN index[h] ELSE CutAt(h)]
    PROVE  /\ DOMAIN index \subseteq DOMAIN ix /\ DOMAIN ix \subseteq Nat
           /\ \E G : AreChains(Disk, ix, << >>, G, maxItems)
<1> DEFINE K == Len(cuts)
           At(h) == {i \in DOMAIN cuts : cuts[i].hash = h}
           tag(h) == IF h \in DOMAIN index THEN <<0, h>> ELSE <<1, Min(At(h))>>
           D == DOMAIN index \cup CutHashes
           G == [t \in {0} \X D |-> F[tag(t[2])]]
<1>1. K \in Nat /\ DOMAIN cuts = 1..K /\ \A i \in 1..K : cuts[i].hash \in Nat
  <2>1. cuts \in Seq([hash : Nat, info : Limits])
    BY DEF Types
  <2>2. \A i \in 1..K : cuts[i] \in [hash : Nat, info : Limits]
    BY <2>1, ElementOfSeq
  <2>3. \A c \in [hash : Nat, info : Limits] : c.hash \in Nat
    OBVIOUS
  <2> QED
    BY <2>1, <2>2, <2>3, LenProperties
<1>2. DOMAIN index \subseteq Nat /\ D \subseteq Nat
  BY <1>1 DEF Types, CutHashes
<1>3. ASSUME NEW h \in D, h \notin DOMAIN index
      PROVE  /\ Min(At(h)) \in DOMAIN cuts /\ cuts[Min(At(h))].hash = h
             /\ CutAt(h) = cuts[Min(At(h))].info
  <2> DEFINE T == At(h)
  <2>1. T \in SUBSET (0..K) /\ T # {}
    BY <1>1, <1>3 DEF CutHashes
  <2>2. Min(T) \in T
    <3> HIDE DEF T, K
    <3> QED
      BY <1>1, <2>1, MinMaxIs
  <2> QED
    BY <2>2 DEF CutAt
<1>4. ASSUME NEW h \in D
      PROVE  tag(h) \in Tags(index, cuts) /\ ix[h] = InfoOf(index, cuts, tag(h))
  <2>1. CASE h \in DOMAIN index
    <3>1. tag(h) = <<0, h>>
      BY <2>1
    <3> QED
      BY <2>1, <3>1 DEF Tags, InfoOf
  <2>2. CASE h \notin DOMAIN index
    <3>1. tag(h) = <<1, Min(At(h))>> /\ ix[h] = CutAt(h)
      BY <2>2
    <3> DEFINE i == Min(At(h))
    <3>2. i \in DOMAIN cuts /\ CutAt(h) = cuts[i].info
      BY <1>3, <2>2
    <3> HIDE DEF i
    <3>3. tag(h) = <<1, i>>
      BY <3>1 DEF i
    <3> HIDE DEF tag
    <3> QED
      BY <3>1, <3>2, <3>3 DEF Tags, InfoOf
  <2> QED
    BY <2>1, <2>2
<1>5. ASSUME NEW g \in D, NEW h \in D, tag(g) = tag(h)
      PROVE  g = h
  <2> DEFINE M(e) == Min(At(e))
  <2>1. /\ g \notin DOMAIN index => tag(g) = <<1, M(g)>> /\ cuts[M(g)].hash = g
        /\ h \notin DOMAIN index => tag(h) = <<1, M(h)>> /\ cuts[M(h)].hash = h
        /\ g \in DOMAIN index => tag(g) = <<0, g>>
        /\ h \in DOMAIN index => tag(h) = <<0, h>>
    BY <1>3
  <2> HIDE DEF tag, M
  <2> QED
    BY <1>5, <2>1
<1> HIDE DEF tag, At
<1>6. ix = [h \in D |-> ix[h]] /\ DOMAIN ix = D /\ DOMAIN << >> = {}
  OBVIOUS
<1> HIDE DEF D
<1>7. Tags(ix, << >>) = {0} \X D
  BY <1>6 DEF Tags
<1>8. \A t \in {0} \X D : t = <<0, t[2]>> /\ t[2] \in D /\ G[t] = F[tag(t[2])]
                          /\ InfoOf(ix, << >>, t) = ix[t[2]]
  BY DEF InfoOf
<1> HIDE DEF G
<1>9. ASSUME NEW t \in {0} \X D PROVE IsChain(Disk, InfoOf(ix, << >>, t), G[t], maxItems)
  <2>1. tag(t[2]) \in Tags(index, cuts) /\ ix[t[2]] = InfoOf(index, cuts, tag(t[2]))
    BY <1>4, <1>8
  <2>2. IsChain(Disk, InfoOf(index, cuts, tag(t[2])), F[tag(t[2])], maxItems)
    BY <2>1 DEF AreChains
  <2> QED
    BY <1>8, <2>1, <2>2
<1>10. ASSUME NEW t \in {0} \X D, NEW u \in {0} \X D, t # u
       PROVE  Range(G[t]) \cap Range(G[u]) = {}
  <2>1. t[2] # u[2] /\ t[2] \in D /\ u[2] \in D
    BY <1>8, <1>10
  <2>2. tag(t[2]) # tag(u[2]) /\ tag(t[2]) \in Tags(index, cuts) /\ tag(u[2]) \in Tags(index, cuts)
    BY <1>4, <1>5, <2>1
  <2> QED
    BY <1>8, <2>2 DEF AreChains
<1>11. AreChains(Disk, ix, << >>, G, maxItems)
  BY <1>7, <1>9, <1>10 DEF AreChains
<1> QED
  BY <1>2, <1>6, <1>11 DEF D

LEMMA WaitAllKeeps ==
    ASSUME IInv, WaitAll
    PROVE  IInv'
<1>1. /\ controller = "merge" /\ first' = first /\ tasks' = tasks
      /\ asked' = asked /\ held' = held /\ success' = success /\ called' = called
      /\ maxItems' = maxItems /\ size' = size
  BY DEF WaitAll, unchangedByController
<1>2. Answered' = Answered /\ second' = second /\ InHand' = InHand /\ Rests' = Rests
  BY <1>1 DEF Answered, second, InHand, Rests
<1>3. Types /\ ~ Resting
  BY <1>1 DEF IInv, Resting
<1>4. CASE tasks = NoTasks
  <2>1. /\ controller' = "swap" /\ file' = Disk /\ newBlocks' = << >> /\ cuts' = << >>
        /\ index' = [h \in DOMAIN index \cup CutHashes |->
                            IF h \in DOMAIN index THEN index[h] ELSE CutAt(h)]
        /\ buffers' = [buffers EXCEPT ![second] = << >>]
    BY <1>4 DEF WaitAll, Disk
  <2>2. Resting' /\ DOMAIN tasks = {}
    BY <1>4, <2>1 DEF Resting, NoTasks
  <2>3. Disk \in Seq(Block) /\ Disk' = Disk
    <3>1. file \in Seq(Block) /\ newBlocks \in Seq(Block)
      BY <1>3 DEF Types
    <3>2. Disk \in Seq(Block)
      BY <3>1, ConcatProperties DEF Disk
    <3>3. Disk' = Disk \o << >>
      BY <2>1 DEF Disk
    <3> QED
      BY <3>2, <3>3
  <2>4. PICK F : AreChains(Disk, index, cuts, F, maxItems)
    BY DEF IInv, Chains, ChainsBy
  <2>5. /\ DOMAIN index \subseteq DOMAIN index' /\ DOMAIN index' \subseteq Nat
        /\ \E G : AreChains(Disk, index', << >>, G, maxItems)
    BY <1>3, <2>1, <2>4, CutsGetEntries
  <2>6. /\ buffers \in [{1, 2} -> Seq(Ask)] /\ first \in {1, 2} /\ second \in {1, 2}
        /\ second # first
    BY <1>3 DEF Types, second
  <2>7. /\ buffers' \in [{1, 2} -> Seq(Ask)] /\ buffers'[first] = buffers[first]
        /\ buffers'[second] = << >> /\ Range(buffers'[second]) = {} /\ NoRepeats(buffers'[second])
    <3>1. << >> \in Seq(Ask) /\ Range(<< >>) = {} /\ NoRepeats(<< >>)
      BY DEF Range, NoRepeats
    <3> DEFINE e == << >>
    <3>2. e \in Seq(Ask) /\ buffers' = [buffers EXCEPT ![second] = e]
          /\ Range(e) = {} /\ NoRepeats(e)
      BY <2>1, <3>1
    <3> HIDE DEF e
    <3>3. buffers' \in [{1, 2} -> Seq(Ask)] /\ buffers'[first] = buffers[first] /\ buffers'[second] = e
      BY <2>6, <3>2
    <3> QED
      BY <3>2, <3>3 DEF e
  <2>8. Types'
    <3>1. 0 \in DOMAIN index /\ DOMAIN tasks \subseteq DOMAIN index
      BY <1>3 DEF Types
    <3>2. << >> \in Seq(Block) /\ << >> \in Seq([hash : Nat, info : Limits])
      OBVIOUS
    <3>3. file' \in Seq(Block) /\ newBlocks' \in Seq(Block)
          /\ cuts' \in Seq([hash : Nat, info : Limits])
      BY <2>1, <2>3, <3>2
    <3> QED
      BY <1>1, <1>3, <2>1, <2>5, <2>7, <3>1, <3>3 DEF Types
  <2>9. Quiet'
    BY <1>1, <1>4, <2>1 DEF Quiet, NoTasks
  <2>10. Chains'
    <3>1. PICK G : AreChains(Disk, index', << >>, G, maxItems)
      BY <2>5
    <3>2. ChainsBy(G)'
      BY <1>1, <2>1, <2>2, <2>3, <3>1 DEF ChainsBy
    <3> QED
      BY <3>2 DEF Chains
  <2>11. TasksFit'
    BY <1>1, <2>2 DEF TasksFit
  <2>12. /\ \A r : r \in Range(buffers'[1]) \cup Range(buffers'[2]) => r \in Range(buffers'[first])
         /\ Range(buffers'[1]) \cap Range(buffers'[2]) = {}
         /\ NoRepeats(buffers'[1]) /\ NoRepeats(buffers'[2])
    <3>1. NoRepeats(buffers[first])
      BY <2>6 DEF IInv, Once
    <3>2. CASE first = 1
      <4>1. second = 2
        BY <3>2 DEF second
      <4> QED
        BY <2>7, <3>1, <3>2, <4>1
    <3>3. CASE first = 2
      <4>1. second = 1
        BY <3>3 DEF second
      <4> QED
        BY <2>7, <3>1, <3>3, <4>1
    <3> QED
      BY <2>6, <3>2, <3>3
  <2>13. Once'
    <3>1. Once /\ Range(buffers[first]) \subseteq Range(buffers[1]) \cup Range(buffers[2])
      BY <2>6 DEF IInv
    <3>2. Range(buffers'[first]) \cap Answered = {}
      BY <2>7, <3>1 DEF Once
    <3>3. Range(buffers'[1]) \cup Range(buffers'[2]) \subseteq Range(buffers[1]) \cup Range(buffers[2])
      BY <2>7, <2>12, <3>1
    <3> QED
      BY <1>1, <1>2, <2>7, <2>12, <3>1, <3>2, <3>3 DEF Once
  <2>14. Kept'
    <3>1. Unmerged \subseteq Unmerged'
      BY <1>1, <1>2, <1>3, <2>7, UnmergedIs
    <3> QED
      BY <1>1, <1>2, <2>3, <3>1 DEF IInv, Kept
  <2> QED
    BY <2>8, <2>9, <2>10, <2>11, <2>13, <2>14 DEF IInv
<1>5. CASE tasks # NoTasks
  <2>1. /\ controller' = "undefined" /\ file' = file /\ newBlocks' = newBlocks /\ index' = index
        /\ cuts' = cuts /\ buffers' = buffers
    BY <1>5 DEF WaitAll
  <2>2. ~ Resting' /\ Disk' = Disk
    BY <2>1 DEF Resting, Disk
  <2>3. Types' /\ Quiet' /\ Chains'
    BY <1>1, <1>3, <2>1, <2>2, ChainsStay DEF IInv, Types, Quiet
  <2>4. TasksFit'
    <3>1. \A q : KeyOf(q)' = KeyOf(q)
      BY <2>1, SameKeys
    <3> QED
      BY <1>1, <1>2, <2>1, <3>1 DEF IInv, TasksFit, TaskFits
  <2>5. Once'
    BY <1>1, <1>2, <2>1, <2>2 DEF IInv, Once
  <2>6. Kept'
    <3>1. Unmerged' = Unmerged
      BY <1>1, <1>2, <1>3, <2>1, <2>2, UnmergedIs
    <3> QED
      BY <1>1, <1>2, <2>2, <3>1 DEF IInv, Kept
  <2> QED
    BY <2>3, <2>4, <2>5, <2>6 DEF IInv
<1> QED
  BY <1>4, <1>5
-----------------------------------------------------------------------------
(* A worker merges the requests of its task into their chain.              *)

LEMMA CountedOnce ==
    ASSUME NEW s \in Seq(Ask), NoRepeats(s)
    PROVE  IsFiniteSet(Range(s)) /\ Cardinality(Range(s)) = Len(s)
<1> DEFINE n == Len(s)
           R == Range(s)
<1>1. n \in Nat /\ DOMAIN s = 1..n /\ \A i \in 1..n : s[i] \in R
  BY RangeIsIn
<1>2. IsFiniteSet(1..n) /\ Cardinality(1..n) = n
  <2> HIDE DEF n
  <2> QED
    BY <1>1, FS_Interval
<1>3. s \in Bijection(1..n, R)
  <2>1. s \in [1..n -> R]
    <3> HIDE DEF R
    <3> QED
      BY <1>1
  <2>2. \A r \in R : \E i \in 1..n : s[i] = r
    BY <1>1 DEF Range
  <2>3. \A i, j \in 1..n : s[i] = s[j] => i = j
    BY <1>1 DEF NoRepeats
  <2> HIDE DEF R, n
  <2> QED
    BY <1>1, <2>1, <2>2, <2>3 DEF Bijection, Injection, Surjection, IsInjective
<1> HIDE DEF R, n
<1>4. ExistsBijection(1..n, R)
  BY <1>3 DEF ExistsBijection
<1> QED
  BY <1>2, <1>4, FS_Bijection DEF R, n

(* What the requests of a task leave to be inserted, beside the values all *)
(* of the chain.                                                           *)
AreNew(reqs, all, new) ==
    /\ new \in Seq(Ask) /\ NoRepeats(new) /\ Range(new) \subseteq Range(reqs)
    /\ Twins(Range(new))
    /\ \A r \in Range(reqs) : r.val \in Range(all) \cup Vals(Range(new))

LEMMA NewOnes ==
    ASSUME NEW reqs \in Seq(Ask), NoRepeats(reqs), SortedAsks(reqs),
           NEW all \in Seq(Values)
    PROVE  AreNew(reqs, all, NotIn(all, Unique(reqs)))
<1> DEFINE u == Unique(reqs)
           new == NotIn(all, u)
<1>1. IsThinned(reqs, Len(reqs), u) /\ Twins(Range(u))
  BY UniqueThins, ThinnedHasTwins
<1>2. /\ u \in Seq(Ask) /\ NoRepeats(u)
      /\ Range(u) \subseteq {reqs[j] : j \in 1..Len(reqs)}
      /\ \A j \in 1..Len(reqs) : reqs[j].val \in Vals(Range(u))
  BY <1>1 DEF IsThinned
<1> HIDE DEF u
<1>3. /\ new \in Seq(Ask) /\ NoRepeats(new) /\ Range(new) \subseteq Range(u)
      /\ \A r \in Range(u) : r \in Range(new) \/ r.val \in Range(all)
  BY <1>2, NotInSifts
<1> HIDE DEF new
<1>4. DOMAIN reqs = 1..Len(reqs)
  BY LenProperties
<1>5. Range(u) \subseteq Range(reqs)
  BY <1>2, <1>4 DEF Range
<1>6. Twins(Range(new))
  BY <1>1, <1>3 DEF Twins
<1>7. ASSUME NEW r \in Range(reqs) PROVE r.val \in Range(all) \cup Vals(Range(new))
  <2>1. r.val \in Vals(Range(u))
    BY <1>2, <1>4 DEF Range
  <2>2. PICK q \in Range(u) : r.val = q.val
    BY <2>1 DEF Vals
  <2> QED
    BY <1>3, <2>2 DEF Vals
<1> QED
  BY <1>3, <1>5, <1>6, <1>7 DEF AreNew, u, new

(* The chain of the file that the task reads.                              *)
LEMMA OwnChain ==
    ASSUME Types, NEW F, ChainsBy(F), NEW k \in DOMAIN tasks, tasks[k].at # "running"
    PROVE  k \in DOMAIN index /\ IsChain(file, index[k], F[<<0, k>>], maxItems)
<1> DEFINE ids == F[<<0, k>>]
<1>1. k \in DOMAIN index /\ <<0, k>> \in Tags(index, cuts)
  BY DEF Types, Tags
<1>2. IsChain(Disk, index[k], ids, maxItems)
  <2>1. InfoOf(index, cuts, <<0, k>>) = index[k]
    BY DEF InfoOf
  <2> QED
    BY <1>1, <2>1 DEF ChainsBy, AreChains
<1>3. Range(ids) \subseteq DOMAIN file
  BY DEF ChainsBy
<1> HIDE DEF ids
<1>4. ids \in Seq(DOMAIN Disk) /\ DOMAIN ids = 1..Len(ids) /\ \A i \in DOMAIN ids : ids[i] \in Range(ids)
  BY <1>2, RangeIsIn DEF IsChain
<1>5. \A i \in 1..Len(ids) : ids[i] \in DOMAIN file
  BY <1>3, <1>4
<1>6. ids \in Seq(DOMAIN file)
  BY <1>4, <1>5
<1>7. \A b \in DOMAIN file : Disk[b] = file[b]
  BY ConcatProperties, LenProperties DEF Types, Disk
<1>8. \A i \in 1..Len(ids) : Disk[ids[i]] = file[ids[i]]
  BY <1>5, <1>7
<1>9. IsChain(file, index[k], ids, maxItems)
  BY <1>2, <1>6, <1>8 DEF IsChain
<1> QED
  BY <1>1, <1>9 DEF ids

(* What the merge does, for the chain as it is on disk.                    *)
Changes(k, old, new, d) ==
    /\ tasks' = [tasks EXCEPT ![k].at = "running", ![k].reqs = new]
    /\ size' = size + Len(new)
    /\ success' = success \cup Range(new)
    /\ WriteBack(k, old, d)

LEMMA MergeDoes ==
    ASSUME IInv, NEW k \in DOMAIN tasks, MergeIntoChain(k), NEW F, ChainsBy(F),
           NEW old, old = F[<<0, k>>]
    PROVE  \E all \in Seq(Values), new \in Seq(Ask), N \in Nat : \E d :
              /\ AreNew(tasks[k].reqs, all, new)
              /\ InFile(all)
              /\ IsDone(d, N, old, NextId, Range(all) \cup Vals(Range(new)))
              /\ Changes(k, old, new, d)
<1>1. Types /\ tasks[k].at = "popped" /\ maxItems \in Nat \ {0} /\ file \in Seq(Block)
      /\ newBlocks \in Seq(Block)
  BY DEF IInv, MergeIntoChain, Types
<1>2. IsChain(file, index[k], old, maxItems)
  BY <1>1, OwnChain
<1>3. NextId \in Nat
  BY <1>1, LenProperties DEF NextId
<1>4. PICK c, all, new, long, merged, full, done :
        /\ c = ReadChain(index[k]) /\ all = Elements(c.blocks)
        /\ new = NotIn(all, Unique(tasks[k].reqs))
        /\ long = Resized(c, Len(all) + Len(new), NextId)
        /\ merged = Merged(all, new) /\ full = Refilled(long, merged) /\ done = Balanced(full)
        /\ Changes(k, c.ids, new, done)
  BY ZenonT(30) DEF MergeIntoChain, Changes
<1>5. tasks[k].reqs \in Seq(Ask) /\ NoRepeats(tasks[k].reqs) /\ SortedAsks(tasks[k].reqs)
  BY <1>1 DEF IInv, Types, IsTask, TasksFit, TaskFits
<1> DEFINE info == index[k]
<1>6. all = Elements(ReadChain(info).blocks) /\ IsChain(file, info, old, maxItems)
  BY <1>2, <1>4
<1> HIDE DEF info
<1>7. all \in Seq(Values)
  <2> DEFINE none == << >>
             e == Resized(ReadChain(info), Len(all) + Len(none), 0)
             f == Refilled(e, Merged(all, none))
  <2>1. none \in Seq(Ask) /\ 0 \in Nat
    OBVIOUS
  <2>2. e = Resized(ReadChain(info), Len(all) + Len(none), 0) /\ f = Refilled(e, Merged(all, none))
    OBVIOUS
  <2> HIDE DEF none, e, f
  <2> QED
    BY <1>1, <1>6, <2>1, <2>2, MergeWorks
<1>8. AreNew(tasks[k].reqs, all, new)
  BY <1>4, <1>5, <1>7, NewOnes
<1>9. new \in Seq(Ask)
  BY <1>8 DEF AreNew
<1> DEFINE id == NextId
<1>10. long = Resized(ReadChain(info), Len(all) + Len(new), id)
       /\ full = Refilled(long, Merged(all, new)) /\ id \in Nat
  BY <1>3, <1>4 DEF info
<1> HIDE DEF id
<1>11. /\ ReadChain(info).ids = old /\ InFile(all)
       /\ HasMerged(Balanced(full), old, id, all, new)
  BY <1>1, <1>6, <1>9, <1>10, MergeWorks
<1>12. c.ids = old /\ done = Balanced(full)
  BY <1>4, <1>11 DEF info
<1>13. Changes(k, old, new, done)
  BY <1>4, <1>12
<1>14. PICK N \in Nat : IsDone(done, N, old, id, Range(all) \cup Vals(Range(new)))
  BY <1>11, <1>12 DEF HasMerged
<1>15. IsDone(done, N, old, NextId, Range(all) \cup Vals(Range(new)))
  BY <1>14 DEF id
<1> QED
  BY <1>7, <1>8, <1>9, <1>11, <1>13, <1>15

(* What is on disk or to be written afterwards.                            *)
LEMMA MergeWrites ==
    ASSUME Types, NEW F, ChainsBy(F), NEW k \in DOMAIN tasks, tasks[k].at # "running",
           NEW V, NEW new, NEW N \in Nat, NEW d,
           NEW old, old = F[<<0, k>>], IsDone(d, N, old, NextId, V), Changes(k, old, new, d)
    PROVE  /\ file' \in Seq(Block) /\ newBlocks' \in Seq(Block) /\ DOMAIN file' = DOMAIN file
           /\ cuts' \in Seq([hash : Nat, info : Limits])
           /\ DOMAIN index' = DOMAIN index
           /\ \E G : AreChains(Disk', index', cuts', G, maxItems) /\ SameElse(F, G, k)
           /\ \A b \in DOMAIN Disk' : \/ Range(Disk'[b].items) \subseteq V
                                      \/ b \in DOMAIN Disk /\ Disk'[b] = Disk[b]
<1> DEFINE slotOf(i) == tasks[k].slot + i - 1
           places == {i \in DOMAIN old : slotOf(i) \in marked'}
           info == index[k]
<1>1. /\ maxItems \in Nat \ {0} /\ file \in Seq(Block) /\ newBlocks \in Seq(Block)
      /\ cuts \in Seq([hash : Nat, info : Limits])
  BY DEF Types
<1>2. k \in DOMAIN index /\ IsChain(file, info, old, maxItems)
  BY OwnChain
<1>3. /\ marked' = marked \cup {slotOf(i) : i \in DOMAIN old \cap d.modified}
      /\ file' = [b \in DOMAIN file |->
               IF \E i \in places : old[i] = b
               THEN d.blocks[CHOOSE i \in places : old[i] = b]
               ELSE file[b]]
      /\ newBlocks' = newBlocks \o SubSeq(d.blocks, Len(old) + 1, Len(d.blocks))
      /\ index' = [index EXCEPT ![k] = d.info]
      /\ cuts' = cuts \o d.cuts
  BY DEF Changes, WriteBack
<1>4. places \subseteq DOMAIN old /\ DOMAIN old \cap d.modified \subseteq places
  BY <1>3
<1> HIDE DEF places, info
<1>5. IsDone(d, N, old, Len(file) + Len(newBlocks) + 1, V)
  BY DEF NextId
<1> DEFINE written == file'
           kept == newBlocks'
<1>6. /\ written = Overwritten(places, old, d) /\ DOMAIN written = DOMAIN file
      /\ kept = newBlocks \o SubSeq(d.blocks, Len(old) + 1, Len(d.blocks))
      /\ Disk' = written \o kept
  BY <1>3 DEF Disk, Overwritten
<1> HIDE DEF written, kept
<1> DEFINE bs == written \o kept
<1>7. /\ written \in Seq(Block) /\ kept \in Seq(Block) /\ Len(written) = Len(file)
      /\ IsWritten(bs, d.ids, d, N, maxItems)
      /\ KeepsElse(bs, old) /\ TakesNew(d.ids, N, old) /\ SameOrOf(bs, V)
  BY <1>1, <1>2, <1>4, <1>5, <1>6, WrittenBack
<1>8. DOMAIN written = DOMAIN file
  BY <1>6
<1> HIDE DEF bs
<1>9. AreChains(Disk, index, cuts, F, maxItems)
  BY DEF ChainsBy
<1> DEFINE ix == index'
           cs == cuts'
<1>10. ix = [index EXCEPT ![k] = d.info] /\ cs = cuts \o d.cuts
  BY <1>3
<1> HIDE DEF ix, cs
<1>11. HasChains(F, k, bs, ix, cs)
  BY <1>1, <1>2, <1>5, <1>7, <1>9, <1>10, MergeKeepsChains
<1>12. Disk' = bs
  BY <1>6 DEF bs
<1>13. cs \in Seq([hash : Nat, info : Limits])
  <2> DEFINE S == [hash : Nat, info : Limits]
             e == d.cuts
  <2>1. e \in Seq(S) /\ cuts \in Seq(S) /\ cs = cuts \o e
    BY <1>1, <1>10, WorkIs DEF IsDone
  <2> HIDE DEF S, e
  <2>2. cs \in Seq(S)
    BY <2>1, ConcatProperties
  <2> QED
    BY <2>2 DEF S
<1>14. DOMAIN ix = DOMAIN index
  BY <1>10
<1> QED
  BY <1>7, <1>8, <1>11, <1>12, <1>13, <1>14
     DEF ix, cs, written, kept, HasChains, SameOrOf

LEMMA MergeKeeps ==
    ASSUME IInv, NEW k \in DOMAIN tasks, MergeIntoChain(k)
    PROVE  IInv'
<1>1. PICK F : ChainsBy(F)
  BY DEF IInv, Chains
<1> DEFINE old == F[<<0, k>>]
           reqs == tasks[k].reqs
<1>0. PICK all \in Seq(Values), new \in Seq(Ask), N \in Nat :
         \E d : /\ AreNew(reqs, all, new) /\ InFile(all)
                /\ IsDone(d, N, old, NextId, Range(all) \cup Vals(Range(new)))
                /\ Changes(k, old, new, d)
  BY <1>1, MergeDoes
<1>2. PICK d :
         /\ AreNew(reqs, all, new) /\ InFile(all)
         /\ IsDone(d, N, old, NextId, Range(all) \cup Vals(Range(new)))
         /\ Changes(k, old, new, d)
  BY <1>0
<1> DEFINE V == Range(all) \cup Vals(Range(new))
<1>3. /\ tasks[k].at = "popped"
      /\ maxItems' = maxItems /\ asked' = asked /\ held' = held /\ buffers' = buffers
      /\ first' = first /\ called' = called
      /\ controller' \in {controller, "undefined"}
  BY DEF MergeIntoChain, unchangedByWorker
<1>4. Types
  BY DEF IInv
<1>5. /\ size' = size + Len(new) /\ success' = success \cup Range(new)
      /\ tasks' = [tasks EXCEPT ![k].at = "running", ![k].reqs = new]
  BY <1>2 DEF Changes
<1>6. /\ file' \in Seq(Block) /\ newBlocks' \in Seq(Block) /\ DOMAIN file' = DOMAIN file
      /\ cuts' \in Seq([hash : Nat, info : Limits])
      /\ DOMAIN index' = DOMAIN index
      /\ \E G : AreChains(Disk', index', cuts', G, maxItems) /\ SameElse(F, G, k)
      /\ \A b \in DOMAIN Disk' : \/ Range(Disk'[b].items) \subseteq V
                                 \/ b \in DOMAIN Disk /\ Disk'[b] = Disk[b]
  <2> HIDE DEF V, old
  <2>1. tasks[k].at # "running" /\ old = F[<<0, k>>]
        /\ IsDone(d, N, old, NextId, V) /\ Changes(k, old, new, d)
    BY <1>2, <1>3 DEF V, old
  <2> QED
    BY <1>1, <1>4, <2>1, MergeWrites
<1> HIDE DEF V, old
<1>7. /\ tasks[k] = [at |-> tasks[k].at, reqs |-> tasks[k].reqs, slot |-> tasks[k].slot]
      /\ k \in DOMAIN index /\ DOMAIN tasks \subseteq DOMAIN index
  BY <1>4 DEF Types, IsTask
<1>8. /\ DOMAIN tasks' = DOMAIN tasks
      /\ tasks'[k] = [at |-> "running", reqs |-> new, slot |-> tasks[k].slot]
      /\ \A m \in DOMAIN tasks : m # k => tasks'[m] = tasks[m]
  BY <1>5, <1>7
<1>9. tasks'[k].at = "running" /\ tasks'[k].reqs = new /\ IsTask(tasks'[k])
  BY <1>8 DEF IsTask
<1>10. ~ Resting /\ ~ Resting'
  <2>1. ~ Resting
    BY DEF IInv, Quiet, NoTasks
  <2> QED
    BY <1>3, <2>1 DEF Resting
<1>11. /\ Answered' = Answered \cup Range(new) /\ second' = second /\ InHand' = InHand
       /\ \A q : KeyOf(q)' = KeyOf(q)
  BY <1>3, <1>5, <1>6, SameKeys DEF Answered, second, InHand
<1>12. TaskFits(k, reqs) /\ NoRepeats(reqs)
  BY <1>3 DEF IInv, TasksFit
<1>13. /\ Range(new) \subseteq Range(buffers[second]) \ Answered
       /\ \A r \in Range(new) : KeyOf(r) = k
       /\ NoRepeats(new) /\ Twins(Range(new))
       /\ \A r \in Range(reqs) : r.val \in V
  BY <1>2, <1>12 DEF AreNew, TaskFits, V
<1>14. Types'
  <2>1. \A m \in DOMAIN tasks' : IsTask(tasks'[m])
    BY <1>4, <1>8, <1>9 DEF Types
  <2>2. success' \cup called' \subseteq Ask
    BY <1>3, <1>4, <1>5, RangeIsIn DEF Types
  <2>3. controller' \in {"swap", "lock", "merge", "undefined"}
    BY <1>3, <1>4 DEF Types
  <2> QED
    BY <1>3, <1>4, <1>6, <1>8, <2>1, <2>2, <2>3 DEF Types
<1>15. Quiet'
  BY <1>10 DEF Quiet
<1>16. Chains'
  <2>1. PICK G : AreChains(Disk', index', cuts', G, maxItems) /\ SameElse(F, G, k)
    BY <1>6
  <2>2. ASSUME NEW m \in DOMAIN tasks', tasks'[m].at # "running"
        PROVE  Range(G[<<0, m>>]) \subseteq DOMAIN file'
    <3>1. m # k /\ m \in DOMAIN tasks /\ tasks[m].at # "running" /\ m \in DOMAIN index
      BY <1>7, <1>8, <1>9, <2>2
    <3>2. G[<<0, m>>] = F[<<0, m>>]
      BY <2>1, <3>1 DEF SameElse
    <3>3. Range(F[<<0, m>>]) \subseteq DOMAIN file
      BY <1>1, <3>1 DEF ChainsBy
    <3> QED
      BY <1>6, <3>2, <3>3
  <2>3. ChainsBy(G)'
    BY <1>3, <2>1, <2>2 DEF ChainsBy
  <2> QED
    BY <2>3 DEF Chains
<1>17. TasksFit'
  <2>1. ASSUME NEW m \in DOMAIN tasks', m # k
        PROVE  /\ NoRepeats(tasks'[m].reqs)
               /\ IF tasks'[m].at = "running" THEN Twins(Range(tasks'[m].reqs))
                  ELSE TaskFits(m, tasks[m].reqs)'
    <3>1. m \in DOMAIN tasks /\ tasks'[m] = tasks[m]
      BY <1>8, <2>1
    <3>2. /\ NoRepeats(tasks[m].reqs)
          /\ IF tasks[m].at = "running" THEN Twins(Range(tasks[m].reqs))
             ELSE TaskFits(m, tasks[m].reqs)
      BY <3>1 DEF IInv, TasksFit
    <3>3. TaskFits(m, tasks[m].reqs) => TaskFits(m, tasks[m].reqs)'
      <4> SUFFICES ASSUME TaskFits(m, tasks[m].reqs) PROVE TaskFits(m, tasks[m].reqs)'
        OBVIOUS
      <4>1. /\ SortedAsks(tasks[m].reqs)
            /\ Range(tasks[m].reqs) \subseteq Range(buffers[second]) \ Answered
            /\ \A r \in Range(tasks[m].reqs) : KeyOf(r) = m
        BY DEF TaskFits
      <4>2. Range(tasks[m].reqs) \cap Range(new) = {}
        BY <1>13, <2>1, <4>1
      <4> QED
        BY <1>3, <1>11, <3>1, <4>1, <4>2 DEF TaskFits
    <3> QED
      BY <3>1, <3>2, <3>3
  <2>2. /\ NoRepeats(tasks'[k].reqs) /\ tasks'[k].at = "running" /\ Twins(Range(tasks'[k].reqs))
    BY <1>9, <1>13
  <2> QED
    BY <2>1, <2>2 DEF TasksFit
<1>18. first \in {1, 2} /\ second \in {1, 2} /\ second # first
  BY <1>4 DEF Types, second
<1>19. Once'
  <2>1. Once
    BY DEF IInv
  <2>2. Range(buffers[second]) \subseteq Range(buffers[1]) \cup Range(buffers[2])
    BY <1>18
  <2>3. Range(buffers[first]) \cap Range(buffers[second]) = {}
    BY <1>18, <2>1 DEF Once
  <2>4. InHand \cap Range(new) = {} /\ Range(buffers[first]) \cap Range(new) = {}
    BY <1>13, <2>1, <2>2, <2>3 DEF Once
  <2>5. \A r \in Range(new) : r.id <= asked[r.val]
    BY <1>13, <2>1, <2>2 DEF Once
  <2> QED
    BY <1>3, <1>10, <1>11, <2>1, <2>4, <2>5 DEF Once
<1>20. Vals(Answered) \subseteq Vals(Answered') /\ V \subseteq Vals(Answered')
  <2>1. \A v \in Range(all) : v \in Vals(Answered)
    <3> SUFFICES ASSUME NEW v \in Range(all) PROVE v \in Vals(Answered)
      OBVIOUS
    <3>1. PICK b \in DOMAIN file : v \in Range(file[b].items)
      BY <1>2 DEF InFile
    <3>2. b \in DOMAIN Disk /\ Disk[b] = file[b]
      BY <1>4, ConcatProperties, LenProperties DEF Types, Disk
    <3> QED
      BY <3>1, <3>2 DEF IInv, Kept
  <2>2. Vals(Answered) \subseteq Vals(Answered') /\ Vals(Range(new)) \subseteq Vals(Answered')
    BY <1>11 DEF Vals
  <2> QED
    BY <2>1, <2>2 DEF V
<1>21. Kept'
  <2>1. Kept
    BY DEF IInv
  <2>2. ASSUME NEW r \in Unmerged PROVE r \in Unmerged' \/ r.val \in Vals(Answered')
    <3>1. CASE InRests(r)
      <4>1. PICK m \in DOMAIN tasks : tasks[m].at # "running" /\ r \in Range(tasks[m].reqs)
        BY <3>1 DEF InRests
      <4>2. CASE m = k
        BY <1>13, <1>20, <4>1, <4>2
      <4>3. CASE m # k
        <5>1. InRests(r)'
          BY <1>8, <4>1, <4>3 DEF InRests
        <5> QED
          BY <5>1, RestsAre, UnmergedIs
      <4> QED
        BY <4>2, <4>3
    <3>2. CASE ~ InRests(r)
      BY <1>3, <1>10, <1>11, <3>2, RestsAre, UnmergedIs
    <3> QED
      BY <3>1, <3>2
  <2>3. ASSUME NEW v \in Values, NEW n \in 1..asked[v]
        PROVE  [val |-> v, id |-> n] \in Unmerged' \/ v \in Vals(Answered')
    <3>1. [val |-> v, id |-> n] \in Unmerged \/ v \in Vals(Answered)
      BY <2>1 DEF Kept
    <3>2. [val |-> v, id |-> n].val = v
      OBVIOUS
    <3> QED
      BY <1>20, <2>2, <3>1, <3>2
  <2>4. \A b \in DOMAIN Disk' : Range(Disk'[b].items) \subseteq Vals(Answered')
    BY <1>6, <1>20, <2>1 DEF Kept
  <2>5. IsFiniteSet(Answered') /\ size' = Cardinality(Answered')
    <3> DEFINE A == Answered
               R == Range(new)
    <3>1. IsFiniteSet(A) /\ size = Cardinality(A)
      BY <2>1 DEF Kept
    <3>2. IsFiniteSet(R) /\ Cardinality(R) = Len(new)
      BY <1>13, CountedOnce
    <3>3. A \cap R = {} /\ Answered' = A \cup R
      BY <1>11, <1>13
    <3> HIDE DEF A, R
    <3>4. IsFiniteSet(A \cup R)
          /\ Cardinality(A \cup R) = Cardinality(A) + Cardinality(R) - Cardinality(A \cap R)
      BY <3>1, <3>2, FS_Union
    <3>5. Cardinality(A \cap R) = 0
      BY <3>3, FS_EmptySet
    <3>6. Len(new) \in Nat /\ Cardinality(A) \in Nat
      BY <3>1, LenProperties, FS_CardinalityType
    <3> QED
      BY <1>5, <3>1, <3>2, <3>3, <3>4, <3>5, <3>6
  <2> QED
    BY <1>3, <2>3, <2>4, <2>5 DEF Kept
<1> QED
  BY <1>14, <1>15, <1>16, <1>17, <1>19, <1>21 DEF IInv
-----------------------------------------------------------------------------
(* The theorems. *)

LEMMA StaysIInv ==
    ASSUME IInv, UNCHANGED vars
    PROVE  IInv'
<1>1. /\ maxItems' = maxItems /\ asked' = asked /\ held' = held /\ buffers' = buffers
      /\ first' = first /\ controller' = controller /\ tasks' = tasks /\ file' = file
      /\ index' = index /\ newBlocks' = newBlocks /\ cuts' = cuts /\ size' = size
      /\ success' = success /\ called' = called
  BY DEF vars, disk
<1>2. /\ Answered' = Answered /\ second' = second /\ Resting' = Resting /\ Disk' = Disk
      /\ InHand' = InHand /\ Unmerged' = Unmerged /\ \A q : KeyOf(q)' = KeyOf(q)
  BY <1>1 DEF Answered, second, Resting, Disk, InHand, Unmerged, KeyOf, BeginOf
<1>3. Types' /\ Quiet' /\ Chains'
  BY <1>1, <1>2, ChainsStay DEF IInv, Types, Quiet
<1>4. TasksFit' /\ Once' /\ Kept'
  BY <1>1, <1>2 DEF IInv, TasksFit, TaskFits, Once, Kept
<1> QED
  BY <1>3, <1>4 DEF IInv

LEMMA NextKeeps ==
    ASSUME IInv, [Next]_vars
    PROVE  IInv'
<1>1. CASE controller # "undefined" /\ CallerStep
  <2>1. ASSUME NEW v \in Values, InsertDelayed(v) PROVE IInv'
    BY <2>1, InsertKeeps
  <2>2. CASE PushRequest
    BY <1>1, <2>2, PushKeeps
  <2>3. CASE GetMerged
    BY <2>3, GetMergedKeeps
  <2> QED
    BY <1>1, <2>1, <2>2, <2>3 DEF CallerStep
<1>2. CASE ControllerStep
  <2>1. CASE SwapBuffers
    BY <2>1, SwapKeeps
  <2>2. CASE BeginMerge
    BY <2>2, BeginMergeKeeps
  <2>3. CASE WaitAll
    BY <2>3, WaitAllKeeps
  <2> QED
    BY <1>2, <2>1, <2>2, <2>3 DEF ControllerStep
<1>3. ASSUME NEW k \in DOMAIN tasks, WorkerStep(k)
      PROVE  IInv'
  <2>1. CASE TryPop(k)
    BY <2>1, TryPopKeeps
  <2>2. CASE MergeIntoChain(k)
    BY <2>2, MergeKeeps
  <2>3. CASE EndTask(k)
    BY <2>3, EndTaskKeeps
  <2> QED
    BY <1>3, <2>1, <2>2, <2>3 DEF WorkerStep
<1>4. CASE Undefined
  BY <1>4, StaysIInv DEF Undefined
<1>5. CASE UNCHANGED vars
  BY <1>5, StaysIInv
<1> QED
  BY <1>1, <1>2, <1>3, <1>4, <1>5 DEF Next

(* Every reachable state of the delayed hash set: each request is at one   *)
(* place and none is lost, a task has the requests of one chain, and what  *)
(* the index and the chains cut off in a merge say of the disk is so.      *)
THEOREM InductiveInvariant == Spec => []IInv
<1>1. Init => IInv
  BY InitIInv
<1>2. IInv /\ [Next]_vars => IInv'
  BY NextKeeps
<1> QED
  BY <1>1, <1>2, PTL DEF Spec

(* No request is lost, though it goes by a pointer read before a swap, and *)
(* what lies on disk and what is counted was answered.                     *)
THEOREM RequestsKept == Spec => []RequestsAreKept
<1>1. IInv => RequestsAreKept
  <2> SUFFICES ASSUME IInv PROVE RequestsAreKept
    OBVIOUS
  <2>1. Kept /\ Types
    BY DEF IInv
  <2>2. \A v : v \in Vals(Answered) => \E r \in Answered : r.val = v
    BY DEF Vals
  <2>3. \A b \in DOMAIN file : b \in DOMAIN Disk /\ Disk[b] = file[b]
    BY <2>1, ConcatProperties, LenProperties DEF Types, Disk
  <2>4. \A b \in DOMAIN file : Range(file[b].items) \subseteq {r.val : r \in Answered}
    BY <2>1, <2>3 DEF Kept, Vals
  <2> QED
    BY <2>1, <2>2, <2>4 DEF Kept, RequestsAreKept
<1> QED
  BY <1>1, InductiveInvariant, PTL

(* A merge takes a value for new once, unless another has the same hash.   *)
THEOREM NewOnce == Spec => []NewOnceInAMerge
<1>1. IInv => NewOnceInAMerge
  <2> SUFFICES ASSUME IInv, NEW k \in DOMAIN tasks, tasks[k].at = "running",
                      NEW i \in DOMAIN tasks[k].reqs, NEW j \in DOMAIN tasks[k].reqs,
                      tasks[k].reqs[i].val = tasks[k].reqs[j].val, i # j
               PROVE  \E v \in Values \ {tasks[k].reqs[i].val} :
                         Hash(v) = Hash(tasks[k].reqs[i].val)
    BY DEF NewOnceInAMerge
  <2> DEFINE reqs == tasks[k].reqs
  <2>1. NoRepeats(reqs) /\ Twins(Range(reqs)) /\ reqs \in Seq(Ask)
    BY DEF IInv, TasksFit, Types, IsTask
  <2>2. reqs[i] # reqs[j] /\ reqs[i] \in Range(reqs) /\ reqs[j] \in Range(reqs)
    BY <2>1, RangeIsIn DEF NoRepeats
  <2> QED
    BY <2>1, <2>2 DEF Twins, HasTwin
<1> QED
  BY <1>1, InductiveInvariant, PTL

(* Between merges, a chain on disk has the blocks, the links and the limits*)
(* its index entry says, its blocks but the last are full, and it shares   *)
(* none with another: whatever merges ran beside each other, and though    *)
(* each writes but the blocks marked as modified.                          *)
THEOREM ChainsFit == Spec => []ChainsFitTheirSlots
<1>1. IInv => ChainsFitTheirSlots
  <2> SUFFICES ASSUME IInv, Resting PROVE ChainsFitTheirSlots
    BY DEF ChainsFitTheirSlots
  <2>1. /\ cuts = << >> /\ newBlocks = << >> /\ file \in Seq(Block) /\ maxItems \in Nat \ {0}
    BY DEF IInv, Quiet, Types
  <2>2. Disk = file
    BY <2>1 DEF Disk
  <2>3. PICK F : AreChains(file, index, cuts, F, maxItems)
    BY <2>2 DEF IInv, Chains, ChainsBy
  <2>4. ASSUME NEW k \in DOMAIN index
        PROVE  /\ <<0, k>> \in Tags(index, cuts)
               /\ IsChain(file, index[k], F[<<0, k>>], maxItems)
               /\ ChainIds(file, index[k].first) = F[<<0, k>>]
    <3>1. <<0, k>> \in Tags(index, cuts) /\ InfoOf(index, cuts, <<0, k>>) = index[k]
      BY DEF Tags, InfoOf
    <3> DEFINE info == index[k]
               ids == F[<<0, k>>]
    <3>2. IsChain(file, info, ids, maxItems)
      BY <2>3, <3>1 DEF AreChains
    <3> HIDE DEF info, ids
    <3>3. ChainIds(file, info.first) = ids
      BY <2>1, <3>2, ChainIsWay
    <3> QED
      BY <3>1, <3>2, <3>3 DEF info, ids
  <2>5. ASSUME NEW k \in DOMAIN index
        PROVE  LET info == index[k]
                   ids  == ChainIds(file, info.first)
                   n    == Len(ids)
               IN  /\ info = ChainInfo(ids[1], ids[n], n)
                   /\ \A i \in 1..n : file[ids[i]].prev = IF i = 1 THEN ids[1] ELSE ids[i - 1]
                   /\ \A i \in 1..(n - 1) : Len(file[ids[i]].items) = maxItems
                   /\ \A m \in DOMAIN index \ {k} :
                         Range(ids) \cap Range(ChainIds(file, index[m].first)) = {}
    <3> DEFINE ids == F[<<0, k>>]
               n == Len(ids)
    <3>1. IsChain(file, index[k], ids, maxItems) /\ ChainIds(file, index[k].first) = ids
      BY <2>4
    <3>2. /\ index[k] = ChainInfo(ids[1], ids[n], n)
          /\ \A i \in 1..n : /\ file[ids[i]].prev = IF i = 1 THEN ids[1] ELSE ids[i - 1]
                             /\ i < n => Len(file[ids[i]].items) = maxItems
          /\ n \in Nat
      BY <3>1, LenProperties DEF IsChain
    <3>3. ASSUME NEW m \in DOMAIN index \ {k}
          PROVE  Range(ids) \cap Range(ChainIds(file, index[m].first)) = {}
      <4>1. <<0, k>> # <<0, m>> /\ <<0, k>> \in Tags(index, cuts) /\ <<0, m>> \in Tags(index, cuts)
        BY <2>4
      <4>2. Range(F[<<0, k>>]) \cap Range(F[<<0, m>>]) = {}
        BY <2>3, <4>1 DEF AreChains
      <4> QED
        BY <2>4, <4>2
    <3>4. \A i \in 1..(n - 1) : i \in 1..n /\ i < n
      BY <3>2
    <3> HIDE DEF ids, n
    <3>5. \A i \in 1..(n - 1) : Len(file[ids[i]].items) = maxItems
      BY <3>2, <3>4
    <3> QED
      BY <3>1, <3>2, <3>3, <3>5 DEF n
  <2> QED
    BY <2>5 DEF ChainsFitTheirSlots
<1> QED
  BY <1>1, InductiveInvariant, PTL
=============================================================================
