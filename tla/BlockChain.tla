----------------------------- MODULE BlockChain -----------------------------
(***************************************************************************)
(* What the hash sets of core/complex_hashset have in common: blocks with  *)
(* their values sorted by hash, linked to a chain, and the cut of a chain  *)
(* that has grown too long.  A value is a pair of its hash and what tells  *)
(* it from others of that hash.  Blocks are numbered from 1, the code's    *)
(* from 0.                                                                 *)
(***************************************************************************)
EXTENDS Integers, Sequences, SequencesExt

MaxBlocksPerChain == 2

EmptyBlock(id) == [prev |-> id, next |-> id, items |-> << >>]

ChainInfo(first, last, count) == [first |-> first, last |-> last, count |-> count]

Hash(v) == v[1]

FirstHash(b) == Hash(b.items[1])
LastHash(b) == Hash(b.items[Len(b.items)])

(* The element of a set of one.  A recursive function is written with it   *)
(* where a value needs its forerunner more than once: TLC then evaluates   *)
(* that one only once.                                                     *)
Only(S) == CHOOSE x \in S : TRUE

(* The blocks of a chain, from its first by the links to the next, up to   *)
(* the one that is linked to itself.                                       *)
ChainIds(bs, first) ==
    LET way[i \in 0..Len(bs)] ==
            IF i = 0 THEN <<first>>
            ELSE Only({IF bs[w[Len(w)]].next = w[Len(w)] THEN w
                       ELSE Append(w, bs[w[Len(w)]].next) : w \in {way[i - 1]}})
    IN  way[Len(bs)]

(* The values of a chain's blocks, one block after the other. *)
Elements(bs) ==
    LET upTo[i \in 0..Len(bs)] == IF i = 0 THEN << >> ELSE upTo[i - 1] \o bs[i].items
    IN  upTo[Len(bs)]

(* find_first_ge: the first of n positions not below, by bisection of the  *)
(* positions from begin to the one before end.                             *)
FindFirstGe(n, below) ==
    LET Halve(w) ==
            LET step == (w.end - w.begin) \div 2
            IN  IF w.end - w.begin <= 1 THEN w
                ELSE IF w.begin + step - 1 \in below THEN [w EXCEPT !.begin = @ + step]
                ELSE [w EXCEPT !.end = w.begin + step]
        turn[i \in 0..n] ==
            IF i = 0 THEN [begin |-> 1, end |-> n + 1] ELSE Halve(turn[i - 1])
    IN  IF n = 0 \/ 1 \notin below THEN 1
        ELSE IF n \in below THEN n + 1
        ELSE turn[n].begin

(* find_in_chain: from the first value of the hash on, as long as it lasts.*)
FindInChain(all, v) ==
    LET at == FindFirstGe(Len(all), {i \in DOMAIN all : Hash(all[i]) < Hash(v)})
    IN  \E i \in at..Len(all) :
            all[i] = v /\ \A j \in at..i : Hash(all[j]) = Hash(v)

Distance(a, b) == IF a < b THEN b - a ELSE a - b

(* Faulty variant: cut in the middle, wherever that is. *)
MiddleBlock(bs) == Len(bs) \div 2

(* partitioned_block: of a chain's blocks (counted from 0) that begin with *)
(* another hash than the block before ends with, one near the middle; 0    *)
(* when there is none nearer than block 0 itself.                          *)
PartitionedBlock(bs) ==
    LET middle == Len(bs) \div 2
        Cut(i) == FirstHash(bs[i + 1]) # LastHash(bs[i])
        best[i \in 0..(Len(bs) - 1)] ==
            IF i = 0 THEN 0
            ELSE Only({IF Cut(i) /\ Distance(i, middle) < Distance(b, middle) THEN i ELSE b :
                          b \in {best[i - 1]}})
    IN  best[Len(bs) - 1]

(* The condition of try_ballance_chain, for a chain's limits and blocks. *)
ShouldSplit(info, bs) ==
    /\ info.count > MaxBlocksPerChain
    /\ FirstHash(bs[1]) # LastHash(bs[Len(bs)])
    /\ PartitionedBlock(bs) # 0
=============================================================================
