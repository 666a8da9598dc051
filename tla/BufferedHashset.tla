-------------------------- MODULE BufferedHashset --------------------------
(***************************************************************************)
(* The set of known states: buffered_complex_hashset and its base, chains  *)
(* and blocks (core/complex_hashset).  Values are kept in blocks, sorted   *)
(* by hash and then by their bytes; blocks are linked to chains; the index *)
(* maps an interval of hashes to the chain that holds it.  A chain that    *)
(* grows beyond MaxBlocksPerChain is cut in two between two hashes, if it  *)
(* can be.                                                                 *)
(***************************************************************************)
EXTENDS AvlTree, BlockChain, FiniteSets

CONSTANTS
    Values,     \* the values inserted and looked up
    Capacities  \* how many values may fit a block

ASSUME HashsetAssumption ==
    /\ Values \subseteq Nat \X Nat
    /\ Capacities \subseteq Nat \ {0}

VARIABLES
    maxItems, \* m_maxItemsInBlock, computed once from the size of a value
    blocks,   \* m_blocks
    index,    \* m_index, the data of a node being a chain_info_t
    size,     \* m_size
    answer    \* the last call: its value, and whether the set had it before

vars == <<maxItems, blocks, index, size, answer>>
-----------------------------------------------------------------------------
Less(v, w) == v[1] < w[1] \/ (v[1] = w[1] /\ v[2] < w[2])
-----------------------------------------------------------------------------
(* A chain while it is worked on: the storage, its limits and the numbers  *)
(* of its blocks.                                                          *)
BlocksOf(c) == [i \in DOMAIN c.ids |-> c.blocks[c.ids[i]]]

(* Faulty variant: the limits keep the old last block. *)
AppendKeepsLast(c) ==
    LET id  == Len(c.blocks) + 1
        old == c.info.last
    IN  [blocks |-> Append([c.blocks EXCEPT ![old].next = id],
                           [EmptyBlock(id) EXCEPT !.prev = old]),
         info   |-> ChainInfo(c.info.first, old, c.info.count + 1),
         ids    |-> Append(c.ids, id)]

(* append_new_block, on a block requested from the storage. *)
AppendNewBlock(c) ==
    LET id  == Len(c.blocks) + 1
        old == c.info.last
    IN  [blocks |-> Append([c.blocks EXCEPT ![old].next = id],
                           [EmptyBlock(id) EXCEPT !.prev = old]),
         info   |-> ChainInfo(c.info.first, id, c.info.count + 1),
         ids    |-> Append(c.ids, id)]

(* insert: the value takes place at of the chain; from there on every block*)
(* hands its last item to the next, and only the last block grows.         *)
InsertAtPlace(c, at, v) ==
    LET blk == ((at - 1) \div maxItems) + 1
        pos == ((at - 1) % maxItems) + 1
        old(i) == c.blocks[c.ids[i]].items
        Fit(i, s) == IF i < Len(c.ids) THEN SubSeq(s, 1, maxItems) ELSE s
        new(i) == CASE i < blk -> old(i)
                    [] i = blk -> Fit(i, InsertAt(old(i), pos, v))
                    [] i > blk -> Fit(i, <<old(i - 1)[maxItems]>> \o old(i))
    IN  [c EXCEPT !.blocks = [b \in 1..Len(c.blocks) |->
            IF \E i \in 1..Len(c.ids) : c.ids[i] = b
            THEN [c.blocks[b] EXCEPT !.items = new(CHOOSE i \in 1..Len(c.ids) : c.ids[i] = b)]
            ELSE c.blocks[b]]]

(* The cut of try_ballance_chain: the index learns of the new chain.       *)
Split(c, key) ==
    LET p     == PartitionedBlock(BlocksOf(c))
        left  == c.ids[p]
        right == c.ids[p + 1]
    IN  /\ blocks' = [c.blocks EXCEPT ![left].next = left, ![right].prev = right]
        /\ index' = Insert([index EXCEPT
                              !.node[key].data = ChainInfo(c.info.first, left, p)],
                           FirstHash(c.blocks[right]),
                           ChainInfo(right, c.info.last, Len(c.ids) - p))

KeepWhole(c, key) ==
    /\ blocks' = c.blocks
    /\ index' = [index EXCEPT !.node[key].data = c.info]

ChainAt(key) ==
    LET info == index.node[key].data
    IN  [blocks |-> blocks, info |-> info, ids |-> ChainIds(blocks, info.first)]

(* insert(val, hash_val) *)
Add(v) ==
    LET key  == LowerBound(index, Hash(v))
        c    == ChainAt(key)
        all  == Elements(BlocksOf(c))
        at   == FindFirstGe(Len(all), {i \in DOMAIN all : Less(all[i], v)})
        known == at <= Len(all) /\ all[at] = v
        grown == IF Len(all) = maxItems * c.info.count THEN AppendNewBlock(c) ELSE c
        new  == InsertAtPlace(grown, at, v)
    IN  /\ answer' = <<v, known>>
        /\ UNCHANGED maxItems
        /\ IF known THEN UNCHANGED <<blocks, index, size>>
           ELSE /\ size' = size + 1
                /\ IF ShouldSplit(new.info, BlocksOf(new)) THEN Split(new, key) ELSE KeepWhole(new, key)

(* find *)
Find(v) ==
    LET c == ChainAt(LowerBound(index, Hash(v)))
    IN  /\ answer' = <<v, FindInChain(Elements(BlocksOf(c)), v)>>
        /\ UNCHANGED <<maxItems, blocks, index, size>>

(* The constructor makes one empty block and maps the least hash to it.    *)
Init ==
    /\ maxItems \in Capacities
    /\ blocks = <<EmptyBlock(1)>>
    /\ index = Insert(NewTree, 0, ChainInfo(1, 1, 1))
    /\ size = 0
    /\ answer = << >>

Next == \E v \in Values : Add(v) \/ Find(v)

Spec == Init /\ [][Next]_vars
-----------------------------------------------------------------------------
BlockIds == 1..Len(blocks)

TypeOK ==
    /\ maxItems \in Capacities
    /\ \A b \in BlockIds :
          /\ blocks[b].prev \in BlockIds /\ blocks[b].next \in BlockIds
          /\ blocks[b].items \in Seq(Values) /\ Len(blocks[b].items) <= maxItems
    /\ TreeType(index, [first : BlockIds, last : BlockIds, count : Nat \ {0}])
    /\ size \in Nat
    /\ answer \in {<< >>} \cup (Values \X BOOLEAN)

ChainOf(key) == ChainAt(key).ids

Members == UNION {Range(blocks[b].items) : b \in BlockIds}

(* Every block is in one chain, whose limits are true and whose links lead *)
(* both ways; only the last block of a chain may have room, which is what  *)
(* insert and fast_offset take for granted when they compute a place in it *)
(* (block_chain.h, fast_offset).  size() counts the values.                *)
ChainsAreWhole ==
    /\ \A b \in BlockIds : \E k \in Keys(index) :
          /\ b \in {ChainOf(k)[i] : i \in 1..Len(ChainOf(k))}
          /\ \A m \in Keys(index) \ {k} : b \notin {ChainOf(m)[i] : i \in 1..Len(ChainOf(m))}
    /\ \A k \in Keys(index) :
          LET ids == ChainOf(k)
              n   == Len(ids)
          IN  /\ index.node[k].data = ChainInfo(ids[1], ids[n], n)
              /\ \A i \in 1..n : blocks[ids[i]].prev = IF i = 1 THEN ids[1] ELSE ids[i - 1]
              /\ \A i \in 1..(n - 1) : Len(blocks[ids[i]].items) = maxItems
              /\ blocks[ids[n]].items # << >> \/ size = 0
    /\ size = Cardinality(Members)

(* A chain is sorted without repetition, and the index leads from the hash *)
(* of every value in it to this chain: no cut has put values of one hash   *)
(* on two sides (complex_hashset_base.h, try_ballance_chain).              *)
HashFindsItsChain ==
    \A k \in Keys(index) :
        LET all == Elements(BlocksOf(ChainAt(k)))
        IN  \A i \in 1..Len(all) :
                /\ LowerBound(index, Hash(all[i])) = k
                /\ i < Len(all) => Less(all[i], all[i + 1])

(* The index is a balanced search tree whose neighbours are linked, however*)
(* the cuts come (avl_tree.h): the rotations meet no invalid situation.    *)
IndexIsSound == IsAvl(index) /\ IsThreaded(index)

Abstract == INSTANCE StateSet WITH members <- Members

(* The hash set is a set: whatever was cut and moved, a value is answered  *)
(* as new when it is inserted for the first time and never again.          *)
RefinesStateSet == Abstract!Spec
=============================================================================
