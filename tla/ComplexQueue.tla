---------------------------- MODULE ComplexQueue ----------------------------
(***************************************************************************)
(* complex_queue (core/containers/complex_queue.h) on external memory: a   *)
(* layer of the open list.  Values are packed into blocks of ValsPerBlock  *)
(* and the blocks are kept in an external_queue.  search_queue uses it     *)
(* through push, and through top followed by pop.                          *)
(***************************************************************************)
EXTENDS Integers, Sequences, SequencesExt

CONSTANTS
    CachedBlocks,  \* cached_block_count
    ValsPerBlock,  \* m_valsPerBlock: how many values fit one block
    MaxPushes      \* bound of the model: values ever pushed

ASSUME QueueAssumption ==
    /\ CachedBlocks \in Nat \ {0}
    /\ ValsPerBlock \in Nat \ {0}
    /\ MaxPushes \in Nat

(* Values are numbered in the order they are pushed. *)
Values == 1..MaxPushes

(* A block: the index of its first value not popped yet, and the values    *)
(* written to it; its "last" field is their number.                        *)
EmptyBlock == [first |-> 0, vals |-> << >>]

Blocks == [first : 0..ValsPerBlock, vals : BoundedSeq(Values, ValsPerBlock)]

INSTANCE ExternalQueue WITH NoBlock <- EmptyBlock

VARIABLES
    base,    \* m_baseContainer
    size,    \* m_size, in values
    pushed,  \* how many values have been pushed
    out      \* the value taken last

vars == <<base, size, pushed, out>>

Init ==
    /\ base = NewQueue
    /\ size = 0
    /\ pushed = 0
    /\ out = << >>

(* Faulty variant: the block is taken for full one value early. *)
WithRoomEarly(q) ==
    IF q.size = 0 \/ Len(BackBlock(q).vals) = ValsPerBlock - 1
    THEN PushBlock(q, EmptyBlock) ELSE q

(* A queue whose back block has room for one more value. *)
WithRoom(q) ==
    IF q.size = 0 \/ Len(BackBlock(q).vals) = ValsPerBlock
    THEN PushBlock(q, EmptyBlock) ELSE q

(* push *)
Push ==
    /\ pushed < MaxPushes
    /\ LET q == WithRoom(base)
       IN  base' = SetBack(q, [BackBlock(q) EXCEPT !.vals = Append(@, pushed + 1)])
    /\ size' = size + 1
    /\ pushed' = pushed + 1
    /\ UNCHANGED out

(* top, then pop: the value leaves the front block, and the block the      *)
(* queue when it was its last value.                                       *)
Take ==
    LET b == FrontBlock(base)
        q == SetFront(base, [b EXCEPT !.first = @ + 1])
    IN  /\ size # 0
        /\ out' = <<b.vals[b.first + 1]>>
        /\ base' = IF b.first + 1 = Len(b.vals) THEN PopBlock(q) ELSE q
        /\ size' = size - 1
        /\ UNCHANGED pushed

(* Everything pushed has been taken, and no more is to come. *)
Exhausted ==
    /\ pushed = MaxPushes
    /\ size = 0
    /\ UNCHANGED vars

Next == Push \/ Take \/ Exhausted

Spec == Init /\ [][Next]_vars
-----------------------------------------------------------------------------
Unread(b) == SubSeq(b.vals, b.first + 1, Len(b.vals))

(* The values in the queue, oldest first. *)
Contents == FlattenSeq([i \in 1..Len(BlocksOf(base)) |-> Unread(BlocksOf(base)[i])])

TypeOK ==
    /\ base \in Queues
    /\ base.first \in Slots /\ base.last < CachedBlocks
    /\ base.tailLast <= CachedBlocks
    /\ base.fileIndex <= Len(base.read)
    /\ size \in Nat
    /\ pushed \in 0..MaxPushes
    /\ out = << >> \/ out[1] \in Values

(* A value may be written to the block back() returns: when that block has *)
(* room it is the newest one in the queue.  back() returns slot 0 of the   *)
(* front cache whenever the tail cache is empty, and right after a refill  *)
(* the newest block is another one, with room left (external_queue.h:57).  *)
BackIsNewestOrFull ==
    base.size # 0 /\ Len(BackBlock(base).vals) < ValsPerBlock =>
        BackBlock(base) = BlocksOf(base)[base.size]

Layer == INSTANCE Fifo WITH items <- Contents

(* Packed into blocks, cached at both ends and swapped between two files,  *)
(* the layer is a queue: what is taken is what was pushed longest ago.     *)
RefinesFifo == Layer!Spec
=============================================================================
