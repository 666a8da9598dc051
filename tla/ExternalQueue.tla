---------------------------- MODULE ExternalQueue ----------------------------
(***************************************************************************)
(* external_queue (core/containers/external_queue.h): a queue of blocks    *)
(* that keeps its two ends in memory and the middle in two files.  Blocks  *)
(* are pushed to the tail cache, which is appended to the write file when  *)
(* it is full; they are popped from the front cache, which is refilled     *)
(* from the read file, and when that file is exhausted the two files swap. *)
(* A queue is a record and an operation an operator on it: one thread owns *)
(* it.  The caches are arrays that keep what was in them before.           *)
(***************************************************************************)
EXTENDS Integers, Sequences

CONSTANTS
    Blocks,        \* what may be stored
    NoBlock,       \* block_t(): a block nothing was written to
    CachedBlocks   \* cached_block_count

Slots == 0..(CachedBlocks - 1)

Queues ==
    [front     : [Slots -> Blocks],  \* m_frontCache.data
     first     : Nat,                \* m_frontCache.firstIndex
     last      : Nat \cup {-1},      \* m_frontCache.lastIndex
     fileIndex : Nat,                \* m_frontCache.lastFileIndex
     tail      : [Slots -> Blocks],  \* m_tailCache.data
     tailLast  : Nat,                \* m_tailCache.lastIndex
     read      : Seq(Blocks),        \* the blocks of *m_pReadFile
     write     : Seq(Blocks),        \* the blocks of *m_pWriteFile
     size      : Nat]                \* m_size

NewQueue ==
    [front |-> [i \in Slots |-> NoBlock], first |-> 0, last |-> 0,
     fileIndex |-> 0, tail |-> [i \in Slots |-> NoBlock], tailLast |-> 0,
     read |-> << >>, write |-> << >>, size |-> 0]
-----------------------------------------------------------------------------
(* The blocks at positions from..to-1 of an array. *)
Slice(a, from, to) == [i \in 1..(to - from) |-> a[from + i - 1]]

(* flush_tail: the tail cache goes to the end of the write file. *)
FlushTail(q) ==
    [q EXCEPT !.write = @ \o Slice(q.tail, 0, q.tailLast), !.tailLast = 0]

(* swap_buffers: what was written is now to be read, the file that was     *)
(* read to its end is cleared and written next.                            *)
SwapBuffers(q) ==
    LET f == FlushTail(q)
    IN  [f EXCEPT !.read = f.write, !.write = << >>,
                  !.first = 0, !.last = 0, !.fileIndex = 0]

Min2(a, b) == IF a < b THEN a ELSE b

(* Faulty variant: a refill forgets what it took from the file. *)
RefillAgain(q) ==
    LET s    == IF q.fileIndex = Len(q.read) THEN SwapBuffers(q) ELSE q
        step == Min2(Len(s.read) - s.fileIndex, CachedBlocks)
    IN  [s EXCEPT !.front = [i \in Slots |->
                        IF i < step THEN s.read[s.fileIndex + i + 1] ELSE @[i]],
                  !.last  = step - 1,
                  !.first = 0]

(* The front cache is used up: read the next blocks of the file. *)
Refill(q) ==
    LET s    == IF q.fileIndex = Len(q.read) THEN SwapBuffers(q) ELSE q
        step == Min2(Len(s.read) - s.fileIndex, CachedBlocks)
    IN  [s EXCEPT !.front = [i \in Slots |->
                        IF i < step THEN s.read[s.fileIndex + i + 1] ELSE @[i]],
                  !.last      = step - 1,
                  !.fileIndex = @ + step,
                  !.first     = 0]

(* pop *)
PopBlock(q) ==
    LET p == IF q.first = q.last THEN Refill(q) ELSE [q EXCEPT !.first = @ + 1]
    IN  [p EXCEPT !.size = @ - 1]

(* push: into the front cache when the queue is empty, else into the tail. *)
PushBlock(q, b) ==
    IF q.size = 0
    THEN [q EXCEPT !.first = 0, !.last = 0, !.front[0] = b, !.size = 1]
    ELSE LET f == IF q.tailLast = CachedBlocks THEN FlushTail(q) ELSE q
         IN  [f EXCEPT !.tail[f.tailLast] = b, !.tailLast = @ + 1, !.size = @ + 1]

(* front, and front = b through the reference. *)
FrontBlock(q) == q.front[q.first]
SetFront(q, b) == [q EXCEPT !.front[q.first] = b]

(* back, and back = b through the reference: the newest block of the tail  *)
(* cache, or slot 0 of the front cache when the tail cache is empty.       *)
BackBlock(q) == IF q.tailLast = 0 THEN q.front[0] ELSE q.tail[q.tailLast - 1]

SetBack(q, b) ==
    IF q.tailLast = 0 THEN [q EXCEPT !.front[0] = b]
                      ELSE [q EXCEPT !.tail[q.tailLast - 1] = b]
-----------------------------------------------------------------------------
(* The blocks in the queue, oldest first. *)
BlocksOf(q) ==
    IF q.size = 0 THEN << >>
    ELSE Slice(q.front, q.first, q.last + 1)
            \o SubSeq(q.read, q.fileIndex + 1, Len(q.read))
            \o q.write
            \o Slice(q.tail, 0, q.tailLast)
=============================================================================
