--------------------------- MODULE DelayedHashset ---------------------------
(***************************************************************************)
(* delayed_complex_hashset: a caller leaves insertion requests in one of   *)
(* two buffers and collects the callbacks of the new values later; the     *)
(* controller thread swaps the buffers, sorts the one it got, and has the  *)
(* pool merge one group of requests into each chain.                       *)
(*                                                                         *)
(* The chains lie in a data file.  A merge reads the blocks of its chains  *)
(* into slots of m_blocksBuffer, works on them there and writes back those *)
(* whose slot is marked as modified; the blocks it appends are collected   *)
(* in m_newBlocksBuffer and written when all tasks have ended.             *)
(*                                                                         *)
(* A push to a buffer and a swap are each one step, as they are made under *)
(* the locks of the buffers they touch; the work of a task on its chain is *)
(* one, as it meets other tasks only in the atomic counter of new blocks   *)
(* (the numbers of which two tasks could also take in turns).              *)
(***************************************************************************)
EXTENDS BlockChain, FiniteSets

CONSTANTS
    Values,      \* the values requested, pairs of a hash and another number
    Capacities,  \* how many values may fit a block
    MaxRequests  \* bound: the calls of insert_delayed

ASSUME DelayedAssumption ==
    /\ Values \subseteq Nat \X Nat
    /\ Capacities \subseteq Nat \ {0}
    /\ MaxRequests \in Nat

VARIABLES
    maxItems,    \* m_maxItemsInBlock
    asked,       \* how often each value was requested so far
    held,        \* in insert_delayed: the request and the buffer it will go to
    buffers,     \* the containers of the two elements of m_inputBuffer
    first,       \* which of them m_pFirst points to
    controller,  \* "swap", "lock", "merge", or "undefined"
    tasks,       \* the merge_tasks not ended, by the key of their chain
    file,        \* m_blocks, as it is on disk
    index,       \* m_index: from the hashes at which chains begin to chain_info_t
    marked,      \* the slots of m_blocksBuffer whose flag modified is set
    newBlocks,   \* the part of m_newBlocksBuffer in use
    room,        \* the size of m_newBlocksBuffer
    cuts,        \* new_indices: the chains cut off in this merge
    size,        \* m_size
    success,     \* the requests in m_successQueue
    called       \* the requests whose callback was run

disk == <<file, index, marked, newBlocks, room, cuts>>

vars == <<maxItems, asked, held, buffers, first, controller, tasks, disk,
          size, success, called>>

second == 3 - first

(* A request: its value, and which request for it in place of its callback *)
(* (0: one of before the behaviour begins).                                *)
Request == [val : Values, id : 0..MaxRequests]

NoTasks == [p \in {} |-> << >>]

(* The constructor appends block 0 and maps the least hash to it.  append  *)
(* counts the block twice (data_file_unix.h), so the next is left out.     *)
Init ==
    /\ maxItems \in Capacities
    /\ asked = [v \in Values |-> 0]
    /\ held = << >>
    /\ buffers = << << >>, << >> >>
    /\ first = 1
    /\ controller = "swap"
    /\ tasks = NoTasks
    /\ file = <<EmptyBlock(1), EmptyBlock(2)>>
    /\ index = [h \in {0} |-> ChainInfo(1, 1, 1)]
    /\ marked = {}
    /\ newBlocks = << >>
    /\ room = 0
    /\ cuts = << >>
    /\ size = 0
    /\ success = {}
    /\ called = {}
-----------------------------------------------------------------------------
(* The caller. *)

unchangedByCaller == UNCHANGED <<maxItems, first, controller, tasks, disk, size>>

(* insert_delayed, up to the call of safe_access_container: its argument   *)
(* m_pFirst is read before the lock of that buffer is asked for.           *)
InsertDelayed(v) ==
    /\ held = << >>
    /\ MapThenSumSet(LAMBDA w : asked[w], Values) < MaxRequests
    /\ asked' = [asked EXCEPT ![v] = @ + 1]
    /\ held' = <<[val |-> v, id |-> asked[v] + 1], first>>
    /\ UNCHANGED <<buffers, success, called>>
    /\ unchangedByCaller

(* The controller keeps the lock of its buffer through the whole merge. *)
Locked(b) == controller = "merge" /\ b = second

(* Faulty variant: the lock is not waited for. *)
PushUnlocked ==
    /\ held # << >>
    /\ buffers' = [buffers EXCEPT ![held[2]] = Append(@, held[1])]
    /\ held' = << >>
    /\ UNCHANGED <<asked, success, called>>
    /\ unchangedByCaller

PushRequest ==
    /\ held # << >>
    /\ ~ Locked(held[2])
    /\ buffers' = [buffers EXCEPT ![held[2]] = Append(@, held[1])]
    /\ held' = << >>
    /\ UNCHANGED <<asked, success, called>>
    /\ unchangedByCaller

(* The callbacks of all that is in the queue; what a worker pushes during  *)
(* the loop could as well be left to the next call.                        *)
GetMerged ==
    /\ held = << >>
    /\ success # {}
    /\ called' = called \cup success
    /\ success' = {}
    /\ UNCHANGED <<asked, held, buffers>>
    /\ unchangedByCaller
-----------------------------------------------------------------------------
(* The controller: merge_loop. *)

unchangedByController ==
    UNCHANGED <<maxItems, asked, held, marked, size, success, called>>

(* Faulty variant: the pointers are not exchanged. *)
SwapNothing ==
    /\ controller = "swap"
    /\ controller' = "lock"
    /\ UNCHANGED <<first, buffers, tasks, disk>>
    /\ unchangedByController

SwapBuffers ==
    /\ controller = "swap"
    /\ first' = second
    /\ controller' = "lock"
    /\ UNCHANGED <<buffers, tasks, disk>>
    /\ unchangedByController

(* The order sort_wrapper may leave: by hash, equal hashes as they come. *)
SortedByHash(c) ==
    {s \in {[i \in 1..Len(c) |-> c[p[i]]] : p \in Bijection(DOMAIN c, DOMAIN c)} :
        \A i, j \in DOMAIN c : i < j => Hash(s[i].val) <= Hash(s[j].val)}

Larger(a, b) == IF a < b THEN b ELSE a

(* integer_ceil *)
CeilDiv(n, d) == (n + d - 1) \div d

(* Where the chain of a hash begins: chain_with_hash. *)
BeginOf(h) == Max({b \in DOMAIN index : b <= h})

KeyOf(r) == BeginOf(Hash(r.val))

(* The tasks submitted: each chain asked for gets its group of requests,   *)
(* which follow each other, and as many slots as it has blocks, in the     *)
(* order of the chains.                                                    *)
GroupsOf(s) ==
    LET keys == {KeyOf(s[i]) : i \in DOMAIN s}
        At(k) == {i \in DOMAIN s : KeyOf(s[i]) = k}
    IN  [k \in keys |->
            [at   |-> "queued",
             reqs |-> SubSeq(s, Min(At(k)), Max(At(k))),
             slot |-> MapThenSumSet(LAMBDA m : index[m].count,
                                    {m \in keys : m < k})]]

(* The lock of the second buffer is taken.  An empty one is given back at  *)
(* once; otherwise merge groups the requests, sees to its buffers and      *)
(* submits a task for each group (the pool may start while it submits:     *)
(* tasks share no chain).                                                  *)
BeginMerge ==
    /\ controller = "lock"
    /\ unchangedByController
    /\ IF buffers[second] = << >>
       THEN controller' = "swap" /\ UNCHANGED <<buffers, tasks, room>>
       ELSE /\ \E s \in SortedByHash(buffers[second]) :
                  buffers' = [buffers EXCEPT ![second] = s] /\ tasks' = GroupsOf(s)
            /\ room' = Larger(room, CeilDiv(Len(buffers[second]), maxItems))
            /\ controller' = "merge"
    /\ UNCHANGED <<first, file, index, newBlocks, cuts>>

Waiting(k) == tasks[k].at = "popped"

(* The chains cut off, by the hash each begins with: create_mapping leaves *)
(* a mapping alone that is there.                                          *)
CutHashes == {cuts[i].hash : i \in DOMAIN cuts}
CutAt(h) == cuts[Min({i \in DOMAIN cuts : cuts[i].hash = h})].info

(* wait_all returns when no task is queued and none is counted.  The new   *)
(* blocks are written, the index learns of the chains cut off, the buffer  *)
(* is cleared and its lock given back.  A task that was popped and not yet *)
(* counted is overlooked (see ThreadPool) and will use requests already    *)
(* destroyed: nothing is said of the program then.                         *)
WaitAll ==
    /\ controller = "merge"
    /\ \A k \in DOMAIN tasks : Waiting(k)
    /\ unchangedByController
    /\ IF tasks = NoTasks
       THEN /\ controller' = "swap"
            /\ file' = file \o newBlocks
            /\ newBlocks' = << >>
            /\ index' = [h \in DOMAIN index \cup CutHashes |->
                            IF h \in DOMAIN index THEN index[h] ELSE CutAt(h)]
            /\ cuts' = << >>
            /\ buffers' = [buffers EXCEPT ![second] = << >>]
       ELSE controller' = "undefined" /\ UNCHANGED <<file, newBlocks, index, cuts, buffers>>
    /\ UNCHANGED <<first, tasks, room>>
-----------------------------------------------------------------------------
(* A chain in its slots: the numbers of its blocks and the blocks, in order*)
(* and with those cut off, its limits, the places of the blocks marked as  *)
(* modified and the chains cut off.                                        *)

ReadChain(info) ==
    LET ids == ChainIds(file, info.first)
    IN  [ids |-> ids, blocks |-> [i \in DOMAIN ids |-> file[ids[i]]], info |-> info,
         modified |-> {}, cuts |-> << >>]

(* Faulty variant: the block before is linked and not marked. *)
AppendUnmarked(c, id) ==
    LET n == Len(c.ids)
    IN  [c EXCEPT !.ids = Append(@, id),
                  !.blocks = Append([@ EXCEPT ![n].next = id],
                                    [EmptyBlock(id) EXCEPT !.prev = c.ids[n]]),
                  !.info = ChainInfo(@.first, id, @.count + 1),
                  !.modified = @ \cup {n + 1}]

(* append_new_block *)
AppendNewBlock(c, id) ==
    LET n == Len(c.ids)
    IN  [c EXCEPT !.ids = Append(@, id),
                  !.blocks = Append([@ EXCEPT ![n].next = id],
                                    [EmptyBlock(id) EXCEPT !.prev = c.ids[n]]),
                  !.info = ChainInfo(@.first, id, @.count + 1),
                  !.modified = @ \cup {n, n + 1}]

(* What is left of a chain whose end was cut off. *)
Rest(c) == SubSeq(c.blocks, 1, c.info.count)

(* The cut of try_ballance_chain. *)
CutOff(c) ==
    LET p == PartitionedBlock(Rest(c))
    IN  [c EXCEPT !.blocks = [@ EXCEPT ![p].next = c.ids[p], ![p + 1].prev = c.ids[p + 1]],
                  !.info = ChainInfo(@.first, c.ids[p], p),
                  !.modified = @ \cup {p, p + 1},
                  !.cuts = Append(@, [hash |-> FirstHash(c.blocks[p + 1]),
                                      info |-> ChainInfo(c.ids[p + 1], c.info.last,
                                                         c.info.count - p)])]

(* try_ballance_chain until it has nothing to cut, in as many turns as     *)
(* there are blocks at most.                                               *)
Balanced(c) ==
    LET turn[i \in 0..Len(c.ids)] ==
            IF i = 0 THEN c
            ELSE Only({IF ShouldSplit(d.info, Rest(d)) THEN CutOff(d) ELSE d :
                          d \in {turn[i - 1]}})
    IN  turn[Len(c.ids)]

(* The blocks appended for n values, with numbers from nextId on. *)
Resized(c, n, nextId) ==
    LET missing == CeilDiv(n, maxItems) - c.info.count
        more == IF missing < 0 THEN 0 ELSE missing
        grown[i \in 0..more] ==
            IF i = 0 THEN c
            ELSE Only({AppendNewBlock(d, nextId + i - 1) : d \in {grown[i - 1]}})
    IN  grown[more]

(* The values in their places. *)
Refilled(c, all) ==
    LET Upto(i) == IF i * maxItems < Len(all) THEN i * maxItems ELSE Len(all)
    IN  [c EXCEPT !.blocks = [i \in DOMAIN @ |->
            [@[i] EXCEPT !.items = SubSeq(all, (i - 1) * maxItems + 1, Upto(i))]]]

(* Faulty variant: duplicates among the requests stay. *)
UniqueOfNone(s) == s

(* unique on one container sorted by hash: of equal neighbours, the first. *)
Unique(s) ==
    LET kept[i \in 0..Len(s)] ==
            IF i = 0 THEN << >>
            ELSE IF i > 1 /\ s[i].val = s[i - 1].val THEN kept[i - 1]
            ELSE Append(kept[i - 1], s[i])
    IN  kept[Len(s)]

(* unique against the chain: both are gone through in step, hash by hash.  *)
(* A turn drops a request, keeps one, or moves on in the chain.            *)
NotIn(all, s) ==
    LET Known(v, i) == \E e \in i..Len(all) :
                          all[e] = v /\ \A d \in i..e : Hash(all[d]) = Hash(all[i])
        Keep(t) == [t EXCEPT !.j = @ + 1, !.kept = Append(@, s[t.j])]
        Turn(t) == IF t.j > Len(s) THEN t
                   ELSE IF t.i > Len(all) THEN Keep(t)
                   ELSE IF Hash(all[t.i]) < Hash(s[t.j].val) THEN [t EXCEPT !.i = @ + 1]
                   ELSE IF Known(s[t.j].val, t.i) THEN [t EXCEPT !.j = @ + 1]
                   ELSE Keep(t)
        turn[n \in 0..(Len(all) + Len(s))] ==
            IF n = 0 THEN [i |-> 1, j |-> 1, kept |-> << >>]
            ELSE Only({Turn(t) : t \in {turn[n - 1]}})
    IN  turn[Len(all) + Len(s)].kept

(* The merge, from the end: a request only before a value of lower hash.   *)
Merged(all, s) ==
    LET Turn(t) == IF t.j > 0 /\ (t.i > 0 => Hash(s[t.j].val) > Hash(all[t.i]))
                   THEN [t EXCEPT !.j = @ - 1, !.out = <<s[t.j].val>> \o @]
                   ELSE [t EXCEPT !.i = @ - 1, !.out = <<all[t.i]>> \o @]
        turn[n \in 0..(Len(all) + Len(s))] ==
            IF n = 0 THEN [i |-> Len(all), j |-> Len(s), out |-> << >>]
            ELSE Only({Turn(t) : t \in {turn[n - 1]}})
    IN  turn[Len(all) + Len(s)].out
-----------------------------------------------------------------------------
(* The pool: a worker on the task of one chain. *)

unchangedByWorker ==
    UNCHANGED <<maxItems, asked, held, buffers, first, room, called>>

TryPop(k) ==
    /\ tasks[k].at = "queued"
    /\ tasks' = [tasks EXCEPT ![k].at = "popped"]
    /\ UNCHANGED <<controller, disk, size, success>>
    /\ unchangedByWorker

(* What merge_into_chain leaves of a chain that had the blocks old and now *)
(* is c: the old ones whose slot is marked are written, all new ones kept. *)
WriteBack(k, old, c) ==
    LET slotOf(i) == tasks[k].slot + i - 1
        places == {i \in DOMAIN old : slotOf(i) \in marked'}
    IN  /\ marked' = marked \cup {slotOf(i) : i \in DOMAIN old \cap c.modified}
        /\ file' = [b \in DOMAIN file |->
               IF \E i \in places : old[i] = b
               THEN c.blocks[CHOOSE i \in places : old[i] = b]
               ELSE file[b]]
        /\ newBlocks' = newBlocks \o SubSeq(c.blocks, Len(old) + 1, Len(c.blocks))
        /\ index' = [index EXCEPT ![k] = c.info]
        /\ cuts' = cuts \o c.cuts

(* The number the next new block gets. *)
NextId == Len(file) + Len(newBlocks) + 1

(* merge_into_chain; the worker counts itself busy.  The requests left are *)
(* answered, before the chain is written.  The task writes past the end of *)
(* m_newBlocksBuffer when that is too short.                               *)
MergeIntoChain(k) ==
    /\ tasks[k].at = "popped"
    /\ unchangedByWorker
    /\ \E c \in {ReadChain(index[k])} :
       \E all \in {Elements(c.blocks)} :
       \E new \in {NotIn(all, Unique(tasks[k].reqs))} :
       \E long \in {Resized(c, Len(all) + Len(new), NextId)} :
       \E merged \in {Merged(all, new)} :
       \E full \in {Refilled(long, merged)} :
       \E done \in {Balanced(full)} :
          /\ tasks' = [tasks EXCEPT ![k].at = "running", ![k].reqs = new]
          /\ size' = size + Len(new)
          /\ success' = success \cup Range(new)
          /\ WriteBack(k, c.ids, done)
    /\ controller' = IF Len(newBlocks') > room THEN "undefined" ELSE controller

EndTask(k) ==
    /\ tasks[k].at = "running"
    /\ tasks' = [m \in DOMAIN tasks \ {k} |-> tasks[m]]
    /\ UNCHANGED <<controller, disk, size, success>>
    /\ unchangedByWorker

WorkerStep(k) == TryPop(k) \/ MergeIntoChain(k) \/ EndTask(k)
-----------------------------------------------------------------------------
(* What follows a task overlooked or a block out of room is not modelled.  *)
Undefined == controller = "undefined" /\ UNCHANGED vars

CallerStep ==
    \/ \E v \in Values : InsertDelayed(v)
    \/ PushRequest
    \/ GetMerged

ControllerStep == SwapBuffers \/ BeginMerge \/ WaitAll

Next ==
    \/ controller # "undefined" /\ CallerStep
    \/ ControllerStep
    \/ controller # "undefined" /\ \E k \in DOMAIN tasks : WorkerStep(k)
    \/ Undefined

Spec == Init /\ [][Next]_vars

(* The controller and the workers are threads that only wait for each      *)
(* other; the caller goes through with a call it has made, and collects    *)
(* again and again.                                                        *)
Fairness ==
    /\ WF_vars(ControllerStep)
    /\ WF_vars(controller # "undefined" /\ \E k \in DOMAIN tasks : WorkerStep(k))
    /\ WF_vars(controller # "undefined" /\ (PushRequest \/ GetMerged))

FairSpec == Spec /\ Fairness
-----------------------------------------------------------------------------
Task == [at : {"queued", "popped", "running"}, reqs : Seq(Request), slot : Nat]

Block == [prev : Nat, next : Nat, items : Seq(Values)]

Info == [first : 1..Len(file), last : Nat, count : Nat \ {0}]

(* Also: no task outlives the merge that submitted it, and each has the    *)
(* chain of its requests to itself.                                        *)
TypeOK ==
    /\ maxItems \in Capacities
    /\ asked \in [Values -> 0..MaxRequests]
    /\ held \in {<< >>} \cup (Request \X {1, 2})
    /\ buffers \in [{1, 2} -> Seq(Request)]
    /\ first \in {1, 2}
    /\ controller \in {"swap", "lock", "merge", "undefined"}
    /\ DOMAIN tasks \subseteq DOMAIN index
    /\ \A k \in DOMAIN tasks :
          /\ tasks[k] \in Task
          /\ \A r \in Range(tasks[k].reqs) : KeyOf(r) = k
    /\ controller \in {"swap", "lock"} => tasks = NoTasks /\ cuts = << >> /\ newBlocks = << >>
    /\ file \in Seq(Block) /\ newBlocks \in Seq(Block)
    /\ 0 \in DOMAIN index
    /\ \A k \in DOMAIN index : k \in Nat /\ index[k] \in Info
    /\ marked \subseteq Nat
    /\ room \in Nat
    /\ cuts \in Seq([hash : Nat, info : [first : Nat, last : Nat, count : Nat]])
    /\ size \in Nat
    /\ success \cup called \subseteq Request

(* Requests that were taken for new values. *)
Answered == success \cup called

(* Requests still to be merged.  *)
Unmerged ==
    (IF held # << >> THEN {held[1]} ELSE {})
      \cup Range(buffers[first])
      \cup (IF controller \in {"swap", "lock"} THEN Range(buffers[second]) ELSE {})
      \cup UNION {Range(tasks[k].reqs) : k \in {m \in DOMAIN tasks : tasks[m].at # "running"}}

(* No request is lost, also when the pointer it goes by was read before a  *)
(* swap and the lock of that buffer is got after the merge (line 44): each *)
(* waits to be merged or its value was answered, as what is in the chains  *)
(* was.  The size counts the answers.                                      *)
RequestsAreKept ==
    /\ \A v \in Values : \A n \in 1..asked[v] :
          \/ [val |-> v, id |-> n] \in Unmerged
          \/ \E r \in Answered : r.val = v
    /\ \A b \in DOMAIN file : Range(file[b].items) \subseteq {r.val : r \in Answered}
    /\ size = Cardinality(Answered)

(* Only equal neighbours are removed from the requests, which are sorted   *)
(* by hash alone (merge.h:39): one merge may take a value for new twice,   *)
(* but only if another value has the same hash.                            *)
NewOnceInAMerge ==
    \A k \in DOMAIN tasks :
        LET reqs == tasks[k].reqs
        IN  tasks[k].at = "running" =>
                \A i, j \in DOMAIN reqs : reqs[i].val = reqs[j].val /\ i # j =>
                    \E v \in Values \ {reqs[i].val} : Hash(v) = Hash(reqs[i].val)

Resting == controller \in {"swap", "lock"}

(* Between merges a chain on disk has the blocks, the links and the limits *)
(* its index entry says, shares none with another, and only its last block *)
(* has room: though a merge writes but some of the blocks it has changed,  *)
(* those whose links it changed are among them.  The next merge relies on  *)
(* it: it gives a chain as many slots as block_count says and reads along  *)
(* the links, beside tasks that do the same (line 518).                    *)
ChainsFitTheirSlots ==
    Resting =>
        \A k \in DOMAIN index :
            LET info == index[k]
                ids  == ChainIds(file, info.first)
                n    == Len(ids)
            IN  /\ info = ChainInfo(ids[1], ids[n], n)
                /\ \A i \in 1..n : file[ids[i]].prev = IF i = 1 THEN ids[1] ELSE ids[i - 1]
                /\ \A i \in 1..(n - 1) : Len(file[ids[i]].items) = maxItems
                /\ \A m \in DOMAIN index \ {k} :
                      Range(ids) \cap Range(ChainIds(file, index[m].first)) = {}

Found(v) ==
    LET chain == ReadChain(index[BeginOf(Hash(v))])
    IN  FindInChain(Elements(chain.blocks), v)

(* What was answered as new is found afterwards: what would make of the    *)
(* chains a set (test_complex_vector.cpp:361).                             *)
AnsweredIsFound == Resting => \A r \in Answered : Found(r.val)

Asked(v) == \E r \in Unmerged : r.val = v

(* A value asked for gets its callback, while the caller collects, however *)
(* pushes, swaps and merges interleave; unless wait_all overlooks a task   *)
(* or the new blocks run out of room.                                      *)
EveryRequestEnds ==
    \A v \in Values :
        Asked(v) ~> ((\E r \in called : r.val = v) \/ controller = "undefined")
=============================================================================
