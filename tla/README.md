# A verification development of the UltraPlanner core

UltraPlanner is a planner and state space search library in C++. Its own code is `src/src`
(`core`, `planner`, `pddl`, a few problem domains, tests, a debugger). `core` is what this
project is mostly about: search engines over transition systems whose states do not fit in memory,
so that the open list, the node log and the set of known states live in files behind caches.
On top of it the planner itself is modelled, from a grounded problem to the printed plan.

This directory holds TLA+ modules that model parts of that code, TLC configurations that check
them on small instances, and theorems with TLAPS proofs about them for every instance.
`PROJECT.json` lists, for each definition, the lines of source it models.

Paths below are relative to `src/src/core` unless they start with `src/`.

## 1. Inventory of the system

| Component | Where | State it keeps | Operations | What makes it correct |
|---|---|---|---|---|
| Open list | `search_queue.h` | a map from node estimation to a FIFO layer of nodes | push, top, pop, pop_and_call | the best layer leaves first, in order, nothing lost; an empty layer is erased at once |
| Serial engines (BFS, "DFS", A*, greedy) | `search_algorithms/{queued,serial,bfs,dfs,astar,greedy_bfs}_engine.h`, `search_engine_base.h` | best estimation, farthest distance, goal nodes, open list | call operator: create and enqueue the root, loop, finalize, backtrace | a plan returned is a plan; failure means that no goal can be reached; the search ends |
| Search database, node log | `search_database.h` | log of nodes (state id, parent id, length), one hash set per storage | create_node, add, add_range, get_node, get_state | log and hash set agree; node ids are positions |
| Explicit graph | `algorithm/graph.h` | vertices with adjacent vertices and edges | two constructors, forall_adj_verts, iterators | every edge that is followed has a cost |
| Layer container | `containers/complex_queue.h`, `external_queue.h` | blocks of values: front cache, read file, write file, tail cache | push, top, pop | a FIFO queue however the files swap |
| Complex vector, stack, external vector | `containers/*` | blocks in a file, a back block in memory | push_back, get, iterators | an array |
| Batched engine BA* | `search_algorithms/batched_engine.h` | batch of nodes, expansion buffer | pick_best_nodes, expand_best_nodes, merge | as the serial engines |
| Buffered hash set | `complex_hashset/{buffered_complex_hashset,complex_hashset_base,block_chain,block,generator}.h` | chains of sorted blocks, an index from hash intervals to chains, free blocks | insert, find, split of a long chain | a set; every value is in the chain its hash points to |
| Index of the hash set | `avl_tree.h` | AVL tree, range map on top | insert, lower_bound, balance | ordered, balanced; the interval of a hash is found |
| Delayed hash set and its controller | `complex_hashset/delayed_complex_hashset.h`, `delayed_buffer.h` | two buffers of requests behind locks, chains of blocks in a file, buffers of blocks, task lists, a controller thread | insert with callback, swap of buffers, merge of intervals by the pool, find | no request is lost; the chains in the file stay linked; a value answered as new is found (it is not, see section 4) |
| Thread pool | `thread_pool.h` | task queue, busy counter, worker threads | submit, wait_all, worker loop | no task lost or run twice; wait_all waits for all of them |
| Page cache and data files | `io/{cache,cached_file,data_file_unix}.h` | frames, index, clock hand, dirty flags; file and block count | operator[], clear, read and write back; get, set, append | an array of pages, whatever was evicted |
| Solver and monitor | `state_space_solver.h` | the engine, a monitor thread, the plan | solve: search, rebuild the plan, print, join; monitor: look, print, sleep | the plan printed is one and costs what is printed; the monitor ends with the search and before the engine does |
| Algorithms | `algorithm/{merge,sort,algorithm,math}.h` | none | sort, unique, find_first_ge, rounding | agree with their plain definitions |
| Transition system, state variables | `transition_system.h`, `varset_system/*` | initial and goal state, transitions with conditions and effects | applicability, application, cost, difference of two states, the transitions of a path of states | a transition changes what its effect says; a path of states gives back its transitions |
| Bit containers, compression, expressions | `bit_container.h`, `compressed_stream.h`, `numeric_expression.h`, ... | bits, a value stack | get, set, masks, evaluation | plain data structures |
| Planning graph heuristic, goal count | `src/src/planner` | relaxed planning layers, costs, transitions not applied yet | estimate of a state | infinite only for dead ends |
| PDDL converter | `src/src/pddl/planning_task_converter.cpp` | | from grounded operators, initial state and goal to a transition system | it means what the problem means |
| PDDL parser, domains, legacy solver, CUDA, debugger | `src/src/{pddl,sliding_puzzle,hannoi,rubik,edfd_cover,_solver,multicore_solver,cuda_solver,debugger}` | | | out of scope, see section 8 |

How they interact: an engine takes the first node of the best layer of the open list, asks the
database for its state, and calls the transition system with a callback for every successor;
the callback asks the heuristic, adds the state to the database (the hash set answers "new" or
"known") and, for a new one, creates a node in the log and enqueues it. With the delayed hash
set the answer arrives later: the request waits in a buffer until the controller thread merges
it, with the help of the thread pool, and the callback runs then. Layers, log and hash set all
sit on block files; the log and the hash set go through a page cache.

The behaviours that are hard here: an initial state that the blind engines queue without
putting it in the set of known states; goals recognised when generated and never queued; the
erasure of layers; the block queue, whose refill may find the read file used up, flush the tail
cache and swap the files with any mixture of full and empty caches; the pool, where a task
leaves the queue before the worker counts itself busy and `wait_all` reads both one after the
other; chains of blocks that are split while the index is updated; the planner, which drops for
good what its heuristic calls a dead end, finds its plan again from the states alone, and is
watched by a thread that reads an engine it does not own. `PROJECT.json` lists each at
its line under `hazards`, with the properties that watch it or the reason why none does yet.

## 2. Plan

The order in which the modules were built, the search first; all of it is done.

1. `SearchQueue`, `QueuedEngine`, `SerialEngine`: the search itself, and `GraphSearch`, the abstract
   specification they implement. *Proved: types, soundness, exhaustiveness, the order of the layers,
   one node per state, shortest plans of breadth first search, the implementation of `GraphSearch`.*
2. `ThreadPool`. *Proved: all its invariants and its action property.*
3. `BatchedEngine`.
4. `ExternalQueue`, `ComplexQueue`, and `Fifo`, which they implement. *Proved: the implementation,
   and that `back()` is the newest block or full.*
5. `AvlTree`, the index of the hash set; `BlockChain`, what its chains of blocks are;
   `BufferedHashset`, chains over that index, and `StateSet`, which it implements. *Proved: all of
   its invariants, those of the index included, and the implementation.*
6. `PageCache`, `CachedFile`: frames, clock, write back, and their users; and `PageArray`, which
   they implement. *Proved: all four invariants and the implementation.*
7. `ComplexVector`. *Proved for large blocks.*
8. `DelayedHashset`: the buffers, the controller and its merge tasks, which work on chains of
   `BlockChain` in a file. *Proved: its three invariants.*
9. `Floats`, `VarsetSystem`, `PlanningGraph`, `StateSpaceSolver`: the planner as `main.cpp` puts it
   together. It composes the converter, the heuristic, the search of 1 and the monitor thread, and
   implements the heuristic engine of `SerialEngine`. *Proved: all of its safety properties and the
   implementation.*

What would come next: the `find` of the delayed hash set beside a merge; several numeric variables
in the states of the planner.

## 3. Modules and the code

`SearchQueue` models `search_queue` as a function from priorities to non-empty sequences. The
code's map is ordered by `node_estimation_t` under the engine's comparator, and every comparator
looks at one number, so that number is the key: `BestPriority` is `begin()->first`, `Push` joins
or opens a layer, `Pop` erases the layer with its last node.

`QueuedEngine` holds what the serial engines share. `log` is the array of search nodes, `db` the
states the hash set holds, `queue` the open list of node ids, `goalNodes` the goals set aside.
`Enqueue` is `queued_search_engine::enqueue`; `Dequeue` is the head of the loop, `Finalize` its
exit, `BacktraceStep` one turn of `backtrace_path`. The loop over the adjacent vertices is one
`Generate` step per edge, in any order. The four comparators are `AStarKey`, `GreedyKey`,
`BfsKey` and `DfsKey`. Node ids count from 1 where the code counts from 0.

`SerialEngine` adds the two engines of `serial_engine.h`: the blind one (BFS and the engine called
DFS; `BlindStart`, `BlindGenerate`, `BlindSpec`) and the one with a heuristic (A* and greedy;
`HeuristicStart`, `HeuristicGenerate`, `HeuristicSpec`). They differ as the code does: the blind
engine queues the initial state and does not add it to the set; the heuristic engine adds it, and
adds a state of infinite estimation to the set without logging it.

`GraphSearch` is the abstract search: it comes to know one state after another, each over an
edge from a known one, and gives one answer: a plan without repetition through known states, or
the empty plan when the known states are closed and hold no goal.

`VarsetSystem` is the transition system of the planner. A bit vector is the set of its bits at 1,
a masked one the pair of value and mask, with `equal_masked` and `set_masked` as the code has
them. `TaskOf` is `from_pddl_task`: effects are set one after the other with the deletes last, so
an operator that adds and deletes a variable deletes it; a goal literal to be false enters the
mask only; an operator with an effect on a function without a value is dropped. Of the numeric
variables the states keep (total-cost), which the code makes a part of them: two states that
differ only in the cost so far are two states. `IsSolved` hands the mask for the value and the
value for the mask, as the code does. `OpApplies`, `OpResult` and `GoalHolds` are what the problem
means, and `Kept` and `Positive` name the problems whose meaning the code keeps.

`PlanningGraph` is `planning_graph_heuristic`: `layer` holds the locals of the call and the cache,
`Grow` is one turn of its loop, `Estimation` what it returns. The call is a sequence of steps
(`BeginEstimate`, `GrowLayer`) because its cost function throws in the middle of it.

`StateSpaceSolver` extends `QueuedEngine` and `PlanningGraph`. The thread that called `solve`
selects the engine, runs the search with every call of the heuristic spelled out (`Visit` adds
the state to the set, `EstimateLayer` grows the graph, `Generate` queues the node or drops the
dead end), rebuilds the plan from the path of states (`RebuildStep`, one `difference` each), prints
it and joins the monitor. The monitor takes a turn (`MonitorTurn`: it looks at the finished flag and
counts down) and reads the statistics (`MonitorStats`). An exception terminates the process
(`main = "aborted"`), because the monitor has not been joined. In a planner state with an
exception in its expansion the heuristic has thrown before, when it estimated that state; so
`Offered` leaves those transitions out. `Search` maps the state back to `SerialEngine`, where a
state is estimated and queued at once: while an estimation is pending its state is not yet in the
set.

`BatchedEngine` models `batched_engine` over `add_range` as it stands, with the insertion
commented out.

`ThreadPool` has one step per atomic step of `worker_thread` (pop, increment, call, decrement)
and of `wait_all` (first loop seen false, second loop seen false), and a client that submits
and waits in any order, as the controller of the delayed hash set does. The TBB queue is atomic.

`ExternalQueue` models the block queue as a record with the fields of the class, and each method
as an operator on it; the caches keep old blocks, as the arrays do. `ComplexQueue` packs values
in blocks, with one action for `push` and one for `top` followed by `pop`, which is how the
search uses it. `Fifo` is the queue they implement; `BlocksOf` and `Contents` give the mapping.

`AvlTree` is a record of nodes by key with their links (children, parent, neighbours) and heights.
`Insert` adds a leaf and balances on the way up, as `insert` and `ballance` do, with the loops of
the code as functions of the number of their turns (`Measured`, `Ballanced`), and with the four
tests of the code in their order; where a node fits none of them the code throws and the model
leaves it out of balance, which `IndexIsSound` would report. `LowerBound` is the search of the range
map: down to a leaf, then perhaps one neighbour back.

`BlockChain` has what the two hash sets share: blocks with their links, the way along a chain, the
bisection (`FindFirstGe`), `find_in_chain`, and where a chain that has grown too long is cut.

`BufferedHashset` holds the blocks with their meta data (`prev`, `next`), the index from hashes
to chains, and the size. `Add` is `insert`: it finds the chain, bisects its items
(`FindFirstGe`), appends a block when all are full, shifts the items behind the place
(`InsertAtPlace`), and cuts the chain when `try_ballance_chain` says so. `Find` is
`find_in_chain`. `StateSet` is the set it implements.

`PageCache` models `cache` on `data_file` as a record: frames with key, use counter, second
chance and modified flag, the hand, the index, the count of pages and what was written to the
file. `CachedFile` puts its two users on top: the vector, which appends and reads, and the hash
set, which holds the pages of a chain (pointers to frames, use counters), reads and writes through
the pointers and lets go. `call` is a history of no effect: the call made last, with its arguments
and its answer (`Answer` is what `operator[]` returns after `Fetch`). `PageArray` is the array they
implement. It has the same `call`, so that the implementation says more than that some array could
have behaved so: a page may change only in the step whose `call` is the write of that page, and
every read has to answer what the array holds, which is what was written there last.

`ComplexVector` has the two specialisations of `grained_vector_base`: with large blocks (the node
log) and with small blocks, where a value takes several.

`DelayedHashset` has three kinds of actors. The caller reads the pointer to the first buffer
(`InsertDelayed`), gets the lock of that buffer and pushes (`PushRequest`), or runs the callbacks
that are due (`GetMerged`). The controller swaps the buffers, locks the second one for the whole
merge, sorts it by hash in any order the sort may leave equal hashes in, gives each chain asked for
its slots in `m_blocksBuffer` and submits a task for it (`BeginMerge`); `WaitAll` writes the new
blocks, tells the index of the chains cut off and ends the merge. A worker pops a task, merges and
counts itself out. `MergeIntoChain` reads the chain from `file` into its slots (`ReadChain`), drops
the requests that are there (`Unique`, `NotIn`), appends blocks (`Resized`), puts the values in
their places (`Merged`, `Refilled`), cuts (`Balanced`) and writes back (`WriteBack`) the blocks
whose slot is in `marked`. The marks are modelled as the code sets them: an appended block marks the
one before, a cut the two at its sides, nothing else does, and no mark is ever taken back. `file`
has a block 2 that is in no chain: the constructor's `append` counts its block twice. The condition
under which `wait_all` returns is that of `ThreadPool`: no task queued, none counted. If a task is
overlooked, or takes more new blocks than the buffer has room for, the controller becomes
`undefined` and nothing is said of what follows; the properties hold up to there. The index is a
function from hashes to chains; how it finds the interval of a hash is checked in `BufferedHashset`.

The modules `MC...` enumerate instances. Definitions called faulty in their comments are not part
of any specification: each is a plausible bug, and the project records which property finds it.

## 4. Runs

| Run | Module, cfg | Checks |
|---|---|---|
| `engines` | `MCEngines`, `Engines.cfg` | all four engines: `TypeOK`; a plan is sound, and of breadth first search shortest when every cost is 1; failure is exhaustive; one node per state, the initial state excepted; layers FIFO; nodes of the blind engines leave by rising cost; the best estimation reported is the least; the engine implements `GraphSearch`; it ends |
| `planner` | `MCPlanner`, `Planner.cfg` | the plan printed is valid and costs what is printed; "not found" is true; without costs it is shortest; the estimation is a lower bound; dead ends are closed; only an operator without a computable cost aborts; the engine outlives the monitor; the planner implements the heuristic engine of `SerialEngine`; `solve` returns |
| `layer` | `ComplexQueue`, `Layer.cfg` | the block queue: `back()` never hands out a block with room that is not the newest, implements `Fifo` |
| `pool` | `ThreadPool`, `Pool.cfg` | the busy counter is the number of counted workers; one holder per task; `wait_all` leaves behind only tasks popped and not yet counted; every task runs; `wait_all` returns |
| `hashset` | `MCHashset`, `Hashset.cfg` | chains are whole and sorted, the index leads every hash to its chain, the index is balanced and threaded, the whole implements `StateSet` |
| `pages` | `MCCachedFile`, `Pages.cfg` | frames and index agree; pointers held stay good; no page is lost; implements `PageArray`: pages change only when a user writes them, reads answer what was written last |
| `delayed` | `MCDelayedHashset`, `Delayed.cfg` | no request is lost in the race of push and swap; one merge takes a value for new once unless hashes collide; between merges the chains on disk are linked as the index says and share no block; every request ends |
| `delayed_find` | `MCDelayedHashset`, `DelayedFind.cfg` | violated: `AnsweredIsFound` |
| `goal_test` | `MCPlanner`, `GoalTest.cfg` | violated: `GoalIsMet` |
| `batched` | `MCBatchedEngine`, `Batched.cfg` | violated: `FailureIsExhaustive` |
| `pool_wait` | `ThreadPool`, `PoolWait.cfg` | violated: `WaitAllWaits` |
| `small_vector` | `ComplexVector`, `SmallVector.cfg` | violated: `PushAppends` |

The type invariants of `CachedFile` and `BufferedHashset` (proved), `ComplexQueue` and
`DelayedHashset` are written down as the description of their states; no run repeats them, since the
implementation of `PageArray`, `Fifo` and `StateSet` and the invariants of the delayed set fail with
them.

What the violated ones show:

- `goal_test`: `is_solved` (`varset_system/combinedvar_system.h:229`) swaps value and mask, so a
  goal literal that should be false is not looked at and a plan may end where it is true.
- `batched`: `add_range` (`search_database.h:224`) inserts nothing, so the batched engine reports
  failure on a graph whose goal can be reached, which the repository's own test expects it to find.
- `pool_wait`: a worker pops the last task; before it increments the counter `wait_all` sees an
  empty queue and a counter of zero, and returns. `OnlyTheWindowEscapes` says that this is the
  only way, and it is proved.
- `delayed_find`: a merge answers a value as new and puts it into a block that has room. Neither
  `resize` nor `std::merge` marks that block, and only marked blocks are written back
  (`delayed_complex_hashset.h:562`), so the value is not in the file, is not found, and is new again
  when it is asked for again; the very first request is an example. The test of this set
  (`src/src/tests/test_complex_vector.cpp:361`) expects otherwise. What does hold is
  `ChainsFitTheirSlots`: whatever links change, those blocks are among the ones written.
- `small_vector`: with small blocks `element_address` (`complex_vector.h:160`) divides the index by
  the blocks per element where `push_back` multiplies, so the second of two-block elements is read
  from the blocks of the first: after two pushes of different values the vector reads as the first
  value twice. The test of this vector (`src/src/tests/test_complex_vector.cpp:97`)
  expects otherwise; its call is commented out in `tests/main.cpp`. The node log uses large blocks.

Properties of run `planner` with a condition say where a promise ends. `PlanIsValid` needs `Kept`:
no negative goal (see `goal_test`), and no operator that adds what it deletes, for which the
converter and PDDL disagree. `NotFoundMeansNoPlan`, `DeadEndIsClosed` and `EstimateIsLowerBound` need
conditions without negative literals: the planning graph never makes a variable false, and charges
a negative literal the cost of its variable. `CostIsOfPlan` needs costs that are not lost in the
float. Nothing says that A* is optimal: with costs of two sizes its estimation may exceed the real
one, since a transition is charged what its condition cost in the layer it was applied in and the
graph stops one layer after the goal, and nodes are never opened again; `ShortestWithoutCosts` is
what is left of it.

`NewOnceInAMerge` of run `delayed` states the exact limit of a promise: requests are sorted by hash
alone and only equal neighbours are removed, so of the requests a, b, a with one hash both a's may
be taken for new. The clause about colliding hashes cannot be left out. From one merge to the next
nothing of the kind holds, as `delayed_find` shows.

### Bounds

- `engines`: the blind engines over every set of edges on three states, each edge with cost 1 or 2
  and with or without a self loop of the initial state; over every set of edges on four states and
  every set of onward edges on five, with cost 1. No goal, or the last state (another goal would
  only rename the states). Three states with costs give two ways of equal and of different cost;
  four give cycles, joins, a second visit of the initial state and unreachable parts; the five-state
  graphs give goals with two ways to them whose lengths differ by two, which is what tells a wrong
  order from a right one. A* and greedy search over four states, edges onward and back to the
  initial state, estimations 0, 2 and infinite for each state; two nodes can share a layer, and a
  dead end can block the only way.
- `planner`: three boolean variables, all subsets of four operators and all seven of a library that
  has chains, cycles of additions and deletions, a negative condition and an operator that deletes
  what it adds, the first operator always among them (the only one that applies at the start). No
  cost, equal, uneven and partly zero costs, an "assign" to the cost and a function without a value;
  four goals, an empty one and one with a negative literal among them; A*, greedy search and a name
  that is no engine; and a fork with a detour, without costs. 271 problems. `Precision = 3` is the
  total at which a float stops changing when a cost is added to it: the code has it near 2^24, and
  reaching it is what ends a search with cost cycles. `PrintCounter = 1` lets the monitor print in
  every second turn, where the code prints in every twenty-first. `Infinite = 99` is above every
  cost.
- `batched`: every graph of three states.
- `layer`: caches of two blocks, two values per block, 22 pushes: enough for several refills and
  swaps, for a tail cache that overflows while the read file still has blocks, and for runs to empty
  and back. `MaxPushes` is the only bound on the behaviour.
- `pool`: three workers, four tasks.
- `hashset`: six hashes with one value and one hash with three, inserted in any order, in blocks of
  one and of two. All four rotations, cuts at either side of the middle and a chain that cannot be
  cut because one hash fills it are met.
- `pages`: three frames, four pages, two contents that are interchangeable, two pages held at a
  time. A page can be written to the file, read back, changed and evicted once more before it is
  read again, which is what an update lost on the way takes. States that differ only in `call` are
  taken for one (`AllButCall`); no step depends on the call before it, and TLC checks the property
  on each step it generates. `MaxHeld` is below `CacheSize` because a chain holds a few blocks of
  200000 frames: with every frame in use the replacement loop would never end.
- `delayed`: three requests of five values with three hashes, in blocks of one value and of two,
  from the constructor and from a set in use (`InUse`, which three requests in two merges bring
  about) with two chains in blocks of one. That is enough for a push that waits out a merge, a
  duplicate on both sides of another value, two tasks that append blocks at the same time, a chain
  cut in a merge with another, and a task `wait_all` overlooks. It does not reach a merge that needs
  more new blocks than there is room for: that takes three chains whose blocks are all full and a
  dozen requests. `MaxRequests` is the only bound. `delayed_find` starts from the constructor.
- `small_vector`: three values of two blocks each; the behaviour needs two pushes.

### Fairness

The engines are one thread that never waits: `WF_vars(Next)`. The planner has two threads, each with
weak fairness: the search waits for nothing but the join, the monitor for nothing but its sleep,
and a join on a thread that has ended goes through. In the pool every worker is a
thread of its own, hence weak fairness per worker; `wait_all` polls in a loop, hence weak
fairness on its two exits (it is a spin on a condition: a condition that stays true is seen).
Nothing forces the client to submit or to call `wait_all`.

In `DelayedHashset` the controller and the pool are threads (weak fairness each); the caller ends
a call it has begun and goes on collecting, as a search that waits for its answers does. Weak
fairness of a push that waits for a lock is enough: the lock is free between two merges, and with
the requests bounded the merges end.

## 5. Proofs

`SerialEngineProofs` proves, for every set of states, every graph (finite or not), every heuristic
and comparator, from `EngineAssumption` alone:

- `BlindTypeOK`, `HeuristicTypeOK`: type correctness;
- `BlindPlanIsSound`, `HeuristicPlanIsSound`: a plan returned is a path of the graph from the
  initial state to a goal;
- `BlindFailureIsExhaustive`, `HeuristicFailureIsExhaustive`: a search that ends without a plan
  has no reachable goal (for the heuristic engine: none reachable around dead ends).

The inductive invariant `SearchInv` has to say more than the three results. Soundness needs that the
log is a tree whose edges are the graph's (`LogIsTree`), that goal nodes are goals (`GoalsAside`),
and that the trail collected so far leads from the child of `walk` to the goal (`TrailLeads`).
Exhaustiveness needs that an edge out of a logged state either ends in the state set or has its
source still to be expanded (`NothingSkipped`), that the state set is logged except for dead ends
(`SetIsLogged`, `RootLogged`), and that the loop has ended only with an empty queue (`LoopIsOver`,
`TodoIsOut`). At the end the logged states are closed under live edges and without goal, and the set
of reachable states, defined as the intersection of the closed sets, lies within them. The steps the
engines share come first in the module; the steps of the two engines, start and generation, and the
conclusions follow. Beside it `OrderInv`, that a layer is in the order of creation and the best
estimation the least, is inductive as it stands (`BlindLayersAreFifo`, `BlindBestIsLeast` and their
like for the heuristic engine), and `HeuristicOneNode` needs that every logged state is in the state
set (`HeuristicLoggedOnce`).

The same module proves that the engines implement `GraphSearch` (`HeuristicIsGraphSearch`,
`BlindIsGraphSearch`). A step that logs a node learns its state over an edge of the log's tree; the
answer "no plan" is one `GraphSearch` may give because the logged states are closed
(`KnownIsClosed`); the answer with a plan is one because the trail is a path without repetition: a
parent is logged before its child and no two nodes on a way to the root have the same state
(`ParentsAreFirst`, `TrailIsNew`). The heuristic engine drops dead ends as `GraphSearch` does; the
blind engines ask nobody, so `BlindIsGraphSearch` assumes of the graphs that no state is called
infinite. A blind engine does not put the initial state into its state set and may log it once more:
`BlindOneNode` rests on `RootFirst` and `BlindLoggedOnce`, which say that this second node is the
only one. `BlindNearestFirst` says that a blind engine expands nodes by rising path length: the
layers of the open list are keyed by the length of their nodes (`LayersAreLengths`), and a successor
goes one layer or more beyond the node expanded, which came from the least. That holds of the engine
called depth first as well: `dfs_engine.h:18` compares path lengths exactly as `bfs_engine.h` does.

`BlindShortest` says that with edges of cost 1 the plan of breadth first search has as few steps as
any, though the search stops at the first goal generated and not at the first expanded. `Within[n]`,
what n steps can reach, is a recursive function; that its equation holds (`WithinSteps`) is proved
like every fact of this kind here: the least number at which it failed would have a predecessor
where it holds. The invariant `ShortInv` says that whatever is no farther than the node under
expansion has a node that is no farther either, that no goal is among it, and that no node is more
than one step beyond (`NearAreKnown`); a goal found lies that one step beyond (`GoalIsNext`) and the
way back has a state for each unit of its length (`TrailCounts`). When a node of the next length is
taken, the layers below are empty (`LayersAreLengths`), so every node of the length before has been
expanded and what it leads to has a node (`NothingSkipped`).

`ThreadPoolProofs` proves, for every finite set of workers and every set of tasks (from
`PoolAssumption`), `PoolTypeOK`, `PoolBusyCounts`, `PoolOneHolder`, `PoolNoTaskLost` and
`PoolOnlyTheWindow`. The inductive invariant is `PoolInv`: beside the first four it says that the
queue holds each task once and only tasks that were submitted (`QueueIsClean`), and that after
`wait_all` has left its first loop the queue stays empty (`DrainedStaysEmpty`): that is why, when
the second loop is left, an unfinished task can only be with a worker, which the counter of zero
says is not counted.

The last part of `CachedFileProofs` is about `ComplexVector` and proves `LargeVectorAppends`: with
large blocks of any size the vector is an array, each step a push that appends the value pushed and
leaves what was read before. `VectorInv` says that stored blocks are full and the block in memory is
not, so that the size is the number of values in both; the address of a value is then a matter of
division with remainder (`DivMod`, `DivUnique`), and appending moves no value. The theorem assumes
`LargeAssumption`: large blocks are what the node log uses, and with small ones the property is
false (run `small_vector`).

`CachedFileProofs` proves of the page cache and its users, for any number of frames, pages and held
pages with `MaxHeld < CacheSize` (`CacheAssumption`), the theorems `CachedFileTypes`, `FramesFound`,
`PointersGood`, `PagesKept`, and `CachedFileIsArray`, which says that the file behind its cache
implements `PageArray`. The inductive invariant `Inv` has a part for the file (`FileInv`) and two
for its users (`HeldType`, `Good`). Beside the index and the frames agreeing (`Found`) and every
page being kept (`Kept`), `FileInv` needs that a frame taken holds a page somebody wrote (`Full`),
or an eviction could write back what nobody put there. The argument: fewer pages are held than there
are frames, so one frame is not in use (`UnusedExists`, by the pigeon hole principle); the clock
therefore finds a victim and it is one of those (`VictimIsUnused`; that the distances from the hand
have a least one is `LeastNat`); so a page that enters evicts one nobody holds (`EnteredInv`), and
the content of every other page, in its frame or in the file, is what it was. `Changed` says what a
step does to the pages and what its `call` is: only a write changes a page, and only its own, and a
read answers the content of its page. From that the step of `PageArray` follows (`NextRefines`), and
that a call has its type (`CallsKept`). That `MaxHeld < CacheSize` is needed: with all frames in use
the clock of the code turns for ever.

The first part of `StateSpaceSolverProofs` is about the planning graph alone. It proves, for every
set of variables and every task with the types of `GraphAssumption`, `GraphTypes` and
`DeadEndsAreClosed`. `GraphInv` says that the state estimated lies in the layer, and that a
transition taken out of the working list has its additions in the layer; when the graph fails
nothing was added by the transitions still in the list either (`FailedIsClosed`), and what the
relaxed transitions cannot leave the real ones cannot (`RelaxedIsMore`, `ApplyAdds`).
`GraphEstimates` says that with positive conditions an infinite answer comes from a dead end and
never from costs that add up: a layer with n variables has costs of at most n times the greatest
cost of a transition (`CostsAreBounded`), because the costs of the variables already in it only
fall, and a variable that is new, which makes the layer larger, costs at most one transition more
than the layer before (`GrownIsBounded`). It rests on `CostAssumption`: the greatest cost times the
number of variables is below the largest float.

The rest of the module proves of the planner, for any problems and from `SolverAssumption`,
`GraphAssumption`, `EngineAssumption` and `CostAssumption`: `PlannerRunsGraph` (the steps of the
planner are steps of the heuristic or leave it alone, so that what is proved of the one holds in the
other), `PlannerDeadEnds`, `PlannerPlanIsValid`, `PlannerNotFound`, `PlannerAbortsOnlyUnpriced` and
`PlannerOutlivesMonitor`. `SolverInv` puts `GraphInv` and the part of the engines' invariant that
does not depend on when a state enters the set (`PathInv`) beside what the planner adds: the graph
is that of the task (`TaskFits`), the pending edge is one of the node expanded (`PendingFits`), the
control states of the two threads fit together (`MainFits`, `MonitorFits`), and the operators
rebuilt so far lead along the trail (`PlanFits`). Every edge of the graph comes from a transition
(`EdgeIsTransition`), so `difference` always finds one (`RebuildFinds`) and the last it finds is a
right one (`DifferenceIsBetween`); what that means for the problem is `OperatorBetween`.

That "Solution not found!" is true (`PlannerNotFound`) needs more, `AnswerInv`: a state in the set
has a node, is being estimated, or lies in a set of states that transitions do not leave and no
goal is in (`DropsFit`, from `InfiniteIsFailed` and `FailedIsClosed`); and every transition that
is available in a state with a node is an edge of the graph, since the heuristic has asked for its
cost and did not throw (`OffersFit`, from `CostsAreAsked`). When the loop ends with an empty queue
the states with a node and the hopeless ones are together closed under the transitions
(`MetIsClosed`), and so are their boolean parts under the operators.

Four theorems complete this. `PlannerImplementsEngine`: hidden behind the mapping is an estimation
under way, whose state the planner has in its set and the engine of `SerialEngine` has not; what the
graph answers for it, layer by layer, is what that engine is given at once, and every other step of
the planner, its monitor's included, leaves the search alone. `PlannerCostIsOfPlan`: a node's length
is the total of its state while no cost is lost in the float, `difference` therefore finds a
transition of the right cost even when several lead between the two boolean states, and the sum over
the plan follows. `PlannerShortestWithoutCosts`: with costs of 0 every length is 0 and says nothing,
so the invariant `FreeInv` claims that there are numbers, the depths of the nodes in the tree of the
log, that grow along the log and for which the argument of `BlindShortest` goes through, hopeless
states excepted. `PlannerEstimateIsLowerBound`: when all transitions cost c the n-th layer holds
every state that n steps can reach, and its costs are at most c * n (`StepsFit`); once the goal is
in layer n + 1 and not before, n steps reach no goal and the goal costs at most c * (n + 1). The
lemmas on the graph are kept exact for it: the cost a variable gets in a layer is the least one that
a transition applied there asks for (`GrownIsLeast`).

`ComplexQueueProofs` proves, for every size of the caches and of the blocks and for any number of
values (`QueueAssumption`), `LayerIsFifo` and `LayerBack`. It numbers the blocks of the queue
through the four places they can be in (`BlockAt`; `BlocksAre` says that `BlocksOf`, which is put
together by concatenation, is that row) and then says of each method what it does to the row: `pop`
takes the first block away (`PopIs`), `push` adds one (`PushIs`), and writing through `back()` or
`front()` changes one block in place (`SetBackIs`, `SetFrontIs`), however the refill (`FilledIs`),
the swap of the files (`SwapIs`) and the flush of the tail (`FlushIs`) move the blocks about.
`QueueShape` is what the counters of the class have to satisfy for that. `FullButNewest` says where
blocks may have room. That all but the newest are full would be the obvious claim, and it is false:
`back()` returns slot 0 of the front cache whenever the tail is empty, so after a refill the last
block of the read file keeps the room it has, and the next value opens a block behind it. What is
true is that the write file has full blocks only, the tail all but its newest, and that with an
empty tail the write file is empty, the blocks of the read file before its last are full, and slot 0
is full unless it holds the only block. From there a value goes to a block with room only when that
block is the newest (`LayerBack`). `Contents` flattens the blocks; the equations of the flattening
are again proved by the least counterexample (`FlattenAppend`, `FlattenFront`).

`DelayedHashsetProofs` proves, for any values, capacities and number of requests
(`DelayedAssumption`), `RequestsKept`, `NewOnce` and `ChainsFit`, from one inductive invariant
(`InductiveInvariant`). Its parts:

- `Types` and `Quiet`: between merges there are no tasks, no new blocks and no chains cut off.
- `Once`: a request is at one place, in hand or in one of the buffers, and what waits has not been
  answered. Without it the size would not count the answers: it grows by the number of requests a
  task keeps, and the set of answers by the requests themselves.
- `TasksFit`: a task not yet run has, sorted and without repetition, requests of the buffer
  that is being merged and that belong to the chain of the task, so that the groups of two tasks
  have nothing in common; of one that has run, a value requested twice has a twin, another
  value with the same hash.
- `Chains`: beside the blocks in the file those still to be written count (`Disk`). Each chain, be it
  in the index or cut off in this merge, has a row of blocks there whose first, last, number and
  links both ways are what its entry says, full but for the last, and no two rows share a block. The
  row of a task not yet run lies in the file: what it reads is not what another task has yet to
  write.
- `Kept`: `RequestsAreKept`, with `Disk` in place of `file`.

The step that matters is `MergeIntoChain`. What it computes is put together from lemmas on the
operators: the way along the links is the row (`ChainIsWay`) and gives the elements in order
(`ElementsAre`); `Unique` and `NotIn` keep requests of the group and drop a value only when it was
kept, or is in the chain (`UniqueThins`, `NotInSifts`), and of two equal values that both stay
something else of that hash lies between them (`ThinnedHasTwins`); `Merged` has the values of both
(`MergedIs`); the chain that was resized, refilled (`ResizedIs`, `RefilledIs`) and cut any number of
times (`CutIs`, `BalancedIs`) is still a row with its parts. `MergeWorks` collects that. Then
`WrittenBack` compares the row in memory with what is on disk afterwards: the blocks whose links
have changed are marked, so what is not written has the links it had, and had been full before
(only the last block may have had room, and a block that gets a successor is marked). With
`MergeKeepsChains` every other chain is untouched because its row is disjoint. At the end of a merge
`CutsGetEntries` turns the chains cut off into entries of the index.

`BufferedHashsetProofs` proves, for any values and hashes and any capacities of a block
(`HashsetAssumption`), `TypeIsKept`, `ChainsStayWhole`, `HashesLead`, `IndexStaysSound` and
`IsAStateSet`, from one inductive invariant (`InductiveInvariant`). `IInv` says that there are a set
of keys, a row of blocks for each and what each row holds (`Stored`), such that

- the index is a balanced search tree of those keys, with neighbours linked (`IsIndex`);
- each row is a chain as its entry in the index says, full but for the last block, and every block
  is in one row (`AllChains`, `ChainHolds`, `Linked`);
- each chain is in the order of hashes, its values have hashes from its key up to the next one
  (`Filed`), and no chain is empty but that of a new set (`Filled`);

and that size and answer fit the members.

The first part is about the index. A tree is described by the set of keys below each node (`Shape`):
a node's set is its key with the sets of its children, the left ones below and the right ones above.
So a subtree is a set, two of them are nested or apart (`Nested`), and no induction over the shape
of a tree is needed: what a loop along the way to the root does is counted by its turns, with
`Recursion` and the least number at which a claim fails. `LowerBoundIs` says that the search of the
range map, down to a leaf and perhaps one neighbour back, ends at the greatest key not above the one
asked for. `InsertIs` says that `Insert` keeps a balanced tree one. Its steps: the new leaf hangs
where the search ends and between its neighbours (`LeafIs`, `LeafShape`, `LeafThreaded`); heights
grow by one at most and only where the leaf hangs below (`Growth`); at the first node out of balance
one of the four tests of the code holds (`Unbalanced`, `RotationOf`), so the branch that throws is
never taken; the rotation makes the part anew with the height it had before the leaf came
(`RotatedIs`), so above it every height is what it was (`BallancedAt`), and the order of keys has
not changed at all.

The second part is about the chains. `PlacedIs` says that a value shifted into a chain of full
blocks is in its place of the sequence the chain holds, `GrownIs` that a chain with a block appended
is still one, and `ChainCut` that the two parts of a chain that is cut are chains and hold the two
parts of the sequence. The place is that of `FindFirstGe` (`FindFirstGeIs` of `BlockChainProofs`:
the bisection ends at the first position that is not below, for every number of positions). The
third part puts the two together: the chain found for a hash is the only one that may hold its
values (`MembersHeld`, `ChainAtIs`); a chain is cut only between two hashes, so the new key is not
yet in the index and each hash still leads to its values (`CutHashes`, `FloorsAfterCut`, `SplitIs`);
a value is new exactly when no block has it (`NewIs`, `AddAnswers`, `FindAnswers`).

The operators of `AvlTree`, `BlockChain` and `DelayedHashset` are recursive functions on the numbers
up to some bound. That such a function exists and satisfies its equations is `Recursion`, again by
the least number at which it would fail. `BlockChainProofs` has what both hash sets need.

The proofs use the library's theorems on sequences, finite sets and well-founded orders and
nothing else.

## 6. Only model-checked

Every safety property of a passing run is proved. The type invariants of `ComplexQueue` and
`DelayedHashset`, which no run checks, are not: the inductive invariants of their proofs have the
types they need (`QueueShape`, `Types`).

Liveness (`Terminates`, `SolveReturns`, `EveryTaskRuns`, `WaitAllReturns`, `EveryRequestEnds`) is
out of the proof system's reach.

## 7. Abstractions

- For the engines a state is a model value and the transition system the set of edges of the
  graph. The planner's states are the sets of true variables with the total cost.
- Of the numeric variables only (total-cost) is kept, with natural amounts; a problem with other
  numeric conditions or effects is outside `VarsetSystem`. "assign" stands for every kind of effect
  on the cost that is no increase.
- The order of the transitions is kept in the task (the last one between two states is printed);
  the successors of a state are taken in any order.
- The monitor reads sizes while the search changes them, which is a data race; what it reads is
  only printed, so the step has no effect.
- Floats are natural numbers; `numeric_limits<float>::max()` is the constant `Infinite`.
- `m_farestDistance` starts as any member of `UninitFloat`: the code does not initialise it. It is
  only reported.
- In the engines the log and the state set are a sequence and a set: their containers are
  modelled by themselves (`ComplexVector`, `BufferedHashset`, `ComplexQueue`, `CachedFile`), each
  with the simple thing it implements.
- A page that was never written holds `NoPage`: what an older file may have there is never read.
- In `DelayedHashset` the work of a task on its chain is one step: chains and slots of two tasks are
  disjoint, and what they share is an atomic counter. Callbacks are run all at once. The search for
  a group's end is exact only for hashes below the largest `size_t`: a request of just that hash
  would form an empty group and the loop would not advance.
- Statistics and printing are left out; writing the plan and `stats.txt` is one step that succeeds.

## 8. Not modelled

- The buffered engine (`serial_engine.h`, third loop): its only engine, `delayed_astar_engine`,
  hands two arguments to a constructor of one and cannot be built. Its inner loop waits for a
  non-empty queue, which a goal or a last node without new successors never brings.
- The destructor of the delayed hash set, which joins a thread without end, and its `find` during a
  merge: it reads into the slots the tasks work in, a data race on whole blocks.
- The constructors of `explicit_graph`: a graph is a set of edges with costs. The constructor from
  pairs never assigns the costs it copies.
- The planner with "BA*", whose engine is `BatchedEngine` and fails on every search; its
  random problem generator.
- `complex_stack` (no user), `direct_complex_hashset.h` (not generated by `generator.h`), the packing
  of bits in words, the evaluation of numeric expressions, multi-valued variables, the transition
  index (commented out): data layout without control the search depends on, or not used.
- `goal_count_heuristic`: commented out of `main.cpp`.
- PDDL front end: parsing and grounding, built on the vendored VAL parser. Domains, tests,
  debugger (Qt), legacy and CUDA solvers: not part of the core, some not built.
  `data_file_win.h`: the other platform's version of the same file. `src/dependencies` and
  `src/include`: vendored.
