---------------------------- MODULE QueuedEngine ----------------------------
(***************************************************************************)
(* What the serial engines share: search_engine_base, queued_engine and    *)
(* the node log and state set of search_database.  A search runs over a    *)
(* graph chosen at the start and never changed.  SerialEngine adds the     *)
(* initial step and the expansion loop of each kind of engine.             *)
(*                                                                         *)
(* Node ids are positions in the log, counted from 1 (the code counts from *)
(* 0); the root is its own parent.  Floats are natural numbers.            *)
(***************************************************************************)
EXTENDS SearchQueue, Floats

CONSTANTS
    States,      \* the vertices
    InitState,   \* the initial state of the problem
    Graphs,      \* the graphs a search may be given
    UninitFloat  \* what the uninitialized m_farestDistance may hold

(* What a search is given: the edges <<source, target, cost>> of its graph,*)
(* the states is_goal accepts, the heuristic, and the comparator m_cmp of  *)
(* the engine that runs it.                                                *)
GraphType ==
    [edges : SUBSET (States \X States \X Nat),
     goals : SUBSET States,
     h     : [States -> Nat],
     cmp   : {"astar", "gbfs", "bfs", "dfs"}]

ASSUME EngineAssumption ==
    /\ InitState \in States
    /\ Graphs \subseteq GraphType
    /\ Infinite \in Nat
    /\ UninitFloat \subseteq Nat

VARIABLES
    graph,      \* what is searched, and by which engine
    phase,      \* "init", "search", "backtrace" or "done" (m_finished)
    log,        \* m_searchNodes: every node ever created
    db,         \* the states the hash set holds
    queue,      \* m_searchQueue, of node ids
    goalNodes,  \* m_goalNodes, of node ids
    cur,        \* cur_node: the node under expansion, 0 before the first
    todo,       \* the edges of cur still to be visited
    walk,       \* the node backtrace_path has reached
    trail,      \* the path it has collected, in order from walk's child
    best,       \* << >> while m_firstNode, then <<m_bestEstimation's key>>
    farest      \* m_farestDistance

vars == <<graph, phase, log, db, queue, goalNodes, cur, todo, walk, trail,
          best, farest>>
-----------------------------------------------------------------------------
(* Comparators: the number by which each engine orders node_estimation_t.  *)

AStarKey(len, est) == len + est
GreedyKey(len, est) == est
BfsKey(len, est) == len
DfsKey(len, est) == len

Priority(len, est) ==
    CASE graph.cmp = "astar" -> AStarKey(len, est)
      [] graph.cmp = "gbfs"  -> GreedyKey(len, est)
      [] graph.cmp = "bfs"   -> BfsKey(len, est)
      [] graph.cmp = "dfs"   -> DfsKey(len, est)
-----------------------------------------------------------------------------
Node(state, parent, len) == [state |-> state, parent |-> parent, len |-> len]

(* search_database::create_node: the node takes the next id and is logged. *)
CreateNode(node) == log' = Append(log, node)

OutEdges(s) == {e \in graph.edges : e[1] = s}

LoopEnds == QueueEmpty(queue) \/ goalNodes # << >>

(* Faulty variant: the best estimation is overwritten, not minimised. *)
EnqueueLastIsBest(node, prio) ==
    LET id == Len(log) + 1
    IN  IF node.state \in graph.goals
        THEN /\ goalNodes' = Append(goalNodes, id)
             /\ UNCHANGED <<queue, best, farest>>
        ELSE /\ queue' = Push(queue, prio, id)
             /\ best' = <<prio>>
             /\ farest' = IF farest < node.len THEN node.len ELSE farest
             /\ UNCHANGED goalNodes

(* queued_search_engine::enqueue of the node just logged: a goal is kept   *)
(* aside and never queued.                                                 *)
Enqueue(node, prio) ==
    LET id == Len(log) + 1
    IN  IF node.state \in graph.goals
        THEN /\ goalNodes' = Append(goalNodes, id)
             /\ UNCHANGED <<queue, best, farest>>
        ELSE /\ queue' = Push(queue, prio, id)
             /\ best' = IF best = << >> \/ prio < best[1] THEN <<prio>> ELSE best
             /\ farest' = IF farest < node.len THEN node.len ELSE farest
             /\ UNCHANGED goalNodes

(* The loop head: pick the best node for expansion. *)
Dequeue ==
    /\ phase = "search"
    /\ todo = {}
    /\ ~ LoopEnds
    /\ cur' = Top(queue)
    /\ queue' = Pop(queue)
    /\ todo' = OutEdges(log[Top(queue)].state)
    /\ UNCHANGED <<graph, phase, log, db, goalNodes, walk, trail, best, farest>>

(* finalize: take the first goal node, if there is one. *)
Finalize ==
    /\ phase = "search"
    /\ todo = {}
    /\ LoopEnds
    /\ IF goalNodes # << >>
       THEN /\ phase' = "backtrace"
            /\ walk' = goalNodes[1]
       ELSE /\ phase' = "done"
            /\ UNCHANGED walk
    /\ UNCHANGED <<graph, log, db, queue, goalNodes, cur, todo, trail, best, farest>>

(* Faulty variants of the loop: the root is pushed by it and after it; the *)
(* loop stops one node short of the root.                                  *)
BacktraceRootTwice ==
    /\ phase = "backtrace"
    /\ trail' = IF log[walk].parent = walk
                THEN <<log[walk].state, log[walk].state>> \o trail
                ELSE <<log[walk].state>> \o trail
    /\ walk' = log[walk].parent
    /\ phase' = IF log[walk].parent = walk THEN "done" ELSE "backtrace"
    /\ UNCHANGED <<graph, log, db, queue, goalNodes, cur, todo, best, farest>>

BacktraceStopsShort ==
    /\ phase = "backtrace"
    /\ trail' = <<log[walk].state>> \o trail
    /\ walk' = log[walk].parent
    /\ phase' = IF log[walk].parent = 1 THEN "done" ELSE "backtrace"
    /\ UNCHANGED <<graph, log, db, queue, goalNodes, cur, todo, best, farest>>

(* One turn of backtrace_path: follow the parent link until a node is its  *)
(* own parent.                                                             *)
BacktraceStep ==
    /\ phase = "backtrace"
    /\ trail' = <<log[walk].state>> \o trail
    /\ walk' = log[walk].parent
    /\ phase' = IF log[walk].parent = walk THEN "done" ELSE "backtrace"
    /\ UNCHANGED <<graph, log, db, queue, goalNodes, cur, todo, best, farest>>

(* The engine's call operator has returned. *)
Returned ==
    /\ phase = "done"
    /\ UNCHANGED vars

EngineInit ==
    /\ graph \in Graphs
    /\ phase = "init"
    /\ log = << >>
    /\ db = {}
    /\ queue = NoLayers
    /\ goalNodes = << >>
    /\ cur = 0
    /\ todo = {}
    /\ walk = 0
    /\ trail = << >>
    /\ best = << >>
    /\ farest \in UninitFloat
-----------------------------------------------------------------------------
(***************************************************************************)
(* Properties of every serial engine.                                      *)
(***************************************************************************)
Ids == 1..Len(log)

NodeType == [state : States, parent : Nat \ {0}, len : Nat]

TypeOK ==
    /\ graph \in GraphType
    /\ phase \in {"init", "search", "backtrace", "done"}
    /\ log \in Seq(NodeType)
    /\ db \subseteq States
    /\ QueueType(queue, Ids)
    /\ goalNodes \in Seq(Ids)
    /\ cur \in Ids \cup {0}
    /\ todo \subseteq graph.edges
    /\ walk \in Ids \cup {0}
    /\ trail \in Seq(States)
    /\ best \in Seq(Nat) /\ Len(best) <= 1
    /\ farest \in Nat

IsEdge(s, t) == \E e \in graph.edges : e[1] = s /\ e[2] = t

Chain(p) == \A i \in 1..(Len(p) - 1) : IsEdge(p[i], p[i + 1])

(* A plan: a path of the graph from the initial state to a goal.           *)
IsPlan(p) ==
    /\ p # << >>
    /\ p[1] = InitState
    /\ p[Len(p)] \in graph.goals
    /\ Chain(p)

(* The states every closed set of states holds: those a search can reach   *)
(* when it drops what the heuristic calls a dead end.                      *)
Closed(C) ==
    /\ InitState \in C
    /\ \A e \in graph.edges :
          e[1] \in C /\ graph.h[e[2]] # Infinite => e[2] \in C

Reachable == {s \in States : \A C \in SUBSET States : Closed(C) => s \in C}

Found == goalNodes # << >>

(* A search that reports success returns a plan: the parent links followed *)
(* by backtrace_path lead, over edges of the graph, from the goal found    *)
(* back to the initial state (search_engine_base.h, backtrace_path).       *)
PlanIsSound == phase = "done" /\ Found => IsPlan(trail)

(* A search that reports failure has missed nothing: no goal can be        *)
(* reached from the initial state (the loop condition of serial_engine.h). *)
FailureIsExhaustive ==
    phase = "done" /\ ~ Found => Reachable \cap graph.goals = {}

(* The length a node carries is the cost of its chain of parents, and the  *)
(* parent was created before it, so following parents always ends.         *)
LogIsTree ==
    \A i \in Ids :
        IF i = 1
        THEN log[1] = Node(InitState, 1, 0)
        ELSE /\ log[i].parent < i
             /\ <<log[log[i].parent].state, log[i].state,
                  log[i].len - log[log[i].parent].len>> \in graph.edges

QueuedIds == Members(queue)

(* A state has one node, so it is expanded once and the first path found   *)
(* to it is the one kept.  Only the initial state of a blind search, which *)
(* nobody put in the state set, may have a second one; that one is expanded*)
(* for nothing: no node has it for a parent (serial_engine.h:26, :37, :85).*)
OneNodePerState ==
    \A i, j \in Ids :
        i < j /\ log[i].state = log[j].state =>
            /\ graph.cmp \in {"bfs", "dfs"}
            /\ i = 1
            /\ \A k \in Ids : log[k].parent # j

(* Nothing is lost between the log and the open list: a node that is       *)
(* neither queued nor a goal has been expanded, that is, its successors    *)
(* are in the state set already (those of cur as far as it was visited).   *)
NothingSkipped ==
    \A i \in Ids : \A e \in OutEdges(log[i].state) :
        \/ e[2] \in db
        \/ i \in QueuedIds
        \/ log[i].state \in graph.goals
        \/ i = cur /\ e \in todo

(* The priority reported to the monitor is the least any open node ever    *)
(* had: nothing still queued is better (queued_engine.h, m_bestEstimation).*)
BestIsLeast ==
    \A p \in DOMAIN queue : best # << >> /\ best[1] <= p

(* Within a layer nodes leave in the order they were created.              *)
LayersAreFifo ==
    \A p \in DOMAIN queue : \A i, j \in 1..Len(queue[p]) :
        i < j => queue[p][i] < queue[p][j]

(* The states at most n edges away from the initial state.                 *)
Within[n \in Nat] ==
    IF n = 0 THEN {InitState}
    ELSE Within[n - 1] \cup {e[2] : e \in {f \in graph.edges : f[1] \in Within[n - 1]}}

(* A plan has as few steps as any plan (breadth first search promises it). *)
PlanIsShortest ==
    phase = "done" /\ Found =>
        Len(trail) = 1 \/ Within[Len(trail) - 2] \cap graph.goals = {}

(* Breadth first search over edges of cost 1 returns a plan with as few    *)
(* steps as any plan has (bfs_engine.h).                                   *)
ShortestAtCostOne ==
    graph.cmp = "bfs" /\ (\A e \in graph.edges : e[3] = 1) => PlanIsShortest

(* The node a blind search expands next is never nearer to the initial     *)
(* state than the node it expanded before: what makes breadth first search *)
(* breadth first, and the engine named after depth first search another    *)
(* one (dfs_engine.h:18).                                                  *)
BlindCheapestFirst ==
    [][graph.cmp \in {"bfs", "dfs"} /\ cur # 0 => log[cur].len <= log[cur'].len]_cur

(* The states that have a node.                                            *)
KnownStates == {log[i].state : i \in Ids}

Abstract == INSTANCE GraphSearch
    WITH known <- KnownStates, answered <- (phase = "done"),
         plan <- IF phase = "done" THEN trail ELSE << >>

(* The engine is a graph search: every step of it learns one state from a  *)
(* state known before, gives the one answer, or is internal.               *)
RefinesGraphSearch == Abstract!Spec

(* The search returns, whatever the graph.                                 *)
Terminates == <>(phase = "done")

=============================================================================
