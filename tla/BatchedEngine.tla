---------------------------- MODULE BatchedEngine ----------------------------
(***************************************************************************)
(* batched_engine of batched_engine.h, called BA-star: batches of nodes of *)
(* the best layer are expanded, the successors are sorted and freed of     *)
(* duplicates, and handed to the database in one range.  That call, the    *)
(* add_range of search_database.h, finds the group of every storage and    *)
(* then does nothing with it: the insertion is commented out, and with it  *)
(* go the callbacks that would log and queue the new nodes.                *)
(***************************************************************************)
EXTENDS QueuedEngine

CONSTANT BatchSize   \* m_batchSize

VARIABLES
    inBuffer,     \* m_inBuffer, of node ids
    expandBuffer  \* m_expandBuffer: the nodes that might be created

batchVars == <<vars, inBuffer, expandBuffer>>

Init ==
    /\ EngineInit
    /\ inBuffer = << >>
    /\ expandBuffer = {}

(* The statement before the loop. *)
Start ==
    LET root == Node(InitState, 1, 0)
    IN  /\ phase = "init"
        /\ phase' = "search"
        /\ CreateNode(root)
        /\ Enqueue(root, Priority(0, graph.h[InitState]))
        /\ UNCHANGED <<graph, db, cur, todo, walk, trail, inBuffer, expandBuffer>>

(* pick_best_nodes: up to a batch of nodes, all from the best layer. *)
PickBestNodes ==
    LET layer == queue[BestPriority(queue)]
        n     == IF Len(layer) < BatchSize THEN Len(layer) ELSE BatchSize
    IN  /\ phase = "search"
        /\ ~ LoopEnds
        /\ inBuffer = << >>
        /\ expandBuffer = {}
        /\ inBuffer' = SubSeq(layer, 1, n)
        /\ queue' = IF n = Len(layer)
                    THEN [r \in DOMAIN queue \ {BestPriority(queue)} |-> queue[r]]
                    ELSE [queue EXCEPT ![BestPriority(queue)] = SubSeq(@, n + 1, Len(@))]
        /\ UNCHANGED <<graph, phase, log, db, goalNodes, cur, todo, walk, trail,
                       best, farest, expandBuffer>>

(* expand_best_nodes: of the successors with the same state one is kept.   *)
Successors ==
    {Node(p[2][2], inBuffer[p[1]], log[inBuffer[p[1]]].len + p[2][3]) :
        p \in {q \in (1..Len(inBuffer)) \X graph.edges :
                q[2][1] = log[inBuffer[q[1]]].state}}

ExpandBestNodes ==
    /\ phase = "search"
    /\ inBuffer # << >>
    /\ \E kept \in SUBSET Successors :
          /\ \A s \in {n.state : n \in Successors} : \E n \in kept : n.state = s
          /\ \A m, n \in kept : m.state = n.state => m = n
          /\ expandBuffer' = kept
    /\ inBuffer' = << >>
    /\ UNCHANGED vars

(* merge: add_range inserts nothing, the buffer is cleared. *)
Merge ==
    /\ phase = "search"
    /\ expandBuffer # {}
    /\ expandBuffer' = {}
    /\ UNCHANGED <<vars, inBuffer>>

Next ==
    \/ Start
    \/ PickBestNodes
    \/ ExpandBestNodes
    \/ Merge
    \/ inBuffer = << >> /\ expandBuffer = {} /\ Finalize /\ UNCHANGED <<inBuffer, expandBuffer>>
    \/ BacktraceStep /\ UNCHANGED <<inBuffer, expandBuffer>>
    \/ Returned /\ UNCHANGED <<inBuffer, expandBuffer>>

Spec == Init /\ [][Next]_batchVars
=============================================================================
