---------------------------- MODULE SerialEngine ----------------------------
(***************************************************************************)
(* The two search loops of serial_engine.h.  Both are the base of          *)
(* QueuedEngine with a first step of their own and their own callback for  *)
(* the edges of the node under expansion.                                  *)
(***************************************************************************)
EXTENDS QueuedEngine

-----------------------------------------------------------------------------
(***************************************************************************)
(* blind_engine: breadth first search, and the engine the repository calls *)
(* depth first search.  The initial state is queued but not put in the     *)
(* state set, so the search may meet it once more as a new state; a node's *)
(* length is the cost of the edges to it and its estimation is 0.          *)
(***************************************************************************)

(* The statement before the loop. *)
BlindStart ==
    LET root == Node(InitState, 1, 0)
    IN  /\ phase = "init"
        /\ phase' = "search"
        /\ CreateNode(root)
        /\ Enqueue(root, Priority(0, 0))
        /\ UNCHANGED <<graph, db, cur, todo, walk, trail>>

(* Faulty variant: the state set is not asked. *)
BlindGenerateUnchecked(e) ==
    LET node == Node(e[2], cur, log[cur].len + e[3])
    IN  /\ phase = "search"
        /\ e \in todo
        /\ todo' = todo \ {e}
        /\ db' = db \cup {e[2]}
        /\ CreateNode(node)
        /\ Enqueue(node, Priority(node.len, 0))
        /\ UNCHANGED <<graph, phase, cur, walk, trail>>

(* The callback of forall_adj_verts for one edge of cur. *)
BlindGenerate(e) ==
    LET node == Node(e[2], cur, log[cur].len + e[3])
    IN  /\ phase = "search"
        /\ e \in todo
        /\ todo' = todo \ {e}
        /\ IF e[2] \in db
           THEN UNCHANGED <<log, db, queue, goalNodes, best, farest>>
           ELSE /\ db' = db \cup {e[2]}
                /\ CreateNode(node)
                /\ Enqueue(node, Priority(node.len, 0))
        /\ UNCHANGED <<graph, phase, cur, walk, trail>>

BlindNext ==
    \/ BlindStart
    \/ Dequeue
    \/ \E e \in todo : BlindGenerate(e)
    \/ Finalize
    \/ BacktraceStep
    \/ Returned

BlindSpec == EngineInit /\ [][BlindNext]_vars

-----------------------------------------------------------------------------
(***************************************************************************)
(* heuristic_engine: A* and greedy best-first search.  The initial state   *)
(* is put in the state set after it is queued; a state the heuristic gives *)
(* up on enters the state set but never the log.                           *)
(***************************************************************************)

(* The two statements before the loop. *)
HeuristicStart ==
    LET root == Node(InitState, 1, 0)
    IN  /\ phase = "init"
        /\ phase' = "search"
        /\ CreateNode(root)
        /\ Enqueue(root, Priority(0, graph.h[InitState]))
        /\ db' = {InitState}
        /\ UNCHANGED <<graph, cur, todo, walk, trail>>

(* The callback of forall_adj_verts for one edge of cur. *)
HeuristicGenerate(e) ==
    LET node == Node(e[2], cur, log[cur].len + e[3])
    IN  /\ phase = "search"
        /\ e \in todo
        /\ todo' = todo \ {e}
        /\ db' = db \cup {e[2]}
        /\ IF e[2] \in db \/ graph.h[e[2]] = Infinite
           THEN UNCHANGED <<log, queue, goalNodes, best, farest>>
           ELSE /\ CreateNode(node)
                /\ Enqueue(node, Priority(node.len, graph.h[e[2]]))
        /\ UNCHANGED <<graph, phase, cur, walk, trail>>

HeuristicNext ==
    \/ HeuristicStart
    \/ Dequeue
    \/ \E e \in todo : HeuristicGenerate(e)
    \/ Finalize
    \/ BacktraceStep
    \/ Returned

HeuristicSpec == EngineInit /\ [][HeuristicNext]_vars
=============================================================================
