--------------------------- MODULE MCBatchedEngine ---------------------------
(* BatchedEngine on every graph of three states with one goal. *)
EXTENDS BatchedEngine

CONSTANT MCGoal   \* the goal

MCGraphs ==
    {[edges |-> {<<e[1], e[2], 1>> : e \in E}, goals |-> {MCGoal},
      h |-> [s \in States |-> 0], cmp |-> "astar"] :
        E \in SUBSET {e \in States \X States : e[1] # e[2]}}
=============================================================================
