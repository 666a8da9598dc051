----------------------------- MODULE MCEngines -----------------------------
(***************************************************************************)
(* Instances of the serial engines: every graph of a small size, searched  *)
(* by the engine its comparator belongs to.                                *)
(***************************************************************************)
EXTENDS SerialEngine, FiniteSets

CONSTANTS
    MCCosts,   \* the edge costs tried in the graphs over Near
    MCBlind,   \* the blind searches tried: a comparator and a goal set
    Near,      \* the states of the graphs with every edge set and every cost
    Wide,      \* the states of the graphs with every edge set, of cost 1
    Ordered,   \* the states of the graphs that lead onward, of cost 1
    Goal,      \* the goal, the last of Ordered; where every edge set is tried
               \* another goal would only change the names
    Guided,    \* the states of the graphs searched with a heuristic
    MCEst,     \* the estimations tried on them
    MCCmp      \* the comparators that use an estimation

IsBlind == graph.cmp \in {"bfs", "dfs"}

Init == EngineInit

Next ==
    \/ IsBlind /\ BlindNext
    \/ ~ IsBlind /\ HeuristicNext

Spec == Init /\ [][Next]_vars

(* The search is one thread that never waits for anything. *)
FairSpec == Spec /\ WF_vars(Next)
-----------------------------------------------------------------------------
Rank == CHOOSE r \in [States -> 1..Cardinality(States)] :
            /\ \A s, t \in States : r[s] = r[t] => s = t
            /\ r[InitState] = 1 /\ r[Goal] = Cardinality(States)

(* Edges in any direction; edges from a state to a later one in a fixed    *)
(* order, which is enough for two ways of different length to the goal;    *)
(* and those with the edges back to the initial state.                     *)
Pairs(S) == {e \in S \X S : e[1] # e[2]}
Onward(S) == {e \in S \X S : Rank[e[1]] < Rank[e[2]]}
Loop == {<<InitState, InitState, 1>>}
Returning(S) == Onward(S) \cup {<<s, InitState>> : s \in S \ {Goal}}

Cost(E, costs) == {<<e[1], e[2], n>> : e \in E, n \in costs}

OneCostEach(E) == \A e, f \in E : e[1] = f[1] /\ e[2] = f[2] => e = f

EdgeSets ==
    {E \in SUBSET (Cost(Pairs(Near), MCCosts) \cup Loop) : OneCostEach(E)}
    \cup SUBSET Cost(Pairs(Wide), {1})
    \cup SUBSET Cost(Onward(Ordered), {1})

BlindGraphs ==
    UNION {[edges : EdgeSets, goals : {s[2]}, h : {[t \in States |-> 0]}, cmp : {s[1]}] :
              s \in MCBlind}

(* Every estimation of the states other than the initial one. *)
GuidedGraphs ==
    [edges : SUBSET Cost(Returning(Guided), {1}),
     goals : {{Goal}, {}},
     h     : {[t \in States |-> IF t = InitState THEN 1
                                ELSE IF t \in Guided THEN f[t] ELSE 0] :
                  f \in [Guided \ {InitState} -> MCEst]},
     cmp   : MCCmp]

MCGraphs == BlindGraphs \cup GuidedGraphs

MCBoth == {<<"bfs", {}>>, <<"bfs", {Goal}>>, <<"dfs", {Goal}>>}
=============================================================================
