---------------------------- MODULE PlanningGraph ----------------------------
(***************************************************************************)
(* planning_graph_heuristic: the cost of the goal in the relaxed planning  *)
(* graph of a state.  A layer applies every transition available in the    *)
(* layer before it, once and without its deletes, and keeps for every      *)
(* variable the least cost it was reached at.  The graph grows until one   *)
(* layer after the goal holds, or until nothing changes: a dead end, for   *)
(* which the estimation is infinite.                                       *)
(***************************************************************************)
EXTENDS VarsetSystem, FiniteSets

CONSTANT Tasks  \* the tasks a planner may be given

ASSUME GraphAssumption ==
    /\ \A tk \in Tasks : IsTask(tk)
    /\ Precision \in Nat
    /\ Infinite \in Nat

(* Costs that many and that small never add up to the largest float: no    *)
(* layer makes a cost grow by more than one transition does.               *)
ASSUME CostAssumption ==
    /\ IsFiniteSet(Vars)
    /\ \E most \in 0..Infinite :
          /\ most * Cardinality(Vars) < Infinite
          /\ \A tk \in Tasks : \A i \in DOMAIN tk.transitions :
                TransitionCost(tk.transitions[i]) <= most

VARIABLES
    task,  \* the transition system and the goal
    layer  \* the locals of the estimation under way, and m_cache

graphVars == <<task, layer>>

Steps == DOMAIN task.transitions

LayerType ==
    [from     : VarState,         \* the state estimated
     bools    : SUBSET Vars,      \* current_state
     costs    : [Vars -> 0..Infinite],  \* m_cache.costs
     left     : SUBSET Steps,     \* m_cache.current_transitions
     mode     : {"Normal", "Tail", "Failed"},
     tail     : 0..1,             \* tail_size
     finished : BOOLEAN]

(* Before the first estimation. *)
NoLayer(s) ==
    [from |-> s, bools |-> s.bools, costs |-> [v \in Vars |-> 0], left |-> {},
     mode |-> "Normal", tail |-> 1, finished |-> TRUE]

FirstLayer(tk, s) ==
    [from     |-> s,
     bools    |-> s.bools,
     costs    |-> [v \in Vars |-> IF v \in s.bools THEN 0 ELSE Infinite],
     left     |-> DOMAIN tk.transitions,
     mode     |-> "Normal",
     tail     |-> 1,
     finished |-> FALSE]

Ready(tk, l) == {i \in l.left : Available(l.bools, tk.transitions[i])}

(* The variables a transition sets in the relaxed system. *)
Added(t) == ToRelaxed(t).effect.mask

(* Every variable of the condition counts, the negative ones too. *)
ConditionCost(costs, t) == GreatestFloat({costs[v] : v \in t.condition.mask})

GrownCosts(tk, l) ==
    LET Reached(i) == AddFloat(ConditionCost(l.costs, tk.transitions[i]),
                               TransitionCost(tk.transitions[i]))
        ready == Ready(tk, l)
    IN  [v \in Vars |->
            LeastFloat({l.costs[v]} \cup
                {Reached(i) : i \in {j \in ready : v \in Added(tk.transitions[j])}})]

GrownBools(tk, l) ==
    l.bools \cup UNION {Added(tk.transitions[i]) : i \in Ready(tk, l)}

(* Faulty variant: the transitions applied are kept and the others lost. *)
GrowLosesWaiting(tk, l) ==
    LET bools == GrownBools(tk, l)
        solved == IsSolved(bools, tk.goal)
        stuck == ~ solved /\ bools = l.bools
    IN  [l EXCEPT
            !.bools = bools,
            !.costs = GrownCosts(tk, l),
            !.left = Ready(tk, l),
            !.mode = IF @ # "Normal" THEN @
                     ELSE IF solved THEN "Tail"
                     ELSE IF stuck THEN "Failed" ELSE "Normal",
            !.tail = IF l.mode = "Tail" THEN @ - 1 ELSE @,
            !.finished = \/ l.mode = "Normal" /\ stuck
                         \/ l.mode = "Tail" /\ l.tail = 1]

(* One turn of the do loop. *)
Grow(tk, l) ==
    LET bools == GrownBools(tk, l)
        solved == IsSolved(bools, tk.goal)
        stuck == ~ solved /\ bools = l.bools
    IN  [l EXCEPT
            !.bools = bools,
            !.costs = GrownCosts(tk, l),
            !.left = @ \ Ready(tk, l),
            !.mode = IF @ # "Normal" THEN @
                     ELSE IF solved THEN "Tail"
                     ELSE IF stuck THEN "Failed" ELSE "Normal",
            !.tail = IF l.mode = "Tail" THEN @ - 1 ELSE @,
            !.finished = \/ l.mode = "Normal" /\ stuck
                         \/ l.mode = "Tail" /\ l.tail = 1]

(* Faulty variant: the tail layer is counted. *)
EstimationOfTail(tk, l) ==
    IF l.mode = "Failed" THEN Infinite
    ELSE GreatestFloat({l.costs[v] : v \in tk.goal.mask}) + 1

(* What the operator returns once the loop has ended. *)
Estimation(tk, l) ==
    IF l.mode = "Failed" THEN Infinite
    ELSE GreatestFloat({l.costs[v] : v \in tk.goal.mask})
-----------------------------------------------------------------------------
(* The call, as steps of the thread that makes it. *)
BeginEstimate(s) ==
    /\ layer.finished
    /\ layer' = FirstLayer(task, s)
    /\ UNCHANGED task

Unpriced == \E i \in Ready(task, layer) : CostThrows(task.transitions[i])

GrowLayer ==
    /\ ~ layer.finished
    /\ ~ Unpriced
    /\ layer' = Grow(task, layer)
    /\ UNCHANGED task

GraphInit ==
    /\ task \in Tasks
    /\ layer = NoLayer(task.initial)

GraphNext == GrowLayer \/ \E s \in VarState : BeginEstimate(s)

GraphSpec == GraphInit /\ [][GraphNext]_graphVars
-----------------------------------------------------------------------------
GraphTypeOK ==
    /\ IsTask(task)
    /\ layer \in LayerType

(* The conditions of the transitions are positive. *)
PositiveTask ==
    \A i \in Steps :
        task.transitions[i].condition.value = task.transitions[i].condition.mask

(* The states whose variables all occur in the layer. *)
Covered == {s \in VarState : s.bools \subseteq layer.bools}

(* A dead end is one: when the planning graph fails, the states its last   *)
(* layer covers hold the state estimated, no transition of the task leads  *)
(* out of them, and none of them is solved (planning_graph_heuristic.h).   *)
DeadEndIsClosed ==
    layer.mode = "Failed" /\ PositiveTask =>
        /\ layer.from \in Covered
        /\ \A s \in Covered :
              /\ ~ IsSolved(s.bools, task.goal)
              /\ \A i \in Steps :
                    Available(s.bools, task.transitions[i]) =>
                        Apply(s, task.transitions[i]) \in Covered
-----------------------------------------------------------------------------
(* The same call as a function of the state. *)
LayersOf(tk, s) ==
    LET l[n \in Nat] ==
            IF n = 0 THEN FirstLayer(tk, s)
            ELSE LET last == l[n - 1]
                 IN  IF last.finished THEN last ELSE Grow(tk, last)
    IN  l
=============================================================================
