-------------------------- MODULE StateSpaceSolver --------------------------
(***************************************************************************)
(* state_space_solver::select_engine as the planner runs it: A* or greedy  *)
(* best-first search over the states of a planning task, estimated by the  *)
(* planning graph, while a monitor thread watches the engine; then the     *)
(* plan is rebuilt from the path of states and the monitor is joined.      *)
(*                                                                         *)
(* The search is heuristic_engine of SerialEngine with the calls of the    *)
(* heuristic spelled out, and with what they throw.                        *)
(***************************************************************************)
EXTENDS QueuedEngine, PlanningGraph

CONSTANTS
    Problems,     \* the problems and algorithm names the planner is started with
    PrintCounter  \* print_counter: turns of the monitor between two prints

(* What the planner is started with: a problem and the argument "-a". *)
Request ==
    [ops : Seq(Operator), init : SUBSET Vars, goalPos : SUBSET Vars,
     goalNeg : SUBSET Vars, algorithm : {"A*", "GBFS", "other"}]

(* The search runs over the states of the tasks, and every problem starts  *)
(* from the same one: another would only change the names.                 *)
ASSUME SolverAssumption ==
    /\ States = VarState
    /\ Problems \subseteq Request
    /\ Tasks = {TaskOf(p) : p \in Problems}
    /\ \A p \in Problems : TaskOf(p).initial = InitState
    /\ PrintCounter \in Nat

VARIABLES
    problem,  \* the PDDL problem and the name of the algorithm
    main,     \* the thread that called solve
    monitor,  \* the monitor thread
    counter,  \* its countdown
    pending,  \* the edge whose target is being estimated, << >> for none
    plan      \* the operators of the plan, as far as it is rebuilt

ownVars == <<problem, main, monitor, counter, pending, plan>>

allVars == <<vars, graphVars, ownVars>>

(* The graph searched: transition_system_graph over the task.  A state has *)
(* an edge for every transition available in it.                           *)
Offered(tk, s) ==
    {i \in DOMAIN tk.transitions : /\ Available(s.bools, tk.transitions[i])
                                  /\ ~ CostThrows(tk.transitions[i])}

EdgesOf(tk) ==
    UNION {{<<s, Apply(s, tk.transitions[i]), TransitionCost(tk.transitions[i])>> :
                i \in Offered(tk, s)} : s \in VarState}

(* The most layers a graph can have: each but the last two adds a variable.*)
LastLayer == Cardinality(Vars) + 2

GraphOf(tk, cmp) ==
    [edges |-> EdgesOf(tk),
     goals |-> {s \in VarState : IsSolved(s.bools, tk.goal)},
     h     |-> [s \in VarState |-> Estimation(tk, LayersOf(tk, s)[LastLayer])],
     cmp   |-> cmp]

(* select_memory: the names it knows; "BA*" is the engine of BatchedEngine.*)
Engine == [name \in {"A*", "GBFS"} |-> IF name = "A*" THEN "astar" ELSE "gbfs"]

Known == problem.algorithm \in DOMAIN Engine
-----------------------------------------------------------------------------
(* select_memory gives up on a name it does not know; select_engine builds *)
(* the engine and starts the monitor.                                      *)
SelectMemory ==
    /\ main = "start"
    /\ IF Known
       THEN main' = "search" /\ monitor' = "loop" /\ counter' = PrintCounter
       ELSE main' = "returned" /\ UNCHANGED <<monitor, counter>>
    /\ UNCHANGED <<vars, graphVars, problem, pending, plan>>

Searching == main = "search" /\ pending = << >>

Estimating == main = "search" /\ pending # << >>

(* The first call of the heuristic, on the initial state. *)
EstimateRoot ==
    /\ Searching
    /\ phase = "init"
    /\ BeginEstimate(InitState)
    /\ pending' = <<InitState, InitState, 0>>
    /\ UNCHANGED <<vars, problem, main, monitor, counter, plan>>

EstimateLayer ==
    /\ Estimating
    /\ GrowLayer
    /\ UNCHANGED <<vars, ownVars>>

(* transition_cost throws out of the heuristic, and nobody catches it: the *)
(* monitor was not joined, and the process is terminated.                  *)
EstimateThrows ==
    /\ Estimating
    /\ ~ layer.finished
    /\ Unpriced
    /\ main' = "aborted"
    /\ UNCHANGED <<vars, graphVars, problem, monitor, counter, pending, plan>>

Estimated == Estimating /\ layer.finished

(* The two statements before the loop. *)
Start ==
    LET root == Node(InitState, 1, 0)
    IN  /\ Estimated
        /\ phase = "init"
        /\ phase' = "search"
        /\ CreateNode(root)
        /\ Enqueue(root, Priority(0, Estimation(task, layer)))
        /\ db' = {InitState}
        /\ pending' = << >>
        /\ UNCHANGED <<graph, cur, todo, walk, trail>>
        /\ UNCHANGED <<graphVars, problem, main, monitor, counter, plan>>

(* A successor met before is skipped; another enters the state set before  *)
(* the heuristic is asked about it.                                        *)
Skip(e) ==
    /\ Searching
    /\ phase = "search"
    /\ e[2] \in db
    /\ todo' = todo \ {e}
    /\ UNCHANGED <<graph, phase, log, db, queue, goalNodes, cur, walk, trail,
                   best, farest>>
    /\ UNCHANGED <<graphVars, ownVars>>

Visit(e) ==
    /\ Searching
    /\ phase = "search"
    /\ e[2] \notin db
    /\ db' = db \cup {e[2]}
    /\ BeginEstimate(e[2])
    /\ pending' = e
    /\ UNCHANGED <<graph, phase, log, queue, goalNodes, cur, todo, walk, trail,
                   best, farest>>
    /\ UNCHANGED <<problem, main, monitor, counter, plan>>

(* Faulty variant: a dead end is queued like any other state. *)
GenerateDeadEnds ==
    LET node == Node(pending[2], cur, log[cur].len + pending[3])
        est == Estimation(task, layer)
    IN  /\ Estimated
        /\ phase = "search"
        /\ todo' = todo \ {pending}
        /\ CreateNode(node)
        /\ Enqueue(node, Priority(node.len, est))
        /\ pending' = << >>
        /\ UNCHANGED <<graph, phase, db, cur, walk, trail>>
        /\ UNCHANGED <<graphVars, problem, main, monitor, counter, plan>>

(* The heuristic has answered: the successor is queued unless the answer   *)
(* was infinite.                                                           *)
Generate ==
    LET node == Node(pending[2], cur, log[cur].len + pending[3])
        est == Estimation(task, layer)
    IN  /\ Estimated
        /\ phase = "search"
        /\ todo' = todo \ {pending}
        /\ IF est = Infinite
           THEN UNCHANGED <<log, queue, goalNodes, best, farest>>
           ELSE /\ CreateNode(node)
                /\ Enqueue(node, Priority(node.len, est))
        /\ pending' = << >>
        /\ UNCHANGED <<graph, phase, db, cur, walk, trail>>
        /\ UNCHANGED <<graphVars, problem, main, monitor, counter, plan>>

(* The loop head and finalize, in which m_finished is set. *)
EngineStep ==
    /\ Searching
    /\ Dequeue \/ Finalize \/ BacktraceStep
    /\ UNCHANGED <<graphVars, ownVars>>

SearchReturns ==
    /\ Searching
    /\ phase = "done"
    /\ main' = IF Found THEN "plan" ELSE "join"
    /\ UNCHANGED <<vars, graphVars, problem, monitor, counter, pending, plan>>

(* Faulty variants: only the boolean parts are compared; only they are     *)
(* applied.                                                                *)
BetweenBools(s, t) ==
    {i \in Steps : /\ Available(s.bools, task.transitions[i])
                   /\ Apply(s, task.transitions[i]).bools = t.bools}

BetweenUncosted(s, t) ==
    {i \in Steps : /\ Available(s.bools, task.transitions[i])
                   /\ [Apply(s, task.transitions[i]) EXCEPT !.total = s.total] = t}

(* transition_system::difference: the transitions that lead from a state   *)
(* to another; the last of them is taken.                                  *)
Between(s, t) ==
    {i \in Steps : /\ Available(s.bools, task.transitions[i])
                   /\ Apply(s, task.transitions[i]) = t}

Difference(s, t) ==
    task.transitions[CHOOSE i \in Between(s, t) : \A j \in Between(s, t) : j <= i]

(* One turn of build_transition_path. *)
RebuildStep ==
    LET i == Len(plan) + 1
    IN  /\ main = "plan"
        /\ i < Len(trail)
        /\ IF Between(trail[i], trail[i + 1]) = {}
           THEN main' = "aborted" /\ UNCHANGED plan
           ELSE /\ plan' = Append(plan, Difference(trail[i], trail[i + 1]).name)
                /\ UNCHANGED main
        /\ UNCHANGED <<vars, graphVars, problem, monitor, counter, pending>>

(* The plan is printed, and stats.txt written. *)
PrintPlan ==
    /\ main = "plan"
    /\ Len(plan) + 1 = Len(trail)
    /\ main' = "join"
    /\ UNCHANGED <<vars, graphVars, problem, monitor, counter, pending, plan>>

(* Faulty variant: the monitor is detached. *)
JoinDetached ==
    /\ main = "join"
    /\ main' = "returned"
    /\ UNCHANGED <<vars, graphVars, problem, monitor, counter, pending, plan>>

(* monitor_thread.join(); then the engine is destroyed. *)
Join ==
    /\ main = "join"
    /\ monitor = "exited"
    /\ main' = "returned"
    /\ UNCHANGED <<vars, graphVars, problem, monitor, counter, pending, plan>>

SearchThread ==
    \/ SelectMemory
    \/ EstimateRoot
    \/ EstimateLayer
    \/ EstimateThrows
    \/ Start
    \/ \E e \in todo : Skip(e)
    \/ \E e \in todo : Visit(e)
    \/ Generate
    \/ EngineStep
    \/ SearchReturns
    \/ RebuildStep
    \/ PrintPlan
    \/ Join
-----------------------------------------------------------------------------
(* Faulty variant: m_finished is only set with a plan. *)
MonitorTurnOnPlan ==
    /\ main # "aborted"
    /\ monitor = "loop"
    /\ IF phase = "done" /\ Found
       THEN monitor' = "exited" /\ UNCHANGED counter
       ELSE IF counter = 0
            THEN monitor' = "stats" /\ counter' = PrintCounter
            ELSE counter' = counter - 1 /\ UNCHANGED monitor
    /\ UNCHANGED <<vars, graphVars, problem, main, pending, plan>>

(* One turn of monitoring_loop: m_finished is read, then the countdown;    *)
(* with the statistics read the turn ends in the next step.                *)
MonitorTurn ==
    /\ main # "aborted"
    /\ monitor = "loop"
    /\ IF phase = "done"
       THEN monitor' = "exited" /\ UNCHANGED counter
       ELSE IF counter = 0
            THEN monitor' = "stats" /\ counter' = PrintCounter
            ELSE counter' = counter - 1 /\ UNCHANGED monitor
    /\ UNCHANGED <<vars, graphVars, problem, main, pending, plan>>

(* get_stats reads the sizes of containers the search may be growing. *)
MonitorStats ==
    /\ main # "aborted"
    /\ monitor = "stats"
    /\ monitor' = "loop"
    /\ UNCHANGED <<vars, graphVars, problem, main, counter, pending, plan>>

MonitorThread == MonitorTurn \/ MonitorStats

(* solve has returned, or the process was terminated. *)
Ended ==
    /\ main \in {"returned", "aborted"}
    /\ UNCHANGED allVars

Init ==
    /\ problem \in Problems
    /\ task = TaskOf(problem)
    /\ layer = NoLayer(task.initial)
    /\ graph = GraphOf(task, IF Known THEN Engine[problem.algorithm] ELSE "astar")
    /\ EngineInit
    /\ main = "start"
    /\ monitor = "none"
    /\ counter = 0
    /\ pending = << >>
    /\ plan = << >>

Next == SearchThread \/ MonitorThread \/ Ended

Spec == Init /\ [][Next]_allVars

(* Both threads are scheduled; the search waits for nothing but the join,  *)
(* the monitor for nothing but its sleep.                                  *)
FairSpec == Spec /\ WF_allVars(SearchThread) /\ WF_allVars(MonitorThread)
-----------------------------------------------------------------------------
(***************************************************************************)
(* Properties.                                                             *)
(***************************************************************************)
(* The search with the heuristic called step by step is the search of      *)
(* heuristic_engine, in which a state is estimated and queued at once      *)
(* (serial_engine.h): what is shown of that engine holds of the planner.   *)
Search == INSTANCE SerialEngine
    WITH db <- IF pending = << >> THEN db ELSE db \ {pending[2]}

RefinesHeuristicEngine == Search!HeuristicSpec

Answered == main \in {"join", "returned"}

(* The plan printed is a plan of the PDDL problem: carried out from the    *)
(* initial state each operator applies and leads to the state found next,  *)
(* the last to the goal.  The operators are found again from the states,   *)
(* which came through hashing, the log and the parent links                *)
(* (transition_system.h, build_transition_path).                           *)
PlanIsValid ==
    Answered /\ Found /\ Kept(problem) =>
        /\ Len(trail) = Len(plan) + 1
        /\ trail[1].bools = problem.init
        /\ \A n \in 1..Len(plan) :
              /\ OpApplies(plan[n], trail[n].bools)
              /\ OpResult(plan[n], trail[n].bools) = trail[n + 1].bools
        /\ GoalHolds(problem, trail[Len(trail)].bools)

(* Every state in which the PDDL problem can be. *)
OpClosed(C) ==
    /\ problem.init \in C
    /\ \A b \in C : \A i \in DOMAIN problem.ops :
          OpApplies(problem.ops[i], b) => OpResult(problem.ops[i], b) \in C

(* "Solution not found!" is true: no sequence of operators leads to the    *)
(* goal.  The search drops every state the planning graph calls a dead end *)
(* (serial_engine.h:91), which is right when no condition is negative.     *)
NotFoundMeansNoPlan ==
    Answered /\ ~ Found /\ Known /\ Positive(problem) =>
        \E C \in SUBSET SUBSET Vars :
            OpClosed(C) /\ \A b \in C : ~ GoalHolds(problem, b)

(* Without action costs every priority is 0, the open list is one FIFO     *)
(* layer and both engines search breadth first: the plan has as few steps  *)
(* as any plan has.                                                        *)
ShortestWithoutCosts ==
    Positive(problem) /\ (\A e \in graph.edges : e[3] = 0) => PlanIsShortest

(* The cost of the first n operators of the plan. *)
CostOf[n \in Nat] ==
    IF n = 0 THEN 0 ELSE CostOf[n - 1] + TransitionCost(TransitionOf(plan[n]))

(* The cost printed with the plan is the cost of the plan printed, though  *)
(* the one is the length of the goal's node and the other is found again   *)
(* from the states: the total is part of the state, so that a transition   *)
(* of another cost leads elsewhere (as long as no cost was lost in it).    *)
CostIsOfPlan ==
    Answered /\ Found /\ Known /\ log[goalNodes[1]].len < Precision =>
        log[goalNodes[1]].len = CostOf[Len(plan)]

(* The states that n steps can lead to from s. *)
StepsFrom(s) ==
    LET f[n \in Nat] ==
            IF n = 0 THEN {s}
            ELSE LET near == f[n - 1]
                 IN  near \cup {e[2] : e \in {d \in graph.edges : d[1] \in near}}
    IN  f

(* The estimation never exceeds the cost of reaching a goal, when every    *)
(* transition has the same cost and no condition is negative: it takes at  *)
(* least as many steps as it says (planning_graph_heuristic.h, which ends  *)
(* one layer after the goal is reached and applies a transition once).     *)
EstimateIsLowerBound ==
    pending # << >> /\ layer.finished /\ Positive(problem) =>
        \A c \in 1..Precision :
            (\A i \in Steps : TransitionCost(task.transitions[i]) = c) =>
                LET est == Estimation(task, layer)
                IN  est # Infinite /\ est > 0 =>
                        StepsFrom(layer.from)[((est + c - 1) \div c) - 1]
                            \cap graph.goals = {}

(* The process is only terminated by a cost nobody can compute, and that   *)
(* of an operator of the task: the plan can always be rebuilt.             *)
AbortsOnlyUnpriced ==
    main = "aborted" =>
        \E i \in DOMAIN problem.ops : problem.ops[i].metric.kind = "assign"

(* The monitor never looks at an engine that is gone: solve returns after  *)
(* it has left its loop (state_space_solver.h:150).                        *)
EngineOutlivesMonitor ==
    monitor \in {"loop", "stats"} => main \in {"search", "plan", "join", "aborted"}

(* solve returns, or the process is terminated: the search ends, the       *)
(* estimations in it too, and the monitor sees that it has.                *)
SolveReturns == <>(main \in {"returned", "aborted"})

(* What solve answers true for is a state in which the goal holds, the     *)
(* literals to be false included (masked_bit_vector.h:50).                 *)
GoalIsMet ==
    Answered /\ Found =>
        EqualMasked(trail[Len(trail)].bools, task.goal.value, task.goal.mask)
=============================================================================
