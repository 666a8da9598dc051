----------------------- MODULE StateSpaceSolverProofs -----------------------
(***************************************************************************)
(* The planner for every set of variables and all problems.  What its      *)
(* planning graph calls a dead end is one; the plan it prints is one, and  *)
(* costs what its operators cost; without costs it is a shortest one, and  *)
(* the estimations are lower bounds; the planner is a run of the heuristic *)
(* engine; it is only terminated by a cost nobody can compute; and the     *)
(* monitor never outlives the engine.                                      *)
(***************************************************************************)
EXTENDS StateSpaceSolver, SerialEngineProofs, FiniteSetTheorems

-----------------------------------------------------------------------------
(* The transition system. *)

(* What a task gives a transition. *)
LEMMA TransitionParts ==
    ASSUME IsTask(task), NEW i \in Steps
    PROVE  /\ task.transitions[i].condition.value \subseteq Vars
           /\ task.transitions[i].condition.mask \subseteq Vars
           /\ task.transitions[i].effect.value \subseteq Vars
           /\ task.transitions[i].effect.mask \subseteq Vars
           /\ task.transitions[i].metric \in Metric
           /\ Added(task.transitions[i])
                = task.transitions[i].effect.value \cap task.transitions[i].effect.mask
<1>1. task.transitions[i] \in Transition
  BY DEF IsTask, Steps
<1>2. Added(task.transitions[i])
        = task.transitions[i].effect.value \cap task.transitions[i].effect.mask
  BY <1>1 DEF Added, ToRelaxed, Transition, MaskedVector
<1> QED
  BY <1>1, <1>2 DEF Transition, MaskedVector

(* With positive conditions what is available stays so when variables are  *)
(* added, and a transition adds no more than in the relaxed system.        *)
LEMMA RelaxedIsMore ==
    ASSUME NEW t, t.condition.value = t.condition.mask, NEW S, NEW T, S \subseteq T
    PROVE  Available(S, t) => Available(T, t)
BY DEF Available, EqualMasked

LEMMA SolvedStays ==
    ASSUME NEW goal \in MaskedVector, NEW S, NEW T, S \subseteq T
    PROVE  IsSolved(S, goal) => IsSolved(T, goal)
BY DEF IsSolved, EqualMasked, MaskedVector

LEMMA ApplyAdds ==
    ASSUME IsTask(task), NEW s \in VarState, NEW i \in Steps
    PROVE  /\ Apply(s, task.transitions[i]) \in VarState
           /\ Apply(s, task.transitions[i]).bools
                \subseteq s.bools \cup Added(task.transitions[i])
<1> DEFINE t == task.transitions[i]
<1>1. /\ t.effect.value \subseteq Vars /\ t.effect.mask \subseteq Vars
      /\ t.metric \in Metric /\ Added(t) = t.effect.value \cap t.effect.mask
  BY TransitionParts
<1> HIDE DEF t
<1>2. s.bools \subseteq Vars /\ s.total \in 0..Precision
  BY DEF VarState
<1>3. ApplyMetric(s.total, t.metric) \in 0..Precision
  BY <1>1, <1>2, GraphAssumption
     DEF ApplyMetric, LesserFloat, Metric, GraphAssumption
<1>4. SetMasked(s.bools, t.effect.value, t.effect.mask) \subseteq Vars
  BY <1>1, <1>2 DEF SetMasked
<1>5. Apply(s, t) \in VarState
  BY <1>3, <1>4 DEF Apply, VarState
<1>6. Apply(s, t).bools \subseteq s.bools \cup Added(t)
  BY <1>1 DEF Apply, SetMasked
<1> QED
  BY <1>5, <1>6 DEF t
-----------------------------------------------------------------------------
(* The costs. *)

(* std::max and std::min of a set of costs. *)
LEMMA GreatestCost ==
    ASSUME NEW top \in Nat, NEW S \in SUBSET (0..top)
    PROVE  GreatestFloat(S) \in 0..top
<1> DEFINE T == {top - x : x \in S \cup {0}}
<1>1. T \in SUBSET Nat /\ T # {}
  OBVIOUS
<1> HIDE DEF T
<1>2. PICK least \in T : \A y \in T : least <= y
  BY <1>1, LeastElement
<1>3. PICK x \in S \cup {0} : least = top - x
  BY <1>2 DEF T
<1>4. ASSUME NEW y \in S \cup {0} PROVE y <= x
  <2>1. top - y \in T
    BY DEF T
  <2>2. top - x <= top - y
    BY <2>1, <1>2, <1>3
  <2> QED
    BY <2>2
<1>5. \E z \in S \cup {0} : \A y \in S \cup {0} : y <= z
  BY <1>4
<1>6. GreatestFloat(S) \in S \cup {0}
  BY <1>5 DEF GreatestFloat
<1>7. S \cup {0} \subseteq 0..top
  OBVIOUS
<1> QED
  BY <1>6, <1>7, Zenon

LEMMA LeastCost ==
    ASSUME NEW top \in Nat, NEW x \in 0..top, NEW S \in SUBSET Nat
    PROVE  LeastFloat({x} \cup S) \in 0..top
<1> DEFINE T == {x} \cup S
<1>0. T \in SUBSET Nat /\ T # {}
  OBVIOUS
<1> HIDE DEF T
<1>1. \E z \in T : \A y \in T : z <= y
  BY <1>0, LeastElement
<1>2. LeastFloat(T) \in T /\ \A y \in T : LeastFloat(T) <= y
  BY <1>1 DEF LeastFloat
<1>3. x \in T /\ LeastFloat(T) \in Nat /\ LeastFloat(T) <= x
  BY <1>0, <1>2 DEF T
<1> QED
  BY <1>3 DEF T

(* A cost only falls, and none is more than infinite.                      *)
LEMMA GrownCostsType ==
    ASSUME IsTask(task), NEW l, l.left \subseteq Steps, l.costs \in [Vars -> 0..Infinite]
    PROVE  GrownCosts(task, l) \in [Vars -> 0..Infinite]
<1> DEFINE cond(i) == ConditionCost(l.costs, task.transitions[i])
           reached(i) == AddFloat(cond(i), TransitionCost(task.transitions[i]))
           late(v) == {reached(i) : i \in {j \in Ready(task, l) :
                                             v \in Added(task.transitions[j])}}
<1>1. Infinite \in Nat
  BY GraphAssumption DEF GraphAssumption
<1>2. ASSUME NEW i \in Steps PROVE reached(i) \in Nat
  <2>1. {l.costs[v] : v \in task.transitions[i].condition.mask} \in SUBSET (0..Infinite)
    BY <1>1, TransitionParts
  <2>2. cond(i) \in 0..Infinite
    BY <2>1, <1>1, GreatestCost DEF ConditionCost
  <2>3. TransitionCost(task.transitions[i]) \in Nat
    BY <1>1, TransitionParts DEF TransitionCost, Metric
  <2> QED
    BY <2>2, <2>3, <1>1 DEF AddFloat
<1>3. ASSUME NEW v \in Vars
      PROVE  LeastFloat({l.costs[v]} \cup late(v)) \in 0..Infinite
  <2>1. late(v) \in SUBSET Nat
    BY <1>1, <1>2 DEF Ready
  <2> HIDE DEF late
  <2> QED
    BY <2>1, <1>1, LeastCost
<1> QED
  BY <1>3 DEF GrownCosts
-----------------------------------------------------------------------------
(* The graph. *)

(* While the graph grows, and when it has failed, a transition waits or    *)
(* what it adds is there.                                                  *)
NoneIsLost ==
    ~ layer.finished \/ layer.mode = "Failed" =>
        \A i \in Steps :
            i \in layer.left \/ Added(task.transitions[i]) \subseteq layer.bools

(* When it has failed none of those that wait is available.                *)
FailedForGood ==
    layer.mode = "Failed" =>
        /\ layer.finished
        /\ ~ IsSolved(layer.bools, task.goal)
        /\ \A i \in layer.left : ~ Available(layer.bools, task.transitions[i])

GraphInv ==
    /\ GraphTypeOK
    /\ layer.from.bools \subseteq layer.bools
    /\ ~ layer.finished => layer.tail = 1
    /\ NoneIsLost
    /\ FailedForGood

LEMMA GraphInitInv == GraphInit => GraphInv
<1> SUFFICES ASSUME GraphInit PROVE GraphInv
  OBVIOUS
<1>1. IsTask(task) /\ task.initial \in VarState
  BY GraphAssumption DEF GraphInit, GraphAssumption, IsTask
<1>2. /\ layer = NoLayer(task.initial) /\ layer.mode = "Normal" /\ layer.finished
      /\ layer.from.bools = layer.bools
  BY DEF GraphInit, NoLayer
<1>3. layer \in LayerType
  BY <1>1, <1>2, GraphAssumption DEF NoLayer, LayerType, VarState, GraphAssumption
<1> QED
  BY <1>1, <1>2, <1>3 DEF GraphInv, GraphTypeOK, NoneIsLost, FailedForGood

LEMMA BeginKeeps ==
    ASSUME GraphInv, NEW s \in VarState, BeginEstimate(s)
    PROVE  GraphInv'
<1>1. IsTask(task)' /\ task' = task /\ Steps' = Steps
  BY DEF GraphInv, GraphTypeOK, BeginEstimate, IsTask, Steps
<1>2. /\ layer' = FirstLayer(task, s) /\ layer'.mode = "Normal" /\ layer'.left = Steps
      /\ layer'.tail = 1 /\ layer'.from = s /\ layer'.bools = s.bools
  BY DEF BeginEstimate, FirstLayer, Steps
<1>3. layer' \in LayerType'
  BY <1>1, <1>2, GraphAssumption
     DEF FirstLayer, LayerType, VarState, GraphAssumption, Steps
<1> QED
  BY <1>1, <1>2, <1>3 DEF GraphInv, GraphTypeOK, NoneIsLost, FailedForGood

LEMMA GrowKeeps ==
    ASSUME GraphInv, GrowLayer
    PROVE  GraphInv'
<1> DEFINE ready == Ready(task, layer)
           bools == GrownBools(task, layer)
           solved == IsSolved(bools, task.goal)
           stuck == ~ solved /\ bools = layer.bools
<1>0. /\ IsTask(task) /\ layer \in LayerType /\ ~ layer.finished
      /\ layer.mode \in {"Normal", "Tail"}
  BY DEF GraphInv, GraphTypeOK, FailedForGood, GrowLayer, LayerType
<1>1. IsTask(task)' /\ task' = task /\ Steps' = Steps
  BY <1>0 DEF GrowLayer, IsTask, Steps
<1>2. /\ layer'.from = layer.from
      /\ layer'.bools = bools
      /\ layer'.costs = GrownCosts(task, layer)
      /\ layer'.left = layer.left \ ready
      /\ layer'.mode = IF layer.mode # "Normal" THEN layer.mode
                       ELSE IF solved THEN "Tail"
                       ELSE IF stuck THEN "Failed" ELSE "Normal"
      /\ layer'.tail = IF layer.mode = "Tail" THEN layer.tail - 1 ELSE layer.tail
      /\ layer'.finished = (\/ layer.mode = "Normal" /\ stuck
                            \/ layer.mode = "Tail" /\ layer.tail = 1)
  BY <1>0 DEF GrowLayer, Grow, LayerType
<1>3. /\ layer.bools \subseteq bools /\ bools \subseteq Vars
      /\ \A i \in ready : Added(task.transitions[i]) \subseteq bools
  BY <1>0, TransitionParts DEF GrownBools, Ready, LayerType
<1> HIDE DEF ready, bools, solved, stuck
<1>4. layer' \in LayerType'
  <2>1. layer'.costs \in [Vars -> 0..Infinite]
    BY <1>0, <1>2, GrownCostsType DEF LayerType
  <2>2. /\ layer'.mode \in {"Normal", "Tail", "Failed"} /\ layer'.tail \in 0..1
        /\ layer'.finished \in BOOLEAN /\ layer'.left \subseteq Steps
    <3>1. layer.tail = 1
      BY <1>0 DEF GraphInv
    <3> QED
      BY <1>0, <1>2, <3>1 DEF LayerType
  <2> QED
    BY <1>0, <1>1, <1>2, <1>3, <2>1, <2>2 DEF LayerType, GrowLayer, Grow
<1>5. NoneIsLost'
  BY <1>0, <1>1, <1>2, <1>3 DEF NoneIsLost, GraphInv, LayerType
<1>6. FailedForGood'
  <2> SUFFICES ASSUME layer'.mode = "Failed" PROVE FailedForGood'
    BY DEF FailedForGood
  <2>1. layer.mode = "Normal" /\ stuck /\ ~ solved /\ layer'.bools = layer.bools
    BY <1>0, <1>2 DEF stuck
  <2>2. \A i \in layer'.left : ~ Available(layer.bools, task.transitions[i])
    BY <1>2 DEF ready, Ready
  <2> QED
    BY <2>1, <2>2, <1>1, <1>2 DEF FailedForGood, solved, stuck
<1> QED
  BY <1>0, <1>1, <1>2, <1>3, <1>4, <1>5, <1>6 DEF GraphInv, GraphTypeOK

LEMMA GraphStep == GraphInv /\ [GraphNext]_graphVars => GraphInv'
<1> SUFFICES ASSUME GraphInv, [GraphNext]_graphVars PROVE GraphInv'
  OBVIOUS
<1>1. CASE GrowLayer
  BY <1>1, GrowKeeps
<1>2. CASE \E s \in VarState : BeginEstimate(s)
  BY <1>2, BeginKeeps
<1>3. CASE UNCHANGED graphVars
  BY <1>3 DEF graphVars, GraphInv, GraphTypeOK, IsTask, LayerType, Steps, NoneIsLost,
              FailedForGood
<1> QED
  BY <1>1, <1>2, <1>3 DEF GraphNext

THEOREM GraphInvariant == GraphSpec => []GraphInv
BY GraphInitInv, GraphStep, PTL DEF GraphSpec

(* The locals of an estimation keep their types; in particular no cost     *)
(* exceeds the infinite one (planning_graph_heuristic.h, operator()).      *)
THEOREM GraphTypes == GraphSpec => []GraphTypeOK
BY GraphInvariant, PTL DEF GraphInv

LEMMA FailedIsClosed == GraphInv => DeadEndIsClosed
<1> SUFFICES ASSUME GraphInv, layer.mode = "Failed", PositiveTask
             PROVE  /\ layer.from \in Covered
                    /\ \A s \in Covered :
                          /\ ~ IsSolved(s.bools, task.goal)
                          /\ \A i \in Steps :
                                Available(s.bools, task.transitions[i]) =>
                                    Apply(s, task.transitions[i]) \in Covered
  BY DEF DeadEndIsClosed
<1>1. /\ IsTask(task) /\ task.goal \in MaskedVector
      /\ layer.from \in VarState /\ layer.from.bools \subseteq layer.bools
      /\ ~ IsSolved(layer.bools, task.goal)
      /\ \A i \in layer.left : ~ Available(layer.bools, task.transitions[i])
      /\ \A i \in Steps :
            i \in layer.left \/ Added(task.transitions[i]) \subseteq layer.bools
  BY DEF GraphInv, GraphTypeOK, IsTask, LayerType, FailedForGood, NoneIsLost
<1>2. ASSUME NEW s \in Covered PROVE ~ IsSolved(s.bools, task.goal)
  BY <1>1, SolvedStays DEF Covered
<1>3. ASSUME NEW s \in Covered, NEW i \in Steps, Available(s.bools, task.transitions[i])
      PROVE  Apply(s, task.transitions[i]) \in Covered
  <2>1. Available(layer.bools, task.transitions[i])
    BY <1>3, RelaxedIsMore DEF PositiveTask, Covered
  <2>2. Added(task.transitions[i]) \subseteq layer.bools
    BY <2>1, <1>1
  <2>3. s \in VarState /\ s.bools \subseteq layer.bools
    BY DEF Covered
  <2> QED
    BY <2>2, <2>3, <1>1, ApplyAdds DEF Covered
<1> QED
  BY <1>1, <1>2, <1>3 DEF Covered

(* What the planning graph calls a dead end is one, when no condition is   *)
(* negative: no state reached from there is solved.                        *)
THEOREM DeadEndsAreClosed == GraphSpec => []DeadEndIsClosed
BY GraphInvariant, FailedIsClosed, PTL
-----------------------------------------------------------------------------
(* The estimation that is infinite. *)

(* A number that no cost of a transition exceeds, small enough.            *)
MostCost ==
    CHOOSE most \in 0..Infinite :
        /\ most * Cardinality(Vars) < Infinite
        /\ \A tk \in Tasks : \A i \in DOMAIN tk.transitions :
              TransitionCost(tk.transitions[i]) <= most

CostBound(S) == MostCost * Cardinality(S)

(* What is reached has a cost that the costs of as many transitions add up *)
(* to as there are variables reached.                                      *)
CostsAreBounded == \A v \in layer.bools : layer.costs[v] <= CostBound(layer.bools)

(* A transition the state estimated allows is applied in the first layer,  *)
(* where its cost was asked for.                                           *)
Fresh == layer.mode = "Normal" /\ layer.finished

CostsAreAsked ==
    \A i \in Steps :
        Available(layer.from.bools, task.transitions[i]) =>
            /\ ~ Fresh => \/ i \in layer.left /\ layer.bools = layer.from.bools
                          \/ i \notin layer.left /\ ~ CostThrows(task.transitions[i])
            /\ layer.finished => i \notin layer.left

EstimateInv ==
    /\ task \in Tasks
    /\ layer.mode = "Tail" => IsSolved(layer.bools, task.goal)
    /\ CostsAreAsked
    /\ PositiveTask => CostsAreBounded

LEMMA MostCostIsMost ==
    /\ MostCost \in Nat /\ MostCost * Cardinality(Vars) < Infinite
    /\ \A tk \in Tasks : \A i \in DOMAIN tk.transitions :
          TransitionCost(tk.transitions[i]) <= MostCost
<1>1. \E most \in 0..Infinite :
          /\ most * Cardinality(Vars) < Infinite
          /\ \A tk \in Tasks : \A i \in DOMAIN tk.transitions :
                TransitionCost(tk.transitions[i]) <= most
  BY CostAssumption DEF CostAssumption
<1>2. MostCost \in 0..Infinite /\ MostCost * Cardinality(Vars) < Infinite
      /\ \A tk \in Tasks : \A i \in DOMAIN tk.transitions :
            TransitionCost(tk.transitions[i]) <= MostCost
  BY <1>1, Zenon DEF MostCost
<1> QED
  BY <1>2, GraphAssumption DEF GraphAssumption

LEMMA TimesMore ==
    ASSUME NEW m \in Nat, NEW x \in Nat, NEW y \in Nat
    PROVE  /\ m * x \in Nat
           /\ x < y => m * x + m <= m * y
           /\ x <= y => m * x <= m * y
<1>1. m * x \in Nat /\ m * y \in Nat
  OBVIOUS
<1>2. ASSUME x < y PROVE m * x + m <= m * y
  <2>1. PICK k \in Nat : y = x + 1 + k
    <3>1. y - x - 1 \in Nat /\ y = x + 1 + (y - x - 1)
      BY <1>2
    <3> QED
      BY <3>1
  <2>2. m * y = m * x + m + m * k /\ m * k \in Nat
    BY <2>1
  <2> QED
    BY <2>2, <1>1
<1>3. x <= y => m * x <= m * y
  BY <1>1, <1>2
<1> QED
  BY <1>1, <1>2, <1>3

(* The bound grows with the layer and stays below the infinite cost.       *)
LEMMA BoundGrows ==
    ASSUME NEW S \in SUBSET Vars, NEW T \in SUBSET Vars, S \subseteq T
    PROVE  /\ CostBound(S) \in Nat /\ CostBound(S) <= CostBound(T)
           /\ CostBound(S) < Infinite
           /\ S # T => CostBound(S) + MostCost <= CostBound(T)
<1>1. /\ IsFiniteSet(Vars) /\ Infinite \in Nat /\ MostCost \in Nat
      /\ MostCost * Cardinality(Vars) < Infinite
  BY CostAssumption, GraphAssumption, MostCostIsMost DEF CostAssumption, GraphAssumption
<1>2. IsFiniteSet(T) /\ Cardinality(T) <= Cardinality(Vars)
  BY <1>1, FS_Subset
<1>3. IsFiniteSet(S) /\ Cardinality(S) <= Cardinality(T)
      /\ (Cardinality(T) = Cardinality(S) => T = S)
  BY <1>2, FS_Subset
<1>4. Cardinality(S) \in Nat /\ Cardinality(T) \in Nat /\ Cardinality(Vars) \in Nat
  BY <1>1, <1>2, <1>3, FS_CardinalityType
<1>5. CostBound(S) \in Nat /\ CostBound(S) <= CostBound(T)
  BY <1>1, <1>3, <1>4, TimesMore DEF CostBound
<1>6. S # T => CostBound(S) + MostCost <= CostBound(T)
  <2>1. S # T => Cardinality(S) < Cardinality(T)
    BY <1>3, <1>4
  <2> QED
    BY <2>1, <1>1, <1>4, TimesMore DEF CostBound
<1>7. CostBound(S) < Infinite
  <2>1. Cardinality(S) <= Cardinality(Vars)
    BY <1>2, <1>3, <1>4
  <2>2. MostCost * Cardinality(S) <= MostCost * Cardinality(Vars)
    BY <2>1, <1>1, <1>4, TimesMore
  <2>3. MostCost * Cardinality(S) \in Nat /\ MostCost * Cardinality(Vars) \in Nat
    BY <1>1, <1>4, TimesMore
  <2> QED
    BY <2>2, <2>3, <1>1 DEF CostBound
<1> QED
  BY <1>5, <1>6, <1>7

(* std::min is one of the costs, and none is less.                         *)
LEMMA LeastIsLeast ==
    ASSUME NEW S \in SUBSET Nat, NEW x \in S
    PROVE  LeastFloat(S) \in S /\ LeastFloat(S) <= x
<1>1. \E z \in S : \A y \in S : z <= y
  BY LeastElement
<1> QED
  BY <1>1 DEF LeastFloat

(* A transition applied costs no more than the layer it is applied in, and *)
(* once more the greatest cost.                                            *)
LEMMA ReachedIsBounded ==
    ASSUME GraphTypeOK, task \in Tasks, PositiveTask, CostsAreBounded, Vars # {},
           NEW i \in Ready(task, layer)
    PROVE  AddFloat(ConditionCost(layer.costs, task.transitions[i]),
                    TransitionCost(task.transitions[i]))
             <= CostBound(layer.bools) + MostCost
<1> DEFINE t == task.transitions[i]
           costs == {layer.costs[v] : v \in t.condition.mask}
<1>1. /\ IsTask(task) /\ i \in Steps /\ i \in DOMAIN task.transitions
      /\ Available(layer.bools, t)
      /\ layer.bools \subseteq Vars /\ layer.costs \in [Vars -> 0..Infinite]
  BY DEF GraphTypeOK, LayerType, Ready, Steps
<1>2. t.condition.mask \subseteq layer.bools
  BY <1>1 DEF PositiveTask, Available, EqualMasked
<1>3. CostBound(layer.bools) \in Nat /\ CostBound(layer.bools) < Infinite
  BY <1>1, BoundGrows
<1>4. Infinite \in Nat /\ MostCost \in Nat /\ TransitionCost(t) <= MostCost
  BY <1>1, MostCostIsMost, GraphAssumption DEF GraphAssumption
<1>5. TransitionCost(t) \in Nat
  BY <1>1, TransitionParts DEF TransitionCost, Metric
<1>6. costs \in SUBSET (0..CostBound(layer.bools))
  <2>1. ASSUME NEW v \in t.condition.mask
        PROVE  layer.costs[v] \in 0..CostBound(layer.bools)
    <3>1. v \in layer.bools /\ layer.costs[v] \in 0..Infinite
      BY <1>1, <1>2
    <3>2. layer.costs[v] <= CostBound(layer.bools)
      BY <3>1 DEF CostsAreBounded
    <3> QED
      BY <3>1, <3>2, <1>3, <1>4
  <2> QED
    BY <2>1
<1> HIDE DEF t, costs
<1>7. GreatestFloat(costs) \in 0..CostBound(layer.bools)
  BY <1>3, <1>6, GreatestCost
<1>8. TransitionCost(t) # Infinite
  <2>1. MostCost <= CostBound(Vars) /\ CostBound(Vars) < Infinite
    <3>1. /\ CostBound({}) \in Nat /\ CostBound(Vars) \in Nat
          /\ CostBound({}) + MostCost <= CostBound(Vars) /\ CostBound(Vars) < Infinite
      BY BoundGrows
    <3> QED
      BY <3>1, <1>4
  <2> QED
    BY <2>1, <1>4, <1>5, BoundGrows
<1>9. ConditionCost(layer.costs, t) = GreatestFloat(costs)
  BY DEF ConditionCost, costs
<1>10. AddFloat(ConditionCost(layer.costs, t), TransitionCost(t))
         = GreatestFloat(costs) + TransitionCost(t)
  BY <1>3, <1>4, <1>7, <1>8, <1>9 DEF AddFloat
<1>11. GreatestFloat(costs) + TransitionCost(t) <= CostBound(layer.bools) + MostCost
  BY <1>3, <1>4, <1>5, <1>7
<1> QED
  BY <1>10, <1>11 DEF t

(* What a layer keeps for a variable is no more than before, and no more   *)
(* than what any transition applied reaches it at.                         *)
LEMMA GrownIsLeast ==
    ASSUME GraphTypeOK, NEW v \in Vars
    PROVE  /\ GrownCosts(task, layer)[v] \in Nat
           /\ GrownCosts(task, layer)[v] <= layer.costs[v]
           /\ \A i \in Ready(task, layer) :
                 LET reached == AddFloat(ConditionCost(layer.costs, task.transitions[i]),
                                         TransitionCost(task.transitions[i]))
                 IN  /\ reached \in Nat
                     /\ v \in Added(task.transitions[i]) =>
                            GrownCosts(task, layer)[v] <= reached
<1> DEFINE reached(i) == AddFloat(ConditionCost(layer.costs, task.transitions[i]),
                                  TransitionCost(task.transitions[i]))
           late == {reached(i) : i \in {j \in Ready(task, layer) :
                                          v \in Added(task.transitions[j])}}
<1>1. /\ IsTask(task) /\ layer.left \subseteq Steps
      /\ layer.costs \in [Vars -> 0..Infinite] /\ Infinite \in Nat
  BY GraphAssumption DEF GraphTypeOK, LayerType, GraphAssumption
<1>2. ASSUME NEW i \in Ready(task, layer) PROVE reached(i) \in Nat
  <2>1. i \in Steps
    BY <1>1 DEF Ready
  <2>2. {layer.costs[w] : w \in task.transitions[i].condition.mask} \in SUBSET (0..Infinite)
    BY <2>1, <1>1, TransitionParts
  <2>3. ConditionCost(layer.costs, task.transitions[i]) \in 0..Infinite
    BY <2>2, <1>1, GreatestCost DEF ConditionCost
  <2>4. TransitionCost(task.transitions[i]) \in Nat
    BY <2>1, <1>1, TransitionParts DEF TransitionCost, Metric
  <2> QED
    BY <2>3, <2>4, <1>1 DEF AddFloat
<1>3. late \in SUBSET Nat
  BY <1>2
<1>4. GrownCosts(task, layer)[v] = LeastFloat({layer.costs[v]} \cup late)
  BY DEF GrownCosts
<1>5. ASSUME NEW i \in Ready(task, layer), v \in Added(task.transitions[i])
      PROVE  reached(i) \in late
  BY <1>5
<1> HIDE DEF late
<1>6. {layer.costs[v]} \cup late \in SUBSET Nat
  BY <1>1, <1>3
<1>7. \A x \in {layer.costs[v]} \cup late :
          /\ LeastFloat({layer.costs[v]} \cup late) \in {layer.costs[v]} \cup late
          /\ LeastFloat({layer.costs[v]} \cup late) <= x
  BY <1>6, LeastIsLeast
<1> QED
  BY <1>2, <1>4, <1>5, <1>6, <1>7

LEMMA GrownIsBounded ==
    ASSUME GraphTypeOK, task \in Tasks, PositiveTask, CostsAreBounded,
           NEW v \in GrownBools(task, layer)
    PROVE  GrownCosts(task, layer)[v] <= CostBound(GrownBools(task, layer))
<1> DEFINE bools == GrownBools(task, layer)
<1>1. /\ IsTask(task) /\ layer.bools \subseteq Vars /\ layer.left \subseteq Steps
      /\ layer.costs \in [Vars -> 0..Infinite] /\ Infinite \in Nat /\ MostCost \in Nat
  BY GraphAssumption, MostCostIsMost DEF GraphTypeOK, LayerType, GraphAssumption
<1>2. /\ layer.bools \subseteq bools /\ bools \subseteq Vars
      /\ v \notin layer.bools =>
            \E i \in Ready(task, layer) : v \in Added(task.transitions[i])
  BY <1>1, TransitionParts DEF GrownBools, Ready
<1>3. v \in Vars /\ Vars # {} /\ layer.costs[v] \in Nat
  BY <1>1, <1>2
<1>4. /\ CostBound(layer.bools) \in Nat /\ CostBound(bools) \in Nat
      /\ CostBound(layer.bools) <= CostBound(bools)
      /\ layer.bools # bools => CostBound(layer.bools) + MostCost <= CostBound(bools)
  BY <1>1, <1>2, BoundGrows
<1> HIDE DEF bools
<1>5. /\ GrownCosts(task, layer)[v] \in Nat
      /\ GrownCosts(task, layer)[v] <= layer.costs[v]
  BY <1>3, GrownIsLeast
<1>6. CASE v \in layer.bools
  <2>1. layer.costs[v] <= CostBound(layer.bools)
    BY <1>6 DEF CostsAreBounded
  <2> QED
    BY <2>1, <1>3, <1>4, <1>5 DEF bools
<1>7. CASE v \notin layer.bools
  <2>1. PICK i \in Ready(task, layer) : v \in Added(task.transitions[i])
    BY <1>2, <1>7
  <2> DEFINE reached == AddFloat(ConditionCost(layer.costs, task.transitions[i]),
                                 TransitionCost(task.transitions[i]))
  <2>2. reached \in Nat /\ GrownCosts(task, layer)[v] <= reached
    BY <2>1, <1>3, GrownIsLeast
  <2>3. reached <= CostBound(layer.bools) + MostCost
    BY <1>3, ReachedIsBounded
  <2>4. layer.bools # bools
    BY <1>7 DEF bools
  <2> HIDE DEF reached
  <2> QED
    BY <2>2, <2>3, <2>4, <1>1, <1>4, <1>5 DEF bools
<1> QED
  BY <1>6, <1>7

LEMMA EstimateInit == GraphInit => EstimateInv
<1> SUFFICES ASSUME GraphInit PROVE EstimateInv
  OBVIOUS
<1>1. /\ task \in Tasks /\ IsTask(task) /\ task.initial.bools \subseteq Vars
      /\ layer = NoLayer(task.initial)
  BY GraphAssumption DEF GraphInit, GraphAssumption, IsTask, VarState
<1>2. /\ layer.mode = "Normal" /\ layer.finished /\ layer.left = {}
      /\ layer.bools = task.initial.bools
      /\ \A v \in Vars : layer.costs[v] = 0
  BY <1>1 DEF NoLayer
<1>3. CostsAreBounded
  BY <1>1, <1>2, BoundGrows DEF CostsAreBounded
<1> QED
  BY <1>1, <1>2, <1>3 DEF EstimateInv, CostsAreAsked, Fresh

LEMMA BeginEstimates ==
    ASSUME GraphInv, EstimateInv, NEW s \in VarState, BeginEstimate(s)
    PROVE  EstimateInv'
<1>1. /\ task' = task /\ layer' = FirstLayer(task, s) /\ s.bools \subseteq Vars
  BY DEF BeginEstimate, VarState
<1>2. /\ layer'.mode = "Normal" /\ ~ layer'.finished /\ layer'.left = Steps
      /\ layer'.bools = s.bools /\ layer'.from = s
      /\ \A v \in s.bools : layer'.costs[v] = 0
  BY <1>1 DEF FirstLayer, Steps
<1>3. CostsAreBounded'
  BY <1>1, <1>2, BoundGrows DEF CostsAreBounded
<1>4. CostsAreAsked'
  <2>1. Steps' = Steps /\ layer'.bools = layer'.from.bools /\ ~ layer'.finished
    BY <1>1, <1>2 DEF Steps
  <2> QED
    BY <2>1, <1>2 DEF CostsAreAsked
<1> QED
  BY <1>1, <1>2, <1>3, <1>4 DEF EstimateInv

LEMMA GrowEstimates ==
    ASSUME GraphInv, EstimateInv, GrowLayer
    PROVE  EstimateInv'
<1> DEFINE bools == GrownBools(task, layer)
<1>0. /\ IsTask(task) /\ layer \in LayerType /\ ~ layer.finished
      /\ layer.mode \in {"Normal", "Tail"} /\ GraphTypeOK
  BY DEF GraphInv, GraphTypeOK, FailedForGood, GrowLayer, LayerType
<1>1. /\ task' = task /\ layer' = Grow(task, layer) /\ ~ Unpriced
  BY DEF GrowLayer
<1>2. /\ layer'.from = layer.from
      /\ layer'.bools = bools
      /\ layer'.costs = GrownCosts(task, layer)
      /\ layer'.left = layer.left \ Ready(task, layer)
      /\ layer'.mode = IF layer.mode # "Normal" THEN layer.mode
                       ELSE IF IsSolved(bools, task.goal) THEN "Tail"
                       ELSE IF bools = layer.bools THEN "Failed" ELSE "Normal"
      /\ layer'.finished = (\/ /\ layer.mode = "Normal"
                               /\ ~ IsSolved(bools, task.goal) /\ bools = layer.bools
                            \/ layer.mode = "Tail" /\ layer.tail = 1)
  BY <1>0, <1>1 DEF Grow, LayerType
<1>3. layer.bools \subseteq bools /\ layer.from.bools \subseteq layer.bools
  BY DEF GrownBools, GraphInv
<1> HIDE DEF bools
<1>4. layer'.mode = "Tail" => IsSolved(layer'.bools, task.goal)
  <2>1. CASE layer.mode = "Tail"
    <3>1. IsSolved(layer.bools, task.goal) /\ task.goal \in MaskedVector
      BY <2>1, <1>0 DEF EstimateInv, IsTask
    <3> QED
      BY <3>1, <1>2, <1>3, SolvedStays
  <2>2. CASE layer.mode = "Normal"
    BY <2>2, <1>2
  <2> QED
    BY <2>1, <2>2, <1>0
<1>5. ASSUME PositiveTask PROVE CostsAreBounded'
  <2>1. CostsAreBounded /\ task \in Tasks
    BY <1>5 DEF EstimateInv
  <2>2. \A v \in GrownBools(task, layer) :
            GrownCosts(task, layer)[v] <= CostBound(GrownBools(task, layer))
    BY <2>1, <1>0, <1>5, GrownIsBounded
  <2> QED
    BY <2>2, <1>2 DEF CostsAreBounded, bools, CostBound, MostCost
<1>6. CostsAreAsked'
  <2>1. CostsAreAsked /\ ~ Fresh
    BY <1>0 DEF EstimateInv, Fresh
  <2>2. ASSUME NEW i \in Steps, Available(layer.from.bools, task.transitions[i])
        PROVE  i \notin layer'.left /\ ~ CostThrows(task.transitions[i])
    <3>1. CASE i \in layer.left
      <4>1. Available(layer.bools, task.transitions[i])
        BY <2>1, <2>2, <3>1 DEF CostsAreAsked
      <4>2. i \in Ready(task, layer)
        BY <3>1, <4>1 DEF Ready
      <4> QED
        BY <4>2, <1>1, <1>2 DEF Unpriced
    <3>2. CASE i \notin layer.left
      BY <3>2, <2>1, <2>2, <1>2 DEF CostsAreAsked
    <3> QED
      BY <3>1, <3>2
  <2> QED
    BY <2>2, <1>1, <1>2 DEF CostsAreAsked, Steps
<1> QED
  BY <1>1, <1>4, <1>5, <1>6 DEF EstimateInv, PositiveTask, Steps

LEMMA EstimateStep == GraphInv /\ EstimateInv /\ [GraphNext]_graphVars => EstimateInv'
<1> SUFFICES ASSUME GraphInv, EstimateInv, [GraphNext]_graphVars PROVE EstimateInv'
  OBVIOUS
<1>1. CASE GrowLayer
  BY <1>1, GrowEstimates
<1>2. CASE \E s \in VarState : BeginEstimate(s)
  BY <1>2, BeginEstimates
<1>3. CASE UNCHANGED graphVars
  BY <1>3 DEF graphVars, EstimateInv, CostsAreBounded, CostsAreAsked, CostBound, MostCost,
              Fresh, PositiveTask, Steps
<1> QED
  BY <1>1, <1>2, <1>3 DEF GraphNext

(* An estimation that has ended and is infinite is that of a dead end.     *)
LEMMA InfiniteIsFailed ==
    ASSUME GraphInv, EstimateInv, PositiveTask, layer.finished, ~ Fresh,
           task.goal.mask = task.goal.value,
           Estimation(task, layer) = Infinite
    PROVE  layer.mode = "Failed"
<1> SUFFICES ASSUME layer.mode = "Tail" PROVE FALSE
  BY DEF GraphInv, GraphTypeOK, LayerType, Fresh
<1> DEFINE costs == {layer.costs[v] : v \in task.goal.mask}
<1>1. /\ layer.bools \subseteq Vars /\ layer.costs \in [Vars -> 0..Infinite]
      /\ IsSolved(layer.bools, task.goal) /\ CostsAreBounded
  BY DEF GraphInv, GraphTypeOK, LayerType, EstimateInv
<1>2. task.goal.mask \subseteq layer.bools
  BY <1>1 DEF IsSolved, EqualMasked
<1>3. CostBound(layer.bools) \in Nat /\ CostBound(layer.bools) < Infinite /\ Infinite \in Nat
  BY <1>1, BoundGrows, GraphAssumption DEF GraphAssumption
<1>4. costs \in SUBSET (0..CostBound(layer.bools))
  <2>1. ASSUME NEW v \in task.goal.mask
        PROVE  layer.costs[v] \in 0..CostBound(layer.bools)
    <3>1. v \in layer.bools /\ layer.costs[v] \in 0..Infinite
      BY <1>1, <1>2
    <3>2. layer.costs[v] <= CostBound(layer.bools)
      BY <3>1, <1>1 DEF CostsAreBounded
    <3> QED
      BY <3>1, <3>2, <1>3
  <2> QED
    BY <2>1
<1> HIDE DEF costs
<1>5. GreatestFloat(costs) \in 0..CostBound(layer.bools)
  BY <1>3, <1>4, GreatestCost
<1>6. Estimation(task, layer) = GreatestFloat(costs)
  BY DEF Estimation, costs
<1> QED
  BY <1>3, <1>5, <1>6

(* Every transition of a state estimated had a cost; and with positive     *)
(* conditions and goals only a dead end is given up: an estimation that    *)
(* ends without failing is finite, for the costs are bounded.              *)
THEOREM GraphEstimates == GraphSpec => []EstimateInv
BY GraphInvariant, EstimateInit, EstimateStep, PTL DEF GraphSpec
-----------------------------------------------------------------------------
(* The planner on top of the graph. *)

(* The task and the graph are those of the problem.                        *)
TaskFits ==
    /\ problem \in Problems
    /\ task = TaskOf(problem)
    /\ graph.edges = EdgesOf(task)
    /\ graph.goals = {s \in VarState : IsSolved(s.bools, task.goal)}

(* The state being estimated is the initial one, or the target of an edge  *)
(* still to be visited, in the state set already.                          *)
PendingFits ==
    pending # << >> =>
        /\ main \in {"search", "aborted"}
        /\ \/ phase = "init"
           \/ phase = "search" /\ pending \in todo /\ pending[2] \in db

(* Where the thread of solve is, seen from the engine.                     *)
MainFits ==
    /\ main \in {"start", "search", "plan", "join", "returned", "aborted"}
    /\ phase = "init" => goalNodes = << >>
    /\ main = "start" => phase = "init"
    /\ main = "plan" => phase = "done" /\ Found
    /\ main = "join" => phase = "done"
    /\ main = "returned" => phase \in {"init", "done"}

(* The operators rebuilt so far lead from state to state of the path.      *)
PlanFits ==
    /\ main \in {"start", "search"} => plan = << >>
    /\ main \in {"plan", "join", "returned"} /\ Found =>
          /\ plan \in Seq(Operator)
          /\ Len(plan) + 1 <= Len(trail)
          /\ main # "plan" => Len(plan) + 1 = Len(trail)
          /\ \A n \in 1..Len(plan) : \E i \in Between(trail[n], trail[n + 1]) :
                plan[n] = task.transitions[i].name

(* The monitor runs from the selection of the engine to the join.          *)
MonitorFits ==
    /\ main = "start" => monitor = "none"
    /\ EngineOutlivesMonitor

SolverInv ==
    /\ GraphInv
    /\ PathInv
    /\ TaskFits
    /\ PendingFits
    /\ MainFits
    /\ PlanFits
    /\ MonitorFits
    /\ AbortsOnlyUnpriced
-----------------------------------------------------------------------------
(* What the conversion gives. *)

LEMMA ConvertedTransition ==
    ASSUME TaskFits, NEW i \in Steps
    PROVE  /\ i \in DOMAIN problem.ops
           /\ problem.ops[i] \in Operator
           /\ problem.ops[i].metric.kind # "unknown"
           /\ task.transitions[i] = TransitionOf(problem.ops[i])
           /\ task.transitions[i].name = problem.ops[i]
<1>1. problem \in Request /\ problem.ops \in Seq(Operator)
  BY SolverAssumption DEF TaskFits, SolverAssumption, Request
<1>2. task.transitions = TransitionsOf(problem.ops)
  BY DEF TaskFits, TaskOf
<1>3. /\ i \in DOMAIN problem.ops /\ problem.ops[i].metric.kind # "unknown"
      /\ task.transitions[i] = TransitionOf(problem.ops[i])
  BY <1>2 DEF TransitionsOf, Steps
<1>4. problem.ops[i] \in Operator
  BY <1>1, <1>3
<1> QED
  BY <1>3, <1>4 DEF TransitionOf

(* A transition between two states does what its operator does.            *)
LEMMA OperatorBetween ==
    ASSUME TaskFits, Kept(problem), NEW s, NEW t, NEW i \in Between(s, t)
    PROVE  /\ OpApplies(task.transitions[i].name, s.bools)
           /\ OpResult(task.transitions[i].name, s.bools) = t.bools
<1> DEFINE op == problem.ops[i]
<1>1. /\ i \in Steps /\ Available(s.bools, task.transitions[i])
      /\ Apply(s, task.transitions[i]) = t
  BY DEF Between
<1>2. /\ i \in DOMAIN problem.ops /\ op.metric.kind # "unknown"
      /\ task.transitions[i] = TransitionOf(op)
      /\ task.transitions[i].name = op
  BY <1>1, ConvertedTransition
<1>3. op.pos \cap op.neg = {} /\ op.add \cap op.del = {}
  BY <1>2 DEF Kept
<1>4. s.bools \cap (op.pos \cup op.neg) = op.pos \cap (op.pos \cup op.neg)
  BY <1>1, <1>2 DEF Available, EqualMasked, TransitionOf
<1>5. t.bools = (s.bools \ (op.add \cup op.del))
                  \cup ((op.add \ op.del) \cap (op.add \cup op.del))
  BY <1>1, <1>2 DEF Apply, SetMasked, TransitionOf
<1> HIDE DEF op
<1>6. op.pos \subseteq s.bools /\ op.neg \cap s.bools = {}
  BY <1>3, <1>4
<1>7. (s.bools \ op.del) \cup op.add = t.bools
  BY <1>3, <1>5
<1> QED
  BY <1>2, <1>6, <1>7 DEF OpApplies, OpResult

(* An edge of the graph is a transition.                                   *)
LEMMA EdgeIsTransition ==
    ASSUME TaskFits, NEW s, NEW t, IsEdge(s, t)
    PROVE  Between(s, t) # {}
<1>1. PICK e \in EdgesOf(task) : e[1] = s /\ e[2] = t
  BY DEF IsEdge, TaskFits
<1>2. PICK u \in VarState : e \in
            {<<u, Apply(u, task.transitions[i]), TransitionCost(task.transitions[i])>> :
                i \in Offered(task, u)}
  BY DEF EdgesOf
<1>3. PICK i \in Offered(task, u) :
          e = <<u, Apply(u, task.transitions[i]), TransitionCost(task.transitions[i])>>
  BY <1>2
<1>4. i \in Steps /\ u = s /\ Available(s.bools, task.transitions[i])
      /\ Apply(s, task.transitions[i]) = t
  BY <1>1, <1>3 DEF Offered, Steps
<1> QED
  BY <1>4 DEF Between

(* difference takes one of the transitions between two states, if any.     *)
LEMMA DifferenceIsBetween ==
    ASSUME TaskFits, NEW s, NEW t, Between(s, t) # {}
    PROVE  \E i \in Between(s, t) : Difference(s, t) = task.transitions[i]
<1> DEFINE B == Between(s, t)
<1>1. PICK n \in Nat : DOMAIN problem.ops = 1..n
  BY SolverAssumption DEF TaskFits, SolverAssumption, Request
<1>2. B \subseteq 1..n /\ B # {}
  BY <1>1, ConvertedTransition DEF Between
<1> HIDE DEF B
<1> DEFINE T == {n - x : x \in B}
<1>3. T \in SUBSET Nat /\ T # {}
  <2>1. ASSUME NEW x \in B PROVE n - x \in Nat
    BY <1>2
  <2> QED
    BY <2>1, <1>2
<1> HIDE DEF T
<1>4. PICK least \in T : \A y \in T : least <= y
  BY <1>3, LeastElement
<1>5. PICK i \in B : least = n - i
  BY <1>4 DEF T
<1>6. ASSUME NEW j \in B PROVE j <= i
  <2>1. n - j \in T
    BY DEF T
  <2>2. n - i <= n - j
    BY <2>1, <1>4, <1>5
  <2> QED
    BY <2>2, <1>2
<1>7. \E k \in B : \A j \in B : j <= k
  BY <1>6
<1>8. (CHOOSE k \in B : \A j \in B : j <= k) \in B
  BY <1>7
<1> QED
  BY <1>8 DEF Difference, B

LEMMA EstimationType ==
    ASSUME GraphTypeOK
    PROVE  Estimation(task, layer) \in Nat
<1>1. /\ layer.costs \in [Vars -> 0..Infinite] /\ Infinite \in Nat
      /\ task.goal.mask \subseteq Vars
  BY GraphAssumption DEF GraphTypeOK, LayerType, IsTask, MaskedVector, GraphAssumption
<1>2. {layer.costs[v] : v \in task.goal.mask} \in SUBSET (0..Infinite)
  BY <1>1
<1>3. GreatestFloat({layer.costs[v] : v \in task.goal.mask}) \in 0..Infinite
  BY <1>1, <1>2, GreatestCost
<1> QED
  BY <1>1, <1>3 DEF Estimation
-----------------------------------------------------------------------------
(* The steps. *)

LEMMA SolverInit == Init => SolverInv
<1> SUFFICES ASSUME Init PROVE SolverInv
  OBVIOUS
<1>1. PathInv
  BY InitInv DEF Init, SearchInv
<1>2. TaskFits
  BY DEF Init, TaskFits, GraphOf
<1>3. GraphInv
  <2>1. task \in Tasks
    BY SolverAssumption DEF Init, SolverAssumption
  <2> QED
    BY <2>1, GraphInitInv DEF Init, GraphInit
<1>4. PendingFits /\ MainFits /\ PlanFits /\ MonitorFits /\ AbortsOnlyUnpriced
  BY DEF Init, EngineInit, PendingFits, MainFits, PlanFits, MonitorFits,
         EngineOutlivesMonitor, AbortsOnlyUnpriced
<1> QED
  BY <1>1, <1>2, <1>3, <1>4 DEF SolverInv

(* The calls of the heuristic are those of the planning graph.             *)
LEMMA SolverStepsGraph == SolverInv /\ [Next]_allVars => [GraphNext]_graphVars
<1> SUFFICES ASSUME SolverInv, [Next]_allVars PROVE [GraphNext]_graphVars
  OBVIOUS
<1>0. InitState \in VarState /\ graph.edges \subseteq VarState \X VarState \X Nat
      /\ todo \subseteq graph.edges
  BY EngineAssumption, SolverAssumption
     DEF EngineAssumption, SolverAssumption, SolverInv, PathInv, TypeOK, GraphType
<1>1. CASE EstimateRoot
  BY <1>0, <1>1 DEF EstimateRoot, GraphNext
<1>2. CASE EstimateLayer
  BY <1>2 DEF EstimateLayer, GraphNext
<1>3. ASSUME NEW e \in todo, Visit(e) PROVE GraphNext
  <2>1. e[2] \in VarState
    BY <1>0
  <2> QED
    BY <2>1, <1>3 DEF Visit, GraphNext
<1>4. CASE \/ SelectMemory \/ EstimateThrows \/ Start \/ (\E e \in todo : Skip(e))
           \/ Generate \/ EngineStep \/ SearchReturns \/ RebuildStep \/ PrintPlan
           \/ Join \/ MonitorThread \/ Ended \/ UNCHANGED allVars
  BY <1>4 DEF SelectMemory, EstimateThrows, Start, Skip, Generate, EngineStep,
              SearchReturns, RebuildStep, PrintPlan, Join, MonitorThread, MonitorTurn,
              MonitorStats, Ended, allVars
<1> QED
  BY <1>1, <1>2, <1>3, <1>4 DEF Next, SearchThread

(* The way the search takes is that of the engine.                         *)
LEMMA SolverKeepsPath == SolverInv /\ [Next]_allVars => PathInv'
<1> SUFFICES ASSUME SolverInv, [Next]_allVars PROVE PathInv'
  OBVIOUS
<1>0. /\ PathInv /\ TypeOK /\ TodoIsOut /\ PendingFits /\ GraphTypeOK
      /\ graph \in GraphType /\ Estimation(task, layer) \in Nat
  BY EstimationType DEF SolverInv, PathInv, TypeOK, GraphInv
<1>1. CASE Start
  <2>1. Priority(0, Estimation(task, layer)) \in Nat
    BY <1>0, PriorityType
  <2> QED
    BY <1>0, <1>1, <2>1, RootKeeps DEF Start
<1>2. ASSUME NEW e \in todo, Skip(e) PROVE PathInv'
  BY <1>0, <1>2, SkipKeeps DEF Skip
<1>3. ASSUME NEW e \in todo, Visit(e) PROVE PathInv'
  <2>1. e[2] \in States
    BY <1>0, EdgeType
  <2> QED
    BY <1>0, <1>3, <2>1, VisitKeeps DEF Visit
<1>4. CASE Generate
  <2>1. /\ phase = "search" /\ pending \in todo /\ pending[2] \in db
        /\ todo' = todo \ {pending} /\ db' = db \cup {pending[2]}
    BY <1>0, <1>4 DEF Generate, Estimated, Estimating, PendingFits
  <2>2. CASE Estimation(task, layer) = Infinite
    BY <1>0, <1>4, <2>1, <2>2, SkipKeeps DEF Generate
  <2>3. CASE Estimation(task, layer) # Infinite
    <3>0. log[cur].len \in Nat /\ pending[3] \in Nat
      BY <1>0, <2>1, EdgeType
    <3>1. /\ log[cur].len + pending[3] \in Nat
          /\ Node(pending[2], cur, log[cur].len + pending[3]).len
               = log[cur].len + pending[3]
      BY <3>0 DEF Node
    <3>2. Priority(log[cur].len + pending[3], Estimation(task, layer)) \in Nat
      BY <1>0, <3>1, PriorityType
    <3> QED
      BY <1>0, <1>4, <2>1, <2>3, <3>1, <3>2, GenerateKeeps DEF Generate
  <2> QED
    BY <2>2, <2>3
<1>5. CASE EngineStep
  BY <1>0, <1>5, DequeueKeeps, FinalizeKeeps, BacktraceKeeps DEF EngineStep
<1>6. CASE \/ SelectMemory \/ EstimateRoot \/ EstimateLayer \/ EstimateThrows
           \/ SearchReturns \/ RebuildStep \/ PrintPlan \/ Join \/ MonitorThread
           \/ Ended \/ UNCHANGED allVars
  <2>1. UNCHANGED vars
    BY <1>6 DEF SelectMemory, EstimateRoot, EstimateLayer, EstimateThrows,
                SearchReturns, RebuildStep, PrintPlan, Join, MonitorThread,
                MonitorTurn, MonitorStats, Ended, allVars
  <2> QED
    BY <1>0, <2>1, StutterKeeps
<1> QED
  BY <1>1, <1>2, <1>3, <1>4, <1>5, <1>6 DEF Next, SearchThread

(* Problem, task and graph never change.                                   *)
LEMMA SolverKeepsTask == SolverInv /\ [Next]_allVars => TaskFits'
<1> SUFFICES ASSUME SolverInv, [Next]_allVars PROVE TaskFits'
  OBVIOUS
<1>1. UNCHANGED <<problem, task, graph>>
  BY DEF Next, SearchThread, SelectMemory, EstimateRoot, EstimateLayer, EstimateThrows,
         Start, Skip, Visit, Generate, EngineStep, Dequeue, Finalize, BacktraceStep,
         SearchReturns, RebuildStep, PrintPlan, Join, MonitorThread, MonitorTurn,
         MonitorStats, Ended, allVars, vars, graphVars, ownVars, BeginEstimate, GrowLayer
<1> QED
  BY <1>1 DEF SolverInv, TaskFits

(* The steps that leave the engine's path, the plan and the threads alone. *)
LEMMA SolverKeepsPending == SolverInv /\ [Next]_allVars => PendingFits'
<1> SUFFICES ASSUME SolverInv, [Next]_allVars PROVE PendingFits'
  OBVIOUS
<1> USE DEF SolverInv, PendingFits
<1>1. CASE EstimateRoot
  BY <1>1 DEF EstimateRoot, Searching, vars
<1>2. CASE EstimateThrows
  BY <1>2 DEF EstimateThrows, vars
<1>3. ASSUME NEW e \in todo, Visit(e) PROVE PendingFits'
  BY <1>3 DEF Visit, Searching
<1>4. CASE Start \/ Generate
  BY <1>4 DEF Start, Generate
<1>5. ASSUME NEW e \in todo, Skip(e) PROVE PendingFits'
  BY <1>5 DEF Skip, Searching, ownVars
<1>6. CASE EngineStep
  BY <1>6 DEF EngineStep, Searching, ownVars
<1>7. CASE SelectMemory \/ SearchReturns \/ RebuildStep \/ PrintPlan \/ Join
  BY <1>7 DEF SelectMemory, SearchReturns, RebuildStep, PrintPlan, Join, Searching, vars
<1>8. CASE EstimateLayer \/ MonitorThread \/ Ended \/ UNCHANGED allVars
  BY <1>8 DEF EstimateLayer, MonitorThread, MonitorTurn, MonitorStats, Ended, allVars,
              vars, ownVars
<1> QED
  BY <1>1, <1>2, <1>3, <1>4, <1>5, <1>6, <1>7, <1>8 DEF Next, SearchThread

LEMMA SolverKeepsMain == SolverInv /\ [Next]_allVars => MainFits' /\ MonitorFits'
<1> SUFFICES ASSUME SolverInv, [Next]_allVars PROVE MainFits' /\ MonitorFits'
  OBVIOUS
<1> USE DEF SolverInv, MainFits, MonitorFits, EngineOutlivesMonitor
<1>1. CASE Start \/ Generate
  BY <1>1 DEF Start, Generate, Estimated, Estimating
<1>2. CASE \E e \in todo : Skip(e) \/ Visit(e)
  BY <1>2 DEF Skip, Visit, Searching, ownVars
<1>3. CASE EngineStep
  BY <1>3 DEF EngineStep, Searching, Dequeue, Finalize, BacktraceStep, ownVars
<1>4. CASE SelectMemory \/ SearchReturns
  BY <1>4 DEF SelectMemory, SearchReturns, Searching, Found, vars
<1>5. CASE RebuildStep \/ PrintPlan \/ Join
  BY <1>5 DEF RebuildStep, PrintPlan, Join, Found, vars
<1>6. CASE EstimateRoot \/ EstimateLayer \/ EstimateThrows
  BY <1>6 DEF EstimateRoot, EstimateLayer, EstimateThrows, Searching, Estimating, vars,
              ownVars
<1>7. CASE MonitorThread \/ Ended \/ UNCHANGED allVars
  BY <1>7 DEF MonitorThread, MonitorTurn, MonitorStats, Ended, allVars, vars, ownVars,
              Found
<1> QED
  BY <1>1, <1>2, <1>3, <1>4, <1>5, <1>6, <1>7 DEF Next, SearchThread

(* The path of the search, seen by build_transition_path.                  *)
LEMMA PathIsPlan ==
    ASSUME SolverInv, phase = "done", Found
    PROVE  /\ trail \in Seq(VarState) /\ Len(trail) >= 1
           /\ trail[1] = InitState /\ trail[Len(trail)] \in graph.goals
           /\ \A i \in 1..(Len(trail) - 1) : Between(trail[i], trail[i + 1]) # {}
<1>1. IsPlan(trail) /\ trail \in Seq(States) /\ States = VarState /\ TaskFits
  BY SolverAssumption
     DEF SolverInv, PathInv, TrailLeads, PlanIsSound, TypeOK, SolverAssumption
<1>2. Chain(trail) /\ trail # << >>
  BY <1>1 DEF IsPlan
<1>3. \A i \in 1..(Len(trail) - 1) : IsEdge(trail[i], trail[i + 1])
  BY <1>2 DEF Chain
<1>4. \A i \in 1..(Len(trail) - 1) : Between(trail[i], trail[i + 1]) # {}
  BY <1>1, <1>3, EdgeIsTransition
<1>5. Len(trail) >= 1
  BY <1>1, <1>2
<1> QED
  BY <1>1, <1>4, <1>5 DEF IsPlan

(* build_transition_path finds an operator for every step of the path.     *)
LEMMA RebuildFinds ==
    ASSUME SolverInv, RebuildStep
    PROVE  /\ main' = main
           /\ \E i \in Between(trail[Len(plan) + 1], trail[Len(plan) + 2]) :
                 plan' = Append(plan, task.transitions[i].name)
<1>1. /\ phase = "done" /\ Found /\ main = "plan" /\ TaskFits
      /\ plan \in Seq(Operator) /\ Len(plan) + 1 < Len(trail)
  BY DEF SolverInv, MainFits, PlanFits, RebuildStep
<1>2. /\ Len(plan) + 1 \in 1..(Len(trail) - 1)
      /\ (Len(plan) + 1) + 1 = Len(plan) + 2
  BY <1>1, PathIsPlan
<1>3. Between(trail[Len(plan) + 1], trail[Len(plan) + 2]) # {}
  BY <1>1, <1>2, PathIsPlan
<1>4. /\ main' = main
      /\ plan' = Append(plan, Difference(trail[Len(plan) + 1], trail[Len(plan) + 2]).name)
  BY <1>2, <1>3 DEF RebuildStep
<1>5. \E i \in Between(trail[Len(plan) + 1], trail[Len(plan) + 2]) :
          Difference(trail[Len(plan) + 1], trail[Len(plan) + 2]) = task.transitions[i]
  BY <1>1, <1>3, DifferenceIsBetween
<1> QED
  BY <1>4, <1>5

LEMMA RebuildKeepsPlan ==
    ASSUME SolverInv, RebuildStep
    PROVE  PlanFits'
<1> DEFINE k == Len(plan) + 1
<1>1. /\ phase = "done" /\ Found /\ main = "plan" /\ TaskFits
      /\ plan \in Seq(Operator) /\ k < Len(trail) /\ Len(plan) \in Nat
      /\ \A n \in 1..Len(plan) : \E i \in Between(trail[n], trail[n + 1]) :
            plan[n] = task.transitions[i].name
  BY DEF SolverInv, MainFits, PlanFits, RebuildStep
<1>2. main' = "plan"
  BY <1>1, RebuildFinds
<1>3. PICK i \in Between(trail[k], trail[k + 1]) :
          plan' = Append(plan, task.transitions[i].name)
  <2>1. Len(plan) + 2 = k + 1
    BY <1>1
  <2> QED
    BY <2>1, RebuildFinds
<1>4. task.transitions[i].name \in Operator
  <2>1. i \in Steps
    BY DEF Between
  <2> QED
    BY <2>1, <1>1, ConvertedTransition
<1>5. /\ plan' \in Seq(Operator) /\ Len(plan') = k
      /\ plan'[k] = task.transitions[i].name
      /\ \A n \in 1..Len(plan) : plan'[n] = plan[n]
  BY <1>1, <1>3, <1>4
<1>6. UNCHANGED <<task, trail, goalNodes, phase>>
  BY DEF RebuildStep, vars, graphVars
<1>7. ASSUME NEW n \in 1..Len(plan')
      PROVE  \E j \in Between(trail[n], trail[n + 1]) : plan'[n] = task.transitions[j].name
  <2>1. CASE n = k
    BY <2>1, <1>3, <1>5
  <2>2. CASE n # k
    <3>1. n \in 1..Len(plan)
      BY <2>2, <1>1, <1>5
    <3> QED
      BY <3>1, <1>1, <1>5
  <2> QED
    BY <2>1, <2>2
<1>8. Len(plan') + 1 <= Len(trail)
  <2>1. Len(trail) \in Nat
    BY <1>1, PathIsPlan
  <2> QED
    BY <2>1, <1>1, <1>5
<1> HIDE DEF k
<1>9. \A n \in 1..Len(plan') : \E j \in Between(trail[n], trail[n + 1])' :
          plan'[n] = task'.transitions[j].name
  BY <1>6, <1>7 DEF Between, Steps
<1> QED
  BY <1>2, <1>5, <1>6, <1>8, <1>9 DEF PlanFits

LEMMA SolverKeepsPlan == SolverInv /\ [Next]_allVars => PlanFits'
<1> SUFFICES ASSUME SolverInv, [Next]_allVars PROVE PlanFits'
  OBVIOUS
<1>0. PlanFits /\ MainFits
  BY DEF SolverInv
<1>1. CASE RebuildStep
  BY <1>1, RebuildKeepsPlan
<1>2. CASE SearchReturns
  <2>1. /\ plan' = plan /\ plan = << >> /\ trail' = trail /\ phase = "done"
        /\ Found' = Found /\ main' = IF Found THEN "plan" ELSE "join"
    BY <1>0, <1>2 DEF SearchReturns, Searching, PlanFits, vars, Found
  <2>2. CASE Found
    <3>1. Len(trail) >= 1 /\ Len(plan') = 0 /\ plan' \in Seq(Operator)
      BY <2>1, <2>2, PathIsPlan
    <3> QED
      BY <2>1, <2>2, <3>1 DEF PlanFits
  <2>3. CASE ~ Found
    BY <2>1, <2>3 DEF PlanFits
  <2> QED
    BY <2>2, <2>3
<1>3. CASE SelectMemory
  BY <1>0, <1>3 DEF SelectMemory, PlanFits, MainFits, Found, vars
<1>4. CASE PrintPlan \/ Join
  <2>1. /\ UNCHANGED <<plan, trail, task, goalNodes>>
        /\ main \in {"plan", "join"} /\ main' \in {"join", "returned"}
        /\ main = "plan" => Len(plan) + 1 = Len(trail)
    BY <1>4 DEF PrintPlan, Join, vars, graphVars
  <2>2. \A n : Between(trail[n], trail[n + 1])' = Between(trail[n], trail[n + 1])
    BY <2>1 DEF Between, Steps
  <2>3. Found' = Found
    BY <2>1 DEF Found
  <2> QED
    BY <1>0, <2>1, <2>2, <2>3 DEF PlanFits
<1>5. CASE \/ EstimateRoot \/ EstimateLayer \/ EstimateThrows \/ Start \/ Generate
           \/ EngineStep \/ \E e \in todo : Skip(e) \/ Visit(e)
  <2>1. main = "search" /\ main' \in {"search", "aborted"} /\ plan' = plan
    BY <1>5 DEF EstimateRoot, EstimateLayer, EstimateThrows, Start, Generate, EngineStep,
                Skip, Visit, Searching, Estimated, Estimating, ownVars
  <2> QED
    BY <1>0, <2>1 DEF PlanFits
<1>6. CASE MonitorThread \/ Ended \/ UNCHANGED allVars
  <2>1. UNCHANGED <<main, plan, trail, task, goalNodes>>
    BY <1>6 DEF MonitorThread, MonitorTurn, MonitorStats, Ended, allVars, vars,
                graphVars, ownVars
  <2> QED
    BY <1>0, <2>1 DEF PlanFits, Found, Between, Steps
<1> QED
  BY <1>1, <1>2, <1>3, <1>4, <1>5, <1>6 DEF Next, SearchThread

LEMMA SolverKeepsAborts == SolverInv /\ [Next]_allVars => AbortsOnlyUnpriced'
<1> SUFFICES ASSUME SolverInv, [Next]_allVars, main' = "aborted"
             PROVE  \E i \in DOMAIN problem'.ops : problem'.ops[i].metric.kind = "assign"
  BY DEF AbortsOnlyUnpriced
<1>0. problem' = problem
  BY DEF Next, SearchThread, SelectMemory, EstimateRoot, EstimateLayer, EstimateThrows,
         Start, Skip, Visit, Generate, EngineStep, SearchReturns, RebuildStep, PrintPlan,
         Join, MonitorThread, MonitorTurn, MonitorStats, Ended, allVars, ownVars
<1>1. CASE main = "aborted"
  BY <1>0, <1>1 DEF SolverInv, AbortsOnlyUnpriced
<1>2. CASE EstimateThrows
  <2>1. PICK i \in Ready(task, layer) : CostThrows(task.transitions[i])
    BY <1>2 DEF EstimateThrows, Unpriced
  <2>2. i \in Steps /\ TaskFits
    BY <2>1 DEF Ready, SolverInv, GraphInv, GraphTypeOK, LayerType
  <2>3. /\ i \in DOMAIN problem.ops
        /\ task.transitions[i] = TransitionOf(problem.ops[i])
    BY <2>2, ConvertedTransition
  <2>4. problem.ops[i].metric.kind = "assign"
    BY <2>1, <2>3 DEF CostThrows, TransitionOf
  <2> QED
    BY <2>3, <2>4, <1>0
<1>3. CASE RebuildStep
  BY <1>1, <1>3, RebuildFinds
<1>4. CASE main # "aborted" /\ ~ EstimateThrows /\ ~ RebuildStep
  BY <1>4 DEF Next, SearchThread, SelectMemory, EstimateRoot, EstimateLayer,
         Start, Skip, Visit, Generate, EngineStep, SearchReturns, PrintPlan,
         Join, MonitorThread, MonitorTurn, MonitorStats, Ended, allVars, ownVars
<1> QED
  BY <1>1, <1>2, <1>3, <1>4

THEOREM SolverInvariant == Spec => []SolverInv
<1>1. SolverInv /\ [Next]_allVars => SolverInv'
  <2> SUFFICES ASSUME SolverInv, [Next]_allVars PROVE SolverInv'
    OBVIOUS
  <2>1. GraphInv'
    BY SolverStepsGraph, GraphStep DEF SolverInv
  <2>2. MonitorFits' /\ MainFits' /\ PathInv' /\ TaskFits' /\ PendingFits'
    BY SolverKeepsMain, SolverKeepsPath, SolverKeepsTask, SolverKeepsPending
  <2> QED
    BY <2>1, <2>2, SolverKeepsPlan, SolverKeepsAborts DEF SolverInv
<1> QED
  BY <1>1, SolverInit, PTL DEF Spec
-----------------------------------------------------------------------------
(* Why "Solution not found!" is true. *)

(* A state from which the goal cannot be reached.                          *)
Hopeless(s) ==
    \E C \in SUBSET VarState :
        /\ s \in C
        /\ \A u \in C :
              /\ ~ IsSolved(u.bools, task.goal)
              /\ \A i \in Steps : Available(u.bools, task.transitions[i]) =>
                                      Apply(u, task.transitions[i]) \in C

(* The estimation under way is that of the pending state, and goes on or   *)
(* has ended by its own rules.                                             *)
LayerFits ==
    pending # << >> =>
        /\ layer.from = pending[2] /\ ~ Fresh
        /\ phase = "init" => pending[2] = InitState

ReturnFits == main = "returned" /\ Known => phase = "done"

(* A state of the state set has a node, is being estimated, or was given   *)
(* up for a reason.                                                        *)
DropsFit ==
    \A s \in db : \/ s \in KnownStates
                  \/ pending # << >> /\ s = pending[2]
                  \/ Hopeless(s)

(* Every transition available in a state that has a node is an edge.       *)
OffersFit ==
    \A s \in KnownStates : \A i \in Steps :
        Available(s.bools, task.transitions[i]) => ~ CostThrows(task.transitions[i])

AnswerInv ==
    /\ EstimateInv
    /\ LayerFits
    /\ ReturnFits
    /\ OffersFit
    /\ Positive(problem) => DropsFit

LEMMA PositiveParts ==
    ASSUME TaskFits, Positive(problem)
    PROVE  PositiveTask /\ task.goal.mask = task.goal.value
<1>1. ASSUME NEW i \in Steps
      PROVE  task.transitions[i].condition.value = task.transitions[i].condition.mask
  <2>1. /\ i \in DOMAIN problem.ops /\ task.transitions[i] = TransitionOf(problem.ops[i])
        /\ problem.ops[i].neg = {}
    BY ConvertedTransition DEF Positive
  <2> QED
    BY <2>1 DEF TransitionOf
<1>2. task.goal.mask = task.goal.value
  BY DEF TaskFits, TaskOf, Positive, Kept
<1> QED
  BY <1>1, <1>2 DEF PositiveTask

(* The two ways an estimation ends.                                        *)
LEMMA InfiniteIsHopeless ==
    ASSUME SolverInv, AnswerInv, Positive(problem), Estimated,
           Estimation(task, layer) = Infinite
    PROVE  Hopeless(pending[2])
<1>1. /\ PositiveTask /\ task.goal.mask = task.goal.value /\ GraphInv /\ EstimateInv
      /\ layer.finished /\ ~ Fresh /\ layer.from = pending[2]
  BY PositiveParts DEF SolverInv, AnswerInv, LayerFits, Estimated, Estimating
<1>2. layer.mode = "Failed" /\ DeadEndIsClosed
  BY <1>1, InfiniteIsFailed, FailedIsClosed
<1>3. Covered \in SUBSET VarState
  BY DEF Covered
<1> QED
  BY <1>1, <1>2, <1>3 DEF DeadEndIsClosed, Hopeless

LEMMA EstimatedIsOffered ==
    ASSUME SolverInv, AnswerInv, Estimated, NEW i \in Steps,
           Available(pending[2].bools, task.transitions[i])
    PROVE  ~ CostThrows(task.transitions[i])
BY DEF SolverInv, AnswerInv, EstimateInv, LayerFits, Estimated, Estimating,
                     CostsAreAsked

LEMMA AnswerInit == Init => AnswerInv
<1> SUFFICES ASSUME Init PROVE AnswerInv
  OBVIOUS
<1>1. GraphInit
  BY SolverAssumption DEF Init, GraphInit, SolverAssumption
<1>2. KnownStates = {}
  BY DEF Init, EngineInit, KnownStates, Ids
<1>3. LayerFits /\ ReturnFits /\ DropsFit /\ OffersFit
  BY <1>2 DEF Init, EngineInit, LayerFits, ReturnFits, DropsFit, OffersFit
<1> QED
  BY <1>1, <1>3, EstimateInit DEF AnswerInv

LEMMA AnswerKeepsLayer == SolverInv /\ AnswerInv /\ [Next]_allVars => LayerFits'
<1> SUFFICES ASSUME SolverInv, AnswerInv, [Next]_allVars PROVE LayerFits'
  OBVIOUS
<1> USE DEF AnswerInv, LayerFits
<1>0. layer \in LayerType /\ FailedForGood
  BY DEF SolverInv, GraphInv, GraphTypeOK
<1>1. CASE EstimateRoot
  BY <1>1 DEF EstimateRoot, BeginEstimate, FirstLayer, Fresh
<1>2. ASSUME NEW e \in todo, Visit(e) PROVE LayerFits'
  BY <1>2 DEF Visit, BeginEstimate, FirstLayer, Fresh
<1>3. CASE EstimateLayer
  <2>1. /\ ~ layer.finished /\ layer' = Grow(task, layer)
        /\ UNCHANGED <<pending, phase>>
    BY <1>3 DEF EstimateLayer, GrowLayer, ownVars, vars
  <2>2. layer'.from = layer.from /\ ~ Fresh'
    BY <2>1, <1>0 DEF Grow, LayerType, Fresh
  <2> QED
    BY <2>1, <2>2, <1>3 DEF EstimateLayer, Estimating
<1>4. CASE Start \/ Generate
  BY <1>4 DEF Start, Generate
<1>5. CASE EngineStep \/ \E e \in todo : Skip(e)
  BY <1>5 DEF EngineStep, Skip, Searching, ownVars
<1>6. CASE \/ SelectMemory \/ EstimateThrows \/ SearchReturns \/ RebuildStep
           \/ PrintPlan \/ Join \/ MonitorThread \/ Ended \/ UNCHANGED allVars
  <2>1. UNCHANGED <<layer, pending, phase>>
    BY <1>6 DEF SelectMemory, EstimateThrows, SearchReturns, RebuildStep, PrintPlan, Join,
                MonitorThread, MonitorTurn, MonitorStats, Ended, allVars, vars, graphVars,
                ownVars
  <2> QED
    BY <2>1 DEF Fresh
<1> QED
  BY <1>1, <1>2, <1>3, <1>4, <1>5, <1>6 DEF Next, SearchThread

LEMMA AnswerKeepsReturn == SolverInv /\ AnswerInv /\ [Next]_allVars => ReturnFits'
<1> SUFFICES ASSUME SolverInv, AnswerInv, [Next]_allVars PROVE ReturnFits'
  OBVIOUS
<1> USE DEF AnswerInv, ReturnFits, SolverInv, MainFits, Known
<1>1. CASE SelectMemory \/ Join
  BY <1>1 DEF SelectMemory, Join, vars
<1>2. CASE \/ EstimateRoot \/ EstimateLayer \/ EstimateThrows \/ Start \/ Generate
           \/ EngineStep \/ SearchReturns \/ RebuildStep \/ PrintPlan
           \/ \E e \in todo : Skip(e) \/ Visit(e)
  <2>1. main' # "returned"
    BY <1>2 DEF EstimateRoot, EstimateLayer, EstimateThrows, Start, Generate, EngineStep,
                SearchReturns, RebuildStep, PrintPlan, Skip, Visit, Searching, Estimated,
                Estimating, ownVars
  <2> QED
    BY <2>1
<1>3. CASE MonitorThread \/ Ended \/ UNCHANGED allVars
  BY <1>3 DEF MonitorThread, MonitorTurn, MonitorStats, Ended, allVars, vars, ownVars
<1> QED
  BY <1>1, <1>2, <1>3 DEF Next, SearchThread

(* An edge is not the empty sequence.                                      *)
LEMMA EdgeIsTriple ==
    ASSUME TypeOK, NEW e \in todo
    PROVE  e # << >>
<1>1. e \in States \X States \X Nat
  BY DEF TypeOK, GraphType
<1>2. PICK s \in States, t \in States, c \in Nat : e = <<s, t, c>>
  BY <1>1
<1>3. Len(e) = 3 /\ Len(<< >>) = 0
  BY <1>2
<1> QED
  BY <1>3

LEMMA AnswerKeepsDrops ==
    ASSUME SolverInv, AnswerInv, [Next]_allVars
    PROVE  OffersFit' /\ (Positive(problem) => DropsFit')
<1>0. /\ UNCHANGED <<problem, task>>
      /\ OffersFit /\ TypeOK /\ PendingFits /\ LayerFits
      /\ Positive(problem) => DropsFit
      /\ \A s : Hopeless(s)' = Hopeless(s)
      /\ Steps' = Steps
  <2>1. UNCHANGED <<problem, task>>
    BY DEF Next, SearchThread, SelectMemory, EstimateRoot, EstimateLayer, EstimateThrows,
           Start, Skip, Visit, Generate, EngineStep, SearchReturns, RebuildStep, PrintPlan,
           Join, MonitorThread, MonitorTurn, MonitorStats, Ended, allVars, graphVars,
           ownVars, BeginEstimate, GrowLayer
  <2> QED
    BY <2>1 DEF AnswerInv, SolverInv, PathInv, Hopeless, Steps
<1>1. CASE Start
  <2>1. /\ pending # << >> /\ pending[2] = InitState /\ Estimated
        /\ db' = {InitState} /\ log = << >>
        /\ CreateNode(Node(InitState, 1, 0))
    BY <1>0, <1>1 DEF Start, Estimated, Estimating, LayerFits, SolverInv, PathInv,
                      RootLogged
  <2>2. Node(InitState, 1, 0) \in NodeType /\ Node(InitState, 1, 0).state = InitState
    BY EngineAssumption DEF EngineAssumption, Node, NodeType
  <2>3. KnownStates' = KnownStates \cup {InitState}
    BY <2>1, <2>2, <1>0, LogGrows
  <2>4. DropsFit'
    BY <2>1, <2>3 DEF DropsFit
  <2>5. OffersFit'
    BY <2>1, <2>3, <1>0, EstimatedIsOffered DEF OffersFit
  <2> QED
    BY <2>4, <2>5
<1>2. CASE Generate
  <2>1. /\ pending # << >> /\ Estimated /\ pending' = << >> /\ db' = db
        /\ phase = "search" /\ pending \in todo
    BY <1>0, <1>2 DEF Generate, Estimated, Estimating, PendingFits
  <2>2. CASE Estimation(task, layer) = Infinite
    <3>1. KnownStates' = KnownStates
      BY <1>2, <2>2 DEF Generate, KnownStates, Ids
    <3>2. Positive(problem) => Hopeless(pending[2])
      BY <2>1, <2>2, InfiniteIsHopeless
    <3> QED
      BY <3>1, <3>2, <2>1, <1>0 DEF DropsFit, OffersFit
  <2>3. CASE Estimation(task, layer) # Infinite
    <3> DEFINE node == Node(pending[2], cur, log[cur].len + pending[3])
    <3>1. node \in NodeType /\ node.state = pending[2]
      <4>1. /\ log[cur].len \in Nat /\ pending[3] \in Nat /\ pending[2] \in States
            /\ cur \in Ids
        BY <2>1, <1>0, EdgeType DEF SolverInv, PathInv, TodoIsOut
      <4>2. cur \in Nat \ {0}
        BY <4>1 DEF Ids
      <4> QED
        BY <4>1, <4>2 DEF Node, NodeType
    <3>2. CreateNode(node)
      BY <1>2, <2>3 DEF Generate
    <3> HIDE DEF node
    <3>3. KnownStates' = KnownStates \cup {pending[2]}
      BY <3>1, <3>2, <1>0, LogGrows
    <3>4. OffersFit'
      BY <3>3, <2>1, <1>0, EstimatedIsOffered DEF OffersFit
    <3> QED
      BY <3>3, <3>4, <2>1, <1>0 DEF DropsFit
  <2> QED
    BY <2>2, <2>3
<1>3. ASSUME NEW e \in todo, Visit(e)
      PROVE  OffersFit' /\ (Positive(problem) => DropsFit')
  <2>1. KnownStates' = KnownStates /\ db' = db \cup {e[2]} /\ pending' = e
        /\ pending = << >>
    BY <1>3 DEF Visit, Searching, KnownStates, Ids
  <2>2. e # << >>
    BY <1>0, EdgeIsTriple
  <2> QED
    BY <2>1, <2>2, <1>0 DEF DropsFit, OffersFit
<1>4. CASE \/ SelectMemory \/ EstimateRoot \/ EstimateLayer \/ EstimateThrows
           \/ EngineStep \/ SearchReturns \/ RebuildStep \/ PrintPlan \/ Join
           \/ MonitorThread \/ Ended \/ UNCHANGED allVars \/ \E e \in todo : Skip(e)
  <2>1. /\ UNCHANGED <<log, db>>
        /\ pending' = pending \/ pending = << >>
    BY <1>4 DEF SelectMemory, EstimateRoot, EstimateLayer, EstimateThrows, EngineStep,
                Dequeue, Finalize, BacktraceStep, SearchReturns, RebuildStep, PrintPlan,
                Join, MonitorThread, MonitorTurn, MonitorStats, Ended, Skip, allVars, vars,
                ownVars, Searching
  <2>2. KnownStates' = KnownStates
    BY <2>1 DEF KnownStates, Ids
  <2> QED
    BY <2>1, <2>2, <1>0 DEF DropsFit, OffersFit
<1> QED
  BY <1>1, <1>2, <1>3, <1>4 DEF Next, SearchThread

THEOREM AnswerInvariant == Spec => []AnswerInv
<1>1. SolverInv /\ AnswerInv /\ [Next]_allVars => AnswerInv'
  <2> SUFFICES ASSUME SolverInv, AnswerInv, [Next]_allVars PROVE AnswerInv'
    OBVIOUS
  <2>1. EstimateInv'
    BY SolverStepsGraph, EstimateStep DEF SolverInv, AnswerInv
  <2>2. problem' = problem
    BY DEF Next, SearchThread, SelectMemory, EstimateRoot, EstimateLayer, EstimateThrows,
           Start, Skip, Visit, Generate, EngineStep, SearchReturns, RebuildStep, PrintPlan,
           Join, MonitorThread, MonitorTurn, MonitorStats, Ended, allVars, ownVars
  <2>3. OffersFit' /\ (Positive(problem)' => DropsFit')
    BY <2>2, AnswerKeepsDrops DEF Positive, Kept
  <2> QED
    BY <2>1, <2>3, AnswerKeepsLayer, AnswerKeepsReturn DEF AnswerInv
<1> QED
  BY <1>1, AnswerInit, SolverInvariant, PTL DEF Spec
-----------------------------------------------------------------------------
(* The heuristic called step by step and the heuristic as a function.      *)

(* The layers an estimation can have, whatever it starts from.             *)
AnyLayer ==
    [from     : VarState,
     bools    : SUBSET Vars,
     costs    : [Vars -> 0..Infinite],
     left     : SUBSET Steps,
     mode     : {"Normal", "Tail", "Failed"},
     tail     : Int,
     finished : BOOLEAN]

GrowOnce(tk, l) == IF l.finished THEN l ELSE Grow(tk, l)

LEMMA GrowType ==
    ASSUME IsTask(task), NEW l \in AnyLayer
    PROVE  GrowOnce(task, l) \in AnyLayer
<1>1. /\ l.from \in VarState /\ l.bools \subseteq Vars /\ l.left \subseteq Steps
      /\ l.costs \in [Vars -> 0..Infinite] /\ l.tail \in Int
      /\ l.mode \in {"Normal", "Tail", "Failed"} /\ l.finished \in BOOLEAN
  BY DEF AnyLayer
<1>2. GrownCosts(task, l) \in [Vars -> 0..Infinite]
  BY <1>1, GrownCostsType
<1>3. GrownBools(task, l) \subseteq Vars
  BY <1>1, TransitionParts DEF GrownBools, Ready
<1>4. Grow(task, l) \in AnyLayer
  <2> DEFINE g == Grow(task, l)
             solved == IsSolved(GrownBools(task, l), task.goal)
             stuck == ~ solved /\ GrownBools(task, l) = l.bools
  <2>1. /\ g.from = l.from /\ g.bools = GrownBools(task, l)
        /\ g.costs = GrownCosts(task, l) /\ g.left = l.left \ Ready(task, l)
        /\ g.mode = IF l.mode # "Normal" THEN l.mode
                    ELSE IF solved THEN "Tail"
                    ELSE IF stuck THEN "Failed" ELSE "Normal"
        /\ g.tail = IF l.mode = "Tail" THEN l.tail - 1 ELSE l.tail
        /\ g.finished = (\/ l.mode = "Normal" /\ stuck
                         \/ l.mode = "Tail" /\ l.tail = 1)
    BY DEF Grow, AnyLayer
  <2> HIDE DEF solved, stuck
  <2>2. /\ g.mode \in {"Normal", "Tail", "Failed"} /\ g.tail \in Int
        /\ g.finished \in BOOLEAN /\ g.left \subseteq Steps
    BY <1>1, <2>1
  <2> QED
    BY <1>1, <1>2, <1>3, <2>1, <2>2 DEF Grow, AnyLayer
<1> QED
  BY <1>4 DEF GrowOnce

(* The recursion by which LayersOf is defined.                             *)
LEMMA LayersSteps ==
    ASSUME IsTask(task), NEW s \in VarState
    PROVE  /\ LayersOf(task, s)[0] = FirstLayer(task, s)
           /\ \A n \in Nat :
                 LayersOf(task, s)[n + 1] = GrowOnce(task, LayersOf(task, s)[n])
<1> DEFINE step == [l \in AnyLayer |-> GrowOnce(task, l)]
           first == FirstLayer(task, s)
           layers == LayersOf(task, s)
<1>1. first \in AnyLayer
  BY GraphAssumption DEF FirstLayer, AnyLayer, VarState, GraphAssumption, Steps
<1>2. step \in [AnyLayer -> AnyLayer]
  BY GrowType
<1> HIDE DEF first
<1>3. PICK f \in [Nat -> AnyLayer] : f[0] = first /\ \A n \in Nat : f[n + 1] = step[f[n]]
  <2> HIDE DEF step
  <2> QED
    BY <1>1, <1>2, NatRecursion
<1>4. \A n \in Nat : f[n + 1] = GrowOnce(task, f[n])
  BY <1>3
<1>5. f = [n \in Nat |-> IF n = 0 THEN first ELSE GrowOnce(task, f[n - 1])]
  <2>1. ASSUME NEW n \in Nat
        PROVE  f[n] = IF n = 0 THEN first ELSE GrowOnce(task, f[n - 1])
    <3>1. CASE n = 0
      BY <3>1, <1>3
    <3>2. CASE n # 0
      <4>1. n - 1 \in Nat /\ (n - 1) + 1 = n
        BY <3>2
      <4>2. f[(n - 1) + 1] = GrowOnce(task, f[n - 1])
        BY <4>1, <1>4
      <4> QED
        BY <3>2, <4>1, <4>2
    <3> QED
      BY <3>1, <3>2
  <2> QED
    BY <2>1
<1>6. layers = [n \in Nat |-> IF n = 0 THEN first ELSE GrowOnce(task, layers[n - 1])]
  BY <1>5 DEF LayersOf, GrowOnce, first
<1> HIDE DEF layers
<1>7. layers[0] = first
  BY <1>6
<1>8. ASSUME NEW n \in Nat PROVE layers[n + 1] = GrowOnce(task, layers[n])
  <2>1. n + 1 \in Nat /\ n + 1 # 0 /\ (n + 1) - 1 = n
    OBVIOUS
  <2> QED
    BY <1>6, <2>1
<1> QED
  BY <1>7, <1>8 DEF layers, first

(* A layer that is finished is the last.                                   *)
LEMMA LayersStay ==
    ASSUME IsTask(task), NEW s \in VarState, NEW n \in Nat, LayersOf(task, s)[n].finished,
           NEW m \in Nat, n <= m
    PROVE  LayersOf(task, s)[m] = LayersOf(task, s)[n]
<1> DEFINE layers == LayersOf(task, s)
           Off == {k \in Nat : n <= k /\ layers[k] # layers[n]}
<1>1. \A k \in Nat : layers[k + 1] = GrowOnce(task, layers[k])
  BY LayersSteps
<1> HIDE DEF layers
<1> SUFFICES ASSUME Off # {} PROVE FALSE
  BY DEF layers
<1>2. PICK k \in Off : \A j \in Off : k <= j
  <2>1. Off \in SUBSET Nat
    OBVIOUS
  <2> HIDE DEF Off
  <2> QED
    BY <2>1, LeastElement
<1>3. k - 1 \in Nat /\ n <= k - 1 /\ ~ (k <= k - 1) /\ (k - 1) + 1 = k
  BY <1>2
<1>4. layers[k - 1] = layers[n]
  BY <1>2, <1>3
<1>5. layers[(k - 1) + 1] = GrowOnce(task, layers[k - 1])
  BY <1>1, <1>3
<1>6. layers[k] = layers[n]
  BY <1>3, <1>4, <1>5 DEF GrowOnce, layers
<1> QED
  BY <1>2, <1>6

(* The heuristic of the graph searched.                                    *)
HeuristicFits ==
    graph.h = [s \in VarState |-> Estimation(task, LayersOf(task, s)[LastLayer])]

(* The most turns a graph that still grows can have behind it.             *)
Room == Cardinality(layer.bools) + (IF layer.mode = "Tail" THEN 1 ELSE 0)

(* The estimation under way is the one of the function, so many turns on.  *)
LayerIsNth ==
    ~ Fresh => \E n \in Nat : /\ layer = LayersOf(task, layer.from)[n]
                              /\ n <= IF layer.finished THEN LastLayer ELSE Room

LEMMA GrowKeepsNth ==
    ASSUME GraphInv, LayerIsNth, GrowLayer
    PROVE  LayerIsNth'
<1>0. /\ IsTask(task) /\ layer \in LayerType /\ layer' \in LayerType
      /\ layer.from \in VarState /\ layer.tail = 1
      /\ ~ layer.finished /\ layer.mode \in {"Normal", "Tail"}
  <2>1. GraphInv' /\ task' = task
    BY GrowKeeps DEF GrowLayer
  <2> QED
    BY <2>1 DEF GraphInv, GraphTypeOK, LayerType, Steps, GrowLayer, FailedForGood
<1> DEFINE layers == LayersOf(task, layer.from)
<1>1. PICK n \in Nat : layer = layers[n] /\ n <= Room
  BY <1>0 DEF LayerIsNth, Fresh
<1>2. layer' = Grow(task, layer) /\ task' = task
  BY DEF GrowLayer
<1>3. layer' = layers[n + 1]
  <2>1. layers[n + 1] = GrowOnce(task, layers[n])
    BY <1>0, LayersSteps
  <2> HIDE DEF layers
  <2> QED
    BY <1>0, <1>1, <1>2, <2>1 DEF GrowOnce
<1>4. layer'.from = layer.from
  BY <1>0, <1>2 DEF Grow, LayerType
<1>5. n + 1 <= IF layer'.finished THEN LastLayer ELSE Room'
  <2> DEFINE bools == GrownBools(task, layer)
             solved == IsSolved(bools, task.goal)
  <2>1. /\ layer'.bools = bools
        /\ layer'.mode = IF layer.mode # "Normal" THEN layer.mode
                         ELSE IF solved THEN "Tail"
                         ELSE IF bools = layer.bools THEN "Failed" ELSE "Normal"
        /\ layer'.finished = (\/ layer.mode = "Normal" /\ ~ solved /\ bools = layer.bools
                              \/ layer.mode = "Tail" /\ layer.tail = 1)
    BY <1>0, <1>2 DEF Grow, LayerType
  <2>2. layer.bools \subseteq bools /\ bools \subseteq Vars
    BY <1>0, <2>1 DEF GrownBools, LayerType
  <2> HIDE DEF bools, solved
  <2>3. IsFiniteSet(Vars)
    BY CostAssumption DEF CostAssumption
  <2>4. /\ IsFiniteSet(bools) /\ Cardinality(bools) <= Cardinality(Vars)
    BY <2>2, <2>3, FS_Subset
  <2>5. /\ IsFiniteSet(layer.bools) /\ Cardinality(layer.bools) <= Cardinality(bools)
        /\ Cardinality(layer.bools) = Cardinality(bools) => layer.bools = bools
    BY <2>2, <2>4, FS_Subset
  <2>6. /\ Cardinality(bools) \in Nat /\ Cardinality(layer.bools) \in Nat
        /\ Cardinality(Vars) \in Nat
    BY <2>3, <2>4, <2>5, FS_CardinalityType
  <2>7. CASE layer.mode = "Tail"
    BY <1>0, <1>1, <2>1, <2>4, <2>5, <2>6, <2>7 DEF Room, LastLayer
  <2>8. CASE layer.mode = "Normal" /\ solved
    BY <1>0, <1>1, <2>1, <2>5, <2>6, <2>8 DEF Room
  <2>9. CASE layer.mode = "Normal" /\ ~ solved /\ bools = layer.bools
    BY <1>0, <1>1, <2>1, <2>4, <2>6, <2>9 DEF Room, LastLayer
  <2>10. CASE layer.mode = "Normal" /\ ~ solved /\ bools # layer.bools
    BY <1>0, <1>1, <2>1, <2>5, <2>6, <2>10 DEF Room
  <2> QED
    BY <1>0, <2>7, <2>8, <2>9, <2>10
<1>6. n + 1 \in Nat
  OBVIOUS
<1>7. layer' = LayersOf(task', layer'.from)[n + 1]
  BY <1>2, <1>3, <1>4
<1> QED
  BY <1>5, <1>6, <1>7 DEF LayerIsNth

LEMMA BeginKeepsNth ==
    ASSUME GraphInv, NEW s \in VarState, BeginEstimate(s)
    PROVE  LayerIsNth'
<1>1. /\ IsTask(task) /\ task' = task /\ layer' = FirstLayer(task, s)
      /\ layer'.from = s /\ layer'.bools \subseteq Vars
      /\ ~ layer'.finished /\ layer'.mode = "Normal"
  BY DEF GraphInv, GraphTypeOK, BeginEstimate, FirstLayer, VarState
<1>2. layer' = LayersOf(task', layer'.from)[0]
  BY <1>1, LayersSteps
<1>3. 0 <= Room'
  <2>1. IsFiniteSet(layer'.bools)
    BY <1>1, CostAssumption, FS_Subset DEF CostAssumption
  <2>2. Cardinality(layer'.bools) \in Nat
    BY <2>1, FS_CardinalityType
  <2> QED
    BY <1>1, <2>2 DEF Room
<1>4. 0 <= IF layer'.finished THEN LastLayer ELSE Room'
  BY <1>1, <1>3
<1> QED
  BY <1>2, <1>4 DEF LayerIsNth

LEMMA NthStep == GraphInv /\ LayerIsNth /\ [GraphNext]_graphVars => LayerIsNth'
<1> SUFFICES ASSUME GraphInv, LayerIsNth, [GraphNext]_graphVars PROVE LayerIsNth'
  OBVIOUS
<1>1. CASE GrowLayer
  BY <1>1, GrowKeepsNth
<1>2. CASE \E s \in VarState : BeginEstimate(s)
  BY <1>2, BeginKeepsNth
<1>3. CASE UNCHANGED graphVars
  BY <1>3 DEF graphVars, LayerIsNth, Fresh, Room
<1> QED
  BY <1>1, <1>2, <1>3 DEF GraphNext

(* What the steps of an estimation arrive at is what the function gives.   *)
LEMMA AnsweredAsFunction ==
    ASSUME GraphInv, LayerIsNth, HeuristicFits, layer.finished, ~ Fresh
    PROVE  Estimation(task, layer) = graph.h[layer.from]
<1>1. PICK n \in Nat : layer = LayersOf(task, layer.from)[n] /\ n <= LastLayer
  BY DEF LayerIsNth
<1>2. IsTask(task) /\ layer.from \in VarState
  BY DEF GraphInv, GraphTypeOK, LayerType
<1>3. LastLayer \in Nat
  BY CostAssumption, FS_CardinalityType DEF CostAssumption, LastLayer
<1>4. LayersOf(task, layer.from)[LastLayer] = layer
  BY <1>1, <1>2, <1>3, LayersStay
<1> QED
  BY <1>2, <1>4 DEF HeuristicFits
-----------------------------------------------------------------------------
(* What a planner promises. *)

(* The planner only ever uses the planning graph as PlanningGraph allows:  *)
(* what is shown of that module holds here (serial_engine.h:72 and :86).   *)
THEOREM PlannerRunsGraph == Spec => GraphSpec
<1>1. Init => GraphInit
  BY SolverAssumption DEF Init, GraphInit, SolverAssumption
<1> QED
  BY <1>1, SolverInvariant, SolverStepsGraph, PTL DEF Spec, GraphSpec

(* Whatever the heuristic takes for a dead end during a search is one,     *)
(* when no condition is negative.                                          *)
THEOREM PlannerDeadEnds == Spec => []DeadEndIsClosed
BY PlannerRunsGraph, DeadEndsAreClosed, PTL

(* The plan printed is a plan of the PDDL problem, for every problem whose *)
(* meaning the converter keeps.                                            *)
THEOREM PlannerPlanIsValid == Spec => []PlanIsValid
<1>1. SolverInv => PlanIsValid
  <2> SUFFICES ASSUME SolverInv, Answered, Found, Kept(problem)
               PROVE  /\ Len(trail) = Len(plan) + 1
                      /\ trail[1].bools = problem.init
                      /\ \A n \in 1..Len(plan) :
                            /\ OpApplies(plan[n], trail[n].bools)
                            /\ OpResult(plan[n], trail[n].bools) = trail[n + 1].bools
                      /\ GoalHolds(problem, trail[Len(trail)].bools)
    BY DEF PlanIsValid
  <2>1. /\ TaskFits /\ phase = "done"
        /\ Len(trail) = Len(plan) + 1
        /\ \A n \in 1..Len(plan) : \E i \in Between(trail[n], trail[n + 1]) :
              plan[n] = task.transitions[i].name
    <3>1. phase # "init"
      BY DEF SolverInv, MainFits, Found
    <3> QED
      BY <3>1 DEF SolverInv, MainFits, PlanFits, Answered
  <2>2. trail[1].bools = problem.init
    <3>1. TaskOf(problem).initial = trail[1]
      BY <2>1, PathIsPlan, SolverAssumption DEF TaskFits, SolverAssumption
    <3> QED
      BY <3>1 DEF TaskOf
  <2>3. ASSUME NEW n \in 1..Len(plan)
        PROVE  /\ OpApplies(plan[n], trail[n].bools)
               /\ OpResult(plan[n], trail[n].bools) = trail[n + 1].bools
    BY <2>1, OperatorBetween
  <2>4. GoalHolds(problem, trail[Len(trail)].bools)
    <3> DEFINE bits == trail[Len(trail)].bools
    <3>1. IsSolved(bits, task.goal)
      BY <2>1, PathIsPlan DEF TaskFits
    <3>2. /\ task.goal.value = problem.goalPos /\ problem.goalNeg = {}
          /\ task.goal.mask = problem.goalPos \cup problem.goalNeg
      BY <2>1 DEF TaskFits, TaskOf, Kept
    <3> HIDE DEF bits
    <3>3. bits \cap problem.goalPos = problem.goalPos
      BY <3>1, <3>2 DEF IsSolved, EqualMasked
    <3> QED
      BY <3>2, <3>3 DEF GoalHolds, bits
  <2> QED
    BY <2>1, <2>2, <2>3, <2>4
<1> QED
  BY <1>1, SolverInvariant, PTL

(* Only a cost that nobody can compute terminates the process; the plan    *)
(* can always be rebuilt (transition_system.h, difference).                *)
THEOREM PlannerAbortsOnlyUnpriced == Spec => []AbortsOnlyUnpriced
BY SolverInvariant, PTL DEF SolverInv

(* The monitor never looks at an engine that is gone (state_space_solver.h,*)
(* select_engine and monitoring_loop).                                     *)
THEOREM PlannerOutlivesMonitor == Spec => []EngineOutlivesMonitor
BY SolverInvariant, PTL DEF SolverInv, MonitorFits

(* What the search has met when it gives up.                               *)
Met == KnownStates \cup {s \in VarState : Hopeless(s)}

LEMMA MetIsClosed ==
    ASSUME SolverInv, AnswerInv, Positive(problem), phase = "done", ~ Found, pending = << >>
    PROVE  /\ Met \in SUBSET VarState /\ InitState \in Met
           /\ \A s \in Met :
                 /\ ~ IsSolved(s.bools, task.goal)
                 /\ \A i \in Steps : Available(s.bools, task.transitions[i]) =>
                                         Apply(s, task.transitions[i]) \in Met
<1> USE DEF SolverInv, PathInv
<1>1. /\ todo = {} /\ QueuedIds = {} /\ DropsFit /\ OffersFit /\ States = VarState
      /\ TaskFits
  BY SolverAssumption DEF LoopIsOver, LoopEnds, QueueEmpty, Found, QueuedIds, Members,
                          AnswerInv, SolverAssumption
<1>2. KnownStates \in SUBSET VarState
  <2>1. \A i \in Ids : log[i] \in NodeType
    BY DEF TypeOK, Ids
  <2> QED
    BY <2>1, <1>1 DEF KnownStates, NodeType
<1>3. InitState \in KnownStates
  <2>1. log # << >> /\ log \in Seq(NodeType)
    BY DEF RootLogged, TypeOK
  <2>2. 1 \in Ids
    BY <2>1 DEF Ids
  <2>3. log[1].state = InitState
    <3>1. log[1] = Node(InitState, 1, 0)
      BY <2>2 DEF LogIsTree
    <3> QED
      BY <3>1 DEF Node
  <2> QED
    BY <2>2, <2>3 DEF KnownStates
<1>4. ASSUME NEW s \in KnownStates PROVE ~ IsSolved(s.bools, task.goal)
  <2>1. s \notin graph.goals
    BY DEF GoalsAside, KnownStates
  <2> QED
    BY <2>1, <1>1, <1>2 DEF TaskFits
<1>5. ASSUME NEW s \in KnownStates, NEW i \in Steps, Available(s.bools, task.transitions[i])
      PROVE  Apply(s, task.transitions[i]) \in Met
  <2> DEFINE t == task.transitions[i]
             e == <<s, Apply(s, t), TransitionCost(t)>>
  <2>1. i \in Offered(task, s)
    BY <1>1, <1>5 DEF Offered, OffersFit, Steps
  <2>2. e \in graph.edges
    BY <2>1, <1>1, <1>2 DEF TaskFits, EdgesOf
  <2>3. PICK n \in Ids : s = log[n].state
    BY DEF KnownStates
  <2>4. e \in OutEdges(log[n].state) /\ s \notin graph.goals
    BY <2>2, <2>3 DEF OutEdges, GoalsAside, Found
  <2>5. e[2] \in db
    BY <2>3, <2>4, <1>1 DEF NothingSkipped
  <2>6. Apply(s, t) \in db /\ Apply(s, t) \in VarState
    BY <2>5, <1>1 DEF TypeOK
  <2> QED
    BY <2>6, <1>1 DEF DropsFit, Met
<1>6. ASSUME NEW s \in VarState, Hopeless(s)
      PROVE  /\ ~ IsSolved(s.bools, task.goal)
             /\ \A i \in Steps : Available(s.bools, task.transitions[i]) =>
                                     Apply(s, task.transitions[i]) \in Met
  <2>1. PICK C \in SUBSET VarState :
            /\ s \in C
            /\ \A u \in C :
                  /\ ~ IsSolved(u.bools, task.goal)
                  /\ \A i \in Steps : Available(u.bools, task.transitions[i]) =>
                                          Apply(u, task.transitions[i]) \in C
    BY <1>6 DEF Hopeless
  <2>2. \A u \in C : u \in VarState /\ Hopeless(u)
    BY <2>1 DEF Hopeless
  <2> QED
    BY <2>1, <2>2 DEF Met
<1> QED
  BY <1>2, <1>3, <1>4, <1>5, <1>6 DEF Met

(* When the planner says so there is no plan, for every problem without    *)
(* negative literals: the open list ran empty and the planning graph gave  *)
(* up only dead ends (serial_engine.h:91, planning_graph_heuristic.h).     *)
THEOREM PlannerNotFound == Spec => []NotFoundMeansNoPlan
<1>1. SolverInv /\ AnswerInv => NotFoundMeansNoPlan
  <2> SUFFICES ASSUME SolverInv, AnswerInv, Answered, ~ Found, Known, Positive(problem)
               PROVE  \E C \in SUBSET SUBSET Vars :
                         OpClosed(C) /\ \A b \in C : ~ GoalHolds(problem, b)
    BY DEF NotFoundMeansNoPlan
  <2>1. phase = "done" /\ pending = << >> /\ TaskFits
    BY DEF SolverInv, MainFits, AnswerInv, ReturnFits, PendingFits, Answered
  <2>2. /\ Met \in SUBSET VarState /\ InitState \in Met
        /\ \A s \in Met :
              /\ ~ IsSolved(s.bools, task.goal)
              /\ \A i \in Steps : Available(s.bools, task.transitions[i]) =>
                                      Apply(s, task.transitions[i]) \in Met
    BY <2>1, MetIsClosed
  <2> DEFINE C == {s.bools : s \in Met}
  <2>3. C \in SUBSET SUBSET Vars
    BY <2>2 DEF VarState
  <2>4. problem.init \in C
    <3>1. TaskOf(problem).initial = InitState
      BY <2>1, SolverAssumption DEF TaskFits, SolverAssumption
    <3>2. InitState.bools = problem.init
      BY <3>1 DEF TaskOf
    <3> QED
      BY <3>2, <2>2
  <2>5. ASSUME NEW s \in Met, NEW i \in DOMAIN problem.ops, OpApplies(problem.ops[i], s.bools)
        PROVE  OpResult(problem.ops[i], s.bools) \in C
    <3> DEFINE op == problem.ops[i]
    <3>1. /\ op.pos \subseteq s.bools /\ op.metric.kind # "unknown"
          /\ op.neg = {} /\ op.add \cap op.del = {}
      BY <2>5 DEF OpApplies, Positive, Kept
    <3>2. i \in Steps /\ task.transitions[i] = TransitionOf(op)
      BY <3>1, <2>1 DEF Steps, TaskFits, TaskOf, TransitionsOf
    <3> HIDE DEF op
    <3>3. Available(s.bools, TransitionOf(op))
      BY <3>1 DEF Available, EqualMasked, TransitionOf
    <3>4. Apply(s, TransitionOf(op)).bools = OpResult(op, s.bools)
      BY <3>1 DEF Apply, SetMasked, TransitionOf, OpResult
    <3>5. Apply(s, TransitionOf(op)) \in Met
      BY <3>2, <3>3, <2>2
    <3> QED
      BY <3>4, <3>5 DEF op
  <2>6. ASSUME NEW s \in Met PROVE ~ GoalHolds(problem, s.bools)
    <3>1. ~ IsSolved(s.bools, task.goal)
      BY <2>2
    <3>2. task.goal.value = problem.goalPos /\ task.goal.mask = problem.goalPos
      BY <2>1 DEF TaskFits, TaskOf, Positive, Kept
    <3> QED
      BY <3>1, <3>2 DEF IsSolved, EqualMasked, GoalHolds
  <2>7. OpClosed(C) /\ \A b \in C : ~ GoalHolds(problem, b)
    BY <2>4, <2>5, <2>6 DEF OpClosed
  <2> QED
    BY <2>3, <2>7
<1> QED
  BY <1>1, SolverInvariant, AnswerInvariant, PTL
-----------------------------------------------------------------------------
(* The planner's search is the search of heuristic_engine.                 *)

(* The operators of the instance that do not look at the state set.        *)
LEMMA SameParts ==
    /\ \A s, n, len : Search!Node(s, n, len) = Node(s, n, len)
    /\ \A len, est : Search!Priority(len, est) = Priority(len, est)
    /\ \A node : Search!CreateNode(node) <=> CreateNode(node)
    /\ \A node, prio : Search!Enqueue(node, prio) <=> Enqueue(node, prio)
<1>1. \A s, n, len : Search!Node(s, n, len) = Node(s, n, len)
  BY DEF Search!Node, Node
<1>2. \A len, est : Search!Priority(len, est) = Priority(len, est)
  BY DEF Search!Priority, Priority, Search!AStarKey, AStarKey, Search!GreedyKey, GreedyKey,
         Search!BfsKey, BfsKey, Search!DfsKey, DfsKey
<1>3. \A node : Search!CreateNode(node) <=> CreateNode(node)
  BY DEF Search!CreateNode, CreateNode
<1>4. \A q, p, x : Search!Push(q, p, x) = Push(q, p, x)
  BY DEF Search!Push, Push
<1>5. \A node, prio : Search!Enqueue(node, prio) <=> Enqueue(node, prio)
  BY <1>4 DEF Search!Enqueue, Enqueue
<1> QED
  BY <1>1, <1>2, <1>3, <1>5

LEMMA SameEngine ==
    ASSUME pending = << >>, pending' = << >>, Dequeue \/ Finalize \/ BacktraceStep
    PROVE  Search!Dequeue \/ Search!Finalize \/ Search!BacktraceStep
<1>1. \A q : /\ Search!QueueEmpty(q) = QueueEmpty(q)
             /\ Search!BestPriority(q) = BestPriority(q)
  BY DEF Search!QueueEmpty, QueueEmpty, Search!BestPriority, BestPriority
<1>2. \A q : Search!Top(q) = Top(q) /\ Search!Pop(q) = Pop(q)
  BY <1>1 DEF Search!Top, Top, Search!Pop, Pop
<1>3. \A s : Search!OutEdges(s) = OutEdges(s)
  BY DEF Search!OutEdges, OutEdges
<1>4. Search!LoopEnds <=> LoopEnds
  BY <1>1 DEF Search!LoopEnds, LoopEnds
<1>5. CASE Dequeue
  BY <1>2, <1>3, <1>4, <1>5 DEF Search!Dequeue, Dequeue
<1>6. CASE Finalize
  BY <1>4, <1>6 DEF Search!Finalize, Finalize
<1>7. CASE BacktraceStep
  BY <1>7 DEF Search!BacktraceStep, BacktraceStep
<1> QED
  BY <1>5, <1>6, <1>7

LEMMA SearchInit == Init => Search!EngineInit
BY DEF Init, EngineInit, Search!EngineInit, Search!NoLayers, NoLayers

(* The state asked about enters the state set when the answer is there.    *)
LEMMA SearchStep ==
    SolverInv /\ AnswerInv /\ HeuristicFits /\ LayerIsNth /\ [Next]_allVars
        => [Search!HeuristicNext]_(Search!vars)
<1> SUFFICES ASSUME SolverInv, AnswerInv, HeuristicFits, LayerIsNth, [Next]_allVars
             PROVE  [Search!HeuristicNext]_(Search!vars)
  OBVIOUS
<1>0. /\ PendingFits /\ LayerFits /\ TypeOK /\ GraphInv
      /\ phase = "init" => db = {}
  BY DEF SolverInv, AnswerInv, PathInv, RootLogged
<1>1. CASE Start
  <2>1. /\ pending # << >> /\ pending' = << >>
        /\ Estimation(task, layer) = graph.h[InitState]
    BY <1>0, <1>1, AnsweredAsFunction DEF Start, Estimated, Estimating, LayerFits
  <2>2. Search!HeuristicStart
    BY <1>1, <2>1, SameParts DEF Start, Search!HeuristicStart
  <2> QED
    BY <2>2 DEF Search!HeuristicNext
<1>2. ASSUME NEW e \in todo, Skip(e) PROVE Search!HeuristicNext
  <2>1. pending = << >> /\ pending' = << >> /\ db \cup {e[2]} = db
    BY <1>2 DEF Skip, Searching, ownVars
  <2>2. Search!HeuristicGenerate(e)
    BY <1>2, <2>1 DEF Skip, Search!HeuristicGenerate
  <2> QED
    BY <2>2 DEF Search!HeuristicNext
<1>3. ASSUME NEW e \in todo, Visit(e) PROVE UNCHANGED Search!vars
  <2>1. /\ pending = << >> /\ pending' = e /\ db' = db \cup {e[2]} /\ e[2] \notin db
    BY <1>3 DEF Visit, Searching
  <2>2. e # << >>
    BY <1>0, EdgeIsTriple
  <2>3. db' \ {pending'[2]} = db
    BY <2>1
  <2> QED
    BY <1>3, <2>1, <2>2, <2>3 DEF Visit, Search!vars
<1>4. CASE Generate
  <2>1. /\ phase = "search" /\ pending # << >> /\ pending' = << >>
        /\ pending \in todo /\ pending[2] \in db
        /\ Estimation(task, layer) = graph.h[pending[2]]
    BY <1>0, <1>4, AnsweredAsFunction
       DEF Generate, Estimated, Estimating, LayerFits, PendingFits
  <2>2. /\ pending[2] \notin db \ {pending[2]}
        /\ db' = (db \ {pending[2]}) \cup {pending[2]}
    BY <1>4, <2>1 DEF Generate
  <2>3. Search!HeuristicGenerate(pending)
    BY <1>4, <2>1, <2>2, SameParts DEF Generate, Search!HeuristicGenerate
  <2> QED
    BY <2>1, <2>3 DEF Search!HeuristicNext
<1>5. CASE EngineStep
  <2>1. pending = << >> /\ pending' = << >>
    BY <1>5 DEF EngineStep, Searching, ownVars
  <2>2. Dequeue \/ Finalize \/ BacktraceStep
    BY <1>5 DEF EngineStep
  <2> QED
    BY <2>1, <2>2, SameEngine DEF Search!HeuristicNext
<1>6. CASE EstimateRoot
  <2>1. /\ pending = << >> /\ db = {} /\ UNCHANGED vars
    BY <1>0, <1>6 DEF EstimateRoot, Searching
  <2> QED
    BY <2>1 DEF Search!vars, vars
<1>7. CASE \/ SelectMemory \/ EstimateLayer \/ EstimateThrows \/ SearchReturns
           \/ RebuildStep \/ PrintPlan \/ Join \/ MonitorThread \/ Ended
           \/ UNCHANGED allVars
  <2>1. UNCHANGED <<vars, pending>>
    BY <1>7 DEF SelectMemory, EstimateLayer, EstimateThrows, SearchReturns, RebuildStep,
                PrintPlan, Join, MonitorThread, MonitorTurn, MonitorStats, Ended, allVars,
                vars, ownVars
  <2> QED
    BY <2>1 DEF Search!vars, vars
<1> QED
  BY <1>1, <1>2, <1>3, <1>4, <1>5, <1>6, <1>7 DEF Next, SearchThread

(* The planner's search is that of heuristic_engine: the heuristic, asked  *)
(* layer by layer for one state at a time, answers what the graph searched *)
(* says, and the state asked about counts as met when it has answered      *)
(* (serial_engine.h, heuristic_engine).                                    *)
THEOREM PlannerImplementsEngine == Spec => RefinesHeuristicEngine
<1>1. Init => HeuristicFits /\ LayerIsNth
  BY DEF Init, GraphOf, HeuristicFits, LayerIsNth, Fresh, NoLayer
<1>2. SolverInv /\ HeuristicFits /\ LayerIsNth /\ [Next]_allVars
        => HeuristicFits' /\ LayerIsNth'
  <2> SUFFICES ASSUME SolverInv, HeuristicFits, LayerIsNth, [Next]_allVars
               PROVE  HeuristicFits' /\ LayerIsNth'
    OBVIOUS
  <2>1. UNCHANGED <<task, graph>>
    BY DEF Next, SearchThread, SelectMemory, EstimateRoot, EstimateLayer, EstimateThrows,
           Start, Skip, Visit, Generate, EngineStep, Dequeue, Finalize, BacktraceStep,
           SearchReturns, RebuildStep, PrintPlan, Join, MonitorThread, MonitorTurn,
           MonitorStats, Ended, allVars, vars, graphVars, ownVars, BeginEstimate, GrowLayer
  <2> QED
    BY <2>1, SolverStepsGraph, NthStep DEF SolverInv, HeuristicFits
<1>3. Spec => Search!EngineInit /\ [][Search!HeuristicNext]_(Search!vars)
  BY <1>1, <1>2, SearchInit, SearchStep, SolverInvariant, AnswerInvariant, PTL DEF Spec
<1> QED
  BY <1>3 DEF RefinesHeuristicEngine, Search!HeuristicSpec
-----------------------------------------------------------------------------
(* The cost of the plan.                                                   *)

(* The path collected comes from the log, and its end is the goal found.   *)
TrailIsLogged ==
    /\ \A n \in 1..Len(trail) : trail[n] \in KnownStates
    /\ phase = "backtrace" =>
          /\ Found
          /\ IF trail = << >> THEN walk = goalNodes[1]
             ELSE trail[Len(trail)] = log[goalNodes[1]].state
    /\ phase = "done" /\ Found =>
          trail # << >> /\ trail[Len(trail)] = log[goalNodes[1]].state

LEMMA BacktraceKeepsLogged ==
    ASSUME PathInv, TrailIsLogged, BacktraceStep
    PROVE  TrailIsLogged'
<1>1. /\ phase = "backtrace" /\ walk \in Ids /\ trail \in Seq(States)
      /\ UNCHANGED <<log, goalNodes>> /\ Found
      /\ trail' = <<log[walk].state>> \o trail /\ phase' \in {"backtrace", "done"}
      /\ log[walk].state \in States
  <2>1. walk \in Ids /\ log \in Seq(NodeType)
    BY DEF BacktraceStep, PathInv, TrailLeads, TypeOK
  <2>2. log[walk] \in NodeType
    BY <2>1 DEF Ids
  <2>3. log[walk].state \in States
    BY <2>2 DEF NodeType
  <2> QED
    BY <2>1, <2>3 DEF BacktraceStep, PathInv, TypeOK, TrailIsLogged
<1>2. /\ Len(trail') = Len(trail) + 1 /\ Len(trail) \in Nat /\ trail' # << >>
      /\ trail'[1] = log[walk].state
      /\ \A n \in 1..Len(trail) : trail'[n + 1] = trail[n]
  BY <1>1
<1>3. KnownStates' = KnownStates /\ log[walk].state \in KnownStates /\ Found'
  BY <1>1 DEF KnownStates, Ids, Found
<1>4. ASSUME NEW n \in 1..Len(trail') PROVE trail'[n] \in KnownStates
  <2>1. CASE n = 1
    BY <2>1, <1>2, <1>3
  <2>2. CASE n # 1
    <3>1. n - 1 \in 1..Len(trail) /\ (n - 1) + 1 = n
      BY <2>2, <1>2
    <3>2. trail'[(n - 1) + 1] = trail[n - 1]
      BY <3>1, <1>2
    <3> QED
      BY <3>1, <3>2 DEF TrailIsLogged
  <2> QED
    BY <2>1, <2>2
<1>5. trail'[Len(trail')] = log[goalNodes[1]].state
  <2>1. CASE trail = << >>
    BY <2>1, <1>1, <1>2 DEF TrailIsLogged
  <2>2. CASE trail # << >>
    <3>1. Len(trail) \in 1..Len(trail)
      BY <2>2, <1>1
    <3> QED
      BY <3>1, <2>2, <1>1, <1>2 DEF TrailIsLogged
  <2> QED
    BY <2>1, <2>2
<1> QED
  BY <1>1, <1>2, <1>3, <1>4, <1>5 DEF TrailIsLogged

LEMMA LoggedInit == Init => TrailIsLogged
BY DEF Init, EngineInit, TrailIsLogged

LEMMA LoggedStep == SolverInv /\ TrailIsLogged /\ [Next]_allVars => TrailIsLogged'
<1> SUFFICES ASSUME SolverInv, TrailIsLogged, [Next]_allVars PROVE TrailIsLogged'
  OBVIOUS
<1>0. PathInv /\ PendingFits /\ (phase \in {"init", "search"} => trail = << >>)
  BY DEF SolverInv, PathInv, TrailLeads
<1>1. CASE Start \/ Generate \/ (\E e \in todo : Skip(e) \/ Visit(e))
  <2>1. phase' = "search" /\ trail' = << >>
    BY <1>0, <1>1 DEF Start, Generate, Skip, Visit
  <2>2. Len(trail') = 0
    BY <2>1
  <2> QED
    BY <2>1, <2>2 DEF TrailIsLogged
<1>2. CASE EngineStep
  <2>1. CASE Dequeue
    <3>1. phase' = "search" /\ trail' = << >>
      BY <1>0, <2>1 DEF Dequeue
    <3>2. Len(trail') = 0
      BY <3>1
    <3> QED
      BY <3>1, <3>2 DEF TrailIsLogged
  <2>2. CASE Finalize
    <3>1. /\ trail' = << >> /\ UNCHANGED <<log, goalNodes>>
          /\ IF Found THEN phase' = "backtrace" /\ walk' = goalNodes[1]
             ELSE phase' = "done"
      BY <1>0, <2>2 DEF Finalize, Found
    <3>2. Len(trail') = 0
      BY <3>1
    <3> QED
      BY <3>1, <3>2 DEF TrailIsLogged, Found
  <2>3. CASE BacktraceStep
    BY <1>0, <2>3, BacktraceKeepsLogged
  <2> QED
    BY <1>2, <2>1, <2>2, <2>3 DEF EngineStep
<1>3. CASE \/ SelectMemory \/ EstimateRoot \/ EstimateLayer \/ EstimateThrows
           \/ SearchReturns \/ RebuildStep \/ PrintPlan \/ Join \/ MonitorThread
           \/ Ended \/ UNCHANGED allVars
  <2>1. UNCHANGED vars
    BY <1>3 DEF SelectMemory, EstimateRoot, EstimateLayer, EstimateThrows,
                SearchReturns, RebuildStep, PrintPlan, Join, MonitorThread,
                MonitorTurn, MonitorStats, Ended, allVars
  <2> QED
    BY <2>1 DEF vars, TrailIsLogged, KnownStates, Ids, Found
<1> QED
  BY <1>1, <1>2, <1>3 DEF Next, SearchThread

(* A transition that has a cost adds it to the total, up to the total in   *)
(* which costs are lost.                                                   *)
LEMMA TotalGrows ==
    ASSUME TaskFits, NEW s \in VarState, NEW i \in Steps,
           ~ CostThrows(task.transitions[i]), NEW n \in Nat,
           s.total = LesserFloat(n, Precision)
    PROVE  LET cost == TransitionCost(task.transitions[i])
           IN  /\ cost \in Nat
               /\ Apply(s, task.transitions[i]).total = LesserFloat(n + cost, Precision)
<1> DEFINE metric == task.transitions[i].metric
<1>1. metric \in Metric /\ metric.kind \in {"none", "increase"}
  <2>1. /\ problem.ops[i] \in Operator /\ problem.ops[i].metric.kind # "unknown"
        /\ task.transitions[i] = TransitionOf(problem.ops[i])
    BY ConvertedTransition
  <2> QED
    BY <2>1 DEF TransitionOf, Operator, Metric, CostThrows
<1>2. s.total \in Nat /\ s.total <= Precision /\ Precision \in Nat
  BY GraphAssumption DEF VarState, GraphAssumption
<1>3. metric.amount \in Nat
  BY <1>1 DEF Metric
<1>4. TransitionCost(task.transitions[i]) =
          IF metric.kind = "increase" THEN metric.amount ELSE 0
  BY DEF TransitionCost
<1>5. Apply(s, task.transitions[i]).total =
          IF metric.kind = "increase"
          THEN LesserFloat(s.total + metric.amount, Precision) ELSE s.total
  BY <1>1 DEF Apply, ApplyMetric
<1> HIDE DEF metric
<1> QED
  BY <1>1, <1>2, <1>3, <1>4, <1>5 DEF LesserFloat

(* The total of a state with a node is the length of the node.             *)
LEMMA TotalIsLength ==
    ASSUME SolverInv, NEW i \in Ids
    PROVE  log[i].state.total = LesserFloat(log[i].len, Precision)
<1> DEFINE Other == {j \in Ids : log[j].state.total # LesserFloat(log[j].len, Precision)}
<1> SUFFICES ASSUME Other # {} PROVE FALSE
  OBVIOUS
<1>1. PICK j \in Other : \A k \in Other : j <= k
  <2>1. Other \in SUBSET Nat
    BY DEF Ids
  <2> HIDE DEF Other
  <2> QED
    BY <2>1, LeastElement
<1>2. /\ TaskFits /\ LogIsTree /\ log \in Seq(NodeType) /\ j \in Ids
      /\ States = VarState /\ Precision \in Nat
      /\ log[j].state.total # LesserFloat(log[j].len, Precision)
  BY SolverAssumption, GraphAssumption
     DEF SolverInv, PathInv, TypeOK, SolverAssumption, GraphAssumption
<1>3. \A k \in Ids : /\ log[k].state \in VarState /\ log[k].len \in Nat
                     /\ log[k].parent \in Nat \ {0}
  <2>1. \A k \in Ids : log[k] \in NodeType
    BY <1>2 DEF Ids
  <2> QED
    BY <2>1, <1>2 DEF NodeType
<1>4. CASE j = 1
  <2>0. log[j] = Node(InitState, 1, 0)
    BY <1>2, <1>4 DEF LogIsTree
  <2>1. log[j].state = InitState /\ log[j].len = 0
    BY <2>0 DEF Node
  <2>2. InitState.total = 0
    BY <1>2, SolverAssumption DEF TaskFits, SolverAssumption, TaskOf
  <2> QED
    BY <1>2, <2>1, <2>2 DEF LesserFloat
<1>5. CASE j # 1
  <2> DEFINE k == log[j].parent
             e == <<log[k].state, log[j].state, log[j].len - log[k].len>>
  <2>1. k < j /\ e \in graph.edges
    BY <1>2, <1>5 DEF LogIsTree
  <2>2. k \in Ids /\ ~ (j <= k)
    BY <2>1, <1>2, <1>3 DEF Ids
  <2>3. log[k].state.total = LesserFloat(log[k].len, Precision)
    BY <2>2, <1>1
  <2>4. PICK u \in VarState : e \in
            {<<u, Apply(u, task.transitions[n]), TransitionCost(task.transitions[n])>> :
                n \in Offered(task, u)}
    BY <2>1, <1>2 DEF TaskFits, EdgesOf
  <2>5. PICK n \in Offered(task, u) :
            e = <<u, Apply(u, task.transitions[n]), TransitionCost(task.transitions[n])>>
    BY <2>4
  <2>6. /\ u = log[k].state /\ log[j].state = Apply(u, task.transitions[n])
        /\ log[j].len - log[k].len = TransitionCost(task.transitions[n])
        /\ n \in Steps /\ ~ CostThrows(task.transitions[n])
    BY <2>5 DEF Offered, Steps
  <2>7. log[k].len \in Nat /\ log[j].len \in Nat
    BY <1>2, <1>3, <2>2
  <2> HIDE DEF k, e
  <2>8. /\ TransitionCost(task.transitions[n]) \in Nat
        /\ log[j].state.total = LesserFloat(
               log[k].len + TransitionCost(task.transitions[n]), Precision)
    BY <1>2, <2>3, <2>6, <2>7, TotalGrows
  <2>9. log[k].len + TransitionCost(task.transitions[n]) = log[j].len
    BY <2>6, <2>7, <2>8
  <2> QED
    BY <1>2, <2>8, <2>9
<1> QED
  BY <1>4, <1>5

(* Whatever is added up, there is a function that has the partial sums.    *)
LEMMA SumsExist ==
    ASSUME NEW c
    PROVE  \E f : f = [n \in Nat |-> IF n = 0 THEN 0 ELSE f[n - 1] + c[n]]
<1> DEFINE Upto(f, n) == f = [i \in 0..n |-> IF i = 0 THEN 0 ELSE f[i - 1] + c[i]]
<1>1. \A n \in Nat : \E f : Upto(f, n)
  <2> DEFINE Without == {n \in Nat : ~ \E f : Upto(f, n)}
  <2> SUFFICES ASSUME Without # {} PROVE FALSE
    OBVIOUS
  <2>1. PICK n \in Without : \A m \in Without : n <= m
    <3> HIDE DEF Upto
    <3>1. Without \in SUBSET Nat
      OBVIOUS
    <3> HIDE DEF Without
    <3> QED
      BY <3>1, LeastElement
  <2>2. CASE n = 0
    <3> DEFINE f == [i \in 0..0 |-> 0]
    <3>1. f = [i \in 0..0 |-> IF i = 0 THEN 0 ELSE f[i - 1] + c[i]]
      OBVIOUS
    <3> HIDE DEF f
    <3>2. Upto(f, 0)
      BY <3>1
    <3> QED
      BY <2>2, <3>2
  <2>3. CASE n # 0
    <3>1. n \in Nat /\ n - 1 \in Nat /\ ~ (n <= n - 1)
      BY <2>3
    <3>2. PICK f : Upto(f, n - 1)
      <4>1. n - 1 \notin Without
        BY <2>1, <3>1
      <4> QED
        BY <3>1, <4>1
    <3> DEFINE g == [i \in 0..n |-> IF i = n THEN f[n - 1] + c[n] ELSE f[i]]
    <3>3. ASSUME NEW i \in 0..n
          PROVE  g[i] = IF i = 0 THEN 0 ELSE g[i - 1] + c[i]
      <4>1. CASE i = n
        <5>1. n - 1 \in 0..n /\ n - 1 # n /\ n \in 0..n
          BY <3>1
        <5>2. g[n] = f[n - 1] + c[n] /\ g[n - 1] = f[n - 1]
          BY <5>1
        <5> QED
          BY <4>1, <5>2, <2>3
      <4>2. CASE i # n
        <5>1. i \in 0..(n - 1) /\ (i # 0 => i - 1 \in 0..n /\ i - 1 # n)
          BY <3>1, <4>2
        <5>2. f[i] = IF i = 0 THEN 0 ELSE f[i - 1] + c[i]
          BY <3>2, <5>1
        <5>3. g[i] = f[i] /\ (i # 0 => g[i - 1] = f[i - 1])
          BY <4>2, <5>1
        <5> HIDE DEF g
        <5> QED
          BY <5>2, <5>3
      <4> QED
        BY <4>1, <4>2
    <3>4. g = [i \in 0..n |-> g[i]]
      OBVIOUS
    <3> HIDE DEF g
    <3>5. g = [i \in 0..n |-> IF i = 0 THEN 0 ELSE g[i - 1] + c[i]]
      BY <3>3, <3>4
    <3> QED
      BY <3>5, <2>1
  <2> QED
    BY <2>2, <2>3
<1>2. ASSUME NEW f, NEW g, NEW n \in Nat, NEW m \in Nat, Upto(f, n), Upto(g, m), n <= m
      PROVE  \A i \in 0..n : f[i] = g[i]
  <2> DEFINE Apart == {i \in 0..n : f[i] # g[i]}
  <2> SUFFICES ASSUME Apart # {} PROVE FALSE
    OBVIOUS
  <2>1. PICK i \in Apart : \A j \in Apart : i <= j
    <3>1. Apart \in SUBSET Nat
      OBVIOUS
    <3> HIDE DEF Apart
    <3> QED
      BY <3>1, LeastElement
  <2>2. i \in 0..n /\ i \in 0..m
    BY <2>1, <1>2
  <2>3. /\ f[i] = IF i = 0 THEN 0 ELSE f[i - 1] + c[i]
        /\ g[i] = IF i = 0 THEN 0 ELSE g[i - 1] + c[i]
    BY <2>2, <1>2
  <2>4. CASE i = 0
    BY <2>1, <2>3, <2>4
  <2>5. CASE i # 0
    <3>1. i - 1 \in 0..n /\ ~ (i <= i - 1)
      BY <2>2, <2>5
    <3>2. f[i - 1] = g[i - 1]
      BY <2>1, <3>1
    <3> QED
      BY <2>1, <2>3, <2>5, <3>2
  <2> QED
    BY <2>4, <2>5
<1> DEFINE part == [n \in Nat |-> CHOOSE f : Upto(f, n)]
           w == [n \in Nat |-> part[n][n]]
<1>3. \A n \in Nat : Upto(part[n], n)
  <2> HIDE DEF Upto
  <2> QED
    BY <1>1
<1> HIDE DEF part
<1>4. ASSUME NEW n \in Nat PROVE w[n] = IF n = 0 THEN 0 ELSE w[n - 1] + c[n]
  <2>1. part[n][n] = IF n = 0 THEN 0 ELSE part[n][n - 1] + c[n]
    <3> DEFINE f == part[n]
    <3>1. f = [i \in 0..n |-> IF i = 0 THEN 0 ELSE f[i - 1] + c[i]]
      BY <1>3
    <3>2. n \in 0..n
      OBVIOUS
    <3> HIDE DEF f
    <3>3. f[n] = IF n = 0 THEN 0 ELSE f[n - 1] + c[n]
      BY <3>1, <3>2
    <3> QED
      BY <3>3 DEF f
  <2>2. CASE n = 0
    BY <2>1, <2>2
  <2>3. CASE n # 0
    <3>1. n - 1 \in Nat /\ n - 1 <= n /\ n - 1 \in 0..(n - 1)
      BY <2>3
    <3>2. Upto(part[n - 1], n - 1) /\ Upto(part[n], n)
      <4> HIDE DEF Upto
      <4> QED
        BY <1>3, <3>1
    <3>3. part[n - 1][n - 1] = part[n][n - 1]
      <4> HIDE DEF Upto
      <4> QED
        BY <1>2, <3>1, <3>2
    <3> QED
      BY <2>1, <2>3, <3>1, <3>3
  <2> QED
    BY <2>2, <2>3
<1>5. w = [n \in Nat |-> w[n]]
  OBVIOUS
<1> HIDE DEF w
<1>6. w = [n \in Nat |-> IF n = 0 THEN 0 ELSE w[n - 1] + c[n]]
  BY <1>4, <1>5
<1> QED
  BY <1>6

LEMMA CostSteps ==
    /\ CostOf[0] = 0
    /\ \A n \in Nat : CostOf[n + 1] = CostOf[n] + TransitionCost(TransitionOf(plan[n + 1]))
<1> DEFINE c == [n \in Nat |-> TransitionCost(TransitionOf(plan[n]))]
<1>1. PICK f : f = [n \in Nat |-> IF n = 0 THEN 0 ELSE f[n - 1] + c[n]]
  <2> HIDE DEF c
  <2> QED
    BY SumsExist
<1>2. f = [n \in Nat |-> IF n = 0 THEN 0
                        ELSE f[n - 1] + TransitionCost(TransitionOf(plan[n]))]
  BY <1>1
<1>3. CostOf = [n \in Nat |-> IF n = 0 THEN 0
                        ELSE CostOf[n - 1] + TransitionCost(TransitionOf(plan[n]))]
  BY <1>2 DEF CostOf
<1>4. ASSUME NEW n \in Nat
      PROVE  CostOf[n + 1] = CostOf[n] + TransitionCost(TransitionOf(plan[n + 1]))
  <2>1. n + 1 \in Nat /\ n + 1 # 0 /\ (n + 1) - 1 = n
    OBVIOUS
  <2> QED
    BY <1>3, <2>1
<1> QED
  BY <1>3, <1>4

(* The total after so many operators of the plan is their cost.            *)
LEMMA TotalIsCost ==
    ASSUME SolverInv, AnswerInv, TrailIsLogged, Answered, Found, NEW n \in 0..Len(plan)
    PROVE  CostOf[n] \in Nat /\ trail[n + 1].total = LesserFloat(CostOf[n], Precision)
<1> DEFINE Fits(k) == CostOf[k] \in Nat /\ trail[k + 1].total = LesserFloat(CostOf[k], Precision)
           Other == {k \in 0..Len(plan) : ~ Fits(k)}
<1>0. /\ TaskFits /\ phase = "done" /\ plan \in Seq(Operator) /\ Len(plan) \in Nat
      /\ Len(plan) + 1 = Len(trail) /\ trail \in Seq(VarState) /\ trail[1] = InitState
      /\ \A k \in 1..Len(plan) : \E i \in Between(trail[k], trail[k + 1]) :
            plan[k] = task.transitions[i].name
      /\ OffersFit /\ Precision \in Nat
  <2>1. phase = "done" /\ Precision \in Nat
    BY GraphAssumption DEF SolverInv, MainFits, Answered, Found, GraphAssumption
  <2> QED
    BY <2>1, PathIsPlan DEF SolverInv, PlanFits, Answered, AnswerInv
<1> SUFFICES ASSUME Other # {} PROVE FALSE
  OBVIOUS
<1>1. PICK k \in Other : \A j \in Other : k <= j
  <2> HIDE DEF Fits
  <2>1. Other \in SUBSET Nat
    OBVIOUS
  <2> HIDE DEF Other
  <2> QED
    BY <2>1, LeastElement
<1>2. CASE k = 0
  <2>1. InitState.total = 0
    BY <1>0, SolverAssumption DEF TaskFits, SolverAssumption, TaskOf
  <2>2. CostOf[0] = 0 /\ trail[0 + 1] = InitState
    BY <1>0, CostSteps
  <2>3. Fits(0)
    BY <1>0, <2>1, <2>2 DEF LesserFloat
  <2> QED
    BY <1>1, <1>2, <2>3
<1>3. CASE k # 0
  <2>1. k - 1 \in 0..Len(plan) /\ k \in 1..Len(plan) /\ (k - 1) + 1 = k /\ ~ (k <= k - 1)
        /\ k - 1 \in Nat
    BY <1>0, <1>1, <1>3
  <2>2. Fits(k - 1)
    <3> HIDE DEF Fits
    <3> QED
      BY <1>1, <2>1
  <2>3. PICK i \in Between(trail[k], trail[k + 1]) : plan[k] = task.transitions[i].name
    BY <1>0, <2>1
  <2>4. /\ i \in Steps /\ Available(trail[k].bools, task.transitions[i])
        /\ trail[k + 1] = Apply(trail[k], task.transitions[i])
    BY <2>3 DEF Between
  <2>5. trail[k] \in VarState /\ trail[k] \in KnownStates
    BY <1>0, <2>1 DEF TrailIsLogged
  <2>6. ~ CostThrows(task.transitions[i])
    BY <1>0, <2>4, <2>5 DEF OffersFit
  <2>7. TransitionOf(plan[k]) = task.transitions[i]
    BY <1>0, <2>3, <2>4, ConvertedTransition
  <2>8. CostOf[k] = CostOf[k - 1] + TransitionCost(task.transitions[i])
    BY <2>1, <2>7, CostSteps
  <2>9. CostOf[k - 1] \in Nat /\ trail[k].total = LesserFloat(CostOf[k - 1], Precision)
    BY <2>1, <2>2
  <2>10. /\ TransitionCost(task.transitions[i]) \in Nat
         /\ trail[k + 1].total
               = LesserFloat(CostOf[k - 1] + TransitionCost(task.transitions[i]), Precision)
    BY <1>0, <2>4, <2>5, <2>6, <2>9, TotalGrows
  <2>11. Fits(k)
    BY <2>8, <2>9, <2>10
  <2> HIDE DEF Fits
  <2> QED
    BY <1>1, <2>11
<1> QED
  BY <1>2, <1>3

(* The cost printed with the plan is the cost of the plan printed.         *)
THEOREM PlannerCostIsOfPlan == Spec => []CostIsOfPlan
<1>1. SolverInv /\ AnswerInv /\ TrailIsLogged => CostIsOfPlan
  <2> SUFFICES ASSUME SolverInv, AnswerInv, TrailIsLogged, Answered, Found,
                      log[goalNodes[1]].len < Precision
               PROVE  log[goalNodes[1]].len = CostOf[Len(plan)]
    BY DEF CostIsOfPlan
  <2>1. /\ phase = "done" /\ Len(plan) \in Nat /\ Len(plan) + 1 = Len(trail)
        /\ trail[Len(trail)] = log[goalNodes[1]].state
        /\ goalNodes[1] \in Ids /\ Precision \in Nat
    <3>1. phase = "done" /\ goalNodes \in Seq(Ids) /\ goalNodes # << >> /\ Precision \in Nat
      BY GraphAssumption
         DEF SolverInv, PathInv, TypeOK, MainFits, Answered, Found, GraphAssumption
    <3>2. plan \in Seq(Operator) /\ Len(plan) + 1 = Len(trail)
      BY DEF SolverInv, PlanFits, Answered
    <3> QED
      BY <3>1, <3>2 DEF TrailIsLogged
  <2>2. log[goalNodes[1]].len \in Nat
    <3>1. log[goalNodes[1]] \in NodeType
      BY <2>1 DEF SolverInv, PathInv, TypeOK, Ids
    <3> QED
      BY <3>1 DEF NodeType
  <2>3. trail[Len(plan) + 1].total = LesserFloat(log[goalNodes[1]].len, Precision)
    BY <2>1, TotalIsLength
  <2>4. /\ CostOf[Len(plan)] \in Nat
        /\ trail[Len(plan) + 1].total = LesserFloat(CostOf[Len(plan)], Precision)
    <3>1. Len(plan) \in 0..Len(plan)
      BY <2>1
    <3> QED
      BY <3>1, TotalIsCost
  <2> QED
    BY <2>1, <2>2, <2>3, <2>4 DEF LesserFloat
<1> QED
  BY <1>1, SolverInvariant, AnswerInvariant, LoggedInit, LoggedStep, PTL DEF Spec
-----------------------------------------------------------------------------
(* Planning without action costs.                                          *)

(* The layers of the open list are kept in order whatever is asked when.   *)
LEMMA PlannerKeepsOrder == SolverInv /\ OrderInv /\ [Next]_allVars => OrderInv'
<1> SUFFICES ASSUME SolverInv, OrderInv, [Next]_allVars PROVE OrderInv'
  OBVIOUS
<1>0. /\ PathInv /\ TypeOK /\ TodoIsOut /\ PendingFits /\ graph \in GraphType
      /\ Estimation(task, layer) \in Nat
  BY EstimationType DEF SolverInv, PathInv, TypeOK, GraphInv
<1>1. CASE Start
  <2>1. Node(InitState, 1, 0) \in NodeType
    BY EngineAssumption DEF EngineAssumption, Node, NodeType
  <2>2. Priority(0, Estimation(task, layer)) \in Nat
    BY <1>0, PriorityType
  <2> QED
    BY <1>0, <1>1, <2>1, <2>2, EnqueueKeepsOrder DEF Start
<1>2. CASE Generate
  <2>1. phase = "search" /\ pending \in todo
    BY <1>0, <1>2 DEF Generate, Estimated, Estimating, PendingFits
  <2>2. CASE Estimation(task, layer) = Infinite
    BY <1>2, <2>2, OrderStays DEF Generate
  <2>3. CASE Estimation(task, layer) # Infinite
    <3> DEFINE node == Node(pending[2], cur, log[cur].len + pending[3])
    <3>1. node \in NodeType /\ node.len \in Nat
      <4>1. node \in NodeType
        BY <1>0, <2>1, EdgeType
      <4> QED
        BY <4>1 DEF NodeType
    <3>2. Enqueue(node, Priority(node.len, Estimation(task, layer))) /\ UNCHANGED graph
      BY <1>2, <2>3 DEF Generate
    <3> HIDE DEF node
    <3>3. Priority(node.len, Estimation(task, layer)) \in Nat
      BY <1>0, <3>1, PriorityType
    <3> QED
      BY <1>0, <3>1, <3>2, <3>3, EnqueueKeepsOrder
  <2> QED
    BY <2>2, <2>3
<1>3. CASE EngineStep
  BY <1>0, <1>3, DequeueKeepsOrder, OrderStays DEF EngineStep, Finalize, BacktraceStep
<1>4. CASE \/ SelectMemory \/ EstimateRoot \/ EstimateLayer \/ EstimateThrows
           \/ SearchReturns \/ RebuildStep \/ PrintPlan \/ Join \/ MonitorThread
           \/ Ended \/ UNCHANGED allVars \/ \E e \in todo : Skip(e) \/ Visit(e)
  <2>1. UNCHANGED <<queue, best>>
    BY <1>4 DEF SelectMemory, EstimateRoot, EstimateLayer, EstimateThrows, Skip, Visit,
                SearchReturns, RebuildStep, PrintPlan, Join, MonitorThread,
                MonitorTurn, MonitorStats, Ended, allVars, vars
  <2> QED
    BY <2>1, OrderStays
<1> QED
  BY <1>1, <1>2, <1>3, <1>4 DEF Next, SearchThread

(* When no edge has a cost no transition has one.                          *)
LEMMA AllFree ==
    ASSUME TaskFits, IsTask(task), \A e \in graph.edges : e[3] = 0, NEW i \in Steps
    PROVE  TransitionCost(task.transitions[i]) = 0
<1> DEFINE t == task.transitions[i]
           s == [bools |-> t.condition.value, total |-> 0]
           e == <<s, Apply(s, t), TransitionCost(t)>>
<1>1. CASE CostThrows(t)
  BY <1>1 DEF CostThrows, TransitionCost
<1>2. CASE ~ CostThrows(t)
  <2>1. s \in VarState
    BY TransitionParts, GraphAssumption DEF VarState, GraphAssumption
  <2>2. i \in Offered(task, s)
    BY <1>2 DEF Offered, Available, EqualMasked, Steps
  <2>3. e \in graph.edges
    BY <2>1, <2>2 DEF TaskFits, EdgesOf
  <2>4. e[3] = TransitionCost(t)
    OBVIOUS
  <2> HIDE DEF e
  <2> QED
    BY <2>3, <2>4
<1> QED
  BY <1>1, <1>2

LEMMA FreeGreatest ==
    ASSUME NEW S \in SUBSET {0, Infinite}
    PROVE  GreatestFloat(S) \in {0, Infinite}
<1>1. Infinite \in Nat
  BY GraphAssumption DEF GraphAssumption
<1>2. \E x \in S \cup {0} : \A y \in S : y <= x
  <2>1. CASE Infinite \in S
    BY <1>1, <2>1
  <2>2. CASE Infinite \notin S
    BY <1>1, <2>2
  <2> QED
    BY <2>1, <2>2
<1>3. GreatestFloat(S) \in S \cup {0}
  BY <1>2 DEF GreatestFloat
<1> QED
  BY <1>3

(* Without costs a variable is reached for nothing or not at all.          *)
CostsAreFree == \A v \in Vars : layer.costs[v] \in {0, Infinite}

LEMMA FreeLayer ==
    ASSUME GraphTypeOK, CostsAreFree, [GraphNext]_graphVars,
           \A i \in Steps : TransitionCost(task.transitions[i]) = 0
    PROVE  CostsAreFree'
<1>0. /\ Infinite \in Nat /\ layer.costs \in [Vars -> 0..Infinite]
      /\ layer.left \subseteq Steps /\ IsTask(task)
  BY GraphAssumption DEF GraphAssumption, GraphTypeOK, LayerType
<1>1. CASE GrowLayer
  <2> SUFFICES ASSUME NEW v \in Vars PROVE layer'.costs[v] \in {0, Infinite}
    BY DEF CostsAreFree
  <2> DEFINE Reached(i) == AddFloat(ConditionCost(layer.costs, task.transitions[i]),
                                    TransitionCost(task.transitions[i]))
             late == {Reached(i) : i \in {j \in Ready(task, layer) :
                                             v \in Added(task.transitions[j])}}
  <2>1. layer'.costs[v] = LeastFloat({layer.costs[v]} \cup late)
    <3>1. layer'.costs = GrownCosts(task, layer)
      BY <1>1 DEF GrowLayer, Grow, GraphTypeOK, LayerType
    <3> QED
      BY <3>1 DEF GrownCosts
  <2>2. ASSUME NEW i \in Ready(task, layer) PROVE Reached(i) \in {0, Infinite}
    <3>1. i \in Steps
      BY <1>0, <2>2 DEF Ready
    <3>2. {layer.costs[u] : u \in task.transitions[i].condition.mask}
              \in SUBSET {0, Infinite}
      BY <1>0, <3>1, TransitionParts DEF CostsAreFree
    <3>3. ConditionCost(layer.costs, task.transitions[i]) \in {0, Infinite}
      BY <3>2, FreeGreatest DEF ConditionCost
    <3> QED
      BY <3>1, <3>3 DEF AddFloat
  <2>3. late \subseteq {0, Infinite}
    BY <2>2
  <2> HIDE DEF late
  <2>4. /\ {layer.costs[v]} \cup late \in SUBSET Nat
        /\ {layer.costs[v]} \cup late \subseteq {0, Infinite}
        /\ layer.costs[v] \in {layer.costs[v]} \cup late
    <3>1. layer.costs[v] \in {0, Infinite}
      BY DEF CostsAreFree
    <3>2. {0, Infinite} \subseteq Nat
      BY <1>0
    <3> QED
      BY <2>3, <3>1, <3>2, Zenon
  <2>5. LeastFloat({layer.costs[v]} \cup late) \in {layer.costs[v]} \cup late
    BY <2>4, LeastIsLeast
  <2> QED
    BY <2>1, <2>4, <2>5
<1>2. CASE \E s \in VarState : BeginEstimate(s)
  BY <1>2 DEF BeginEstimate, FirstLayer, CostsAreFree
<1>3. CASE UNCHANGED graphVars
  BY <1>3 DEF graphVars, CostsAreFree
<1> QED
  BY <1>1, <1>2, <1>3 DEF GraphNext

LEMMA FreeEstimation ==
    ASSUME GraphTypeOK, CostsAreFree
    PROVE  Estimation(task, layer) \in {0, Infinite}
<1>1. task.goal.mask \subseteq Vars
  BY DEF GraphTypeOK, IsTask, MaskedVector
<1>2. {layer.costs[v] : v \in task.goal.mask} \in SUBSET {0, Infinite}
  BY <1>1 DEF CostsAreFree
<1> QED
  BY <1>2, FreeGreatest DEF Estimation

(* Nothing hopeful can be reached from a hopeless state.                   *)
LEMMA HopelessGoesOn ==
    ASSUME TaskFits, NEW e \in graph.edges, Hopeless(e[1])
    PROVE  Hopeless(e[2])
<1>1. IsEdge(e[1], e[2])
  BY DEF IsEdge
<1>2. Between(e[1], e[2]) # {}
  BY <1>1, EdgeIsTransition
<1>3. PICK i \in Steps : /\ Available(e[1].bools, task.transitions[i])
                         /\ Apply(e[1], task.transitions[i]) = e[2]
  BY <1>2 DEF Between
<1> QED
  BY <1>3 DEF Hopeless

(* Problems of which the planning graph tells the truth, without costs.    *)
Free == Positive(problem) /\ \A e \in graph.edges : e[3] = 0

LensAreZero == \A i \in Ids : log[i].len = 0

(* The root has a layer of its own; all other nodes share one, in which    *)
(* they wait in the order they were created.                               *)
OneLayer ==
    /\ cur = 0 => Len(log) <= 1 /\ \A p, q \in DOMAIN queue : p = q
    /\ cur # 0 => DOMAIN queue \subseteq {0} /\ \A m \in QueuedIds : cur < m

(* The depths of the nodes: whatever is no deeper than the node under      *)
(* expansion has a node that is no deeper, or is hopeless, and no goal is  *)
(* among it; the first goal is a step beyond, and the way back has a state *)
(* for every step.                                                         *)
DepthsFit(d) ==
    /\ \A i \in Ids : d[i] = IF i = 1 THEN 0 ELSE d[log[i].parent] + 1
    /\ \A i, j \in Ids : i <= j => d[i] <= d[j]
    /\ cur # 0 =>
          /\ \A i \in Ids : d[i] <= d[cur] + 1
          /\ \A s \in Within[d[cur]] :
                Hopeless(s) \/ \E i \in Ids : log[i].state = s /\ d[i] <= d[cur]
          /\ Within[d[cur]] \cap graph.goals = {}
    /\ Found => d[goalNodes[1]] = IF cur = 0 THEN 0 ELSE d[cur] + 1
    /\ phase = "backtrace" => d[goalNodes[1]] = d[walk] + Len(trail)
    /\ phase = "done" /\ Found => Len(trail) = d[goalNodes[1]] + 1

FreeInv ==
    Free => /\ CostsAreFree
            /\ LensAreZero
            /\ OneLayer
            /\ \E d \in [Ids -> Nat] : DepthsFit(d)

LEMMA FreeTypes ==
    ASSUME SolverInv
    PROVE  /\ PathInv /\ TypeOK /\ LogIsTree /\ GoalsAside /\ NothingSkipped /\ TodoIsOut
           /\ TaskFits /\ PendingFits /\ GraphTypeOK /\ IsTask(task)
           /\ graph \in GraphType /\ InitState \in States /\ States = VarState
           /\ Len(log) \in Nat /\ cur \in Ids \cup {0} /\ goalNodes \in Seq(Ids)
           /\ \A i \in Ids : i \in Nat /\ i # 0 /\ log[i].state \in States
                             /\ (i # 1 => log[i].parent \in Ids /\ log[i].parent < i)
           /\ 1 \in Ids => log[1].state = InitState /\ log[1].parent = 1
<1>1. /\ PathInv /\ TypeOK /\ LogIsTree /\ GoalsAside /\ NothingSkipped /\ TodoIsOut
      /\ TaskFits /\ PendingFits /\ GraphTypeOK /\ IsTask(task)
  BY DEF SolverInv, PathInv, GraphInv, GraphTypeOK
<1>2. log \in Seq(NodeType) /\ Len(log) \in Nat
  BY <1>1 DEF TypeOK
<1>3. ASSUME NEW i \in Ids
      PROVE  /\ i \in Nat /\ i # 0 /\ log[i].state \in States
             /\ i # 1 => log[i].parent \in Ids /\ log[i].parent < i
  <2>1. log[i] \in NodeType /\ i \in 1..Len(log)
    BY <1>2 DEF Ids
  <2>2. log[i].state \in States /\ log[i].parent \in Nat \ {0}
    BY <2>1 DEF NodeType
  <2>3. i # 1 => log[i].parent < i
    BY <1>1 DEF LogIsTree
  <2> QED
    BY <1>2, <2>1, <2>2, <2>3 DEF Ids
<1>4. ASSUME 1 \in Ids PROVE log[1].state = InitState /\ log[1].parent = 1
  <2>1. log[1] = Node(InitState, 1, 0)
    BY <1>1, <1>4 DEF LogIsTree
  <2> QED
    BY <2>1 DEF Node
<1>5. graph \in GraphType /\ InitState \in States /\ States = VarState
  BY <1>1, EngineAssumption, SolverAssumption DEF TypeOK, EngineAssumption, SolverAssumption
<1>6. cur \in Ids \cup {0} /\ goalNodes \in Seq(Ids)
  BY <1>1 DEF TypeOK
<1> QED
  BY <1>1, <1>2, <1>3, <1>4, <1>5, <1>6

(* What is taken from the one layer there is was there before the rest.    *)
LEMMA PopTakesFirst ==
    ASSUME TypeOK, LayersAreFifo, DOMAIN queue # {},
           \A p, q \in DOMAIN queue : p = q
    PROVE  \A m \in Members(Pop(queue)) : Top(queue) < m
<1> DEFINE b == BestPriority(queue)
<1>1. QueueType(queue, Ids)
  BY DEF TypeOK
<1>2. b \in DOMAIN queue
  BY <1>1, BestIsLayer
<1>3. queue[b] \in Seq(Ids) \ {<< >>} /\ DOMAIN queue = {b}
  BY <1>1, <1>2 DEF QueueType
<1>4. Top(queue) = Head(queue[b])
  BY DEF Top
<1>5. CASE Len(queue[b]) = 1
  <2>1. DOMAIN Pop(queue) = {}
    BY <1>3, <1>5 DEF Pop
  <2> QED
    BY <2>1 DEF Members
<1>6. CASE Len(queue[b]) # 1
  <2>1. DOMAIN Pop(queue) = {b} /\ Pop(queue)[b] = Tail(queue[b])
    BY <1>2, <1>3, <1>6 DEF Pop
  <2> HIDE DEF b
  <2>2. ASSUME NEW m \in Members(Pop(queue)) PROVE Top(queue) < m
    <3>1. PICK i \in 1..Len(Tail(queue[b])) : m = Tail(queue[b])[i]
      BY <2>1 DEF Members
    <3>2. /\ m = queue[b][i + 1] /\ Top(queue) = queue[b][1]
          /\ 1 \in 1..Len(queue[b]) /\ i + 1 \in 1..Len(queue[b]) /\ 1 < i + 1
      BY <1>3, <1>4, <3>1
    <3> QED
      BY <1>3, <3>2 DEF LayersAreFifo
  <2> QED
    BY <2>2
<1> QED
  BY <1>5, <1>6

LEMMA StartKeepsFree ==
    ASSUME SolverInv, Free, CostsAreFree, Start
    PROVE  LensAreZero' /\ OneLayer' /\ \E d \in [Ids' -> Nat] : DepthsFit(d)'
<1> DEFINE root == Node(InitState, 1, 0)
           prio == Priority(0, Estimation(task, layer))
<1>1. /\ log = << >> /\ DOMAIN queue = {} /\ Len(log) = 0 /\ cur = 0 /\ goalNodes = << >>
      /\ phase' = "search" /\ UNCHANGED <<graph, cur>>
  <2>1. log = << >> /\ DOMAIN queue = {} /\ goalNodes = << >>
    BY DEF SolverInv, PathInv, RootLogged, MainFits, Start
  <2>2. Ids = {} /\ Len(log) = 0
    BY <2>1 DEF Ids
  <2> QED
    BY <2>1, <2>2, FreeTypes DEF Start
<1>2. CreateNode(root) /\ Enqueue(root, prio)
  BY DEF Start
<1>3. root \in NodeType /\ root.len = 0
  BY FreeTypes DEF Node, NodeType
<1> HIDE DEF root, prio
<1>4. Len(log') = 1 /\ log'[1] = root /\ Ids' = {1}
  <2>1. Len(log') = Len(log) + 1 /\ log'[Len(log) + 1] = root
        /\ Ids' = Ids \cup {Len(log) + 1}
    BY <1>2, <1>3, FreeTypes, LogGrows
  <2>2. Ids = {}
    BY <1>1 DEF Ids
  <2> QED
    BY <1>1, <2>1, <2>2
<1>5. LensAreZero'
  BY <1>3, <1>4 DEF LensAreZero
<1>6. OneLayer'
  <2>1. queue' = queue \/ queue' = Push(queue, prio, 1)
    BY <1>1, <1>2 DEF Enqueue
  <2>2. \A p, q \in DOMAIN queue' : p = q
    BY <1>1, <2>1 DEF Push
  <2> QED
    BY <1>1, <1>4, <2>2 DEF OneLayer
<1>7. Found' => goalNodes'[1] = 1
  BY <1>1, <1>2 DEF Enqueue, Found
<1> DEFINE d == [i \in {1} |-> 0]
<1>8. d \in [Ids' -> Nat] /\ DepthsFit(d)'
  BY <1>1, <1>4, <1>7 DEF DepthsFit
<1> QED
  BY <1>5, <1>6, <1>8

(* A successor is queued at the one priority there is, one step deeper.    *)
LEMMA GenerateKeepsFree ==
    ASSUME SolverInv, Free, FreeInv, Generate
    PROVE  LensAreZero' /\ OneLayer' /\ \E d \in [Ids' -> Nat] : DepthsFit(d)'
<1> DEFINE node == Node(pending[2], cur, log[cur].len + pending[3])
           id == Len(log) + 1
<1>1. /\ LensAreZero /\ OneLayer /\ \E d \in [Ids -> Nat] : DepthsFit(d)
      /\ Estimation(task, layer) \in {0, Infinite}
  BY FreeTypes, FreeEstimation DEF FreeInv
<1>2. /\ phase = "search" /\ phase' = "search" /\ pending \in todo
      /\ UNCHANGED <<graph, task, cur>>
  BY FreeTypes DEF Generate, Estimated, Estimating, PendingFits, graphVars
<1>3. /\ Within' = Within /\ \A s : Hopeless(s)' = Hopeless(s)
  BY <1>2 DEF Within, Hopeless, Steps
<1>4. CASE Estimation(task, layer) = Infinite
  <2>1. UNCHANGED <<log, queue, goalNodes>>
    BY <1>4 DEF Generate
  <2>2. LensAreZero' /\ OneLayer' /\ Ids' = Ids /\ QueuedIds' = QueuedIds /\ Found' = Found
    <3>1. Ids' = Ids /\ QueuedIds' = QueuedIds /\ Found' = Found
      BY <2>1 DEF Ids, QueuedIds, Found
    <3>2. LensAreZero'
      BY <1>1, <2>1, <3>1 DEF LensAreZero
    <3>3. OneLayer'
      BY <1>1, <1>2, <2>1, <3>1 DEF OneLayer
    <3> QED
      BY <3>1, <3>2, <3>3
  <2>3. ASSUME NEW d \in [Ids -> Nat], DepthsFit(d) PROVE DepthsFit(d)'
    BY <1>2, <1>3, <2>1, <2>2, <2>3 DEF DepthsFit
  <2> QED
    BY <1>1, <2>2, <2>3
<1>5. CASE Estimation(task, layer) # Infinite
  <2>1. /\ cur \in Ids /\ cur \in Nat \ {0} /\ log[cur].len = 0 /\ pending[3] = 0
        /\ node \in NodeType
    BY <1>1, <1>2, FreeTypes, EdgeType DEF Free, LensAreZero
  <2>2. node.len = 0 /\ node.parent = cur /\ node.state = pending[2]
    BY <2>1 DEF Node
  <2>3. CreateNode(node) /\ Enqueue(node, 0)
    <3>1. CreateNode(node) /\ Enqueue(node, Priority(0, 0))
      BY <1>1, <1>5, <2>2 DEF Generate
    <3>2. Priority(0, 0) = 0
      BY FreeTypes DEF Priority, AStarKey, GreedyKey, BfsKey, DfsKey, GraphType
    <3> QED
      BY <3>1, <3>2
  <2> HIDE DEF node
  <2>4. /\ Ids' = Ids \cup {id} /\ id \notin Ids
        /\ \A i \in Ids : log'[i] = log[i]
        /\ log'[id] = node
    BY <2>1, <2>3, FreeTypes, LogGrows
  <2>5. /\ id \in Nat /\ \A i \in Ids : i < id /\ i \in Nat
        /\ id # 1
    BY <2>1, FreeTypes DEF Ids
  <2>6. LensAreZero'
    BY <1>1, <2>2, <2>4 DEF LensAreZero
  <2>7. OneLayer'
    <3>1. queue' = queue \/ queue' = Push(queue, 0, id)
      BY <2>3 DEF Enqueue
    <3>2. QueuedIds' \subseteq QueuedIds \cup {id} /\ DOMAIN queue' \subseteq {0}
      <4>1. QueuedIds' = QueuedIds \/ QueuedIds' = QueuedIds \cup {id}
        <5>1. /\ node.state \in graph.goals => queue' = queue
              /\ node.state \notin graph.goals =>
                    QueuedIds' = QueuedIds \cup {Len(log) + 1}
          <6>1. TypeOK /\ graph' = graph /\ 0 \in Nat
            BY <1>2, FreeTypes
          <6> QED
            BY <6>1, <2>1, <2>3, EnqueueType
        <5> QED
          BY <5>1 DEF QueuedIds
      <4>2. DOMAIN Push(queue, 0, id) = DOMAIN queue \cup {0} /\ DOMAIN queue \subseteq {0}
        BY <1>1, <2>1 DEF Push, OneLayer
      <4> QED
        BY <3>1, <4>1, <4>2
    <3> QED
      BY <1>1, <1>2, <2>1, <2>5, <3>2 DEF OneLayer
  <2>8. PICK d \in [Ids -> Nat] : DepthsFit(d)
    BY <1>1
  <2>9. PICK g \in [Ids' -> Nat] :
            /\ g[id] = d[cur] + 1 /\ d[cur] \in Nat
            /\ \A i \in Ids : g[i] = d[i] /\ d[i] \in Nat
    <3> DEFINE f == [i \in Ids' |-> IF i = id THEN d[cur] + 1 ELSE d[i]]
    <3>1. /\ d[cur] \in Nat /\ \A i \in Ids : d[i] \in Nat
      BY <2>1
    <3>2. /\ f[id] = d[cur] + 1 /\ \A i \in Ids : f[i] = d[i]
      BY <2>4
    <3>3. f \in [Ids' -> Nat]
      BY <2>4, <3>1
    <3> QED
      BY <3>1, <3>2, <3>3
  <2>10. ASSUME NEW i \in Ids'
         PROVE  /\ g[i] = IF i = 1 THEN 0 ELSE g[log'[i].parent] + 1
                /\ g[i] <= g[cur] + 1
    <3>1. CASE i = id
      BY <3>1, <2>1, <2>2, <2>4, <2>5, <2>9
    <3>2. CASE i # id
      <4>1. i \in Ids /\ log'[i] = log[i] /\ (i # 1 => log[i].parent \in Ids)
        BY <3>2, <2>4, FreeTypes
      <4>2. d[i] = IF i = 1 THEN 0 ELSE d[log[i].parent] + 1
        BY <2>8, <4>1 DEF DepthsFit
      <4>3. d[i] <= d[cur] + 1
        BY <2>1, <2>8, <4>1 DEF DepthsFit
      <4> QED
        BY <4>1, <4>2, <4>3, <2>1, <2>9
    <3> QED
      BY <3>1, <3>2
  <2>11. ASSUME NEW i \in Ids', NEW j \in Ids', i <= j PROVE g[i] <= g[j]
    <3>1. CASE j = id
      BY <3>1, <2>1, <2>9, <2>10
    <3>2. CASE j # id
      <4>1. i \in Ids /\ j \in Ids
        BY <3>2, <2>4, <2>5, <2>11
      <4> QED
        BY <4>1, <2>8, <2>9, <2>11 DEF DepthsFit
    <3> QED
      BY <3>1, <3>2
  <2>12. ASSUME NEW s \in Within[g[cur]]
         PROVE  /\ s \notin graph.goals
                /\ Hopeless(s) \/ \E i \in Ids' : log'[i].state = s /\ g[i] <= g[cur]
    <3>1. /\ Within[d[cur]] \cap graph.goals = {} /\ g[cur] = d[cur]
          /\ Hopeless(s) \/ \E i \in Ids : log[i].state = s /\ d[i] <= d[cur]
      BY <2>1, <2>8, <2>9, <2>12 DEF DepthsFit
    <3> QED
      BY <3>1, <2>4, <2>9, <2>12
  <2>13. Found' => g[goalNodes'[1]] = g[cur] + 1
    <3>1. goalNodes' = goalNodes \/ goalNodes' = Append(goalNodes, id)
      BY <2>3 DEF Enqueue
    <3>2. goalNodes \in Seq(Ids)
      BY FreeTypes
    <3>3. CASE Found
      <4>1. goalNodes[1] \in Ids /\ goalNodes'[1] = goalNodes[1]
        BY <3>1, <3>2, <3>3 DEF Found
      <4>2. d[goalNodes[1]] = d[cur] + 1
        BY <3>3, <2>1, <2>8 DEF DepthsFit
      <4> QED
        BY <4>1, <4>2, <2>1, <2>9
    <3>4. CASE ~ Found
      <4>1. Found' => goalNodes'[1] = id
        BY <3>1, <3>4 DEF Found
      <4> QED
        BY <4>1, <2>1, <2>9
    <3> QED
      BY <3>3, <3>4
  <2>14. DepthsFit(g)'
    BY <1>2, <1>3, <2>1, <2>10, <2>11, <2>12, <2>13 DEF DepthsFit
  <2> QED
    BY <2>6, <2>7, <2>9, <2>14
<1> QED
  BY <1>4, <1>5

LEMMA DequeueKeepsLayer ==
    ASSUME SolverInv, OrderInv, OneLayer, Dequeue
    PROVE  /\ cur' \in Ids /\ Ids' = Ids
           /\ cur # 0 => cur < cur'
           /\ QueuedIds \subseteq QueuedIds' \cup {cur'}
           /\ \A m \in QueuedIds' : cur' < m
           /\ OneLayer'
<1>1. /\ cur' = Top(queue) /\ queue' = Pop(queue) /\ UNCHANGED log
      /\ DOMAIN queue # {} /\ QueueType(queue, Ids) /\ Ids' = Ids
  BY FreeTypes DEF Dequeue, LoopEnds, QueueEmpty, TypeOK, Ids
<1>2. /\ cur' \in Ids /\ cur' \in QueuedIds /\ QueueType(queue', Ids)
      /\ QueuedIds \subseteq QueuedIds' \cup {cur'} /\ QueuedIds' \subseteq QueuedIds
  BY <1>1, PopMembers DEF QueuedIds
<1>3. \A p, q \in DOMAIN queue : p = q
  BY DEF OneLayer
<1>4. \A m \in QueuedIds' : cur' < m
  BY <1>1, <1>3, PopTakesFirst, FreeTypes DEF OrderInv, QueuedIds
<1>5. cur # 0 => cur < cur'
  BY <1>2 DEF OneLayer
<1>6. cur' # 0
  BY <1>2, FreeTypes
<1>7. DOMAIN queue' \subseteq {0}
  <2>1. CASE cur = 0
    <3>1. QueuedIds' = {}
      <4>1. Len(log) <= 1 /\ Len(log) \in Nat /\ QueuedIds \subseteq Ids
        BY <2>1, FreeTypes, <1>1 DEF OneLayer, QueuedIds, Members, QueueType
      <4>2. \A m \in Ids : m = 1
        BY <4>1 DEF Ids
      <4> QED
        BY <1>2, <1>4, <4>1, <4>2
    <3>2. ASSUME NEW p \in DOMAIN queue' PROVE FALSE
      <4>1. queue'[p] \in Seq(Ids) \ {<< >>}
        BY <1>2, <3>2 DEF QueueType
      <4>2. 1 \in 1..Len(queue'[p])
        BY <4>1
      <4>3. queue'[p][1] \in QueuedIds'
        BY <3>2, <4>2 DEF QueuedIds, Members
      <4> QED
        BY <3>1, <4>3
    <3> QED
      BY <3>2
  <2>2. CASE cur # 0
    <3>1. DOMAIN Pop(queue) \subseteq DOMAIN queue
      BY DEF Pop
    <3> QED
      BY <1>1, <2>2, <3>1 DEF OneLayer
  <2> QED
    BY <2>1, <2>2
<1>8. OneLayer'
  BY <1>4, <1>6, <1>7 DEF OneLayer
<1> QED
  BY <1>1, <1>2, <1>4, <1>5, <1>8

(* A state no deeper than the node taken was learned from one no deeper    *)
(* than the node before, which has been expanded, or was given up.         *)
LEMMA DequeueKeepsFree ==
    ASSUME SolverInv, AnswerInv, OrderInv, Free, FreeInv, Dequeue, pending = << >>,
           task' = task
    PROVE  LensAreZero' /\ OneLayer' /\ \E d \in [Ids' -> Nat] : DepthsFit(d)'
<1>1. LensAreZero /\ OneLayer /\ \E d \in [Ids -> Nat] : DepthsFit(d)
  BY DEF FreeInv
<1>2. /\ ~ Found /\ todo = {} /\ phase' = "search" /\ UNCHANGED <<graph, log, goalNodes>>
      /\ phase = "search"
  BY DEF Dequeue, LoopEnds, Found
<1>3. /\ cur' \in Ids /\ Ids' = Ids
      /\ cur # 0 => cur < cur'
      /\ QueuedIds \subseteq QueuedIds' \cup {cur'}
      /\ \A m \in QueuedIds' : cur' < m
      /\ OneLayer' /\ cur' # 0 /\ cur' \in Nat
  BY <1>1, DequeueKeepsLayer, FreeTypes
<1>4. LensAreZero'
  BY <1>1, <1>2, <1>3 DEF LensAreZero
<1>5. \A i \in Ids : log[i].state \notin graph.goals
  BY <1>2, FreeTypes DEF GoalsAside
<1>6. PICK d \in [Ids -> Nat] : DepthsFit(d)
  BY <1>1
<1>7. /\ \A i \in Ids : d[i] \in Nat /\ i \in Nat
      /\ \A i, j \in Ids : i <= j => d[i] <= d[j]
  BY <1>6, FreeTypes DEF DepthsFit
<1>8. /\ \A i \in Ids : d[i] <= d[cur'] + 1
      /\ \A s \in Within[d[cur']] :
            Hopeless(s) \/ \E i \in Ids : log[i].state = s /\ d[i] <= d[cur']
  <2>1. CASE cur = 0
    <3>1. \A i \in Ids : i = 1
      <4>1. Len(log) <= 1 /\ Len(log) \in Nat
        BY <2>1, <1>1, FreeTypes DEF OneLayer
      <4> QED
        BY <4>1 DEF Ids
    <3>2. cur' = 1 /\ d[1] = 0 /\ log[1].state = InitState
      BY <3>1, <1>3, <1>6, FreeTypes DEF DepthsFit
    <3>3. Within[0] = {InitState}
      BY FreeTypes, WithinSteps
    <3> QED
      BY <3>1, <3>2, <3>3, <1>3
  <2>2. CASE cur # 0
    <3> DEFINE near == Within[d[cur]]
    <3>1. /\ cur \in Ids /\ d[cur] \in Nat /\ d[cur'] \in Nat
          /\ \A i \in Ids : d[i] <= d[cur] + 1
          /\ \A s \in near : Hopeless(s) \/ \E i \in Ids : log[i].state = s /\ d[i] <= d[cur]
      BY <2>2, <1>3, <1>6, <1>7, FreeTypes DEF DepthsFit
    <3>2. d[cur] <= d[cur'] /\ d[cur'] <= d[cur] + 1
      <4>1. cur <= cur'
        BY <2>2, <3>1, <1>3, <1>7
      <4> QED
        BY <4>1, <3>1, <1>3, <1>7
    <3>3. \A i \in Ids : d[i] <= d[cur'] + 1
      BY <3>1, <3>2, <1>7
    <3>4. CASE d[cur'] = d[cur]
      BY <3>1, <3>3, <3>4
    <3>5. CASE d[cur'] = d[cur] + 1
      <4>1. Within[d[cur] + 1] =
                near \cup {e[2] : e \in {f \in graph.edges : f[1] \in near}}
        BY <3>1, FreeTypes, WithinSteps
      <4>2. ASSUME NEW s \in Within[d[cur] + 1]
            PROVE  Hopeless(s) \/ \E i \in Ids : log[i].state = s /\ d[i] <= d[cur']
        <5>1. CASE s \in near
          BY <5>1, <3>1, <3>5, <1>7
        <5>2. CASE s \notin near
          <6>1. PICK e \in graph.edges : e[1] \in near /\ e[2] = s
            BY <4>1, <4>2, <5>2
          <6>2. CASE Hopeless(e[1])
            BY <6>1, <6>2, HopelessGoesOn, FreeTypes
          <6>3. CASE ~ Hopeless(e[1])
            <7>1. PICK i \in Ids : log[i].state = e[1] /\ d[i] <= d[cur]
              BY <6>1, <6>3, <3>1
            <7>2. i \notin QueuedIds
              <8> SUFFICES ASSUME i \in QueuedIds PROVE FALSE
                OBVIOUS
              <8>1. cur' <= i
                BY <1>3, <1>7
              <8>2. d[cur'] <= d[i]
                BY <8>1, <1>3, <1>7
              <8> QED
                BY <8>2, <7>1, <3>1, <3>5, <1>7
            <7>3. e[2] \in db
              BY <6>1, <7>1, <7>2, <1>2, <1>5, FreeTypes DEF NothingSkipped, OutEdges
            <7>4. s \in KnownStates \/ Hopeless(s)
              BY <6>1, <7>3 DEF AnswerInv, DropsFit, Free
            <7> QED
              BY <7>4, <3>1, <3>5 DEF KnownStates
          <6> QED
            BY <6>2, <6>3
        <5> QED
          BY <5>1, <5>2
      <4> QED
        BY <3>3, <3>5, <4>2
    <3> QED
      BY <3>1, <3>2, <3>4, <3>5
  <2> QED
    BY <2>1, <2>2
<1>9. Within[d[cur']] \cap graph.goals = {}
  <2> SUFFICES ASSUME NEW s \in Within[d[cur']], s \in graph.goals PROVE FALSE
    OBVIOUS
  <2>1. ~ Hopeless(s)
    BY FreeTypes DEF TaskFits, Hopeless
  <2> QED
    BY <2>1, <1>5, <1>8
<1>10. Within' = Within /\ ~ Found' /\ \A s : Hopeless(s)' = Hopeless(s)
  BY <1>2 DEF Within, Found, Hopeless, Steps
<1>11. DepthsFit(d)'
  BY <1>2, <1>3, <1>6, <1>8, <1>9, <1>10 DEF DepthsFit
<1> QED
  BY <1>3, <1>4, <1>6, <1>11

(* Finalize starts the way back, each step of which goes up one step.      *)
LEMMA WayBackKeepsFree ==
    ASSUME SolverInv, Free, FreeInv, Finalize \/ BacktraceStep, task' = task
    PROVE  LensAreZero' /\ OneLayer' /\ \E d \in [Ids' -> Nat] : DepthsFit(d)'
<1>1. /\ LensAreZero /\ OneLayer /\ UNCHANGED <<graph, log, queue, cur, goalNodes>>
      /\ Ids' = Ids /\ Found' = Found /\ QueuedIds' = QueuedIds
  BY DEF Finalize, BacktraceStep, Ids, Found, QueuedIds, FreeInv
<1>2. PICK d \in [Ids -> Nat] : DepthsFit(d)
  BY DEF FreeInv
<1>3. /\ LensAreZero' /\ OneLayer' /\ Within' = Within
      /\ \A s : Hopeless(s)' = Hopeless(s)
  BY <1>1 DEF LensAreZero, OneLayer, Within, Hopeless, Steps
<1>4. Found => goalNodes[1] \in Ids /\ d[goalNodes[1]] \in Nat
  BY FreeTypes DEF Found
<1>5. /\ phase' = "backtrace" => d[goalNodes[1]] = d[walk'] + Len(trail')
      /\ phase' = "done" /\ Found => Len(trail') = d[goalNodes[1]] + 1
  <2>1. CASE Finalize
    <3>1. trail' = << >> /\ (Found => phase' = "backtrace" /\ walk' = goalNodes[1])
          /\ (~ Found => phase' = "done")
      BY <2>1, FreeTypes DEF Finalize, PathInv, TrailLeads, Found
    <3>2. Len(trail') = 0
      BY <3>1
    <3> QED
      BY <3>1, <3>2, <1>4
  <2>2. CASE BacktraceStep
    <3>1. /\ phase = "backtrace" /\ walk \in Ids /\ trail \in Seq(States)
          /\ log[walk].state \in States /\ d[walk] \in Nat
          /\ d[goalNodes[1]] = d[walk] + Len(trail)
      BY <2>2, <1>2, FreeTypes DEF BacktraceStep, PathInv, TrailLeads, TypeOK, DepthsFit
    <3>2. Len(trail') = Len(trail) + 1 /\ Len(trail) \in Nat
      BY <2>2, <3>1 DEF BacktraceStep
    <3>3. CASE log[walk].parent = walk
      <4>1. walk = 1 /\ phase' = "done"
        BY <2>2, <3>1, <3>3, FreeTypes, OnlyRootIsOwnParent DEF BacktraceStep
      <4>2. d[walk] = 0
        BY <4>1, <3>1, <1>2 DEF DepthsFit
      <4> QED
        BY <3>1, <3>2, <4>1, <4>2
    <3>4. CASE log[walk].parent # walk
      <4>1. log[walk].parent \in Ids /\ walk # 1
        BY <3>1, <3>4, FreeTypes, OnlyRootIsOwnParent
      <4>2. d[walk] = d[log[walk].parent] + 1 /\ d[log[walk].parent] \in Nat
        BY <4>1, <3>1, <1>2 DEF DepthsFit
      <4>3. walk' = log[walk].parent /\ phase' = "backtrace"
        BY <2>2, <3>4 DEF BacktraceStep
      <4> QED
        BY <3>1, <3>2, <4>2, <4>3
    <3> QED
      BY <3>3, <3>4
  <2> QED
    BY <2>1, <2>2
<1>6. DepthsFit(d)'
  BY <1>1, <1>2, <1>3, <1>5 DEF DepthsFit
<1> QED
  BY <1>1, <1>2, <1>3, <1>6

LEMMA FreeInit == Init => FreeInv
<1> SUFFICES ASSUME Init PROVE FreeInv
  OBVIOUS
<1>1. CostsAreFree
  BY DEF Init, NoLayer, CostsAreFree
<1>2. log = << >> /\ Len(log) = 0 /\ Ids = {} /\ DOMAIN queue = {}
  BY DEF Init, EngineInit, NoLayers, Ids
<1>3. LensAreZero /\ OneLayer
  BY <1>2 DEF Init, EngineInit, LensAreZero, OneLayer
<1> DEFINE d == [i \in {} |-> 0]
<1>4. d \in [Ids -> Nat] /\ DepthsFit(d)
  BY <1>2 DEF Init, EngineInit, DepthsFit, Found
<1> QED
  BY <1>1, <1>3, <1>4 DEF FreeInv

LEMMA FreeStep ==
    SolverInv /\ AnswerInv /\ OrderInv /\ FreeInv /\ [Next]_allVars => FreeInv'
<1> SUFFICES ASSUME SolverInv, AnswerInv, OrderInv, FreeInv, [Next]_allVars, Free'
             PROVE  /\ CostsAreFree' /\ LensAreZero' /\ OneLayer'
                    /\ \E d \in [Ids' -> Nat] : DepthsFit(d)'
  BY DEF FreeInv
<1>1. UNCHANGED <<problem, task, graph>> /\ Free
  <2>1. UNCHANGED <<problem, task, graph>>
    BY DEF Next, SearchThread, SelectMemory, EstimateRoot, EstimateLayer, EstimateThrows,
           Start, Skip, Visit, Generate, EngineStep, Dequeue, Finalize, BacktraceStep,
           SearchReturns, RebuildStep, PrintPlan, Join, MonitorThread, MonitorTurn,
           MonitorStats, Ended, allVars, vars, graphVars, ownVars, BeginEstimate, GrowLayer
  <2> QED
    BY <2>1 DEF Free, Positive, Kept
<1>2. CostsAreFree'
  <2>1. \A i \in Steps : TransitionCost(task.transitions[i]) = 0
    BY <1>1, AllFree, FreeTypes DEF Free
  <2> QED
    BY <1>1, <2>1, FreeLayer, SolverStepsGraph, FreeTypes DEF FreeInv
<1> SUFFICES LensAreZero' /\ OneLayer' /\ \E d \in [Ids' -> Nat] : DepthsFit(d)'
  BY <1>2
<1>3. CASE Start
  BY <1>1, <1>3, StartKeepsFree DEF FreeInv
<1>4. CASE Generate
  BY <1>1, <1>4, GenerateKeepsFree
<1>5. CASE EngineStep
  BY <1>1, <1>5, DequeueKeepsFree, WayBackKeepsFree DEF EngineStep, Searching
<1>6. CASE \/ SelectMemory \/ EstimateRoot \/ EstimateLayer \/ EstimateThrows
           \/ SearchReturns \/ RebuildStep \/ PrintPlan \/ Join \/ MonitorThread
           \/ Ended \/ UNCHANGED allVars \/ \E e \in todo : Skip(e) \/ Visit(e)
  <2>1. UNCHANGED <<log, queue, cur, goalNodes, phase, walk, trail>>
    BY <1>6 DEF SelectMemory, EstimateRoot, EstimateLayer, EstimateThrows, Skip, Visit,
                SearchReturns, RebuildStep, PrintPlan, Join, MonitorThread,
                MonitorTurn, MonitorStats, Ended, allVars, vars
  <2>2. /\ Ids' = Ids /\ QueuedIds' = QueuedIds /\ Within' = Within /\ Found' = Found
        /\ \A s : Hopeless(s)' = Hopeless(s)
    BY <1>1, <2>1 DEF Ids, QueuedIds, Within, Found, Hopeless, Steps
  <2>3. LensAreZero' /\ OneLayer'
    BY <1>1, <2>1, <2>2 DEF FreeInv, LensAreZero, OneLayer
  <2>4. PICK d \in [Ids -> Nat] : DepthsFit(d)
    BY <1>1 DEF FreeInv
  <2>5. DepthsFit(d)'
    BY <1>1, <2>1, <2>2, <2>4 DEF DepthsFit
  <2> QED
    BY <2>2, <2>3, <2>4, <2>5
<1> QED
  BY <1>3, <1>4, <1>5, <1>6 DEF Next, SearchThread

(* Without action costs and negative literals the plan has as few steps as *)
(* any plan has, though the planner stops at the first goal it generates   *)
(* and never expands what the planning graph takes for a dead end          *)
(* (serial_engine.h, heuristic_engine; planning_graph_heuristic.h).        *)
THEOREM PlannerShortestWithoutCosts == Spec => []ShortestWithoutCosts
<1>1. SolverInv /\ FreeInv => ShortestWithoutCosts
  <2> SUFFICES ASSUME SolverInv, FreeInv, Free, phase = "done", Found, Len(trail) # 1
               PROVE  Within[Len(trail) - 2] \cap graph.goals = {}
    BY DEF ShortestWithoutCosts, PlanIsShortest, Free
  <2>1. PICK d \in [Ids -> Nat] : DepthsFit(d)
    BY DEF FreeInv
  <2>2. Len(trail) = d[goalNodes[1]] + 1
    BY <2>1 DEF DepthsFit
  <2>3. cur # 0 /\ d[goalNodes[1]] = d[cur] + 1
    BY <2>1, <2>2 DEF DepthsFit
  <2>4. d[cur] \in Nat
    BY <2>3, FreeTypes
  <2>5. Len(trail) - 2 = d[cur]
    BY <2>2, <2>3, <2>4
  <2> QED
    BY <2>1, <2>3, <2>5 DEF DepthsFit
<1>2. Init => OrderInv
  BY OrderInit DEF Init
<1> QED
  BY <1>1, <1>2, FreeInit, FreeStep, PlannerKeepsOrder, SolverInvariant, AnswerInvariant, PTL
     DEF Spec
-----------------------------------------------------------------------------
(* The estimation is a lower bound. *)

(* StepsFrom is what its definition says.                                  *)
LEMMA StepsFromSteps ==
    ASSUME graph \in GraphType, NEW s \in States
    PROVE  /\ StepsFrom(s)[0] = {s}
           /\ \A n \in Nat :
                 /\ StepsFrom(s)[n] \subseteq States
                 /\ StepsFrom(s)[n + 1] = StepsFrom(s)[n] \cup
                        {e[2] : e \in {d \in graph.edges : d[1] \in StepsFrom(s)[n]}}
<1> DEFINE Beyond(X) == {e[2] : e \in {d \in graph.edges : d[1] \in X}}
           step == [X \in SUBSET States |-> X \cup Beyond(X)]
           steps == StepsFrom(s)
<1>1. \A X \in SUBSET States : X \cup Beyond(X) \in SUBSET States
  <2>1. \A e \in graph.edges : e[2] \in States
    BY DEF GraphType
  <2> QED
    BY <2>1
<1>2. PICK f \in [Nat -> SUBSET States] :
          f[0] = {s} /\ \A n \in Nat : f[n + 1] = step[f[n]]
  <2> DEFINE D == SUBSET States
  <2>1. step \in [D -> D] /\ {s} \in D
    BY <1>1
  <2> HIDE DEF step, D
  <2>2. \E f \in [Nat -> D] : f[0] = {s} /\ \A n \in Nat : f[n + 1] = step[f[n]]
    BY SMTT(60), <2>1, NatRecursion
  <2> QED
    BY <2>2 DEF D
<1>3. \A n \in Nat : f[n + 1] = f[n] \cup Beyond(f[n])
  BY <1>2
<1>4. f = [n \in Nat |-> IF n = 0 THEN {s} ELSE f[n - 1] \cup Beyond(f[n - 1])]
  <2>1. ASSUME NEW n \in Nat
        PROVE  f[n] = IF n = 0 THEN {s} ELSE f[n - 1] \cup Beyond(f[n - 1])
    <3>1. CASE n = 0
      BY <3>1, <1>2
    <3>2. CASE n # 0
      <4>1. n - 1 \in Nat /\ (n - 1) + 1 = n
        BY <3>2
      <4> HIDE DEF Beyond
      <4>2. f[(n - 1) + 1] = f[n - 1] \cup Beyond(f[n - 1])
        BY <4>1, <1>3
      <4> QED
        BY <3>2, <4>1, <4>2
    <3> QED
      BY <3>1, <3>2
  <2> HIDE DEF Beyond
  <2> QED
    BY <2>1
<1>5. steps = [n \in Nat |-> IF n = 0 THEN {s} ELSE steps[n - 1] \cup Beyond(steps[n - 1])]
  BY <1>4 DEF StepsFrom
<1>6. steps \in [Nat -> SUBSET States]
  <2> DEFINE Off == {n \in Nat : ~ (steps[n] \subseteq States)}
  <2>1. ASSUME Off # {} PROVE FALSE
    <3>1. PICK n \in Off : \A m \in Off : n <= m
      <4>1. Off \in SUBSET Nat
        OBVIOUS
      <4> HIDE DEF Off
      <4> QED
        BY <2>1, <4>1, LeastElement
    <3> HIDE DEF steps, Beyond
    <3>2. n # 0
      BY <3>1, <1>5
    <3>3. n - 1 \in Nat /\ ~ (n <= n - 1)
      BY <3>1, <3>2
    <3>4. steps[n - 1] \in SUBSET States
      BY <3>1, <3>3
    <3>5. steps[n] = steps[n - 1] \cup Beyond(steps[n - 1])
      BY <3>1, <3>2, <1>5
    <3>6. steps[n - 1] \cup Beyond(steps[n - 1]) \in SUBSET States
      BY <3>4, <1>1
    <3> QED
      BY <3>1, <3>5, <3>6
  <2> HIDE DEF steps, Beyond
  <2>2. \A n \in Nat : steps[n] \subseteq States
    BY <2>1
  <2> QED
    BY <2>2, <1>5
<1> HIDE DEF Beyond, steps
<1>7. steps[0] = {s}
  BY <1>5
<1>8. ASSUME NEW n \in Nat PROVE steps[n + 1] = steps[n] \cup Beyond(steps[n])
  <2>1. n + 1 \in Nat /\ n + 1 # 0 /\ (n + 1) - 1 = n
    OBVIOUS
  <2> QED
    BY <1>5, <2>1
<1> QED
  BY <1>6, <1>7, <1>8 DEF Beyond, steps

(* More steps lead to no fewer states.                                     *)
LEMMA StepsFromGrows ==
    ASSUME graph \in GraphType, NEW s \in States, NEW n \in Nat, NEW m \in Nat, n <= m
    PROVE  StepsFrom(s)[n] \subseteq StepsFrom(s)[m]
<1> DEFINE steps == StepsFrom(s)
           Off == {k \in Nat : n <= k /\ ~ (steps[n] \subseteq steps[k])}
<1>1. \A k \in Nat : steps[k] \subseteq steps[k + 1]
  BY StepsFromSteps
<1> HIDE DEF steps
<1> SUFFICES ASSUME Off # {} PROVE FALSE
  BY DEF steps
<1>2. PICK k \in Off : \A j \in Off : k <= j
  <2>1. Off \in SUBSET Nat
    OBVIOUS
  <2> HIDE DEF Off
  <2> QED
    BY <2>1, LeastElement
<1>3. k - 1 \in Nat /\ n <= k - 1 /\ ~ (k <= k - 1) /\ (k - 1) + 1 = k
  BY <1>2
<1>4. steps[n] \subseteq steps[k - 1]
  BY <1>2, <1>3
<1>5. steps[k - 1] \subseteq steps[(k - 1) + 1]
  BY <1>1, <1>3
<1> QED
  BY <1>2, <1>3, <1>4, <1>5

(* Every transition costs c.                                               *)
AllCost(c) == \A i \in Steps : TransitionCost(task.transitions[i]) = c

(* A layer n steps from the state estimated holds every state n steps away *)
(* and nothing that costs more than n transitions; once the goal holds no  *)
(* solved state is less than n + 1 steps away, and the layer reached it    *)
(* with the costs of as many transitions.                                  *)
StepFits(c, n) ==
    /\ layer.mode = "Normal" =>
          /\ \A u \in StepsFrom(layer.from)[n] : u.bools \subseteq layer.bools
          /\ \A v \in layer.bools : layer.costs[v] <= c * n
          /\ layer.bools = layer.from.bools \/ ~ IsSolved(layer.bools, task.goal)
    /\ layer.mode = "Tail" =>
          \/ IsSolved(layer.from.bools, task.goal)
          \/ /\ StepsFrom(layer.from)[n] \cap graph.goals = {}
             /\ \A v \in task.goal.mask : layer.costs[v] <= c * (n + 1)

StepsFit ==
    ~ Fresh /\ Positive(problem) =>
        /\ \A v \in layer.from.bools : layer.costs[v] = 0
        /\ \A c \in 1..Precision : AllCost(c) => \E n \in Nat : StepFits(c, n)

LEMMA SolvedIsGoal ==
    ASSUME NEW goal, goal.mask = goal.value, NEW S
    PROVE  IsSolved(S, goal) <=> goal.mask \subseteq S
BY DEF IsSolved, EqualMasked

(* The states one step further are held by the layer grown.                *)
LEMMA GrowHolds ==
    ASSUME GraphInv, ~ layer.finished, TaskFits, PositiveTask, NEW S \in SUBSET VarState,
           \A u \in S : u.bools \subseteq layer.bools,
           NEW e \in graph.edges, e[1] \in S
    PROVE  e[2].bools \subseteq GrownBools(task, layer)
<1>1. e \in EdgesOf(task) /\ IsTask(task)
  BY DEF TaskFits, GraphInv, GraphTypeOK
<1>2. PICK u \in VarState : e \in
            {<<u, Apply(u, task.transitions[i]), TransitionCost(task.transitions[i])>> :
                i \in Offered(task, u)}
  BY <1>1 DEF EdgesOf
<1>3. PICK i \in Offered(task, u) :
          e = <<u, Apply(u, task.transitions[i]), TransitionCost(task.transitions[i])>>
  BY <1>2
<1>4. /\ i \in Steps /\ u \in S /\ Available(u.bools, task.transitions[i])
      /\ e[2] = Apply(u, task.transitions[i])
  BY <1>3 DEF Offered, Steps
<1>5. u.bools \subseteq layer.bools
  BY <1>4
<1>6. Available(layer.bools, task.transitions[i])
  BY <1>4, <1>5, RelaxedIsMore DEF PositiveTask
<1>7. Added(task.transitions[i]) \subseteq GrownBools(task, layer)
  <2>1. CASE i \in layer.left
    BY <2>1, <1>6 DEF GrownBools, Ready
  <2>2. CASE i \notin layer.left
    BY <2>2, <1>4 DEF GrownBools, GraphInv, NoneIsLost
  <2> QED
    BY <2>1, <2>2
<1> QED
  BY <1>1, <1>4, <1>5, <1>7, ApplyAdds DEF GrownBools

(* What the layer grown holds costs one transition more at most.           *)
LEMMA GrowCosts ==
    ASSUME GraphTypeOK, PositiveTask, NEW c \in Nat, AllCost(c), NEW top \in Nat,
           \A v \in layer.bools : layer.costs[v] <= top,
           NEW v \in GrownBools(task, layer)
    PROVE  GrownCosts(task, layer)[v] <= top + c
<1>1. /\ IsTask(task) /\ layer.bools \subseteq Vars /\ layer.left \subseteq Steps
      /\ layer.costs \in [Vars -> 0..Infinite] /\ Infinite \in Nat
  BY GraphAssumption DEF GraphTypeOK, LayerType, GraphAssumption
<1>2. CASE v \in layer.bools
  <2>1. v \in Vars /\ layer.costs[v] \in Nat /\ layer.costs[v] <= top
    BY <1>1, <1>2
  <2>2. GrownCosts(task, layer)[v] \in Nat /\ GrownCosts(task, layer)[v] <= layer.costs[v]
    BY <2>1, GrownIsLeast
  <2> QED
    BY <2>1, <2>2
<1>3. CASE v \notin layer.bools
  <2>1. PICK i \in Ready(task, layer) : v \in Added(task.transitions[i])
    BY <1>3 DEF GrownBools
  <2>2. i \in Steps /\ Available(layer.bools, task.transitions[i])
    BY <1>1 DEF Ready
  <2>3. v \in Vars
    BY <2>1, <2>2, <1>1, TransitionParts
  <2> DEFINE t == task.transitions[i]
             costs == {layer.costs[w] : w \in t.condition.mask}
  <2>4. t.condition.mask \subseteq layer.bools
    BY <2>2 DEF PositiveTask, Available, EqualMasked
  <2>5. costs \in SUBSET (0..top)
    <3>1. ASSUME NEW w \in t.condition.mask PROVE layer.costs[w] \in 0..top
      <4>1. w \in layer.bools /\ layer.costs[w] \in 0..Infinite
        BY <2>4, <1>1
      <4> QED
        BY <4>1, <1>1
    <3> QED
      BY <3>1
  <2>6. TransitionCost(t) = c
    BY <2>2 DEF AllCost
  <2> HIDE DEF t, costs
  <2>7. ConditionCost(layer.costs, t) \in 0..top
    BY <2>5, GreatestCost DEF ConditionCost, costs
  <2>8. AddFloat(ConditionCost(layer.costs, t), TransitionCost(t)) \in Nat
        /\ AddFloat(ConditionCost(layer.costs, t), TransitionCost(t)) <= top + c
    BY <2>6, <2>7, <1>1 DEF AddFloat
  <2>9. /\ GrownCosts(task, layer)[v] \in Nat
        /\ GrownCosts(task, layer)[v]
             <= AddFloat(ConditionCost(layer.costs, t), TransitionCost(t))
    BY <2>1, <2>3, GrownIsLeast DEF t
  <2> QED
    BY <2>8, <2>9
<1> QED
  BY <1>2, <1>3

LEMMA SolverKeepsGraph == SolverInv /\ [Next]_allVars => graph' = graph /\ problem' = problem
<1> SUFFICES ASSUME SolverInv, [Next]_allVars PROVE graph' = graph /\ problem' = problem
  OBVIOUS
<1>1. CASE EngineStep
  BY <1>1 DEF EngineStep, Dequeue, Finalize, BacktraceStep, vars, ownVars
<1>2. CASE \/ SelectMemory \/ EstimateRoot \/ EstimateLayer \/ EstimateThrows \/ Start
           \/ (\E e \in todo : Skip(e) \/ Visit(e)) \/ Generate
  BY <1>2 DEF SelectMemory, EstimateRoot, EstimateLayer, EstimateThrows, Start, Skip, Visit,
              Generate, vars, ownVars
<1>3. CASE SearchReturns \/ RebuildStep \/ PrintPlan \/ Join \/ MonitorThread \/ Ended
           \/ UNCHANGED allVars
  BY <1>3 DEF SearchReturns, RebuildStep, PrintPlan, Join, MonitorThread, MonitorTurn,
              MonitorStats, Ended, allVars, vars, ownVars
<1> QED
  BY <1>1, <1>2, <1>3 DEF Next, SearchThread

LEMMA BeginKeepsSteps ==
    ASSUME SolverInv, NEW s \in VarState, BeginEstimate(s), graph' = graph
    PROVE  StepsFit'
<1>1. /\ task' = task /\ layer' = FirstLayer(task, s) /\ graph \in GraphType /\ s \in States
      /\ s.bools \subseteq Vars
  BY SolverAssumption
     DEF BeginEstimate, SolverInv, PathInv, TypeOK, SolverAssumption, VarState
<1>2. /\ layer'.mode = "Normal" /\ layer'.bools = s.bools /\ layer'.from = s
      /\ \A v \in s.bools : layer'.costs[v] = 0
  BY <1>1 DEF FirstLayer
<1>3. StepsFrom(s)' = StepsFrom(s)
  BY DEF StepsFrom
<1>4. StepsFrom(s)[0] = {s}
  BY <1>1, StepsFromSteps
<1>5. ASSUME NEW c \in 1..Precision PROVE StepFits(c, 0)'
  <2>1. c * 0 = 0
    BY GraphAssumption DEF GraphAssumption
  <2> QED
    BY <1>2, <1>3, <1>4, <2>1 DEF StepFits
<1> QED
  BY <1>2, <1>5 DEF StepsFit

LEMMA GrowKeepsSteps ==
    ASSUME SolverInv, StepsFit, GrowLayer, graph' = graph, problem' = problem
    PROVE  StepsFit'
<1> SUFFICES ASSUME Positive(problem) PROVE StepsFit'
  BY DEF StepsFit
<1> DEFINE bools == GrownBools(task, layer)
           near(n) == StepsFrom(layer.from)[n]
<1>0. /\ IsTask(task) /\ layer \in LayerType /\ ~ layer.finished /\ ~ Fresh
      /\ layer.mode \in {"Normal", "Tail"} /\ GraphTypeOK /\ GraphInv /\ TaskFits
      /\ PositiveTask /\ task.goal.mask = task.goal.value
      /\ graph \in GraphType /\ layer.from \in States /\ States = VarState
  BY PositiveParts, SolverAssumption
     DEF SolverInv, GraphInv, GraphTypeOK, FailedForGood, GrowLayer, LayerType, Fresh,
         PathInv, TypeOK, SolverAssumption
<1>1. task' = task /\ layer' = Grow(task, layer) /\ Steps' = Steps
  BY DEF GrowLayer, Steps
<1>2. /\ layer'.from = layer.from
      /\ layer'.bools = bools
      /\ layer'.costs = GrownCosts(task, layer)
      /\ layer'.mode = IF layer.mode # "Normal" THEN layer.mode
                       ELSE IF IsSolved(bools, task.goal) THEN "Tail"
                       ELSE IF bools = layer.bools THEN "Failed" ELSE "Normal"
  BY <1>0, <1>1 DEF Grow, LayerType
<1>3. /\ layer.bools \subseteq bools /\ layer.from.bools \subseteq layer.bools
      /\ layer.bools \subseteq Vars /\ task.goal.mask \subseteq Vars
      /\ layer.costs \in [Vars -> 0..Infinite] /\ Infinite \in Nat
  BY <1>0, GraphAssumption
     DEF GrownBools, GraphInv, LayerType, IsTask, MaskedVector, GraphAssumption
<1>4. \A n : StepsFrom(layer.from)'[n] = near(n)
  BY <1>2 DEF StepsFrom
<1> HIDE DEF bools
<1>5. ASSUME NEW v \in layer.from.bools PROVE layer'.costs[v] = 0
  <2>1. v \in Vars /\ layer.costs[v] = 0
    BY <1>0, <1>3 DEF StepsFit
  <2> QED
    BY <2>1, <1>0, <1>2, GrownIsLeast
<1>6. ASSUME NEW c \in 1..Precision, AllCost(c)' PROVE \E n \in Nat : StepFits(c, n)'
  <2>1. AllCost(c) /\ c \in Nat
    BY <1>1, <1>6, GraphAssumption DEF AllCost, GraphAssumption
  <2>2. PICK n \in Nat : StepFits(c, n)
    BY <2>1, <1>0 DEF StepsFit
  <2>3. c * n \in Nat /\ c * (n + 1) = c * n + c /\ n + 1 \in Nat
    BY <2>1
  <2>4. CASE layer.mode = "Tail"
    <3>1. layer'.mode = "Tail"
      BY <2>4, <1>2
    <3>2. ASSUME NEW v \in task.goal.mask, layer.costs[v] <= c * (n + 1)
          PROVE  layer'.costs[v] <= c * (n + 1)
      <4>1. v \in Vars /\ layer.costs[v] \in Nat
        BY <1>3
      <4>2. /\ GrownCosts(task, layer)[v] \in Nat
            /\ GrownCosts(task, layer)[v] <= layer.costs[v]
        BY <4>1, <1>0, GrownIsLeast
      <4> QED
        BY <4>1, <4>2, <1>2, <2>3, <3>2
    <3>3. StepFits(c, n)'
      BY <2>2, <2>4, <3>1, <3>2, <1>1, <1>2, <1>4 DEF StepFits
    <3> QED
      BY <3>3
  <2>5. CASE layer.mode = "Normal"
    <3>1. /\ near(n) \in SUBSET VarState
          /\ \A u \in near(n) : u.bools \subseteq layer.bools
          /\ \A v \in layer.bools : layer.costs[v] <= c * n
          /\ layer.bools = layer.from.bools \/ ~ IsSolved(layer.bools, task.goal)
      BY <2>2, <2>5, <1>0, StepsFromSteps DEF StepFits
    <3>2. \A v \in bools : layer'.costs[v] <= c * (n + 1)
      <4>1. \A v \in GrownBools(task, layer) : GrownCosts(task, layer)[v] <= c * n + c
        BY <3>1, <2>1, <2>3, <1>0, GrowCosts
      <4> QED
        BY <4>1, <2>3, <1>2 DEF bools
    <3>3. CASE IsSolved(bools, task.goal)
      <4>1. layer'.mode = "Tail"
        BY <3>3, <2>5, <1>2
      <4>2. task.goal.mask \subseteq bools
        BY <3>3, <1>0, SolvedIsGoal
      <4>3. \/ IsSolved(layer.from.bools, task.goal)
            \/ near(n) \cap graph.goals = {}
        <5>1. CASE IsSolved(layer.bools, task.goal)
          BY <5>1, <3>1
        <5>2. CASE ~ IsSolved(layer.bools, task.goal)
          <6>1. ASSUME NEW u \in near(n) \cap graph.goals PROVE FALSE
            <7>1. IsSolved(u.bools, task.goal) /\ u.bools \subseteq layer.bools
              BY <3>1, <1>0 DEF TaskFits
            <7>2. IsSolved(layer.bools, task.goal)
              BY <7>1, <1>0, SolvedStays DEF IsTask
            <7> QED
              BY <7>2, <5>2
          <6> QED
            BY <6>1
        <5> QED
          BY <5>1, <5>2
      <4>4. StepFits(c, n)'
        BY <4>1, <4>2, <4>3, <3>2, <1>1, <1>2, <1>4 DEF StepFits
      <4> QED
        BY <4>4
    <3>4. CASE ~ IsSolved(bools, task.goal)
      <4>1. layer'.mode \in {"Normal", "Failed"}
        BY <3>4, <2>5, <1>2
      <4>2. ASSUME NEW u \in near(n + 1) PROVE u.bools \subseteq bools
        <5>1. near(n + 1) = near(n) \cup
                 {e[2] : e \in {d \in graph.edges : d[1] \in near(n)}}
          BY <1>0, StepsFromSteps
        <5>2. CASE u \in near(n)
          BY <5>2, <3>1, <1>3
        <5>3. CASE u \notin near(n)
          <6>1. PICK e \in graph.edges : e[1] \in near(n) /\ e[2] = u
            BY <5>1, <5>3
          <6> HIDE DEF near
          <6>2. e[2].bools \subseteq GrownBools(task, layer)
            BY <6>1, <3>1, <1>0, GrowHolds
          <6> QED
            BY <6>1, <6>2 DEF bools
        <5> QED
          BY <5>2, <5>3
      <4>3. StepFits(c, n + 1)'
        BY <4>1, <4>2, <3>2, <3>4, <1>1, <1>2, <1>4, <2>3 DEF StepFits
      <4> QED
        BY <4>3, <2>3
    <3> QED
      BY <3>3, <3>4
  <2> QED
    BY <2>4, <2>5, <1>0
<1> QED
  BY <1>2, <1>5, <1>6 DEF StepsFit

LEMMA StepsInit == Init => StepsFit
BY DEF Init, NoLayer, StepsFit, Fresh

LEMMA StepsStep == SolverInv /\ StepsFit /\ [Next]_allVars => StepsFit'
<1> SUFFICES ASSUME SolverInv, StepsFit, [Next]_allVars PROVE StepsFit'
  OBVIOUS
<1>0. graph' = graph /\ problem' = problem /\ [GraphNext]_graphVars
  BY SolverKeepsGraph, SolverStepsGraph
<1>1. CASE GrowLayer
  BY <1>0, <1>1, GrowKeepsSteps
<1>2. CASE \E s \in VarState : BeginEstimate(s)
  BY <1>0, <1>2, BeginKeepsSteps
<1>3. CASE UNCHANGED graphVars
  <2>1. \A n : StepsFrom(layer.from)'[n] = StepsFrom(layer.from)[n]
    BY <1>0, <1>3 DEF StepsFrom, graphVars
  <2>2. \A c, n : StepFits(c, n)' = StepFits(c, n)
    BY <2>1, <1>0, <1>3 DEF StepFits, graphVars
  <2>3. \A c : AllCost(c)' = AllCost(c)
    BY <1>3 DEF AllCost, Steps, graphVars
  <2> QED
    BY <2>2, <2>3, <1>0, <1>3 DEF StepsFit, Fresh, graphVars
<1> QED
  BY <1>0, <1>1, <1>2, <1>3 DEF GraphNext

(* Rounding up what n + 1 transitions of cost c can cost at most.          *)
LEMMA RoundedUp ==
    ASSUME NEW c \in Nat, c > 0, NEW n \in Nat, NEW est \in Nat, est > 0,
           est <= c * (n + 1)
    PROVE  ((est + c - 1) \div c) - 1 \in 0..n
<1> DEFINE x == est + c - 1
           q == x \div c
<1>1. x \in Nat /\ c \in Nat \ {0}
  OBVIOUS
<1>2. q \in Nat /\ c * q <= x /\ x < c * (q + 1)
  BY <1>1
<1>3. c * (n + 1) \in Nat /\ c * (n + 2) = c * (n + 1) + c /\ c * q \in Nat
      /\ c * (n + 2) \in Nat
  BY <1>2
<1> HIDE DEF q
<1>4. q # 0
  <2>1. q = 0 => x < c
    BY <1>2
  <2> QED
    BY <2>1
<1>5. ~ (n + 2 <= q)
  <2>1. n + 2 <= q => c * (n + 2) <= c * q
    BY <1>2, TimesMore
  <2>2. c * q < c * (n + 2)
    BY <1>1, <1>2, <1>3
  <2> QED
    BY <2>1, <2>2, <1>3
<1> QED
  BY <1>2, <1>4, <1>5 DEF q

(* The estimation never exceeds the cost of reaching a goal, when every    *)
(* transition has the same cost and no condition is negative               *)
(* (planning_graph_heuristic.h, operator()): the n + 1 layers it grew hold *)
(* every state n steps away.                                               *)
THEOREM PlannerEstimateIsLowerBound == Spec => []EstimateIsLowerBound
<1>1. SolverInv /\ AnswerInv /\ StepsFit => EstimateIsLowerBound
  <2> SUFFICES ASSUME SolverInv, AnswerInv, StepsFit, pending # << >>, layer.finished,
                      Positive(problem), NEW c \in 1..Precision, AllCost(c),
                      Estimation(task, layer) # Infinite, Estimation(task, layer) > 0
               PROVE  StepsFrom(layer.from)[((Estimation(task, layer) + c - 1) \div c) - 1]
                          \cap graph.goals = {}
    BY DEF EstimateIsLowerBound, AllCost
  <2> DEFINE est == Estimation(task, layer)
             costs == {layer.costs[v] : v \in task.goal.mask}
  <2>1. ~ Fresh /\ layer.mode = "Tail"
    BY DEF AnswerInv, LayerFits, Fresh, SolverInv, GraphInv, GraphTypeOK, LayerType,
           Estimation
  <2>2. /\ layer.from \in States /\ layer.from.bools \subseteq Vars
        /\ layer.costs \in [Vars -> 0..Infinite] /\ task.goal.mask \subseteq Vars
        /\ graph \in GraphType /\ Infinite \in Nat /\ c \in Nat /\ c > 0
        /\ task.goal.mask = task.goal.value
    BY PositiveParts, SolverAssumption, GraphAssumption
       DEF SolverInv, GraphInv, GraphTypeOK, LayerType, VarState, PathInv, TypeOK, IsTask,
           MaskedVector, SolverAssumption, GraphAssumption
  <2>3. est = GreatestFloat(costs)
    BY <2>1 DEF Estimation
  <2> HIDE DEF est
  <2>4. ASSUME NEW top \in Nat, \A v \in task.goal.mask : layer.costs[v] <= top
        PROVE  est \in 0..top
    <3>1. \A v \in task.goal.mask : layer.costs[v] \in 0..top
      BY <2>2, <2>4
    <3>2. costs \in SUBSET (0..top)
      BY <3>1
    <3> HIDE DEF costs
    <3> QED
      BY <3>2, <2>3, GreatestCost
  <2>5. PICK n \in Nat : StepFits(c, n)
    BY <2>1 DEF StepsFit
  <2>6. ~ IsSolved(layer.from.bools, task.goal)
    <3> SUFFICES ASSUME IsSolved(layer.from.bools, task.goal) PROVE FALSE
      OBVIOUS
    <3>1. task.goal.mask \subseteq layer.from.bools
      BY <2>2, SolvedIsGoal
    <3>2. \A v \in task.goal.mask : layer.costs[v] <= 0
      BY <3>1, <2>1 DEF StepsFit
    <3>3. est \in 0..0
      BY <3>2, <2>4
    <3> QED
      BY <3>3 DEF est
  <2>7. /\ StepsFrom(layer.from)[n] \cap graph.goals = {}
        /\ \A v \in task.goal.mask : layer.costs[v] <= c * (n + 1)
    BY <2>1, <2>5, <2>6 DEF StepFits
  <2>8. est \in Nat /\ est <= c * (n + 1)
    <3>1. c * (n + 1) \in Nat
      BY <2>2
    <3>2. est \in 0..(c * (n + 1))
      BY <3>1, <2>7, <2>4
    <3> QED
      BY <3>1, <3>2
  <2> DEFINE k == ((est + c - 1) \div c) - 1
  <2>9. k \in 0..n
    BY <2>2, <2>8, RoundedUp DEF est
  <2> HIDE DEF k
  <2>10. StepsFrom(layer.from)[k] \subseteq StepsFrom(layer.from)[n]
    BY <2>9, <2>2, StepsFromGrows
  <2> QED
    BY <2>7, <2>10 DEF k, est
<1> QED
  BY <1>1, StepsInit, StepsStep, SolverInvariant, AnswerInvariant, PTL DEF Spec
=============================================================================
