---------------------------- MODULE VarsetSystem ----------------------------
(***************************************************************************)
(* The transition system a planning task is turned into: boolean state     *)
(* variables kept in bit vectors, and the one numeric variable the planner *)
(* looks at, (total-cost).  A bit vector is the set of the bits it has at  *)
(* 1; a masked bit vector is the pair of a value and a mask.               *)
(*                                                                         *)
(* Of the numeric effects only those on (total-cost) are kept; "assign"    *)
(* stands for every kind of effect whose cost the code does not implement. *)
(***************************************************************************)
EXTENDS Floats, Sequences

CONSTANTS
    Vars,      \* the boolean variables (the literals of the grounded task)
    Precision  \* the least total so large that adding a cost is lost

VarState == [bools : SUBSET Vars, total : 0..Precision]

(* set() raises the bit of the mask with every bit of the value. *)
MaskedVector ==
    {m \in [value : SUBSET Vars, mask : SUBSET Vars] : m.value \subseteq m.mask}

(* bit_vector::equal_masked and set_masked. *)
EqualMasked(bits, value, mask) == bits \cap mask = value \cap mask

SetMasked(bits, value, mask) == (bits \ mask) \cup (value \cap mask)
-----------------------------------------------------------------------------
(* A grounded PDDL operator, and what the converter makes of it.  The      *)
(* effects are set one after the other, the deletes last; the conditions   *)
(* of an operator are consistent.                                          *)
Metric == [kind : {"none", "increase", "assign", "unknown"}, amount : Nat]

Operator ==
    [pos : SUBSET Vars, neg : SUBSET Vars,
     add : SUBSET Vars, del : SUBSET Vars, metric : Metric]

TransitionOf(op) ==
    [name      |-> op,
     condition |-> [value |-> op.pos, mask |-> op.pos \cup op.neg],
     effect    |-> [value |-> op.add \ op.del, mask |-> op.add \cup op.del],
     metric    |-> op.metric]

Transition ==
    [name : Operator, condition : MaskedVector, effect : MaskedVector,
     metric : Metric]

(* An operator whose numeric effect names a function nobody gave a value   *)
(* is dropped (good_trans); the others keep their order, here the number.  *)
TransitionsOf(ops) ==
    [i \in {j \in DOMAIN ops : ops[j].metric.kind # "unknown"} |->
        TransitionOf(ops[i])]

(* from_pddl_task: the transitions, the initial state and the goal. *)
TaskOf(problem) ==
    [transitions |-> TransitionsOf(problem.ops),
     initial     |-> [bools |-> problem.init, total |-> 0],
     goal        |-> [value |-> problem.goalPos,
                      mask  |-> problem.goalPos \cup problem.goalNeg]]

IsTask(tk) ==
    /\ \A i \in DOMAIN tk.transitions : tk.transitions[i] \in Transition
    /\ tk.initial \in VarState
    /\ tk.goal \in MaskedVector
-----------------------------------------------------------------------------
(* Faulty variants: the negative literals of a condition are not looked at;*)
(* the mask is not applied.                                                *)
AvailablePositive(bits, t) == t.condition.value \subseteq bits

AvailableUnmasked(bits, t) == bits = t.condition.value

(* combinedvar_system: the numeric part never forbids a transition. *)
Available(bits, t) == EqualMasked(bits, t.condition.value, t.condition.mask)

(* floatvar_system_base::apply on (total-cost). *)
ApplyMetric(total, metric) ==
    CASE metric.kind = "increase" -> LesserFloat(total + metric.amount, Precision)
      [] metric.kind = "assign"   -> LesserFloat(metric.amount, Precision)
      [] OTHER                    -> total

Apply(s, t) ==
    [bools |-> SetMasked(s.bools, t.effect.value, t.effect.mask),
     total |-> ApplyMetric(s.total, t.metric)]

(* transition_cost: 0 without an effect on (total-cost); an effect that is *)
(* no increase makes it throw.                                             *)
CostThrows(t) == t.metric.kind = "assign"

TransitionCost(t) == IF t.metric.kind = "increase" THEN t.metric.amount ELSE 0

(* to_relaxed: what a transition deletes is no longer in its mask. *)
ToRelaxed(t) == [t EXCEPT !.effect.mask = t.effect.value \cap t.effect.mask]

(* is_solved: the code hands equal_masked the mask for the value and the   *)
(* value for the mask.                                                     *)
IsSolved(bits, goal) == EqualMasked(bits, goal.mask, goal.value)
-----------------------------------------------------------------------------
(* The meaning of the PDDL problem the transition system is built from.    *)
(* An operator reading a function without a value never applies.           *)
OpApplies(op, bits) ==
    op.pos \subseteq bits /\ op.neg \cap bits = {} /\ op.metric.kind # "unknown"

OpResult(op, bits) == (bits \ op.del) \cup op.add

GoalHolds(problem, bits) ==
    problem.goalPos \subseteq bits /\ problem.goalNeg \cap bits = {}

(* The problems whose meaning the converter keeps: no goal is negative, no *)
(* condition contradicts itself, no operator adds what it deletes.         *)
Kept(problem) ==
    /\ problem.goalNeg = {}
    /\ \A i \in DOMAIN problem.ops :
          /\ problem.ops[i].pos \cap problem.ops[i].neg = {}
          /\ problem.ops[i].add \cap problem.ops[i].del = {}

(* Those for which the planning graph tells the truth about dead ends: no  *)
(* condition is negative either.                                           *)
Positive(problem) ==
    Kept(problem) /\ \A i \in DOMAIN problem.ops : problem.ops[i].neg = {}
=============================================================================
