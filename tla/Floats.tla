------------------------------- MODULE Floats -------------------------------
(***************************************************************************)
(* The arithmetic of the non-negative floats the planner computes with:    *)
(* natural numbers below a largest one, which stands for numeric_limits    *)
(* <float>::max() and absorbs whatever is added to it.                     *)
(***************************************************************************)
EXTENDS Naturals

CONSTANT Infinite  \* numeric_limits<float>::max()

AddFloat(x, y) == IF x = Infinite \/ y = Infinite THEN Infinite ELSE x + y

LesserFloat(x, y) == IF x <= y THEN x ELSE y

(* std::max over a finite set, 0.0f when there is nothing in it. *)
GreatestFloat(S) == CHOOSE x \in S \cup {0} : \A y \in S : y <= x

LeastFloat(S) == CHOOSE x \in S : \A y \in S : x <= y
=============================================================================
