------------------------------ MODULE StateSet ------------------------------
(***************************************************************************)
(* What the set of known states promises the search: a value is answered   *)
(* as new exactly once, the first time it is inserted.                     *)
(***************************************************************************)
CONSTANT Values

VARIABLES
    members,  \* the values inserted
    answer    \* the last call: its value, and whether the set had it before

vars == <<members, answer>>

Init == members = {} /\ answer = << >>

Answer(v) == answer' = <<v, v \in members>>

Insert(v) == Answer(v) /\ members' = members \cup {v}

Find(v) == Answer(v) /\ UNCHANGED members

Next == \E v \in Values : Insert(v) \/ Find(v)

Spec == Init /\ [][Next]_vars
=============================================================================
