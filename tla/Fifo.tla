-------------------------------- MODULE Fifo --------------------------------
(***************************************************************************)
(* What a layer of the open list promises: values leave in the order they  *)
(* entered, none is lost and none comes twice.                             *)
(***************************************************************************)
EXTENDS Sequences

CONSTANT Values

VARIABLES
    items,  \* what is in the queue, oldest first
    out     \* the value taken last, << >> before the first

vars == <<items, out>>

Init == items = << >> /\ out = << >>

Put(v) ==
    /\ items' = Append(items, v)
    /\ UNCHANGED out

Take ==
    /\ items # << >>
    /\ out' = <<Head(items)>>
    /\ items' = Tail(items)

Next == Take \/ \E v \in Values : Put(v)

Spec == Init /\ [][Next]_vars
=============================================================================
