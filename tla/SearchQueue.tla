----------------------------- MODULE SearchQueue -----------------------------
(***************************************************************************)
(* The open list of the queued engines (core/search_queue.h): a map from   *)
(* a priority to a FIFO layer of nodes.  Two estimations share a layer     *)
(* exactly when the engine's comparator orders neither before the other,   *)
(* so a layer is keyed here by the one number the comparator looks at.     *)
(* An empty layer is erased at once, so every layer present has a node.    *)
(***************************************************************************)
EXTENDS Naturals, Sequences

(* No layers: m_primaryData.empty(). *)
NoLayers == [p \in {} |-> << >>]

QueueEmpty(q) == DOMAIN q = {}

(* A queue of elements of S: no layer is empty. *)
QueueType(q, S) ==
    /\ DOMAIN q \subseteq Nat
    /\ \A p \in DOMAIN q : q[p] \in Seq(S) \ {<< >>}

Members(q) == UNION {{q[p][i] : i \in 1..Len(q[p])} : p \in DOMAIN q}

(* Faulty variant: the comparator of the map reversed. *)
WorstPriority(q) == CHOOSE p \in DOMAIN q : \A r \in DOMAIN q : p >= r

(* m_primaryData.begin()->first, for a queue that has a layer. *)
BestPriority(q) == CHOOSE p \in DOMAIN q : \A r \in DOMAIN q : p <= r

(* Faulty variant: a layer is a stack. *)
PushInFront(q, p, x) ==
    [r \in DOMAIN q \cup {p} |->
        IF r # p THEN q[r] ELSE IF p \in DOMAIN q THEN <<x>> \o q[p] ELSE <<x>>]

(* push joins the layer of that priority or opens it. *)
Push(q, p, x) ==
    IF p \in DOMAIN q
    THEN [q EXCEPT ![p] = Append(@, x)]
    ELSE [r \in DOMAIN q \cup {p} |-> IF r = p THEN <<x>> ELSE q[r]]

(* top of the first layer, for a queue that has one. *)
Top(q) == Head(q[BestPriority(q)])

(* Faulty variants: an empty layer stays; the whole layer goes; none does. *)
PopKeepsLayer(q) == [q EXCEPT ![BestPriority(q)] = Tail(@)]
PopDropsLayer(q) == [r \in DOMAIN q \ {BestPriority(q)} |-> q[r]]
PopForgotten(q) == q

(* pop_and_call with max_count 1: one node leaves the first layer and the  *)
(* layer goes with its last node.                                          *)
Pop(q) ==
    LET first == BestPriority(q)
    IN  IF Len(q[first]) = 1
        THEN [r \in DOMAIN q \ {first} |-> q[r]]
        ELSE [q EXCEPT ![first] = Tail(@)]
=============================================================================
