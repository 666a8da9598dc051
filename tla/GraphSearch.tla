----------------------------- MODULE GraphSearch -----------------------------
(***************************************************************************)
(* What a search engine promises its caller, whatever its queue does: it   *)
(* comes to know states one at a time, each from a state known before, and *)
(* it answers once, with a plan through the states it knows, or with the   *)
(* empty plan when no goal can be reached.                                 *)
(***************************************************************************)
EXTENDS Naturals, Sequences

CONSTANTS
    States,     \* the vertices
    InitState,  \* where a plan starts
    Infinite    \* the estimation of a dead end

VARIABLES
    graph,     \* what is searched: the order of the engine is not used
    known,     \* the states that have been given a node
    answered,  \* the caller has its answer
    plan       \* the plan answered, << >> for none

vars == <<graph, known, answered, plan>>

AnyGraph ==
    [edges : SUBSET (States \X States \X Nat),
     goals : SUBSET States,
     h     : [States -> Nat],
     cmp   : {"astar", "gbfs", "bfs", "dfs"}]

Leads(s, t) == \E e \in graph.edges : e[1] = s /\ e[2] = t

Alive(s) == graph.h[s] # Infinite

(* A plan through the states known that repeats none of them. *)
Plan(p) ==
    /\ p # << >>
    /\ p[1] = InitState
    /\ p[Len(p)] \in graph.goals
    /\ \A i \in 1..(Len(p) - 1) : Leads(p[i], p[i + 1])
    /\ \A i, j \in 1..Len(p) : p[i] = p[j] => i = j
    /\ \A i \in 1..Len(p) : p[i] \in known

(* A set of states that can be searched through and out of which no live   *)
(* edge leads: with no goal in it there is no plan.                        *)
Exhausted(C) ==
    /\ InitState \in C
    /\ C \cap graph.goals = {}
    /\ \A e \in graph.edges : e[1] \in C /\ Alive(e[2]) => e[2] \in C

Init ==
    /\ graph \in AnyGraph
    /\ known = {}
    /\ answered = FALSE
    /\ plan = << >>

Know(s) ==
    /\ ~ answered
    /\ s \notin known
    /\ \/ s = InitState
       \/ Alive(s) /\ (\E r \in known : Leads(r, s))
    /\ known' = known \cup {s}
    /\ UNCHANGED <<graph, answered, plan>>

Answer ==
    /\ ~ answered
    /\ answered' = TRUE
    /\ IF plan' = << >> THEN Exhausted(known) ELSE Plan(plan')
    /\ UNCHANGED <<graph, known>>

Next == Answer \/ \E s \in States : Know(s)

Spec == Init /\ [][Next]_vars
=============================================================================
