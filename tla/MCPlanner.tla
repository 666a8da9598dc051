----------------------------- MODULE MCPlanner -----------------------------
(* Instances of StateSpaceSolver: small PDDL problems of every kind. *)
EXTENDS StateSpaceSolver

CONSTANTS a, b, c

Free == [kind |-> "none", amount |-> 0]
Price(n) == [kind |-> "increase", amount |-> n]
Unset == [kind |-> "assign", amount |-> 1]
Missing == [kind |-> "unknown", amount |-> 0]

Op(pos, neg, add, del, metric) ==
    [pos |-> pos, neg |-> neg, add |-> add, del |-> del, metric |-> metric]

MCInit == [bools |-> {}, total |-> 0]

(* The operators tried: chains and cycles of additions and deletions, a    *)
(* condition that is negative, an effect that deletes what it adds.        *)
Library(m) ==
    <<Op({}, {}, {a}, {}, m[1]),
      Op({a}, {}, {b}, {a}, m[2]),
      Op({a, b}, {}, {c}, {}, m[2]),
      Op({b}, {}, {c}, {}, m[1]),
      Op({c}, {}, {a}, {b, c}, m[2]),
      Op({b}, {a}, {c}, {b}, m[1]),
      Op({a}, {}, {b, c}, {c}, m[1])>>

(* The prices of the operators of a problem. *)
Zero == <<Free, Free>>
Flat == <<Price(1), Price(1)>>
Uneven == <<Price(1), Price(2)>>
Cheaper == <<Price(1), Free>>
Prices == {Zero, Flat, Uneven, Cheaper, <<Price(1), Unset>>, <<Free, Missing>>}

(* The first operator, the only one the initial state allows, with three   *)
(* others; and all of them.                                                *)
MCOps(m) ==
    LET all == {Library(m)[i] : i \in DOMAIN Library(m)}
        Chosen(S) == SelectSeq(Library(m), LAMBDA op : op \in S)
    IN  {Chosen(S) : S \in {T \in SUBSET all :
                              Library(m)[1] \in T /\ Cardinality(T) \in {4, 7}}}

Ask(prices, goal, name) ==
    UNION {{[ops |-> o, init |-> {}, goalPos |-> goal[1], goalNeg |-> goal[2],
             algorithm |-> name] : o \in MCOps(m)} : m \in prices}

(* Two ways to the goal, of which the one over a is a detour. *)
Fork == <<Op({}, {}, {a}, {}, Free), Op({}, {}, {b}, {}, Free), Op({b}, {}, {c}, {}, Free)>>

MCProblems ==
    Ask(Prices, <<{c}, {}>>, "A*")
    \cup Ask({Flat}, <<{b, c}, {}>>, "A*")
    \cup Ask({Cheaper}, <<{a, c}, {}>>, "A*")
    \cup Ask({Flat}, <<{b}, {a}>>, "A*")
    \cup Ask({Zero, Uneven}, <<{c}, {}>>, "GBFS")
    \cup Ask({Zero}, <<{}, {}>>, "GBFS")
    \cup {[ops |-> Fork, init |-> {}, goalPos |-> {c}, goalNeg |-> {}, algorithm |-> n] :
             n \in {"A*", "GBFS"}}
    \cup Ask({Flat}, <<{c}, {}>>, "other")

MCTasks == {TaskOf(p) : p \in MCProblems}

MCGraphs ==
    {GraphOf(TaskOf(p), IF p.algorithm = "GBFS" THEN "gbfs" ELSE "astar") :
        p \in MCProblems}
=============================================================================
