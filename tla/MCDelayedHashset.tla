-------------------------- MODULE MCDelayedHashset --------------------------
(* Instances of DelayedHashset: two pairs of values with the same hash.    *)
EXTENDS DelayedHashset

MCValues == {<<1, 1>>, <<1, 2>>, <<2, 1>>, <<2, 2>>, <<3, 1>>}

(* A set in use: blocks of one value, after a merge of two requests and a  *)
(* merge of a third, which cut the chain in two.                           *)
InUse ==
    /\ maxItems = 1
    /\ asked = [v \in Values |-> 0]
    /\ held = << >>
    /\ buffers = << << >>, << >> >>
    /\ first = 1
    /\ controller = "swap"
    /\ tasks = NoTasks
    /\ file = <<[prev |-> 1, next |-> 1, items |-> << <<1, 1>> >>], EmptyBlock(2),
                [prev |-> 3, next |-> 4, items |-> << <<2, 1>> >>],
                [prev |-> 3, next |-> 4, items |-> << <<3, 1>> >>]>>
    /\ index = [h \in {0, 2} |-> IF h = 0 THEN ChainInfo(1, 1, 1) ELSE ChainInfo(3, 4, 2)]
    /\ marked = {0, 1}
    /\ newBlocks = << >>
    /\ room = 2
    /\ cuts = << >>
    /\ size = 3
    /\ success = {}
    /\ called = {[val |-> v, id |-> 0] : v \in {<<1, 1>>, <<2, 1>>, <<3, 1>>}}

MCSpec == (Init \/ InUse) /\ [][Next]_vars /\ Fairness
=============================================================================
