------------------------- MODULE SerialEngineProofs -------------------------
(***************************************************************************)
(* The serial engines for every set of states and every graph: the answer  *)
(* they give is right, whether it is a plan or none, and they are graph    *)
(* searches.  First what the engines share: the open list, the node log    *)
(* and the way back to the root; then the two search loops.                *)
(***************************************************************************)
EXTENDS SerialEngine, WellFoundedInduction, TLAPS

(* A set of natural numbers that has an element has a least one.           *)
LEMMA LeastElement ==
    ASSUME NEW T \in SUBSET Nat, T # {}
    PROVE  \E x \in T : \A y \in T : x <= y
<1> DEFINE R == OpToRel(<, Nat)
<1>1. IsWellFoundedOn(R, Nat)
  BY NatLessThanWellFounded
<1>2. \A x, y \in Nat : <<y, x>> \in R <=> y < x
  BY DEF OpToRel
<1> HIDE DEF R
<1>3. T \subseteq Nat /\ T # {}
  OBVIOUS
<1>4. \E x \in T : \A y \in T : ~ (<<y, x>> \in R)
  BY <1>1, <1>3, WFMin, Zenon
<1>5. PICK x \in T : \A y \in T : ~ (<<y, x>> \in R)
  BY <1>4
<1>6. ASSUME NEW y \in T PROVE x <= y
  <2>1. ~ (<<y, x>> \in R) /\ x \in Nat /\ y \in Nat
    BY <1>5, <1>3
  <2>2. ~ (y < x)
    BY <2>1, <1>2, Zenon
  <2> QED
    BY <2>1, <2>2
<1> QED
  BY <1>6

(* Recursion over the natural numbers: every step leads to one value.      *)
LEMMA NatRecursion ==
    ASSUME NEW S, NEW a \in S, NEW step \in [S -> S]
    PROVE  \E f \in [Nat -> S] : f[0] = a /\ \A n \in Nat : f[n + 1] = step[f[n]]
<1> DEFINE Upto(f, n) == /\ f \in [0..n -> S] /\ f[0] = a
                         /\ \A i \in 1..n : f[i] = step[f[i - 1]]
<1>1. \A n \in Nat : \E f : Upto(f, n)
  <2> DEFINE Without == {n \in Nat : ~ \E f : Upto(f, n)}
  <2> SUFFICES ASSUME Without # {} PROVE FALSE
    OBVIOUS
  <2>1. PICK n \in Without : \A m \in Without : n <= m
    <3> HIDE DEF Upto
    <3>1. Without \in SUBSET Nat
      OBVIOUS
    <3> HIDE DEF Without
    <3> QED
      BY <3>1, LeastElement
  <2>2. CASE n = 0
    <3> DEFINE f == [i \in 0..0 |-> a]
    <3>1. Upto(f, 0)
      OBVIOUS
    <3> QED
      BY <2>2, <3>1
  <2>3. CASE n # 0
    <3>1. n \in Nat /\ n - 1 \in Nat /\ ~ (n <= n - 1)
      BY <2>3
    <3>2. n - 1 \notin Without
      BY <2>1, <3>1
    <3>3. PICK f : Upto(f, n - 1)
      BY <3>1, <3>2
    <3> DEFINE g == [i \in 0..n |-> IF i = n THEN step[f[n - 1]] ELSE f[i]]
    <3>4. f \in [0..(n - 1) -> S] /\ f[n - 1] \in S
      BY <3>1, <3>3
    <3>5. g \in [0..n -> S]
      BY <3>1, <3>4
    <3>6. g[0] = a
      BY <3>1, <3>3, <2>3
    <3>7. \A i \in 1..n : g[i] = step[g[i - 1]]
      BY <3>1, <3>3
    <3> QED
      BY <3>5, <3>6, <3>7
  <2> QED
    BY <2>2, <2>3
<1>2. ASSUME NEW f, NEW g, NEW n \in Nat, NEW m \in Nat, Upto(f, n), Upto(g, m), n <= m
      PROVE  \A i \in 0..n : f[i] = g[i]
  <2> DEFINE Apart == {i \in 0..n : f[i] # g[i]}
  <2> SUFFICES ASSUME Apart # {} PROVE FALSE
    OBVIOUS
  <2>1. PICK i \in Apart : \A j \in Apart : i <= j
    <3>1. Apart \in SUBSET Nat
      OBVIOUS
    <3> HIDE DEF Apart
    <3> QED
      BY <3>1, LeastElement
  <2>2. i \in 1..n /\ i \in 1..m /\ i - 1 \in 0..n /\ ~ (i <= i - 1)
    BY <2>1, <1>2
  <2>3. f[i - 1] = g[i - 1]
    BY <2>1, <2>2
  <2>4. f[i] = step[f[i - 1]] /\ g[i] = step[g[i - 1]]
    BY <2>2, <1>2
  <2> QED
    BY <2>1, <2>3, <2>4
<1> DEFINE part == [n \in Nat |-> CHOOSE f : Upto(f, n)]
           w == [n \in Nat |-> part[n][n]]
<1>3. \A n \in Nat : Upto(part[n], n)
  <2> HIDE DEF Upto
  <2> QED
    BY <1>1
<1> HIDE DEF part
<1>4. w \in [Nat -> S]
  BY <1>3
<1>5. w[0] = a
  BY <1>3
<1>6. ASSUME NEW n \in Nat PROVE w[n + 1] = step[w[n]]
  <2>0. /\ n + 1 \in 1..(n + 1) /\ n + 1 \in Nat /\ (n + 1) - 1 = n
        /\ n <= n + 1 /\ n \in 0..n
    OBVIOUS
  <2>1. Upto(part[n], n) /\ Upto(part[n + 1], n + 1)
    <3> HIDE DEF Upto
    <3> QED
      BY <1>3, <2>0
  <2>2. part[n][n] = part[n + 1][n]
    <3> HIDE DEF Upto
    <3> QED
      BY <2>0, <2>1, <1>2
  <2>3. part[n + 1][n + 1] = step[part[n + 1][n]]
    BY <2>0, <2>1
  <2> QED
    BY <2>0, <2>2, <2>3
<1> QED
  BY <1>4, <1>5, <1>6

(* Within is what its definition says.                                     *)
LEMMA WithinSteps ==
    ASSUME graph \in GraphType, InitState \in States
    PROVE  /\ Within[0] = {InitState}
           /\ \A n \in Nat :
                 Within[n + 1] = Within[n] \cup
                     {e[2] : e \in {f \in graph.edges : f[1] \in Within[n]}}
<1> DEFINE Beyond(X) == {e[2] : e \in {f \in graph.edges : f[1] \in X}}
           step == [X \in SUBSET States |-> X \cup Beyond(X)]
<1>1. \A X \in SUBSET States : X \cup Beyond(X) \in SUBSET States
  <2>1. \A e \in graph.edges : e[2] \in States
    BY DEF GraphType
  <2> QED
    BY <2>1
<1>2. PICK f \in [Nat -> SUBSET States] :
          f[0] = {InitState} /\ \A n \in Nat : f[n + 1] = step[f[n]]
  <2> DEFINE D == SUBSET States
  <2>1. step \in [D -> D] /\ {InitState} \in D
    BY <1>1
  <2> HIDE DEF step, D
  <2>2. \E f \in [Nat -> D] : f[0] = {InitState} /\ \A n \in Nat : f[n + 1] = step[f[n]]
    BY SMTT(60), <2>1, NatRecursion
  <2> QED
    BY <2>2 DEF D
<1>3. \A n \in Nat : f[n + 1] = f[n] \cup Beyond(f[n])
  BY <1>2
<1>4. f = [n \in Nat |-> IF n = 0 THEN {InitState} ELSE f[n - 1] \cup Beyond(f[n - 1])]
  <2>1. ASSUME NEW n \in Nat
        PROVE  f[n] = IF n = 0 THEN {InitState} ELSE f[n - 1] \cup Beyond(f[n - 1])
    <3>1. CASE n = 0
      BY <3>1, <1>2
    <3>2. CASE n # 0
      <4>1. n - 1 \in Nat /\ (n - 1) + 1 = n
        BY <3>2
      <4> HIDE DEF Beyond
      <4>2. f[(n - 1) + 1] = f[n - 1] \cup Beyond(f[n - 1])
        BY <4>1, <1>3
      <4> QED
        BY <3>2, <4>1, <4>2
    <3> QED
      BY <3>1, <3>2
  <2> HIDE DEF Beyond
  <2> QED
    BY <2>1
<1>5. Within = [n \in Nat |-> IF n = 0 THEN {InitState}
                              ELSE Within[n - 1] \cup Beyond(Within[n - 1])]
  BY <1>4 DEF Within
<1> HIDE DEF Beyond
<1>6. ASSUME NEW n \in Nat PROVE Within[n + 1] = Within[n] \cup Beyond(Within[n])
  <2>1. n + 1 \in Nat /\ n + 1 # 0 /\ (n + 1) - 1 = n
    OBVIOUS
  <2> QED
    BY <1>5, <2>1
<1> QED
  BY <1>5, <1>6 DEF Beyond
-----------------------------------------------------------------------------
(* The open list. *)

(* BestPriority is a layer, and no layer is better.                        *)
LEMMA BestIsLayer ==
    ASSUME NEW q, NEW S, QueueType(q, S), DOMAIN q # {}
    PROVE  /\ BestPriority(q) \in DOMAIN q
           /\ \A r \in DOMAIN q : BestPriority(q) <= r
<1>1. \E p \in DOMAIN q : \A r \in DOMAIN q : p <= r
  BY LeastElement DEF QueueType
<1> QED
  BY <1>1 DEF BestPriority

(* Push adds the one element and keeps every other.                        *)
LEMMA PushMembers ==
    ASSUME NEW q, NEW S, NEW T, QueueType(q, S), S \subseteq T,
           NEW p \in Nat, NEW x \in T
    PROVE  /\ QueueType(Push(q, p, x), T)
           /\ Members(Push(q, p, x)) = Members(q) \cup {x}
           /\ DOMAIN Push(q, p, x) # {}
<1> DEFINE Q == Push(q, p, x)
<1>1. DOMAIN Q = DOMAIN q \cup {p}
  BY DEF Push
<1>2. \A r \in DOMAIN q : r # p => Q[r] = q[r]
  BY DEF Push
<1>3. CASE p \in DOMAIN q
  <2>1. Q[p] = Append(q[p], x) /\ q[p] \in Seq(S)
    BY <1>3 DEF Push, QueueType
  <2>2. /\ Q[p] \in Seq(T) \ {<< >>}
        /\ Len(q[p]) \in Nat
        /\ Len(Q[p]) = Len(q[p]) + 1
        /\ Q[p][Len(q[p]) + 1] = x
        /\ \A i \in 1..Len(q[p]) : Q[p][i] = q[p][i]
    BY <2>1
  <2>3. QueueType(Q, T)
    BY <1>1, <1>2, <2>2 DEF QueueType
  <2>4. Members(Q) \subseteq Members(q) \cup {x}
    <3> SUFFICES ASSUME NEW r \in DOMAIN Q, NEW i \in 1..Len(Q[r])
                 PROVE  Q[r][i] \in Members(q) \cup {x}
      BY DEF Members
    <3>1. CASE r # p
      BY <3>1, <1>1, <1>2 DEF Members
    <3>2. CASE r = p
      <4>1. i \in 1..Len(q[p]) \/ i = Len(q[p]) + 1
        BY <3>2, <2>2
      <4> QED
        BY <4>1, <3>2, <2>2, <1>3 DEF Members
    <3> QED
      BY <3>1, <3>2
  <2>5. Members(q) \cup {x} \subseteq Members(Q)
    <3>1. x \in Members(Q)
      BY <1>1, <2>2 DEF Members
    <3>2. ASSUME NEW r \in DOMAIN q, NEW i \in 1..Len(q[r])
          PROVE  q[r][i] \in Members(Q)
      <4>1. r \in DOMAIN Q /\ i \in 1..Len(Q[r]) /\ Q[r][i] = q[r][i]
        BY <1>1, <1>2, <2>2
      <4> QED
        BY <4>1 DEF Members
    <3> QED
      BY <3>1, <3>2 DEF Members
  <2> QED
    BY <2>3, <2>4, <2>5, <1>1
<1>4. CASE p \notin DOMAIN q
  <2>1. Q[p] = <<x>>
    BY <1>4, <1>1 DEF Push
  <2>2. QueueType(Q, T)
    <3>1. <<x>> \in Seq(T) \ {<< >>}
      OBVIOUS
    <3>2. \A r \in DOMAIN q : Q[r] \in Seq(T) \ {<< >>}
      BY <1>2, <1>4 DEF QueueType
    <3>3. \A r \in DOMAIN Q : Q[r] \in Seq(T) \ {<< >>}
      BY <1>1, <2>1, <3>1, <3>2
    <3> HIDE DEF Q
    <3> QED
      BY <1>1, <3>3 DEF QueueType
  <2>3. Members(Q) \subseteq Members(q) \cup {x}
    <3> SUFFICES ASSUME NEW r \in DOMAIN Q, NEW i \in 1..Len(Q[r])
                 PROVE  Q[r][i] \in Members(q) \cup {x}
      BY DEF Members
    <3>1. CASE r # p
      BY <3>1, <1>1, <1>2 DEF Members
    <3>2. CASE r = p
      BY <3>2, <2>1
    <3> QED
      BY <3>1, <3>2
  <2>4. Members(q) \cup {x} \subseteq Members(Q)
    <3>1. x \in Members(Q)
      BY <1>1, <2>1 DEF Members
    <3>2. ASSUME NEW r \in DOMAIN q, NEW i \in 1..Len(q[r])
          PROVE  q[r][i] \in Members(Q)
      <4>1. r \in DOMAIN Q /\ i \in 1..Len(Q[r]) /\ Q[r][i] = q[r][i]
        BY <1>1, <1>2, <1>4
      <4> QED
        BY <4>1 DEF Members
    <3> QED
      BY <3>1, <3>2 DEF Members
  <2> QED
    BY <2>2, <2>3, <2>4, <1>1
<1> QED
  BY <1>3, <1>4

(* Pop takes Top out and nothing else.                                     *)
LEMMA PopMembers ==
    ASSUME NEW q, NEW S, QueueType(q, S), DOMAIN q # {}
    PROVE  /\ Top(q) \in S /\ Top(q) \in Members(q)
           /\ QueueType(Pop(q), S)
           /\ Members(q) \subseteq Members(Pop(q)) \cup {Top(q)}
           /\ Members(Pop(q)) \subseteq Members(q)
<1> DEFINE b == BestPriority(q)
           Q == Pop(q)
<1>1. b \in DOMAIN q
  BY BestIsLayer
<1> HIDE DEF b
<1>2. /\ q[b] \in Seq(S) /\ q[b] # << >>
      /\ Len(q[b]) \in Nat /\ Len(q[b]) >= 1
      /\ Head(q[b]) = q[b][1] /\ Head(q[b]) \in S
      /\ Tail(q[b]) \in Seq(S) /\ Len(Tail(q[b])) = Len(q[b]) - 1
      /\ \A i \in 1..Len(Tail(q[b])) : Tail(q[b])[i] = q[b][i + 1]
  BY <1>1 DEF QueueType
<1>3. Top(q) = q[b][1]
  BY <1>2 DEF Top, b
<1>4. Top(q) \in Members(q)
  BY <1>1, <1>2, <1>3 DEF Members
<1>5. CASE Len(q[b]) = 1
  <2>1. Q = [r \in DOMAIN q \ {b} |-> q[r]]
    BY <1>5 DEF Pop, b
  <2> HIDE DEF Q
  <2>2. QueueType(Q, S) /\ Members(Q) \subseteq Members(q)
    BY <2>1 DEF QueueType, Members
  <2>3. ASSUME NEW r \in DOMAIN q, NEW i \in 1..Len(q[r])
        PROVE  q[r][i] \in Members(Q) \cup {Top(q)}
    BY <2>1, <1>5, <1>3 DEF Members
  <2>4. Members(q) \subseteq Members(Q) \cup {Top(q)}
    BY <2>3 DEF Members
  <2> QED
    BY <2>2, <2>4, <1>2, <1>3, <1>4 DEF Q
<1>6. CASE Len(q[b]) # 1
  <2>1. Q = [q EXCEPT ![b] = Tail(@)]
    BY <1>6 DEF Pop, b
  <2> HIDE DEF Q
  <2>2. DOMAIN Q = DOMAIN q /\ Q[b] = Tail(q[b]) /\ \A r \in DOMAIN q : r # b => Q[r] = q[r]
    BY <2>1, <1>1
  <2>3. QueueType(Q, S)
    <3>1. Len(Tail(q[b])) # 0
      BY <1>2, <1>6
    <3>2. Tail(q[b]) # << >>
      <4>1. \A s : s = << >> => Len(s) = 0
        OBVIOUS
      <4> QED
        BY <3>1, <4>1, Zenon
    <3> QED
      BY <3>2, <2>2, <1>2 DEF QueueType
  <2>4. ASSUME NEW r \in DOMAIN q, NEW i \in 1..Len(q[r])
        PROVE  q[r][i] \in Members(Q) \cup {Top(q)}
    <3>1. CASE r # b
      BY <3>1, <2>2 DEF Members
    <3>2. CASE r = b /\ i = 1
      BY <3>2, <1>3
    <3>3. CASE r = b /\ i # 1
      <4>1. i - 1 \in 1..Len(Tail(q[b])) /\ Tail(q[b])[i - 1] = q[b][(i - 1) + 1]
        BY <3>3, <1>2
      <4>2. (i - 1) + 1 = i
        OBVIOUS
      <4>3. b \in DOMAIN Q /\ i - 1 \in 1..Len(Q[b]) /\ Q[b][i - 1] = q[r][i]
        BY <4>1, <4>2, <3>3, <2>2, <1>1
      <4> QED
        BY <4>3 DEF Members
    <3> QED
      BY <3>1, <3>2, <3>3
  <2>5. ASSUME NEW r \in DOMAIN q, NEW i \in 1..Len(Q[r])
        PROVE  Q[r][i] \in Members(q)
    <3>1. CASE r # b
      BY <3>1, <2>2 DEF Members
    <3>2. CASE r = b
      <4>1. i + 1 \in 1..Len(q[b]) /\ Q[r][i] = q[b][i + 1]
        BY <3>2, <2>2, <1>2
      <4> QED
        BY <4>1, <1>1 DEF Members
    <3> QED
      BY <3>1, <3>2
  <2>6. Members(q) \subseteq Members(Q) \cup {Top(q)}
    BY <2>4 DEF Members
  <2>7. Members(Q) \subseteq Members(q)
    BY <2>5, <2>2 DEF Members
  <2> QED
    BY <2>3, <2>6, <2>7, <1>2, <1>3, <1>4 DEF Q
<1> QED
  BY <1>5, <1>6
-----------------------------------------------------------------------------
(* The inductive invariant of the engines. *)

(* Every node set aside as a goal is one, and every goal node is aside.    *)
GoalsAside ==
    /\ \A k \in 1..Len(goalNodes) : log[goalNodes[k]].state \in graph.goals
    /\ \A i \in Ids : log[i].state \in graph.goals => Found

(* A state in the state set has a node, or the heuristic gave it up.       *)
SetIsLogged == \A s \in db : s \in KnownStates \/ graph.h[s] = Infinite

(* Before the first step everything is empty, afterwards the root exists.  *)
RootLogged ==
    /\ phase # "init" => log # << >>
    /\ phase = "init" => log = << >> /\ db = {} /\ DOMAIN queue = {} /\ todo = {}

(* The loop ends for a reason that stays: no edge left to visit, and a     *)
(* goal or an empty open list.                                             *)
LoopIsOver ==
    /\ phase \in {"backtrace", "done"} => todo = {} /\ LoopEnds
    /\ phase = "backtrace" => Found

(* The edges still to be visited leave the node under expansion.           *)
TodoIsOut == todo # {} => cur \in Ids /\ \A e \in todo : e[1] = log[cur].state

(* The path collected so far leads from walk's child to a goal.            *)
TrailLeads ==
    /\ phase \in {"init", "search"} => trail = << >>
    /\ phase = "backtrace" =>
          /\ walk \in Ids
          /\ IF trail = << >>
             THEN log[walk].state \in graph.goals
             ELSE /\ trail[Len(trail)] \in graph.goals
                  /\ Chain(trail)
                  /\ IsEdge(log[walk].state, trail[1])
    /\ PlanIsSound

(* What holds of the way the search took, whatever the heuristic says.     *)
PathInv ==
    /\ TypeOK
    /\ LogIsTree
    /\ NothingSkipped
    /\ GoalsAside
    /\ RootLogged
    /\ LoopIsOver
    /\ TodoIsOut
    /\ TrailLeads

SearchInv == PathInv /\ SetIsLogged
-----------------------------------------------------------------------------
LEMMA PriorityType ==
    ASSUME graph \in GraphType, NEW len \in Nat, NEW est \in Nat
    PROVE  Priority(len, est) \in Nat
BY DEF Priority, GraphType, AStarKey, GreedyKey, BfsKey, DfsKey

LEMMA InitInv == EngineInit => SearchInv
<1> SUFFICES ASSUME EngineInit PROVE SearchInv
  OBVIOUS
<1> USE DEF EngineInit
<1>1. Ids = {} /\ DOMAIN NoLayers = {}
  BY DEF Ids, NoLayers
<1>2. TypeOK
  <2>1. graph \in GraphType /\ farest \in Nat
    BY EngineAssumption DEF EngineAssumption
  <2>2. QueueType(queue, Ids)
    BY <1>1 DEF QueueType
  <2> QED
    BY <2>1, <2>2, <1>1 DEF TypeOK
<1>3. LogIsTree /\ NothingSkipped /\ GoalsAside /\ SetIsLogged
  BY <1>1 DEF LogIsTree, NothingSkipped, GoalsAside, SetIsLogged
<1>4. RootLogged /\ LoopIsOver /\ TodoIsOut /\ TrailLeads
  BY <1>1 DEF RootLogged, LoopIsOver, TodoIsOut, TrailLeads, PlanIsSound, NoLayers
<1> QED
  BY <1>2, <1>3, <1>4 DEF SearchInv, PathInv

LEMMA DequeueKeeps ==
    ASSUME PathInv, Dequeue
    PROVE  PathInv' /\ (SetIsLogged => SetIsLogged')
<1> USE DEF PathInv, Dequeue
<1>0. /\ Ids' = Ids /\ KnownStates' = KnownStates /\ goalNodes = << >>
      /\ Top(queue) \in Ids
      /\ QueueType(queue', Ids)
      /\ QueuedIds \subseteq QueuedIds' \cup {Top(queue)}
  <2>1. DOMAIN queue # {} /\ goalNodes = << >>
    BY DEF LoopEnds, QueueEmpty
  <2>2. QueueType(queue, Ids)
    BY DEF TypeOK
  <2> QED
    BY <2>1, <2>2, PopMembers DEF Ids, KnownStates, QueuedIds
<1>1. TypeOK'
  BY <1>0 DEF TypeOK, OutEdges
<1>2. LogIsTree' /\ GoalsAside' /\ (SetIsLogged => SetIsLogged')
  BY <1>0 DEF LogIsTree, GoalsAside, SetIsLogged, KnownStates, Found
<1>3. NothingSkipped'
  <2> SUFFICES ASSUME NEW i \in Ids, NEW e \in OutEdges(log[i].state),
                      e[2] \notin db, log[i].state \notin graph.goals
               PROVE  i \in QueuedIds' \/ (i = cur' /\ e \in todo')
    BY <1>0 DEF NothingSkipped, OutEdges
  <2>1. i \in QueuedIds
    BY DEF NothingSkipped
  <2>2. CASE i = Top(queue)
    BY <2>2
  <2> QED
    BY <2>1, <2>2, <1>0
<1>4. RootLogged' /\ LoopIsOver' /\ TodoIsOut'
  BY <1>0 DEF RootLogged, LoopIsOver, TodoIsOut, OutEdges
<1>5. TrailLeads'
  BY DEF TrailLeads, PlanIsSound
<1> QED
  BY <1>1, <1>2, <1>3, <1>4, <1>5

LEMMA FinalizeKeeps ==
    ASSUME PathInv, Finalize
    PROVE  PathInv' /\ (SetIsLogged => SetIsLogged')
<1> USE DEF PathInv, Finalize
<1>0. /\ Ids' = Ids /\ KnownStates' = KnownStates /\ QueuedIds' = QueuedIds
      /\ Found' = Found
  BY DEF Ids, KnownStates, QueuedIds, Found
<1>1. goalNodes # << >> => goalNodes[1] \in Ids /\ log[goalNodes[1]].state \in graph.goals
  BY DEF TypeOK, GoalsAside
<1>2. TypeOK'
  BY <1>0, <1>1 DEF TypeOK
<1>3. LogIsTree' /\ NothingSkipped' /\ GoalsAside' /\ (SetIsLogged => SetIsLogged')
  BY <1>0 DEF LogIsTree, NothingSkipped, GoalsAside, SetIsLogged, OutEdges
<1>4. RootLogged' /\ LoopIsOver' /\ TodoIsOut'
  BY <1>0 DEF RootLogged, LoopIsOver, TodoIsOut, LoopEnds, QueueEmpty, Found
<1>5. TrailLeads'
  BY <1>0, <1>1 DEF TrailLeads, PlanIsSound, Found
<1> QED
  BY <1>2, <1>3, <1>4, <1>5

(* Putting an element in front shifts the others by one place.             *)
LEMMA ConsElements ==
    ASSUME NEW S, NEW x \in S, NEW s \in Seq(S)
    PROVE  /\ <<x>> \o s \in Seq(S)
           /\ <<x>> \o s # << >>
           /\ Len(<<x>> \o s) = Len(s) + 1
           /\ (<<x>> \o s)[1] = x
           /\ \A i \in 1..Len(s) : (<<x>> \o s)[i + 1] = s[i]
OBVIOUS

(* The root is the only node that is its own parent.                       *)
LEMMA OnlyRootIsOwnParent ==
    ASSUME TypeOK, LogIsTree, NEW i \in Ids
    PROVE  /\ log[i].parent = i => i = 1 /\ log[i].state = InitState
           /\ log[i].parent # i => /\ log[i].parent \in Ids
                                  /\ IsEdge(log[log[i].parent].state, log[i].state)
<1>1. log[i] \in NodeType /\ i \in Nat /\ i >= 1 /\ i <= Len(log) /\ Len(log) \in Nat
  BY DEF TypeOK, Ids
<1>2. CASE i = 1
  <2>1. log[i] = Node(InitState, 1, 0)
    BY <1>2 DEF LogIsTree
  <2>2. log[i].parent = 1 /\ log[i].state = InitState
    BY <2>1 DEF Node
  <2> QED
    BY <1>2, <2>2
<1>3. CASE i # 1
  <2>1. /\ log[i].parent < i
        /\ <<log[log[i].parent].state, log[i].state,
             log[i].len - log[log[i].parent].len>> \in graph.edges
    BY <1>3 DEF LogIsTree
  <2>2. log[i].parent \in Nat /\ log[i].parent >= 1
    BY <1>1 DEF NodeType
  <2>3. log[i].parent # i /\ log[i].parent \in Ids
    BY <2>1, <2>2, <1>1 DEF Ids
  <2>4. IsEdge(log[log[i].parent].state, log[i].state)
    <3> DEFINE e == <<log[log[i].parent].state, log[i].state,
                      log[i].len - log[log[i].parent].len>>
    <3>1. e[1] = log[log[i].parent].state /\ e[2] = log[i].state /\ e \in graph.edges
      BY <2>1
    <3> QED
      BY <3>1 DEF IsEdge
  <2> QED
    BY <2>3, <2>4
<1> QED
  BY <1>2, <1>3

LEMMA BacktraceKeeps ==
    ASSUME PathInv, BacktraceStep
    PROVE  PathInv' /\ (SetIsLogged => SetIsLogged')
<1> USE DEF PathInv, BacktraceStep
<1> DEFINE s == log[walk].state
<1>0. /\ Ids' = Ids /\ KnownStates' = KnownStates /\ QueuedIds' = QueuedIds
      /\ Found' = Found /\ Found
  BY DEF Ids, KnownStates, QueuedIds, Found, LoopIsOver
<1>1. walk \in Ids /\ s \in States /\ trail \in Seq(States) /\ log[walk].parent \in Ids
  <2>1. walk \in Ids
    BY DEF TrailLeads
  <2>2. log[walk] \in NodeType /\ trail \in Seq(States)
    BY <2>1 DEF TypeOK, Ids
  <2>3. log[walk].state \in States
    BY <2>2 DEF NodeType
  <2>4. log[walk].parent \in Ids
    BY <2>1, OnlyRootIsOwnParent
  <2> QED
    BY <2>1, <2>2, <2>3, <2>4
<1> HIDE DEF s
<1>2. /\ trail' = <<s>> \o trail /\ trail' \in Seq(States) /\ trail' # << >>
      /\ Len(trail) \in Nat /\ Len(trail') = Len(trail) + 1
      /\ trail'[1] = s
      /\ \A i \in 1..Len(trail) : trail'[i + 1] = trail[i]
  BY <1>1, ConsElements DEF s
<1>3. TypeOK'
  BY <1>0, <1>1, <1>2 DEF TypeOK
<1>4. LogIsTree' /\ NothingSkipped' /\ GoalsAside' /\ (SetIsLogged => SetIsLogged')
  BY <1>0 DEF LogIsTree, NothingSkipped, GoalsAside, SetIsLogged, OutEdges
<1>5. RootLogged' /\ LoopIsOver' /\ TodoIsOut'
  BY <1>0 DEF RootLogged, LoopIsOver, TodoIsOut, LoopEnds, QueueEmpty, Found
<1>6. trail'[Len(trail')] \in graph.goals /\ Chain(trail')
  <2>1. CASE trail = << >>
    <3>1. s \in graph.goals /\ Len(trail) = 0
      BY <2>1 DEF TrailLeads, s
    <3> QED
      BY <3>1, <1>2 DEF Chain
  <2>2. CASE trail # << >>
    <3>1. /\ trail[Len(trail)] \in graph.goals /\ Chain(trail) /\ IsEdge(s, trail[1])
          /\ Len(trail) >= 1
      BY <2>2, <1>1 DEF TrailLeads, s
    <3>2. trail'[Len(trail')] = trail[Len(trail)]
      BY <3>1, <1>2
    <3>3. ASSUME NEW i \in 1..(Len(trail') - 1) PROVE IsEdge(trail'[i], trail'[i + 1])
      <4>1. i \in 1..Len(trail) /\ trail'[i + 1] = trail[i]
        BY <1>2
      <4>2. CASE i = 1
        BY <4>1, <4>2, <3>1, <1>2
      <4>3. CASE i # 1
        <5>1. i - 1 \in 1..(Len(trail) - 1) /\ (i - 1) + 1 = i
          BY <4>1, <4>3, <1>2
        <5>2. trail'[(i - 1) + 1] = trail[i - 1]
          BY <5>1, <1>2
        <5>3. IsEdge(trail[i - 1], trail[(i - 1) + 1])
          BY <5>1, <3>1 DEF Chain
        <5> QED
          BY <5>1, <5>2, <5>3, <4>1
      <4> QED
        BY <4>2, <4>3
    <3>4. Chain(trail')
      BY <3>3 DEF Chain, IsEdge
    <3> QED
      BY <3>1, <3>2, <3>4
  <2> QED
    BY <2>1, <2>2
<1>7. TrailLeads'
  <2>1. CASE log[walk].parent = walk
    <3>1. s = InitState
      BY <2>1, <1>1, OnlyRootIsOwnParent DEF s
    <3> QED
      BY <2>1, <3>1, <1>2, <1>6, <1>0 DEF TrailLeads, PlanIsSound, IsPlan, Chain, IsEdge
  <2>2. CASE log[walk].parent # walk
    <3>1. IsEdge(log[log[walk].parent].state, s)
      BY <2>2, <1>1, OnlyRootIsOwnParent DEF s
    <3> QED
      BY <2>2, <3>1, <1>0, <1>1, <1>2, <1>6 DEF TrailLeads, PlanIsSound, Chain, IsEdge
  <2> QED
    BY <2>1, <2>2
<1> QED
  BY <1>3, <1>4, <1>5, <1>7
-----------------------------------------------------------------------------
(* Creating a node. *)

(* A node joins the log: the nodes before it stay as they were.            *)
LEMMA LogGrows ==
    ASSUME TypeOK, NEW node \in NodeType, CreateNode(node)
    PROVE  /\ log' \in Seq(NodeType)
           /\ Len(log) \in Nat /\ Len(log') = Len(log) + 1
           /\ Ids' = Ids \cup {Len(log) + 1} /\ Len(log) + 1 \notin Ids
           /\ \A i \in Ids : log'[i] = log[i]
           /\ log'[Len(log) + 1] = node
           /\ KnownStates' = KnownStates \cup {node.state}
<1>1. /\ log \in Seq(NodeType) /\ log' = Append(log, node)
      /\ Len(log) \in Nat
  BY DEF TypeOK, CreateNode
<1>2. /\ log' \in Seq(NodeType) /\ Len(log') = Len(log) + 1
      /\ Ids' = Ids \cup {Len(log) + 1} /\ Len(log) + 1 \notin Ids
      /\ \A i \in Ids : log'[i] = log[i]
      /\ log'[Len(log) + 1] = node
  BY <1>1 DEF Ids
<1>3. KnownStates' = KnownStates \cup {node.state}
  BY <1>2 DEF KnownStates
<1> QED
  BY <1>1, <1>2, <1>3

(* Enqueue puts the node aside as a goal or in the open list.              *)
LEMMA EnqueueType ==
    ASSUME TypeOK, graph' = graph, NEW node \in NodeType, NEW prio \in Nat,
           CreateNode(node), Enqueue(node, prio)
    PROVE  /\ QueueType(queue', Ids')
           /\ goalNodes' \in Seq(Ids')
           /\ best' \in Seq(Nat) /\ Len(best') <= 1 /\ farest' \in Nat
           /\ node.state \in graph.goals =>
                 /\ goalNodes' = Append(goalNodes, Len(log) + 1)
                 /\ queue' = queue
           /\ node.state \notin graph.goals =>
                 /\ goalNodes' = goalNodes
                 /\ QueuedIds' = QueuedIds \cup {Len(log) + 1}
           /\ QueuedIds \subseteq QueuedIds'
<1> DEFINE id == Len(log) + 1
<1>1. Ids \subseteq Ids' /\ id \in Ids' /\ QueueType(queue, Ids) /\ goalNodes \in Seq(Ids)
  BY LogGrows DEF TypeOK
<1>2. best \in Seq(Nat) /\ Len(best) <= 1 /\ farest \in Nat /\ node.len \in Nat
  BY DEF TypeOK, NodeType
<1> HIDE DEF id
<1>3. CASE node.state \in graph.goals
  <2>1. /\ goalNodes' = Append(goalNodes, id)
        /\ UNCHANGED <<queue, best, farest>>
    BY <1>3 DEF Enqueue, id
  <2>2. QueueType(queue', Ids') /\ goalNodes' \in Seq(Ids')
    <3>1. QueueType(queue, Ids')
      BY <1>1 DEF QueueType
    <3>2. goalNodes \in Seq(Ids')
      BY <1>1
    <3> QED
      BY <2>1, <1>1, <3>1, <3>2
  <2> QED
    BY <2>1, <2>2, <1>2, <1>3 DEF QueuedIds, id
<1>4. CASE node.state \notin graph.goals
  <2>1. /\ goalNodes' = goalNodes
        /\ queue' = Push(queue, prio, id)
        /\ best' = <<prio>> \/ best' = best
        /\ farest' = node.len \/ farest' = farest
    BY <1>4 DEF Enqueue, id
  <2>2. QueueType(queue', Ids') /\ QueuedIds' = QueuedIds \cup {id}
    <3> DEFINE Q == Push(queue, prio, id)
               J == Ids'
    <3>1. QueueType(queue, Ids) /\ Ids \subseteq J /\ prio \in Nat /\ id \in J
      BY <1>1
    <3> HIDE DEF J
    <3>2. QueueType(Q, J) /\ Members(Q) = Members(queue) \cup {id}
      BY <3>1, PushMembers
    <3> QED
      BY <2>1, <3>2 DEF QueuedIds, J
  <2>3. goalNodes' \in Seq(Ids')
    BY <2>1, <1>1
  <2>4. best' \in Seq(Nat) /\ Len(best') <= 1 /\ farest' \in Nat
    <3>1. <<prio>> \in Seq(Nat) /\ Len(<<prio>>) = 1
      OBVIOUS
    <3>2. best' \in Seq(Nat) /\ Len(best') <= 1
      <4>1. CASE best' = <<prio>>
        <5>1. Len(best') = 1 /\ best' \in Seq(Nat)
          BY <4>1, <3>1, Zenon
        <5> QED
          BY <5>1
      <4>2. CASE best' = best
        BY <4>2, <1>2
      <4> QED
        BY <2>1, <4>1, <4>2
    <3> QED
      BY <2>1, <3>2, <1>2
  <2> QED
    BY <2>1, <2>2, <2>3, <2>4, <1>4 DEF id
<1> QED
  BY <1>3, <1>4

(* What follows from creating and enqueueing a node, whoever it is.        *)
LEMMA NewNodeKeeps ==
    ASSUME PathInv, UNCHANGED <<graph, walk, trail>>,
           phase \in {"init", "search"}, phase' = "search",
           NEW node \in NodeType, NEW prio \in Nat,
           CreateNode(node), Enqueue(node, prio)
    PROVE  GoalsAside' /\ RootLogged' /\ LoopIsOver' /\ TrailLeads'
<1> USE DEF PathInv
<1> DEFINE id == Len(log) + 1
<1>1. /\ Ids' = Ids \cup {id} /\ Len(log) \in Nat /\ Len(log') = Len(log) + 1
      /\ \A i \in Ids : log'[i] = log[i]
      /\ log'[id] = node /\ log' # << >>
  <2>1. log' # << >>
    <3>1. Len(log') # 0
      BY LogGrows
    <3>2. \A s : s = << >> => Len(s) = 0
      OBVIOUS
    <3> QED
      BY <3>1, <3>2, Zenon
  <2> QED
    BY <2>1, LogGrows
<1> HIDE DEF id
<1>2. goalNodes \in Seq(Ids)
  BY DEF TypeOK
<1>3. GoalsAside'
  <2>1. CASE node.state \in graph.goals
    <3>1. goalNodes' = Append(goalNodes, id)
      BY <2>1, EnqueueType DEF id
    <3>2. /\ Len(goalNodes) \in Nat /\ Len(goalNodes') = Len(goalNodes) + 1
          /\ goalNodes'[Len(goalNodes) + 1] = id
          /\ \A k \in 1..Len(goalNodes) : goalNodes'[k] = goalNodes[k] /\ goalNodes[k] \in Ids
          /\ goalNodes' # << >>
      BY <3>1, <1>2
    <3>3. ASSUME NEW k \in 1..Len(goalNodes') PROVE log'[goalNodes'[k]].state \in graph.goals
      <4>1. k \in 1..Len(goalNodes) \/ k = Len(goalNodes) + 1
        BY <3>2
      <4> QED
        BY <4>1, <3>2, <1>1, <2>1 DEF GoalsAside
    <3> QED
      BY <3>2, <3>3 DEF GoalsAside, Found
  <2>2. CASE node.state \notin graph.goals
    <3>1. goalNodes' = goalNodes
      BY <2>2, EnqueueType
    <3>2. \A k \in 1..Len(goalNodes) : goalNodes[k] \in Ids
      BY <1>2
    <3>3. \A k \in 1..Len(goalNodes) : log'[goalNodes[k]].state \in graph.goals
      BY <3>2, <1>1 DEF GoalsAside
    <3>4. \A i \in Ids' : log'[i].state \in graph.goals => i \in Ids /\ log[i].state \in graph.goals
      BY <2>2, <1>1
    <3> QED
      BY <3>1, <3>3, <3>4 DEF GoalsAside, Found
  <2> QED
    BY <2>1, <2>2
<1>4. RootLogged' /\ LoopIsOver'
  BY <1>1 DEF RootLogged, LoopIsOver
<1>5. TrailLeads'
  BY DEF TrailLeads, PlanIsSound
<1> QED
  BY <1>3, <1>4, <1>5

(* The first step: the root is created and enqueued.                       *)
LEMMA RootKeeps ==
    ASSUME PathInv, phase = "init", phase' = "search",
           NEW prio \in Nat,
           CreateNode(Node(InitState, 1, 0)), Enqueue(Node(InitState, 1, 0), prio),
           db' \subseteq {InitState},
           UNCHANGED <<graph, cur, todo, walk, trail>>
    PROVE  PathInv' /\ (SetIsLogged => SetIsLogged')
<1> USE DEF PathInv
<1> DEFINE root == Node(InitState, 1, 0)
<1>0. /\ log = << >> /\ DOMAIN queue = {} /\ todo = {} /\ Ids = {}
      /\ root \in NodeType /\ root.state = InitState
  BY EngineAssumption DEF RootLogged, Ids, EngineAssumption, Node, NodeType
<1>1. /\ log' \in Seq(NodeType) /\ Len(log') = 1
      /\ Ids' = {1} /\ log'[1] = root
      /\ KnownStates' = {InitState}
  <2>1. KnownStates = {} /\ Len(log) = 0
    BY <1>0 DEF KnownStates
  <2> QED
    BY <1>0, <2>1, LogGrows
<1>2. /\ QueueType(queue', Ids') /\ goalNodes' \in Seq(Ids')
      /\ best' \in Seq(Nat) /\ Len(best') <= 1 /\ farest' \in Nat
      /\ InitState \notin graph.goals => 1 \in QueuedIds'
  BY <1>0, EnqueueType
<1>3. GoalsAside' /\ RootLogged' /\ LoopIsOver' /\ TrailLeads'
  BY <1>0, NewNodeKeeps
<1> HIDE DEF root
<1>4. TypeOK'
  BY <1>1, <1>2, EngineAssumption, <1>0 DEF TypeOK, EngineAssumption
<1>5. LogIsTree'
  BY <1>1 DEF LogIsTree, root
<1>6. NothingSkipped' /\ (SetIsLogged => SetIsLogged') /\ TodoIsOut'
  BY <1>0, <1>1, <1>2 DEF NothingSkipped, SetIsLogged, TodoIsOut
<1> QED
  BY <1>3, <1>4, <1>5, <1>6

(* An edge of the node under expansion, and the node made of it.           *)
LEMMA EdgeType ==
    ASSUME TypeOK, TodoIsOut, NEW e \in todo
    PROVE  /\ e \in graph.edges /\ e = <<log[cur].state, e[2], e[3]>>
           /\ e[2] \in States /\ e[3] \in Nat
           /\ cur \in Ids /\ cur \in Nat \ {0} /\ log[cur].len \in Nat
           /\ Node(e[2], cur, log[cur].len + e[3]) \in NodeType
<1>1. /\ e \in graph.edges /\ graph.edges \subseteq States \X States \X Nat
      /\ cur \in Ids /\ e[1] = log[cur].state
  BY DEF TypeOK, TodoIsOut, GraphType
<1>2. e = <<e[1], e[2], e[3]>> /\ e[2] \in States /\ e[3] \in Nat
  BY <1>1
<1>3. log[cur] \in NodeType /\ cur \in Nat \ {0}
  BY <1>1 DEF TypeOK, Ids
<1> QED
  BY <1>1, <1>2, <1>3 DEF NodeType, Node

(* A new state is generated: node and state enter log, set and open list.  *)
LEMMA GenerateKeeps ==
    ASSUME PathInv, phase = "search", NEW e \in todo, NEW prio \in Nat,
           todo' = todo \ {e},
           db' = db \cup {e[2]},
           CreateNode(Node(e[2], cur, log[cur].len + e[3])),
           Enqueue(Node(e[2], cur, log[cur].len + e[3]), prio),
           UNCHANGED <<graph, phase, cur, walk, trail>>
    PROVE  PathInv' /\ (SetIsLogged => SetIsLogged')
<1> USE DEF PathInv
<1> DEFINE node == Node(e[2], cur, log[cur].len + e[3])
           id == Len(log) + 1
<1>0. /\ e \in graph.edges /\ e = <<log[cur].state, e[2], e[3]>>
      /\ e[2] \in States /\ e[3] \in Nat
      /\ cur \in Ids /\ cur \in Nat \ {0} /\ log[cur].len \in Nat
      /\ node \in NodeType
  BY EdgeType
<1>1. /\ log' \in Seq(NodeType) /\ Len(log) \in Nat /\ Len(log') = Len(log) + 1
      /\ Ids' = Ids \cup {id} /\ id \notin Ids
      /\ \A i \in Ids : log'[i] = log[i]
      /\ log'[id] = node
      /\ KnownStates' = KnownStates \cup {node.state}
  BY <1>0, LogGrows
<1>2. /\ QueueType(queue', Ids') /\ goalNodes' \in Seq(Ids')
      /\ best' \in Seq(Nat) /\ Len(best') <= 1 /\ farest' \in Nat
      /\ node.state \notin graph.goals => id \in QueuedIds'
      /\ QueuedIds \subseteq QueuedIds'
  BY <1>0, EnqueueType
<1>3. GoalsAside' /\ RootLogged' /\ LoopIsOver' /\ TrailLeads'
  BY <1>0, NewNodeKeeps
<1>4. node.state = e[2] /\ node.parent = cur /\ node.len = log[cur].len + e[3]
  BY DEF Node
<1> HIDE DEF node
<1>5. TypeOK'
  BY <1>0, <1>1, <1>2 DEF TypeOK
<1>6. LogIsTree'
  <2> SUFFICES ASSUME NEW i \in Ids'
               PROVE  (IF i = 1
                       THEN log'[1] = Node(InitState, 1, 0)
                       ELSE /\ log'[i].parent < i
                            /\ <<log'[log'[i].parent].state, log'[i].state,
                                 log'[i].len - log'[log'[i].parent].len>> \in graph.edges)
    BY DEF LogIsTree
  <2>1. CASE i = id
    <3>1. cur < id /\ id # 1
      BY <1>0, <1>1 DEF Ids
    <3>2. log'[i] = node /\ log'[cur] = log[cur]
      BY <2>1, <1>0, <1>1
    <3>3. (log[cur].len + e[3]) - log[cur].len = e[3]
      BY <1>0
    <3> QED
      BY <2>1, <3>1, <3>2, <3>3, <1>0, <1>4
  <2>2. CASE i \in Ids
    <3>1. CASE i = 1
      BY <3>1, <2>2, <1>1 DEF LogIsTree
    <3>2. CASE i # 1
      <4>1. /\ log[i].parent < i
            /\ <<log[log[i].parent].state, log[i].state,
                 log[i].len - log[log[i].parent].len>> \in graph.edges
        BY <3>2, <2>2 DEF LogIsTree
      <4>2. log[i].parent \in Ids
        BY <4>1, <2>2, OnlyRootIsOwnParent DEF Ids
      <4>3. log'[i] = log[i] /\ log'[log[i].parent] = log[log[i].parent]
        BY <4>2, <2>2, <1>1
      <4> QED
        BY <4>1, <4>3, <3>2
    <3> QED
      BY <3>1, <3>2
  <2> QED
    BY <2>1, <2>2, <1>1
<1>7. NothingSkipped'
  <2> SUFFICES ASSUME NEW i \in Ids', NEW f \in graph.edges, f[1] = log'[i].state,
                      f[2] \notin db', i \notin QueuedIds', log'[i].state \notin graph.goals
               PROVE  i = cur /\ f \in todo'
    BY DEF NothingSkipped, OutEdges
  <2>1. i # id
    BY <1>1, <1>2
  <2>2. i \in Ids /\ f[1] = log[i].state /\ log[i].state \notin graph.goals
    BY <2>1, <1>1
  <2>3. i = cur /\ f \in todo /\ f # e
    BY <2>2, <1>2 DEF NothingSkipped, OutEdges
  <2> QED
    BY <2>3
<1>8. (SetIsLogged => SetIsLogged')
  BY <1>1, <1>4 DEF SetIsLogged
<1>9. TodoIsOut'
  BY <1>0, <1>1 DEF TodoIsOut
<1> QED
  BY <1>3, <1>5, <1>6, <1>7, <1>8, <1>9

(* A state that is in the set already, or was given up, makes no node.     *)
LEMMA SkipKeeps ==
    ASSUME PathInv, phase = "search", NEW e \in todo,
           todo' = todo \ {e},
           db' = db \cup {e[2]},
           UNCHANGED <<log, queue, goalNodes, best, farest, graph, phase, cur, walk, trail>>
    PROVE  /\ PathInv'
           /\ SetIsLogged /\ (e[2] \in db \/ graph.h[e[2]] = Infinite) => SetIsLogged'
<1> USE DEF PathInv
<1>0. /\ Ids' = Ids /\ KnownStates' = KnownStates /\ QueuedIds' = QueuedIds
      /\ Found' = Found /\ e[2] \in States
  BY EdgeType DEF Ids, KnownStates, QueuedIds, Found
<1>1. TypeOK'
  BY <1>0 DEF TypeOK
<1>2. /\ LogIsTree' /\ GoalsAside'
      /\ SetIsLogged /\ (e[2] \in db \/ graph.h[e[2]] = Infinite) => SetIsLogged'
  BY <1>0 DEF LogIsTree, GoalsAside, SetIsLogged
<1>3. NothingSkipped'
  BY <1>0 DEF NothingSkipped, OutEdges
<1>4. RootLogged' /\ LoopIsOver' /\ TodoIsOut' /\ TrailLeads'
  BY <1>0 DEF RootLogged, LoopIsOver, TodoIsOut, TrailLeads, PlanIsSound
<1> QED
  BY <1>1, <1>2, <1>3, <1>4

(* A state enters the set before the heuristic is asked about it.          *)
LEMMA VisitKeeps ==
    ASSUME PathInv, phase = "search", NEW s \in States, db' = db \cup {s},
           UNCHANGED <<todo, log, queue, goalNodes, best, farest, graph, phase,
                       cur, walk, trail>>
    PROVE  PathInv'
<1> USE DEF PathInv
<1>0. /\ Ids' = Ids /\ QueuedIds' = QueuedIds /\ Found' = Found
  BY DEF Ids, QueuedIds, Found
<1>1. TypeOK'
  BY <1>0 DEF TypeOK
<1>2. LogIsTree' /\ GoalsAside' /\ NothingSkipped'
  BY <1>0 DEF LogIsTree, GoalsAside, NothingSkipped, OutEdges
<1>3. RootLogged' /\ LoopIsOver' /\ TodoIsOut' /\ TrailLeads'
  BY <1>0 DEF RootLogged, LoopIsOver, TodoIsOut, TrailLeads, PlanIsSound
<1> QED
  BY <1>1, <1>2, <1>3

LEMMA StutterKeeps ==
    ASSUME PathInv, UNCHANGED vars
    PROVE  PathInv' /\ (SetIsLogged => SetIsLogged')
<1> USE DEF PathInv, vars
<1>1. TypeOK' /\ LogIsTree' /\ NothingSkipped' /\ GoalsAside'
  BY DEF TypeOK, LogIsTree, NothingSkipped, GoalsAside, Ids, QueuedIds, OutEdges, Found
<1>2. (SetIsLogged => SetIsLogged') /\ RootLogged' /\ LoopIsOver' /\ TodoIsOut' /\ TrailLeads'
  BY DEF SetIsLogged, RootLogged, LoopIsOver, TodoIsOut, TrailLeads, PlanIsSound, IsPlan,
         Chain, IsEdge, KnownStates, Ids, Found, LoopEnds, QueueEmpty
<1> QED
  BY <1>1, <1>2
-----------------------------------------------------------------------------
(* What the invariant gives at the end. *)

(* When the loop ends with no goal, the states that have a node are closed *)
(* under the live edges, so nothing outside them can be reached.           *)
LEMMA KnownIsClosed ==
    ASSUME SearchInv, phase # "init", todo = {}, QueueEmpty(queue), ~ Found
    PROVE  /\ Closed(KnownStates) /\ KnownStates \in SUBSET States
           /\ KnownStates \cap graph.goals = {}
<1> USE DEF SearchInv, PathInv
<1>1. DOMAIN queue = {} /\ todo = {}
  BY DEF QueueEmpty
<1>2. QueuedIds = {}
  BY <1>1 DEF QueuedIds, Members
<1>3. KnownStates \cap graph.goals = {}
  BY DEF GoalsAside, KnownStates
<1>4. Closed(KnownStates)
  <2>1. InitState \in KnownStates
    <3>1. log # << >> /\ log \in Seq(NodeType)
      BY DEF RootLogged, TypeOK
    <3>2. 1 \in Ids
      BY <3>1 DEF Ids
    <3>3. log[1].state = InitState
      <4>1. log[1] = Node(InitState, 1, 0)
        BY <3>2 DEF LogIsTree
      <4> QED
        BY <4>1 DEF Node
    <3> QED
      BY <3>2, <3>3 DEF KnownStates
  <2>2. ASSUME NEW e \in graph.edges, e[1] \in KnownStates, graph.h[e[2]] # Infinite
        PROVE  e[2] \in KnownStates
    <3>1. PICK i \in Ids : e[1] = log[i].state
      BY <2>2 DEF KnownStates
    <3>2. e[2] \in db
      BY <3>1, <1>1, <1>2, <1>3, <2>2 DEF NothingSkipped, OutEdges, KnownStates
    <3> QED
      BY <3>2, <2>2 DEF SetIsLogged
  <2> QED
    BY <2>1, <2>2 DEF Closed
<1>5. KnownStates \in SUBSET States
  <2>1. \A i \in Ids : log[i] \in NodeType
    BY DEF TypeOK, Ids
  <2> QED
    BY <2>1 DEF KnownStates, NodeType
<1> QED
  BY <1>3, <1>4, <1>5

LEMMA FailureFollows == SearchInv => FailureIsExhaustive
<1> SUFFICES ASSUME SearchInv, phase = "done", ~ Found
             PROVE  Reachable \cap graph.goals = {}
  BY DEF FailureIsExhaustive
<1>1. todo = {} /\ QueueEmpty(queue)
  BY DEF SearchInv, PathInv, LoopIsOver, LoopEnds, Found
<1>2. /\ Closed(KnownStates) /\ KnownStates \in SUBSET States
      /\ KnownStates \cap graph.goals = {}
  BY <1>1, KnownIsClosed
<1>3. Reachable \subseteq KnownStates
  BY <1>2 DEF Reachable
<1> QED
  BY <1>2, <1>3
-----------------------------------------------------------------------------
(* The order of the open list. *)

OrderInv == LayersAreFifo /\ BestIsLeast

(* A node created is the last of its layer, and the best estimation knows  *)
(* of its priority.                                                        *)
LEMMA EnqueueKeepsOrder ==
    ASSUME TypeOK, OrderInv, NEW node \in NodeType, NEW prio \in Nat,
           Enqueue(node, prio), UNCHANGED graph
    PROVE  OrderInv'
<1> DEFINE id == Len(log) + 1
<1> USE DEF OrderInv
<1>1. CASE node.state \in graph.goals
  BY <1>1 DEF Enqueue, LayersAreFifo, BestIsLeast
<1>2. CASE node.state \notin graph.goals
  <2>1. /\ queue' = Push(queue, prio, id)
        /\ best' = IF best = << >> \/ prio < best[1] THEN <<prio>> ELSE best
        /\ QueueType(queue, Ids) /\ best \in Seq(Nat) /\ Len(best) <= 1
        /\ Len(log) \in Nat
    BY <1>2 DEF Enqueue, TypeOK
  <2>2. DOMAIN queue' = DOMAIN queue \cup {prio}
    BY <2>1 DEF Push
  <2>3. BestIsLeast'
    <3>1. best' # << >> /\ best'[1] \in Nat /\ best'[1] <= prio
          /\ (best # << >> => best[1] \in Nat /\ best'[1] <= best[1])
      <4>1. CASE best = << >> \/ prio < best[1]
        <5>1. best' = <<prio>>
          BY <4>1, <2>1
        <5>2. best' # << >> /\ best'[1] = prio
          BY <5>1
        <5> QED
          BY <4>1, <5>2, <2>1
      <4>2. CASE ~ (best = << >> \/ prio < best[1])
        <5>1. best[1] \in Nat /\ best' = best
          BY <4>2, <2>1
        <5> QED
          BY <4>2, <5>1
      <4> QED
        BY <4>1, <4>2
    <3>2. ASSUME NEW p \in DOMAIN queue PROVE best'[1] <= p
      <4>1. best # << >> /\ best[1] <= p /\ p \in Nat
        BY <2>1 DEF BestIsLeast, QueueType
      <4> QED
        BY <4>1, <3>1
    <3> QED
      BY <3>1, <3>2, <2>2 DEF BestIsLeast
  <2>4. ASSUME NEW p \in DOMAIN queue', NEW i \in 1..Len(queue'[p]),
               NEW j \in 1..Len(queue'[p]), i < j
        PROVE  queue'[p][i] < queue'[p][j]
    <3>1. CASE p \in DOMAIN queue /\ p # prio
      <4>1. queue'[p] = queue[p]
        BY <2>1, <3>1 DEF Push
      <4> QED
        BY <2>4, <3>1, <4>1 DEF LayersAreFifo
    <3>2. CASE p \in DOMAIN queue /\ p = prio
      <4>1. queue'[p] = Append(queue[p], id) /\ queue[p] \in Seq(Ids)
        BY <2>1, <3>2 DEF Push, QueueType
      <4>2. /\ Len(queue[p]) \in Nat /\ Len(queue'[p]) = Len(queue[p]) + 1
            /\ queue'[p][Len(queue[p]) + 1] = id
            /\ \A k \in 1..Len(queue[p]) :
                  queue'[p][k] = queue[p][k] /\ queue[p][k] \in Ids
        BY <4>1
      <4>3. i \in 1..Len(queue[p]) /\ queue'[p][i] = queue[p][i] /\ queue[p][i] \in Ids
        BY <4>2, <2>4
      <4>4. CASE j = Len(queue[p]) + 1
        <5>1. queue[p][i] < id
          BY <4>3, <2>1 DEF Ids
        <5> QED
          BY <5>1, <4>2, <4>3, <4>4
      <4>5. CASE j # Len(queue[p]) + 1
        <5>1. j \in 1..Len(queue[p])
          BY <4>2, <4>5
        <5> QED
          BY <5>1, <4>2, <4>3, <2>4, <3>2 DEF LayersAreFifo
      <4> QED
        BY <4>4, <4>5
    <3>3. CASE p \notin DOMAIN queue
      <4>1. queue'[p] = <<id>>
        BY <2>1, <2>2, <2>4, <3>3 DEF Push
      <4>2. Len(queue'[p]) = 1
        BY <4>1
      <4> QED
        BY <4>2, <2>4
    <3> QED
      BY <3>1, <3>2, <3>3
  <2> QED
    BY <2>3, <2>4 DEF LayersAreFifo
<1> QED
  BY <1>1, <1>2

(* A node leaves from the front of its layer.                              *)
LEMMA DequeueKeepsOrder ==
    ASSUME TypeOK, OrderInv, Dequeue
    PROVE  OrderInv'
<1> DEFINE b == BestPriority(queue)
<1> USE DEF OrderInv
<1>1. /\ QueueType(queue, Ids) /\ DOMAIN queue # {} /\ queue' = Pop(queue)
      /\ best' = best
  BY DEF Dequeue, LoopEnds, QueueEmpty, TypeOK
<1>2. b \in DOMAIN queue
  BY <1>1, BestIsLayer
<1> HIDE DEF b
<1>3. /\ DOMAIN queue' \subseteq DOMAIN queue
      /\ \A p \in DOMAIN queue' :
            queue'[p] = queue[p] \/ (p = b /\ queue'[p] = Tail(queue[b]))
  BY <1>1, <1>2 DEF Pop, b
<1>4. BestIsLeast'
  BY <1>1, <1>3 DEF BestIsLeast
<1>5. ASSUME NEW p \in DOMAIN queue', NEW i \in 1..Len(queue'[p]),
             NEW j \in 1..Len(queue'[p]), i < j
      PROVE  queue'[p][i] < queue'[p][j]
  <2>1. CASE queue'[p] = queue[p]
    BY <1>3, <1>5, <2>1 DEF LayersAreFifo
  <2>2. CASE p = b /\ queue'[p] = Tail(queue[b])
    <3>1. queue[b] \in Seq(Ids) /\ queue[b] # << >>
      BY <1>1, <1>2 DEF QueueType
    <3>2. /\ Len(queue'[p]) = Len(queue[b]) - 1 /\ Len(queue[b]) \in Nat
          /\ \A k \in 1..Len(queue'[p]) : queue'[p][k] = queue[b][k + 1]
      BY <3>1, <2>2
    <3>3. i + 1 \in 1..Len(queue[b]) /\ j + 1 \in 1..Len(queue[b]) /\ i + 1 < j + 1
      BY <3>2, <1>5
    <3>4. queue[b][i + 1] < queue[b][j + 1]
      BY <3>3, <1>2 DEF LayersAreFifo
    <3> QED
      BY <3>2, <3>4, <1>5
  <2> QED
    BY <1>3, <2>1, <2>2
<1> QED
  BY <1>4, <1>5 DEF LayersAreFifo

LEMMA OrderStays == OrderInv /\ UNCHANGED <<queue, best>> => OrderInv'
BY DEF OrderInv, LayersAreFifo, BestIsLeast

LEMMA OrderInit == EngineInit => OrderInv
BY DEF EngineInit, OrderInv, LayersAreFifo, BestIsLeast, NoLayers
-----------------------------------------------------------------------------
(* The engine is a graph search. *)

(* No node before this one has its state.                                  *)
First(n) == \A i \in Ids : i < n => log[i].state # log[n].state

(* A node with a child, or the goal found first, is the first of its state;*)
(* so no state is met twice on the way back to the root.                   *)
ParentsAreFirst ==
    /\ \A k \in Ids : First(log[k].parent)
    /\ Found => First(goalNodes[1])

(* What the way back has collected comes from nodes after walk.            *)
TrailIsNew ==
    phase = "backtrace" =>
        /\ First(walk)
        /\ \A i \in 1..Len(trail) :
              \E n \in Ids : walk < n /\ First(n) /\ log[n].state = trail[i]
        /\ \A i, j \in 1..Len(trail) : trail[i] = trail[j] => i = j

LEMMA FinalizeKeepsTrail ==
    ASSUME PathInv, ParentsAreFirst, Finalize
    PROVE  TrailIsNew'
<1> SUFFICES ASSUME phase' = "backtrace" PROVE TrailIsNew'
  BY DEF TrailIsNew
<1>1. /\ goalNodes # << >> /\ walk' = goalNodes[1] /\ UNCHANGED <<log, trail>>
      /\ trail = << >>
  BY DEF Finalize, PathInv, TrailLeads
<1>2. First(walk)'
  BY <1>1 DEF ParentsAreFirst, Found, First, Ids
<1> QED
  BY <1>1, <1>2 DEF TrailIsNew

LEMMA BacktraceKeepsTrail ==
    ASSUME PathInv, ParentsAreFirst, TrailIsNew, BacktraceStep
    PROVE  /\ TrailIsNew'
           /\ \A i \in 1..Len(trail') : trail'[i] \in KnownStates
           /\ \A i, j \in 1..Len(trail') : trail'[i] = trail'[j] => i = j
<1> DEFINE s == log[walk].state
<1>1. /\ walk \in Ids /\ s \in States /\ trail \in Seq(States) /\ log[walk].parent \in Ids
      /\ log[walk].parent # walk => log[walk].parent < walk
  <2>1. walk \in Ids /\ TypeOK /\ LogIsTree
    BY DEF PathInv, TrailLeads, BacktraceStep
  <2>2. log[walk] \in NodeType /\ trail \in Seq(States)
    BY <2>1 DEF TypeOK, Ids
  <2>3. log[walk].parent \in Ids
    BY <2>1, OnlyRootIsOwnParent
  <2>4. log[walk].parent # walk => log[walk].parent < walk
    <3>1. CASE walk = 1
      <4>1. log[walk] = Node(InitState, 1, 0)
        BY <2>1, <3>1 DEF LogIsTree
      <4> QED
        BY <3>1, <4>1 DEF Node
    <3>2. CASE walk # 1
      BY <2>1, <3>2 DEF LogIsTree
    <3> QED
      BY <3>1, <3>2
  <2> QED
    BY <2>1, <2>2, <2>3, <2>4 DEF NodeType
<1>2. /\ trail' = <<s>> \o trail /\ walk' = log[walk].parent
      /\ phase' = IF log[walk].parent = walk THEN "done" ELSE "backtrace"
      /\ UNCHANGED log
  BY DEF BacktraceStep
<1> HIDE DEF s
<1>3. /\ Len(trail) \in Nat /\ Len(trail') = Len(trail) + 1
      /\ trail'[1] = s
      /\ \A i \in 1..Len(trail) : trail'[i + 1] = trail[i]
  BY <1>1, <1>2, ConsElements
<1>4. /\ First(walk)
      /\ \A i \in 1..Len(trail) :
            \E n \in Ids : walk < n /\ First(n) /\ log[n].state = trail[i]
      /\ \A i, j \in 1..Len(trail) : trail[i] = trail[j] => i = j
  BY DEF TrailIsNew, BacktraceStep
<1>5. ASSUME NEW i \in 1..Len(trail')
      PROVE  i = 1 \/ /\ i - 1 \in 1..Len(trail) /\ (i - 1) + 1 = i
                      /\ trail'[i] = trail[i - 1]
  <2>1. CASE i # 1
    <3>1. i - 1 \in 1..Len(trail) /\ (i - 1) + 1 = i
      BY <2>1, <1>3
    <3>2. trail'[(i - 1) + 1] = trail[i - 1]
      BY <3>1, <1>3
    <3> QED
      BY <3>1, <3>2
  <2> QED
    BY <2>1
<1>6. ASSUME NEW i \in 1..Len(trail')
      PROVE  \E n \in Ids : walk <= n /\ First(n) /\ log[n].state = trail'[i]
  <2>1. CASE i = 1
    <3>1. walk <= walk
      BY <1>1 DEF Ids
    <3> QED
      BY <3>1, <2>1, <1>1, <1>3, <1>4 DEF s
  <2>2. CASE i # 1
    <3>1. PICK n \in Ids : walk < n /\ First(n) /\ log[n].state = trail'[i]
      BY <2>2, <1>4, <1>5
    <3>2. walk <= n
      BY <3>1, <1>1 DEF Ids
    <3> QED
      BY <3>1, <3>2
  <2> QED
    BY <2>1, <2>2
<1>7. ASSUME NEW j \in 1..Len(trail') , j # 1 PROVE trail'[j] # s
  <2>1. PICK n \in Ids : walk < n /\ First(n) /\ log[n].state = trail'[j]
    BY <1>4, <1>5, <1>7
  <2> QED
    BY <2>1, <1>1 DEF First, s
<1>8. ASSUME NEW i \in 1..Len(trail'), NEW j \in 1..Len(trail'), trail'[i] = trail'[j]
      PROVE  i = j
  <2>1. CASE i = 1 \/ j = 1
    BY <2>1, <1>3, <1>7, <1>8
  <2>2. CASE i # 1 /\ j # 1
    <3>1. /\ i - 1 \in 1..Len(trail) /\ trail'[i] = trail[i - 1]
          /\ j - 1 \in 1..Len(trail) /\ trail'[j] = trail[j - 1]
      BY <2>2, <1>5
    <3>2. i - 1 = j - 1
      BY <3>1, <1>4, <1>8
    <3> QED
      BY <3>2
  <2> QED
    BY <2>1, <2>2
<1>9. ASSUME phase' = "backtrace" PROVE TrailIsNew'
  <2>1. Ids' = Ids /\ walk' < walk /\ walk' \in Ids /\ First(walk')
    BY <1>1, <1>2, <1>9 DEF Ids, ParentsAreFirst
  <2>2. ASSUME NEW i \in 1..Len(trail')
        PROVE  \E n \in Ids : walk' < n /\ First(n) /\ log[n].state = trail'[i]
    <3>1. PICK n \in Ids : walk <= n /\ First(n) /\ log[n].state = trail'[i]
      BY <1>6
    <3>2. walk' < n
      BY <3>1, <2>1, <1>1 DEF Ids
    <3> QED
      BY <3>1, <3>2
  <2>3. \A n \in Ids : First(n)' = First(n)
    BY <2>1, <1>2 DEF First
  <2>4. First(walk)'
    BY <2>1, <1>2 DEF First
  <2> QED
    BY <2>1, <2>2, <2>3, <2>4, <1>2, <1>8 DEF TrailIsNew
<1>10. \A i \in 1..Len(trail') : trail'[i] \in KnownStates
  BY <1>6 DEF KnownStates
<1>11. TrailIsNew'
  BY <1>9 DEF TrailIsNew
<1> QED
  BY <1>8, <1>10, <1>11

(* Every step maps to a step of GraphSearch or to none. *)

LEMMA InternalRefines ==
    ASSUME UNCHANGED <<graph, log>>, phase' # "done", phase # "done"
    PROVE  UNCHANGED Abstract!vars
BY DEF Abstract!vars, KnownStates, Ids

LEMMA StutterRefines ==
    ASSUME UNCHANGED vars
    PROVE  UNCHANGED Abstract!vars
BY DEF Abstract!vars, KnownStates, Ids, vars

(* A node logged is a state learned, unless it was known.                  *)
LEMMA LogRefines ==
    ASSUME TypeOK, NEW node \in NodeType, CreateNode(node), UNCHANGED graph,
           phase # "done", phase' # "done",
           \/ node.state = InitState
           \/ graph.h[node.state] # Infinite /\ \E r \in KnownStates : IsEdge(r, node.state)
    PROVE  [Abstract!Next]_(Abstract!vars)
<1>1. KnownStates' = KnownStates \cup {node.state} /\ node.state \in States
  BY LogGrows DEF NodeType
<1>2. CASE node.state \in KnownStates
  BY <1>1, <1>2 DEF Abstract!vars
<1>3. CASE node.state \notin KnownStates
  <2>1. Abstract!Know(node.state)
    BY <1>1, <1>3 DEF Abstract!Know, Abstract!Alive, Abstract!Leads, IsEdge
  <2> QED
    BY <1>1, <2>1 DEF Abstract!Next
<1> QED
  BY <1>2, <1>3

LEMMA FinalizeRefines ==
    ASSUME SearchInv, Finalize
    PROVE  [Abstract!Next]_(Abstract!vars)
<1>1. CASE goalNodes # << >>
  BY <1>1, InternalRefines DEF Finalize
<1>2. CASE goalNodes = << >>
  <2>1. /\ phase = "search" /\ phase' = "done" /\ UNCHANGED <<graph, log, trail>>
        /\ todo = {} /\ QueueEmpty(queue) /\ trail = << >>
    BY <1>2 DEF Finalize, LoopEnds, SearchInv, PathInv, TrailLeads
  <2>2. Closed(KnownStates) /\ KnownStates \cap graph.goals = {}
    BY <1>2, <2>1, KnownIsClosed DEF Found
  <2>3. Abstract!Exhausted(KnownStates)
    BY <2>2 DEF Abstract!Exhausted, Abstract!Alive, Closed
  <2>4. KnownStates' = KnownStates
    BY <2>1 DEF KnownStates, Ids
  <2>5. Abstract!Answer
    BY <2>1, <2>3, <2>4 DEF Abstract!Answer
  <2> QED
    BY <2>5 DEF Abstract!Next
<1> QED
  BY <1>1, <1>2

LEMMA BacktraceRefines ==
    ASSUME PathInv, ParentsAreFirst, TrailIsNew, BacktraceStep
    PROVE  [Abstract!Next]_(Abstract!vars)
<1>1. CASE log[walk].parent # walk
  BY <1>1, InternalRefines DEF BacktraceStep
<1>2. CASE log[walk].parent = walk
  <2>1. /\ phase = "backtrace" /\ phase' = "done" /\ UNCHANGED <<graph, log, goalNodes>>
        /\ Found
    BY <1>2 DEF BacktraceStep, PathInv, LoopIsOver
  <2>2. TrailLeads'
    BY BacktraceKeeps DEF PathInv
  <2>3. IsPlan(trail)'
    BY <2>1, <2>2 DEF TrailLeads, PlanIsSound, Found
  <2>4. /\ trail' # << >> /\ trail'[1] = InitState /\ trail'[Len(trail')] \in graph.goals
        /\ \A i \in 1..(Len(trail') - 1) : IsEdge(trail'[i], trail'[i + 1])
    BY <2>1, <2>3 DEF IsPlan, Chain, IsEdge
  <2>5. /\ \A i \in 1..Len(trail') : trail'[i] \in KnownStates
        /\ \A i, j \in 1..Len(trail') : trail'[i] = trail'[j] => i = j
    BY BacktraceKeepsTrail
  <2>6. Abstract!Plan(trail')
    BY <2>4, <2>5 DEF Abstract!Plan, Abstract!Leads, IsEdge
  <2>7. KnownStates' = KnownStates
    BY <2>1 DEF KnownStates, Ids
  <2>8. Abstract!Answer
    BY <2>1, <2>4, <2>6, <2>7 DEF Abstract!Answer
  <2> QED
    BY <2>8 DEF Abstract!Next
<1> QED
  BY <1>1, <1>2

LEMMA InitRefines == EngineInit => Abstract!Init
<1> SUFFICES ASSUME EngineInit PROVE Abstract!Init
  OBVIOUS
<1>1. graph \in GraphType /\ KnownStates = {} /\ phase # "done"
  BY EngineAssumption DEF EngineInit, EngineAssumption, KnownStates, Ids
<1> QED
  BY <1>1 DEF Abstract!Init, Abstract!AnyGraph, GraphType

-----------------------------------------------------------------------------
(* The blind engines. *)

(* Every step of the engine keeps the invariant of its search.             *)
LEMMA BlindSearchStep == SearchInv /\ [BlindNext]_vars => SearchInv'
<1> SUFFICES ASSUME SearchInv, [BlindNext]_vars PROVE SearchInv'
  OBVIOUS
<1>0. graph \in GraphType /\ graph.h \in [States -> Nat] /\ InitState \in States
  BY EngineAssumption DEF SearchInv, PathInv, TypeOK, GraphType, EngineAssumption
<1>1. CASE BlindStart
  <2>1. Priority(0, 0) \in Nat /\ db = {}
    BY <1>0, <1>1, PriorityType DEF SearchInv, PathInv, RootLogged, BlindStart
  <2> QED
    BY <1>1, <2>1, RootKeeps DEF BlindStart, SearchInv
<1>2. ASSUME NEW e \in todo, BlindGenerate(e) PROVE SearchInv'
  <2>1. /\ log[cur].len + e[3] \in Nat /\ e[2] \in States
        /\ Node(e[2], cur, log[cur].len + e[3]).len = log[cur].len + e[3]
    <3>1. TypeOK /\ TodoIsOut
      BY DEF SearchInv, PathInv
    <3>2. log[cur].len \in Nat /\ e[3] \in Nat /\ e[2] \in States
      BY <3>1, EdgeType
    <3> QED
      BY <3>2 DEF Node
  <2>2. CASE e[2] \in db
    <3>1. db' = db \cup {e[2]}
      BY <1>2, <2>2 DEF BlindGenerate
    <3> QED
      BY <1>2, <2>2, <3>1, SkipKeeps DEF BlindGenerate, SearchInv
  <2>3. CASE e[2] \notin db
    <3>1. Priority(log[cur].len + e[3], 0) \in Nat
      BY <1>0, <2>1, PriorityType
    <3> QED
      BY <1>2, <2>1, <2>3, <3>1, GenerateKeeps DEF BlindGenerate, SearchInv
  <2> QED
    BY <2>2, <2>3
<1>3. CASE Dequeue
  BY <1>3, DequeueKeeps DEF SearchInv
<1>4. CASE Finalize
  BY <1>4, FinalizeKeeps DEF SearchInv
<1>5. CASE BacktraceStep
  BY <1>5, BacktraceKeeps DEF SearchInv
<1>6. CASE Returned \/ UNCHANGED vars
  BY <1>6, StutterKeeps DEF Returned, SearchInv
<1> QED
  BY <1>1, <1>2, <1>3, <1>4, <1>5, <1>6 DEF BlindNext

THEOREM BlindInvariant == BlindSpec => []SearchInv
BY InitInv, BlindSearchStep, PTL DEF BlindSpec, EngineInit

(* Every variable keeps its type (queued_engine.h, search_database.h).     *)
THEOREM BlindTypeOK == BlindSpec => []TypeOK
BY BlindInvariant, PTL DEF SearchInv, PathInv

(* A plan returned is a path of the graph from the initial state to a goal *)
(* (search_engine_base.h, backtrace_path).                                 *)
THEOREM BlindPlanIsSound == BlindSpec => []PlanIsSound
BY BlindInvariant, PTL DEF SearchInv, PathInv, TrailLeads

(* When no plan is returned, none exists (the loops of serial_engine.h).   *)
THEOREM BlindFailureIsExhaustive == BlindSpec => []FailureIsExhaustive
BY BlindInvariant, FailureFollows, PTL

LEMMA BlindOrderStep == SearchInv /\ OrderInv /\ [BlindNext]_vars => OrderInv'
<1> SUFFICES ASSUME SearchInv, OrderInv, [BlindNext]_vars PROVE OrderInv'
  OBVIOUS
<1>0. /\ TypeOK /\ TodoIsOut /\ graph \in GraphType /\ InitState \in States
  BY EngineAssumption DEF SearchInv, PathInv, TypeOK, EngineAssumption
<1>1. CASE BlindStart
  <2>1. Priority(0, 0) \in Nat /\ Node(InitState, 1, 0) \in NodeType
    BY <1>0, PriorityType DEF Node, NodeType
  <2> QED
    BY <1>0, <1>1, <2>1, EnqueueKeepsOrder DEF BlindStart
<1>2. ASSUME NEW e \in todo, BlindGenerate(e) PROVE OrderInv'
  <2> DEFINE node == Node(e[2], cur, log[cur].len + e[3])
  <2>1. CASE e[2] \in db
    BY <1>2, <2>1, OrderStays DEF BlindGenerate
  <2>2. CASE e[2] \notin db
    <3>1. /\ log[cur].len \in Nat /\ e[3] \in Nat /\ e[2] \in States /\ cur \in Ids
      BY <1>0, EdgeType DEF TodoIsOut
    <3>2. cur \in Nat \ {0}
      BY <3>1 DEF Ids
    <3>3. node \in NodeType /\ node.len \in Nat
      BY <3>1, <3>2 DEF Node, NodeType
    <3>4. Priority(node.len, 0) \in Nat
      BY <1>0, <3>3, PriorityType
    <3>5. Enqueue(node, Priority(node.len, 0)) /\ UNCHANGED graph
      BY <1>2, <2>2 DEF BlindGenerate
    <3> HIDE DEF node
    <3> QED
      BY <3>3, <3>4, <3>5, <1>0, EnqueueKeepsOrder
  <2> QED
    BY <2>1, <2>2
<1>3. CASE Dequeue
  BY <1>0, <1>3, DequeueKeepsOrder
<1>4. CASE Finalize \/ BacktraceStep \/ Returned \/ UNCHANGED vars
  <2>1. UNCHANGED <<queue, best>>
    BY <1>4 DEF Finalize, BacktraceStep, Returned, vars
  <2> QED
    BY <2>1, OrderStays
<1> QED
  BY <1>1, <1>2, <1>3, <1>4 DEF BlindNext

THEOREM BlindOrder == BlindSpec => []OrderInv
BY OrderInit, BlindOrderStep, BlindInvariant, PTL DEF BlindSpec, EngineInit

(* Nodes of equal priority leave in the order they were created            *)
(* (search_queue.h, push and pop_and_call).                                *)
THEOREM BlindLayersAreFifo == BlindSpec => []LayersAreFifo
BY BlindOrder, PTL DEF OrderInv

(* Nothing in the open list is better than the best estimation reported    *)
(* (queued_engine.h, m_bestEstimation).                                    *)
THEOREM BlindBestIsLeast == BlindSpec => []BestIsLeast
BY BlindOrder, PTL DEF OrderInv

(* The state set does not hold the initial state, so it may get a second   *)
(* node.  By then the root has been expanded, so what the second would     *)
(* bring is in the state set.                                              *)
RootFirst ==
    /\ cur = 0 => /\ todo = {} /\ Len(log) <= 1
                  /\ \A p \in DOMAIN queue : DOMAIN queue = {p} /\ queue[p] = <<1>>
    /\ cur # 0 => 1 \notin QueuedIds
    /\ InitState \in graph.goals => todo = {} /\ Len(log) <= 1

BlindLoggedOnce ==
    /\ \A i \in Ids : i = 1 \/ log[i].state \in db
    /\ \A i, j \in Ids : i < j /\ log[i].state = log[j].state => i = 1
    /\ \A k \in Ids : First(log[k].parent)

BlindInv == SearchInv /\ RootFirst /\ BlindLoggedOnce

LEMMA BlindParents ==
    BlindInv => /\ ParentsAreFirst
                /\ graph.cmp \in {"bfs", "dfs"} => OneNodePerState
<1> SUFFICES ASSUME BlindInv
             PROVE  /\ ParentsAreFirst
                    /\ graph.cmp \in {"bfs", "dfs"} => OneNodePerState
  OBVIOUS
<1>0. /\ TypeOK /\ LogIsTree /\ GoalsAside /\ RootFirst /\ BlindLoggedOnce
      /\ Len(log) \in Nat
  BY DEF BlindInv, SearchInv, PathInv, TypeOK
<1>1. ASSUME Found PROVE First(goalNodes[1])
  <2>1. goalNodes[1] \in Ids /\ log[goalNodes[1]].state \in graph.goals
    <3>1. goalNodes \in Seq(Ids) /\ goalNodes # << >>
      BY <1>0, <1>1 DEF TypeOK, Found
    <3> QED
      BY <3>1, <1>0 DEF GoalsAside
  <2>2. ASSUME NEW i \in Ids, i < goalNodes[1], log[i].state = log[goalNodes[1]].state
        PROVE  FALSE
    <3>1. i = 1
      BY <2>1, <2>2, <1>0 DEF BlindLoggedOnce
    <3>2. log[1].state = InitState
      <4>1. log[1] = Node(InitState, 1, 0)
        BY <3>1, <1>0 DEF LogIsTree
      <4> QED
        BY <4>1 DEF Node
    <3>3. Len(log) <= 1
      BY <2>1, <2>2, <3>1, <3>2, <1>0 DEF RootFirst
    <3> QED
      BY <2>1, <2>2, <3>3, <1>0 DEF Ids
  <2> QED
    BY <2>2 DEF First
<1>2. ASSUME NEW i \in Ids, NEW j \in Ids, i < j, log[i].state = log[j].state, NEW k \in Ids
      PROVE  i = 1 /\ log[k].parent # j
  BY <1>0, <1>2 DEF BlindLoggedOnce, First
<1> QED
  BY <1>0, <1>1, <1>2 DEF ParentsAreFirst, OneNodePerState, BlindLoggedOnce

(* First of the nodes known before a node is logged.                       *)
LEMMA FirstStays ==
    ASSUME TypeOK, NEW node \in NodeType, CreateNode(node), NEW n \in Ids, First(n)
    PROVE  First(n)'
<1>1. /\ Ids' = Ids \cup {Len(log) + 1} /\ Len(log) \in Nat
      /\ \A i \in Ids : log'[i] = log[i]
  BY LogGrows
<1> QED
  BY <1>1 DEF First, Ids

LEMMA StartKeepsRoot ==
    ASSUME BlindInv, BlindStart
    PROVE  RootFirst' /\ BlindLoggedOnce'
<1> DEFINE root == Node(InitState, 1, 0)
           prio == Priority(0, 0)
<1>1. /\ log = << >> /\ DOMAIN queue = {} /\ todo = {} /\ TypeOK /\ cur \in Ids \cup {0}
  BY DEF BlindInv, SearchInv, PathInv, RootLogged, BlindStart, TypeOK
<1>2. /\ CreateNode(root) /\ Enqueue(root, prio)
      /\ UNCHANGED <<graph, cur, todo, db>>
  BY DEF BlindStart
<1>3. root \in NodeType /\ root.state = InitState /\ root.parent = 1
  BY EngineAssumption DEF EngineAssumption, Node, NodeType
<1>4. Len(log) = 0 /\ Ids = {} /\ cur = 0
  BY <1>1 DEF Ids
<1> HIDE DEF root, prio
<1>5. /\ Ids' = {1} /\ Len(log') = 1 /\ log'[1] = root
  BY <1>1, <1>2, <1>3, <1>4, LogGrows
<1>6. \A p \in DOMAIN queue' : DOMAIN queue' = {p} /\ queue'[p] = <<1>>
  <2>1. CASE root.state \in graph.goals
    BY <1>1, <1>2, <2>1 DEF Enqueue
  <2>2. CASE root.state \notin graph.goals
    <3>1. queue' = Push(queue, prio, 1)
      BY <1>2, <1>4, <2>2 DEF Enqueue
    <3>2. queue' = [r \in {prio} |-> <<1>>]
      BY <1>1, <3>1 DEF Push
    <3> QED
      BY <3>2
  <2> QED
    BY <2>1, <2>2
<1>7. RootFirst'
  <2>1. cur' = 0 /\ todo' = {} /\ Len(log') <= 1
    BY <1>1, <1>2, <1>4, <1>5
  <2> QED
    BY <2>1, <1>6 DEF RootFirst
<1>8. BlindLoggedOnce'
  BY <1>3, <1>5 DEF BlindLoggedOnce, First
<1> QED
  BY <1>7, <1>8

LEMMA DequeueKeepsRoot ==
    ASSUME BlindInv, Dequeue
    PROVE  RootFirst' /\ BlindLoggedOnce'
<1>1. /\ TypeOK /\ QueueType(queue, Ids) /\ DOMAIN queue # {} /\ ~ Found /\ GoalsAside
      /\ cur' = Top(queue) /\ queue' = Pop(queue) /\ UNCHANGED <<log, db, graph>>
      /\ RootFirst /\ BlindLoggedOnce /\ LogIsTree /\ todo = {}
  BY DEF BlindInv, SearchInv, PathInv, TypeOK, Dequeue, LoopEnds, QueueEmpty, Found
<1>2. /\ Top(queue) \in Ids /\ Members(queue') \subseteq Members(queue)
  BY <1>1, PopMembers
<1>3. cur' # 0 /\ Ids' = Ids /\ \A n \in Nat : First(n)' = First(n)
  BY <1>1, <1>2 DEF Ids, First
<1>4. 1 \notin QueuedIds'
  <2>1. CASE cur = 0
    <3>1. PICK p \in DOMAIN queue : DOMAIN queue = {p} /\ queue[p] = <<1>>
      BY <1>1, <2>1 DEF RootFirst
    <3>2. BestPriority(queue) = p
      BY <3>1, <1>1, BestIsLayer
    <3>3. DOMAIN queue' = {}
      BY <3>1, <3>2, <1>1 DEF Pop
    <3> QED
      BY <3>3 DEF QueuedIds, Members
  <2>2. CASE cur # 0
    BY <2>2, <1>1, <1>2 DEF RootFirst, QueuedIds
  <2> QED
    BY <2>1, <2>2
<1>5. InitState \notin graph.goals
  <2>1. 1 \in Ids
    BY <1>1, <1>2 DEF Ids, TypeOK
  <2>2. log[1] = Node(InitState, 1, 0)
    BY <2>1, <1>1 DEF LogIsTree
  <2>3. log[1].state = InitState
    BY <2>2 DEF Node
  <2> QED
    BY <2>1, <2>3, <1>1 DEF GoalsAside
<1>6. RootFirst'
  BY <1>1, <1>3, <1>4, <1>5 DEF RootFirst
<1>7. BlindLoggedOnce'
  BY <1>1, <1>3 DEF BlindLoggedOnce, First
<1> QED
  BY <1>6, <1>7

LEMMA GenerateKeepsRoot ==
    ASSUME BlindInv, NEW e \in todo, BlindGenerate(e)
    PROVE  RootFirst' /\ BlindLoggedOnce'
<1> DEFINE node == Node(e[2], cur, log[cur].len + e[3])
           id == Len(log) + 1
           prio == Priority(node.len, 0)
<1>0. /\ TypeOK /\ NothingSkipped /\ LogIsTree /\ RootFirst /\ BlindLoggedOnce
      /\ cur \in Ids /\ e[1] = log[cur].state /\ e \in graph.edges
      /\ log[cur].len \in Nat /\ e[3] \in Nat /\ e[2] \in States
      /\ QueueType(queue, Ids) /\ Len(log) \in Nat
  <2>1. TypeOK /\ TodoIsOut /\ e \in todo
    BY DEF BlindInv, SearchInv, PathInv
  <2> QED
    BY <2>1, EdgeType DEF BlindInv, SearchInv, PathInv, TypeOK, TodoIsOut
<1>1. cur # 0 /\ 1 \notin QueuedIds /\ InitState \notin graph.goals /\ cur \in Nat
  BY <1>0 DEF RootFirst, Ids
<1>2. /\ todo' = todo \ {e} /\ UNCHANGED <<graph, cur>>
  BY DEF BlindGenerate
<1>3. CASE e[2] \in db
  BY <1>0, <1>1, <1>2, <1>3 DEF BlindGenerate, RootFirst, BlindLoggedOnce, First, QueuedIds, Ids
<1>4. CASE e[2] \notin db
  <2>1. /\ CreateNode(node) /\ Enqueue(node, prio) /\ db' = db \cup {e[2]}
    BY <1>4 DEF BlindGenerate
  <2>2. node \in NodeType /\ node.state = e[2] /\ node.parent = cur /\ node.len \in Nat
    BY <1>0, <1>1 DEF Node, NodeType
  <2>3. prio \in Nat
    BY <1>0, <2>2, PriorityType DEF TypeOK
  <2> HIDE DEF node, prio
  <2>4. /\ Ids' = Ids \cup {id} /\ id \notin Ids
        /\ \A i \in Ids : log'[i] = log[i]
        /\ log'[id] = node
    BY <2>1, <2>2, <1>0, LogGrows
  <2>5. id # 1 /\ id \in Nat /\ \A i \in Ids : i < id
    BY <1>0 DEF Ids
  <2>6. 1 \notin QueuedIds'
    <3>1. QueuedIds' = QueuedIds \/ QueuedIds' = QueuedIds \cup {id}
      BY <2>1, <2>2, <2>3, <1>0, <1>2, EnqueueType DEF QueuedIds
    <3> QED
      BY <3>1, <1>1, <2>5
  <2>7. RootFirst'
    BY <2>6, <1>1, <1>2 DEF RootFirst
  <2>8. First(cur)
    <3>1. ASSUME NEW i \in Ids, i < cur, log[i].state = log[cur].state PROVE FALSE
      <4>1. i = 1 /\ cur # 1
        BY <1>0, <3>1 DEF BlindLoggedOnce, Ids
      <4>2. log[1].state = InitState
        <5>1. log[1] = Node(InitState, 1, 0)
          BY <4>1, <1>0 DEF LogIsTree
        <5> QED
          BY <5>1 DEF Node
      <4>3. e \in OutEdges(log[1].state) /\ 1 \in Ids
        BY <4>1, <3>1, <1>0 DEF OutEdges
      <4> QED
        BY <4>1, <4>2, <4>3, <1>0, <1>1, <1>4 DEF NothingSkipped
    <3> QED
      BY <3>1 DEF First
  <2>9. ASSUME NEW k \in Ids' PROVE First(log[k].parent)'
    <3>1. CASE k \in Ids
      <4>1. log[k].parent \in Ids /\ First(log[k].parent) /\ log'[k] = log[k]
        BY <3>1, <1>0, <2>4, OnlyRootIsOwnParent DEF BlindLoggedOnce
      <4>2. \A n \in Ids : First(n) => First(n)'
        BY <2>1, <2>2, <1>0, FirstStays
      <4> QED
        BY <4>1, <4>2 DEF First
    <3>2. CASE k = id
      <4>1. \A n \in Ids : First(n) => First(n)'
        BY <2>1, <2>2, <1>0, FirstStays
      <4>2. log'[k].parent = cur
        BY <3>2, <2>2, <2>4
      <4> QED
        BY <4>1, <4>2, <2>8, <1>0 DEF First
    <3> QED
      BY <3>1, <3>2, <2>4
  <2>10. \A i \in Ids' : i = 1 \/ log'[i].state \in db'
    BY <2>1, <2>2, <2>4, <1>0 DEF BlindLoggedOnce
  <2>11. ASSUME NEW i \in Ids', NEW j \in Ids', i < j, log'[i].state = log'[j].state
         PROVE  i = 1
    <3>1. CASE j \in Ids
      <4>1. i # id
        BY <2>5, <2>11, <3>1 DEF Ids
      <4> QED
        BY <4>1, <3>1, <2>4, <2>11, <1>0 DEF BlindLoggedOnce
    <3>2. CASE j = id
      BY <3>2, <2>2, <2>4, <2>5, <2>11, <1>0, <1>4 DEF BlindLoggedOnce
    <3> QED
      BY <3>1, <3>2, <2>4
  <2> QED
    BY <2>7, <2>9, <2>10, <2>11 DEF BlindLoggedOnce
<1> QED
  BY <1>3, <1>4

LEMMA BlindStep == BlindInv /\ [BlindNext]_vars => BlindInv'
<1> SUFFICES ASSUME BlindInv, [BlindNext]_vars PROVE RootFirst' /\ BlindLoggedOnce'
  BY BlindSearchStep DEF BlindInv
<1>1. CASE BlindStart
  BY <1>1, StartKeepsRoot
<1>2. CASE \E e \in todo : BlindGenerate(e)
  BY <1>2, GenerateKeepsRoot
<1>3. CASE Dequeue
  BY <1>3, DequeueKeepsRoot
<1>4. CASE Finalize \/ BacktraceStep \/ Returned \/ UNCHANGED vars
  <2>1. UNCHANGED <<log, db, queue, cur, todo, graph>>
    BY <1>4 DEF Finalize, BacktraceStep, Returned, vars
  <2> QED
    BY <2>1 DEF BlindInv, RootFirst, BlindLoggedOnce, First, QueuedIds, Ids
<1> QED
  BY <1>1, <1>2, <1>3, <1>4 DEF BlindNext

THEOREM BlindNodes == BlindSpec => []BlindInv
<1>1. EngineInit => BlindInv
  BY InitInv DEF EngineInit, BlindInv, RootFirst, BlindLoggedOnce, Ids, NoLayers
<1> QED
  BY <1>1, BlindStep, PTL DEF BlindSpec

(* A state has one node; only the initial state may have a second one, to  *)
(* which no other node belongs (serial_engine.h:26 and :37).  The blind    *)
(* engine is only built with the comparators of bfs_engine and dfs_engine. *)
THEOREM BlindOneNode == BlindSpec => [](graph.cmp \in {"bfs", "dfs"} => OneNodePerState)
BY BlindNodes, BlindParents, PTL

LEMMA BlindTrailStep == BlindInv /\ TrailIsNew /\ [BlindNext]_vars => TrailIsNew'
<1> SUFFICES ASSUME BlindInv, TrailIsNew, [BlindNext]_vars PROVE TrailIsNew'
  OBVIOUS
<1>0. PathInv /\ ParentsAreFirst
  BY BlindParents DEF BlindInv, SearchInv
<1>1. CASE Finalize
  BY <1>0, <1>1, FinalizeKeepsTrail
<1>2. CASE BacktraceStep
  BY <1>0, <1>2, BacktraceKeepsTrail
<1>3. CASE BlindStart \/ Dequeue \/ \E e \in todo : BlindGenerate(e)
  BY <1>3 DEF BlindStart, Dequeue, BlindGenerate, TrailIsNew
<1>4. CASE Returned \/ UNCHANGED vars
  BY SMTT(60), <1>4 DEF Returned, vars, TrailIsNew, First, Ids
<1> QED
  BY <1>1, <1>2, <1>3, <1>4 DEF BlindNext

(* A layer of a blind search holds the nodes of one length, none of which  *)
(* is below that of the node under expansion.                              *)
LayersAreLengths ==
    graph.cmp \in {"bfs", "dfs"} =>
        \A p \in DOMAIN queue :
            /\ cur # 0 => log[cur].len <= p
            /\ \A i \in 1..Len(queue[p]) : log[queue[p][i]].len = p

LEMMA LogKeepsLengths ==
    ASSUME BlindInv, LayersAreLengths, graph.cmp \in {"bfs", "dfs"},
           NEW node \in NodeType, CreateNode(node), Enqueue(node, node.len),
           cur # 0 => log[cur].len <= node.len, UNCHANGED <<graph, cur>>
    PROVE  LayersAreLengths'
<1> DEFINE id == Len(log) + 1
<1>0. TypeOK /\ QueueType(queue, Ids) /\ node.len \in Nat /\ cur \in Ids \cup {0}
  BY DEF BlindInv, SearchInv, PathInv, TypeOK, NodeType
<1>1. /\ \A i \in Ids : log'[i] = log[i]
      /\ log'[id] = node
  BY <1>0, LogGrows
<1>2. cur # 0 => log'[cur] = log[cur]
  BY <1>0, <1>1
<1>3. ASSUME NEW p \in DOMAIN queue, NEW i \in 1..Len(queue[p])
      PROVE  queue[p][i] \in Ids /\ log'[queue[p][i]].len = p
  <2>1. queue[p] \in Seq(Ids)
    BY <1>0 DEF QueueType
  <2>2. queue[p][i] \in Ids
    BY <2>1
  <2> QED
    BY <2>2, <1>1 DEF LayersAreLengths
<1>4. \A p \in DOMAIN queue : cur # 0 => log'[cur].len <= p
  BY <1>2 DEF LayersAreLengths
<1>5. CASE node.state \in graph.goals
  <2>1. queue' = queue
    BY <1>5 DEF Enqueue
  <2> QED
    BY <2>1, <1>3, <1>4 DEF LayersAreLengths
<1>6. CASE node.state \notin graph.goals
  <2>1. queue' = Push(queue, node.len, id)
    BY <1>6 DEF Enqueue
  <2> HIDE DEF id
  <2>2. /\ DOMAIN queue' = DOMAIN queue \cup {node.len}
        /\ \A p \in DOMAIN queue : p # node.len => queue'[p] = queue[p]
    BY <2>1 DEF Push
  <2>3. ASSUME NEW i \in 1..Len(queue'[node.len])
        PROVE  log'[queue'[node.len][i]].len = node.len
    <3>1. CASE node.len \in DOMAIN queue
      <4>1. queue'[node.len] = Append(queue[node.len], id) /\ queue[node.len] \in Seq(Ids)
        BY <2>1, <3>1, <1>0 DEF Push, QueueType
      <4>2. \/ i \in 1..Len(queue[node.len]) /\ queue'[node.len][i] = queue[node.len][i]
            \/ queue'[node.len][i] = id
        BY <4>1
      <4> QED
        BY <4>2, <3>1, <1>1, <1>3
    <3>2. CASE node.len \notin DOMAIN queue
      <4>1. queue'[node.len] = <<id>>
        BY <2>1, <3>2 DEF Push
      <4>2. queue'[node.len][i] = id
        BY <4>1
      <4> QED
        BY <4>2, <1>1
    <3> QED
      BY <3>1, <3>2
  <2>4. ASSUME NEW p \in DOMAIN queue'
        PROVE  /\ cur' # 0 => log'[cur'].len <= p
               /\ \A i \in 1..Len(queue'[p]) : log'[queue'[p][i]].len = p
    <3>1. CASE p = node.len
      BY <3>1, <2>3, <1>2
    <3>2. CASE p # node.len
      BY <3>2, <2>2, <1>3, <1>4
    <3> QED
      BY <3>1, <3>2
  <2> QED
    BY <2>4 DEF LayersAreLengths
<1> QED
  BY <1>5, <1>6

(* The node taken next is of the least length, and so is its layer.        *)
LEMMA DequeueKeepsLengths ==
    ASSUME BlindInv, LayersAreLengths, Dequeue
    PROVE  /\ LayersAreLengths'
           /\ graph.cmp \in {"bfs", "dfs"} /\ cur # 0 => log[cur].len <= log[cur'].len
<1> SUFFICES ASSUME graph.cmp \in {"bfs", "dfs"}
             PROVE  LayersAreLengths' /\ (cur # 0 => log[cur].len <= log[cur'].len)
  BY DEF LayersAreLengths, Dequeue
<1> DEFINE b == BestPriority(queue)
<1>1. /\ QueueType(queue, Ids) /\ DOMAIN queue # {}
      /\ cur' = Top(queue) /\ queue' = Pop(queue) /\ UNCHANGED <<graph, log>>
  BY DEF BlindInv, SearchInv, PathInv, TypeOK, Dequeue, LoopEnds, QueueEmpty
<1>2. b \in DOMAIN queue /\ \A p \in DOMAIN queue : b <= p
  BY <1>1, BestIsLayer
<1>3. cur' = Head(queue[b])
  BY <1>1 DEF Top
<1>4. /\ DOMAIN queue' \subseteq DOMAIN queue
      /\ \A p \in DOMAIN queue' :
            queue'[p] = queue[p] \/ (p = b /\ queue'[p] = Tail(queue[b]))
  BY <1>1, <1>2 DEF Pop
<1> HIDE DEF b
<1>5. queue[b] \in Seq(Ids) /\ queue[b] # << >>
  BY <1>1, <1>2 DEF QueueType
<1>6. 1 \in 1..Len(queue[b]) /\ cur' = queue[b][1]
  BY <1>3, <1>5
<1>7. log[cur'].len = b
  BY <1>2, <1>6 DEF LayersAreLengths
<1>8. ASSUME NEW p \in DOMAIN queue', NEW i \in 1..Len(queue'[p])
      PROVE  log[queue'[p][i]].len = p
  <2>1. CASE queue'[p] = queue[p]
    BY <1>4, <1>8, <2>1 DEF LayersAreLengths
  <2>2. CASE p = b /\ queue'[p] = Tail(queue[b])
    <3>1. i + 1 \in 1..Len(queue[b]) /\ queue'[p][i] = queue[b][i + 1]
      BY <1>5, <1>8, <2>2
    <3> QED
      BY <3>1, <1>2, <2>2 DEF LayersAreLengths
  <2> QED
    BY <1>4, <2>1, <2>2
<1>9. LayersAreLengths'
  BY <1>1, <1>2, <1>4, <1>7, <1>8 DEF LayersAreLengths
<1> QED
  BY <1>2, <1>7, <1>9 DEF LayersAreLengths

LEMMA LengthsStep ==
    BlindInv /\ LayersAreLengths /\ [BlindNext]_vars =>
        /\ LayersAreLengths'
        /\ [graph.cmp \in {"bfs", "dfs"} /\ cur # 0 => log[cur].len <= log[cur'].len]_cur
<1> SUFFICES ASSUME BlindInv, LayersAreLengths, [BlindNext]_vars
             PROVE  /\ LayersAreLengths'
                    /\ [graph.cmp \in {"bfs", "dfs"} /\ cur # 0 =>
                            log[cur].len <= log[cur'].len]_cur
  OBVIOUS
<1>0. /\ TypeOK /\ TodoIsOut /\ RootLogged /\ InitState \in States /\ RootFirst
  BY EngineAssumption DEF BlindInv, SearchInv, PathInv, EngineAssumption
<1>1. CASE Dequeue
  BY <1>1, DequeueKeepsLengths
<1>2. CASE BlindStart
  <2>1. UNCHANGED <<graph, cur>>
    BY <1>2 DEF BlindStart
  <2>2. ASSUME graph.cmp \in {"bfs", "dfs"} PROVE LayersAreLengths'
    <3> DEFINE root == Node(InitState, 1, 0)
    <3>1. root \in NodeType /\ root.len = 0
      BY <1>0 DEF Node, NodeType
    <3>2. Priority(0, 0) = 0
      BY <2>2 DEF Priority, BfsKey, DfsKey
    <3>3. CreateNode(root) /\ Enqueue(root, root.len)
      BY <1>2, <3>1, <3>2 DEF BlindStart
    <3>4. cur = 0
      <4>1. Ids = {}
        BY <1>0, <1>2 DEF BlindStart, RootLogged, Ids
      <4> QED
        BY <4>1, <1>0 DEF TypeOK
    <3> HIDE DEF root
    <3> QED
      BY <2>1, <2>2, <3>1, <3>3, <3>4, LogKeepsLengths
  <2> QED
    BY <2>1, <2>2 DEF LayersAreLengths
<1>3. ASSUME NEW e \in todo, BlindGenerate(e)
      PROVE  LayersAreLengths' /\ cur' = cur
  <2>1. UNCHANGED <<graph, cur>>
    BY <1>3 DEF BlindGenerate
  <2>2. CASE e[2] \in db \/ graph.cmp \notin {"bfs", "dfs"}
    BY <1>3, <2>1, <2>2 DEF BlindGenerate, LayersAreLengths
  <2>3. CASE ~ (e[2] \in db \/ graph.cmp \notin {"bfs", "dfs"})
    <3> DEFINE node == Node(e[2], cur, log[cur].len + e[3])
    <3>1. /\ log[cur].len \in Nat /\ e[3] \in Nat /\ e[2] \in States /\ cur \in Ids
      BY <1>0, EdgeType DEF TodoIsOut
    <3>2. cur \in Nat \ {0}
      BY <3>1 DEF Ids
    <3>3. node \in NodeType /\ node.len = log[cur].len + e[3]
      BY <3>1, <3>2 DEF Node, NodeType
    <3>4. Priority(node.len, 0) = node.len
      BY <2>3 DEF Priority, BfsKey, DfsKey
    <3>5. CreateNode(node) /\ Enqueue(node, node.len)
      BY <1>3, <2>3, <3>4 DEF BlindGenerate
    <3>6. log[cur].len <= node.len
      BY <3>1, <3>3
    <3> HIDE DEF node
    <3> QED
      BY <2>1, <2>3, <3>3, <3>5, <3>6, LogKeepsLengths
  <2> QED
    BY <2>1, <2>2, <2>3
<1>4. CASE Finalize \/ BacktraceStep \/ Returned \/ UNCHANGED vars
  <2>1. UNCHANGED <<graph, log, queue, cur>>
    BY <1>4 DEF Finalize, BacktraceStep, Returned, vars
  <2> QED
    BY <2>1 DEF LayersAreLengths
<1> QED
  BY <1>1, <1>2, <1>3, <1>4 DEF BlindNext, BlindStart

(* A blind search expands its nodes in the order of their length, over     *)
(* every graph: the cost of an edge is never negative (bfs_engine.h,       *)
(* serial_engine.h).                                                       *)
THEOREM BlindNearestFirst == BlindSpec => BlindCheapestFirst
<1>1. EngineInit => LayersAreLengths
  BY DEF EngineInit, LayersAreLengths, NoLayers
<1> QED
  BY <1>1, LengthsStep, BlindNodes, PTL DEF BlindSpec, BlindCheapestFirst

(* Breadth first search over edges of cost 1: whatever is no farther than  *)
(* the node under expansion has a node that is no farther either, and no   *)
(* goal is among it; every node is at most one step farther.               *)
UnitBfs == graph.cmp = "bfs" /\ \A e \in graph.edges : e[3] = 1

NearAreKnown ==
    UnitBfs /\ cur # 0 =>
        /\ \A i \in Ids : log[i].len <= log[cur].len + 1
        /\ \A s \in Within[log[cur].len] :
              \E i \in Ids : log[i].state = s /\ log[i].len <= log[cur].len
        /\ Within[log[cur].len] \cap graph.goals = {}

(* The first goal is a step beyond the node under expansion.               *)
GoalIsNext ==
    UnitBfs /\ Found =>
        log[goalNodes[1]].len = IF cur = 0 THEN 0 ELSE log[cur].len + 1

(* The way back has a state for every unit of the goal's length.           *)
TrailCounts ==
    UnitBfs =>
        /\ phase = "backtrace" => log[goalNodes[1]].len = log[walk].len + Len(trail)
        /\ phase = "done" /\ Found => Len(trail) = log[goalNodes[1]].len + 1

SetHasNodes == db \subseteq KnownStates

ShortInv ==
    /\ BlindInv
    /\ LayersAreLengths
    /\ NearAreKnown
    /\ GoalIsNext
    /\ TrailCounts
    /\ SetHasNodes

LEMMA ShortTypes ==
    ASSUME ShortInv
    PROVE  /\ TypeOK /\ PathInv /\ LogIsTree /\ GoalsAside /\ NothingSkipped /\ RootFirst
           /\ graph \in GraphType /\ InitState \in States
           /\ \A i \in Ids : i \in Nat /\ log[i].len \in Nat /\ log[i].state \in States
           /\ cur \in Ids \cup {0} /\ goalNodes \in Seq(Ids)
           /\ 1 \in Ids => log[1].state = InitState /\ log[1].len = 0 /\ log[1].parent = 1
<1>1. TypeOK /\ PathInv /\ LogIsTree /\ GoalsAside /\ NothingSkipped /\ RootFirst
  BY DEF ShortInv, BlindInv, SearchInv, PathInv
<1>2. ASSUME NEW i \in Ids PROVE i \in Nat /\ log[i].len \in Nat /\ log[i].state \in States
  <2>1. log[i] \in NodeType /\ i \in Nat
    BY <1>1 DEF TypeOK, Ids
  <2> QED
    BY <2>1 DEF NodeType
<1>3. ASSUME 1 \in Ids
      PROVE  log[1].state = InitState /\ log[1].len = 0 /\ log[1].parent = 1
  <2>1. log[1] = Node(InitState, 1, 0)
    BY <1>1, <1>3 DEF LogIsTree
  <2> QED
    BY <2>1 DEF Node
<1> QED
  BY <1>1, <1>2, <1>3, EngineAssumption DEF TypeOK, EngineAssumption

(* No queued node is nearer than the one taken.                            *)
LEMMA NearestTaken ==
    ASSUME BlindInv, LayersAreLengths, Dequeue, graph.cmp \in {"bfs", "dfs"}
    PROVE  \A m \in QueuedIds : log[cur'].len <= log[m].len
<1> DEFINE b == BestPriority(queue)
<1>1. QueueType(queue, Ids) /\ DOMAIN queue # {} /\ cur' = Top(queue)
  BY DEF BlindInv, SearchInv, PathInv, TypeOK, Dequeue, LoopEnds, QueueEmpty
<1>2. b \in DOMAIN queue /\ \A p \in DOMAIN queue : b <= p
  BY <1>1, BestIsLayer
<1>3. cur' = Head(queue[b])
  BY <1>1 DEF Top
<1> HIDE DEF b
<1>4. queue[b] \in Seq(Ids) /\ queue[b] # << >>
  BY <1>1, <1>2 DEF QueueType
<1>5. 1 \in 1..Len(queue[b]) /\ cur' = queue[b][1]
  BY <1>3, <1>4
<1>6. log[cur'].len = b
  BY <1>2, <1>5 DEF LayersAreLengths
<1> QED
  BY <1>2, <1>6 DEF LayersAreLengths, QueuedIds, Members

(* A state no farther than the node taken was learned from one no farther  *)
(* than the node before, which has been expanded.                          *)
LEMMA DequeueKeepsNear ==
    ASSUME ShortInv, Dequeue
    PROVE  NearAreKnown'
<1> SUFFICES ASSUME UnitBfs PROVE NearAreKnown'
  BY DEF NearAreKnown, UnitBfs, Dequeue
<1>1. /\ ~ Found /\ todo = {} /\ cur' = Top(queue) /\ UNCHANGED <<graph, log, db>>
      /\ DOMAIN queue # {} /\ QueueType(queue, Ids)
  BY ShortTypes DEF Dequeue, LoopEnds, QueueEmpty, Found, TypeOK
<1>2. cur' \in Ids /\ Ids' = Ids /\ Within' = Within
  BY <1>1, PopMembers DEF Ids, Within
<1>3. \A i \in Ids : log[i].state \notin graph.goals
  BY <1>1, ShortTypes DEF GoalsAside
<1> SUFFICES /\ \A i \in Ids : log[i].len <= log[cur'].len + 1
             /\ \A s \in Within[log[cur'].len] :
                   \E i \in Ids : log[i].state = s /\ log[i].len <= log[cur'].len
  BY <1>1, <1>2, <1>3 DEF NearAreKnown
<1>4. CASE cur = 0
  <2>1. Ids = {1} /\ cur' = 1 /\ log[1].state = InitState /\ log[1].len = 0
    <3>1. Len(log) <= 1 /\ Len(log) \in Nat
      BY <1>4, ShortTypes DEF RootFirst, TypeOK
    <3>2. cur' \in Ids
      BY <1>2
    <3>3. Len(log) = 1 /\ cur' = 1
      <4>1. \A n \in Ids : n = 1 /\ Len(log) = 1
        BY <3>1 DEF Ids
      <4> QED
        BY <3>2, <4>1
    <3> QED
      BY <3>3, ShortTypes DEF Ids
  <2>2. Within[0] = {InitState}
    BY ShortTypes, WithinSteps
  <2> QED
    BY <2>1, <2>2
<1>5. CASE cur # 0
  <2> DEFINE d == log[cur].len
             near == Within[d]
  <2>1. /\ cur \in Ids /\ d \in Nat /\ log[cur'].len \in Nat
        /\ \A i \in Ids : log[i].len <= d + 1 /\ log[i].len \in Nat
        /\ \A s \in near : \E i \in Ids : log[i].state = s /\ log[i].len <= d
    BY <1>2, <1>5, ShortTypes DEF ShortInv, NearAreKnown
  <2>2. d <= log[cur'].len /\ log[cur'].len <= d + 1
    <3>1. d <= log[cur'].len
      BY <1>5, DequeueKeepsLengths DEF ShortInv, UnitBfs
    <3> QED
      BY <3>1, <2>1, <1>2
  <2>3. \A i \in Ids : log[i].len <= log[cur'].len + 1
    BY <2>1, <2>2
  <2>4. CASE log[cur'].len = d
    BY <2>1, <2>3, <2>4
  <2>5. CASE log[cur'].len = d + 1
    <3>1. Within[d + 1] = near \cup {e[2] : e \in {f \in graph.edges : f[1] \in near}}
      BY <2>1, ShortTypes, WithinSteps
    <3>2. ASSUME NEW s \in Within[d + 1]
          PROVE  \E i \in Ids : log[i].state = s /\ log[i].len <= d + 1
      <4>1. CASE s \in near
        <5>1. PICK i \in Ids : log[i].state = s /\ log[i].len <= d
          BY <4>1, <2>1
        <5> QED
          BY <5>1, <2>1
      <4>2. CASE s \notin near
        <5>1. PICK e \in graph.edges : e[1] \in near /\ e[2] = s
          BY <3>1, <3>2, <4>2
        <5>2. PICK i \in Ids : log[i].state = e[1] /\ log[i].len <= d
          BY <5>1, <2>1
        <5>3. i \notin QueuedIds
          <6>1. ASSUME i \in QueuedIds PROVE FALSE
            <7>1. log[cur'].len <= log[i].len
              BY <6>1, NearestTaken DEF ShortInv, UnitBfs
            <7> QED
              BY <7>1, <5>2, <2>1, <2>5
          <6> QED
            BY <6>1
        <5>4. e[2] \in db
          BY <5>1, <5>2, <5>3, <1>1, <1>3, ShortTypes DEF NothingSkipped, OutEdges
        <5>5. PICK j \in Ids : log[j].state = s
          BY <5>1, <5>4 DEF ShortInv, SetHasNodes, KnownStates
        <5> QED
          BY <5>5, <2>1
      <4> QED
        BY <4>1, <4>2
    <3> QED
      BY <2>3, <2>5, <3>2
  <2> QED
    BY <2>1, <2>2, <2>4, <2>5
<1> QED
  BY <1>4, <1>5

(* The node of a successor is a step farther than the node expanded.       *)
LEMMA GenerateKeepsNear ==
    ASSUME ShortInv, NEW e \in todo, BlindGenerate(e)
    PROVE  NearAreKnown' /\ GoalIsNext' /\ SetHasNodes'
<1> DEFINE node == Node(e[2], cur, log[cur].len + e[3])
           id == Len(log) + 1
<1>1. /\ TypeOK /\ cur \in Ids /\ cur \in Nat \ {0} /\ e \in graph.edges
      /\ log[cur].len \in Nat /\ e[3] \in Nat /\ e[2] \in States /\ node \in NodeType
  BY ShortTypes, EdgeType DEF PathInv
<1>2. cur' = cur /\ graph' = graph /\ Within' = Within
  BY DEF BlindGenerate, Within
<1>3. node.len = log[cur].len + e[3] /\ node.state = e[2] /\ node.len \in Nat
  BY <1>1 DEF Node
<1>4. CASE e[2] \in db
  BY <1>2, <1>4 DEF BlindGenerate, ShortInv, NearAreKnown, GoalIsNext, SetHasNodes, UnitBfs,
                    Found, KnownStates, Ids
<1>5. CASE e[2] \notin db
  <2>1. CreateNode(node) /\ Enqueue(node, Priority(node.len, 0)) /\ db' = db \cup {e[2]}
    BY <1>5 DEF BlindGenerate
  <2> HIDE DEF node
  <2>2. /\ Ids' = Ids \cup {id} /\ id \notin Ids
        /\ \A i \in Ids : log'[i] = log[i]
        /\ log'[id] = node
        /\ KnownStates' = KnownStates \cup {node.state}
    BY <1>1, <2>1, LogGrows
  <2>3. SetHasNodes'
    BY <1>3, <2>1, <2>2 DEF ShortInv, SetHasNodes
  <2>4. ASSUME UnitBfs PROVE node.len = log[cur].len + 1
    BY <2>4, <1>1, <1>3 DEF UnitBfs
  <2>5. NearAreKnown'
    <3> SUFFICES ASSUME UnitBfs
                 PROVE  /\ \A i \in Ids' : log'[i].len <= log'[cur].len + 1
                        /\ \A s \in Within[log'[cur].len] :
                              \E i \in Ids' : log'[i].state = s /\ log'[i].len <= log'[cur].len
                        /\ Within[log'[cur].len] \cap graph.goals = {}
      BY <1>2 DEF NearAreKnown, UnitBfs
    <3>1. log'[cur] = log[cur] /\ cur # 0
      BY <1>1, <2>2
    <3>2. /\ \A i \in Ids : log[i].len <= log[cur].len + 1
          /\ \A s \in Within[log[cur].len] :
                \E i \in Ids : log[i].state = s /\ log[i].len <= log[cur].len
          /\ Within[log[cur].len] \cap graph.goals = {}
      BY <3>1 DEF ShortInv, NearAreKnown
    <3>3. \A i \in Ids' : log'[i].len <= log'[cur].len + 1
      BY <3>1, <3>2, <2>2, <2>4, <1>1
    <3> QED
      BY <3>1, <3>2, <3>3, <2>2
  <2>6. GoalIsNext'
    <3> SUFFICES ASSUME UnitBfs, Found'
                 PROVE  log'[goalNodes'[1]].len = log[cur].len + 1
      BY <1>1, <1>2, <2>2 DEF GoalIsNext, UnitBfs
    <3>1. goalNodes \in Seq(Ids)
      BY ShortTypes
    <3>2. CASE Found
      <4>1. goalNodes[1] \in Ids /\ goalNodes'[1] = goalNodes[1]
        <5>1. goalNodes # << >> /\ (goalNodes' = goalNodes \/ goalNodes' = Append(goalNodes, id))
          BY <3>2, <2>1 DEF Found, Enqueue
        <5> QED
          BY <3>1, <5>1
      <4>2. log[goalNodes[1]].len = log[cur].len + 1
        BY <3>2, <1>1 DEF ShortInv, GoalIsNext
      <4> QED
        BY <4>1, <4>2, <2>2
    <3>3. CASE ~ Found
      <4>1. goalNodes = << >> /\ goalNodes' = Append(goalNodes, id)
        BY <3>3, <2>1 DEF Found, Enqueue
      <4>2. goalNodes'[1] = id
        BY <4>1
      <4> QED
        BY <4>2, <2>2, <2>4
    <3> QED
      BY <3>2, <3>3
  <2> QED
    BY <2>3, <2>5, <2>6
<1> QED
  BY <1>4, <1>5

LEMMA StartKeepsNear ==
    ASSUME ShortInv, BlindStart
    PROVE  NearAreKnown' /\ GoalIsNext' /\ SetHasNodes'
<1> DEFINE root == Node(InitState, 1, 0)
<1>1. /\ log = << >> /\ db = {} /\ TypeOK /\ GoalsAside /\ cur = 0 /\ goalNodes = << >>
  <2>1. log = << >> /\ db = {} /\ TypeOK /\ GoalsAside
    BY ShortTypes DEF PathInv, RootLogged, BlindStart
  <2>2. Ids = {}
    BY <2>1 DEF Ids
  <2> QED
    BY <2>1, <2>2, ShortTypes
<1>2. CreateNode(root) /\ Enqueue(root, Priority(0, 0)) /\ UNCHANGED <<graph, cur, db>>
  BY DEF BlindStart
<1>3. root \in NodeType /\ root.len = 0
  BY ShortTypes DEF Node, NodeType
<1> HIDE DEF root
<1>4. Len(log) = 0 /\ log'[1] = root
  <2>1. Len(log) = 0
    BY <1>1
  <2> QED
    BY <2>1, <1>1, <1>2, <1>3, LogGrows
<1>5. ASSUME Found' PROVE log'[goalNodes'[1]].len = 0
  <2>1. goalNodes' = Append(goalNodes, 1)
    BY <1>1, <1>2, <1>4, <1>5 DEF Enqueue, Found
  <2>2. goalNodes'[1] = 1
    BY <2>1, <1>1
  <2> QED
    BY <2>2, <1>3, <1>4
<1> QED
  BY <1>1, <1>2, <1>5 DEF NearAreKnown, GoalIsNext, SetHasNodes

LEMMA FinalizeCounts ==
    ASSUME ShortInv, Finalize
    PROVE  TrailCounts'
<1>1. trail = << >> /\ UNCHANGED <<graph, log, goalNodes, trail>>
  BY ShortTypes DEF Finalize, PathInv, TrailLeads
<1>2. ASSUME phase' = "backtrace" PROVE log[goalNodes[1]].len = log[walk'].len + Len(trail)
  <2>1. goalNodes # << >> /\ walk' = goalNodes[1]
    BY <1>2 DEF Finalize
  <2>2. goalNodes[1] \in Ids
    BY <2>1, ShortTypes
  <2>3. log[goalNodes[1]].len \in Nat /\ Len(trail) = 0
    BY <2>2, <1>1, ShortTypes
  <2> QED
    BY <2>1, <2>3
<1>3. phase' = "done" => ~ Found'
  BY <1>1 DEF Finalize, Found
<1> QED
  BY <1>1, <1>2, <1>3 DEF TrailCounts

(* A link to the parent takes one from the length, and adds a state.       *)
LEMMA BacktraceCounts ==
    ASSUME ShortInv, BacktraceStep
    PROVE  TrailCounts'
<1> SUFFICES ASSUME UnitBfs PROVE TrailCounts'
  BY DEF TrailCounts, UnitBfs, BacktraceStep
<1>1. /\ walk \in Ids /\ trail \in Seq(States) /\ phase = "backtrace"
      /\ log[goalNodes[1]].len = log[walk].len + Len(trail)
      /\ log[walk].state \in States /\ log[walk].len \in Nat
      /\ UNCHANGED <<graph, log, goalNodes>>
  BY ShortTypes DEF BacktraceStep, PathInv, TrailLeads, ShortInv, TrailCounts, TypeOK
<1>2. Len(trail') = Len(trail) + 1 /\ Len(trail) \in Nat
  BY <1>1 DEF BacktraceStep
<1>3. CASE log[walk].parent = walk
  <2>1. walk = 1 /\ phase' = "done"
    BY <1>1, <1>3, ShortTypes, OnlyRootIsOwnParent DEF BacktraceStep
  <2>2. log[walk].len = 0
    BY <2>1, <1>1, ShortTypes
  <2> QED
    BY <1>1, <1>2, <2>1, <2>2 DEF TrailCounts
<1>4. CASE log[walk].parent # walk
  <2>1. log[walk].parent \in Ids /\ walk # 1
    BY <1>1, <1>4, ShortTypes, OnlyRootIsOwnParent
  <2>2. <<log[log[walk].parent].state, log[walk].state,
          log[walk].len - log[log[walk].parent].len>> \in graph.edges
    BY <1>1, <2>1, ShortTypes DEF LogIsTree
  <2>3. log[walk].len - log[log[walk].parent].len = 1
    <3> DEFINE e == <<log[log[walk].parent].state, log[walk].state,
                      log[walk].len - log[log[walk].parent].len>>
    <3>1. e[3] = 1
      BY <2>2 DEF UnitBfs
    <3> QED
      BY <3>1
  <2>4. log[log[walk].parent].len \in Nat
    BY <2>1, ShortTypes
  <2>5. walk' = log[walk].parent /\ phase' = "backtrace"
    BY <1>4 DEF BacktraceStep
  <2> QED
    BY <1>1, <1>2, <2>3, <2>4, <2>5 DEF TrailCounts
<1> QED
  BY <1>3, <1>4

LEMMA ShortStep == ShortInv /\ [BlindNext]_vars => ShortInv'
<1> SUFFICES ASSUME ShortInv, [BlindNext]_vars
             PROVE  NearAreKnown' /\ GoalIsNext' /\ TrailCounts' /\ SetHasNodes'
  BY BlindStep, LengthsStep DEF ShortInv
<1>1. CASE BlindStart
  <2>1. TrailCounts'
    BY <1>1 DEF BlindStart, TrailCounts
  <2> QED
    BY <1>1, <2>1, StartKeepsNear
<1>2. ASSUME NEW e \in todo, BlindGenerate(e)
      PROVE  NearAreKnown' /\ GoalIsNext' /\ TrailCounts' /\ SetHasNodes'
  <2>1. TrailCounts'
    BY <1>2 DEF BlindGenerate, TrailCounts
  <2> QED
    BY <1>2, <2>1, GenerateKeepsNear
<1>3. CASE Dequeue
  <2>1. /\ ~ Found' /\ phase' = "search" /\ SetHasNodes'
    BY <1>3 DEF Dequeue, LoopEnds, Found, ShortInv, SetHasNodes, KnownStates, Ids
  <2>2. GoalIsNext' /\ TrailCounts'
    BY <2>1 DEF GoalIsNext, TrailCounts
  <2> QED
    BY <1>3, <2>1, <2>2, DequeueKeepsNear
<1>4. CASE Finalize \/ BacktraceStep \/ Returned \/ UNCHANGED vars
  <2>1. UNCHANGED <<graph, log, db, cur, goalNodes>>
    BY <1>4 DEF Finalize, BacktraceStep, Returned, vars
  <2>2. Ids' = Ids /\ Within' = Within /\ UnitBfs' = UnitBfs /\ Found' = Found
    BY <2>1 DEF Ids, Within, UnitBfs, Found
  <2>3. NearAreKnown' /\ GoalIsNext' /\ SetHasNodes'
    BY <2>1, <2>2 DEF ShortInv, NearAreKnown, GoalIsNext, SetHasNodes, KnownStates
  <2>4. TrailCounts'
    <3>1. CASE Finalize
      BY <3>1, FinalizeCounts
    <3>2. CASE BacktraceStep
      BY <3>2, BacktraceCounts
    <3>3. CASE Returned \/ UNCHANGED vars
      BY <3>3, <2>2 DEF Returned, vars, ShortInv, TrailCounts
    <3> QED
      BY <1>4, <3>1, <3>2, <3>3
  <2> QED
    BY <2>3, <2>4
<1> QED
  BY <1>1, <1>2, <1>3, <1>4 DEF BlindNext

LEMMA ShortFollows == ShortInv => ShortestAtCostOne
<1> SUFFICES ASSUME ShortInv, UnitBfs, phase = "done", Found, Len(trail) # 1
             PROVE  Within[Len(trail) - 2] \cap graph.goals = {}
  BY DEF ShortestAtCostOne, PlanIsShortest, UnitBfs
<1>1. Len(trail) = log[goalNodes[1]].len + 1
  BY DEF ShortInv, TrailCounts
<1>2. cur # 0 /\ log[goalNodes[1]].len = log[cur].len + 1
  BY <1>1 DEF ShortInv, GoalIsNext
<1>3. log[cur].len \in Nat
  BY <1>2, ShortTypes
<1>4. Len(trail) - 2 = log[cur].len
  BY <1>1, <1>2, <1>3
<1> QED
  BY <1>2, <1>4 DEF ShortInv, NearAreKnown

(* Breadth first search over edges of cost 1 returns a plan with as few    *)
(* steps as any plan has, though it stops at the first goal generated      *)
(* (bfs_engine.h, serial_engine.h).                                        *)
THEOREM BlindShortest == BlindSpec => []ShortestAtCostOne
<1>1. EngineInit => BlindInv
  BY InitInv DEF EngineInit, BlindInv, RootFirst, BlindLoggedOnce, Ids, NoLayers
<1>2. EngineInit => ShortInv
  BY <1>1 DEF EngineInit, ShortInv, LayersAreLengths, NoLayers, NearAreKnown,
              GoalIsNext, TrailCounts, SetHasNodes, Found
<1> QED
  BY <1>2, ShortStep, ShortFollows, PTL DEF BlindSpec

LEMMA BlindRefines ==
    ASSUME BlindInv, TrailIsNew, [BlindNext]_vars,
           \A s \in States : graph.h[s] # Infinite
    PROVE  [Abstract!Next]_(Abstract!vars)
<1>0. /\ PathInv /\ SearchInv /\ TypeOK /\ TodoIsOut /\ ParentsAreFirst
      /\ graph \in GraphType /\ InitState \in States
  BY BlindParents, EngineAssumption DEF BlindInv, SearchInv, PathInv, TypeOK, EngineAssumption
<1>1. CASE BlindStart
  <2>1. /\ Node(InitState, 1, 0) \in NodeType /\ Node(InitState, 1, 0).state = InitState
        /\ CreateNode(Node(InitState, 1, 0)) /\ UNCHANGED graph
        /\ phase # "done" /\ phase' # "done"
    BY <1>0, <1>1 DEF BlindStart, Node, NodeType
  <2> QED
    BY <2>1, <1>0, LogRefines
<1>2. ASSUME NEW e \in todo, BlindGenerate(e) PROVE [Abstract!Next]_(Abstract!vars)
  <2> DEFINE node == Node(e[2], cur, log[cur].len + e[3])
  <2>0. phase = "search" /\ phase' = "search" /\ UNCHANGED graph
    BY <1>2 DEF BlindGenerate
  <2>1. CASE e[2] \in db
    BY <1>2, <2>0, <2>1, InternalRefines DEF BlindGenerate
  <2>2. CASE e[2] \notin db
    <3>1. /\ log[cur].len \in Nat /\ e[3] \in Nat /\ e[2] \in States
          /\ cur \in Ids /\ e[1] = log[cur].state /\ e \in graph.edges
      BY <1>0, EdgeType DEF TodoIsOut, TypeOK
    <3>2. cur \in Nat \ {0}
      BY <3>1 DEF Ids
    <3>3. node \in NodeType /\ node.state = e[2]
      BY <3>1, <3>2 DEF Node, NodeType
    <3>4. CreateNode(node)
      BY <1>2, <2>2 DEF BlindGenerate
    <3>5. log[cur].state \in KnownStates /\ IsEdge(log[cur].state, e[2])
      BY <3>1 DEF KnownStates, IsEdge
    <3>6. graph.h[e[2]] # Infinite
      BY <3>1
    <3> HIDE DEF node
    <3> QED
      BY <2>0, <3>3, <3>4, <3>5, <3>6, <1>0, LogRefines
  <2> QED
    BY <2>1, <2>2
<1>3. CASE Dequeue
  BY <1>3, InternalRefines DEF Dequeue
<1>4. CASE Finalize
  BY <1>0, <1>4, FinalizeRefines
<1>5. CASE BacktraceStep
  BY <1>0, <1>5, BacktraceRefines
<1>6. CASE Returned \/ UNCHANGED vars
  BY <1>6, StutterRefines DEF Returned
<1> QED
  BY <1>1, <1>2, <1>3, <1>4, <1>5, <1>6 DEF BlindNext

(* The blind engines are graph searches, over graphs of which nobody says  *)
(* that a state is a dead end: they ask no heuristic (serial_engine.h,     *)
(* blind_engine).                                                          *)
THEOREM BlindIsGraphSearch ==
    ASSUME \A g \in Graphs : \A s \in States : g.h[s] # Infinite
    PROVE  BlindSpec => RefinesGraphSearch
<1> DEFINE Live == \A s \in States : graph.h[s] # Infinite
<1>1. EngineInit => TrailIsNew /\ Live
  BY DEF EngineInit, TrailIsNew
<1>2. Live /\ [BlindNext]_vars => Live'
  BY DEF BlindNext, BlindStart, Dequeue, BlindGenerate, Finalize, BacktraceStep, Returned, vars
<1>3. EngineInit => Abstract!Init
  BY InitRefines DEF EngineInit
<1>4. BlindInv /\ TrailIsNew /\ Live /\ [BlindNext]_vars => [Abstract!Next]_(Abstract!vars)
  BY BlindRefines
<1> HIDE DEF Live
<1> QED
  BY <1>1, <1>2, <1>3, <1>4, BlindTrailStep, BlindNodes, PTL
     DEF BlindSpec, RefinesGraphSearch, Abstract!Spec

-----------------------------------------------------------------------------
(* The heuristic engines. *)

(* Every step of the engine keeps the invariant of its search.             *)
LEMMA HeuristicSearchStep == SearchInv /\ [HeuristicNext]_vars => SearchInv'
<1> SUFFICES ASSUME SearchInv, [HeuristicNext]_vars PROVE SearchInv'
  OBVIOUS
<1>0. graph \in GraphType /\ graph.h \in [States -> Nat] /\ InitState \in States
  BY EngineAssumption DEF SearchInv, PathInv, TypeOK, GraphType, EngineAssumption
<1>1. CASE HeuristicStart
  <2>1. Priority(0, graph.h[InitState]) \in Nat
    BY <1>0, PriorityType
  <2> QED
    BY <1>1, <2>1, RootKeeps DEF HeuristicStart, SearchInv
<1>2. ASSUME NEW e \in todo, HeuristicGenerate(e) PROVE SearchInv'
  <2>1. /\ log[cur].len + e[3] \in Nat /\ e[2] \in States
        /\ Node(e[2], cur, log[cur].len + e[3]).len = log[cur].len + e[3]
    <3>1. TypeOK /\ TodoIsOut
      BY DEF SearchInv, PathInv
    <3>2. log[cur].len \in Nat /\ e[3] \in Nat /\ e[2] \in States
      BY <3>1, EdgeType
    <3> QED
      BY <3>2 DEF Node
  <2>2. CASE e[2] \in db \/ graph.h[e[2]] = Infinite
    BY <1>2, <2>2, SkipKeeps DEF HeuristicGenerate, SearchInv
  <2>3. CASE ~ (e[2] \in db \/ graph.h[e[2]] = Infinite)
    <3>1. Priority(log[cur].len + e[3], graph.h[e[2]]) \in Nat
      BY <1>0, <2>1, PriorityType
    <3> QED
      BY <1>2, <2>1, <2>3, <3>1, GenerateKeeps DEF HeuristicGenerate, SearchInv
  <2> QED
    BY <2>2, <2>3
<1>3. CASE Dequeue
  BY <1>3, DequeueKeeps DEF SearchInv
<1>4. CASE Finalize
  BY <1>4, FinalizeKeeps DEF SearchInv
<1>5. CASE BacktraceStep
  BY <1>5, BacktraceKeeps DEF SearchInv
<1>6. CASE Returned \/ UNCHANGED vars
  BY <1>6, StutterKeeps DEF Returned, SearchInv
<1> QED
  BY <1>1, <1>2, <1>3, <1>4, <1>5, <1>6 DEF HeuristicNext

THEOREM HeuristicInvariant == HeuristicSpec => []SearchInv
BY InitInv, HeuristicSearchStep, PTL DEF HeuristicSpec, EngineInit

(* Every variable keeps its type (queued_engine.h, search_database.h).     *)
THEOREM HeuristicTypeOK == HeuristicSpec => []TypeOK
BY HeuristicInvariant, PTL DEF SearchInv, PathInv

(* A plan returned is a path of the graph from the initial state to a goal *)
(* (search_engine_base.h, backtrace_path).                                 *)
THEOREM HeuristicPlanIsSound == HeuristicSpec => []PlanIsSound
BY HeuristicInvariant, PTL DEF SearchInv, PathInv, TrailLeads

(* When no plan is returned, none exists (the loops of serial_engine.h).   *)
THEOREM HeuristicFailureIsExhaustive == HeuristicSpec => []FailureIsExhaustive
BY HeuristicInvariant, FailureFollows, PTL

(* A successor is logged only when it was not in the state set.            *)
NodesDiffer == \A i, j \in Ids : log[i].state = log[j].state => i = j

HeuristicLoggedOnce == NodesDiffer /\ \A i \in Ids : log[i].state \in db

LEMMA HeuristicOrderStep ==
    SearchInv /\ OrderInv /\ HeuristicLoggedOnce /\ [HeuristicNext]_vars
        => OrderInv' /\ HeuristicLoggedOnce'
<1> SUFFICES ASSUME SearchInv, OrderInv, HeuristicLoggedOnce, [HeuristicNext]_vars
             PROVE  OrderInv' /\ HeuristicLoggedOnce'
  OBVIOUS
<1>0. /\ TypeOK /\ TodoIsOut /\ RootLogged /\ graph \in GraphType
      /\ graph.h \in [States -> Nat] /\ InitState \in States
  BY EngineAssumption DEF SearchInv, PathInv, TypeOK, GraphType, EngineAssumption
<1>1. CASE HeuristicStart
  <2> DEFINE root == Node(InitState, 1, 0)
             prio == Priority(0, graph.h[InitState])
  <2>1. /\ root \in NodeType /\ root.state = InitState /\ prio \in Nat
        /\ log = << >> /\ db' = {InitState}
        /\ CreateNode(root) /\ Enqueue(root, prio) /\ UNCHANGED graph
    <3>1. graph.h[InitState] \in Nat /\ 0 \in Nat
      BY <1>0
    <3>2. prio \in Nat
      BY <1>0, <3>1, PriorityType
    <3>3. root \in NodeType /\ root.state = InitState
      BY <1>0 DEF Node, NodeType
    <3> QED
      BY <1>0, <1>1, <3>2, <3>3 DEF HeuristicStart, RootLogged
  <2> HIDE DEF root, prio
  <2>2. Ids = {} /\ Len(log) = 0
    BY <2>1 DEF Ids
  <2>3. Ids' = {1} /\ log'[1].state = InitState
    BY <2>1, <2>2, <1>0, LogGrows
  <2> QED
    BY <2>1, <2>3, <1>0, EnqueueKeepsOrder DEF HeuristicLoggedOnce, NodesDiffer
<1>2. ASSUME NEW e \in todo, HeuristicGenerate(e) PROVE OrderInv' /\ HeuristicLoggedOnce'
  <2> DEFINE node == Node(e[2], cur, log[cur].len + e[3])
             prio == Priority(node.len, graph.h[e[2]])
  <2>1. CASE e[2] \in db \/ graph.h[e[2]] = Infinite
    BY <1>2, <2>1, OrderStays DEF HeuristicGenerate, HeuristicLoggedOnce, NodesDiffer, Ids
  <2>2. CASE ~ (e[2] \in db \/ graph.h[e[2]] = Infinite)
    <3>1. /\ log[cur].len \in Nat /\ e[3] \in Nat /\ e[2] \in States /\ cur \in Ids
      BY <1>0, EdgeType DEF TodoIsOut
    <3>2. cur \in Nat \ {0}
      BY <3>1 DEF Ids
    <3>3. node \in NodeType /\ node.state = e[2] /\ node.len \in Nat
      BY <3>1, <3>2 DEF Node, NodeType
    <3>4. prio \in Nat
      BY <1>0, <3>1, <3>3, PriorityType
    <3>5. /\ CreateNode(node) /\ Enqueue(node, prio) /\ UNCHANGED graph
          /\ db' = db \cup {e[2]}
      BY <1>2, <2>2 DEF HeuristicGenerate
    <3> HIDE DEF node, prio
    <3>6. /\ Ids' = Ids \cup {Len(log) + 1} /\ Len(log) + 1 \notin Ids
          /\ \A i \in Ids : log'[i] = log[i]
          /\ log'[Len(log) + 1].state = e[2]
      BY <3>3, <3>5, <1>0, LogGrows
    <3>7. HeuristicLoggedOnce'
      BY <3>5, <3>6, <2>2 DEF HeuristicLoggedOnce, NodesDiffer
    <3> QED
      BY <3>3, <3>4, <3>5, <3>7, <1>0, EnqueueKeepsOrder
  <2> QED
    BY <2>1, <2>2
<1>3. CASE Dequeue
  BY <1>0, <1>3, DequeueKeepsOrder DEF Dequeue, HeuristicLoggedOnce, NodesDiffer, Ids
<1>4. CASE Finalize \/ BacktraceStep \/ Returned \/ UNCHANGED vars
  <2>1. UNCHANGED <<log, db, queue, best>>
    BY <1>4 DEF Finalize, BacktraceStep, Returned, vars
  <2> QED
    BY <2>1, OrderStays DEF HeuristicLoggedOnce, NodesDiffer, Ids
<1> QED
  BY <1>1, <1>2, <1>3, <1>4 DEF HeuristicNext

THEOREM HeuristicOrder == HeuristicSpec => [](OrderInv /\ HeuristicLoggedOnce)
<1>1. EngineInit => OrderInv /\ HeuristicLoggedOnce
  BY OrderInit DEF EngineInit, HeuristicLoggedOnce, NodesDiffer, Ids
<1> QED
  BY <1>1, HeuristicOrderStep, HeuristicInvariant, PTL DEF HeuristicSpec

(* A state has one node: it is expanded once, by the first path to it      *)
(* (serial_engine.h:85).                                                   *)
THEOREM HeuristicOneNode == HeuristicSpec => []OneNodePerState
<1>1. HeuristicLoggedOnce => OneNodePerState
  BY DEF HeuristicLoggedOnce, NodesDiffer, OneNodePerState, Ids
<1> QED
  BY <1>1, HeuristicOrder, PTL

(* Nodes of equal priority leave in the order they were created            *)
(* (search_queue.h, push and pop_and_call).                                *)
THEOREM HeuristicLayersAreFifo == HeuristicSpec => []LayersAreFifo
BY HeuristicOrder, PTL DEF OrderInv

(* Nothing in the open list is better than the best estimation reported    *)
(* (queued_engine.h, m_bestEstimation).                                    *)
THEOREM HeuristicBestIsLeast == HeuristicSpec => []BestIsLeast
BY HeuristicOrder, PTL DEF OrderInv

(* With one node for a state every node is the first of its state.         *)
LEMMA HeuristicParents == SearchInv /\ HeuristicLoggedOnce => ParentsAreFirst
<1> SUFFICES ASSUME SearchInv, HeuristicLoggedOnce PROVE ParentsAreFirst
  OBVIOUS
<1>1. \A n \in Ids : First(n)
  BY DEF HeuristicLoggedOnce, NodesDiffer, First, Ids
<1>2. \A k \in Ids : log[k].parent \in Ids
  <2>1. TypeOK /\ LogIsTree
    BY DEF SearchInv, PathInv
  <2> QED
    BY <2>1, OnlyRootIsOwnParent
<1>3. Found => goalNodes[1] \in Ids
  <2>1. goalNodes \in Seq(Ids)
    BY DEF SearchInv, PathInv, TypeOK
  <2> QED
    BY <2>1 DEF Found
<1> QED
  BY <1>1, <1>2, <1>3 DEF ParentsAreFirst

LEMMA HeuristicTrailStep ==
    SearchInv /\ HeuristicLoggedOnce /\ TrailIsNew /\ [HeuristicNext]_vars => TrailIsNew'
<1> SUFFICES ASSUME SearchInv, HeuristicLoggedOnce, TrailIsNew, [HeuristicNext]_vars
             PROVE  TrailIsNew'
  OBVIOUS
<1>0. PathInv /\ ParentsAreFirst
  BY HeuristicParents DEF SearchInv
<1>1. CASE Finalize
  BY <1>0, <1>1, FinalizeKeepsTrail
<1>2. CASE BacktraceStep
  BY <1>0, <1>2, BacktraceKeepsTrail
<1>3. CASE HeuristicStart \/ Dequeue \/ \E e \in todo : HeuristicGenerate(e)
  BY <1>3 DEF HeuristicStart, Dequeue, HeuristicGenerate, TrailIsNew
<1>4. CASE Returned \/ UNCHANGED vars
  BY <1>4 DEF Returned, vars, TrailIsNew, First, Ids
<1> QED
  BY <1>1, <1>2, <1>3, <1>4 DEF HeuristicNext

LEMMA HeuristicRefines ==
    SearchInv /\ HeuristicLoggedOnce /\ TrailIsNew /\ [HeuristicNext]_vars
        => [Abstract!Next]_(Abstract!vars)
<1> SUFFICES ASSUME SearchInv, HeuristicLoggedOnce, TrailIsNew, [HeuristicNext]_vars
             PROVE  [Abstract!Next]_(Abstract!vars)
  OBVIOUS
<1>0. /\ PathInv /\ TypeOK /\ TodoIsOut /\ ParentsAreFirst /\ graph \in GraphType
      /\ InitState \in States
  BY HeuristicParents, EngineAssumption DEF SearchInv, PathInv, TypeOK, EngineAssumption
<1>1. CASE HeuristicStart
  <2>1. /\ Node(InitState, 1, 0) \in NodeType /\ Node(InitState, 1, 0).state = InitState
        /\ CreateNode(Node(InitState, 1, 0)) /\ UNCHANGED graph
        /\ phase # "done" /\ phase' # "done"
    BY <1>0, <1>1 DEF HeuristicStart, Node, NodeType
  <2> QED
    BY <2>1, <1>0, LogRefines
<1>2. ASSUME NEW e \in todo, HeuristicGenerate(e) PROVE [Abstract!Next]_(Abstract!vars)
  <2> DEFINE node == Node(e[2], cur, log[cur].len + e[3])
  <2>0. phase = "search" /\ phase' = "search" /\ UNCHANGED graph
    BY <1>2 DEF HeuristicGenerate
  <2>1. CASE e[2] \in db \/ graph.h[e[2]] = Infinite
    BY <1>2, <2>0, <2>1, InternalRefines DEF HeuristicGenerate
  <2>2. CASE ~ (e[2] \in db \/ graph.h[e[2]] = Infinite)
    <3>1. /\ log[cur].len \in Nat /\ e[3] \in Nat /\ e[2] \in States
          /\ cur \in Ids /\ e[1] = log[cur].state /\ e \in graph.edges
      BY <1>0, EdgeType DEF TodoIsOut, TypeOK
    <3>2. cur \in Nat \ {0}
      BY <3>1 DEF Ids
    <3>3. node \in NodeType /\ node.state = e[2]
      BY <3>1, <3>2 DEF Node, NodeType
    <3>4. CreateNode(node)
      BY <1>2, <2>2 DEF HeuristicGenerate
    <3>5. log[cur].state \in KnownStates /\ IsEdge(log[cur].state, e[2])
      BY <3>1 DEF KnownStates, IsEdge
    <3> HIDE DEF node
    <3> QED
      BY <2>0, <2>2, <3>3, <3>4, <3>5, <1>0, LogRefines
  <2> QED
    BY <2>1, <2>2
<1>3. CASE Dequeue
  BY <1>3, InternalRefines DEF Dequeue
<1>4. CASE Finalize
  BY <1>4, FinalizeRefines
<1>5. CASE BacktraceStep
  BY <1>0, <1>5, BacktraceRefines
<1>6. CASE Returned \/ UNCHANGED vars
  BY <1>6, StutterRefines DEF Returned
<1> QED
  BY <1>1, <1>2, <1>3, <1>4, <1>5, <1>6 DEF HeuristicNext

(* A* and greedy search are graph searches: what they answer is what       *)
(* GraphSearch promises, from the states they have come to know            *)
(* (serial_engine.h, heuristic_engine).                                    *)
THEOREM HeuristicIsGraphSearch == HeuristicSpec => RefinesGraphSearch
<1>1. EngineInit => TrailIsNew
  BY DEF EngineInit, TrailIsNew
<1>2. HeuristicSpec => []TrailIsNew
  BY <1>1, HeuristicTrailStep, HeuristicInvariant, HeuristicOrder, PTL DEF HeuristicSpec
<1>3. EngineInit => Abstract!Init
  BY InitRefines DEF EngineInit
<1> QED
  BY <1>2, <1>3, HeuristicRefines, HeuristicInvariant, HeuristicOrder, PTL
     DEF HeuristicSpec, RefinesGraphSearch, Abstract!Spec
=============================================================================
