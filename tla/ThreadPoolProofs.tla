-------------------------- MODULE ThreadPoolProofs --------------------------
(***************************************************************************)
(* Proofs about ThreadPool, for any number of workers and tasks.           *)
(***************************************************************************)
EXTENDS ThreadPool, FiniteSetTheorems, TLAPS

(* The queue holds a task once, and no task that is fresh or finished.     *)
QueueIsClean ==
    /\ \A i, j \in 1..Len(tasks) : tasks[i] = tasks[j] => i = j
    /\ \A i \in 1..Len(tasks) : tasks[i] \notin fresh \cup finished
    /\ fresh \cap finished = {}

(* What the client has seen stays true while it looks at the counter: only *)
(* it fills the queue.                                                     *)
DrainedStaysEmpty == client = "count" => tasks = << >>

(* The inductive invariant.                                                *)
PoolInv ==
    /\ TypeOK
    /\ BusyCountsWorkers
    /\ TaskHasOneHolder
    /\ QueueIsClean
    /\ NoTaskLost
    /\ DrainedStaysEmpty
-----------------------------------------------------------------------------
(* The set the counter stands for: finite, and one worker more or less     *)
(* when that worker counts or uncounts itself.                             *)
LEMMA CountedFinite ==
    IsFiniteSet(Counted) /\ Cardinality(Counted) \in Nat
<1>1. Counted \in SUBSET Workers
  BY DEF Counted
<1>2. IsFiniteSet(Counted)
  BY <1>1, FS_Subset, PoolAssumption DEF PoolAssumption
<1> QED
  BY <1>2, FS_CardinalityType

(* Entering the queue: Append puts the task last and keeps the others.     *)
LEMMA AppendElements ==
    ASSUME NEW S, NEW s \in Seq(S), NEW x \in S
    PROVE  /\ Append(s, x) \in Seq(S)
           /\ Len(Append(s, x)) = Len(s) + 1
           /\ \A i \in 1..Len(s) : Append(s, x)[i] = s[i]
           /\ Append(s, x)[Len(s) + 1] = x
OBVIOUS

(* Leaving the queue: Tail shifts every task but the first by one place.   *)
LEMMA TailElements ==
    ASSUME NEW S, NEW s \in Seq(S), s # << >>
    PROVE  /\ Head(s) \in S /\ Head(s) = s[1]
           /\ Len(s) \in Nat /\ Len(s) >= 1
           /\ Tail(s) \in Seq(S)
           /\ Len(Tail(s)) = Len(s) - 1
           /\ \A i \in 1..Len(Tail(s)) : Tail(s)[i] = s[i + 1]
OBVIOUS
-----------------------------------------------------------------------------
LEMMA PoolInit == Init => PoolInv
<1> SUFFICES ASSUME Init PROVE PoolInv
  OBVIOUS
<1> USE DEF Init
<1>1. TypeOK /\ QueueIsClean /\ NoTaskLost /\ DrainedStaysEmpty
  BY DEF TypeOK, QueueIsClean, NoTaskLost, DrainedStaysEmpty
<1>2. BusyCountsWorkers
  <2>1. Counted = {}
    BY DEF Counted
  <2> QED
    BY <2>1, FS_EmptySet DEF BusyCountsWorkers
<1>3. TaskHasOneHolder
  BY PoolAssumption DEF TaskHasOneHolder, PoolAssumption
<1> QED
  BY <1>1, <1>2, <1>3 DEF PoolInv

LEMMA SubmitKeeps ==
    ASSUME PoolInv, NEW t \in Tasks, Submit(t)
    PROVE  PoolInv'
<1> USE DEF PoolInv, Submit
<1>0. /\ tasks \in Seq(Tasks) /\ tasks' = Append(tasks, t)
      /\ Len(tasks) \in Nat
  BY DEF TypeOK
<1>1. TypeOK'
  BY <1>0, AppendElements DEF TypeOK
<1>2. BusyCountsWorkers'
  BY DEF BusyCountsWorkers, Counted
<1>3. Queued' = Queued \cup {t}
  <2>1. \A i \in 1..Len(tasks)' : i \in 1..Len(tasks) \/ i = Len(tasks) + 1
    BY <1>0, AppendElements
  <2> QED
    BY <1>0, <2>1, AppendElements DEF Queued
<1>4. TaskHasOneHolder'
  BY <1>3 DEF TaskHasOneHolder, TypeOK
<1>5. QueueIsClean'
  <2>1. \A i \in 1..Len(tasks)' : i \in 1..Len(tasks) \/ i = Len(tasks) + 1
    BY <1>0, AppendElements
  <2>2. \A i \in 1..Len(tasks) : tasks'[i] = tasks[i] /\ tasks[i] # t
    BY <1>0, AppendElements DEF QueueIsClean
  <2>3. tasks'[Len(tasks) + 1] = t
    BY <1>0, AppendElements
  <2>4. t \notin fresh' /\ t \notin finished'
    BY DEF QueueIsClean
  <2>5. \A i, j \in 1..Len(tasks)' : tasks'[i] = tasks'[j] => i = j
    BY <2>1, <2>2, <2>3, <1>0 DEF QueueIsClean
  <2>6. \A i \in 1..Len(tasks)' : tasks'[i] \notin fresh' \cup finished'
    BY <2>1, <2>2, <2>3, <2>4 DEF QueueIsClean
  <2> QED
    BY <2>5, <2>6 DEF QueueIsClean
<1>6. NoTaskLost'
  BY <1>3 DEF NoTaskLost
<1>7. DrainedStaysEmpty'
  BY DEF DrainedStaysEmpty
<1> QED
  BY <1>1, <1>2, <1>4, <1>5, <1>6, <1>7

LEMMA TryPopKeeps ==
    ASSUME PoolInv, NEW w \in Workers, TryPop(w)
    PROVE  PoolInv'
<1> USE DEF PoolInv, TryPop
<1>0. /\ tasks \in Seq(Tasks) /\ tasks # << >> /\ tasks' = Tail(tasks)
      /\ Head(tasks) \in Tasks /\ Head(tasks) = tasks[1]
      /\ Len(tasks) \in Nat /\ Len(tasks) >= 1 /\ Len(tasks') = Len(tasks) - 1
      /\ \A i \in 1..Len(tasks') : i + 1 \in 1..Len(tasks) /\ tasks'[i] = tasks[i + 1]
  BY TailElements DEF TypeOK
<1>1. TypeOK'
  BY <1>0, TailElements DEF TypeOK
<1>2. BusyCountsWorkers'
  <2>1. Counted' = Counted
    BY DEF Counted, TypeOK
  <2> QED
    BY <2>1 DEF BusyCountsWorkers
<1>3. Queued = Queued' \cup {Head(tasks)} /\ Head(tasks) \notin Queued'
  <2>1. \A i \in 1..Len(tasks) : i = 1 \/ (i - 1 \in 1..Len(tasks') /\ tasks'[i - 1] = tasks[i])
    BY <1>0
  <2>2. \A i \in 1..Len(tasks') : tasks'[i] # Head(tasks)
    BY <1>0 DEF QueueIsClean
  <2>3. ASSUME NEW x \in Queued PROVE x \in Queued' \cup {Head(tasks)}
    <3>1. PICK i \in 1..Len(tasks) : x = tasks[i]
      BY DEF Queued
    <3>2. CASE i = 1
      BY <3>1, <3>2, <1>0
    <3>3. CASE i - 1 \in 1..Len(tasks') /\ tasks'[i - 1] = tasks[i]
      BY <3>1, <3>3 DEF Queued
    <3> QED
      BY <3>2, <3>3, <2>1
  <2>4. Queued' \subseteq Queued /\ Head(tasks) \in Queued
    BY <1>0 DEF Queued
  <2> QED
    BY <2>2, <2>3, <2>4 DEF Queued
<1>4. Head(tasks) \in Queued /\ Head(tasks) \notin fresh \cup finished /\ Head(tasks) # NoTask
  BY <1>0, <1>3, PoolAssumption DEF QueueIsClean, PoolAssumption
<1>5. TaskHasOneHolder'
  <2>1. \A v \in Workers : held[v] # Head(tasks)
    BY <1>4 DEF TaskHasOneHolder
  <2> QED
    BY <2>1, <1>3, <1>4 DEF TaskHasOneHolder, TypeOK
<1>6. QueueIsClean'
  BY <1>0 DEF QueueIsClean
<1>7. NoTaskLost'
  <2>1. held[w] = NoTask
    BY DEF TaskHasOneHolder
  <2>2. \A v \in Workers : held'[v] = IF v = w THEN Head(tasks) ELSE held[v]
    BY DEF TypeOK
  <2> QED
    BY <2>1, <2>2, <1>3, PoolAssumption DEF NoTaskLost, PoolAssumption
<1>8. DrainedStaysEmpty'
  BY DEF DrainedStaysEmpty
<1> QED
  BY <1>1, <1>2, <1>5, <1>6, <1>7, <1>8

LEMMA CountKeeps ==
    ASSUME PoolInv, NEW w \in Workers, Count(w)
    PROVE  PoolInv'
<1> USE DEF PoolInv, Count
<1>1. TypeOK'
  BY DEF TypeOK
<1>2. BusyCountsWorkers'
  <2>1. Counted' = Counted \cup {w} /\ w \notin Counted
    BY DEF Counted, TypeOK
  <2> QED
    BY <2>1, CountedFinite, FS_AddElement DEF BusyCountsWorkers
<1>3. TaskHasOneHolder'
  BY DEF TaskHasOneHolder, TypeOK, Queued
<1>4. QueueIsClean' /\ NoTaskLost' /\ DrainedStaysEmpty'
  BY DEF QueueIsClean, NoTaskLost, DrainedStaysEmpty, Queued
<1> QED
  BY <1>1, <1>2, <1>3, <1>4

LEMMA CallKeeps ==
    ASSUME PoolInv, NEW w \in Workers, Call(w)
    PROVE  PoolInv'
<1> USE DEF PoolInv, Call
<1>0. held[w] \in Tasks /\ held[w] # NoTask /\ held[w] \notin Queued \cup fresh
  BY DEF TypeOK, TaskHasOneHolder
<1>1. TypeOK'
  BY <1>0 DEF TypeOK
<1>2. BusyCountsWorkers'
  <2>1. Counted' = Counted
    BY DEF Counted, TypeOK
  <2> QED
    BY <2>1 DEF BusyCountsWorkers
<1>3. TaskHasOneHolder'
  <2>1. Queued' = Queued
    BY DEF Queued
  <2>2. \A v \in Workers : held[v] = held[w] => v = w
    BY <1>0 DEF TaskHasOneHolder
  <2>3. \A v \in Workers : at'[v] = IF v = w THEN "ran" ELSE at[v]
    BY DEF TypeOK
  <2> QED
    BY <2>1, <2>2, <2>3, <1>0 DEF TaskHasOneHolder
<1>4. QueueIsClean'
  BY <1>0 DEF QueueIsClean, Queued
<1>5. NoTaskLost' /\ DrainedStaysEmpty'
  BY DEF NoTaskLost, DrainedStaysEmpty, Queued
<1> QED
  BY <1>1, <1>2, <1>3, <1>4, <1>5

LEMMA UncountKeeps ==
    ASSUME PoolInv, NEW w \in Workers, Uncount(w)
    PROVE  PoolInv'
<1> USE DEF PoolInv, Uncount
<1>1. Counted' = Counted \ {w} /\ w \in Counted
  BY DEF Counted, TypeOK
<1>2. BusyCountsWorkers' /\ busy' \in Nat
  <2>1. /\ Cardinality(Counted') = Cardinality(Counted) - 1
        /\ Cardinality(Counted) \in Nat /\ Cardinality(Counted') \in Nat
    <3>1. IsFiniteSet(Counted) /\ Cardinality(Counted) \in Nat
      BY CountedFinite
    <3>2. IsFiniteSet(Counted \ {w}) /\ Cardinality(Counted \ {w}) = Cardinality(Counted) - 1
      BY <3>1, <1>1, FS_RemoveElement
    <3> QED
      BY <3>1, <3>2, <1>1, FS_CardinalityType
  <2> QED
    BY <2>1 DEF BusyCountsWorkers
<1>3. TypeOK'
  BY <1>2 DEF TypeOK
<1>4. \A v \in Workers : /\ held'[v] = IF v = w THEN NoTask ELSE held[v]
                         /\ at'[v] = IF v = w THEN "idle" ELSE at[v]
  BY DEF TypeOK
<1>5. TaskHasOneHolder'
  BY <1>4 DEF TaskHasOneHolder, Queued
<1>6. NoTaskLost'
  <2>1. held[w] \in finished
    BY DEF TaskHasOneHolder, TypeOK
  <2> QED
    BY <2>1, <1>4 DEF NoTaskLost, Queued
<1>7. QueueIsClean' /\ DrainedStaysEmpty'
  BY DEF QueueIsClean, DrainedStaysEmpty
<1> QED
  BY <1>2, <1>3, <1>5, <1>6, <1>7

LEMMA ClientKeeps ==
    ASSUME PoolInv, WaitAll \/ SeeNoTasks \/ SeeNotBusy
    PROVE  PoolInv'
<1> USE DEF PoolInv, WaitAll, SeeNoTasks, SeeNotBusy
<1>1. TypeOK' /\ BusyCountsWorkers'
  BY DEF TypeOK, BusyCountsWorkers, Counted
<1>2. TaskHasOneHolder' /\ NoTaskLost'
  BY DEF TaskHasOneHolder, NoTaskLost, Queued
<1>3. QueueIsClean' /\ DrainedStaysEmpty'
  BY DEF QueueIsClean, DrainedStaysEmpty
<1> QED
  BY <1>1, <1>2, <1>3
-----------------------------------------------------------------------------
(* The invariant holds in every reachable state of the pool.               *)
THEOREM PoolInvariant == Spec => []PoolInv
<1>1. PoolInv /\ [Next]_vars => PoolInv'
  <2> SUFFICES ASSUME PoolInv, [Next]_vars PROVE PoolInv'
    OBVIOUS
  <2>1. CASE \E t \in Tasks : Submit(t)
    BY <2>1, SubmitKeeps
  <2>2. CASE WaitAll \/ SeeNoTasks \/ SeeNotBusy
    BY <2>2, ClientKeeps
  <2>3. ASSUME NEW w \in Workers, WorkerStep(w) PROVE PoolInv'
    BY <2>3, TryPopKeeps, CountKeeps, CallKeeps, UncountKeeps DEF WorkerStep
  <2>4. CASE UNCHANGED vars
    BY <2>4 DEF vars, PoolInv, TypeOK, BusyCountsWorkers, Counted,
                TaskHasOneHolder, QueueIsClean, NoTaskLost, DrainedStaysEmpty, Queued
  <2> QED
    BY <2>1, <2>2, <2>3, <2>4 DEF Next
<1> QED
  BY PoolInit, <1>1, PTL DEF Spec

(* The variables of the pool keep their types; busy never goes below zero. *)
THEOREM PoolTypeOK == Spec => []TypeOK
BY PoolInvariant, PTL DEF PoolInv

(* m_busyCount is the number of workers inside their counted section.      *)
THEOREM PoolBusyCounts == Spec => []BusyCountsWorkers
BY PoolInvariant, PTL DEF PoolInv

(* A task is run by one worker at a time, and by one only.                 *)
THEOREM PoolOneHolder == Spec => []TaskHasOneHolder
BY PoolInvariant, PTL DEF PoolInv

(* No submitted task is lost.                                              *)
THEOREM PoolNoTaskLost == Spec => []NoTaskLost
BY PoolInvariant, PTL DEF PoolInv

(* For any number of workers and tasks, a task that wait_all leaves behind *)
(* lies with a worker between its pop and its increment of the counter.    *)
THEOREM PoolOnlyTheWindow == Spec => OnlyTheWindowEscapes
<1> DEFINE Escapes == \A t \in Unfinished :
                          \E w \in Workers : held[w] = t /\ at[w] = "popped"
<1>1. PoolInv /\ [Next]_vars => [WaitReturns => Escapes]_vars
  <2> SUFFICES ASSUME PoolInv, [Next]_vars, WaitReturns PROVE Escapes
    OBVIOUS
  <2>1. busy = 0
    BY DEF WaitReturns, Next, vars, Submit, WaitAll, SeeNoTasks, SeeNotBusy,
           WorkerStep, TryPop, Count, Call, Uncount
  <2>2. Counted = {}
    BY <2>1, CountedFinite, FS_EmptySet DEF PoolInv, BusyCountsWorkers
  <2>3. Queued = {}
    BY DEF WaitReturns, PoolInv, DrainedStaysEmpty, Queued
  <2>4. ASSUME NEW t \in Unfinished
        PROVE  \E w \in Workers : held[w] = t /\ at[w] = "popped"
    <3>1. t \in Tasks /\ t \notin Queued \cup finished \cup fresh
      BY <2>3, <2>4 DEF Unfinished
    <3>2. PICK w \in Workers : held[w] = t
      BY <3>1 DEF PoolInv, NoTaskLost
    <3>3. at[w] # "idle"
      BY <3>1, <3>2, PoolAssumption DEF PoolInv, TaskHasOneHolder, PoolAssumption
    <3>4. at[w] \notin {"running", "ran"}
      BY <2>2 DEF Counted
    <3> QED
      BY <3>2, <3>3, <3>4 DEF PoolInv, TypeOK
  <2> QED
    BY <2>4
<1> QED
  BY PoolInvariant, <1>1, PTL DEF Spec, OnlyTheWindowEscapes
=============================================================================
