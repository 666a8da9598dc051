----------------------------- MODULE ThreadPool -----------------------------
(***************************************************************************)
(* thread_pool of core/thread_pool.h and the one thread that uses it (the  *)
(* controller of delayed_complex_hashset): it submits a batch of tasks,    *)
(* calls wait_all and goes on to the next batch.  Workers never stop:      *)
(* nothing sets m_finished.  A wait that polls every 200 ms is a guard.    *)
(***************************************************************************)
EXTENDS Naturals, Sequences, FiniteSets

CONSTANTS
    Workers,  \* the threads of the pool
    Tasks,    \* the tasks that may be submitted, each once
    NoTask    \* what a worker holds between two tasks

ASSUME PoolAssumption ==
    /\ IsFiniteSet(Workers)
    /\ NoTask \notin Tasks

VARIABLES
    fresh,     \* tasks not submitted yet
    tasks,     \* m_tasks
    busy,      \* m_busyCount
    at,        \* where each worker is in worker_thread
    held,      \* p_cur_task of each worker
    finished,  \* tasks whose call has returned
    client     \* where the client is: "submit", "drain" or "count"

vars == <<fresh, tasks, busy, at, held, finished, client>>

Init ==
    /\ fresh = Tasks
    /\ tasks = << >>
    /\ busy = 0
    /\ at = [w \in Workers |-> "idle"]
    /\ held = [w \in Workers |-> NoTask]
    /\ finished = {}
    /\ client = "submit"
-----------------------------------------------------------------------------
(* The client. *)

Submit(t) ==
    /\ client = "submit"
    /\ t \in fresh
    /\ fresh' = fresh \ {t}
    /\ tasks' = Append(tasks, t)
    /\ UNCHANGED <<busy, at, held, finished, client>>

(* wait_all: called, out of its first loop, out of its second and back. *)
WaitAll ==
    /\ client = "submit"
    /\ client' = "drain"
    /\ UNCHANGED <<fresh, tasks, busy, at, held, finished>>

(* Faulty variant: the first loop is missing. *)
SkipFirstLoop ==
    /\ client = "drain"
    /\ client' = "count"
    /\ UNCHANGED <<fresh, tasks, busy, at, held, finished>>

SeeNoTasks ==
    /\ client = "drain"
    /\ tasks = << >>
    /\ client' = "count"
    /\ UNCHANGED <<fresh, tasks, busy, at, held, finished>>

SeeNotBusy ==
    /\ client = "count"
    /\ busy = 0
    /\ client' = "submit"
    /\ UNCHANGED <<fresh, tasks, busy, at, held, finished>>
-----------------------------------------------------------------------------
(* A worker: each atomic step of the loop body of worker_thread. *)

(* Faulty variant: the task is read but stays in the queue. *)
PeekTask(w) ==
    /\ at[w] = "idle"
    /\ tasks # << >>
    /\ held' = [held EXCEPT ![w] = Head(tasks)]
    /\ at' = [at EXCEPT ![w] = "popped"]
    /\ UNCHANGED <<fresh, tasks, busy, finished, client>>

TryPop(w) ==
    /\ at[w] = "idle"
    /\ tasks # << >>
    /\ tasks' = Tail(tasks)
    /\ held' = [held EXCEPT ![w] = Head(tasks)]
    /\ at' = [at EXCEPT ![w] = "popped"]
    /\ UNCHANGED <<fresh, busy, finished, client>>

(* Faulty variant: the worker does not count itself. *)
RunUncounted(w) ==
    /\ at[w] = "popped"
    /\ at' = [at EXCEPT ![w] = "running"]
    /\ UNCHANGED <<fresh, tasks, busy, held, finished, client>>

Count(w) ==
    /\ at[w] = "popped"
    /\ busy' = busy + 1
    /\ at' = [at EXCEPT ![w] = "running"]
    /\ UNCHANGED <<fresh, tasks, held, finished, client>>

Call(w) ==
    /\ at[w] = "running"
    /\ finished' = finished \cup {held[w]}
    /\ at' = [at EXCEPT ![w] = "ran"]
    /\ UNCHANGED <<fresh, tasks, busy, held, client>>

(* Faulty variant: the count is not taken back. *)
StayCounted(w) ==
    /\ at[w] = "ran"
    /\ held' = [held EXCEPT ![w] = NoTask]
    /\ at' = [at EXCEPT ![w] = "idle"]
    /\ UNCHANGED <<fresh, tasks, busy, finished, client>>

(* The count is taken back and the task deleted. *)
Uncount(w) ==
    /\ at[w] = "ran"
    /\ busy' = busy - 1
    /\ held' = [held EXCEPT ![w] = NoTask]
    /\ at' = [at EXCEPT ![w] = "idle"]
    /\ UNCHANGED <<fresh, tasks, finished, client>>

WorkerStep(w) == TryPop(w) \/ Count(w) \/ Call(w) \/ Uncount(w)

Next ==
    \/ \E t \in Tasks : Submit(t)
    \/ WaitAll
    \/ SeeNoTasks
    \/ SeeNotBusy
    \/ \E w \in Workers : WorkerStep(w)

Spec == Init /\ [][Next]_vars

(* Every worker runs on its own thread; the client polls until it is out   *)
(* of its loops.  Nothing obliges it to submit or to wait.                 *)
FairSpec ==
    /\ Spec
    /\ \A w \in Workers : WF_vars(WorkerStep(w))
    /\ WF_vars(SeeNoTasks)
    /\ WF_vars(SeeNotBusy)
-----------------------------------------------------------------------------
Queued == {tasks[i] : i \in 1..Len(tasks)}

Counted == {w \in Workers : at[w] \in {"running", "ran"}}

TypeOK ==
    /\ fresh \subseteq Tasks
    /\ tasks \in Seq(Tasks)
    /\ busy \in Nat
    /\ at \in [Workers -> {"idle", "popped", "running", "ran"}]
    /\ held \in [Workers -> Tasks \cup {NoTask}]
    /\ finished \subseteq Tasks
    /\ client \in {"submit", "drain", "count"}

(* The counter wait_all polls is the number of workers between its         *)
(* increment and its decrement (thread_pool.h:22-24): never off, never     *)
(* below zero, however the workers interleave.                             *)
BusyCountsWorkers == busy = Cardinality(Counted)

(* A worker holds a task while it is not idle, and never the task another  *)
(* worker holds or the queue still has: no task runs twice, none is freed  *)
(* under a worker that still runs it (thread_pool.h:20, 25).               *)
TaskHasOneHolder ==
    \A w \in Workers :
        /\ at[w] = "idle" <=> held[w] = NoTask
        /\ held[w] # NoTask =>
              /\ held[w] \notin Queued \cup fresh
              /\ held[w] \in finished <=> at[w] = "ran"
              /\ \A v \in Workers : held[v] = held[w] => v = w

(* No task is lost: what was submitted is queued, with a worker or done.   *)
NoTaskLost ==
    \A t \in Tasks : t \notin fresh =>
        t \in Queued \cup finished \cup {held[w] : w \in Workers}

Unfinished == Tasks \ (fresh \cup finished)

WaitReturns == client = "count" /\ client' = "submit"

(* wait_all returns when every submitted task is done, or lies with a      *)
(* worker that has popped it and not yet counted itself busy: that window  *)
(* is the only way to escape it (thread_pool.h:20-22 against :47-50).      *)
OnlyTheWindowEscapes ==
    [][WaitReturns => \A t \in Unfinished :
          \E w \in Workers : held[w] = t /\ at[w] = "popped"]_vars

(* What the comment at its call says of wait_all: when it returns, every   *)
(* task submitted has finished (delayed_complex_hashset.h:487).            *)
WaitAllWaits == [][WaitReturns => Unfinished = {}]_vars

(* A task submitted is run to its end, whichever worker gets it: one that  *)
(* is popped is never dropped (thread_pool.h:15-30).                       *)
EveryTaskRuns == \A t \in Tasks : t \notin fresh ~> t \in finished

(* wait_all returns, also when tasks end while it polls.                   *)
WaitAllReturns == client = "drain" ~> client = "submit"
=============================================================================
