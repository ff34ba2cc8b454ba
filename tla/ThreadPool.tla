------------------------------ MODULE ThreadPool ------------------------------
(***************************************************************************)
(* sql/server/thread_pool.cpp and its header: a fixed number of workers    *)
(* take tasks from a queue guarded by queue_mutex_ and sleep on            *)
(* condition_.  A critical section is one step.  What happens outside the  *)
(* mutex is a step of its own: the notification after Submit or Shutdown   *)
(* has unlocked, the task itself, and the joins.                           *)
(*                                                                         *)
(* Every caller may submit; one of them, the owner of the pool, also shuts *)
(* it down (goods_db_main.cpp:195).  active_tasks_ is the number of        *)
(* workers inside a task; finished_condition_ has no waiter.               *)
(***************************************************************************)
EXTENDS Naturals, Sequences, FiniteSets

CONSTANTS Workers,   \* the threads of workers_
          Callers,   \* threads that hold a reference to the pool
          Owner,     \* the caller that shuts the pool down
          Tasks,     \* the callables that are ever submitted
          NoTask     \* what a worker outside a task runs

ASSUME PoolAssumption ==
    /\ Workers # {} /\ IsFiniteSet(Workers)
    /\ Owner \in Callers /\ IsFiniteSet(Callers)
    /\ NoTask \notin Tasks

VARIABLES task_queue,  \* task_queue_
          stop,        \* stop_
          force_stop,  \* force_stop_
          worker,      \* where each worker is
          task,        \* the local variable task of WorkerLoop
          caller,      \* where each caller is
          future       \* what became of each task: the state of its future

vars == <<task_queue, stop, force_stop, worker, task, caller, future>>

WorkerStates == {"loop",       \* about to lock queue_mutex_ and test the predicate
                 "waiting",    \* asleep in condition_.wait
                 "running",    \* inside task()
                 "returned"}
CallerStates == {"idle", "notify_one", "notify_all", "join", "joined"}
FutureStates == {"none", "queued", "running", "done",
                 "refused",    \* Submit threw
                 "dropped"}    \* destroyed by ShutdownNow: a broken promise

Init == /\ task_queue = <<>>
        /\ stop = FALSE
        /\ force_stop = FALSE
        /\ worker = [w \in Workers |-> "loop"]
        /\ task = [w \in Workers |-> NoTask]
        /\ caller = [c \in Callers |-> "idle"]
        /\ future = [t \in Tasks |-> "none"]
-----------------------------------------------------------------------------
(* Defect: Submit without its notify_one *)
SubmitWithoutNotify(c, t) ==
    /\ caller[c] = "idle" /\ future[t] = "none"
    /\ ~stop
    /\ task_queue' = Append(task_queue, t)
    /\ future' = [future EXCEPT ![t] = "queued"]
    /\ UNCHANGED <<stop, force_stop, worker, task, caller>>

(* Submit: the critical section, which throws when the pool is stopped,    *)
(* and the notification after it.                                          *)
Submit(c, t) ==
    /\ caller[c] = "idle" /\ future[t] = "none"
    /\ ~stop
    /\ task_queue' = Append(task_queue, t)
    /\ future' = [future EXCEPT ![t] = "queued"]
    /\ caller' = [caller EXCEPT ![c] = "notify_one"]
    /\ UNCHANGED <<stop, force_stop, worker, task>>

SubmitRefused(c, t) ==
    /\ caller[c] = "idle" /\ future[t] = "none"
    /\ stop
    /\ future' = [future EXCEPT ![t] = "refused"]
    /\ UNCHANGED <<task_queue, stop, force_stop, worker, task, caller>>

Waiting == {w \in Workers : worker[w] = "waiting"}

Wake(ws) == worker' = [w \in Workers |-> IF w \in ws THEN "loop" ELSE worker[w]]

NotifyOne(c) ==
    /\ caller[c] = "notify_one"
    /\ IF Waiting = {} THEN UNCHANGED worker
                       ELSE \E w \in Waiting : Wake({w})
    /\ caller' = [caller EXCEPT ![c] = "idle"]
    /\ UNCHANGED <<task_queue, stop, force_stop, task, future>>

(* Shutdown, and ~ThreadPool of a pool that was not stopped *)
Shutdown ==
    /\ caller[Owner] = "idle" /\ ~stop
    /\ stop' = TRUE
    /\ caller' = [caller EXCEPT ![Owner] = "notify_all"]
    /\ UNCHANGED <<task_queue, force_stop, worker, task, future>>

ShutdownNow ==
    /\ caller[Owner] = "idle" /\ ~stop
    /\ stop' = TRUE
    /\ force_stop' = TRUE
    /\ task_queue' = <<>>
    /\ future' = [t \in Tasks |-> IF future[t] = "queued" THEN "dropped" ELSE future[t]]
    /\ caller' = [caller EXCEPT ![Owner] = "notify_all"]
    /\ UNCHANGED <<worker, task>>

(* Defect: notify_one where all workers must learn of stop_ *)
NotifyAllWakesOne ==
    /\ caller[Owner] = "notify_all"
    /\ IF Waiting = {} THEN UNCHANGED worker
                       ELSE \E w \in Waiting : Wake({w})
    /\ caller' = [caller EXCEPT ![Owner] = "join"]
    /\ UNCHANGED <<task_queue, stop, force_stop, task, future>>

NotifyAll ==
    /\ caller[Owner] = "notify_all"
    /\ Wake(Waiting)
    /\ caller' = [caller EXCEPT ![Owner] = "join"]
    /\ UNCHANGED <<task_queue, stop, force_stop, task, future>>

(* The joins return when the last worker has left WorkerLoop *)
Join ==
    /\ caller[Owner] = "join"
    /\ \A w \in Workers : worker[w] = "returned"
    /\ caller' = [caller EXCEPT ![Owner] = "joined"]
    /\ UNCHANGED <<task_queue, stop, force_stop, worker, task, future>>
-----------------------------------------------------------------------------
(* WorkerLoop: with the mutex, the predicate of the wait and then either   *)
(* the return or the pop                                                   *)
WaitForWork(w) ==
    /\ worker[w] = "loop"
    /\ ~stop /\ task_queue = <<>>
    /\ worker' = [worker EXCEPT ![w] = "waiting"]
    /\ UNCHANGED <<task_queue, stop, force_stop, task, caller, future>>

(* Defect: a worker that leaves as soon as the pool is stopped *)
ReturnWhenStopped(w) ==
    /\ worker[w] = "loop"
    /\ stop
    /\ worker' = [worker EXCEPT ![w] = "returned"]
    /\ UNCHANGED <<task_queue, stop, force_stop, task, caller, future>>

Return(w) ==
    /\ worker[w] = "loop"
    /\ stop /\ (force_stop \/ task_queue = <<>>)
    /\ worker' = [worker EXCEPT ![w] = "returned"]
    /\ UNCHANGED <<task_queue, stop, force_stop, task, caller, future>>

(* Defect: front() without pop() *)
TakeTaskWithoutPop(w) ==
    /\ worker[w] = "loop"
    /\ task_queue # <<>> /\ ~(stop /\ force_stop)
    /\ task' = [task EXCEPT ![w] = Head(task_queue)]
    /\ worker' = [worker EXCEPT ![w] = "running"]
    /\ future' = [future EXCEPT ![Head(task_queue)] = "running"]
    /\ UNCHANGED <<task_queue, stop, force_stop, caller>>

TakeTask(w) ==
    /\ worker[w] = "loop"
    /\ task_queue # <<>> /\ ~(stop /\ force_stop)
    /\ task' = [task EXCEPT ![w] = Head(task_queue)]
    /\ task_queue' = Tail(task_queue)
    /\ worker' = [worker EXCEPT ![w] = "running"]
    /\ future' = [future EXCEPT ![Head(task_queue)] = "running"]
    /\ UNCHANGED <<stop, force_stop, caller>>

(* task() returns: packaged_task stores the result, or the exception, in   *)
(* the future, so nothing escapes into the loop                            *)
FinishTask(w) ==
    /\ worker[w] = "running"
    /\ future' = [future EXCEPT ![task[w]] = "done"]
    /\ task' = [task EXCEPT ![w] = NoTask]
    /\ worker' = [worker EXCEPT ![w] = "loop"]
    /\ UNCHANGED <<task_queue, stop, force_stop, caller>>

(* condition_.wait may wake for no reason *)
SpuriousWakeup(w) ==
    /\ worker[w] = "waiting"
    /\ Wake({w})
    /\ UNCHANGED <<task_queue, stop, force_stop, task, caller, future>>

WorkerStep(w) == WaitForWork(w) \/ Return(w) \/ TakeTask(w) \/ FinishTask(w)
OwnerStep == NotifyAll \/ Join

Next ==
    \/ \E c \in Callers : \E t \in Tasks : Submit(c, t) \/ SubmitRefused(c, t)
    \/ \E c \in Callers : NotifyOne(c)
    \/ Shutdown \/ ShutdownNow \/ OwnerStep
    \/ \E w \in Workers : WorkerStep(w) \/ SpuriousWakeup(w)

Spec == Init /\ [][Next]_vars

(* Threads that can run are scheduled, and a task ends.  Nothing says that *)
(* anybody submits, shuts down or wakes for no reason.                     *)
FairSpec == /\ Spec
            /\ \A w \in Workers : WF_vars(WorkerStep(w))
            /\ \A c \in Callers : WF_vars(NotifyOne(c))
            /\ WF_vars(OwnerStep)
-----------------------------------------------------------------------------
(* Every variable has its type, and a worker has a task exactly while it   *)
(* runs one.                                                               *)
TypeOK == /\ task_queue \in Seq(Tasks)
          /\ stop \in BOOLEAN /\ force_stop \in BOOLEAN
          /\ worker \in [Workers -> WorkerStates]
          /\ task \in [Workers -> Tasks \cup {NoTask}]
          /\ \A w \in Workers : task[w] \in Tasks <=> worker[w] = "running"
          /\ caller \in [Callers -> CallerStates]
          /\ future \in [Tasks -> FutureStates]

Looping == {w \in Workers : worker[w] = "loop"}
Notifying == {c \in Callers : caller[c] = "notify_one"}

(* No worker sleeps over work (the notify_one of thread_pool.h:79 comes    *)
(* after the unlock and may find nobody asleep): while a worker sleeps,    *)
(* each queued task has a worker of its own that is about to look at the   *)
(* queue, or a caller that still has to notify.                            *)
NoSleepOverWork ==
    Waiting # {} => Len(task_queue) <= Cardinality(Looping) + Cardinality(Notifying)

(* thread_pool.h:36, "Graceful shutdown: wait for all queued tasks to      *)
(* finish": when Shutdown returns, every task that Submit accepted has     *)
(* run to its end.  After ShutdownNow each has run or was dropped, and     *)
(* none is still running.                                                  *)
ShutdownLeavesNothing ==
    caller[Owner] = "joined" =>
        \A t \in Tasks : /\ future[t] \notin {"queued", "running"}
                         /\ future[t] = "dropped" => force_stop

(* A task is run once, by one worker, in the state its future is in.       *)
OneRunPerTask ==
    /\ \A w \in Workers : worker[w] = "running" => future[task[w]] = "running"
    /\ \A v, w \in Workers : worker[v] = "running" /\ task[v] = task[w] => v = w
    /\ \A i \in 1 .. Len(task_queue) : future[task_queue[i]] = "queued"
    /\ \A i, j \in 1 .. Len(task_queue) : task_queue[i] = task_queue[j] => i = j

(* Every accepted task ends or is dropped: no wake-up is lost, also when   *)
(* the pool is stopped while callers are still submitting.                 *)
EveryFutureResolves ==
    \A t \in Tasks : future[t] = "queued" ~> future[t] \in {"done", "dropped"}

(* Shutdown and ShutdownNow return.                                        *)
ShutdownReturns == caller[Owner] = "notify_all" ~> caller[Owner] = "joined"
=============================================================================
