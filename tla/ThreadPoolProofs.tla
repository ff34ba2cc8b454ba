--------------------------- MODULE ThreadPoolProofs ---------------------------
(***************************************************************************)
(* Safety of the thread pool for every number of workers, callers and      *)
(* tasks: nothing is lost by Shutdown, a task runs once, and no worker     *)
(* sleeps over work.  PoolInv is the inductive invariant; NoSleepOverWork  *)
(* is inductive on top of it.                                              *)
(***************************************************************************)
EXTENDS ThreadPool, FiniteSetTheorems, TLAPS

(* A future that is queued has its task in the queue, one that is running  *)
(* has a worker inside the task.                                           *)
FuturesAreBacked ==
    /\ \A t \in Tasks : future[t] = "queued" =>
          \E i \in 1 .. Len(task_queue) : task_queue[i] = t
    /\ \A t \in Tasks : future[t] = "running" =>
          \E w \in Workers : worker[w] = "running" /\ task[w] = t

(* What stopping leaves behind: after force_stop_ the queue is empty for   *)
(* good, a worker returns from an empty queue only, tasks are dropped by   *)
(* force, and the joins have seen every worker return.                     *)
StopSound ==
    /\ force_stop => stop /\ task_queue = <<>>
    /\ \A w \in Workers : worker[w] = "returned" => stop /\ task_queue = <<>>
    /\ \A t \in Tasks : future[t] = "dropped" => force_stop
    /\ caller[Owner] = "joined" => \A w \in Workers : worker[w] = "returned"

TaskInv == OneRunPerTask /\ FuturesAreBacked /\ StopSound
PoolInv == TypeOK /\ TaskInv
-----------------------------------------------------------------------------
(* Every step keeps the types.                                             *)
LEMMA TypeStep == TypeOK /\ [Next]_vars => TypeOK'
<1> SUFFICES ASSUME TypeOK, [Next]_vars PROVE TypeOK'
  OBVIOUS
<1> USE PoolAssumption DEF TypeOK, WorkerStates, CallerStates, FutureStates
<1>1. ASSUME NEW c \in Callers, NEW t \in Tasks, Submit(c, t) PROVE TypeOK'
  BY <1>1 DEF Submit
<1>2. ASSUME NEW c \in Callers, NEW t \in Tasks, SubmitRefused(c, t) PROVE TypeOK'
  BY <1>2 DEF SubmitRefused
<1>3. ASSUME NEW c \in Callers, NotifyOne(c) PROVE TypeOK'
  BY <1>3 DEF NotifyOne, Wake, Waiting
<1>4. CASE Shutdown
  BY <1>4 DEF Shutdown
<1>5. CASE ShutdownNow
  BY <1>5 DEF ShutdownNow
<1>6. CASE NotifyAll
  BY <1>6 DEF NotifyAll, Wake, Waiting
<1>7. CASE Join
  BY <1>7 DEF Join
<1>8. ASSUME NEW w \in Workers, WaitForWork(w) PROVE TypeOK'
  BY <1>8 DEF WaitForWork
<1>9. ASSUME NEW w \in Workers, Return(w) PROVE TypeOK'
  BY <1>9 DEF Return
<1>10. ASSUME NEW w \in Workers, TakeTask(w) PROVE TypeOK'
  BY <1>10 DEF TakeTask
<1>11. ASSUME NEW w \in Workers, FinishTask(w) PROVE TypeOK'
  BY <1>11 DEF FinishTask
<1>12. ASSUME NEW w \in Workers, SpuriousWakeup(w) PROVE TypeOK'
  BY <1>12 DEF SpuriousWakeup, Wake
<1>13. CASE UNCHANGED vars
  BY <1>13 DEF vars
<1> QED
  BY <1>1, <1>2, <1>3, <1>4, <1>5, <1>6, <1>7, <1>8, <1>9, <1>10, <1>11, <1>12, <1>13
  DEF Next, OwnerStep, WorkerStep

(* The steps that only move workers between sleeping and looping, or the   *)
(* callers, leave the tasks and their workers alone.                       *)
LEMMA WakeKeeps ==
  ASSUME PoolInv, TypeOK', UNCHANGED <<task_queue, force_stop, task, future>>,
         stop => stop',
         \A w \in Workers : worker'[w] # worker[w] =>
            worker[w] \in {"loop", "waiting"} /\ worker'[w] \in {"loop", "waiting"},
         caller'[Owner] = "joined" => caller[Owner] = "joined"
  PROVE  TaskInv'
<1>1. OneRunPerTask'
  BY DEF PoolInv, TaskInv, OneRunPerTask, TypeOK
<1>2. FuturesAreBacked'
  BY DEF PoolInv, TaskInv, FuturesAreBacked, TypeOK
<1>3. StopSound'
  BY PoolAssumption DEF PoolInv, TaskInv, StopSound, TypeOK
<1> QED BY <1>1, <1>2, <1>3 DEF TaskInv

(* A submitted task is new to the queue and to the workers.               *)
LEMMA SubmitStep ==
  ASSUME PoolInv, TypeOK', NEW c \in Callers, NEW t \in Tasks, Submit(c, t)
  PROVE  TaskInv'
<1>1. /\ Len(task_queue') = Len(task_queue) + 1
      /\ \A i \in 1 .. Len(task_queue) : task_queue'[i] = task_queue[i]
      /\ task_queue'[Len(task_queue) + 1] = t
      /\ Len(task_queue) \in Nat
  BY DEF PoolInv, TaskInv, TypeOK, Submit
<1>2. OneRunPerTask'
  BY <1>1 DEF PoolInv, TaskInv, OneRunPerTask, TypeOK, Submit
<1>3. FuturesAreBacked'
  BY <1>1 DEF PoolInv, TaskInv, FuturesAreBacked, TypeOK, Submit
<1>4. StopSound'
  BY PoolAssumption DEF PoolInv, TaskInv, StopSound, TypeOK, Submit
<1> QED BY <1>2, <1>3, <1>4 DEF TaskInv

(* The task at the head of the queue becomes the task of one worker.       *)
LEMMA TakeTaskStep ==
  ASSUME PoolInv, TypeOK', NEW w \in Workers, TakeTask(w)
  PROVE  TaskInv'
<1>1. /\ Len(task_queue) \in Nat /\ Len(task_queue) >= 1
      /\ Len(task_queue') = Len(task_queue) - 1
      /\ \A i \in 1 .. Len(task_queue') : task_queue'[i] = task_queue[i + 1]
      /\ task'[w] = task_queue[1]
      /\ task_queue[1] \in Tasks
      /\ future' = [future EXCEPT ![task_queue[1]] = "running"]
  BY DEF PoolInv, TaskInv, TypeOK, TakeTask
<1>2. future[task_queue[1]] = "queued"
  BY <1>1 DEF PoolInv, TaskInv, OneRunPerTask
<1>3. \A i \in 2 .. Len(task_queue) : task_queue[i] # task_queue[1]
  BY <1>1 DEF PoolInv, TaskInv, OneRunPerTask
<1>4. OneRunPerTask'
  <2>1. \A v \in Workers : worker'[v] = "running" => future'[task'[v]] = "running"
    BY <1>1 DEF PoolInv, TaskInv, OneRunPerTask, TypeOK, TakeTask
  <2>2. \A v \in Workers : worker[v] = "running" => task[v] # task_queue[1]
    BY <1>2 DEF PoolInv, TaskInv, OneRunPerTask
  <2>3. \A v \in Workers : v # w => task'[v] # task_queue[1] 
    BY <1>1, <2>2 , PoolAssumption DEF PoolInv, TaskInv, TypeOK, TakeTask
  <2>4. \A v, u \in Workers : worker'[v] = "running" /\ task'[v] = task'[u] => v = u
    BY <1>1, <2>3 DEF PoolInv, TaskInv, OneRunPerTask, TypeOK, TakeTask
  <2>5. \A i \in 1 .. Len(task_queue') : future'[task_queue'[i]] = "queued"
    BY <1>1, <1>3 DEF PoolInv, TaskInv, OneRunPerTask, TypeOK
  <2>6. \A i, j \in 1 .. Len(task_queue') : task_queue'[i] = task_queue'[j] => i = j
    BY <1>1 DEF PoolInv, TaskInv, OneRunPerTask
  <2> QED BY <2>1, <2>4, <2>5, <2>6 DEF OneRunPerTask
<1>5. FuturesAreBacked'
  <2>1. ASSUME NEW t \in Tasks, future'[t] = "queued"
        PROVE  \E i \in 1 .. Len(task_queue') : task_queue'[i] = t
    <3>1. future[t] = "queued" /\ t # task_queue[1]
      BY <1>1, <2>1 DEF PoolInv, TaskInv, TypeOK
    <3>2. PICK i \in 1 .. Len(task_queue) : task_queue[i] = t
      BY <3>1 DEF PoolInv, TaskInv, FuturesAreBacked
    <3>3. i - 1 \in 1 .. Len(task_queue') /\ task_queue'[i - 1] = t
      BY <1>1, <3>1, <3>2
    <3> QED BY <3>3
  <2>2. ASSUME NEW t \in Tasks, future'[t] = "running"
        PROVE  \E v \in Workers : worker'[v] = "running" /\ task'[v] = t
    BY <1>1, <2>2 DEF PoolInv, TaskInv, FuturesAreBacked, TypeOK, TakeTask
  <2> QED BY <2>1, <2>2 DEF FuturesAreBacked
<1>6. StopSound'
  BY PoolAssumption DEF PoolInv, TaskInv, StopSound, TypeOK, TakeTask
<1> QED BY <1>4, <1>5, <1>6 DEF TaskInv

(* A finished task had one worker, which gives it up.                      *)
LEMMA FinishTaskStep ==
  ASSUME PoolInv, TypeOK', NEW w \in Workers, FinishTask(w)
  PROVE  TaskInv'
<1>1. /\ task[w] \in Tasks /\ future[task[w]] = "running"
      /\ \A i \in 1 .. Len(task_queue) : task_queue[i] # task[w]
      /\ \A v \in Workers : v # w => task[v] # task[w]
  BY DEF PoolInv, TaskInv, TypeOK, OneRunPerTask, FinishTask
<1>2. OneRunPerTask'
  BY <1>1 DEF PoolInv, TaskInv, OneRunPerTask, TypeOK, FinishTask
<1>3. FuturesAreBacked'
  BY <1>1 DEF PoolInv, TaskInv, FuturesAreBacked, TypeOK, FinishTask
<1>4. StopSound'
  BY PoolAssumption DEF PoolInv, TaskInv, StopSound, TypeOK, FinishTask
<1> QED BY <1>2, <1>3, <1>4 DEF TaskInv

(* Every step keeps PoolInv.                                               *)
LEMMA PoolInvStep == PoolInv /\ [Next]_vars => PoolInv'
<1> SUFFICES ASSUME PoolInv, [Next]_vars,
                    TypeOK'
    PROVE  TaskInv'
  BY TypeStep DEF PoolInv, TaskInv
<1>1. ASSUME NEW c \in Callers, NEW t \in Tasks, Submit(c, t) PROVE TaskInv'
  BY <1>1, SubmitStep
<1>2. ASSUME NEW c \in Callers, NEW t \in Tasks, SubmitRefused(c, t) PROVE TaskInv'
  <2>1. OneRunPerTask'
    BY <1>2 DEF PoolInv, TaskInv, OneRunPerTask, TypeOK, SubmitRefused
  <2>2. FuturesAreBacked'
    BY <1>2 DEF PoolInv, TaskInv, FuturesAreBacked, TypeOK, SubmitRefused
  <2>3. StopSound'
    BY <1>2 DEF PoolInv, TaskInv, StopSound, TypeOK, SubmitRefused
  <2> QED BY <2>1, <2>2, <2>3 DEF TaskInv
<1>3. ASSUME NEW c \in Callers, NotifyOne(c) PROVE TaskInv'
  BY <1>3, WakeKeeps, PoolAssumption DEF PoolInv, TaskInv, TypeOK, NotifyOne, Wake, Waiting
<1>4. CASE Shutdown
  BY <1>4, WakeKeeps, PoolAssumption DEF PoolInv, TaskInv, TypeOK, Shutdown
<1>5. CASE ShutdownNow
  <2>1. OneRunPerTask'
    BY <1>5 DEF PoolInv, TaskInv, OneRunPerTask, TypeOK, ShutdownNow
  <2>2. FuturesAreBacked'
    BY <1>5 DEF PoolInv, TaskInv, FuturesAreBacked, TypeOK, ShutdownNow
  <2>3. StopSound'
    BY <1>5, PoolAssumption DEF PoolInv, TaskInv, StopSound, TypeOK, ShutdownNow
  <2> QED BY <2>1, <2>2, <2>3 DEF TaskInv
<1>6. CASE NotifyAll
  BY <1>6, WakeKeeps, PoolAssumption DEF PoolInv, TaskInv, TypeOK, NotifyAll, Wake, Waiting
<1>7. CASE Join
  <2>1. OneRunPerTask'
    BY <1>7 DEF PoolInv, TaskInv, OneRunPerTask, Join
  <2>2. FuturesAreBacked'
    BY <1>7 DEF PoolInv, TaskInv, FuturesAreBacked, Join
  <2>3. StopSound'
    BY <1>7 DEF PoolInv, TaskInv, StopSound, Join
  <2> QED BY <2>1, <2>2, <2>3 DEF TaskInv
<1>8. ASSUME NEW w \in Workers, WaitForWork(w) PROVE TaskInv'
  BY <1>8, WakeKeeps DEF PoolInv, TaskInv, TypeOK, WaitForWork
<1>9. ASSUME NEW w \in Workers, Return(w) PROVE TaskInv'
  <2>1. OneRunPerTask'
    BY <1>9 DEF PoolInv, TaskInv, OneRunPerTask, TypeOK, Return
  <2>2. FuturesAreBacked'
    BY <1>9 DEF PoolInv, TaskInv, FuturesAreBacked, TypeOK, Return
  <2>3. StopSound'
    BY <1>9 DEF PoolInv, TaskInv, StopSound, TypeOK, Return
  <2> QED BY <2>1, <2>2, <2>3 DEF TaskInv
<1>10. ASSUME NEW w \in Workers, TakeTask(w) PROVE TaskInv'
  BY <1>10, TakeTaskStep
<1>11. ASSUME NEW w \in Workers, FinishTask(w) PROVE TaskInv'
  BY <1>11, FinishTaskStep
<1>12. ASSUME NEW w \in Workers, SpuriousWakeup(w) PROVE TaskInv'
  BY <1>12, WakeKeeps DEF PoolInv, TaskInv, TypeOK, SpuriousWakeup, Wake
<1>13. CASE UNCHANGED vars
  BY <1>13, WakeKeeps DEF vars
<1> QED
  BY <1>1, <1>2, <1>3, <1>4, <1>5, <1>6, <1>7, <1>8, <1>9, <1>10, <1>11, <1>12, <1>13
  DEF Next, OwnerStep, WorkerStep

(* Initially nothing is queued, running or returned.                       *)
LEMMA PoolInvInit == Init => PoolInv
<1> SUFFICES ASSUME Init PROVE PoolInv
  OBVIOUS
<1>1. TypeOK
  <2>1. task_queue \in Seq(Tasks)
    BY DEF Init
  <2> QED BY <2>1, PoolAssumption DEF Init, TypeOK, WorkerStates, CallerStates, FutureStates
<1>2. OneRunPerTask /\ FuturesAreBacked
  BY DEF Init, OneRunPerTask, FuturesAreBacked
<1>3. StopSound
  BY PoolAssumption DEF Init, StopSound
<1> QED BY <1>1, <1>2, <1>3 DEF PoolInv, TaskInv

(* PoolInv holds in every reachable state.                                 *)
THEOREM PoolInvHolds == Spec => []PoolInv
BY PoolInvInit, PoolInvStep, PTL DEF Spec

(* A task is run once, by one worker.                                      *)
THEOREM TasksRunOnce == Spec => []OneRunPerTask
BY PoolInvHolds, PTL DEF PoolInv, TaskInv

(* thread_pool.h:36: nothing that Submit accepted is left when Shutdown    *)
(* returns, and only ShutdownNow drops.                                    *)
THEOREM ShutdownCorrect == Spec => []ShutdownLeavesNothing
<1>1. PoolInv => ShutdownLeavesNothing
  <2> SUFFICES ASSUME PoolInv, caller[Owner] = "joined", NEW t \in Tasks
      PROVE /\ future[t] \notin {"queued", "running"}
            /\ future[t] = "dropped" => force_stop
    BY DEF ShutdownLeavesNothing
  <2>1. \A w \in Workers : worker[w] = "returned"
    BY DEF PoolInv, TaskInv, StopSound
  <2>2. task_queue = <<>>
    BY <2>1, PoolAssumption DEF PoolInv, TaskInv, StopSound
  <2>3. future[t] # "queued"
    BY <2>2 DEF PoolInv, TaskInv, FuturesAreBacked
  <2>4. future[t] # "running"
    BY <2>1 DEF PoolInv, TaskInv, FuturesAreBacked
  <2> QED BY <2>3, <2>4 DEF PoolInv, TaskInv, StopSound
<1> QED BY <1>1, PoolInvHolds, PTL
-----------------------------------------------------------------------------
CountsFinite ==
    /\ IsFiniteSet(Looping) /\ Cardinality(Looping) \in Nat
    /\ IsFiniteSet(Notifying) /\ Cardinality(Notifying) \in Nat

(* The two sets NoSleepOverWork counts are finite, as the threads are.     *)
LEMMA CountsAreNaturals == CountsFinite
<1>1. Looping \subseteq Workers /\ Notifying \subseteq Callers
  BY DEF Looping, Notifying
<1> QED BY <1>1, PoolAssumption, FS_Subset, FS_CardinalityType DEF CountsFinite

(* Every step keeps NoSleepOverWork: a task enters the queue with a        *)
(* notification to come, and a worker goes back to sleep only on an empty  *)
(* queue.                                                                  *)
LEMMA NoSleepStep == PoolInv /\ NoSleepOverWork /\ [Next]_vars => NoSleepOverWork'
<1> SUFFICES ASSUME PoolInv, NoSleepOverWork, [Next]_vars PROVE NoSleepOverWork'
  OBVIOUS
<1> DEFINE L == Cardinality(Looping)
           N == Cardinality(Notifying)
<1>a. /\ IsFiniteSet(Looping) /\ L \in Nat /\ IsFiniteSet(Notifying) /\ N \in Nat
      /\ IsFiniteSet(Looping') /\ L' \in Nat /\ IsFiniteSet(Notifying') /\ N' \in Nat
  <2>1. CountsFinite /\ CountsFinite'
    BY CountsAreNaturals, PTL
  <2> QED BY <2>1 DEF CountsFinite
<1>b. Len(task_queue) \in Nat /\ TypeOK
  BY DEF PoolInv, TaskInv, TypeOK
<1>c. ASSUME UNCHANGED <<task_queue, worker>>, Notifying' = Notifying PROVE NoSleepOverWork'
  BY <1>c DEF NoSleepOverWork, Waiting, Looping
<1>1. ASSUME NEW c \in Callers, NEW t \in Tasks, Submit(c, t) PROVE NoSleepOverWork'
  <2>1. Notifying' = Notifying \cup {c} /\ c \notin Notifying
    BY <1>1, <1>b DEF Notifying, Submit, TypeOK
  <2>2. N' = N + 1
    BY <2>1, <1>a, FS_AddElement
  <2>3. Len(task_queue') = Len(task_queue) + 1 /\ Waiting' = Waiting /\ L' = L
    BY <1>1, <1>b DEF Submit, TypeOK, Waiting, Looping
  <2> QED BY <2>2, <2>3, <1>a, <1>b DEF NoSleepOverWork
<1>2. ASSUME NEW c \in Callers, NEW t \in Tasks, SubmitRefused(c, t) PROVE NoSleepOverWork'
  BY <1>2, <1>c DEF SubmitRefused, Notifying
<1>3. ASSUME NEW c \in Callers, NotifyOne(c) PROVE NoSleepOverWork'
  <2>1. CASE Waiting = {}
    <3>1. Waiting' = {}
      BY <1>3, <2>1 DEF NotifyOne, Waiting
    <3> QED BY <3>1 DEF NoSleepOverWork
  <2>2. CASE Waiting # {}
    <3>1. PICK w \in Waiting : Wake({w})
      BY <1>3, <2>2 DEF NotifyOne
    <3>2. Looping' = Looping \cup {w} /\ w \notin Looping
      BY <3>1, <1>b DEF Looping, Wake, Waiting, TypeOK
    <3>3. L' = L + 1
      BY <3>2, <1>a, FS_AddElement
    <3>4. Notifying' = Notifying \ {c} /\ c \in Notifying
      BY <1>3, <1>b DEF Notifying, NotifyOne, TypeOK
    <3>5. N' = N - 1
      BY <3>4, <1>a, FS_RemoveElement
    <3>6. task_queue' = task_queue
      BY <1>3 DEF NotifyOne
    <3> QED BY <2>2, <3>3, <3>5, <3>6, <1>a, <1>b DEF NoSleepOverWork
  <2> QED BY <2>1, <2>2
<1>4. CASE Shutdown
  <2>1. Notifying' = Notifying
    BY <1>4, <1>b, PoolAssumption DEF Notifying, Shutdown, TypeOK
  <2> QED BY <1>4, <2>1, <1>c DEF Shutdown
<1>5. CASE ShutdownNow
  <2>1. Len(task_queue') = 0
    BY <1>5 DEF ShutdownNow
  <2> QED BY <2>1, <1>a DEF NoSleepOverWork
<1>6. CASE NotifyAll
  <2>1. Waiting' = {}
    BY <1>6 DEF NotifyAll, Wake, Waiting
  <2> QED BY <2>1 DEF NoSleepOverWork
<1>7. CASE Join
  <2>1. Notifying' = Notifying
    BY <1>7, <1>b, PoolAssumption DEF Notifying, Join, TypeOK
  <2> QED BY <1>7, <2>1, <1>c DEF Join
<1>8. ASSUME NEW w \in Workers, WaitForWork(w) PROVE NoSleepOverWork'
  <2>1. Len(task_queue') = 0
    BY <1>8 DEF WaitForWork
  <2> QED BY <2>1, <1>a DEF NoSleepOverWork
<1>9. ASSUME NEW w \in Workers, Return(w) PROVE NoSleepOverWork'
  <2>1. Len(task_queue') = 0
    BY <1>9 DEF Return, PoolInv, TaskInv, StopSound
  <2> QED BY <2>1, <1>a DEF NoSleepOverWork
<1>10. ASSUME NEW w \in Workers, TakeTask(w) PROVE NoSleepOverWork'
  <2>1. Looping' = Looping \ {w} /\ w \in Looping
    BY <1>10, <1>b DEF Looping, TakeTask, TypeOK
  <2>2. L' = L - 1
    BY <2>1, <1>a, FS_RemoveElement
  <2>3. Len(task_queue') = Len(task_queue) - 1
    BY <1>10, <1>b DEF TakeTask, TypeOK
  <2>4. Waiting' = Waiting /\ Notifying' = Notifying
    BY <1>10, <1>b DEF Waiting, Notifying, TakeTask, TypeOK
  <2> QED BY <2>2, <2>3, <2>4, <1>a, <1>b DEF NoSleepOverWork
<1>11. ASSUME NEW w \in Workers, FinishTask(w) PROVE NoSleepOverWork'
  <2>1. Looping \subseteq Looping'
    BY <1>11, <1>b DEF Looping, FinishTask, TypeOK
  <2>2. L <= L'
    BY <2>1, <1>a, FS_Subset
  <2>3. Waiting' = Waiting /\ Notifying' = Notifying /\ task_queue' = task_queue
    BY <1>11, <1>b DEF Waiting, Notifying, FinishTask, TypeOK
  <2> QED BY <2>2, <2>3, <1>a, <1>b DEF NoSleepOverWork
<1>12. ASSUME NEW w \in Workers, SpuriousWakeup(w) PROVE NoSleepOverWork'
  <2>1. Looping \subseteq Looping' /\ Waiting # {}
    BY <1>12, <1>b DEF Looping, SpuriousWakeup, Wake, Waiting, TypeOK
  <2>2. L <= L'
    BY <2>1, <1>a, FS_Subset
  <2>3. Notifying' = Notifying /\ task_queue' = task_queue
    BY <1>12 DEF Notifying, SpuriousWakeup
  <2> QED BY <2>1, <2>2, <2>3, <1>a, <1>b DEF NoSleepOverWork
<1>13. CASE UNCHANGED vars
  BY <1>13, <1>c DEF vars, Notifying
<1> QED
  BY <1>1, <1>2, <1>3, <1>4, <1>5, <1>6, <1>7, <1>8, <1>9, <1>10, <1>11, <1>12, <1>13
  DEF Next, OwnerStep, WorkerStep

(* No worker sleeps over work, for any number of workers and callers.      *)
THEOREM NoSleepCorrect == Spec => []NoSleepOverWork
<1>1. Init => NoSleepOverWork
  BY DEF Init, NoSleepOverWork, Waiting
<1> QED BY <1>1, NoSleepStep, PoolInvHolds, PTL DEF Spec
=============================================================================
