----------------------------- MODULE ThreadPool -----------------------------
(***************************************************************************)
(* wavemap::ThreadPool: a fixed set of worker threads serving one FIFO     *)
(* queue of tasks, with add_task, wait_all and a draining destructor       *)
(* (core/utils/thread_pool.{h,cc}).                                        *)
(*                                                                         *)
(* A step is a critical section of tasks_mutex_, or one access to shared   *)
(* state outside of it.  Where a thread evaluates the predicate of a       *)
(* condition variable and then sleeps, both are steps of their own, with   *)
(* the mutex held in between, because task_count_ is decremented without   *)
(* the mutex.  The atomics are sequentially consistent, as in the code.    *)
(***************************************************************************)
EXTENDS Integers, Sequences, FiniteSets

CONSTANTS Worker,     \* the threads the constructor starts
          Client,     \* the threads that call the pool
          Owner,      \* the client that destroys the pool
          Task,       \* the tasks that may be submitted, each one once
          NoThread, NoTask

ASSUME PoolAssumption ==
  /\ Worker \cap Client = {}
  /\ Owner \in Client
  /\ NoThread \notin Worker \cup Client
  /\ NoTask \notin Task
  /\ IsFiniteSet(Worker)

VARIABLES tasks,        \* std::queue of tasks not yet taken by a worker
          task_count,   \* std::atomic<int>, tasks yet to be completed
          terminate,    \* std::atomic<bool>
          mutex,        \* the thread that holds tasks_mutex_
          wpc,          \* where each worker is in worker_loop
          wtask,        \* the worker's local variable task
          cpc,          \* which call each client is in, and where
          done,         \* tasks whose future is ready
          added,        \* history: tasks that add_task has enqueued
          owed          \* history: tasks enqueued before the client's wait_all

queueVars == <<tasks, task_count, terminate>>
threadVars == <<mutex, wpc, wtask, cpc>>
historyVars == <<done, added, owed>>
poolVars == <<queueVars, threadVars, historyVars>>

WorkerPC == {"lock", "check", "sleep", "waiting", "run", "count", "test",
             "notify", "exited"}
ClientPC == {"idle", "notify_one", "wait_lock", "wait_check", "wait_sleep",
             "waiting", "dtor_notify", "dtor_join", "destroyed"}

Queued == {tasks[i] : i \in 1..Len(tasks)}
Sleeping(pc) == {p \in DOMAIN pc : pc[p] = "waiting"}
Woken(pc, who, to) == [p \in DOMAIN pc |-> IF p \in who THEN to ELSE pc[p]]

PoolInit ==
  /\ tasks = <<>>
  /\ task_count = 0
  /\ terminate = FALSE
  /\ mutex = NoThread
  /\ wpc = [w \in Worker |-> "lock"]
  /\ wtask = [w \in Worker |-> NoTask]
  /\ cpc = [c \in Client |-> "idle"]
  /\ done = {}
  /\ added = {}
  /\ owed = [c \in Client |-> {}]

-----------------------------------------------------------------------------
(* worker_loop *)

\* Also how a worker that was woken re-acquires the mutex.
WorkerLock(w) ==
  /\ wpc[w] = "lock"
  /\ mutex = NoThread
  /\ mutex' = w
  /\ wpc' = [wpc EXCEPT ![w] = "check"]
  /\ UNCHANGED <<queueVars, wtask, cpc, historyVars>>

\* The predicate of worker_condition_ is false.
WorkerMustWait(w) ==
  /\ wpc[w] = "check"
  /\ ~terminate
  /\ tasks = <<>>
  /\ wpc' = [wpc EXCEPT ![w] = "sleep"]
  /\ UNCHANGED <<queueVars, mutex, wtask, cpc, historyVars>>

WorkerSleep(w) ==
  /\ wpc[w] = "sleep"
  /\ mutex' = NoThread
  /\ wpc' = [wpc EXCEPT ![w] = "waiting"]
  /\ UNCHANGED <<queueVars, wtask, cpc, historyVars>>

WorkerExit(w) ==
  /\ wpc[w] = "check"
  /\ terminate
  /\ tasks = <<>>
  /\ mutex' = NoThread
  /\ wpc' = [wpc EXCEPT ![w] = "exited"]
  /\ UNCHANGED <<queueVars, wtask, cpc, historyVars>>

WorkerPop(w) ==
  /\ wpc[w] = "check"
  /\ tasks # <<>>
  /\ wtask' = [wtask EXCEPT ![w] = Head(tasks)]
  /\ tasks' = Tail(tasks)
  /\ mutex' = NoThread
  /\ wpc' = [wpc EXCEPT ![w] = "run"]
  /\ UNCHANGED <<task_count, terminate, cpc, historyVars>>

\* Mutant: an exception of the task skips the decrement of task_count_.
WorkerRunEscapes(w) ==
  /\ wpc[w] = "run"
  /\ done' = done \cup {wtask[w]}
  /\ \E next \in {"count", "test"} : wpc' = [wpc EXCEPT ![w] = next]
  /\ UNCHANGED <<queueVars, mutex, wtask, cpc, added, owed>>

\* The packaged task returns or throws: either way its future is ready.
WorkerRun(w) ==
  /\ wpc[w] = "run"
  /\ done' = done \cup {wtask[w]}
  /\ wpc' = [wpc EXCEPT ![w] = "count"]
  /\ UNCHANGED <<queueVars, mutex, wtask, cpc, added, owed>>

WorkerCount(w) ==
  /\ wpc[w] = "count"
  /\ task_count' = task_count - 1
  /\ wpc' = [wpc EXCEPT ![w] = "test"]
  /\ UNCHANGED <<tasks, terminate, mutex, wtask, cpc, historyVars>>

\* A second, separate read of task_count_; task goes out of scope.
WorkerTest(w) ==
  /\ wpc[w] = "test"
  /\ wpc' = [wpc EXCEPT ![w] = IF task_count = 0 THEN "notify" ELSE "lock"]
  /\ wtask' = [wtask EXCEPT ![w] = NoTask]
  /\ UNCHANGED <<queueVars, mutex, cpc, historyVars>>

\* Mutant: notify_all without taking the mutex first.
WorkerNotifyUnlocked(w) ==
  /\ wpc[w] = "notify"
  /\ cpc' = Woken(cpc, Sleeping(cpc), "wait_lock")
  /\ wpc' = [wpc EXCEPT ![w] = "lock"]
  /\ UNCHANGED <<queueVars, mutex, wtask, historyVars>>

WorkerNotify(w) ==
  /\ wpc[w] = "notify"
  /\ mutex = NoThread
  /\ cpc' = Woken(cpc, Sleeping(cpc), "wait_lock")
  /\ wpc' = [wpc EXCEPT ![w] = "lock"]
  /\ UNCHANGED <<queueVars, mutex, wtask, historyVars>>

\* A condition variable may wake a thread that nobody notified.
WorkerSpurious(w) ==
  /\ wpc[w] = "waiting"
  /\ wpc' = [wpc EXCEPT ![w] = "lock"]
  /\ UNCHANGED <<queueVars, mutex, wtask, cpc, historyVars>>

-----------------------------------------------------------------------------
(* add_task: LOG(FATAL) stops the program when the pool is terminating. *)

\* Mutant: no worker is notified of the task.
AddTaskSilently(c, t) ==
  /\ cpc[c] = "idle"
  /\ t \notin added
  /\ mutex = NoThread
  /\ ~terminate
  /\ tasks' = Append(tasks, t)
  /\ task_count' = task_count + 1
  /\ added' = added \cup {t}
  /\ UNCHANGED <<terminate, threadVars, done, owed>>

AddTask(c, t) ==
  /\ cpc[c] = "idle"
  /\ t \notin added
  /\ mutex = NoThread
  /\ ~terminate
  /\ tasks' = Append(tasks, t)
  /\ task_count' = task_count + 1
  /\ added' = added \cup {t}
  /\ cpc' = [cpc EXCEPT ![c] = "notify_one"]
  /\ UNCHANGED <<terminate, mutex, wpc, wtask, done, owed>>

\* notify_one, after the mutex was released: it wakes any one sleeping worker.
NotifyOne(c) ==
  /\ cpc[c] = "notify_one"
  /\ \/ /\ Sleeping(wpc) = {}
        /\ wpc' = wpc
     \/ \E w \in Sleeping(wpc) : wpc' = Woken(wpc, {w}, "lock")
  /\ cpc' = [cpc EXCEPT ![c] = "idle"]
  /\ UNCHANGED <<queueVars, mutex, wtask, historyVars>>

(* wait_all *)

WaitAll(c) ==
  /\ cpc[c] = "idle"
  /\ ~terminate
  /\ owed' = [owed EXCEPT ![c] = added]
  /\ cpc' = [cpc EXCEPT ![c] = "wait_lock"]
  /\ UNCHANGED <<queueVars, mutex, wpc, wtask, done, added>>

WaitLock(c) ==
  /\ cpc[c] = "wait_lock"
  /\ mutex = NoThread
  /\ mutex' = c
  /\ cpc' = [cpc EXCEPT ![c] = "wait_check"]
  /\ UNCHANGED <<queueVars, wpc, wtask, historyVars>>

\* Mutant: an empty queue is taken for the end of the work.
WaitOverWhenQueueEmpty == terminate \/ tasks = <<>>

WaitOver == terminate \/ task_count = 0

WaitReturn(c) ==
  /\ cpc[c] = "wait_check"
  /\ WaitOver
  /\ mutex' = NoThread
  /\ owed' = [owed EXCEPT ![c] = {}]
  /\ cpc' = [cpc EXCEPT ![c] = "idle"]
  /\ UNCHANGED <<queueVars, wpc, wtask, done, added>>

WaitMustWait(c) ==
  /\ cpc[c] = "wait_check"
  /\ ~WaitOver
  /\ cpc' = [cpc EXCEPT ![c] = "wait_sleep"]
  /\ UNCHANGED <<queueVars, mutex, wpc, wtask, historyVars>>

WaitSleep(c) ==
  /\ cpc[c] = "wait_sleep"
  /\ mutex' = NoThread
  /\ cpc' = [cpc EXCEPT ![c] = "waiting"]
  /\ UNCHANGED <<queueVars, wpc, wtask, historyVars>>

WaitSpurious(c) ==
  /\ cpc[c] = "waiting"
  /\ cpc' = [cpc EXCEPT ![c] = "wait_lock"]
  /\ UNCHANGED <<queueVars, mutex, wpc, wtask, historyVars>>

-----------------------------------------------------------------------------
(* ~ThreadPool, which C++ lets the owner call only while no other thread   *)
(* is in a call on the pool.  Tasks may still be queued and running.       *)

DtorSignal(c) ==
  /\ c = Owner
  /\ \A d \in Client : cpc[d] = "idle"
  /\ ~terminate
  /\ mutex = NoThread
  /\ terminate' = TRUE
  /\ cpc' = [cpc EXCEPT ![c] = "dtor_notify"]
  /\ UNCHANGED <<tasks, task_count, mutex, wpc, wtask, historyVars>>

\* Mutant: notify_one instead of notify_all.
DtorNotifyOne(c) ==
  /\ cpc[c] = "dtor_notify"
  /\ \/ Sleeping(wpc) = {} /\ wpc' = wpc
     \/ \E w \in Sleeping(wpc) : wpc' = Woken(wpc, {w}, "lock")
  /\ cpc' = [cpc EXCEPT ![c] = "dtor_join"]
  /\ UNCHANGED <<queueVars, mutex, wtask, historyVars>>

DtorNotify(c) ==
  /\ cpc[c] = "dtor_notify"
  /\ wpc' = Woken(wpc, Sleeping(wpc), "lock")
  /\ cpc' = [cpc EXCEPT ![c] = "dtor_join"]
  /\ UNCHANGED <<queueVars, mutex, wtask, historyVars>>

DtorJoin(c) ==
  /\ cpc[c] = "dtor_join"
  /\ \A w \in Worker : wpc[w] = "exited"
  /\ cpc' = [Woken(cpc, Sleeping(cpc), "wait_lock") EXCEPT ![c] = "destroyed"]
  /\ UNCHANGED <<queueVars, mutex, wpc, wtask, historyVars>>

-----------------------------------------------------------------------------
WorkerStep(w) ==
  \/ WorkerLock(w) \/ WorkerMustWait(w) \/ WorkerSleep(w) \/ WorkerExit(w)
  \/ WorkerPop(w) \/ WorkerRun(w) \/ WorkerCount(w) \/ WorkerTest(w)
  \/ WorkerNotify(w)

\* The steps of a call that has begun.
ClientStep(c) ==
  \/ NotifyOne(c)
  \/ WaitLock(c) \/ WaitReturn(c) \/ WaitMustWait(c) \/ WaitSleep(c)
  \/ DtorNotify(c) \/ DtorJoin(c)

\* The beginning of a call, which nothing forces.
ClientCall(c) ==
  \/ \E t \in Task : AddTask(c, t)
  \/ WaitAll(c)
  \/ DtorSignal(c)

PoolNext ==
  \/ \E w \in Worker : WorkerStep(w) \/ WorkerSpurious(w)
  \/ \E c \in Client : ClientCall(c) \/ ClientStep(c) \/ WaitSpurious(c)

PoolSpec == PoolInit /\ [][PoolNext]_poolVars

(***************************************************************************)
(* Every thread is scheduled, and a thread that waits for a mutex that is  *)
(* released again and again gets it at last.  No fairness for starting a   *)
(* call, nor for spurious wakeups.                                         *)
(***************************************************************************)
PoolFairness ==
  /\ \A w \in Worker : /\ WF_poolVars(WorkerStep(w))
                       /\ SF_poolVars(WorkerLock(w))
                       /\ SF_poolVars(WorkerNotify(w))
  /\ \A c \in Client : /\ WF_poolVars(ClientStep(c))
                       /\ SF_poolVars(WaitLock(c))

PoolFairSpec == PoolSpec /\ PoolFairness


-----------------------------------------------------------------------------
(* Properties *)

PoolTypeOK ==
  /\ tasks \in Seq(Task)
  /\ task_count \in Int
  /\ terminate \in BOOLEAN
  /\ mutex \in Worker \cup Client \cup {NoThread}
  /\ wpc \in [Worker -> WorkerPC]
  /\ wtask \in [Worker -> Task \cup {NoTask}]
  /\ cpc \in [Client -> ClientPC]
  /\ done \subseteq Task
  /\ added \subseteq Task
  /\ owed \in [Client -> SUBSET Task]

Taken == {w \in Worker : wpc[w] \in {"run", "count"}}
Running(t) == \E w \in Worker : wpc[w] = "run" /\ wtask[w] = t

(***************************************************************************)
(* task_count_ is the number of tasks queued or taken by a worker that has *)
(* not yet decremented it, although it is incremented under the mutex and  *)
(* decremented without: it never misses a task that wait_all must wait for.*)
(***************************************************************************)
CountIsOutstanding == task_count = Len(tasks) + Cardinality(Taken)

(***************************************************************************)
(* A client asleep (or about to sleep) in wait_all while nothing is left   *)
(* to do has a worker on its way to notify it, though the decrement and    *)
(* the test of task_count_ in worker_loop are outside of the mutex.        *)
(***************************************************************************)
WaiterHasNotifier ==
  (task_count = 0 /\ \E c \in Client : cpc[c] \in {"wait_sleep", "waiting"})
    => \E w \in Worker : wpc[w] \in {"test", "notify"}

(***************************************************************************)
(* With tasks in the queue, not every worker is asleep, unless the client  *)
(* that enqueued the last of them is about to notify_one.                  *)
(***************************************************************************)
QueuedTaskHasWorker ==
  (tasks # <<>> /\ Worker # {})
    => \/ \E w \in Worker : wpc[w] \notin {"sleep", "waiting", "exited"}
       \/ \E c \in Client : cpc[c] \in {"notify_one", "dtor_notify"}

(***************************************************************************)
(* The pool implements the abstract executor: every task runs once,        *)
(* wait_all returns only when the tasks enqueued before it are done, and   *)
(* the destructor drains the queue before it returns; and, the threads     *)
(* being scheduled, every task is done and every wait_all returns.         *)
(***************************************************************************)
statusOf(t) == IF t \in done THEN "done"
               ELSE IF t \notin added THEN "new"
               ELSE IF t \in Queued THEN "pending" ELSE "running"

Executor == INSTANCE TaskExecutor WITH
  status  <- [t \in Task |-> statusOf(t)],
  waits   <- owed,
  inWait  <- {c \in Client : cpc[c] \in {"wait_lock", "wait_check", "wait_sleep", "waiting"}},
  stopped <- cpc[Owner] = "destroyed"

ImplementsExecutor == Executor!FairSpec

(***************************************************************************)
(* The destructor of a pool with workers returns, whatever the workers     *)
(* were doing when it was called.                                          *)
(***************************************************************************)
DestructorReturns == [](terminate => <>(cpc[Owner] = "destroyed"))

=============================================================================
