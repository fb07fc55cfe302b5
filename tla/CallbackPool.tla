---------------------------- MODULE CallbackPool ----------------------------
(***************************************************************************)
(* thread_pool of the TCP server library,                                  *)
(* src/Lab3/src/tcp_server/thread_pool.cpp: the workers that run the       *)
(* reactor's callbacks.  add_task() and fetch_task() hold tasks_mutex;     *)
(* stop() and set_thread_num() write the atomics stop_ and thread_num_ and *)
(* notify without it, so a worker's test of the condition and its going to *)
(* sleep are two steps.                                                    *)
(***************************************************************************)
EXTENDS Naturals, FiniteSets, Sequences

CONSTANTS
  Workers,      \* the threads there can be
  InitWorkers,  \* the threads the constructor starts
  MaxTasks,     \* bound: tasks added
  Sizes,        \* what set_thread_num() may be called with
  Stops         \* may stop() be called?

ASSUME PoolAssumption ==
  /\ IsFiniteSet(Workers) /\ InitWorkers \subseteq Workers
  /\ MaxTasks \in Nat /\ Sizes \subseteq Nat /\ Stops \in BOOLEAN

Nobody == "nobody"

ASSUME NobodyAssumption == Nobody \notin Workers

VARIABLES
  tasks,        \* tasks_, the tasks as numbers in the order they are added
  added,        \* how many tasks were added
  stop,         \* stop_
  thread_num,   \* thread_num_
  started,      \* workers_: the threads started and not yet joined
  mutex,        \* the owner of tasks_mutex among the workers
  waiting,      \* the workers asleep on tasks_cond
  pc,           \* where each worker is
  task,         \* the task it runs, or 0
  owner,        \* where the pool's owner is: "idle", or inside a call
  ran           \* history: how often each task was run

vars == <<tasks, added, stop, thread_num, started, mutex, waiting, pc, task, owner, ran>>

TaskIds == 1..MaxTasks

TypeOK ==
  /\ tasks \in Seq(TaskIds) /\ added \in 0..MaxTasks
  /\ stop \in BOOLEAN /\ thread_num \in Nat
  /\ started \subseteq Workers /\ waiting \subseteq Workers
  /\ mutex \in Workers \cup {Nobody}
  /\ pc \in [Workers -> {"top", "lock", "test", "sleep", "take", "run", "exited"}]
  /\ task \in [Workers -> TaskIds \cup {0}]
  /\ owner \in {"idle", "resize", "notify", "join", "stopped"}
  /\ ran \in [TaskIds -> 0..1]

Init ==
  /\ tasks = <<>> /\ added = 0
  /\ stop = FALSE /\ thread_num = Cardinality(InitWorkers)
  /\ started = InitWorkers /\ mutex = Nobody /\ waiting = {}
  /\ pc = [w \in Workers |-> "top"] /\ task = [w \in Workers |-> 0]
  /\ owner = "idle" /\ ran = [i \in TaskIds |-> 0]

should_stop == stop \/ Cardinality(started) > thread_num

Goto(w, l) == pc' = [pc EXCEPT ![w] = l]

-----------------------------------------------------------------------------
(* init_worker() and fetch_task().                                         *)

Top(w) ==
  /\ pc[w] = "top"
  /\ Goto(w, IF should_stop THEN "exited" ELSE "lock")
  /\ UNCHANGED <<tasks, added, stop, thread_num, started, mutex, waiting, task, owner, ran>>

\* Also how wait() gets the mutex back after it was notified.
Lock(w) ==
  /\ pc[w] = "lock" /\ w \notin waiting /\ mutex = Nobody
  /\ mutex' = w
  /\ Goto(w, "test")
  /\ UNCHANGED <<tasks, added, stop, thread_num, started, waiting, task, owner, ran>>

Test(w) ==
  /\ pc[w] = "test"
  /\ Goto(w, IF should_stop \/ tasks # <<>> THEN "take" ELSE "sleep")
  /\ UNCHANGED <<tasks, added, stop, thread_num, started, mutex, waiting, task, owner, ran>>

Sleep(w) ==
  /\ pc[w] = "sleep"
  /\ waiting' = waiting \cup {w} /\ mutex' = Nobody
  /\ Goto(w, "lock")
  /\ UNCHANGED <<tasks, added, stop, thread_num, started, task, owner, ran>>

\* Mutant: the task is popped before should_stop() is looked at again.
TakeDrops(w) ==
  /\ pc[w] = "take"
  /\ IF should_stop \/ tasks = <<>>
     THEN UNCHANGED task /\ tasks' = SubSeq(tasks, 2, Len(tasks)) /\ Goto(w, "top")
     ELSE task' = [task EXCEPT ![w] = Head(tasks)] /\ tasks' = Tail(tasks) /\ Goto(w, "run")
  /\ mutex' = Nobody
  /\ UNCHANGED <<added, stop, thread_num, started, waiting, owner, ran>>

Take(w) ==
  /\ pc[w] = "take"
  /\ IF should_stop \/ tasks = <<>>
     THEN UNCHANGED <<tasks, task>> /\ Goto(w, "top")
     ELSE task' = [task EXCEPT ![w] = Head(tasks)] /\ tasks' = Tail(tasks) /\ Goto(w, "run")
  /\ mutex' = Nobody
  /\ UNCHANGED <<added, stop, thread_num, started, waiting, owner, ran>>

\* Mutant: a task that throws takes its worker with it.
RunThrows(w) ==
  /\ pc[w] = "run"
  /\ ran' = [ran EXCEPT ![task[w]] = @ + 1]
  /\ task' = [task EXCEPT ![w] = 0]
  /\ Goto(w, "exited")
  /\ UNCHANGED <<tasks, added, stop, thread_num, started, mutex, waiting, owner>>

\* A task that throws is caught.
Run(w) ==
  /\ pc[w] = "run"
  /\ ran' = [ran EXCEPT ![task[w]] = @ + 1]
  /\ task' = [task EXCEPT ![w] = 0]
  /\ Goto(w, "top")
  /\ UNCHANGED <<tasks, added, stop, thread_num, started, mutex, waiting, owner>>

\* A condition variable may wake for no reason.
Spurious(w) ==
  /\ w \in waiting
  /\ waiting' = waiting \ {w}
  /\ UNCHANGED <<tasks, added, stop, thread_num, started, mutex, pc, task, owner, ran>>

-----------------------------------------------------------------------------
(* The calls of the owner.                                                 *)

\* Mutant: the task is queued and nobody is notified.
AddTaskQuietly ==
  /\ owner \in {"idle", "resize"} /\ mutex = Nobody /\ added < MaxTasks
  /\ added' = added + 1
  /\ tasks' = Append(tasks, added + 1)
  /\ UNCHANGED waiting
  /\ UNCHANGED <<stop, thread_num, started, mutex, pc, task, owner, ran>>

\* add_task(), of the polling thread: lock, push, notify_all, unlock.  That
\* thread has ended when the reactor calls stop().
AddTask ==
  /\ owner \in {"idle", "resize"} /\ mutex = Nobody /\ added < MaxTasks
  /\ added' = added + 1
  /\ tasks' = Append(tasks, added + 1)
  /\ waiting' = {}
  /\ UNCHANGED <<stop, thread_num, started, mutex, pc, task, owner, ran>>

\* stop(): stop_ = true
Stop ==
  /\ Stops /\ owner = "idle"
  /\ stop' = TRUE
  /\ owner' = "notify"
  /\ UNCHANGED <<tasks, added, thread_num, started, mutex, waiting, pc, task, ran>>

\* ... tasks_cond.notify_all()
StopNotify ==
  /\ owner = "notify"
  /\ waiting' = {}
  /\ owner' = "join"
  /\ UNCHANGED <<tasks, added, stop, thread_num, started, mutex, pc, task, ran>>

\* ... join all; workers_.clear()
StopJoin ==
  /\ owner = "join"
  /\ \A w \in started : pc[w] = "exited"
  /\ started' = {}
  /\ owner' = "stopped"
  /\ UNCHANGED <<tasks, added, stop, thread_num, mutex, waiting, pc, task, ran>>

\* set_thread_num(n): thread_num_.store(n)
SetThreadNum(n) ==
  /\ owner = "idle"
  /\ thread_num' = n
  /\ owner' = "resize"
  /\ UNCHANGED <<tasks, added, stop, started, mutex, waiting, pc, task, ran>>

\* ... start what is missing, or notify_all().
Resize ==
  /\ owner = "resize"
  /\ IF Cardinality(started) < thread_num
     THEN /\ \E new \in SUBSET (Workers \ started) :
               /\ Cardinality(started \cup new) = thread_num
               /\ started' = started \cup new
          /\ UNCHANGED waiting
     ELSE waiting' = {} /\ UNCHANGED started
  /\ owner' = "idle"
  /\ UNCHANGED <<tasks, added, stop, thread_num, mutex, pc, task, ran>>

WorkerStep(w) ==
  /\ w \in started
  /\ Top(w) \/ Lock(w) \/ Test(w) \/ Sleep(w) \/ Take(w) \/ Run(w)

OwnerReturns == StopNotify \/ StopJoin \/ Resize

Next == \/ \E w \in Workers : WorkerStep(w) \/ Spurious(w)
        \/ AddTask
        \/ Stop
        \/ \E n \in Sizes : SetThreadNum(n)
        \/ OwnerReturns

\* Threads run; a mutex that is free again and again is got by everyone who
\* tries; the owner is under no obligation to call anything.
Fairness == /\ \A w \in Workers : SF_vars(WorkerStep(w))
            /\ WF_vars(OwnerReturns)

Spec == Init /\ [][Next]_vars /\ Fairness

-----------------------------------------------------------------------------
(* Properties.                                                             *)

\* A callback handed to add_task() is run at most once, and it is in the
\* queue, with a worker, or done: the reactor's is_executing flags are reset
\* by the callback itself, so a lost or doubled one would disable its fd.
EveryTaskOnce ==
  \A i \in 1..added :
    ran[i] + Cardinality({k \in 1..Len(tasks) : tasks[k] = i})
           + Cardinality({w \in Workers : task[w] = i}) = 1

\* No lost wakeup in add_task(): while there is a task and the pool goes on,
\* some worker is awake.
WorkHasWorker ==
  tasks # <<>> /\ ~should_stop
    => \E w \in started : w \notin waiting /\ pc[w] # "exited"

\* Every task is run as long as the pool is neither stopped nor shrunk.
TasksRun == \A i \in TaskIds : added >= i ~> ran[i] > 0 \/ should_stop

\* stop() stops the pool: it comes back from joining the workers.
StopReturns == stop ~> owner = "stopped"

\* After set_thread_num() "some fast workers will exit their loops", and
\* thread_num_ of them are left to run tasks.
KeepsWorkers ==
  ~stop /\ owner = "idle"
    => Cardinality({w \in started : pc[w] # "exited"}) >= thread_num

-----------------------------------------------------------------------------
(* The inductive invariants behind EveryTaskOnce and WorkHasWorker.        *)

\* The queue holds the tasks added last, in their order.  The ones before have
\* been taken: one worker has the task, or it has been run.
OnceInv ==
  LET taken == added - Len(tasks) IN
  /\ Len(tasks) <= added /\ \A k \in 1..Len(tasks) : tasks[k] = taken + k
  /\ \A w \in Workers : task[w] <= taken /\ (task[w] # 0 <=> pc[w] = "run")
  /\ \A v, w \in Workers : task[v] = task[w] /\ task[v] # 0 => v = w
  /\ \A i \in TaskIds : ran[i] = 1 <=> i <= taken /\ \A w \in Workers : task[w] # i

\* Between the test of the condition and the sleep the mutex is held, so
\* nobody sleeps, or is about to, while there is a task.
MutexInv ==
  /\ \A w \in Workers : pc[w] \in {"test", "sleep", "take"} => mutex = w
  /\ \A w \in Workers : pc[w] = "sleep" => tasks = <<>>
  /\ tasks # <<>> => waiting = {}

PoolInv == TypeOK /\ OnceInv /\ MutexInv

\* As long as thread_num_ never falls the workers leave only after stop().
GrowInv ==
  /\ Cardinality(started) <= thread_num
  /\ owner \in {"notify", "join", "stopped"} => stop
  /\ ~stop => started # {} /\ \A w \in Workers : pc[w] # "exited"

\* set_thread_num() is only called to add workers.
NeverShrunk == [][thread_num' >= thread_num]_vars
=============================================================================
