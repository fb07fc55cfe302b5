------------------------- MODULE CallbackPoolProofs -------------------------
(***************************************************************************)
(* The thread pool of the TCP server library: for any number of threads    *)
(* and of tasks, whenever stop() and set_thread_num() are called, a task   *)
(* is run at most once and never lost; and while the pool is never shrunk  *)
(* a queued task never meets only sleeping or ended workers.               *)
(***************************************************************************)
EXTENDS CallbackPool, SequenceTheorems, FiniteSetTheorems, TLAPS

(* What push() does to the queue. *)
LEMMA Pushed ==
  ASSUME NEW S, NEW q \in Seq(S), NEW x \in S
  PROVE  /\ Append(q, x) \in Seq(S) /\ Len(q) \in Nat /\ Len(Append(q, x)) = Len(q) + 1
         /\ \A k \in 1..Len(q) : Append(q, x)[k] = q[k]
         /\ Append(q, x)[Len(q) + 1] = x
         /\ Append(q, x) # <<>>
BY AppendProperties, EmptySeq

(* What front() and pop() do to it. *)
LEMMA Popped ==
  ASSUME NEW S, NEW q \in Seq(S), q # <<>>
  PROVE  /\ Tail(q) \in Seq(S) /\ Len(q) \in Nat \ {0} /\ Len(Tail(q)) = Len(q) - 1
         /\ \A k \in 1..Len(q) - 1 : Tail(q)[k] = q[k + 1]
         /\ Head(q) = q[1] /\ Head(q) \in S
BY HeadTailProperties, EmptySeq

(* The numbers of the model are integers. *)
LEMMA Counts ==
  ASSUME TypeOK
  PROVE  /\ tasks \in Seq(TaskIds) /\ Len(tasks) \in Nat /\ added \in Nat /\ added <= MaxTasks
         /\ MaxTasks \in Nat /\ (\A i \in TaskIds : i \in Nat /\ i > 0)
         /\ \A w \in Workers : task[w] \in Nat
BY PoolAssumption DEF TypeOK, TaskIds

(* Only tasks and ran are in question when the queue stays as it is. *)
LEMMA SameTasks ==
  ASSUME OnceInv, UNCHANGED <<tasks, added, task, ran>>,
         \A w \in Workers : pc'[w] = "run" <=> pc[w] = "run"
  PROVE  OnceInv'
BY DEF OnceInv

-----------------------------------------------------------------------------
(* PoolInv is inductive: the initial state, then one lemma per action.     *)

(* At the start there is no task. *)
LEMMA InitPoolInv == Init => PoolInv
<1> SUFFICES ASSUME Init PROVE PoolInv
  OBVIOUS
<1>1. Cardinality(InitWorkers) \in Nat
  BY PoolAssumption, FS_Subset, FS_CardinalityType
<1>2. /\ task \in [Workers -> TaskIds \cup {0}] /\ ran \in [TaskIds -> 0..1]
      /\ pc \in [Workers -> {"top", "lock", "test", "sleep", "take", "run", "exited"}]
      /\ \A w \in Workers : task[w] = 0 /\ pc[w] = "top"
      /\ \A i \in TaskIds : ran[i] = 0
  BY DEF Init
<1>3. TypeOK
  <2>1. tasks \in Seq(TaskIds) /\ added \in 0..MaxTasks /\ thread_num \in Nat
    <3>1. tasks = <<>> /\ added = 0 /\ thread_num = Cardinality(InitWorkers)
      BY DEF Init
    <3> QED
      BY <1>1, <3>1, PoolAssumption
  <2>2. started \subseteq Workers /\ waiting \subseteq Workers /\ mutex \in Workers \cup {Nobody}
    BY PoolAssumption DEF Init
  <2>3. stop \in BOOLEAN /\ owner = "idle"
    BY DEF Init
  <2> QED
    BY <1>2, <2>1, <2>2, <2>3 DEF TypeOK
<1>4. OnceInv
  <2>1. Len(tasks) = 0 /\ added = 0 /\ added - Len(tasks) = 0
    <3>1. tasks = <<>> /\ added = 0
      BY DEF Init
    <3>2. Len(tasks) = 0
      BY <3>1, EmptySeq
    <3>3. added \in Nat /\ Len(tasks) \in Nat
      BY <3>1, <3>2
    <3>4. \A m, n \in Nat : m = 0 /\ n = 0 => m - n = 0
      OBVIOUS
    <3> QED
      BY <3>1, <3>2, <3>3, <3>4
  <2>2. \A i \in TaskIds : i \in Nat /\ i > 0
    BY DEF TaskIds
  <2> QED
    BY <1>2, <2>1, <2>2 DEF OnceInv
<1>5. MutexInv
  BY <1>2 DEF Init, MutexInv
<1> QED
  BY <1>3, <1>4, <1>5 DEF PoolInv

(* The loop of init_worker() and the test of the condition. *)
LEMMA TopTestInv ==
  ASSUME PoolInv, NEW w \in Workers, Top(w) \/ Test(w)
  PROVE  PoolInv'
<1> USE DEF PoolInv
<1>1. /\ UNCHANGED <<tasks, added, stop, thread_num, started, mutex, waiting, task, owner, ran>>
      /\ \E l \in {"exited", "lock", "take", "sleep"} : pc' = [pc EXCEPT ![w] = l]
      /\ pc[w] \in {"top", "test"}
  BY DEF Top, Test, Goto
<1>2. PICK l \in {"exited", "lock", "take", "sleep"} : pc' = [pc EXCEPT ![w] = l]
  BY <1>1
<1>3. \A v \in Workers : pc'[v] = IF v = w THEN l ELSE pc[v]
  BY <1>2 DEF TypeOK
<1>4. TypeOK'
  BY <1>1, <1>2 DEF TypeOK
<1>5. OnceInv'
  BY <1>1, <1>3, SameTasks
<1>6. MutexInv'
  <2>1. CASE Top(w)
    <3>1. l \in {"exited", "lock"}
      BY <1>3, <2>1 DEF Top, Goto, TypeOK
    <3> QED
      BY <1>1, <1>3, <3>1 DEF MutexInv
  <2>2. CASE Test(w)
    <3>1. l = "sleep" => tasks = <<>>
      BY <1>3, <2>2 DEF Test, Goto, TypeOK
    <3>2. mutex = w
      BY <2>2 DEF Test, MutexInv
    <3> QED
      BY <1>1, <1>3, <3>1, <3>2 DEF MutexInv
  <2> QED
    BY <2>1, <2>2
<1> QED
  BY <1>4, <1>5, <1>6

(* A worker gets the mutex. *)
LEMMA LockInv ==
  ASSUME PoolInv, NEW w \in Workers, Lock(w)
  PROVE  PoolInv'
<1> USE DEF PoolInv
<1>1. \A v \in Workers : pc'[v] = IF v = w THEN "test" ELSE pc[v]
  BY DEF Lock, Goto, TypeOK
<1>2. TypeOK'
  BY DEF Lock, Goto, TypeOK
<1>3. OnceInv'
  BY <1>1, SameTasks DEF Lock
<1>4. MutexInv'
  BY <1>1, NobodyAssumption DEF Lock, MutexInv
<1> QED
  BY <1>2, <1>3, <1>4

(* A worker falls asleep: the queue is still empty. *)
LEMMA SleepInv ==
  ASSUME PoolInv, NEW w \in Workers, Sleep(w)
  PROVE  PoolInv'
<1> USE DEF PoolInv
<1>1. \A v \in Workers : pc'[v] = IF v = w THEN "lock" ELSE pc[v]
  BY DEF Sleep, Goto, TypeOK
<1>2. TypeOK'
  BY DEF Sleep, Goto, TypeOK
<1>3. OnceInv'
  BY <1>1, SameTasks DEF Sleep
<1>4. MutexInv'
  BY <1>1 DEF Sleep, MutexInv
<1> QED
  BY <1>2, <1>3, <1>4

(* fetch_task() returns the first task, or none. *)
LEMMA TakeInv ==
  ASSUME PoolInv, NEW w \in Workers, Take(w)
  PROVE  PoolInv'
<1> USE DEF PoolInv
<1>1. /\ pc[w] = "take" /\ mutex = w /\ mutex' = Nobody
      /\ UNCHANGED <<added, stop, thread_num, started, waiting, owner, ran>>
      /\ \A v \in Workers : v # w => pc[v] \notin {"test", "sleep", "take"}
  BY DEF Take, MutexInv
<1>2. CASE should_stop \/ tasks = <<>>
  <2>1. UNCHANGED <<tasks, task>> /\ pc' = [pc EXCEPT ![w] = "top"]
    BY <1>2 DEF Take, Goto
  <2>2. \A v \in Workers : pc'[v] = IF v = w THEN "top" ELSE pc[v]
    BY <2>1 DEF TypeOK
  <2>3. TypeOK'
    BY <1>1, <2>1 DEF TypeOK
  <2>4. OnceInv'
    BY <1>1, <2>1, <2>2, SameTasks
  <2>5. MutexInv'
    BY <1>1, <2>1, <2>2 DEF MutexInv
  <2> QED
    BY <2>3, <2>4, <2>5
<1>3. CASE ~(should_stop \/ tasks = <<>>)
  <2>1. /\ task' = [task EXCEPT ![w] = Head(tasks)] /\ tasks' = Tail(tasks)
        /\ pc' = [pc EXCEPT ![w] = "run"] /\ tasks # <<>>
    BY <1>3 DEF Take, Goto
  <2>2. /\ tasks' \in Seq(TaskIds) /\ Len(tasks) \in Nat \ {0} /\ Len(tasks') = Len(tasks) - 1
        /\ \A k \in 1..Len(tasks) - 1 : tasks'[k] = tasks[k + 1]
        /\ Head(tasks) = tasks[1] /\ Head(tasks) \in TaskIds
    BY <2>1, Counts, Popped
  <2>3. /\ \A v \in Workers : pc'[v] = IF v = w THEN "run" ELSE pc[v]
        /\ \A v \in Workers : task'[v] = IF v = w THEN tasks[1] ELSE task[v]
    BY <2>1, <2>2 DEF TypeOK
  <2>4. TypeOK'
    BY <1>1, <2>1, <2>2 DEF TypeOK
  <2>5. OnceInv'
    <3> DEFINE taken == added - Len(tasks)
    <3>1. taken \in Int /\ added' - Len(tasks') = taken + 1 /\ tasks[1] = taken + 1
          /\ Len(tasks') <= added'
      BY <1>1, <2>2, Counts DEF OnceInv
    <3>2. \A k \in 1..Len(tasks') : tasks'[k] = taken + 1 + k
      <4> SUFFICES ASSUME NEW k \in 1..Len(tasks') PROVE tasks'[k] = taken + 1 + k
        OBVIOUS
      <4>1. k + 1 \in 1..Len(tasks) /\ tasks'[k] = tasks[k + 1]
        BY <2>2
      <4>2. tasks[k + 1] = taken + (k + 1)
        BY <4>1 DEF OnceInv
      <4> QED
        BY <3>1, <4>1, <4>2
    <3>3. /\ \A v \in Workers : task[v] \in Nat /\ task[v] <= taken /\ (task[v] # 0 <=> pc[v] = "run")
          /\ \A u, v \in Workers : task[u] = task[v] /\ task[u] # 0 => u = v
          /\ \A i \in TaskIds : ran[i] = 1 <=> i <= taken /\ \A v \in Workers : task[v] # i
          /\ \A i \in TaskIds : i \in Nat /\ i > 0
      BY Counts DEF OnceInv
    <3> HIDE DEF taken
    <3>4. task[w] = 0 /\ taken + 1 \in TaskIds
      BY <1>1, <2>2, <3>1, <3>3
    <3>5. \A v \in Workers : task'[v] <= taken + 1 /\ (task'[v] # 0 <=> pc'[v] = "run")
      BY <2>3, <3>1, <3>3, <3>4
    <3>6. \A u, v \in Workers : task'[u] = task'[v] /\ task'[u] # 0 => u = v
      BY <2>3, <3>1, <3>3
    <3>7. ASSUME NEW i \in TaskIds
          PROVE  ran[i] = 1 <=> i <= taken + 1 /\ \A v \in Workers : task'[v] # i
      <4>1. CASE i = taken + 1
        BY <2>3, <3>1, <3>3, <4>1
      <4>2. CASE i # taken + 1
        <5>1. (\A v \in Workers : task'[v] # i) <=> (\A v \in Workers : task[v] # i)
          BY <2>3, <3>1, <3>3, <3>4, <4>2
        <5>2. i <= taken + 1 <=> i <= taken
          BY <3>1, <3>3, <4>2
        <5> QED
          BY <3>3, <5>1, <5>2
      <4> QED
        BY <4>1, <4>2
    <3> QED
      BY <1>1, <3>1, <3>2, <3>5, <3>6, <3>7 DEF OnceInv
  <2>6. MutexInv'
    BY <1>1, <2>1, <2>3 DEF MutexInv
  <2> QED
    BY <2>4, <2>5, <2>6
<1> QED
  BY <1>2, <1>3

(* The task is run by the one worker that has it. *)
LEMMA RunInv ==
  ASSUME PoolInv, NEW w \in Workers, Run(w)
  PROVE  PoolInv'
<1> USE DEF PoolInv
<1> DEFINE t == task[w]
<1>1. /\ t \in TaskIds /\ t # 0 /\ t <= added - Len(tasks) /\ ran[t] = 0
      /\ pc[w] = "run"
  <2>1. t \in TaskIds /\ t # 0 /\ t <= added - Len(tasks) /\ ran[t] # 1
    BY DEF Run, OnceInv, TypeOK
  <2>2. ran \in [TaskIds -> 0..1]
    BY DEF TypeOK
  <2> QED
    BY <2>1, <2>2 DEF Run
<1>2. /\ \A v \in Workers : pc'[v] = IF v = w THEN "top" ELSE pc[v]
      /\ \A v \in Workers : task'[v] = IF v = w THEN 0 ELSE task[v]
      /\ task' \in [Workers -> TaskIds \cup {0}]
  BY DEF Run, Goto, TypeOK
<1>3. /\ \A i \in TaskIds : ran'[i] = IF i = t THEN 1 ELSE ran[i]
      /\ ran' \in [TaskIds -> 0..1]
  BY <1>1 DEF Run, TypeOK
<1>4. UNCHANGED <<tasks, added, stop, thread_num, started, mutex, waiting, owner>>
      /\ pc' = [pc EXCEPT ![w] = "top"]
  BY DEF Run, Goto
<1>5. TypeOK'
  BY <1>2, <1>3, <1>4 DEF TypeOK
<1>6. OnceInv'
  <2> DEFINE taken == added - Len(tasks)
  <2>1. /\ taken \in Int /\ 0 <= taken /\ Len(tasks) <= added
        /\ \A k \in 1..Len(tasks) : tasks[k] = taken + k
        /\ \A v \in Workers : task[v] <= taken /\ (task[v] # 0 <=> pc[v] = "run")
        /\ \A u, v \in Workers : task[u] = task[v] /\ task[u] # 0 => u = v
        /\ \A i \in TaskIds : ran[i] = 1 <=> i <= taken /\ \A v \in Workers : task[v] # i
        /\ \A i \in TaskIds : i \in Nat /\ i > 0
    BY Counts DEF OnceInv
  <2>2. t <= taken
    BY <1>1
  <2> HIDE DEF taken, t
  <2>3. \A v \in Workers : task'[v] <= taken /\ (task'[v] # 0 <=> pc'[v] = "run")
    BY <1>2, <2>1
  <2>4. \A u, v \in Workers : task'[u] = task'[v] /\ task'[u] # 0 => u = v
    BY <1>2, <2>1
  <2>5. ASSUME NEW i \in TaskIds
        PROVE  ran'[i] = 1 <=> i <= taken /\ \A v \in Workers : task'[v] # i
    <3>1. CASE i = t
      <4>1. ran'[i] = 1 /\ i <= taken /\ i # 0
        BY <1>1, <1>3, <2>2, <3>1
      <4>2. \A v \in Workers : task'[v] # i
        BY <1>2, <2>1, <3>1, <4>1 DEF t
      <4> QED
        BY <4>1, <4>2
    <3>2. CASE i # t
      <4>1. (\A v \in Workers : task'[v] # i) <=> (\A v \in Workers : task[v] # i)
        BY <1>2, <2>1, <3>2 DEF t
      <4> QED
        BY <1>3, <2>1, <3>2, <4>1
    <3> QED
      BY <3>1, <3>2
  <2> QED
    BY <1>4, <2>1, <2>3, <2>4, <2>5 DEF OnceInv, taken
<1>7. MutexInv'
  BY <1>1, <1>2, <1>4 DEF MutexInv
<1> QED
  BY <1>5, <1>6, <1>7

(* add_task(): the task is queued and everybody woken. *)
LEMMA AddTaskInv ==
  ASSUME PoolInv, AddTask
  PROVE  PoolInv'
<1> USE DEF PoolInv
<1>1. /\ added' = added + 1 /\ tasks' = Append(tasks, added + 1) /\ waiting' = {}
      /\ mutex = Nobody /\ added < MaxTasks
      /\ UNCHANGED <<stop, thread_num, started, mutex, pc, task, owner, ran>>
  BY DEF AddTask
<1>2. added + 1 \in TaskIds /\ added' \in 0..MaxTasks
  BY <1>1, Counts DEF TaskIds
<1>3. /\ tasks' \in Seq(TaskIds) /\ Len(tasks) \in Nat /\ Len(tasks') = Len(tasks) + 1
      /\ \A k \in 1..Len(tasks) : tasks'[k] = tasks[k]
      /\ tasks'[Len(tasks) + 1] = added + 1 /\ tasks' # <<>>
  BY <1>1, <1>2, Counts, Pushed
<1>4. TypeOK'
  BY <1>1, <1>2, <1>3 DEF TypeOK
<1>5. OnceInv'
  <2>1. added' - Len(tasks') = added - Len(tasks) /\ Len(tasks') <= added'
    BY <1>1, <1>3, Counts DEF OnceInv
  <2>2. \A k \in 1..Len(tasks') : tasks'[k] = (added - Len(tasks)) + k
    <3> SUFFICES ASSUME NEW k \in 1..Len(tasks') PROVE tasks'[k] = (added - Len(tasks)) + k
      OBVIOUS
    <3>1. CASE k = Len(tasks) + 1
      BY <1>3, <3>1, Counts
    <3>2. CASE k # Len(tasks) + 1
      <4>1. k \in 1..Len(tasks)
        BY <1>3, <3>2
      <4> QED
        BY <1>3, <4>1 DEF OnceInv
    <3> QED
      BY <3>1, <3>2
  <2> QED
    BY <1>1, <2>1, <2>2 DEF OnceInv
<1>6. MutexInv'
  BY <1>1, NobodyAssumption DEF MutexInv
<1> QED
  BY <1>4, <1>5, <1>6

(* What the owner does, and a wakeup for no reason, touches no task. *)
LEMMA OwnerInv ==
  ASSUME PoolInv, UNCHANGED <<tasks, added, mutex, pc, task, ran>>,
         waiting' \subseteq waiting, started' \subseteq Workers, stop' \in BOOLEAN,
         thread_num' \in Nat, owner' \in {"idle", "resize", "notify", "join", "stopped"}
  PROVE  PoolInv'
<1>1. TypeOK'
  BY DEF PoolInv, TypeOK
<1>2. OnceInv'
  BY SameTasks DEF PoolInv
<1>3. MutexInv'
  BY DEF PoolInv, MutexInv
<1> QED
  BY <1>1, <1>2, <1>3 DEF PoolInv

(* Every step of the workers and of the owner keeps PoolInv. *)
LEMMA NextPoolInv == PoolInv /\ [Next]_vars => PoolInv'
<1> SUFFICES ASSUME PoolInv, [Next]_vars PROVE PoolInv'
  OBVIOUS
<1>1. CASE \E w \in Workers : WorkerStep(w)
  BY <1>1, TopTestInv, LockInv, SleepInv, TakeInv, RunInv DEF WorkerStep
<1>2. CASE AddTask
  BY <1>2, AddTaskInv
<1>3. /\ started \subseteq Workers /\ stop \in BOOLEAN /\ thread_num \in Nat
      /\ owner \in {"idle", "resize", "notify", "join", "stopped"}
  BY DEF PoolInv, TypeOK
<1>4. CASE \E w \in Workers : Spurious(w)
  BY <1>3, <1>4, OwnerInv DEF Spurious
<1>5. CASE Stop \/ StopNotify \/ StopJoin
  BY <1>3, <1>5, OwnerInv DEF Stop, StopNotify, StopJoin
<1>6. CASE \E n \in Sizes : SetThreadNum(n)
  BY <1>3, <1>6, OwnerInv, PoolAssumption DEF SetThreadNum
<1>7. CASE Resize
  <2>1. waiting' \subseteq waiting
    BY <1>7 DEF Resize
  <2>2. started' \subseteq Workers
    BY <1>3, <1>7 DEF Resize
  <2> QED
    BY <1>3, <1>7, <2>1, <2>2, OwnerInv DEF Resize
<1>8. CASE UNCHANGED vars
  BY <1>3, <1>8, OwnerInv DEF vars
<1> QED
  BY <1>1, <1>2, <1>4, <1>5, <1>6, <1>7, <1>8 DEF Next, OwnerReturns

-----------------------------------------------------------------------------
(* What follows from PoolInv.                                              *)

(* The queue, the workers and the history share the tasks out. *)
LEMMA EveryTaskOnceFollows == PoolInv => EveryTaskOnce
<1> SUFFICES ASSUME PoolInv, NEW i \in 1..added
             PROVE  ran[i] + Cardinality({k \in 1..Len(tasks) : tasks[k] = i})
                           + Cardinality({w \in Workers : task[w] = i}) = 1
  BY DEF EveryTaskOnce
<1> DEFINE taken == added - Len(tasks)
           K == {k \in 1..Len(tasks) : tasks[k] = i}
           W == {w \in Workers : task[w] = i}
<1>1. /\ taken \in Int /\ i \in TaskIds /\ i \in Nat /\ i # 0 /\ Len(tasks) \in Nat
      /\ i <= added /\ added \in Nat
  BY Counts DEF PoolInv, TaskIds
<1>2. /\ \A k \in 1..Len(tasks) : tasks[k] = taken + k
      /\ \A w \in Workers : task[w] <= taken
      /\ \A v, w \in Workers : task[v] = task[w] /\ task[v] # 0 => v = w
      /\ ran[i] = 1 <=> i <= taken /\ \A w \in Workers : task[w] # i
      /\ ran[i] \in 0..1
  BY <1>1 DEF PoolInv, OnceInv, TypeOK
<1>3. CASE i > taken
  <2>1. K = {i - taken}
    BY <1>1, <1>2, <1>3
  <2>2. W = {}
    <3>1. \A w \in Workers : task[w] \in Nat
      BY Counts DEF PoolInv
    <3> QED
      BY <1>1, <1>2, <1>3, <3>1
  <2>3. ran[i] = 0
    BY <1>1, <1>2, <1>3
  <2>4. Cardinality(K) = 1 /\ Cardinality(W) = 0
    BY <2>1, <2>2, FS_Singleton, FS_EmptySet
  <2> QED
    BY <2>3, <2>4
<1>4. CASE i <= taken
  <2>1. K = {}
    BY <1>1, <1>2, <1>4
  <2>2. Cardinality(K) = 0
    BY <2>1, FS_EmptySet
  <2>3. CASE W = {}
    <3>1. ran[i] = 1
      BY <1>2, <1>4, <2>3
    <3>2. Cardinality(W) = 0
      BY <2>3, FS_EmptySet
    <3> QED
      BY <2>2, <3>1, <3>2
  <2>4. CASE W # {}
    <3>1. PICK w \in Workers : task[w] = i
      BY <2>4
    <3>2. W = {w}
      BY <1>1, <1>2, <3>1
    <3>3. Cardinality(W) = 1
      BY <3>2, FS_Singleton
    <3>4. ran[i] = 0
      BY <1>2, <3>1
    <3> QED
      BY <2>2, <3>3, <3>4
  <2> QED
    BY <2>3, <2>4
<1> QED
  BY <1>1, <1>3, <1>4

(* A pool that starts with a worker and is never shrunk keeps one. *)
LEMMA InitGrowInv == InitWorkers # {} /\ Init => GrowInv
<1> SUFFICES ASSUME InitWorkers # {}, Init PROVE GrowInv
  OBVIOUS
<1>1. Cardinality(InitWorkers) \in Nat
  BY PoolAssumption, FS_Subset, FS_CardinalityType
<1> QED
  BY <1>1 DEF Init, GrowInv

(* One step of such a pool: with no more threads than thread_num_, only stop()
   makes should_stop() true. *)
LEMMA NextGrowInv ==
  PoolInv /\ GrowInv /\ [Next]_vars /\ [thread_num' >= thread_num]_vars => GrowInv'
<1> SUFFICES ASSUME PoolInv, GrowInv, [Next]_vars, [thread_num' >= thread_num]_vars
             PROVE  GrowInv'
  OBVIOUS
<1>1. Cardinality(started) \in Nat /\ thread_num \in Nat
  <2>1. started \subseteq Workers /\ thread_num \in Nat
    BY DEF PoolInv, TypeOK
  <2> QED
    BY <2>1, PoolAssumption, FS_Subset, FS_CardinalityType
<1>2. should_stop <=> stop
  BY <1>1 DEF should_stop, GrowInv
<1>3. CASE \E w \in Workers : WorkerStep(w)
  <2>1. PICK w \in Workers : WorkerStep(w)
    BY <1>3
  <2>2. /\ UNCHANGED <<stop, thread_num, started, owner>>
        /\ \E l \in {"exited", "top", "lock", "test", "sleep", "take", "run"} :
             pc' = [pc EXCEPT ![w] = l] /\ (l = "exited" => stop)
    BY <1>2, <2>1 DEF WorkerStep, Top, Lock, Test, Sleep, Take, Run, Goto
  <2>3. \A v \in Workers : pc'[v] = "exited" => stop \/ pc[v] = "exited"
    BY <2>2 DEF PoolInv, TypeOK
  <2> QED
    BY <2>2, <2>3 DEF GrowInv
<1>4. CASE AddTask \/ \E w \in Workers : Spurious(w)
  BY <1>4 DEF AddTask, Spurious, GrowInv
<1>5. CASE Stop \/ StopNotify
  BY <1>5 DEF Stop, StopNotify, GrowInv
<1>6. CASE StopJoin
  <2>1. Cardinality(started') = 0
    BY <1>6, FS_EmptySet DEF StopJoin
  <2> QED
    BY <1>1, <1>6, <2>1 DEF StopJoin, GrowInv
<1>7. CASE \E n \in Sizes : SetThreadNum(n)
  <2>1. thread_num' \in Nat /\ thread_num' >= thread_num
    <3>1. thread_num' \in Nat /\ vars' # vars
      BY <1>7, PoolAssumption DEF SetThreadNum, vars
    <3> QED
      BY <3>1
  <2> QED
    BY <1>1, <1>7, <2>1 DEF SetThreadNum, GrowInv
<1>8. CASE Resize
  <2>1. UNCHANGED <<stop, thread_num, pc>> /\ owner' = "idle"
    BY <1>8 DEF Resize
  <2>2. Cardinality(started') <= thread_num' /\ started \subseteq started'
    <3>1. CASE Cardinality(started) < thread_num
      <4>1. PICK new : Cardinality(started \cup new) = thread_num /\ started' = started \cup new
        BY <1>8, <3>1 DEF Resize
      <4>2. Cardinality(started') = thread_num
        BY <4>1
      <4> QED
        BY <1>1, <2>1, <4>1, <4>2
    <3>2. CASE ~(Cardinality(started) < thread_num)
      BY <1>8, <2>1, <3>2 DEF Resize, GrowInv
    <3> QED
      BY <3>1, <3>2
  <2> QED
    BY <2>1, <2>2 DEF GrowInv
<1>9. CASE UNCHANGED vars
  BY <1>9 DEF vars, GrowInv
<1> QED
  BY <1>3, <1>4, <1>5, <1>6, <1>7, <1>8, <1>9 DEF Next, OwnerReturns

-----------------------------------------------------------------------------
(* The theorems.                                                           *)

(* In every reachable state the queue is the tail of what add_task() was given
   and the tests of the condition variable are made under the mutex. *)
THEOREM PoolInductive == Spec => []PoolInv
BY InitPoolInv, NextPoolInv, PTL DEF Spec

(* Every callback handed to add_task() is queued, with one worker or has been
   run once, whatever stop() and set_thread_num() do. *)
THEOREM TaskRunsOnce == Spec => []EveryTaskOnce
BY PoolInductive, EveryTaskOnceFollows, PTL

(* While set_thread_num() never shrinks a pool that started with a worker,
   add_task() loses no wakeup: some worker is awake as long as there is a
   task. *)
THEOREM NoLostWakeup == InitWorkers # {} => (Spec /\ NeverShrunk => []WorkHasWorker)
<1> SUFFICES ASSUME InitWorkers # {} PROVE Spec /\ NeverShrunk => []WorkHasWorker
  OBVIOUS
<1>1. Init => GrowInv
  BY InitGrowInv
<1>2. PoolInv /\ GrowInv => WorkHasWorker
  BY DEF PoolInv, MutexInv, GrowInv, WorkHasWorker, TypeOK, should_stop
<1> QED
  BY <1>1, <1>2, InitPoolInv, NextPoolInv, NextGrowInv, PTL DEF Spec, NeverShrunk
=============================================================================
