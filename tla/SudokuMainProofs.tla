-------------------------- MODULE SudokuMainProofs --------------------------
(***************************************************************************)
(* The Sudoku program of Lab 1: for any number of workers and any text,    *)
(* the answers come out in the order of the lines, none is lost when       *)
(* main() ends, and one notify_one() for each task is enough.  SInv is     *)
(* inductive.  What the solver answers is not looked into: Answers stays   *)
(* folded in every step.                                                   *)
(***************************************************************************)
EXTENDS SudokuMain, SequenceTheorems, FiniteSetTheorems, TLAPS

(* The lines are numbered by naturals. *)
LEMMA TextLength == Len(Text) \in Nat
BY SudokuAssumption, LenProperties

(* What push() does to a queue. *)
LEMMA Pushed ==
  ASSUME NEW S, NEW q \in Seq(S), NEW x \in S
  PROVE  /\ Append(q, x) \in Seq(S) /\ Len(q) \in Nat /\ Len(Append(q, x)) = Len(q) + 1
         /\ \A k \in 1..Len(q) : Append(q, x)[k] = q[k]
         /\ Append(q, x)[Len(q) + 1] = x
BY AppendProperties

(* What front() and pop() do to it. *)
LEMMA Popped ==
  ASSUME NEW S, NEW q \in Seq(S), q # <<>>
  PROVE  /\ Tail(q) \in Seq(S) /\ Len(q) \in Nat \ {0} /\ Len(Tail(q)) = Len(q) - 1
         /\ \A k \in 1..Len(q) - 1 : Tail(q)[k] = q[k + 1]
         /\ Head(q) = q[1] /\ Head(q) \in S
BY HeadTailProperties, EmptySeq

(* The workers on their way to the queue can be counted. *)
LEMMA ReadyFinite ==
  ASSUME NEW S \in SUBSET Workers
  PROVE  IsFiniteSet(S) /\ Cardinality(S) \in Nat
BY SudokuAssumption, FS_Subset, FS_CardinalityType

(* One more, or one less. *)
LEMMA OneMore ==
  ASSUME NEW S \in SUBSET Workers, NEW w \in Workers, w \notin S
  PROVE  Cardinality(S \cup {w}) = Cardinality(S) + 1
BY ReadyFinite, FS_AddElement

(* One worker fewer. *)
LEMMA OneLess ==
  ASSUME NEW S \in SUBSET Workers, NEW w \in S
  PROVE  Cardinality(S \ {w}) = Cardinality(S) - 1
BY ReadyFinite, FS_RemoveElement

-----------------------------------------------------------------------------
(* SInv is inductive: the initial state, then one lemma per action.        *)

(* Before the first file there is nothing to solve. *)
LEMMA InitSInv == Init => SInv
<1> SUFFICES ASSUME Init PROVE SInv
  OBVIOUS
<1>1. TypeOK
  <2>1. value \in [Lines -> Printed \cup {NoValue}] /\ \A l \in Lines : value[l] = NoValue
    BY DEF Init
  <2>2. task \in [Workers -> Lines \cup {0}] /\ \A w \in Workers : task[w] = 0
    BY DEF Init
  <2>3. wpc \in [Workers -> {"fetch", "run", "returned"}] /\ \A w \in Workers : wpc[w] = "fetch"
    BY DEF Init
  <2>4. names \in 0..MaxNames /\ read \in 0..Len(Text) /\ iter \in 0..Len(res)
    BY TextLength, SudokuAssumption DEF Init
  <2>5. tasks \in Seq(Lines) /\ res \in Seq(Lines) /\ out \in Seq(Printed)
    BY DEF Init
  <2> QED
    BY <2>1, <2>2, <2>3, <2>4, <2>5 DEF Init, TypeOK
<1>2. QueueInv /\ FlushInv /\ SleepInv /\ InOrder /\ NobodySleepsInVain
  BY DEF Init, QueueInv, FlushInv, SleepInv, InOrder, NobodySleepsInVain
<1> QED
  BY <1>1, <1>2 DEF SInv

(* A worker goes to sleep: there is nothing to do. *)
LEMMA GoToSleepInv ==
  ASSUME SInv, NEW w \in Workers, wpc[w] = "fetch", tasks = <<>>,
         asleep' = asleep \cup {w}, UNCHANGED <<tasks, wpc, task, done, value, main>>
  PROVE  SInv'
<1> USE DEF SInv, main
<1>1. TypeOK'
  BY DEF TypeOK
<1>2. QueueInv' /\ FlushInv' /\ SleepInv' /\ InOrder'
  BY DEF QueueInv, FlushInv, SleepInv, InOrder
<1>3. NobodySleepsInVain'
  <2>1. Ready' \in SUBSET Workers
    BY DEF Ready
  <2>2. Cardinality(Ready') \in Nat
    BY <2>1, ReadyFinite
  <2>3. Len(tasks') = 0
    OBVIOUS
  <2> QED
    BY <2>2, <2>3 DEF NobodySleepsInVain
<1> QED
  BY <1>1, <1>2, <1>3

(* When done is set the queue is empty: nobody drops a task by returning. *)
LEMMA DoneMeansEmpty ==
  ASSUME SInv, mpc \in {"remaining", "reap", "join", "exited", "threw"}
  PROVE  Len(out) = read /\ tasks = <<>>
<1>1. res = <<>> /\ iter = 0 /\ Len(out) \in Nat /\ Len(tasks) \in Nat /\ read \in Int
      /\ tasks \in Seq(Lines) /\ Len(res) = 0
  <2>1. res = <<>> /\ iter \in 0..Len(res) /\ out \in Seq(Printed) /\ tasks \in Seq(Lines)
        /\ read \in 0..Len(Text)
    BY DEF SInv, TypeOK, FlushInv
  <2>2. Len(res) = 0 /\ iter = 0
    BY <2>1
  <2> QED
    BY <2>1, <2>2, TextLength
<1>2. Len(out) = read
  BY <1>1 DEF SInv, FlushInv
<1>3. Len(tasks) = 0
  BY <1>1, <1>2 DEF SInv, QueueInv
<1> QED
  BY <1>1, <1>2, <1>3, EmptySeq

(* A worker returns. *)
LEMMA ReturnInv ==
  ASSUME SInv, NEW w \in Workers, Alive, wpc[w] = "fetch", w \notin asleep, done,
         wpc' = [wpc EXCEPT ![w] = "returned"],
         UNCHANGED <<tasks, asleep, task, done, value, main>>
  PROVE  SInv'
<1> USE DEF SInv, main
<1>1. tasks = <<>>
  BY DoneMeansEmpty DEF SleepInv, Alive
<1>2. TypeOK'
  BY DEF TypeOK
<1>3. QueueInv' /\ FlushInv' /\ InOrder'
  BY DEF QueueInv, FlushInv, InOrder
<1>4. SleepInv'
  BY DEF SleepInv, TypeOK
<1>5. NobodySleepsInVain'
  <2>1. Ready' \in SUBSET Workers
    BY DEF Ready
  <2>2. Cardinality(Ready') \in Nat
    BY <2>1, ReadyFinite
  <2>3. Len(tasks') = 0
    BY <1>1
  <2> QED
    BY <2>2, <2>3 DEF NobodySleepsInVain
<1> QED
  BY <1>2, <1>3, <1>4, <1>5

(* A worker takes the first task: one task less, one worker less for it. *)
LEMMA TakeInv ==
  ASSUME SInv, NEW w \in Workers, Alive, wpc[w] = "fetch", w \notin asleep, tasks # <<>>,
         task' = [task EXCEPT ![w] = Head(tasks)], tasks' = Tail(tasks),
         wpc' = [wpc EXCEPT ![w] = "run"], UNCHANGED <<asleep, done, value, main>>
  PROVE  SInv'
<1> USE DEF SInv, main
<1>1. /\ tasks' \in Seq(Lines) /\ Len(tasks) \in Nat \ {0} /\ Len(tasks') = Len(tasks) - 1
      /\ \A k \in 1..Len(tasks) - 1 : tasks'[k] = tasks[k + 1]
      /\ Head(tasks) = tasks[1] /\ Head(tasks) \in Lines
  <2>1. tasks \in Seq(Lines)
    BY DEF TypeOK
  <2> QED
    BY <2>1, Popped
<1>2. TypeOK'
  BY <1>1 DEF TypeOK
<1>3. \A v \in Workers : task'[v] = IF v = w THEN tasks[1] ELSE task[v]
  BY <1>1 DEF TypeOK
<1>4. /\ read \in Int /\ Len(out) \in Nat /\ (\A v \in Workers : task[v] \in Int)
      /\ \A l \in Lines : l \in Int
  BY TextLength DEF TypeOK, Lines
<1>5. QueueInv'
  <2> DEFINE taken == read - Len(tasks)
  <2>1. tasks[1] = taken + 1 /\ read - Len(tasks') = taken + 1 /\ taken \in Int
    BY <1>1, <1>4 DEF QueueInv
  <2>2. \A k \in 1..Len(tasks') : tasks'[k] = (read - Len(tasks')) + k
    <3> SUFFICES ASSUME NEW k \in 1..Len(tasks') PROVE tasks'[k] = taken + 1 + k
      BY <2>1
    <3>1. k + 1 \in 1..Len(tasks) /\ tasks'[k] = tasks[k + 1]
      BY <1>1
    <3>2. tasks[k + 1] = taken + (k + 1)
      BY <3>1 DEF QueueInv
    <3> QED
      BY <2>1, <3>1, <3>2
  <2>3. Len(out) <= taken /\ (\A v \in Workers : task[v] <= taken)
        /\ \A l \in Lines : value[l] # NoValue => l <= taken
    BY DEF QueueInv
  <2> HIDE DEF taken
  <2>4. Len(out) <= taken + 1 /\ (\A v \in Workers : task'[v] <= taken + 1)
        /\ \A l \in Lines : value[l] # NoValue => l <= taken + 1
    BY <1>3, <1>4, <2>1, <2>3
  <2> QED
    BY <2>1, <2>2, <2>4 DEF QueueInv
<1>6. FlushInv' /\ InOrder'
  BY DEF FlushInv, InOrder
<1>7. SleepInv'
  BY DEF SleepInv, TypeOK
<1>8. NobodySleepsInVain'
  <2>1. Ready \in SUBSET Workers /\ w \in Ready /\ Ready' = Ready \ {w}
    BY DEF Ready, TypeOK
  <2>2. Cardinality(Ready') = Cardinality(Ready) - 1 /\ Cardinality(Ready) \in Nat
    BY <2>1, OneLess, ReadyFinite
  <2> QED
    BY <1>1, <2>2 DEF NobodySleepsInVain, Alive
<1> QED
  BY <1>2, <1>5, <1>6, <1>7, <1>8

(* The three outcomes of a pass under the mutex. *)
LEMMA FetchInv ==
  ASSUME SInv, NEW w \in Workers, Fetch(w)
  PROVE  SInv'
<1>1. Alive /\ wpc[w] = "fetch" /\ w \notin asleep /\ UNCHANGED <<done, value, main>>
  BY DEF Fetch
<1>2. CASE tasks = <<>> /\ ~done
  BY <1>1, <1>2, GoToSleepInv DEF Fetch
<1>3. CASE done
  BY <1>1, <1>3, ReturnInv DEF Fetch
<1>4. CASE tasks # <<>> /\ ~done
  BY <1>1, <1>4, TakeInv DEF Fetch
<1> QED
  BY <1>2, <1>3, <1>4

(* A task is done: its future has the answer to its line. *)
LEMMA SolveInv ==
  ASSUME SInv, NEW w \in Workers, Solve(w)
  PROVE  SInv'
<1> USE DEF SInv, main
<1> DEFINE t == task[w]
<1>1. t \in Lines \ BadLines /\ w \notin asleep /\ Answers[t] \in Printed
  BY DEF Solve, TypeOK, SleepInv, Printed
<1>2. \A l \in Lines : value'[l] = IF l = t THEN Answers[t] ELSE value[l]
  BY <1>1 DEF Solve, TypeOK
<1>3. \A v \in Workers : /\ task'[v] = IF v = w THEN 0 ELSE task[v]
                         /\ wpc'[v] = IF v = w THEN "fetch" ELSE wpc[v]
  BY DEF Solve, TypeOK
<1>4. value' \in [Lines -> Printed \cup {NoValue}] /\ task' \in [Workers -> Lines \cup {0}]
  BY <1>1 DEF Solve, TypeOK
<1>5. TypeOK'
  BY <1>1, <1>2, <1>3, <1>4 DEF Solve, TypeOK
<1>6. QueueInv'
  <2>1. 0 <= read - Len(tasks)
    <3>1. Len(out) \in Nat /\ read \in Int /\ Len(tasks) \in Nat
      BY TextLength DEF TypeOK
    <3> QED
      BY <3>1 DEF QueueInv
  <2> QED
    BY <1>1, <1>2, <1>3, <2>1 DEF Solve, QueueInv
<1>7. FlushInv' /\ InOrder'
  BY DEF Solve, FlushInv, InOrder
<1>8. SleepInv'
  BY <1>3 DEF Solve, SleepInv, TypeOK
<1>9. NobodySleepsInVain'
  <2>1. Ready \in SUBSET Workers /\ w \notin Ready /\ Ready' = Ready \cup {w}
    BY <1>1, <1>3 DEF Solve, Ready
  <2>2. Cardinality(Ready') = Cardinality(Ready) + 1 /\ Cardinality(Ready) \in Nat
    BY <2>1, OneMore, ReadyFinite
  <2>3. Len(tasks) \in Nat
    BY DEF TypeOK
  <2> QED
    BY <2>2, <2>3 DEF Solve, NobodySleepsInVain, Alive
<1> QED
  BY <1>5, <1>6, <1>7, <1>8, <1>9

(* The end of the process by an assertion claims nothing any more. *)
LEMMA AssertFailsInv ==
  ASSUME SInv, NEW w \in Workers, AssertFails(w)
  PROVE  SInv'
<1> USE DEF SInv, AssertFails, pool
<1>1. TypeOK'
  BY DEF TypeOK
<1>2. QueueInv' /\ FlushInv' /\ SleepInv' /\ InOrder' /\ NobodySleepsInVain'
  BY DEF QueueInv, FlushInv, SleepInv, InOrder, NobodySleepsInVain, Alive
<1> QED
  BY <1>1, <1>2

(* A sleeper wakes up, in a notification or for no reason. *)
LEMMA OneWakes ==
  ASSUME SInv, NEW w \in asleep, asleep' = asleep \ {w}, UNCHANGED wpc
  PROVE  /\ Cardinality(Ready') = Cardinality(Ready) + 1 /\ Cardinality(Ready) \in Nat
         /\ asleep' \subseteq Workers /\ \A v \in asleep' : wpc'[v] = "fetch"
<1>1. w \in Workers /\ wpc[w] = "fetch" /\ asleep \subseteq Workers
  BY DEF SInv, SleepInv, TypeOK
<1>2. Ready \in SUBSET Workers /\ w \notin Ready /\ Ready' = Ready \cup {w}
  BY <1>1 DEF Ready
<1> QED
  BY <1>1, <1>2, OneMore, ReadyFinite DEF SInv, SleepInv

(* A spurious wakeup only makes one more worker ready. *)
LEMMA SpuriousInv ==
  ASSUME SInv, NEW w \in Workers, Spurious(w)
  PROVE  SInv'
<1> USE DEF SInv, main
<1>1. /\ Cardinality(Ready') = Cardinality(Ready) + 1 /\ Cardinality(Ready) \in Nat
      /\ asleep' \subseteq Workers /\ \A v \in asleep' : wpc'[v] = "fetch"
  BY OneWakes DEF Spurious
<1>2. TypeOK'
  BY <1>1 DEF Spurious, TypeOK
<1>3. QueueInv' /\ FlushInv' /\ InOrder'
  BY DEF Spurious, QueueInv, FlushInv, InOrder
<1>4. SleepInv'
  BY <1>1 DEF Spurious, SleepInv
<1>5. NobodySleepsInVain'
  <2>1. Len(tasks) \in Nat
    BY DEF TypeOK
  <2> QED
    BY <1>1, <2>1 DEF Spurious, NobodySleepsInVain, Alive
<1> QED
  BY <1>2, <1>3, <1>4, <1>5

(* The flush prints the next line, whose answer is there. *)
LEMMA FlushOneInv ==
  ASSUME SInv, FlushOne
  PROVE  SInv'
<1> USE DEF SInv, pool
<1> DEFINE n == Len(out)
           l == res[iter + 1]
<1>1. /\ n \in Nat /\ iter \in Nat /\ Len(res) \in Nat /\ iter + 1 \in 1..Len(res)
      /\ read \in Int /\ Len(tasks) \in Nat
  <2>1. out \in Seq(Printed) /\ iter \in 0..Len(res) /\ res \in Seq(Lines) /\ tasks \in Seq(Lines)
        /\ read \in 0..Len(Text)
    BY DEF TypeOK
  <2>2. Len(out) \in Nat /\ Len(res) \in Nat /\ Len(tasks) \in Nat /\ read \in Int
    BY <2>1, TextLength
  <2> QED
    BY <2>1, <2>2 DEF FlushOne
<1>2. l = n + 1 /\ l \in Lines
  <2>1. l = Len(out) - iter + (iter + 1)
    BY <1>1 DEF FlushInv
  <2>2. l \in Lines
    BY <1>1 DEF TypeOK
  <2> QED
    BY <1>1, <2>1, <2>2
<1>3. l \notin BadLines /\ value[l] = Answers[l] /\ l <= read - Len(tasks)
  BY <1>2 DEF FlushOne, TypeOK, QueueInv
<1>4. Answers[l] \in Printed
  BY <1>2, <1>3 DEF Printed
<1>5. /\ out' = Append(out, Answers[l]) /\ iter' = iter + 1
      /\ UNCHANGED <<tasks, done, asleep, wpc, task, value, mpc, names, read, res>>
      /\ mpc \in {"flush", "remaining"}
  BY <1>3 DEF FlushOne
<1> HIDE DEF l
<1>6. /\ out' \in Seq(Printed) /\ Len(out') = n + 1 /\ out'[n + 1] = Answers[l]
      /\ \A k \in 1..n : out'[k] = out[k]
  <2>1. out \in Seq(Printed)
    BY DEF TypeOK
  <2> QED
    BY <1>4, <1>5, <2>1, Pushed
<1> HIDE DEF n
<1>7. TypeOK'
  BY <1>1, <1>5, <1>6 DEF TypeOK
<1>8. QueueInv'
  BY <1>1, <1>2, <1>3, <1>5, <1>6 DEF QueueInv
<1>9. FlushInv'
  <2>1. Len(out') - iter' = Len(out) - iter
    BY <1>1, <1>5, <1>6 DEF n
  <2> QED
    BY <1>5, <2>1 DEF FlushInv
<1>10. InOrder'
  <2> SUFFICES ASSUME NEW i \in 1..Len(out') PROVE out'[i] = Answers[i]
    BY DEF InOrder
  <2>1. CASE i = n + 1
    BY <1>2, <1>6, <2>1
  <2>2. CASE i # n + 1
    <3>1. i \in 1..n
      BY <1>1, <1>6, <2>2
    <3> QED
      BY <1>6, <3>1 DEF InOrder, n
  <2> QED
    BY <2>1, <2>2
<1>11. SleepInv' /\ NobodySleepsInVain'
  BY <1>5 DEF SleepInv, NobodySleepsInVain, Alive, Ready
<1> QED
  BY <1>7, <1>8, <1>9, <1>10, <1>11

(* After the last future all lines read have been printed. *)
LEMMA FlushEndInv ==
  ASSUME SInv, FlushEnd
  PROVE  SInv'
<1> USE DEF SInv, pool
<1>1. res' = <<>> /\ Len(res') = 0 /\ iter' = 0 /\ mpc' \in {"name", "reap"}
      /\ iter = Len(res) /\ mpc \in {"flush", "remaining"}
      /\ UNCHANGED <<tasks, done, asleep, wpc, task, value, names, read, out>>
      /\ res' \in Seq(Lines)
  BY DEF FlushEnd
<1>2. TypeOK'
  BY <1>1 DEF TypeOK
<1>3. FlushInv'
  <2>1. Len(out) \in Nat /\ Len(res) \in Nat /\ read \in Int
    BY TextLength DEF TypeOK
  <2>2. Len(out) = read
    BY <1>1, <2>1 DEF FlushInv
  <2> QED
    BY <1>1, <2>1, <2>2 DEF FlushInv
<1>4. QueueInv' /\ InOrder'
  BY <1>1 DEF QueueInv, InOrder
<1>5. SleepInv'
  BY <1>1 DEF SleepInv, FlushEnd
<1>6. NobodySleepsInVain'
  BY <1>1 DEF NobodySleepsInVain, Alive, Ready
<1> QED
  BY <1>2, <1>3, <1>4, <1>5, <1>6

(* A line goes to the end of the queue. *)
LEMMA AddTaskInv ==
  ASSUME SInv, AddTask
  PROVE  SInv'
<1> USE DEF SInv
<1>1. /\ tasks \in Seq(Lines) /\ read \in Nat /\ read + 1 \in Lines /\ read + 1 \in 0..Len(Text)
      /\ Len(out) \in Nat
  BY TextLength DEF AddTask, TypeOK, Lines
<1>2. /\ tasks' \in Seq(Lines) /\ Len(tasks) \in Nat /\ Len(tasks') = Len(tasks) + 1
      /\ \A k \in 1..Len(tasks) : tasks'[k] = tasks[k]
      /\ tasks'[Len(tasks) + 1] = read + 1
  <2>1. tasks' = Append(tasks, read + 1)
    BY DEF AddTask
  <2> QED
    BY <1>1, <2>1, Pushed
<1>3. /\ read' = read + 1 /\ mpc = "line" /\ mpc' = "notify"
      /\ UNCHANGED <<done, asleep, wpc, task, value, names, res, iter, out>>
  BY DEF AddTask
<1>4. TypeOK'
  BY <1>1, <1>2, <1>3 DEF TypeOK
<1>5. read' - Len(tasks') = read - Len(tasks)
  BY <1>1, <1>2, <1>3
<1>6. QueueInv'
  <2>1. \A k \in 1..Len(tasks') : tasks'[k] = (read' - Len(tasks')) + k
    <3> SUFFICES ASSUME NEW k \in 1..Len(tasks') PROVE tasks'[k] = (read - Len(tasks)) + k
      BY <1>5
    <3>1. CASE k = Len(tasks) + 1
      BY <1>1, <1>2, <3>1
    <3>2. CASE k # Len(tasks) + 1
      <4>1. k \in 1..Len(tasks)
        BY <1>2, <3>2
      <4> QED
        BY <1>2, <4>1 DEF QueueInv
    <3> QED
      BY <3>1, <3>2
  <2> QED
    BY <1>3, <1>5, <2>1 DEF QueueInv
<1>7. FlushInv'
  <2>1. Len(res) \in Nat /\ iter = 0
    BY <1>3 DEF TypeOK, FlushInv
  <2> QED
    BY <1>1, <1>3, <2>1 DEF FlushInv
<1>8. InOrder' /\ SleepInv'
  BY <1>3 DEF InOrder, SleepInv
<1>9. NobodySleepsInVain'
  <2>1. Cardinality(Ready) \in Nat /\ Ready' = Ready
    BY <1>3, ReadyFinite DEF Ready
  <2> QED
    BY <1>2, <1>3, <2>1 DEF NobodySleepsInVain, Alive
<1> QED
  BY <1>4, <1>6, <1>7, <1>8, <1>9

(* The notification wakes a worker for the task, and its future is kept. *)
LEMMA NotifyOneInv ==
  ASSUME SInv, NotifyOne
  PROVE  SInv'
<1> USE DEF SInv
<1>1. /\ res \in Seq(Lines) /\ read \in Lines /\ iter = 0 /\ Len(out) \in Nat
      /\ Len(res) \in Nat /\ Len(out) + Len(res) = read - 1 /\ Len(tasks) \in Nat
  <2>1. res \in Seq(Lines) /\ out \in Seq(Printed) /\ read \in 0..Len(Text) /\ tasks \in Seq(Lines)
        /\ iter \in 0..Len(res)
    BY DEF TypeOK
  <2>2. Len(res) \in Nat /\ Len(out) \in Nat /\ Len(tasks) \in Nat /\ read \in Int
    BY <2>1, TextLength
  <2>3. iter = 0 /\ Len(out) - iter + Len(res) = read - 1
    BY DEF NotifyOne, FlushInv
  <2>4. Len(out) + Len(res) = read - 1
    BY <2>2, <2>3
  <2> QED
    BY <2>1, <2>2, <2>3, <2>4, TextLength DEF Lines
<1>2. /\ res' \in Seq(Lines) /\ Len(res') = Len(res) + 1
      /\ \A k \in 1..Len(res) : res'[k] = res[k]
      /\ res'[Len(res) + 1] = read
  <2>1. res' = Append(res, read)
    BY DEF NotifyOne
  <2> QED
    BY <1>1, <2>1, Pushed
<1>3. /\ mpc = "notify" /\ mpc' = "line"
      /\ UNCHANGED <<tasks, done, wpc, task, value, names, read, iter, out>>
  BY DEF NotifyOne
<1>4. asleep' = {} \/ \E w \in asleep : asleep' = asleep \ {w}
  BY DEF NotifyOne
<1>5. TypeOK'
  BY <1>1, <1>2, <1>3, <1>4 DEF TypeOK
<1>6. QueueInv' /\ InOrder'
  BY <1>3 DEF QueueInv, InOrder
<1>7. FlushInv'
  <2>1. \A k \in 1..Len(res') : res'[k] = Len(out) - iter + k
    <3> SUFFICES ASSUME NEW k \in 1..Len(res') PROVE res'[k] = Len(out) - iter + k
      OBVIOUS
    <3>1. CASE k = Len(res) + 1
      BY <1>1, <1>2, <3>1, TextLength DEF Lines
    <3>2. CASE k # Len(res) + 1
      <4>1. k \in 1..Len(res)
        BY <1>1, <1>2, <3>2
      <4> QED
        BY <1>2, <4>1 DEF FlushInv
    <3> QED
      BY <3>1, <3>2
  <2> QED
    BY <1>1, <1>2, <1>3, <2>1, TextLength DEF FlushInv, Lines
<1>8. SleepInv'
  BY <1>3, <1>4 DEF SleepInv
<1>9. NobodySleepsInVain'
  <2>1. CASE asleep' = {}
    BY <2>1 DEF NobodySleepsInVain
  <2>2. CASE \E w \in asleep : asleep' = asleep \ {w}
    <3>1. Cardinality(Ready') = Cardinality(Ready) + 1 /\ Cardinality(Ready) \in Nat
      BY <1>3, <2>2, OneWakes
    <3> QED
      BY <1>1, <1>3, <2>2, <3>1 DEF NobodySleepsInVain, Alive
  <2> QED
    BY <1>4, <2>1, <2>2
<1> QED
  BY <1>5, <1>6, <1>7, <1>8, <1>9

(* What only moves main() on: a name, the end of the names or of a file. *)
LEMMA MainMovesInv ==
  ASSUME SInv, ReadName \/ BadName \/ EndOfNames \/ EndOfFile \/ Join
  PROVE  SInv'
<1> USE DEF SInv, ReadName, BadName, EndOfNames, EndOfFile, Join, pool
<1>1. /\ UNCHANGED <<tasks, done, asleep, wpc, task, value, read, res, iter, out>>
      /\ \/ mpc = "name" /\ mpc' \in {"line", "threw", "remaining"}
         \/ mpc = "line" /\ mpc' = "flush"
         \/ mpc = "join" /\ mpc' = "exited"
  OBVIOUS
<1>2. names' \in 0..MaxNames
  BY SudokuAssumption DEF TypeOK
<1>3. TypeOK'
  BY <1>1, <1>2 DEF TypeOK
<1>4. QueueInv' /\ InOrder'
  BY <1>1 DEF QueueInv, InOrder
<1>5. FlushInv'
  <2>1. iter \in 0..Len(res) /\ (mpc = "name" => Len(res) = 0)
    BY DEF TypeOK, FlushInv
  <2>2. mpc = "name" => iter = 0
    BY <2>1
  <2> QED
    BY <1>1, <2>2 DEF FlushInv
<1>6. SleepInv'
  BY <1>1 DEF SleepInv
<1>7. NobodySleepsInVain'
  BY <1>1 DEF NobodySleepsInVain, Alive, Ready
<1> QED
  BY <1>3, <1>4, <1>5, <1>6, <1>7

(* The destructor sets done and wakes everybody. *)
LEMMA ReapInv ==
  ASSUME SInv, SetDone \/ NotifyAll
  PROVE  SInv'
<1> USE DEF SInv, SetDone, NotifyAll, main
<1>1. /\ UNCHANGED <<tasks, wpc, task, value, names, read, res, iter, out>>
      /\ mpc = "reap" /\ mpc' \in {"reap", "join"}
      /\ asleep' \in {asleep, {}}
  OBVIOUS
<1>2. done' \in BOOLEAN
  BY DEF TypeOK
<1>3. TypeOK'
  BY <1>1, <1>2 DEF TypeOK
<1>4. QueueInv' /\ InOrder' /\ FlushInv'
  BY <1>1 DEF QueueInv, InOrder, FlushInv
<1>5. SleepInv'
  BY <1>1 DEF SleepInv
<1>6. NobodySleepsInVain'
  BY <1>1 DEF NobodySleepsInVain, Alive, Ready
<1> QED
  BY <1>3, <1>4, <1>5, <1>6

(* Every step of main() and of the workers keeps SInv. *)
LEMMA NextSInv == SInv /\ [Next]_vars => SInv'
<1> SUFFICES ASSUME SInv, [Next]_vars PROVE SInv'
  OBVIOUS
<1>1. CASE \E w \in Workers : WorkerStep(w) \/ Spurious(w)
  BY <1>1, FetchInv, SolveInv, AssertFailsInv, SpuriousInv DEF WorkerStep
<1>2. CASE MainStep
  BY <1>2, FlushOneInv, FlushEndInv, AddTaskInv, NotifyOneInv, MainMovesInv, ReapInv DEF MainStep
<1>3. CASE ReadName \/ BadName \/ EndOfNames
  BY <1>3, MainMovesInv
<1>4. CASE UNCHANGED vars
  <2>1. TypeOK'
    BY <1>4 DEF SInv, vars, TypeOK
  <2>2. QueueInv' /\ FlushInv' /\ SleepInv' /\ InOrder' /\ NobodySleepsInVain'
    BY <1>4 DEF SInv, vars, QueueInv, FlushInv, SleepInv, InOrder, NobodySleepsInVain, Alive, Ready
  <2> QED
    BY <2>1, <2>2 DEF SInv
<1> QED
  BY <1>1, <1>2, <1>3, <1>4 DEF Next

-----------------------------------------------------------------------------
(* The theorems.                                                           *)

(* In every reachable state the queue of the pool is the tail of the lines
   read, and the futures main() keeps are those of the lines not yet printed. *)
THEOREM SudokuInductive == Spec => []SInv
BY InitSInv, NextSInv, PTL DEF Spec

(* However the workers overtake each other, main() prints the answers in the
   order of the lines. *)
THEOREM AnswersInOrder == Spec => []InOrder
<1>1. SInv => InOrder
  BY DEF SInv
<1> QED
  BY <1>1, SudokuInductive, PTL

(* When main() leaves its loop, normally or by bad_filename, every line has
   been answered and the pool's destructor drops no task. *)
THEOREM NoLineLost == Spec => []NothingLost
<1>1. SInv => NothingLost
  BY DoneMeansEmpty DEF NothingLost
<1> QED
  BY <1>1, SudokuInductive, PTL

(* One notify_one() after each push is enough: no worker sleeps while more
   tasks are queued than workers are on their way to the queue. *)
THEOREM NotifyOneIsEnough == Spec => []NobodySleepsInVain
<1>1. SInv => NobodySleepsInVain
  BY DEF SInv
<1> QED
  BY <1>1, SudokuInductive, PTL
=============================================================================
