----------------------------- MODULE SudokuMain -----------------------------
(***************************************************************************)
(* The Sudoku solver of Lab 1: main() of src/Lab1/src/main.cc, which reads *)
(* file names and hands every line of each file to the thread pool of      *)
(* src/Lab1/src/thread_pool.h, and prints the answers through futures in   *)
(* the order of the lines.                                                 *)
(*                                                                         *)
(* A task is the number of its line in the order of reading; solving it,   *)
(* by the operators of SudokuSolver, takes one step.  What a worker does   *)
(* between getting and giving back the mutex m is one step, and so is what *)
(* add_task() and the destructor do under m; their notifications come      *)
(* after the unlock and are steps of their own.                            *)
(***************************************************************************)
EXTENDS SudokuSolver

CONSTANTS
  Workers,   \* the threads of the pool
  Text,      \* the lines of all files together, in order; their number is a bound
  MaxNames   \* bound: file names typed

ASSUME SudokuAssumption ==
  /\ IsFiniteSet(Workers) /\ Workers # {}
  /\ MaxNames \in Nat /\ Text \in Seq(Seq(Nat))

VARIABLES
  tasks,    \* tasks of the pool, first in first out
  done,     \* done of the pool
  asleep,   \* the workers waiting on the condition variable
  wpc,      \* "fetch", "run" or "returned", for each worker
  task,     \* the line a worker solves, or 0
  value,    \* the value of each line's future, NoValue before it is set
  mpc,      \* where main() is
  names,    \* how many file names were read
  read,     \* how many lines were read
  res,      \* res: the futures, each the line it is for
  iter,     \* how many of them the flush has passed
  out       \* what std::cout got

vars == <<tasks, done, asleep, wpc, task, value, mpc, names, read, res, iter, out>>
pool == <<tasks, done, asleep, wpc, task, value>>
main == <<mpc, names, read, res, iter, out>>

Lines    == 1..Len(Text)
BadLines == {l \in Lines : ~IsBoard(Text[l])}
NoValue  == <<-1>>

\* What the solver makes of each line, and what it should make of it.
Answers == [l \in Lines \ BadLines |-> Answer(Text[l])]
Printed == {Answers[l] : l \in Lines \ BadLines}
Right   == [l \in Lines \ BadLines |-> Solutions(Text[l])]

\* Every variable has its type; the flush never runs past the futures and a
\* worker has a line exactly while it runs one.
TypeOK ==
  /\ tasks \in Seq(Lines) /\ done \in BOOLEAN /\ asleep \subseteq Workers
  /\ wpc \in [Workers -> {"fetch", "run", "returned"}]
  /\ task \in [Workers -> Lines \cup {0}] /\ value \in [Lines -> Printed \cup {NoValue}]
  /\ \A w \in Workers : task[w] \in IF wpc[w] = "run" THEN Lines ELSE {0}
  /\ \A l \in Lines : value[l] # NoValue => l \notin BadLines /\ value[l] = Answers[l]
  /\ mpc \in {"flush", "name", "line", "notify", "remaining", "reap", "join",
              "exited", "threw", "aborted"}
  /\ names \in 0..MaxNames /\ read \in 0..Len(Text)
  /\ res \in Seq(Lines) /\ iter \in 0..Len(res) /\ out \in Seq(Printed)

Init ==
  /\ tasks = <<>> /\ done = FALSE /\ asleep = {} /\ value = [l \in Lines |-> NoValue]
  /\ wpc = [w \in Workers |-> "fetch"] /\ task = [w \in Workers |-> 0]
  /\ mpc = "flush" /\ names = 0 /\ read = 0
  /\ res = <<>> /\ iter = 0 /\ out = <<>>

\* The process is there until main() returns or something terminates it.
Alive == mpc \notin {"exited", "threw", "aborted"}

-----------------------------------------------------------------------------
(* The workers.                                                            *)

\* Mutant: the test for done is left to the destructor's notification, and
\* a worker that finds the queue empty sleeps whatever done says.
FetchSleepsWhenDone(w) ==
  /\ Alive /\ wpc[w] = "fetch" /\ w \notin asleep
  /\ \/ /\ tasks = <<>>
        /\ asleep' = asleep \cup {w}
        /\ UNCHANGED <<tasks, wpc, task>>
     \/ /\ tasks # <<>>
        /\ task' = [task EXCEPT ![w] = Head(tasks)]
        /\ tasks' = Tail(tasks)
        /\ wpc' = [wpc EXCEPT ![w] = "run"]
        /\ UNCHANGED asleep
  /\ UNCHANGED <<done, value, main>>

\* One pass of a worker under m: it goes to sleep, returns or takes a task.
Fetch(w) ==
  /\ Alive /\ wpc[w] = "fetch" /\ w \notin asleep
  /\ \/ /\ tasks = <<>> /\ ~done
        /\ asleep' = asleep \cup {w}
        /\ UNCHANGED <<tasks, wpc, task>>
     \/ /\ done
        /\ wpc' = [wpc EXCEPT ![w] = "returned"]
        /\ UNCHANGED <<tasks, asleep, task>>
     \/ /\ tasks # <<>> /\ ~done
        /\ task' = [task EXCEPT ![w] = Head(tasks)]
        /\ tasks' = Tail(tasks)
        /\ wpc' = [wpc EXCEPT ![w] = "run"]
        /\ UNCHANGED asleep
  /\ UNCHANGED <<done, value, main>>

\* task(): the packaged task gives its future the solved board.
Solve(w) ==
  /\ Alive /\ wpc[w] = "run" /\ task[w] \notin BadLines
  /\ value' = [value EXCEPT ![task[w]] = Answers[task[w]]]
  /\ wpc' = [wpc EXCEPT ![w] = "fetch"]
  /\ task' = [task EXCEPT ![w] = 0]
  /\ UNCHANGED <<tasks, done, asleep, main>>

\* An assertion of deserialize_board() fails, and with it the process.
AssertFails(w) ==
  /\ Alive /\ wpc[w] = "run" /\ task[w] \in BadLines
  /\ mpc' = "aborted"
  /\ UNCHANGED <<pool, names, read, res, iter, out>>

\* A condition variable may wake for no reason.
Spurious(w) ==
  /\ Alive /\ w \in asleep
  /\ asleep' = asleep \ {w}
  /\ UNCHANGED <<tasks, done, wpc, task, value, main>>

-----------------------------------------------------------------------------
(* main()                                                                  *)

\* Mutant: the first future that is ready is printed, whichever it is.
FlushOneReady ==
  /\ mpc \in {"flush", "remaining"} /\ iter < Len(res)
  /\ \E i \in 1..Len(res) :
       /\ value[res[i]] # NoValue /\ \A k \in 1..Len(out) : out[k] # value[res[i]]
       /\ out' = Append(out, value[res[i]])
  /\ iter' = iter + 1
  /\ UNCHANGED <<pool, mpc, names, read, res>>

\* iter->get() waits for the future's value; then it is printed.
FlushOne ==
  /\ mpc \in {"flush", "remaining"} /\ iter < Len(res)
  /\ value[res[iter + 1]] # NoValue
  /\ out' = Append(out, value[res[iter + 1]])
  /\ iter' = iter + 1
  /\ UNCHANGED <<pool, mpc, names, read, res>>

\* The end of the flush, res.clear(): on to the next name, or out of main().
FlushEnd ==
  /\ mpc \in {"flush", "remaining"} /\ iter = Len(res)
  /\ res' = <<>> /\ iter' = 0
  /\ mpc' = IF mpc = "flush" THEN "name" ELSE "reap"
  /\ UNCHANGED <<pool, names, read, out>>

\* A file name is read and its file is open.
ReadName ==
  /\ mpc = "name" /\ names < MaxNames
  /\ names' = names + 1
  /\ mpc' = "line"
  /\ UNCHANGED <<pool, read, res, iter, out>>

\* ... or cannot be opened: bad_filename leaves main().
BadName ==
  /\ mpc = "name" /\ names < MaxNames
  /\ names' = names + 1
  /\ mpc' = "threw"
  /\ UNCHANGED <<pool, read, res, iter, out>>

\* The end of the input breaks the loop.
EndOfNames ==
  /\ mpc = "name"
  /\ mpc' = "remaining"
  /\ UNCHANGED <<pool, names, read, res, iter, out>>

\* A line is read; add_task() queues it under m.
AddTask ==
  /\ mpc = "line" /\ read < Len(Text)
  /\ read' = read + 1
  /\ tasks' = Append(tasks, read + 1)
  /\ mpc' = "notify"
  /\ UNCHANGED <<done, asleep, wpc, task, value, names, res, iter, out>>

\* Mutant: a worker is notified only when the queue was empty before.
NotifyOneIfFirst ==
  /\ mpc = "notify"
  /\ IF Len(tasks) = 1 /\ asleep # {}
     THEN \E w \in asleep : asleep' = asleep \ {w}
     ELSE UNCHANGED asleep
  /\ res' = Append(res, read)
  /\ mpc' = "line"
  /\ UNCHANGED <<tasks, done, wpc, task, value, names, read, iter, out>>

\* ... notify_one(), and the future is collected.
NotifyOne ==
  /\ mpc = "notify"
  /\ IF asleep # {}
     THEN \E w \in asleep : asleep' = asleep \ {w}
     ELSE UNCHANGED asleep
  /\ res' = Append(res, read)
  /\ mpc' = "line"
  /\ UNCHANGED <<tasks, done, wpc, task, value, names, read, iter, out>>

\* Mutant: the flush at the top of the loop is skipped, so that a bad name or
\* the end of the program comes before the answers.
EndOfFileToName ==
  /\ mpc = "line"
  /\ mpc' = "name"
  /\ UNCHANGED <<pool, names, read, res, iter, out>>

\* The file is exhausted: back to the top of the loop, which flushes.
EndOfFile ==
  /\ mpc = "line"
  /\ mpc' = "flush"
  /\ UNCHANGED <<pool, names, read, res, iter, out>>

\* ~thread_pool(): done under m
SetDone ==
  /\ mpc = "reap" /\ ~done
  /\ done' = TRUE
  /\ UNCHANGED <<tasks, asleep, wpc, task, value, main>>

\* ... notify_all()
NotifyAll ==
  /\ mpc = "reap" /\ done
  /\ asleep' = {}
  /\ mpc' = "join"
  /\ UNCHANGED <<tasks, done, wpc, task, value, names, read, res, iter, out>>

\* ... and join.
Join ==
  /\ mpc = "join"
  /\ \A w \in Workers : wpc[w] = "returned"
  /\ mpc' = "exited"
  /\ UNCHANGED <<pool, names, read, res, iter, out>>

WorkerStep(w) == Fetch(w) \/ Solve(w) \/ AssertFails(w)

\* What main() does by itself, without waiting for a name.
MainStep == \/ FlushOne \/ FlushEnd
            \/ AddTask \/ NotifyOne \/ EndOfFile
            \/ SetDone \/ NotifyAll \/ Join

Next == \/ \E w \in Workers : WorkerStep(w) \/ Spurious(w)
        \/ MainStep
        \/ ReadName \/ BadName \/ EndOfNames

\* Threads run and the mutex is free after each step; files end.  Nobody has
\* to type a name, and nothing wakes a worker but a notification.
Fairness == WF_vars(MainStep) /\ \A w \in Workers : WF_vars(WorkerStep(w))

Spec == Init /\ [][Next]_vars /\ Fairness

-----------------------------------------------------------------------------
(* Properties.                                                             *)

\* Whatever the order in which the workers finish, the answers come out in
\* the order of the lines ("we'll have to ensure to output in input-file
\* order", main.cc:84), none left out and none twice.
InOrder == \A i \in 1..Len(out) : out[i] = Answers[i]

\* The search finds a solution whenever there is one, its backtracking leaves
\* nothing behind, and it says so when there is none: the i-th answer is a
\* completion of the i-th line that satisfies every row, column and box, or
\* the empty line for a board that has none.  Clues that contradict each
\* other are left out: the search never compares two clues.
AnswersSolve ==
  \A i \in 1..Len(out) :
    i \notin BadLines /\ Consistent(Text[i]) =>
      IF Right[i] = {} THEN out[i] = <<>> ELSE out[i] \in Right[i]

\* When main() leaves its loop, by the end of the input or by the exception
\* for a bad name, every line of the files before has been answered, and the
\* destructor, which makes the workers return without a look at the queue,
\* drops nothing.
NothingLost ==
  mpc \in {"remaining", "reap", "join", "exited", "threw"}
    => Len(out) = read /\ tasks = <<>>

\* notify_one() is enough: no worker sleeps while there are more tasks queued
\* than workers on their way to the queue (one more between the push and
\* the notification), until the process is gone.
Ready == {w \in Workers : wpc[w] = "fetch"} \ asleep
NobodySleepsInVain ==
  Alive /\ asleep # {} => Len(tasks) <= Cardinality(Ready) + (IF mpc = "notify" THEN 1 ELSE 0)

\* After the end of the input the program ends: no worker sleeps through the
\* destructor's notification.
Exits == mpc = "remaining" ~> mpc = "exited"

-----------------------------------------------------------------------------
(* The inductive invariant behind InOrder, NothingLost and                 *)
(* NobodySleepsInVain.                                                     *)

\* The queue holds the last lines read, in their order; only the lines before
\* them have been given to a worker, solved or printed.
QueueInv ==
  LET taken == read - Len(tasks) IN
  /\ \A k \in 1..Len(tasks) : tasks[k] = taken + k
  /\ Len(out) <= taken
  /\ \A w \in Workers : task[w] <= taken
  /\ \A l \in Lines : value[l] # NoValue => l <= taken

\* The futures are those of the lines since the last flush, in their order.
FlushInv ==
  /\ \A k \in 1..Len(res) : res[k] = Len(out) - iter + k
  /\ mpc # "aborted" =>
       Len(out) - iter + Len(res) = read - (IF mpc = "notify" THEN 1 ELSE 0)
  /\ mpc \in {"line", "notify"} => iter = 0
  /\ mpc \in {"name", "remaining", "reap", "join", "exited", "threw"} => res = <<>>

\* Only a worker that waits for a task sleeps, and done is set at the end.
SleepInv ==
  /\ \A w \in asleep : wpc[w] = "fetch"
  /\ done => mpc \in {"reap", "join", "exited", "aborted"}

SInv == TypeOK /\ QueueInv /\ FlushInv /\ SleepInv /\ InOrder /\ NobodySleepsInVain
=============================================================================
