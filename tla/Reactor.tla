------------------------------ MODULE Reactor -------------------------------
(***************************************************************************)
(* The reactor of the TCP library, src/Lab3/src/tcp_server/reactor.cpp,    *)
(* and its pipe notifier.  The poll thread asks select() about the tracked *)
(* descriptors that have a callback which is not running, and queues the   *)
(* callbacks of the ready ones for the worker threads (module CallbackPool *)
(* has the queue in detail).  A descriptor unregistered while a callback   *)
(* of it runs is marked, and erased by the end of that callback.  Every    *)
(* operation holds tracked_fds_mutex_ from its first to its last access,   *)
(* so each is one step; read and write differ in the direction only.       *)
(***************************************************************************)
EXTENDS Sockets, SequencesExt

VARIABLES
  tracked,      \* tracked_fds_: descriptor -> fd_info
  poll,         \* the poll thread: where it is, and its select() sets
  pipe,         \* is there a byte in the notifier?
  tasks,        \* callbacks queued in callback_workers_
  poll_stop     \* poll_stop_

reactorVars == <<tracked, poll, pipe, tasks, poll_stop>>

Dirs == {"rd", "wr"}
Other(dir) == IF dir = "rd" THEN "wr" ELSE "rd"
NoCb == -1                   \* nullptr; otherwise a callback is the object it is bound to

NoInfo == [cb |-> [d \in Dirs |-> NoCb], exec |-> [d \in Dirs |-> FALSE], marked |-> FALSE]
PollTop == [pc |-> "top", asked |-> {}, ready |-> {}, notified |-> FALSE]
Tasks == [fd : Fds, dir : Dirs, cb : Socks]

ReactorTypeOK ==
  /\ DOMAIN tracked \subseteq Fds
  /\ \A f \in DOMAIN tracked : tracked[f] \in
       [cb : [Dirs -> Socks \cup {NoCb}], exec : [Dirs -> BOOLEAN], marked : BOOLEAN]
  /\ poll \in [pc : {"top", "select", "dispatch", "exited"}, asked : SUBSET (Fds \X Dirs),
               ready : SUBSET (Fds \X Dirs), notified : BOOLEAN]
  /\ pipe \in BOOLEAN /\ poll_stop \in BOOLEAN /\ tasks \in Seq(Tasks)

ReactorInit ==
  /\ tracked = <<>> /\ poll = PollTop /\ pipe = FALSE /\ tasks = <<>> /\ poll_stop = FALSE

Info(f) == IF f \in DOMAIN tracked THEN tracked[f] ELSE NoInfo
With(f, info) == [g \in DOMAIN tracked \cup {f} |-> IF g = f THEN info ELSE tracked[g]]
Without(fs) == [g \in DOMAIN tracked \ fs |-> tracked[g]]
Busy(info) == \E d \in Dirs : info.exec[d]

\* notify() writes a byte; clear_pipe() reads what is there when select() has
\* reported it.
Notify == pipe' = TRUE
ClearPipe == pipe' = (pipe /\ ~poll.notified)

-----------------------------------------------------------------------------
(* What the other threads call.                                            *)

RegisterFd(f, rdCallback) ==
  /\ tracked' = With(f, [Info(f) EXCEPT !.cb = [rd |-> rdCallback, wr |-> NoCb], !.marked = FALSE])
  /\ Notify

\* Mutant: the entry is replaced, and the other callback with it.
SetCallbackOnly(f, dir, cb) ==
  /\ tracked' = With(f, [NoInfo EXCEPT !.cb[dir] = cb, !.exec = Info(f).exec])
  /\ Notify

\* set_rd_callback() and set_wr_callback(): tracked_fds_[fd] makes a missing entry.
SetCallback(f, dir, cb) ==
  /\ tracked' = With(f, [Info(f) EXCEPT !.cb[dir] = cb])
  /\ Notify

Unregister(f) ==
  IF f \notin DOMAIN tracked THEN UNCHANGED <<tracked, pipe>>
  ELSE /\ tracked' = IF Busy(tracked[f]) THEN With(f, [tracked[f] EXCEPT !.marked = TRUE])
                     ELSE Without({f})
       /\ Notify

\* Mutant: the poll thread is not woken.
EpilogueQuietly(f, dir) ==
  /\ UNCHANGED pipe
  /\ IF f \notin DOMAIN tracked THEN UNCHANGED tracked
     ELSE LET info == [tracked[f] EXCEPT !.exec[dir] = FALSE] IN
          tracked' = IF info.marked /\ ~info.exec[Other(dir)] THEN Without({f}) ELSE With(f, info)

\* The end of the task dispatch_read() or dispatch_write() made, after the callback.
Epilogue(f, dir) ==
  IF f \notin DOMAIN tracked THEN UNCHANGED <<tracked, pipe>>
  ELSE /\ LET info == [tracked[f] EXCEPT !.exec[dir] = FALSE] IN
          tracked' = IF info.marked /\ ~info.exec[Other(dir)] THEN Without({f}) ELSE With(f, info)
       /\ Notify

\* The flag of stop(), which wakes the poll thread, and of ~reactor(), which does not.
SetPollStop(wake) == poll_stop' = TRUE /\ pipe' = (pipe \/ wake)

-----------------------------------------------------------------------------
(* poll().                                                                 *)

PollExit ==
  /\ poll.pc = "top" /\ poll_stop
  /\ poll' = [PollTop EXCEPT !.pc = "exited"]
  /\ UNCHANGED <<tracked, pipe, tasks>>

InitSelectFds ==
  /\ poll.pc = "top" /\ ~poll_stop
  /\ LET asked == {p \in (DOMAIN tracked) \X Dirs :
                     tracked[p[1]].cb[p[2]] # NoCb /\ ~tracked[p[1]].exec[p[2]]} IN
     poll' = [PollTop EXCEPT !.pc = "select", !.asked = asked]
  /\ UNCHANGED <<tracked, pipe, tasks>>

\* select() fails at once when it is asked about a closed descriptor.
SelectFails ==
  /\ poll.pc = "select" /\ \E p \in poll.asked : kfd[p[1]] = Closed
  /\ poll' = PollTop
  /\ UNCHANGED <<tracked, pipe, tasks>>

Select ==
  /\ poll.pc = "select" /\ \A p \in poll.asked : kfd[p[1]] # Closed
  /\ LET ready == {p \in poll.asked : Ready(p[1], p[2])} IN
     /\ pipe \/ ready # {}
     /\ poll' = [poll EXCEPT !.pc = "dispatch", !.asked = {}, !.ready = ready, !.notified = pipe]
  /\ UNCHANGED <<tracked, pipe, tasks>>

\* The orders in which these callbacks may be queued: descriptor by descriptor,
\* dispatch_read() before dispatch_write().
Queueings(chosen) ==
  LET task(p) == [fd |-> p[1], dir |-> p[2], cb |-> tracked[p[1]].cb[p[2]]] IN
  {q \in SetToSeqs({task(p) : p \in chosen}) :
     \A i, j \in DOMAIN q : i < j /\ q[i].fd = q[j].fd => j = i + 1 /\ q[i].dir = "rd"}

\* Mutant: is_executing_rd_cb and is_executing_wr_cb are left for the callback to set.
DispatchUnmarked ==
  /\ poll.pc = "dispatch"
  /\ LET chosen == {p \in poll.ready : /\ p[1] \in DOMAIN tracked
                                       /\ tracked[p[1]].cb[p[2]] # NoCb
                                       /\ ~tracked[p[1]].exec[p[2]]}
         gone == {f \in DOMAIN tracked : tracked[f].marked /\ ~Busy(tracked[f])} IN
     /\ \E q \in Queueings(chosen) : tasks' = tasks \o q
     /\ tracked' = Without(gone)
  /\ ClearPipe
  /\ poll' = PollTop

\* dispatch_select(): the callbacks still wanted, in some order of the descriptors.
\* polled_fds_ has every marked descriptor that was idle when it was filled.
Dispatch ==
  /\ poll.pc = "dispatch"
  /\ LET chosen == {p \in poll.ready : /\ p[1] \in DOMAIN tracked
                                       /\ tracked[p[1]].cb[p[2]] # NoCb
                                       /\ ~tracked[p[1]].exec[p[2]]}
         running == [f \in DOMAIN tracked |->
                       [tracked[f] EXCEPT !.exec = [d \in Dirs |-> @[d] \/ <<f, d>> \in chosen]]]
         gone == {f \in DOMAIN tracked : running[f].marked /\ ~Busy(running[f])} IN
     /\ \E q \in Queueings(chosen) : tasks' = tasks \o q
     /\ tracked' = [f \in DOMAIN tracked \ gone |-> running[f]]
  /\ ClearPipe
  /\ poll' = PollTop

Poll ==
  /\ PollExit \/ InitSelectFds \/ SelectFails \/ Select \/ Dispatch
  /\ UNCHANGED <<sockVars, poll_stop>>
=============================================================================
