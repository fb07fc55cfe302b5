----------------------------- MODULE AtomicLog -----------------------------
(***************************************************************************)
(* What the coordinator expects of its record_manager: a call of log()     *)
(* happens at once or not at all, a crash loses only the memory, and a     *)
(* restart finds every record and the last next_id again.  Modules         *)
(* Coordinator and Participant use the log this way.                       *)
(***************************************************************************)
EXTENDS RecordLog

CONSTANTS
  LoggedStatuses,   \* the statuses,
  LoggedNexts       \* and the next_ids, of the records the owner logs

VARIABLES
  log,      \* a member of Logs
  running   \* is the owner running?

Init == log = EmptyLog(0) /\ running = TRUE

LogCall(status, id, nx) == /\ running
                           /\ log' = LogRecord(log, status, id, nx)
                           /\ UNCHANGED running

Crash == running /\ running' = FALSE /\ log' = [log EXCEPT !.mem = {}]

Restart == ~running /\ running' = TRUE /\ log' = InitRecords(log)

Next == \/ \E status \in LoggedStatuses, id \in Ids, nx \in LoggedNexts : LogCall(status, id, nx)
        \/ Crash
        \/ Restart

Spec == Init /\ [][Next]_<<log, running>>
============================================================================
