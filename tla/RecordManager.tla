--------------------------- MODULE RecordManager ---------------------------
(***************************************************************************)
(* record_manager, src/Lab3/src/record.cpp: the log file as the sequence   *)
(* of its records, the map records_ in memory, and log() step by step, so  *)
(* that the process can die between any two of its effects.                *)
(***************************************************************************)
EXTENDS RecordLog, Sequences, FiniteSets

CONSTANTS
  LoggedStatuses,   \* the statuses of the records the owner logs
  LoggedNexts,      \* and their next_ids
  MaxLen,           \* bound: records in the file
  CrashWhenEmpty    \* may the process die while the truncated file is empty?

ASSUME RecordManagerAssumption ==
  /\ LoggedStatuses \subseteq Pending \cup Done
  /\ LoggedNexts \subseteq Nat \ {0}
  /\ CrashWhenEmpty \in BOOLEAN

FileRecords == [status : LoggedStatuses, id : Ids, next_id : LoggedNexts]

VARIABLES
  file,      \* the records in file_
  records,   \* records_
  pc,        \* "ready", "down", or the effect of log() that comes next
  r          \* the record log() was called with

vars == <<file, records, pc, r>>

NoCall == [status |-> NoRecord]

TypeOK == /\ file \in Seq(FileRecords)
          /\ records \in Records
          /\ pc \in {"ready", "down", "remember", "truncate", "rewrite"}
          /\ r \in FileRecords \cup {NoCall}

Init == file = <<>> /\ records = NoRecords /\ pc = "ready" /\ r = NoCall

\* records_ after r: a DONE record is erased, any other overrides.
Remembered(recs, x) ==
  [recs EXCEPT ![x.id] = IF x.status \in Done THEN NoRecord ELSE x.status]

\* file_.write(); file_.flush()
Write(x) ==
  /\ pc = "ready"
  /\ Len(file) < MaxLen
  /\ file' = Append(file, x)
  /\ r' = x
  /\ pc' = "remember"
  /\ UNCHANGED records

\* Mutant: every DONE record empties the file.
RememberTruncates ==
  /\ pc = "remember"
  /\ records' = Remembered(records, r)
  /\ IF r.status \in Done THEN pc' = "truncate" /\ r' = r
                          ELSE pc' = "ready" /\ r' = NoCall
  /\ UNCHANGED file

Remember ==
  /\ pc = "remember"
  /\ records' = Remembered(records, r)
  /\ IF r.status \in Done /\ records' = NoRecords
     THEN pc' = "truncate" /\ r' = r
     ELSE pc' = "ready" /\ r' = NoCall
  /\ UNCHANGED file

\* Mutant: the record is given up before it is written again.
TruncateForgets ==
  /\ pc = "truncate"
  /\ file' = <<>>
  /\ pc' = "rewrite"
  /\ r' = NoCall
  /\ UNCHANGED records

Truncate ==
  /\ pc = "truncate"
  /\ file' = <<>>
  /\ pc' = "rewrite"
  /\ UNCHANGED <<records, r>>

\* "Preserve at least one record to help finding next_id"
Rewrite ==
  /\ pc = "rewrite"
  /\ file' = Append(file, r)
  /\ pc' = "ready"
  /\ r' = NoCall
  /\ UNCHANGED records

Crash ==
  /\ pc # "down"
  /\ pc = "rewrite" => CrashWhenEmpty
  /\ pc' = "down"
  /\ records' = NoRecords
  /\ r' = NoCall
  /\ UNCHANGED file

\* init_records() reads the file from its beginning: the last record of an id
\* counts, and the last record of all gives next_id_.
Positions(f, id) == {k \in 1..Len(f) : f[k].id = id}

Replay(f) ==
  [id \in Ids |->
     IF Positions(f, id) = {} THEN NoRecord
     ELSE LET last == CHOOSE k \in Positions(f, id) : \A j \in Positions(f, id) : j <= k
          IN  IF f[last].status \in Done THEN NoRecord ELSE f[last].status]

ReplayNext(f) == IF f = <<>> THEN 0 ELSE f[Len(f)].next_id

Restart ==
  /\ pc = "down"
  /\ records' = Replay(file)
  /\ pc' = "ready"
  /\ UNCHANGED <<file, r>>

Next == \/ \E x \in FileRecords : Write(x)
        \/ Remember
        \/ Truncate
        \/ Rewrite
        \/ Crash
        \/ Restart

Spec == Init /\ [][Next]_vars

-----------------------------------------------------------------------------
(* log() is atomic: it takes effect with the write to the file.  While the *)
(* file is being rewritten its contents are those of the record r.         *)

InMemory == CASE pc = "remember" -> Remembered(records, r)
              [] OTHER           -> records

OnDisk == IF pc = "rewrite" THEN <<r>> ELSE file

AbstractLog == [recs |-> Replay(OnDisk),
                mem  |-> {i \in Ids : InMemory[i] # NoRecord},
                next |-> ReplayNext(OnDisk)]

Atomic == INSTANCE AtomicLog WITH log <- AbstractLog, running <- (pc # "down")

\* Every record the owner logged, and the last next_id, is found again after
\* a crash, although log() rewrites the file when no request is unfinished.
LogIsAtomic == Atomic!Spec

(* What a step of log() relies on, the inductive invariant behind          *)
(* LogIsAtomic: what records_ lacks of the file is exactly the effect of   *)
(* the record that was written last, and the file is emptied only when     *)
(* nothing in it is unfinished.                                            *)
RecordsInv ==
  /\ TypeOK
  /\ pc \in {"ready", "down"} <=> r = NoCall
  /\ pc = "ready" => records = Replay(file)
  /\ pc = "remember" => Remembered(records, r) = Replay(file)
  /\ pc \in {"remember", "truncate"} => file # <<>> /\ r = file[Len(file)]
  /\ pc = "truncate" => Replay(file) = NoRecords
  /\ pc \in {"truncate", "rewrite"} => r.status \in Done
  /\ pc \in {"truncate", "rewrite", "down"} => records = NoRecords
  /\ pc = "rewrite" => file = <<>>

\* A process that dies leaves at least one record behind once it has logged
\* one, so that its successor finds next_id ("Preserve at least one record"):
\* the coordinator would otherwise take itself for freshly installed.
NextIdFound ==
  [][pc # "down" /\ pc' = "down" /\ (file # <<>> \/ r # NoCall) => file' # <<>>]_vars
=============================================================================
