----------------------------- MODULE RecordLog -----------------------------
(***************************************************************************)
(* What a record_manager (src/Lab3/src/record.cpp) keeps for its owner, a  *)
(* coordinator or a participant, as one value:                             *)
(*   recs  what replaying the log file yields: the status of every request *)
(*         whose last record is not a DONE record;                         *)
(*   mem   the ids in the in-memory map records_, which decide when the    *)
(*         file is truncated;                                              *)
(*   next  the next_id of the last record in the file (0: an empty file).  *)
(* The steps inside one call of log(), and a crash between them, are the   *)
(* subject of module RecordManager.                                        *)
(***************************************************************************)
EXTENDS Naturals

CONSTANT MaxId      \* bound on the ids the coordinator hands out

ASSUME MaxIdAssumption == MaxId \in Nat \ {0}

Ids == 1..MaxId

\* The statuses init_records() keeps and the ones it drops.
Pending  == {"UNRESOLVED", "COMMIT", "ABORT", "PREPARED"}
Done     == {"COMMIT_DONE", "ABORT_DONE"}
NoRecord == "NONE"

Records == [Ids -> Pending \cup {NoRecord}]
Logs    == [recs : Records, mem : SUBSET Ids, next : Nat]

NoRecords    == [i \in Ids |-> NoRecord]
EmptyLog(nx) == [recs |-> NoRecords, mem |-> {}, next |-> nx]

\* log(r): append and flush; a DONE record leaves records_, and when that
\* empties records_ the file is truncated and keeps only r.
LogRecord(l, status, id, nx) ==
  LET mem == IF status \in Done THEN l.mem \ {id} ELSE l.mem \cup {id}
  IN  [recs |-> IF status \in Done /\ mem = {}
                THEN NoRecords
                ELSE [l.recs EXCEPT ![id] = IF status \in Done THEN NoRecord ELSE status],
       mem  |-> mem,
       next |-> nx]

\* init_records(): a restarted process finds in records_ what the file holds.
InitRecords(l) == [l EXCEPT !.mem = {i \in Ids : l.recs[i] # NoRecord}]
============================================================================
