------------------------ MODULE RecordManagerProofs ------------------------
(***************************************************************************)
(* record_manager implements AtomicLog: for every set of ids, statuses and *)
(* next_ids and every length of the file, log() takes effect in one step,  *)
(* although the process may die between any two effects of it but the      *)
(* truncation and the rewrite.  RecordsInv is inductive; under it each     *)
(* step of the implementation is a step of AtomicLog or a stutter.         *)
(***************************************************************************)
EXTENDS RecordManager, SequenceTheorems, WellFoundedInduction, TLAPS

-----------------------------------------------------------------------------
(* The last position of an id.                                             *)

(* A nonempty set of naturals has a least element. *)
LEMMA Least ==
  ASSUME NEW T, T \subseteq Nat, T # {}
  PROVE  \E x \in T : \A y \in T : x <= y
<1>1. PICK x \in T : \A y \in T : ~(<<y, x>> \in OpToRel(<, Nat))
  BY NatLessThanWellFounded, WFMin
<1>2. \A y \in T : ~(y < x)
  BY <1>1 DEF OpToRel
<1> QED
  BY <1>2

(* A nonempty set of positions has a last one. *)
LEMMA Greatest ==
  ASSUME NEW n \in Nat, NEW T, T \subseteq 1..n, T # {}
  PROVE  \E x \in T : \A y \in T : y <= x
<1> DEFINE D == {n - k : k \in T}
<1>0. \A k \in T : n - k \in Nat
  OBVIOUS
<1>1. D \subseteq Nat /\ D # {}
  BY <1>0
<1>2. PICK d \in D : \A e \in D : d <= e
  BY <1>1, Least
<1>3. PICK x \in T : d = n - x
  OBVIOUS
<1>4. \A y \in T : n - x <= n - y
  BY <1>2, <1>3
<1> QED
  BY <1>3, <1>4

LastOf(f, id) == CHOOSE k \in Positions(f, id) : \A j \in Positions(f, id) : j <= k

(* The position Replay() looks at is one of the id's. *)
LEMMA LastOfIsPosition ==
  ASSUME NEW f \in Seq(FileRecords), NEW id, Positions(f, id) # {}
  PROVE  LastOf(f, id) \in Positions(f, id)
<1>1. Positions(f, id) \subseteq 1..Len(f) /\ Len(f) \in Nat
  BY DEF Positions
<1>2. \E k \in Positions(f, id) : \A j \in Positions(f, id) : j <= k
  BY <1>1, Greatest
<1> QED
  BY <1>2 DEF LastOf

(* Replay() in terms of the last position. *)
LEMMA ReplayAt ==
  ASSUME NEW f, NEW id \in Ids
  PROVE  Replay(f)[id] = IF Positions(f, id) = {} THEN NoRecord
                         ELSE IF f[LastOf(f, id)].status \in Done THEN NoRecord
                         ELSE f[LastOf(f, id)].status
  BY Zenon DEF Replay, LastOf

(* Records of the file have a status that is not NoRecord. *)
LEMMA FileRecordFacts ==
  ASSUME NEW x \in FileRecords
  PROVE  /\ x.id \in Ids /\ x.status \in Pending \cup Done /\ x.next_id \in Nat \ {0}
         /\ x.status # NoRecord /\ x # NoCall
<1>1. x.id \in Ids /\ x.status \in Pending \cup Done /\ x.next_id \in Nat \ {0}
  BY RecordManagerAssumption DEF FileRecords
<1>2. x.status # NoRecord
  BY <1>1 DEF Pending, Done, NoRecord
<1> QED
  BY <1>1, <1>2 DEF NoCall

(* What init_records() makes of a file is a map of records. *)
LEMMA ReplayType ==
  ASSUME NEW f \in Seq(FileRecords)
  PROVE  Replay(f) \in Records
<1>1. ASSUME NEW id \in Ids, Positions(f, id) # {}
      PROVE  f[LastOf(f, id)].status \in Pending \cup Done
  <2>1. LastOf(f, id) \in 1..Len(f)
    BY <1>1, LastOfIsPosition DEF Positions
  <2>2. f[LastOf(f, id)] \in FileRecords
    BY <2>1, ElementOfSeq
  <2> QED
    BY <2>2, FileRecordFacts
<1> QED
  BY <1>1 DEF Replay, LastOf, Records

(* Reading one record more is remembering it: the reading of the file and *)
(* what log() does to records_ agree.                                      *)
LEMMA ReplayAppend ==
  ASSUME NEW f \in Seq(FileRecords), NEW x \in FileRecords
  PROVE  Replay(Append(f, x)) = Remembered(Replay(f), x)
<1> DEFINE g == Append(f, x)
<1>0. /\ Len(f) \in Nat /\ Len(g) = Len(f) + 1 /\ g \in Seq(FileRecords)
      /\ \A k \in 1..Len(f) : g[k] = f[k]
      /\ g[Len(f) + 1] = x
  BY AppendProperties
<1>1. x.id \in Ids
  BY FileRecordFacts
<1> HIDE DEF g
<1>2. Positions(g, x.id) = Positions(f, x.id) \cup {Len(f) + 1}
  BY <1>0 DEF Positions
<1>3. LastOf(g, x.id) = Len(f) + 1
  <2>1. LastOf(g, x.id) \in Positions(g, x.id)
    BY <1>0, <1>2, LastOfIsPosition
  <2>2. \A j \in Positions(g, x.id) : j <= Len(f) + 1 /\ j \in Nat
    BY <1>0 DEF Positions
  <2>3. \E k \in Positions(g, x.id) : \A j \in Positions(g, x.id) : j <= k
    BY <1>2, <2>2
  <2>4. \A j \in Positions(g, x.id) : j <= LastOf(g, x.id)
    BY <2>3 DEF LastOf
  <2>5. Len(f) + 1 <= LastOf(g, x.id) /\ LastOf(g, x.id) <= Len(f) + 1 /\ LastOf(g, x.id) \in Nat
    BY <1>2, <2>1, <2>2, <2>4
  <2> QED
    BY <1>0, <2>5
<1>4. ASSUME NEW id \in Ids, id # x.id
      PROVE  Positions(g, id) = Positions(f, id)
  BY <1>0, <1>4 DEF Positions
<1>5. ASSUME NEW id \in Ids, id # x.id
      PROVE  Replay(g)[id] = Replay(f)[id]
  <2>1. Positions(g, id) = Positions(f, id)
    BY <1>4, <1>5
  <2>2. LastOf(g, id) = LastOf(f, id)
    BY <2>1 DEF LastOf
  <2>3. Positions(f, id) # {} => g[LastOf(g, id)] = f[LastOf(f, id)]
    BY <1>0, <2>2, LastOfIsPosition DEF Positions
  <2> QED
    BY <2>1, <2>3, ReplayAt
<1>6. Replay(g)[x.id] = IF x.status \in Done THEN NoRecord ELSE x.status
  <2>1. Positions(g, x.id) # {} /\ g[LastOf(g, x.id)] = x
    BY <1>0, <1>2, <1>3
  <2> QED
    BY <1>1, <2>1, ReplayAt
<1>7. Replay(g) = Remembered(Replay(f), x)
  <2>1. Replay(f) \in Records /\ Replay(g) \in Records
    BY <1>0, ReplayType
  <2> QED
    BY <1>1, <1>5, <1>6, <2>1 DEF Records, Remembered
<1> QED
  BY <1>7 DEF g

(* An empty file holds nothing. *)
LEMMA ReplayEmpty == Replay(<<>>) = NoRecords
  BY DEF Replay, Positions, NoRecords

(* A file of one record holds what that record says. *)
LEMMA ReplayOne ==
  ASSUME NEW x \in FileRecords, x.status \in Done
  PROVE  Replay(<<x>>) = NoRecords /\ ReplayNext(<<x>>) = x.next_id
<1>1. <<x>> = Append(<<>>, x)
  OBVIOUS
<1>2. Replay(<<x>>) = Remembered(NoRecords, x)
  BY <1>1, ReplayAppend, ReplayEmpty, EmptySeq
<1>3. Remembered(NoRecords, x) = NoRecords
  BY FileRecordFacts DEF Remembered, NoRecords
<1> QED
  BY <1>2, <1>3 DEF ReplayNext

-----------------------------------------------------------------------------
(* RecordsInv is inductive.                                                *)

(* An empty file and no records. *)
LEMMA InitInv == Init => RecordsInv
<1> SUFFICES ASSUME Init PROVE RecordsInv
  OBVIOUS
<1>1. NoRecords \in Records
  BY DEF NoRecords, Records
<1> QED
  BY <1>1, ReplayEmpty DEF Init, RecordsInv, TypeOK

(* The record is in the file and not yet in records_: Remembered makes up for it. *)
LEMMA WriteInv ==
  ASSUME RecordsInv, NEW x \in FileRecords, Write(x)
  PROVE  RecordsInv'
<1>1. Append(file, x) \in Seq(FileRecords) /\ Append(file, x) # <<>>
      /\ Append(file, x)[Len(Append(file, x))] = x
  BY AppendProperties DEF RecordsInv, TypeOK
<1>2. Remembered(records, x) = Replay(Append(file, x))
  BY ReplayAppend DEF RecordsInv, TypeOK, Write
<1> QED
  BY <1>1, <1>2, FileRecordFacts DEF RecordsInv, TypeOK, Write

(* records_ catches up with the file. *)
LEMMA RememberInv ==
  ASSUME RecordsInv, Remember
  PROVE  RecordsInv'
<1>1. r \in FileRecords /\ file \in Seq(FileRecords) /\ Remembered(records, r) = Replay(file)
  BY DEF RecordsInv, TypeOK, Remember
<1>2. records' = Replay(file) /\ records' \in Records
  BY <1>1, ReplayType DEF Remember
<1> QED
  BY <1>1, <1>2, FileRecordFacts DEF RecordsInv, TypeOK, Remember

(* The file is empty while records_ holds nothing unfinished. *)
LEMMA TruncateInv ==
  ASSUME RecordsInv, Truncate
  PROVE  RecordsInv'
  BY DEF RecordsInv, TypeOK, Truncate

(* The one record that is written back is a finished one, so it replays to nothing. *)
LEMMA RewriteInv ==
  ASSUME RecordsInv, Rewrite
  PROVE  RecordsInv'
<1>1. r \in FileRecords /\ file' = <<r>> /\ file' \in Seq(FileRecords) /\ r.status \in Done
  BY DEF RecordsInv, TypeOK, Rewrite
<1>2. Replay(file') = NoRecords
  BY <1>1, ReplayOne
<1> QED
  BY <1>1, <1>2 DEF RecordsInv, TypeOK, Rewrite

(* The file stays, records_ is gone. *)
LEMMA CrashInv ==
  ASSUME RecordsInv, Crash
  PROVE  RecordsInv'
<1>1. NoRecords \in Records
  BY DEF NoRecords, Records
<1> QED
  BY <1>1 DEF RecordsInv, TypeOK, Crash

(* init_records() replays the file. *)
LEMMA RestartInv ==
  ASSUME RecordsInv, Restart
  PROVE  RecordsInv'
  BY ReplayType DEF RecordsInv, TypeOK, Restart

(* Between the steps of log(), records_ and the file differ by the record  *)
(* in hand and nothing else, for every sequence of calls and crashes.      *)
THEOREM RecordsInductive == Spec => []RecordsInv
<1>1. ASSUME RecordsInv, [Next]_vars PROVE RecordsInv'
  <2>1. CASE UNCHANGED vars
    BY <1>1, <2>1 DEF vars, RecordsInv, TypeOK
  <2> QED
    BY <1>1, <2>1, WriteInv, RememberInv, TruncateInv, RewriteInv, CrashInv, RestartInv DEF Next
<1> QED
  BY <1>1, InitInv, PTL DEF Spec

-----------------------------------------------------------------------------
(* The refinement, step by step.                                           *)

(* The log as AtomicLog sees it while nothing is half done. *)
LEMMA AbstractReady ==
  ASSUME RecordsInv, pc \in {"ready", "truncate"}
  PROVE  AbstractLog = [recs |-> Replay(file), mem |-> {i \in Ids : Replay(file)[i] # NoRecord},
                        next |-> ReplayNext(file)]
  BY DEF RecordsInv, AbstractLog, OnDisk, InMemory

(* The last next_id is that of the record appended last. *)
LEMMA ReplayNextAppend ==
  ASSUME NEW f \in Seq(FileRecords), NEW x \in FileRecords
  PROVE  ReplayNext(Append(f, x)) = x.next_id
  BY AppendProperties DEF ReplayNext

(* file_.write() is where log() takes effect. *)
LEMMA WriteRefines ==
  ASSUME RecordsInv, NEW x \in FileRecords, Write(x)
  PROVE  Atomic!LogCall(x.status, x.id, x.next_id)
<1> DEFINE recs == Replay(file)
           new  == Remembered(recs, x)
<1>1. x.id \in Ids /\ x.status \in Pending \cup Done /\ x.status # NoRecord
  BY FileRecordFacts
<1>2. /\ file \in Seq(FileRecords) /\ pc = "ready" /\ pc' = "remember" /\ r' = x
      /\ file' = Append(file, x) /\ records' = records /\ records = recs
  BY DEF RecordsInv, TypeOK, Write
<1>3. recs \in Records
  BY <1>2, ReplayType
<1>4. AbstractLog = [recs |-> recs, mem |-> {i \in Ids : recs[i] # NoRecord}, next |-> ReplayNext(file)]
  BY <1>2, AbstractReady
<1>5. Replay(file') = new /\ ReplayNext(file') = x.next_id
  BY <1>2, ReplayAppend, ReplayNextAppend
<1>6. AbstractLog' = [recs |-> new, mem |-> {i \in Ids : new[i] # NoRecord}, next |-> x.next_id]
  BY <1>2, <1>5 DEF AbstractLog, OnDisk, InMemory
<1> HIDE DEF recs
<1>7. {i \in Ids : new[i] # NoRecord}
        = IF x.status \in Done THEN {i \in Ids : recs[i] # NoRecord} \ {x.id}
                               ELSE {i \in Ids : recs[i] # NoRecord} \cup {x.id}
  BY <1>1, <1>3 DEF Remembered, Records
<1>8. ASSUME x.status \in Done, {i \in Ids : recs[i] # NoRecord} \ {x.id} = {}
      PROVE  new = NoRecords
  <2>1. \A i \in Ids : new[i] = NoRecord
    BY <1>1, <1>3, <1>8 DEF Remembered, Records
  <2>2. new = [i \in Ids |-> new[i]]
    BY <1>3 DEF Remembered, Records
  <2> QED
    BY <2>1, <2>2 DEF NoRecords
<1>9. AbstractLog' = LogRecord(AbstractLog, x.status, x.id, x.next_id)
  <2>1. LogRecord(AbstractLog, x.status, x.id, x.next_id).recs = new
    BY <1>4, <1>7, <1>8 DEF LogRecord, Remembered
  <2> QED
    BY <1>4, <1>6, <1>7, <2>1 DEF LogRecord
<1>10. Atomic!LogRecord(AbstractLog, x.status, x.id, x.next_id)
         = LogRecord(AbstractLog, x.status, x.id, x.next_id)
  BY DEF Atomic!LogRecord, LogRecord, Atomic!Done, Done, Atomic!NoRecords, NoRecords, Atomic!Ids, Ids,
         Atomic!NoRecord, NoRecord
<1> QED
  BY <1>2, <1>9, <1>10 DEF Atomic!LogCall

(* The rest of log() is invisible: the map is brought up to date, ... *)
LEMMA RememberRefines ==
  ASSUME RecordsInv, Remember
  PROVE  AbstractLog' = AbstractLog /\ pc # "down" /\ pc' # "down"
<1>1. OnDisk = file /\ OnDisk' = file
  BY DEF OnDisk, Remember
<1>2. InMemory' = InMemory
  BY DEF InMemory, Remember
<1> QED
  BY <1>1, <1>2 DEF AbstractLog, Remember

(* ... the file is emptied with the record still in hand, ... *)
LEMMA TruncateRefines ==
  ASSUME RecordsInv, Truncate
  PROVE  AbstractLog' = AbstractLog /\ pc # "down" /\ pc' # "down"
<1>1. /\ pc = "truncate" /\ pc' = "rewrite" /\ records' = records /\ r' = r
      /\ file \in Seq(FileRecords) /\ file # <<>> /\ r = file[Len(file)]
      /\ Replay(file) = NoRecords /\ r.status \in Done
  BY DEF RecordsInv, TypeOK, Truncate
<1>2. r \in FileRecords
  BY <1>1
<1>3. Replay(<<r>>) = Replay(file) /\ ReplayNext(<<r>>) = ReplayNext(file)
  BY <1>1, <1>2, ReplayOne DEF ReplayNext
<1>4. OnDisk = file /\ OnDisk' = <<r>> /\ InMemory' = InMemory
  BY <1>1 DEF OnDisk, InMemory
<1> QED
  BY <1>1, <1>3, <1>4 DEF AbstractLog

(* ... and the record is put back. *)
LEMMA RewriteRefines ==
  ASSUME RecordsInv, Rewrite
  PROVE  AbstractLog' = AbstractLog /\ pc # "down" /\ pc' # "down"
<1>1. /\ pc = "rewrite" /\ pc' = "ready" /\ records' = records /\ file' = <<r>>
  BY DEF RecordsInv, TypeOK, Rewrite
<1>2. OnDisk' = OnDisk /\ InMemory' = InMemory
  BY <1>1 DEF OnDisk, InMemory
<1> QED
  BY <1>1, <1>2 DEF AbstractLog

(* A crash loses the memory and nothing of the file. *)
LEMMA CrashRefines ==
  ASSUME RecordsInv, Crash, ~CrashWhenEmpty
  PROVE  Atomic!Crash
<1>1. pc # "down" /\ pc' = "down" /\ pc # "rewrite" /\ file' = file /\ records' = NoRecords
  BY DEF Crash
<1>2. OnDisk = file /\ OnDisk' = file /\ InMemory' = NoRecords
  BY <1>1 DEF OnDisk, InMemory
<1>3. AbstractLog' = [recs |-> Replay(file), mem |-> {}, next |-> ReplayNext(file)]
  <2>1. {i \in Ids : NoRecords[i] # NoRecord} = {}
    BY DEF NoRecords
  <2> QED
    BY <1>2, <2>1 DEF AbstractLog
<1>4. AbstractLog' = [AbstractLog EXCEPT !.mem = {}]
  <2>1. AbstractLog = [recs |-> Replay(file), mem |-> AbstractLog.mem, next |-> ReplayNext(file)]
    BY <1>2 DEF AbstractLog
  <2> QED
    BY <1>3, <2>1
<1> QED
  BY <1>1, <1>4 DEF Atomic!Crash

(* A restart finds again what the file holds. *)
LEMMA RestartRefines ==
  ASSUME RecordsInv, Restart
  PROVE  Atomic!Restart
<1>1. pc = "down" /\ pc' = "ready" /\ file' = file /\ records' = Replay(file)
  BY DEF Restart
<1>2. OnDisk = file /\ OnDisk' = file /\ InMemory' = Replay(file)
  BY <1>1 DEF OnDisk, InMemory
<1>3. AbstractLog' = InitRecords(AbstractLog)
  <2>1. /\ AbstractLog.recs = Replay(file) /\ AbstractLog.next = ReplayNext(file)
        /\ AbstractLog = [recs |-> Replay(file), mem |-> AbstractLog.mem, next |-> ReplayNext(file)]
    BY <1>2 DEF AbstractLog
  <2>2. AbstractLog' = [recs |-> Replay(file), mem |-> {i \in Ids : Replay(file)[i] # NoRecord},
                        next |-> ReplayNext(file)]
    BY <1>2 DEF AbstractLog
  <2> QED
    BY <2>1, <2>2 DEF InitRecords
<1>4. Atomic!InitRecords(AbstractLog) = InitRecords(AbstractLog)
  BY DEF Atomic!InitRecords, InitRecords, Atomic!Ids, Ids, Atomic!NoRecord, NoRecord
<1> QED
  BY <1>1, <1>3, <1>4 DEF Atomic!Restart

(* log() is atomic for the owner of the log, and what it wrote is found    *)
(* after every crash, for any number of ids, statuses and records: the     *)
(* implementation of record.cpp refines AtomicLog as long as the process   *)
(* does not die between the truncation of the file and its rewriting.      *)
THEOREM LogRefines == ~CrashWhenEmpty => (Spec => LogIsAtomic)
<1> SUFFICES ASSUME ~CrashWhenEmpty PROVE Spec => LogIsAtomic
  OBVIOUS
<1>1. Init => Atomic!Init
  <2> SUFFICES ASSUME Init PROVE Atomic!Init
    OBVIOUS
  <2>1. AbstractLog = EmptyLog(0)
    BY ReplayEmpty DEF Init, AbstractLog, OnDisk, InMemory, EmptyLog, NoRecords, ReplayNext
  <2>2. Atomic!EmptyLog(0) = EmptyLog(0)
    BY DEF Atomic!EmptyLog, EmptyLog, Atomic!NoRecords, NoRecords, Atomic!Ids, Ids,
           Atomic!NoRecord, NoRecord
  <2> QED
    BY <2>1, <2>2 DEF Atomic!Init, Init
<1>2. ASSUME RecordsInv, [Next]_vars
      PROVE  [Atomic!Next]_<<AbstractLog, pc # "down">>
  <2>1. ASSUME NEW x \in FileRecords, Write(x) PROVE Atomic!Next
    <3>1. x.status \in LoggedStatuses /\ x.id \in Ids /\ x.next_id \in LoggedNexts
      BY DEF FileRecords
    <3> QED
      BY <1>2, <2>1, <3>1, WriteRefines DEF Atomic!Next, Atomic!Ids, Ids
  <2>2. CASE Crash
    BY <1>2, <2>2, CrashRefines DEF Atomic!Next
  <2>3. CASE Restart
    BY <1>2, <2>3, RestartRefines DEF Atomic!Next
  <2>4. CASE Remember \/ Truncate \/ Rewrite
    BY <1>2, <2>4, RememberRefines, TruncateRefines, RewriteRefines
  <2>5. CASE UNCHANGED vars
    BY <2>5 DEF vars, AbstractLog, OnDisk, InMemory
  <2> QED
    BY <1>2, <2>1, <2>2, <2>3, <2>4, <2>5 DEF Next
<1> QED
  BY <1>1, <1>2, RecordsInductive, PTL DEF Spec, LogIsAtomic, Atomic!Spec
=============================================================================
