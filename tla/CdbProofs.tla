------------------------------ MODULE CdbProofs ------------------------------
(***************************************************************************)
(* The Cdb store, for any participants, keys, values and ids.              *)
(*                                                                         *)
(* The coordinator: CInv of module Coordinator is an inductive invariant,  *)
(* whatever the participants answer.  One lemma per action; the actions    *)
(* that share an argument (a move of Main, a step inside a loop, a logged  *)
(* decision, the end of a request) share a lemma about it.                 *)
(*                                                                         *)
(* The store as a whole: with any number of crashes, kills and calls that  *)
(* arrive late, what the participants applied is what the coordinator      *)
(* committed and what the clients were told.  DInv is inductive: CInv says *)
(* what the coordinator sends, the lemmas on the handlers say what a call  *)
(* does to a participant.                                                  *)
(*                                                                         *)
(* One copy: with any number of kills, also inside a handler, whoever      *)
(* answers a GET has exactly the committed data.  ReplicaInv is inductive: *)
(* further lemmas on the handlers say where a call leaves the participant  *)
(* (its next_id_, its log, its database), then one lemma per step of the   *)
(* coordinator puts that together with what the coordinator believes.      *)
(***************************************************************************)
EXTENDS Cdb, TLAPS

-----------------------------------------------------------------------------
(* The coordinator.                                                        *)

(* The memory and the file of a log agree. *)
Consistent(l) == l \in Logs /\ l.mem = {i \in Ids : l.recs[i] # NoRecord}

(* k is l after log({status, id, nx}). *)
Logged(k, l, status, id, nx) ==
  /\ Consistent(k)
  /\ k.recs = [l.recs EXCEPT ![id] = IF status \in Done THEN NoRecord ELSE status]
  /\ k.next = nx

(* log() keeps a log consistent. *)
LEMMA LogRecordLemma ==
  ASSUME NEW l, Consistent(l), NEW status \in Pending \cup Done, NEW id \in Ids, NEW nx \in Nat
  PROVE  Logged(LogRecord(l, status, id, nx), l, status, id, nx)
<1> DEFINE k    == LogRecord(l, status, id, nx)
           recs == [l.recs EXCEPT ![id] = IF status \in Done THEN NoRecord ELSE status]
<1>1. l \in Logs /\ l.mem = {i \in Ids : l.recs[i] # NoRecord} /\ recs \in Records
  BY DEF Consistent, Logs, Records, Pending, Done, NoRecord
<1>2. k.recs = recs
  BY <1>1 DEF LogRecord, Logs, Records, NoRecords, Done, Pending, NoRecord
<1>3. k.mem = {i \in Ids : recs[i] # NoRecord}
  BY <1>1 DEF LogRecord, Logs, Records, Done, Pending, NoRecord
<1>4. k \in Logs /\ k.next = nx
  BY <1>1, <1>2, <1>3 DEF LogRecord, Logs
<1> HIDE DEF k
<1>5. Logged(k, l, status, id, nx)
  BY <1>2, <1>3, <1>4 DEF Logged, Consistent
<1> QED
  BY <1>5 DEF k

(* While one thread is inside a loop, the other one has none.              *)
LEMMA OtherLoopEmpty ==
  ASSUME CInv, NEW t \in Threads, pc[t] \in {"prepare", "commit", "abort"},
         NEW u \in Threads, u # t
  PROVE  todo[u] = {}
<1>1. CASE t = Worker
  <2>1. u = Main /\ pc[Main] \notin Updating
    BY <1>1 DEF CInv, LockInv, Threads
  <2> QED
    BY <2>1 DEF CInv, LoopInv, Updating, Threads, Main, MainPcs, CTypeOK
<1>2. CASE t = Main
  <2>1. u = Worker /\ pc[Worker] = "idle"
    BY <1>2 DEF CInv, CTypeOK, LockInv, Threads, Updating, MainPcs
  <2> QED
    BY <2>1 DEF CInv, LoopInv
<1> QED
  BY <1>1, <1>2 DEF Threads

(* A step of Main that leaves the records, the requests and Worker alone is *)
(* well typed if what it assigns is.                                        *)
LEMMA MainTypeOK ==
  ASSUME CInv, NEW l \in MainPcs, pc' = [pc EXCEPT ![Main] = l],
         lock' \in {lock, Nobody}, is_recovered' \in BOOLEAN, participants' \subseteq P,
         del_keys' \in {del_keys, {}}, cur' \in P, unfinished' = unfinished, snapshot' \in Dbs,
         UNCHANGED <<clog, decided, next_id, req, todo, workerVars, answer>>
  PROVE  CTypeOK'
  BY DEF CInv, CTypeOK, Main, Worker, Threads, workerVars

(* Where the heartbeat loop goes. *)
LEMMA NextBeatLemma ==
  ASSUME CInv, NextBeat
  PROVE  cur' \in P /\ \E l \in {"wait", "beat"} : pc' = [pc EXCEPT ![Main] = l]
  BY DEF CInv, CTypeOK, NextBeat, Begin, After, Goto

(* A step of Main that leaves the log, the requests and the loops alone     *)
(* keeps the invariant if it keeps the lock's part of it.                   *)
LEMMA MainMoves ==
  ASSUME CInv, CTypeOK', LockInv',
         UNCHANGED <<clog, decided, next_id, req, todo, answer>>,
         pc'[Worker] = pc[Worker],
         pc[Main] \notin {"down", "commit", "abort"},
         pc'[Main] \notin {"down", "commit", "abort"},
         pc'[Main] = "unfinished" => unfinished' = clog.recs,
         pc[Worker] = "idle" \/ participants \subseteq participants'
  PROVE  CInv'
<1>0. todo[Main] = {} /\ todo'[Main] = {}
  BY DEF CInv, CTypeOK, LoopInv, Threads, MainPcs
<1>b. pc[Worker] = "idle" => todo[Worker] = {}
  BY DEF CInv, LoopInv, Threads
<1>1. LoopInv'
  BY <1>0 DEF CInv, LoopInv, Threads, Main, Worker
<1>2. LogInv'
  BY DEF CInv, LogInv
<1>3. RequestInv'
  BY DEF CInv, RequestInv, Threads
<1>4. CopyInv'
  BY DEF CInv, CopyInv
<1>5. Agreement' /\ AnswerMatchesDecision'
  BY DEF CInv, Agreement, AnswerMatchesDecision
<1>6. IteratorsValid'
  BY <1>0, <1>b DEF CInv, IteratorsValid, Threads
<1> QED
  BY <1>1, <1>2, <1>3, <1>4, <1>5, <1>6 DEF CInv

-----------------------------------------------------------------------------
(* The steps of Main that only move it on.                                 *)

(* NEXT_ID of init_participant() returned or threw. *)
LEMMA InitNextReturnsStep ==
  ASSUME CInv, NEW r, NEW n, InitNextReturns(r, n)
  PROVE  CInv'
<1> USE DEF InitNextReturns, InitAdvance, Goto, Begin, After, recordVars, memberVars, workerVars, mainVars
<1>1. CTypeOK'
  BY ZenonT(30) DEF CInv, CTypeOK, MainPcs, Main, Worker, Threads, Logs
<1>2. /\ pc[Main] = "initNext"
      /\ \/ pc'[Main] \in {"initNext", "initSet"} /\ lock' = lock
         \/ pc'[Main] = "copy" /\ lock' = Nobody
      /\ pc'[Worker] = pc[Worker]
  BY DEF CInv, CTypeOK, Main, Worker, Threads
<1>3. LockInv'
  BY <1>2 DEF CInv, LockInv, Locking, Updating, Main, Worker, Nobody
<1>4. pc[Worker] = "idle" \/ participants \subseteq participants'
  BY <1>2 DEF CInv, LockInv, Locking, Updating, Main, Worker, Nobody
<1> QED
  BY <1>1, <1>2, <1>3, <1>4, MainMoves

(* SET_NEXT_ID of init_participant() returned or threw. *)
LEMMA InitSetReturnsStep ==
  ASSUME CInv, NEW r, InitSetReturns(r)
  PROVE  CInv'
<1> USE DEF InitSetReturns, InitAdvance, Goto, Begin, After, recordVars, memberVars, workerVars, mainVars
<1>1. CTypeOK'
  BY DEF CInv, CTypeOK, MainPcs, Main, Worker, Threads, Logs
<1>2. /\ pc[Main] = "initSet"
      /\ \/ pc'[Main] = "initNext" /\ lock' = lock
         \/ pc'[Main] = "copy" /\ lock' = Nobody
      /\ pc'[Worker] = pc[Worker]
  BY DEF CInv, CTypeOK, Main, Worker, Threads
<1>3. LockInv'
  BY <1>2 DEF CInv, LockInv, Locking, Updating, Main, Worker, Nobody
<1>4. pc[Worker] = "idle" \/ participants \subseteq participants'
  BY <1>2 DEF CInv, LockInv, Locking, Updating, Main, Worker, Nobody
<1> QED
  BY <1>1, <1>2, <1>3, <1>4, MainMoves

(* handle_unfinished_records() copies the records. *)
LEMMA CopyRecordsStep ==
  ASSUME CInv, CopyRecords
  PROVE  CInv'
<1> USE DEF CopyRecords, Goto, recordVars, memberVars, workerVars, mainVars
<1>1. CTypeOK'
  BY DEF CInv, CTypeOK, MainPcs, Main, Worker, Threads, Logs
<1>2. /\ pc[Main] = "copy" /\ pc'[Main] = "unfinished" /\ lock' = lock /\ unfinished' = clog.recs
      /\ pc'[Worker] = pc[Worker]
  BY DEF CInv, CTypeOK, Main, Worker, Threads
<1>3. LockInv'
  BY <1>2 DEF CInv, LockInv, Locking, Updating, Main, Worker, Nobody
<1>4. pc[Worker] = "idle" \/ participants \subseteq participants'
  BY <1>2 DEF CInv, LockInv, Locking, Updating, Main, Worker, Nobody
<1> QED
  BY <1>1, <1>2, <1>3, <1>4, MainMoves

(* handle_unfinished_records() returns. *)
LEMMA UnfinishedEndStep ==
  ASSUME CInv, UnfinishedEnd
  PROVE  CInv'
<1> USE DEF UnfinishedEnd, NextBeat, Goto, Begin, After, recordVars, memberVars, workerVars, mainVars
<1>1. CTypeOK'
  BY DEF CInv, CTypeOK, MainPcs, Main, Worker, Threads, Logs
<1>2. /\ pc[Main] = "unfinished" /\ pc'[Main] \in {"wait", "beat"}
      /\ lock' = IF lock = Main THEN Nobody ELSE lock
      /\ pc'[Worker] = pc[Worker]
  BY DEF CInv, CTypeOK, Main, Worker, Threads
<1>3. LockInv'
  BY <1>2 DEF CInv, LockInv, Locking, Updating, Main, Worker, Nobody
<1>4. pc[Worker] = "idle" \/ participants \subseteq participants'
  BY <1>2 DEF CInv, LockInv, Locking, Updating, Main, Worker, Nobody
<1> QED
  BY <1>1, <1>2, <1>3, <1>4, MainMoves

(* HEARTBEAT was answered or threw. *)
LEMMA BeatReturnsStep ==
  ASSUME CInv, NEW r, BeatReturns(r)
  PROVE  CInv'
<1> USE DEF BeatReturns, Goto, recordVars, memberVars, workerVars, mainVars
<1>1. CTypeOK'
  BY DEF CInv, CTypeOK, MainPcs, Main, Worker, Threads, Logs
<1>2. /\ pc[Main] = "beat" /\ pc'[Main] \in {"join", "drop"} /\ lock' = lock
      /\ pc'[Worker] = pc[Worker]
  BY DEF CInv, CTypeOK, Main, Worker, Threads
<1>3. LockInv'
  BY <1>2 DEF CInv, LockInv, Locking, Updating, Main, Worker, Nobody
<1>4. pc[Worker] = "idle" \/ participants \subseteq participants'
  BY <1>2 DEF CInv, LockInv, Locking, Updating, Main, Worker, Nobody
<1> QED
  BY <1>1, <1>2, <1>3, <1>4, MainMoves

(* The catch clause of the heartbeat loop erases the participant. *)
LEMMA DropStep ==
  ASSUME CInv, Drop
  PROVE  CInv'
<1> USE DEF Drop, NextBeat, Goto, Begin, After, recordVars, memberVars, workerVars, mainVars
<1>1. CTypeOK'
  BY ZenonT(30) DEF CInv, CTypeOK, MainPcs, Main, Worker, Threads, Logs
<1>2. /\ pc[Main] = "drop" /\ pc'[Main] \in {"wait", "beat"} /\ lock = Nobody /\ lock' = lock
      /\ pc'[Worker] = pc[Worker]
  BY DEF CInv, CTypeOK, Main, Worker, Threads
<1>3. LockInv'
  BY <1>2 DEF CInv, LockInv, Locking, Updating, Main, Worker, Nobody
<1>4. pc[Worker] = "idle" \/ participants \subseteq participants'
  BY <1>2 DEF CInv, LockInv, Locking, Updating, Main, Worker, Nobody
<1> QED
  BY <1>1, <1>2, <1>3, <1>4, MainMoves

(* The heartbeat loop looks whether the participant has to be recovered. *)
LEMMA JoinStep ==
  ASSUME CInv, Join
  PROVE  CInv'
<1> USE DEF Join, NextBeat, Goto, Begin, After, recordVars, memberVars, workerVars, mainVars
<1>1. CTypeOK'
  BY ZenonT(30) DEF CInv, CTypeOK, MainPcs, Main, Worker, Threads, Logs
<1>2. /\ pc[Main] = "join" /\ lock = Nobody
      /\ \/ pc'[Main] \in {"wait", "beat"} /\ lock' = lock
         \/ pc'[Main] \in {"joinNext", "joinSet"} /\ lock' = Main
      /\ pc'[Worker] = pc[Worker]
  BY DEF CInv, CTypeOK, Main, Worker, Threads
<1>3. LockInv'
  BY <1>2 DEF CInv, LockInv, Locking, Updating, Main, Worker, Nobody
<1>4. pc[Worker] = "idle" \/ participants \subseteq participants'
  BY <1>2 DEF CInv, LockInv, Locking, Updating, Main, Worker, Nobody
<1> QED
  BY <1>1, <1>2, <1>3, <1>4, MainMoves

(* SET_NEXT_ID of a first start in recover_participant(). *)
LEMMA JoinSetReturnsStep ==
  ASSUME CInv, NEW r, JoinSetReturns(r)
  PROVE  CInv'
<1> USE DEF JoinSetReturns, Joined, JoinThrew, Goto, recordVars, memberVars, workerVars, mainVars
<1>1. CTypeOK'
  <2>1. participants' \subseteq P /\ del_keys' \in {del_keys, {}} /\ cur' \in P
        /\ is_recovered' \in BOOLEAN /\ snapshot' \in Dbs /\ lock' \in {lock, Nobody}
    BY DEF CInv, CTypeOK
  <2>2. \E l \in {"copy", "drop"} : pc' = [pc EXCEPT ![Main] = l]
    OBVIOUS
  <2> QED
    BY <2>1, <2>2, MainTypeOK DEF MainPcs
<1>2. /\ pc[Main] = "joinSet"
      /\ \/ pc'[Main] = "copy" /\ lock' = lock
         \/ pc'[Main] = "drop" /\ lock' = Nobody
      /\ pc'[Worker] = pc[Worker]
  BY DEF CInv, CTypeOK, Main, Worker, Threads
<1>3. LockInv'
  BY <1>2 DEF CInv, LockInv, Locking, Updating, Main, Worker, Nobody
<1>4. pc[Worker] = "idle" \/ participants \subseteq participants'
  BY <1>2 DEF CInv, LockInv, Locking, Updating, Main, Worker, Nobody
<1> QED
  BY <1>1, <1>2, <1>3, <1>4, MainMoves

(* NEXT_ID of recover_participant(). *)
LEMMA JoinNextReturnsStep ==
  ASSUME CInv, NEW r, NEW n, JoinNextReturns(r, n)
  PROVE  CInv'
<1> USE DEF JoinNextReturns, Joined, JoinThrew, NotJoined, NextBeat, Goto, Begin, After, recordVars, memberVars, workerVars, mainVars
<1>1. CTypeOK'
  <2>0. CASE NotJoined /\ UNCHANGED participants
    <3>1. participants' \subseteq P /\ snapshot' \in Dbs /\ is_recovered' \in BOOLEAN
      BY <2>0 DEF CInv, CTypeOK
    <3> QED
      BY <2>0, <3>1, NextBeatLemma, MainTypeOK DEF MainPcs
  <2>1. CASE ~(NotJoined /\ UNCHANGED participants)
    <3>1. participants' \subseteq P /\ del_keys' \in {del_keys, {}} /\ cur' \in P
          /\ is_recovered' \in BOOLEAN /\ snapshot' \in Dbs /\ lock' \in {lock, Nobody}
      BY <2>1 DEF CInv, CTypeOK
    <3>2. \E l \in {"copy", "drop", "snapshot"} : pc' = [pc EXCEPT ![Main] = l]
      BY <2>1
    <3> QED
      BY <3>1, <3>2, MainTypeOK DEF MainPcs
  <2> QED
    BY <2>0, <2>1
<1>2. /\ pc[Main] = "joinNext"
      /\ \/ pc'[Main] \in {"copy", "snapshot"} /\ lock' = lock
         \/ pc'[Main] \in {"drop", "wait", "beat"} /\ lock' = Nobody
      /\ pc'[Worker] = pc[Worker]
  BY DEF CInv, CTypeOK, Main, Worker, Threads
<1>3. LockInv'
  BY <1>2 DEF CInv, LockInv, Locking, Updating, Main, Worker, Nobody
<1>4. pc[Worker] = "idle" \/ participants \subseteq participants'
  BY <1>2 DEF CInv, LockInv, Locking, Updating, Main, Worker, Nobody
<1> QED
  BY <1>1, <1>2, <1>3, <1>4, MainMoves

(* GET_SNAPSHOT of recover_participant(). *)
LEMMA SnapshotReturnsStep ==
  ASSUME CInv, NEW p, NEW r, NEW s \in Dbs, SnapshotReturns(p, r, s)
  PROVE  CInv'
<1> USE DEF SnapshotReturns, NotJoined, NextBeat, Goto, Begin, After, recordVars, memberVars, workerVars, mainVars
<1>1. CTypeOK'
  <2>0. participants' \subseteq P /\ snapshot' \in Dbs /\ is_recovered' \in BOOLEAN
    BY DEF CInv, CTypeOK
  <2>1. CASE NotJoined
    BY <2>0, <2>1, NextBeatLemma, MainTypeOK DEF MainPcs
  <2>2. CASE ~NotJoined
    <3>1. lock' = lock /\ del_keys' = del_keys /\ cur' \in P
      BY <2>2 DEF CInv, CTypeOK
    <3>2. \E l \in {"snapshot", "recover"} : pc' = [pc EXCEPT ![Main] = l]
      BY <2>2 DEF CInv, CTypeOK, Main, Threads
    <3> QED
      BY <2>0, <3>1, <3>2, MainTypeOK DEF MainPcs
  <2> QED
    BY <2>1, <2>2
<1>2. /\ pc[Main] = "snapshot"
      /\ \/ pc'[Main] \in {"snapshot", "recover"} /\ lock' = lock
         \/ pc'[Main] \in {"wait", "beat"} /\ lock' = Nobody
      /\ pc'[Worker] = pc[Worker]
  BY DEF CInv, CTypeOK, Main, Worker, Threads
<1>3. LockInv'
  BY <1>2 DEF CInv, LockInv, Locking, Updating, Main, Worker, Nobody
<1>4. pc[Worker] = "idle" \/ participants \subseteq participants'
  BY <1>2 DEF CInv, LockInv, Locking, Updating, Main, Worker, Nobody
<1> QED
  BY <1>1, <1>2, <1>3, <1>4, MainMoves

(* RECOVER of recover_participant(). *)
LEMMA RecoverReturnsStep ==
  ASSUME CInv, NEW r, RecoverReturns(r)
  PROVE  CInv'
<1> USE DEF RecoverReturns, NotJoined, EmptyDb, Dbs, NextBeat, Goto, Begin, After, recordVars, memberVars, workerVars, mainVars
<1>1. CTypeOK'
  <2>0. participants' \subseteq P /\ snapshot' \in Dbs /\ is_recovered' \in BOOLEAN
    BY DEF CInv, CTypeOK
  <2>1. CASE NotJoined
    BY <2>0, <2>1, NextBeatLemma, MainTypeOK DEF MainPcs
  <2>2. CASE ~NotJoined
    <3>1. cur' \in P
      BY <2>2 DEF CInv, CTypeOK
    <3> QED
      BY <2>0, <2>2, <3>1, MainTypeOK DEF MainPcs
  <2> QED
    BY <2>1, <2>2
<1>2. /\ pc[Main] = "recover"
      /\ \/ pc'[Main] = "recoverSet" /\ lock' = lock
         \/ pc'[Main] \in {"wait", "beat"} /\ lock' = Nobody
      /\ pc'[Worker] = pc[Worker]
  BY DEF CInv, CTypeOK, Main, Worker, Threads
<1>3. LockInv'
  BY <1>2 DEF CInv, LockInv, Locking, Updating, Main, Worker, Nobody
<1>4. pc[Worker] = "idle" \/ participants \subseteq participants'
  BY <1>2 DEF CInv, LockInv, Locking, Updating, Main, Worker, Nobody
<1> QED
  BY <1>1, <1>2, <1>3, <1>4, MainMoves

(* SET_NEXT_ID after RECOVER. *)
LEMMA RecoverSetReturnsStep ==
  ASSUME CInv, NEW r, RecoverSetReturns(r)
  PROVE  CInv'
<1> USE DEF RecoverSetReturns, Joined, NotJoined, NextBeat, Goto, Begin, After, recordVars, memberVars, workerVars, mainVars
<1>1. CTypeOK'
  <2>0. snapshot' \in Dbs /\ is_recovered' \in BOOLEAN
    BY DEF CInv, CTypeOK
  <2>1. CASE r = "ok"
    <3>1. participants' \subseteq P /\ del_keys' \in {del_keys, {}} /\ cur' \in P
      BY <2>1 DEF CInv, CTypeOK
    <3> QED
      BY <2>0, <2>1, <3>1, MainTypeOK DEF MainPcs
  <2>2. CASE r # "ok"
    <3>1. participants' \subseteq P
      BY <2>2 DEF CInv, CTypeOK
    <3> QED
      BY <2>0, <2>2, <3>1, NextBeatLemma, MainTypeOK DEF MainPcs
  <2> QED
    BY <2>1, <2>2
<1>2. /\ pc[Main] = "recoverSet"
      /\ \/ pc'[Main] = "copy" /\ lock' = lock
         \/ pc'[Main] \in {"wait", "beat"} /\ lock' = Nobody
      /\ pc'[Worker] = pc[Worker]
  BY DEF CInv, CTypeOK, Main, Worker, Threads
<1>3. LockInv'
  BY <1>2 DEF CInv, LockInv, Locking, Updating, Main, Worker, Nobody
<1>4. pc[Worker] = "idle" \/ participants \subseteq participants'
  BY <1>2 DEF CInv, LockInv, Locking, Updating, Main, Worker, Nobody
<1> QED
  BY <1>1, <1>2, <1>3, <1>4, MainMoves

(* The heartbeat loop waits and starts over. *)
LEMMA WaitStep ==
  ASSUME CInv, Wait
  PROVE  CInv'
<1> USE DEF Wait, Goto, Begin, recordVars, memberVars, workerVars, mainVars
<1>1. CTypeOK'
  BY DEF CInv, CTypeOK, MainPcs, Main, Worker, Threads, Logs
<1>2. /\ pc[Main] = "wait" /\ pc'[Main] = "beat" /\ lock' = lock
      /\ pc'[Worker] = pc[Worker]
  BY DEF CInv, CTypeOK, Main, Worker, Threads
<1>3. LockInv'
  BY <1>2 DEF CInv, LockInv, Locking, Updating, Main, Worker, Nobody
<1>4. pc[Worker] = "idle" \/ participants \subseteq participants'
  BY <1>2 DEF CInv, LockInv, Locking, Updating, Main, Worker, Nobody
<1> QED
  BY <1>1, <1>2, <1>3, <1>4, MainMoves

-----------------------------------------------------------------------------
(* The steps of a request, in either thread.                                *)

(* A step inside a loop: a participant has been called.                     *)
LEMMA LoopMoves ==
  ASSUME CInv, CTypeOK', NEW t \in Threads, pc[t] \in {"prepare", "commit", "abort"},
         UNCHANGED <<clog, decided, next_id, lock, pc, req, unfinished, answer>>,
         todo'[t] \subseteq participants',
         \A u \in Threads : u # t => todo'[u] = todo[u]
  PROVE  CInv'
<1>0. \A u \in Threads : u # t => todo'[u] = {}
  BY OtherLoopEmpty
<1>1. LoopInv'
  BY <1>0 DEF CInv, LoopInv
<1>2. LogInv'
  BY DEF CInv, LogInv
<1>3. RequestInv'
  BY DEF CInv, RequestInv
<1>4. CopyInv'
  BY DEF CInv, CopyInv
<1>5. Agreement' /\ AnswerMatchesDecision'
  BY DEF CInv, Agreement, AnswerMatchesDecision
<1>6. IteratorsValid'
  BY <1>0 DEF IteratorsValid
<1>7. LockInv'
  BY DEF CInv, LockInv
<1> QED
  BY <1>1, <1>2, <1>3, <1>4, <1>5, <1>6, <1>7 DEF CInv

(* One COMMIT of commit_db_request() returned or threw. *)
LEMMA CommitReturnsStep ==
  ASSUME CInv, NEW t \in Threads, NEW p, NEW r \in Results \cup {"", "exception"},
         CommitReturns(t, p, r)
  PROVE  CInv'
<1> USE DEF CommitReturns, Visited, recordVars, mainVars
<1>1. CTypeOK'
  BY DEF CInv, CTypeOK, Begin, Results
<1>2. todo'[t] = todo[t] \ {p} /\ \A u \in Threads : u # t => todo'[u] = todo[u]
  BY DEF CInv, CTypeOK
<1>3. todo'[t] \subseteq participants'
  BY <1>2 DEF CInv, IteratorsValid
<1> QED
  BY <1>1, <1>2, <1>3, LoopMoves

(* One ABORT of abort_db_request() returned or threw. *)
LEMMA AbortReturnsStep ==
  ASSUME CInv, NEW t \in Threads, NEW p, NEW r, AbortReturns(t, p, r)
  PROVE  CInv'
<1> USE DEF AbortReturns, Visited, recordVars, mainVars, workerVars
<1>1. CTypeOK'
  BY DEF CInv, CTypeOK, Begin
<1>2. todo'[t] = todo[t] \ {p} /\ \A u \in Threads : u # t => todo'[u] = todo[u]
  BY DEF CInv, CTypeOK
<1>3. todo'[t] \subseteq participants'
  BY <1>2 DEF CInv, IteratorsValid
<1> QED
  BY <1>1, <1>2, <1>3, LoopMoves

(* One PREPARE returned or threw. *)
LEMMA PrepareReturnsStep ==
  ASSUME CInv, NEW p, NEW r, PrepareReturns(p, r)
  PROVE  CInv'
<1> USE DEF PrepareReturns, recordVars, mainVars
<1>0. Worker \in Threads
  BY DEF Threads
<1>1. CTypeOK'
  BY <1>0 DEF CInv, CTypeOK, Begin
<1>2. /\ todo'[Worker] = IF r = "false" THEN {} ELSE todo[Worker] \ {p}
      /\ \A u \in Threads : u # Worker => todo'[u] = todo[u]
  BY <1>0 DEF CInv, CTypeOK
<1>3. todo'[Worker] \subseteq participants'
  BY <1>0, <1>2 DEF CInv, IteratorsValid
<1> QED
  BY <1>0, <1>1, <1>2, <1>3, LoopMoves

(* A GET changes nothing but the lock and participants_.                    *)
LEMMA GetMoves ==
  ASSUME CInv, CTypeOK', LockInv',
         UNCHANGED <<clog, decided, next_id, req, todo, unfinished, answer>>,
         pc'[Main] = pc[Main],
         pc[Worker] \in {"idle", "get"}, pc'[Worker] \in {"idle", "get"},
         pc[Main] \notin {"commit", "abort"}
  PROVE  CInv'
<1>0. \A u \in Threads : todo[u] = {} /\ todo'[u] = {}
  BY DEF CInv, CTypeOK, LoopInv, Threads, MainPcs
<1>1. LoopInv' /\ IteratorsValid'
  BY <1>0 DEF LoopInv, IteratorsValid
<1>2. LogInv'
  BY DEF CInv, LogInv
<1>3. RequestInv'
  BY DEF CInv, RequestInv, Threads
<1>4. CopyInv'
  BY DEF CInv, CopyInv
<1>5. Agreement' /\ AnswerMatchesDecision'
  BY DEF CInv, Agreement, AnswerMatchesDecision
<1> QED
  BY <1>1, <1>2, <1>3, <1>4, <1>5 DEF CInv

(* A GET takes the lock. *)
LEMMA BeginGetStep ==
  ASSUME CInv, ~EarlyClients, BeginGet
  PROVE  CInv'
<1> USE DEF BeginGet, Accept, Serving, Goto, recordVars, memberVars, workerVars, mainVars
<1>1. CTypeOK'
  BY DEF CInv, CTypeOK, WorkerPcs, Main, Worker, Threads
<1>2. /\ pc[Worker] = "idle" /\ pc'[Worker] = "get" /\ pc'[Main] = pc[Main]
      /\ lock' = Worker /\ pc[Main] \in {"beat", "drop", "join", "wait"}
  BY DEF CInv, CTypeOK, Main, Worker, Threads
<1>3. LockInv'
  BY <1>2 DEF CInv, LockInv, Locking, Updating, Main, Worker, Nobody
<1> QED
  BY <1>1, <1>2, <1>3, GetMoves

(* GET was answered, or is sent to the next participant. *)
LEMMA GetReturnsStep ==
  ASSUME CInv, NEW p, NEW r, GetReturns(p, r)
  PROVE  CInv'
<1> USE DEF GetReturns, Goto, recordVars, workerVars, mainVars
<1>1. CTypeOK'
  BY DEF CInv, CTypeOK, WorkerPcs, Main, Worker, Threads, Nobody
<1>2. /\ pc[Worker] = "get" /\ pc'[Main] = pc[Main]
      /\ \/ pc'[Worker] = "get" /\ lock' = lock
         \/ pc'[Worker] = "idle" /\ lock' = Nobody
  BY DEF CInv, CTypeOK, Main, Worker, Threads
<1>3. LockInv' /\ pc[Main] \notin {"commit", "abort"}
  BY <1>2 DEF CInv, LockInv, Locking, Updating, Main, Worker, Nobody
<1> QED
  BY <1>1, <1>2, <1>3, GetMoves

(* What logging does to the log, to the history and to LogInv.              *)
LEMMA DecisionLogged ==
  ASSUME CInv, NEW id \in Ids, NEW status \in {"COMMIT", "ABORT"},
         clog.recs[id] \in {"UNRESOLVED", status},
         status = "COMMIT" /\ clog.recs[id] = "UNRESOLVED" => answer[id] = "none",
         pc[Main] # "down", pc'[Main] # "down",
         Log(status, id), UNCHANGED <<next_id, answer>>
  PROVE  /\ clog' \in Logs /\ clog'.next = clog.next
         /\ clog'.recs = [clog.recs EXCEPT ![id] = status]
         /\ decided' = [decided EXCEPT ![id] = {status}]
         /\ LogInv' /\ Agreement' /\ AnswerMatchesDecision'
<1>1. id < clog.next /\ clog.next \in Nat /\ next_id = clog.next /\ next_id \in Nat
  <2>1. id < clog.next /\ (clog.next # 0 => next_id = clog.next)
    BY DEF CInv, LogInv, NoRecord
  <2>2. id \in Nat \ {0}
    BY MaxIdAssumption DEF Ids
  <2>3. clog.next \in Nat /\ next_id \in Nat
    BY DEF CInv, CTypeOK, Logs
  <2> QED
    BY <2>1, <2>2, <2>3
<1>2. /\ clog' \in Logs /\ clog'.recs = [clog.recs EXCEPT ![id] = status]
      /\ clog'.mem = {i \in Ids : clog'.recs[i] # NoRecord} /\ clog'.next = clog.next
  <2>1. Consistent(clog) /\ next_id \in Nat
    BY DEF CInv, CTypeOK, LogInv, Consistent
  <2>2. status \in Pending \cup Done /\ status \notin Done
    BY DEF Pending, Done
  <2>3. Logged(LogRecord(clog, status, id, next_id), clog, status, id, next_id)
    BY <2>1, <2>2, LogRecordLemma
  <2>4. Logged(clog', clog, status, id, next_id)
    BY <2>3 DEF Log
  <2> QED
    BY <1>1, <2>2, <2>4 DEF Logged, Consistent
<1>3. decided' = [decided EXCEPT ![id] = {status}]
  BY DEF CInv, CTypeOK, LogInv, Log
<1>4. \A i \in Ids : i # id => clog'.recs[i] = clog.recs[i] /\ decided'[i] = decided[i]
  BY <1>2, <1>3 DEF CInv, CTypeOK, Logs, Records
<1>5. clog'.recs[id] = status /\ decided'[id] = {status}
  BY <1>2, <1>3 DEF CInv, CTypeOK, Logs, Records
<1>6. LogInv'
  BY <1>1, <1>2, <1>4, <1>5 DEF CInv, LogInv, NoRecord
<1>7. Agreement'
  BY <1>4, <1>5 DEF CInv, Agreement
<1>8. AnswerMatchesDecision'
  BY <1>4, <1>5 DEF CInv, AnswerMatchesDecision, LogInv, Results
<1> QED
  BY <1>2, <1>3, <1>6, <1>7, <1>8

(* A thread that logged a decision enters the loop of that decision.        *)
LEMMA DecisionMoves ==
  ASSUME CInv, CTypeOK', NEW t \in Threads, NEW id \in Ids,
         NEW status \in {"COMMIT", "ABORT"},
         clog'.recs = [clog.recs EXCEPT ![id] = status],
         LogInv', Agreement', AnswerMatchesDecision',
         pc' = [pc EXCEPT ![t] = IF status = "COMMIT" THEN "commit" ELSE "abort"],
         req' = [req EXCEPT ![t] = id],
         todo' = [todo EXCEPT ![t] = participants],
         UNCHANGED <<participants, lock, answer>>,
         \/ /\ t = Main /\ pc[Main] = "unfinished"
            /\ unfinished' = [unfinished EXCEPT ![id] = NoRecord]
         \/ /\ t = Worker /\ pc[Worker] = "prepare" /\ req[Worker] = id
            /\ UNCHANGED unfinished
  PROVE  CInv'
<1>1. /\ pc'[t] = IF status = "COMMIT" THEN "commit" ELSE "abort"
      /\ \A u \in Threads : u # t => pc'[u] = pc[u] /\ req'[u] = req[u] /\ todo'[u] = todo[u]
      /\ req'[t] = id /\ todo'[t] = participants
  BY DEF CInv, CTypeOK
<1>2. /\ pc[Worker] \in {"idle", "prepare"} /\ (t = Main => pc[Worker] = "idle")
      /\ t = Worker => pc[Main] \notin Updating \cup {"down"}
      /\ lock = Worker <=> t = Worker
  BY DEF CInv, LockInv, Updating, Main, Worker, Threads
<1>3. \A u \in Threads : u # t => pc[u] \notin {"commit", "abort", "prepare"} /\ todo[u] = {}
  BY <1>2 DEF CInv, CTypeOK, LoopInv, Updating, Main, Worker, Threads, MainPcs
<1>4. LockInv'
  BY <1>1, <1>2 DEF CInv, LockInv, Locking, Updating, Main, Worker, Nobody, Threads
<1>5. LoopInv' /\ IteratorsValid'
  BY <1>1, <1>3 DEF CInv, LoopInv, IteratorsValid
<1>6. clog'.recs[id] = status /\ \A i \in Ids : i # id => clog'.recs[i] = clog.recs[i]
  BY DEF CInv, CTypeOK, Logs, Records
<1>7. RequestInv'
  BY <1>1, <1>2, <1>3, <1>6 DEF CInv, RequestInv, Threads, Main, Worker
<1>8. CopyInv'
  <2>1. CASE t = Main
    <3>1. pc[Main] = "unfinished" /\ unfinished' = [unfinished EXCEPT ![id] = NoRecord]
      BY <2>1 DEF Main, Worker
    <3>2. \A i \in Ids : unfinished[i] # NoRecord => unfinished[i] = clog.recs[i]
      BY <3>1 DEF CInv, CopyInv
    <3>3. unfinished'[id] = NoRecord /\ \A i \in Ids : i # id => unfinished'[i] = unfinished[i]
      BY <3>1 DEF CInv, CTypeOK, Records
    <3> QED
      BY <1>1, <1>6, <2>1, <3>2, <3>3 DEF CopyInv
  <2>2. CASE t = Worker
    BY <1>1, <1>2, <2>2 DEF CInv, CopyInv, Updating, Main, Worker, Threads
  <2> QED
    BY <2>1, <2>2 DEF Threads
<1> QED
  BY <1>4, <1>5, <1>7, <1>8 DEF CInv

(* What Resolve and PrepareEnd log.                                         *)
LEMMA ResolveLogs ==
  ASSUME CInv, NEW id \in Ids, Resolve(id)
  PROVE  \E status \in {"COMMIT", "ABORT"} :
            /\ status = "COMMIT" => clog.recs[id] = "COMMIT"
            /\ clog' \in Logs /\ clog'.next = clog.next
            /\ clog'.recs = [clog.recs EXCEPT ![id] = status]
            /\ decided' = [decided EXCEPT ![id] = {status}]
            /\ LogInv' /\ Agreement' /\ AnswerMatchesDecision'
            /\ pc' = [pc EXCEPT ![Main] = IF status = "COMMIT" THEN "commit" ELSE "abort"]
<1> DEFINE status == IF unfinished[id] = "COMMIT" THEN "COMMIT" ELSE "ABORT"
<1> USE DEF Resolve, StartCommit, StartAbort, Goto
<1>1. /\ pc[Main] = "unfinished" /\ unfinished[id] # NoRecord
      /\ unfinished[id] = clog.recs[id]
  BY DEF CInv, CopyInv, Begin
<1>2. clog.recs[id] \in {"UNRESOLVED", status}
  BY <1>1 DEF CInv, CTypeOK, LogInv, Logs, Records, Pending, NoRecord
<1>3. status = "COMMIT" => clog.recs[id] = "COMMIT"
  BY <1>1
<1>4. status \in {"COMMIT", "ABORT"} /\ Log(status, id) /\ Main \in Threads
  BY DEF Threads
<1>5. /\ pc' = [pc EXCEPT ![Main] = IF status = "COMMIT" THEN "commit" ELSE "abort"]
      /\ pc'[Main] # "down" /\ pc[Main] # "down" /\ UNCHANGED <<next_id, answer>>
  BY <1>4 DEF CInv, CTypeOK
<1> HIDE DEF status
<1> QED
  BY <1>2, <1>3, <1>4, <1>5, DecisionLogged

(* The decision after the PREPARE loop: COMMIT only if prepare_ok. *)
LEMMA PrepareEndLogs ==
  ASSUME CInv, PrepareEnd
  PROVE  \E status \in {"COMMIT", "ABORT"} :
            /\ status = "COMMIT" => prepare_ok
            /\ req[Worker] \in Ids
            /\ clog' \in Logs /\ clog'.next = clog.next
            /\ clog'.recs = [clog.recs EXCEPT ![req[Worker]] = status]
            /\ decided' = [decided EXCEPT ![req[Worker]] = {status}]
            /\ LogInv' /\ Agreement' /\ AnswerMatchesDecision'
            /\ pc' = [pc EXCEPT ![Worker] = IF status = "COMMIT" THEN "commit" ELSE "abort"]
<1> DEFINE status == IF prepare_ok THEN "COMMIT" ELSE "ABORT"
           id     == req[Worker]
<1> USE DEF PrepareEnd, StartCommit, StartAbort, Goto
<1>1. /\ pc[Worker] = "prepare" /\ id \in Ids /\ answer[id] = "none"
      /\ clog.recs[id] = "UNRESOLVED"
  BY DEF CInv, RequestInv
<1>2. status \in {"COMMIT", "ABORT"} /\ Log(status, id) /\ Worker \in Threads /\ Main \in Threads
  BY DEF Threads
<1>3. /\ pc' = [pc EXCEPT ![Worker] = IF status = "COMMIT" THEN "commit" ELSE "abort"]
      /\ UNCHANGED <<next_id, answer>> /\ (status = "COMMIT" => prepare_ok)
  OBVIOUS
<1>4. pc[Main] # "down" /\ pc'[Main] # "down"
  BY <1>1, <1>2, <1>3 DEF CInv, CTypeOK, LockInv, Main, Worker
<1> HIDE DEF status
<1> QED
  BY <1>1, <1>2, <1>3, <1>4, DecisionLogged

(* handle_unfinished_records() commits or aborts a record. *)
LEMMA ResolveStep ==
  ASSUME CInv, NEW id \in Ids, Resolve(id)
  PROVE  CInv'
<1>1. PICK status \in {"COMMIT", "ABORT"} :
            /\ clog' \in Logs
            /\ clog'.recs = [clog.recs EXCEPT ![id] = status]
            /\ decided' = [decided EXCEPT ![id] = {status}]
            /\ LogInv' /\ Agreement' /\ AnswerMatchesDecision'
            /\ pc' = [pc EXCEPT ![Main] = IF status = "COMMIT" THEN "commit" ELSE "abort"]
  BY ResolveLogs
<1>2. /\ req' = [req EXCEPT ![Main] = id] /\ todo' = [todo EXCEPT ![Main] = participants]
      /\ UNCHANGED <<participants, lock, answer, next_id, is_recovered, del_keys, cmd,
                     prepare_ok, cur, snapshot, ret>>
      /\ unfinished' = [unfinished EXCEPT ![id] = NoRecord]
      /\ pc[Main] = "unfinished" /\ Main \in Threads
  BY DEF Resolve, StartCommit, StartAbort, memberVars, Main, Worker, Threads
<1>3. CTypeOK'
  BY <1>1, <1>2 DEF CInv, CTypeOK, Records, NoRecord, MainPcs, Main, Worker, Threads
<1> QED
  BY <1>1, <1>2, <1>3, DecisionMoves

(* The PREPARE loop is over and the request is decided. *)
LEMMA PrepareEndStep ==
  ASSUME CInv, PrepareEnd
  PROVE  CInv'
<1>1. PICK status \in {"COMMIT", "ABORT"} :
            /\ req[Worker] \in Ids
            /\ clog' \in Logs
            /\ clog'.recs = [clog.recs EXCEPT ![req[Worker]] = status]
            /\ decided' = [decided EXCEPT ![req[Worker]] = {status}]
            /\ LogInv' /\ Agreement' /\ AnswerMatchesDecision'
            /\ pc' = [pc EXCEPT ![Worker] = IF status = "COMMIT" THEN "commit" ELSE "abort"]
  BY PrepareEndLogs
<1>2. /\ req' = [req EXCEPT ![Worker] = req[Worker]]
      /\ todo' = [todo EXCEPT ![Worker] = participants]
      /\ UNCHANGED <<participants, lock, answer, next_id, is_recovered, del_keys, cmd,
                     prepare_ok, cur, snapshot, unfinished>>
      /\ ret' \in {"", ret} /\ pc[Worker] = "prepare" /\ Worker \in Threads
  BY DEF PrepareEnd, StartCommit, StartAbort, memberVars, mainVars, Threads
<1>3. CTypeOK'
  BY <1>1, <1>2 DEF CInv, CTypeOK, WorkerPcs, Main, Worker, Threads
<1> QED
  BY <1>1, <1>2, <1>3, DecisionMoves

-----------------------------------------------------------------------------
(* The ends of the loops. *)

(* The end of a request in thread t: the reply, the unlock, the next record. *)
LEMMA FinishMoves ==
  ASSUME CInv, CTypeOK', NEW t \in Threads, pc[t] \in {"prepare", "commit", "abort"},
         todo[t] = {}, NEW a,
         Finish(t, a), LogInv', Agreement', AnswerMatchesDecision',
         \A i \in Ids : i # req[t] => clog'.recs[i] = clog.recs[i],
         UNCHANGED <<next_id, participants, todo, unfinished>>
  PROVE  CInv'
<1>1. /\ pc'[t] = (IF t = Worker THEN "idle" ELSE "unfinished")
      /\ \A u \in Threads : u # t => pc'[u] = pc[u] /\ req'[u] = req[u]
      /\ lock' = (IF t = Worker THEN Nobody ELSE lock)
  BY DEF CInv, CTypeOK, Finish, Goto
<1>2. \A u \in Threads : u # t => pc[u] \notin {"prepare", "commit", "abort"}
  BY DEF CInv, LockInv, CTypeOK, MainPcs, Updating, Threads, Main, Worker
<1>3. IteratorsValid' /\ LoopInv'
  BY <1>1, <1>2 DEF CInv, IteratorsValid, LoopInv
<1>4. LockInv'
  BY <1>1 DEF CInv, CTypeOK, LockInv, MainPcs, Locking, Updating, Threads, Main, Worker, Nobody
<1>5. RequestInv'
  BY <1>1, <1>2 DEF RequestInv, Threads, Main, Worker
<1>6. CopyInv'
  <2>1. CASE t = Main
    <3>1. /\ \A i \in Ids : unfinished[i] # NoRecord => unfinished[i] = clog.recs[i]
          /\ unfinished[req[t]] = NoRecord
      BY <2>1 DEF CInv, CTypeOK, CopyInv, MainPcs
    <3> QED
      BY <1>1, <2>1, <3>1 DEF CopyInv, Main, Worker
  <2>2. CASE t = Worker
    BY <1>1, <2>2 DEF CInv, LockInv, CopyInv, Updating, Main, Worker, Threads
  <2> QED
    BY <2>1, <2>2 DEF Threads
<1> QED
  BY <1>3, <1>4, <1>5, <1>6 DEF CInv

(* Every participant failed during PREPARE. *)
LEMMA PrepareAllDeadStep ==
  ASSUME CInv, PrepareAllDead
  PROVE  CInv'
<1> USE DEF PrepareAllDead, recordVars, memberVars, mainVars
<1>0. Worker \in Threads /\ req[Worker] \in Ids /\ clog.recs[req[Worker]] = "UNRESOLVED"
  BY DEF Threads, CInv, RequestInv
<1>1. /\ answer' = [answer EXCEPT ![req[Worker]] = "send_error"]
      /\ pc' = [pc EXCEPT ![Worker] = "idle"]
  BY DEF Finish, Goto
<1>2. CTypeOK'
  BY <1>0, <1>1 DEF CInv, CTypeOK, Finish, Answers, WorkerPcs, Threads, Main, Worker, Nobody
<1>3. LogInv'
  BY <1>0, <1>1 DEF CInv, CTypeOK, LogInv, LockInv, NoRecord, Main, Worker, Threads
<1>4. Agreement' /\ AnswerMatchesDecision'
  BY <1>0, <1>1 DEF CInv, CTypeOK, LogInv, Agreement, AnswerMatchesDecision, Results
<1> QED
  BY <1>0, <1>2, <1>3, <1>4, FinishMoves

(* What logging a DONE record, or not logging it, does. *)
LEMMA DoneLogged ==
  ASSUME CInv, NEW t \in Threads, NEW status \in Done,
         pc[t] \in {"commit", "abort"}, LogDone(t, status), UNCHANGED next_id
  PROVE  /\ clog' \in Logs /\ decided' = decided /\ clog'.next = clog.next
         /\ clog'.mem = {i \in Ids : clog'.recs[i] # NoRecord}
         /\ \A i \in Ids : i # req[t] => clog'.recs[i] = clog.recs[i]
         /\ clog'.recs[req[t]] \in {NoRecord, clog.recs[req[t]]}
<1>1. CASE participants = {}
  BY <1>1 DEF LogDone, recordVars, CInv, CTypeOK, LogInv
<1>2. CASE participants # {}
  <2>1. /\ Log(status, req[t]) /\ req[t] \in Ids /\ clog \in Logs /\ next_id \in Nat
        /\ clog.recs[req[t]] # NoRecord
        /\ clog.mem = {i \in Ids : clog.recs[i] # NoRecord}
        /\ pc[Main] # "down"
    BY <1>2 DEF LogDone, CInv, CTypeOK, RequestInv, LogInv, LockInv, NoRecord, Threads
  <2>2. next_id = clog.next
    <3>1. req[t] < clog.next /\ (clog.next # 0 => next_id = clog.next)
      BY <2>1 DEF CInv, LogInv
    <3>2. req[t] \in Nat /\ clog.next \in Nat
      BY <2>1, MaxIdAssumption DEF Logs, Ids
    <3> QED
      BY <3>1, <3>2
  <2>3. /\ clog' \in Logs /\ clog'.next = clog.next
        /\ clog'.recs = [clog.recs EXCEPT ![req[t]] = NoRecord]
        /\ clog'.mem = {i \in Ids : clog'.recs[i] # NoRecord}
    <3>1. Consistent(clog) /\ status \in Pending \cup Done
      BY <2>1 DEF Consistent
    <3>2. Logged(LogRecord(clog, status, req[t], next_id), clog, status, req[t], next_id)
      BY <2>1, <3>1, LogRecordLemma
    <3>3. Logged(clog', clog, status, req[t], next_id)
      BY <2>1, <3>2 DEF Log
    <3> QED
      BY <2>2, <3>3 DEF Logged, Consistent
  <2>4. decided' = decided
    BY <2>1 DEF Log, Done
  <2> QED
    BY <2>1, <2>3, <2>4 DEF Logs, Records
<1> QED
  BY <1>1, <1>2

(* The end of a loop, once for COMMIT and ABORT. *)
LEMMA EndStep ==
  ASSUME CInv, CTypeOK', NEW t \in Threads, NEW status \in Done, NEW a,
         pc[t] \in {"commit", "abort"}, todo[t] = {},
         pc[t] = "commit" => a # "send_error", pc[t] = "abort" => a = "send_error",
         LogDone(t, status), Finish(t, a),
         UNCHANGED <<next_id, participants, todo, unfinished>>
  PROVE  CInv'
<1>1. /\ clog' \in Logs /\ decided' = decided /\ clog'.next = clog.next
      /\ clog'.mem = {i \in Ids : clog'.recs[i] # NoRecord}
      /\ \A i \in Ids : i # req[t] => clog'.recs[i] = clog.recs[i]
      /\ clog'.recs[req[t]] \in {NoRecord, clog.recs[req[t]]}
  BY DoneLogged
<1>2. /\ req[t] \in Ids
      /\ pc[t] = "commit" => clog.recs[req[t]] = "COMMIT" /\ decided[req[t]] = {"COMMIT"}
      /\ pc[t] = "abort" => clog.recs[req[t]] = "ABORT" /\ decided[req[t]] = {"ABORT"}
  BY DEF CInv, RequestInv, LogInv
<1>3. answer' = answer \/ answer' = [answer EXCEPT ![req[t]] = a]
  BY DEF Finish
<1>4. \A i \in Ids : i # req[t] => answer'[i] = answer[i]
  BY <1>3 DEF CInv, CTypeOK
<1>5. answer'[req[t]] = answer[req[t]] \/ answer'[req[t]] = a
  BY <1>2, <1>3 DEF CInv, CTypeOK
<1>6. pc[Main] # "down"
  BY DEF CInv, LockInv, Threads
<1>7. LogInv'
  <2>1. \A i \in Ids : clog'.recs[i] \in {NoRecord, clog.recs[i]}
    BY <1>1
  <2>2. \A i \in Ids : clog'.recs[i] # NoRecord \/ decided'[i] # {} \/ answer'[i] # "none"
                         => i < clog'.next
    BY <1>1, <1>2, <1>4 DEF CInv, LogInv, NoRecord
  <2> QED
    BY <1>1, <1>6, <2>1, <2>2 DEF CInv, LogInv, NoRecord
<1>8. Agreement' /\ AnswerMatchesDecision'
  BY <1>1, <1>2, <1>4, <1>5 DEF CInv, Agreement, AnswerMatchesDecision, Results
<1> QED
  BY <1>1, <1>7, <1>8, FinishMoves

(* The types of what Finish changes. *)
LEMMA FinishTypes ==
  ASSUME CInv, NEW t \in Threads, NEW a \in Answers, Finish(t, a), req[t] \in Ids
  PROVE  /\ lock' \in Threads \cup {Nobody}
         /\ pc' \in [Threads -> MainPcs \cup WorkerPcs]
         /\ pc'[Main] \in MainPcs /\ pc'[Worker] \in WorkerPcs
         /\ req' \in [Threads -> Ids \cup {0}]
         /\ cmd' \in Cmds \cup {NoCmd} /\ prepare_ok' \in BOOLEAN
         /\ ret' \in Results \cup {""} /\ answer' \in [Ids -> Answers]
<1>1. CASE t = Worker
  BY <1>1 DEF CInv, CTypeOK, Finish, Goto, WorkerPcs, Threads, Main, Worker
<1>2. CASE t = Main
  BY <1>2 DEF CInv, CTypeOK, Finish, Goto, workerVars, MainPcs, Threads, Main, Worker
<1> QED
  BY <1>1, <1>2 DEF Threads

(* The end of commit_db_request(). *)
LEMMA CommitEndStep ==
  ASSUME CInv, NEW t \in Threads, CommitEnd(t)
  PROVE  CInv'
<1>1. /\ "COMMIT_DONE" \in Done /\ pc[t] = "commit" /\ todo[t] = {} /\ req[t] \in Ids
      /\ ret \in Answers /\ ret # "send_error"
      /\ LogDone(t, "COMMIT_DONE") /\ Finish(t, ret)
      /\ UNCHANGED <<next_id, is_recovered, participants, todo, cur, unfinished, snapshot>>
  BY DEF CommitEnd, mainVars, CInv, CTypeOK, RequestInv, Answers, Results, Done
<1>2. clog' \in Logs /\ decided' = decided
  BY <1>1, DoneLogged
<1>3. del_keys' \subseteq Keys
  <2>1. CASE cmd.type = "DEL"
    <3>1. cmd \in DelCommands
      <4>1. cmd \in SetCommands => cmd.type = "SET"
        BY DEF SetCommands
      <4>2. NoCmd.type = "NONE"
        BY DEF NoCmd
      <4> QED
        BY <2>1, <4>1, <4>2 DEF CInv, CTypeOK, Cmds
    <3>2. cmd.keys \subseteq Keys
      BY <3>1 DEF DelCommands
    <3> QED
      BY <3>2 DEF CommitEnd, CInv, CTypeOK
  <2> QED
    BY <2>1 DEF CommitEnd, CInv, CTypeOK
<1>4. CTypeOK'
  BY <1>1, <1>2, <1>3, FinishTypes DEF CInv, CTypeOK
<1> QED
  BY <1>1, <1>4, EndStep

(* The end of abort_db_request(). *)
LEMMA AbortEndStep ==
  ASSUME CInv, NEW t \in Threads, AbortEnd(t)
  PROVE  CInv'
<1>1. /\ "ABORT_DONE" \in Done /\ pc[t] = "abort" /\ todo[t] = {} /\ req[t] \in Ids
      /\ "send_error" \in Answers
      /\ LogDone(t, "ABORT_DONE") /\ Finish(t, "send_error")
      /\ UNCHANGED <<next_id, is_recovered, participants, del_keys, todo, cur, unfinished,
                     snapshot>>
  BY DEF AbortEnd, memberVars, mainVars, CInv, RequestInv, Answers, Done
<1>2. clog' \in Logs /\ decided' = decided
  BY <1>1, DoneLogged
<1>3. CTypeOK'
  BY <1>1, <1>2, FinishTypes DEF CInv, CTypeOK
<1> QED
  BY <1>1, <1>3, EndStep

(* What a new request logs: its id is new.                                  *)
LEMMA BeginUpdateLogs ==
  ASSUME CInv, NEW c \in Cmds, BeginUpdate(c)
  PROVE  /\ next_id \in Ids /\ next_id \in Nat /\ clog.next \in Nat /\ next_id + 1 \in Nat
         /\ ~(next_id < clog.next)
         /\ clog.recs[next_id] = NoRecord /\ decided[next_id] = {} /\ answer[next_id] = "none"
         /\ clog' \in Logs /\ clog'.next = next_id + 1
         /\ clog'.mem = {i \in Ids : clog'.recs[i] # NoRecord}
         /\ clog'.recs[next_id] = "UNRESOLVED"
         /\ \A i \in Ids : i # next_id => clog'.recs[i] = clog.recs[i]
<1>1. pc[Main] # "down"
  BY DEF BeginUpdate, Accept, Serving
<1>2. clog' = LogRecord(clog, "UNRESOLVED", next_id, next_id + 1)
  BY DEF BeginUpdate
<1>3. /\ next_id \in Ids /\ next_id \in Nat /\ clog.next \in Nat /\ next_id + 1 \in Nat
      /\ ~(next_id < clog.next)
  <2>1. next_id \in Ids /\ next_id \in Nat /\ clog.next \in Nat
    BY DEF BeginUpdate, CInv, CTypeOK, Logs
  <2>2. next_id >= clog.next
    BY <1>1 DEF CInv, LogInv
  <2> QED
    BY <2>1, <2>2
<1>4. clog.recs[next_id] = NoRecord /\ decided[next_id] = {} /\ answer[next_id] = "none"
  BY <1>3 DEF CInv, LogInv
<1>5. /\ clog' \in Logs /\ clog'.next = next_id + 1
      /\ clog'.mem = {i \in Ids : clog'.recs[i] # NoRecord}
      /\ clog'.recs = [clog.recs EXCEPT ![next_id] = "UNRESOLVED"]
  <2>1. "UNRESOLVED" \in Pending \cup Done /\ "UNRESOLVED" \notin Done
    BY DEF Pending, Done
  <2>2. Consistent(clog) /\ next_id \in Ids /\ next_id + 1 \in Nat
    BY <1>3 DEF CInv, CTypeOK, LogInv, Consistent
  <2>3. Logged(LogRecord(clog, "UNRESOLVED", next_id, next_id + 1), clog, "UNRESOLVED", next_id, next_id + 1)
    BY <2>1, <2>2, LogRecordLemma
  <2>4. Logged(clog', clog, "UNRESOLVED", next_id, next_id + 1)
    BY <1>2, <2>3
  <2> QED
    BY <2>1, <2>4 DEF Logged, Consistent
<1>6. /\ clog'.recs[next_id] = "UNRESOLVED"
      /\ \A i \in Ids : i # next_id => clog'.recs[i] = clog.recs[i]
  BY <1>3, <1>5 DEF CInv, CTypeOK, Logs, Records
<1> QED
  BY <1>3, <1>4, <1>5, <1>6

(* A SET or DEL takes the lock and an id. *)
LEMMA BeginUpdateStep ==
  ASSUME CInv, ~EarlyClients, NEW c \in Cmds, BeginUpdate(c)
  PROVE  CInv'
<1>1. /\ pc[Main] \in {"beat", "drop", "join", "wait"} /\ lock = Nobody /\ lock' = Worker
      /\ pc[Worker] = "idle" /\ pc'[Worker] = "prepare" /\ pc'[Main] = pc[Main]
  BY DEF BeginUpdate, CInv, CTypeOK, Accept, Serving, Goto, Main, Worker, Threads
<1>2. next_id' = next_id + 1 /\ UNCHANGED <<decided, answer>>
  BY DEF BeginUpdate
<1>3. /\ next_id \in Ids /\ next_id \in Nat /\ clog.next \in Nat /\ next_id + 1 \in Nat
      /\ ~(next_id < clog.next)
  BY BeginUpdateLogs
<1>4. clog.recs[next_id] = NoRecord /\ decided[next_id] = {} /\ answer[next_id] = "none"
  BY BeginUpdateLogs
<1>5. /\ clog' \in Logs /\ clog'.next = next_id + 1
      /\ clog'.mem = {i \in Ids : clog'.recs[i] # NoRecord}
  BY BeginUpdateLogs
<1>6. /\ clog'.recs[next_id] = "UNRESOLVED"
      /\ \A i \in Ids : i # next_id => clog'.recs[i] = clog.recs[i]
  BY BeginUpdateLogs
<1>7. CTypeOK'
  BY <1>1, <1>3, <1>5 DEF BeginUpdate, memberVars, mainVars, CInv, CTypeOK, Goto, WorkerPcs,
                          Threads, Main, Worker
<1>8. LockInv'
  BY <1>1 DEF CInv, LockInv, Locking, Updating, Main, Worker, Nobody
<1>9. LoopInv' /\ IteratorsValid'
  <2>1. todo[Main] = {}
    BY <1>1 DEF CInv, LoopInv, Threads
  <2>2. /\ todo'[Worker] = participants /\ todo'[Main] = todo[Main]
        /\ participants' = participants
    BY DEF BeginUpdate, memberVars, CInv, CTypeOK, Threads, Main, Worker
  <2> QED
    BY <1>1, <2>1, <2>2 DEF LoopInv, IteratorsValid, Threads
<1>10. LogInv'
  <2>1. \A i \in Ids : i = next_id \/ i < clog.next => i < clog'.next
    <3> SUFFICES ASSUME NEW i \in Ids, i = next_id \/ i < clog.next PROVE i < clog'.next
      OBVIOUS
    <3>1. i \in Nat
      BY MaxIdAssumption DEF Ids
    <3> QED
      BY <1>3, <1>5, <3>1
  <2>2. \A i \in Ids : clog'.recs[i] # NoRecord \/ decided'[i] # {} \/ answer'[i] # "none"
                         => i < clog'.next
    BY <1>2, <1>6, <2>1 DEF CInv, LogInv
  <2>3. next_id' >= clog'.next /\ (clog'.next # 0 => next_id' = clog'.next)
    BY <1>2, <1>3, <1>5
  <2> QED
    BY <1>2, <1>4, <1>5, <1>6, <2>2, <2>3 DEF CInv, LogInv, NoRecord
<1>11. RequestInv'
  <2>1. req'[Worker] = next_id
    BY DEF BeginUpdate, CInv, CTypeOK, Threads
  <2> QED
    BY <1>1, <1>2, <1>3, <1>4, <1>6, <2>1 DEF RequestInv, Threads
<1>12. CopyInv'
  BY <1>1 DEF CopyInv
<1>13. Agreement' /\ AnswerMatchesDecision'
  BY <1>2 DEF CInv, Agreement, AnswerMatchesDecision
<1> QED
  BY <1>7, <1>8, <1>9, <1>10, <1>11, <1>12, <1>13 DEF CInv

(* The process starts: init_records() and next_id_. *)
LEMMA StartCoordinatorStep ==
  ASSUME CInv, StartCoordinator
  PROVE  CInv'
<1> USE DEF StartCoordinator, workerVars
<1>1. /\ pc[Main] = "down" /\ pc'[Main] = "initNext" /\ lock' = Main
      /\ pc[Worker] = "idle" /\ pc'[Worker] = "idle"
  BY DEF CInv, CTypeOK, LockInv, Goto, Main, Worker, Threads
<1>2. clog' = clog
  <2>1. clog \in Logs /\ clog.mem = {i \in Ids : clog.recs[i] # NoRecord}
    BY DEF CInv, CTypeOK, LogInv
  <2> QED
    BY <2>1 DEF InitRecords, Logs
<1>3. clog.next \in Nat /\ next_id' \in Nat /\ (clog.next # 0 => next_id' = clog.next)
  BY StartAssumption DEF CInv, CTypeOK, Logs
<1>4. CTypeOK'
  BY <1>2, <1>3 DEF CInv, CTypeOK, Goto, Begin, MainPcs, Threads, Main, Worker
<1>5. LockInv'
  BY <1>1 DEF CInv, LockInv, Locking, Updating, Main, Worker, Nobody
<1>6. LoopInv' /\ IteratorsValid'
  BY <1>1 DEF CInv, LoopInv, IteratorsValid, Threads
<1>7. LogInv'
  BY <1>2, <1>3 DEF CInv, LogInv
<1>8. RequestInv' /\ CopyInv'
  BY <1>1 DEF RequestInv, CopyInv, Threads
<1>9. Agreement' /\ AnswerMatchesDecision'
  BY DEF CInv, Agreement, AnswerMatchesDecision
<1> QED
  BY <1>4, <1>5, <1>6, <1>7, <1>8, <1>9 DEF CInv

(* The process dies; only the log is left. *)
LEMMA CrashCoordinatorStep ==
  ASSUME CInv, CrashCoordinator
  PROVE  CInv'
<1> USE DEF CrashCoordinator
<1>1. pc'[Main] = "down" /\ pc'[Worker] = "idle" /\ lock' = Nobody
  BY DEF Main, Worker, Threads
<1>2. \A t \in Threads : todo'[t] = {} /\ pc'[t] \in {"down", "idle"}
  BY <1>1 DEF Threads
<1>3. CTypeOK'
  BY DEF CInv, CTypeOK, Begin, MainPcs, WorkerPcs, Records, NoRecords, Dbs, EmptyDb, Threads,
         Main, Worker
<1>4. LockInv'
  BY <1>1 DEF LockInv, Locking, Updating, Main, Worker, Nobody
<1>5. LoopInv' /\ IteratorsValid' /\ RequestInv' /\ CopyInv'
  BY <1>1, <1>2 DEF LoopInv, IteratorsValid, RequestInv, CopyInv, Threads
<1>6. LogInv'
  BY <1>1 DEF CInv, LogInv
<1>7. Agreement' /\ AnswerMatchesDecision'
  BY DEF CInv, Agreement, AnswerMatchesDecision
<1> QED
  BY <1>3, <1>4, <1>5, <1>6, <1>7 DEF CInv

-----------------------------------------------------------------------------
(* The theorems.                                                            *)

(* The first start satisfies the invariant. *)
LEMMA InitCInv == CInit => CInv
<1> SUFFICES ASSUME CInit PROVE CInv
  OBVIOUS
<1> USE DEF CInit
<1>1. pc[Main] = "down" /\ pc[Worker] = "idle" /\ lock = Nobody
  BY DEF Main, Worker, Threads
<1>2. \A t \in Threads : todo[t] = {} /\ pc[t] \in {"down", "idle"}
  BY <1>1 DEF Threads
<1>3. clog \in Logs /\ clog.recs = NoRecords /\ clog.mem = {}
  BY InitNextAssumption DEF EmptyLog, Logs, Records, NoRecords
<1>4. CTypeOK
  BY <1>3 DEF CTypeOK, Begin, MainPcs, WorkerPcs, Answers, Records, NoRecords, Dbs, EmptyDb,
              Threads, Main, Worker
<1>5. LockInv
  BY <1>1 DEF LockInv, Locking, Updating, Main, Worker, Nobody
<1>6. LoopInv /\ IteratorsValid /\ RequestInv /\ CopyInv
  BY <1>1, <1>2 DEF LoopInv, IteratorsValid, RequestInv, CopyInv, Threads
<1>7. LogInv
  BY <1>1, <1>3 DEF LogInv, NoRecords, NoRecord
<1>8. Agreement /\ AnswerMatchesDecision
  BY DEF Agreement, AnswerMatchesDecision, Results
<1> QED
  BY <1>4, <1>5, <1>6, <1>7, <1>8 DEF CInv

(* Every step of the coordinator keeps the invariant. *)
LEMMA NextCInv ==
  ASSUME ~EarlyClients, CInv, [CNext]_cvars
  PROVE  CInv'
<1>1. CASE UNCHANGED cvars
  <2> USE <1>1 DEF cvars
  <2>1. CTypeOK' /\ LockInv' /\ LoopInv'
    BY DEF CInv, CTypeOK, LockInv, LoopInv
  <2>2. LogInv' /\ RequestInv' /\ CopyInv'
    BY DEF CInv, LogInv, RequestInv, CopyInv
  <2>3. Agreement' /\ AnswerMatchesDecision' /\ IteratorsValid'
    BY DEF CInv, Agreement, AnswerMatchesDecision, IteratorsValid
  <2> QED
    BY <2>1, <2>2, <2>3 DEF CInv
<1>2. ASSUME NEW t \in Threads, UpdateStep(t) PROVE CInv'
  BY <1>2, CommitReturnsStep, AbortReturnsStep, CommitEndStep, AbortEndStep DEF UpdateStep
<1>3. CASE WorkerStep
  BY <1>2, <1>3, PrepareReturnsStep, PrepareAllDeadStep, PrepareEndStep, GetReturnsStep
     DEF WorkerStep, Threads
<1>4. CASE MainStep
  <2>1. CASE UpdateStep(Main)
    BY <1>2, <2>1 DEF Threads
  <2>2. CASE \E r \in Outcomes, n \in NextIds : InitNextReturns(r, n) \/ JoinNextReturns(r, n)
    BY <2>2, InitNextReturnsStep, JoinNextReturnsStep
  <2>3. CASE \E r \in Outcomes : InitSetReturns(r) \/ BeatReturns(r) \/ JoinSetReturns(r)
    BY <2>3, InitSetReturnsStep, BeatReturnsStep, JoinSetReturnsStep
  <2>4. CASE \E r \in Outcomes : RecoverReturns(r) \/ RecoverSetReturns(r)
    BY <2>4, RecoverReturnsStep, RecoverSetReturnsStep
  <2>5. CASE \E p \in P, r \in Outcomes, s \in Dbs : SnapshotReturns(p, r, s)
    BY <2>5, SnapshotReturnsStep
  <2>6. CASE \E id \in Ids : Resolve(id)
    BY <2>6, ResolveStep
  <2>7. CASE CopyRecords \/ UnfinishedEnd \/ Drop \/ Join \/ Wait
    BY <2>7, CopyRecordsStep, UnfinishedEndStep, DropStep, JoinStep, WaitStep
  <2> QED
    BY <1>4, <2>1, <2>2, <2>3, <2>4, <2>5, <2>6, <2>7 DEF MainStep
<1>5. CASE Client
  BY <1>5, BeginGetStep, BeginUpdateStep DEF Client
<1>6. CASE StartCoordinator \/ CrashCoordinator
  BY <1>6, StartCoordinatorStep, CrashCoordinatorStep
<1> QED
  BY <1>1, <1>3, <1>4, <1>5, <1>6 DEF CNext

(* CInv holds in every reachable state of a coordinator whose clients come  *)
(* after recovery(), for every number of participants, ids and commands and *)
(* whatever the participants answer.                                        *)
THEOREM Inductive == ~EarlyClients => (CSpec => []CInv)
<1> SUFFICES ASSUME ~EarlyClients PROVE CSpec => []CInv
  OBVIOUS
<1>1. CInit => CInv
  BY InitCInv
<1>2. CInv /\ [CNext]_cvars => CInv'
  BY NextCInv
<1> QED
  BY <1>1, <1>2, PTL DEF CSpec

(* The coordinator never logs COMMIT and ABORT for one request, never tells *)
(* a client other than what it decided, and its loops over participants_    *)
(* never stand on an erased entry.                                          *)
THEOREM CSafety ==
  ~EarlyClients => (CSpec => [](CTypeOK /\ Agreement /\ AnswerMatchesDecision /\ IteratorsValid))
<1> SUFFICES ASSUME ~EarlyClients
             PROVE  CSpec => [](CTypeOK /\ Agreement /\ AnswerMatchesDecision /\ IteratorsValid)
  OBVIOUS
<1>1. CSpec => []CInv
  BY Inductive
<1>2. CInv => CTypeOK /\ Agreement /\ AnswerMatchesDecision /\ IteratorsValid
  BY DEF CInv
<1> QED
  BY <1>1, <1>2, PTL

(* A client is never told "error" for a request that is or will be          *)
(* committed, nor a result for one that is not: handle_unfinished_records() *)
(* never commits what commit_db_request() or the PREPARE loop gave up.      *)
THEOREM AnswerIsDecision == ~EarlyClients => (CSpec => []AnswerMatchesDecision)
<1> SUFFICES ASSUME ~EarlyClients PROVE CSpec => []AnswerMatchesDecision
  OBVIOUS
<1>1. CInv => AnswerMatchesDecision
  BY DEF CInv
<1> QED
  BY <1>1, Inductive, PTL

(* No loop over participants_ stands on an entry that was erased: the lock, *)
(* and at start-up the order of recovery(), keep the threads apart.         *)
THEOREM LoopsAreValid == ~EarlyClients => (CSpec => []IteratorsValid)
<1> SUFFICES ASSUME ~EarlyClients PROVE CSpec => []IteratorsValid
  OBVIOUS
<1>1. CInv => IteratorsValid
  BY DEF CInv
<1> QED
  BY <1>1, Inductive, PTL

(* The steps that may touch the log or the decisions. *)
LEMMA LogStep ==
  ASSUME CInv, [CNext]_cvars, CTypeOK'
  PROVE  \/ UNCHANGED <<clog, decided>>
         \/ StartCoordinator
         \/ \E c \in Cmds : BeginUpdate(c)
         \/ \E t \in Threads : CommitEnd(t) \/ AbortEnd(t)
         \/ PrepareEnd
         \/ \E id \in Ids : Resolve(id)
         \/ CrashCoordinator
<1>0. CASE UNCHANGED cvars
  BY <1>0 DEF cvars
<1> USE DEF recordVars
<1>1. ASSUME NEW t \in Threads, UpdateStep(t)
      PROVE  UNCHANGED <<clog, decided>> \/ CommitEnd(t) \/ AbortEnd(t)
  BY <1>1 DEF UpdateStep, CommitReturns, AbortReturns
<1>2. CASE WorkerStep
  BY <1>1, <1>2 DEF WorkerStep, PrepareReturns, PrepareAllDead, GetReturns, Threads
<1>3. CASE MainStep
  BY <1>1, <1>3 DEF MainStep, Threads, InitNextReturns, InitSetReturns, CopyRecords, UnfinishedEnd,
     BeatReturns, Drop, Join, JoinSetReturns, JoinNextReturns, SnapshotReturns, RecoverReturns,
     RecoverSetReturns, Wait
<1>4. CASE Client
  BY <1>4 DEF Client, BeginGet
<1> QED
  BY <1>0, <1>2, <1>3, <1>4 DEF CNext

(* The step that newly commits is the end of a PREPARE loop without refusal. *)
LEMMA CommitStep ==
  ASSUME CInv, [CNext]_cvars, CTypeOK', NEW i \in Ids, "COMMIT" \in decided'[i] \ decided[i]
  PROVE  pc[Worker] = "prepare" /\ req[Worker] = i /\ todo[Worker] = {} /\ prepare_ok
<1>1. ASSUME NEW t \in Threads, CommitEnd(t) \/ AbortEnd(t) PROVE decided' = decided
  <2>1. CASE CommitEnd(t)
    BY <2>1, DoneLogged DEF CommitEnd, Done
  <2>2. CASE AbortEnd(t)
    BY <2>2, DoneLogged DEF AbortEnd, Done
  <2> QED
    BY <1>1, <2>1, <2>2
<1>2. ASSUME NEW id \in Ids, Resolve(id) PROVE FALSE
  <2>1. PICK status \in {"COMMIT", "ABORT"} : /\ status = "COMMIT" => clog.recs[id] = "COMMIT"
                                             /\ decided' = [decided EXCEPT ![id] = {status}]
    BY <1>2, ResolveLogs
  <2>2. clog.recs[id] = "COMMIT" => decided[id] = {"COMMIT"}
    BY DEF CInv, LogInv
  <2> QED
    BY <2>1, <2>2 DEF CInv, CTypeOK
<1>3. CASE PrepareEnd
  <2>1. PICK status \in {"COMMIT", "ABORT"} : /\ status = "COMMIT" => prepare_ok
                                             /\ req[Worker] \in Ids
                                             /\ decided' = [decided EXCEPT ![req[Worker]] = {status}]
    BY <1>3, PrepareEndLogs
  <2>2. req[Worker] = i /\ status = "COMMIT"
    BY <2>1 DEF CInv, CTypeOK
  <2> QED
    BY <1>3, <2>1, <2>2 DEF PrepareEnd
<1>4. decided' # decided
  OBVIOUS
<1> QED
  BY <1>1, <1>2, <1>3, <1>4, LogStep DEF StartCoordinator, BeginUpdate, CrashCoordinator

(* next_id in the log never decreases and only new ids become UNRESOLVED. *)
LEMMA IdStep ==
  ASSUME CInv, [CNext]_cvars, CTypeOK'
  PROVE  /\ clog'.next >= clog.next
         /\ \A i \in Ids : clog.recs[i] # "UNRESOLVED" /\ clog'.recs[i] = "UNRESOLVED"
                            => decided[i] = {} /\ answer[i] = "none" /\ i >= clog.next
<1> DEFINE Goal == /\ clog'.next >= clog.next
                   /\ \A i \in Ids : clog.recs[i] # "UNRESOLVED" /\ clog'.recs[i] = "UNRESOLVED"
                            => decided[i] = {} /\ answer[i] = "none" /\ i >= clog.next
<1>0. clog.next \in Nat /\ \A i \in Ids : i \in Nat
  <2>1. clog.next \in Nat
    BY DEF CInv, CTypeOK, Logs
  <2>2. \A i \in Ids : i \in Nat
    BY MaxIdAssumption DEF Ids
  <2> QED
    BY <2>1, <2>2
<1>1. CASE clog' = clog
  BY <1>0, <1>1
<1>2. ASSUME clog'.next = clog.next,
             \A i \in Ids : clog'.recs[i] = "UNRESOLVED" => clog.recs[i] = "UNRESOLVED"
      PROVE  Goal
  BY <1>0, <1>2
<1>3. ASSUME NEW t \in Threads, CommitEnd(t) \/ AbortEnd(t) PROVE Goal
  <2>1. /\ clog'.next = clog.next
        /\ \A i \in Ids : i # req[t] => clog'.recs[i] = clog.recs[i]
        /\ clog'.recs[req[t]] \in {NoRecord, clog.recs[req[t]]}
    <3>1. CASE CommitEnd(t)
      BY <3>1, DoneLogged DEF CommitEnd, Done
    <3>2. CASE AbortEnd(t)
      BY <3>2, DoneLogged DEF AbortEnd, Done
    <3> QED
      BY <1>3, <3>1, <3>2
  <2>2. \A i \in Ids : clog'.recs[i] = "UNRESOLVED" => clog.recs[i] = "UNRESOLVED"
    BY <2>1 DEF NoRecord
  <2> QED
    BY <1>2, <2>1, <2>2
<1>4. ASSUME NEW id \in Ids, NEW status \in {"COMMIT", "ABORT"}, clog'.next = clog.next,
             clog'.recs = [clog.recs EXCEPT ![id] = status]
      PROVE  Goal
  <2>1. \A i \in Ids : clog'.recs[i] = "UNRESOLVED" => clog.recs[i] = "UNRESOLVED"
    BY <1>4 DEF CInv, CTypeOK, Logs, Records
  <2> QED
    BY <1>2, <1>4, <2>1
<1>5. CASE PrepareEnd
  BY <1>4, <1>5, PrepareEndLogs
<1>6. ASSUME NEW id \in Ids, Resolve(id) PROVE Goal
  BY <1>4, <1>6, ResolveLogs
<1>7. ASSUME NEW c \in Cmds, BeginUpdate(c) PROVE Goal
  <2>1. /\ next_id \in Nat /\ ~(next_id < clog.next)
        /\ decided[next_id] = {} /\ answer[next_id] = "none"
        /\ clog'.next = next_id + 1
        /\ \A i \in Ids : i # next_id => clog'.recs[i] = clog.recs[i]
    BY <1>7, BeginUpdateLogs
  <2>2. clog'.next >= clog.next /\ next_id >= clog.next
    BY <1>0, <2>1
  <2> QED
    BY <2>1, <2>2
<1>8. CASE StartCoordinator
  <2>1. clog \in Logs /\ clog.mem = {i \in Ids : clog.recs[i] # NoRecord}
    BY DEF CInv, CTypeOK, LogInv
  <2>2. clog' = clog
    BY <1>8, <2>1 DEF StartCoordinator, InitRecords, Logs
  <2> QED
    BY <1>1, <2>2
<1> QED
  BY <1>1, <1>3, <1>5, <1>6, <1>7, <1>8, LogStep DEF CrashCoordinator

(* Only the end of a PREPARE loop in which nobody refused commits a request:*)
(* handle_unfinished_records() never turns an undecided one into a commit.  *)
THEOREM CommitsArePrepared == ~EarlyClients => (CSpec => CommitOnlyPrepared)
<1> SUFFICES ASSUME ~EarlyClients PROVE CSpec => CommitOnlyPrepared
  OBVIOUS
<1>1. CSpec => []CInv
  BY Inductive
<1>2. CInv /\ CInv' /\ [CNext]_cvars
        => [\A i \in Ids : "COMMIT" \in decided'[i] \ decided[i]
              => pc[Worker] = "prepare" /\ req[Worker] = i /\ todo[Worker] = {} /\ prepare_ok]_cvars
  BY CommitStep DEF CInv
<1> QED
  BY <1>1, <1>2, PTL DEF CSpec, CommitOnlyPrepared

(* No id is handed to two requests, over all crashes and restarts: next_id  *)
(* in the log never decreases and only ids beyond it become UNRESOLVED.     *)
THEOREM IdsAreNotReused == ~EarlyClients => (CSpec => IdsNotReused)
<1> SUFFICES ASSUME ~EarlyClients PROVE CSpec => IdsNotReused
  OBVIOUS
<1>1. CSpec => []CInv
  BY Inductive
<1>2. CInv /\ CInv' /\ [CNext]_cvars
        => [/\ clog'.next >= clog.next
            /\ \A i \in Ids : clog.recs[i] # "UNRESOLVED" /\ clog'.recs[i] = "UNRESOLVED"
                               => decided[i] = {} /\ answer[i] = "none" /\ i >= clog.next]_cvars
  BY IdStep DEF CInv
<1> QED
  BY <1>1, <1>2, PTL DEF CSpec, IdsNotReused

-----------------------------------------------------------------------------
(* The store as a whole.                                                   *)

(* What a command does to a database leaves a database. *)
LEMMA ApplyType ==
  ASSUME NEW d \in Dbs
  PROVE  /\ \A c \in Cmds : Apply(d, c) \in Dbs /\ PartlyApplied(d, c) \subseteq Dbs
         /\ \A ks : Deleted(d, ks) \in Dbs
<1>1. \A ks : Deleted(d, ks) \in Dbs
  BY DEF Deleted, Dbs
<1>2. ASSUME NEW c \in SetCommands PROVE HandleSet(d, c) \in Dbs /\ c.type = "SET"
  BY <1>2 DEF SetCommands, HandleSet, Dbs
<1>3. ASSUME NEW c \in DelCommands PROVE c.type = "DEL"
  BY <1>3 DEF DelCommands
<1>4. ASSUME NEW c \in Cmds PROVE Apply(d, c) \in Dbs /\ PartlyApplied(d, c) \subseteq Dbs
  <2>1. CASE c \in SetCommands
    BY <1>2, <2>1 DEF Apply, PartlyApplied
  <2>2. CASE c \in DelCommands
    BY <1>1, <1>3, <2>2 DEF Apply, PartlyApplied, HandleDel
  <2> QED
    BY <2>1, <2>2 DEF Cmds
<1> QED
  BY <1>1, <1>4

(* log() keeps a log a log. *)
LEMMA LogType ==
  ASSUME NEW l \in Logs, NEW status \in Pending \cup Done, NEW id \in Ids, NEW nx \in Nat
  PROVE  LogRecord(l, status, id, nx) \in Logs
<1>1. l.recs \in Records /\ l.mem \in SUBSET Ids /\ NoRecords \in Records
  BY DEF Logs, Records, NoRecords
<1>2. [l.recs EXCEPT ![id] = IF status \in Done THEN NoRecord ELSE status] \in Records
  BY <1>1 DEF Records, Done, Pending
<1> QED
  BY <1>1, <1>2 DEF LogRecord, Logs

-----------------------------------------------------------------------------
(* What a call m does to a participant: s before, t after.                 *)

Effect(s, m, t) ==
  /\ t \in States
  /\ t.inbox \subseteq s.inbox
  /\ \A i \in Ids :
       \/ t.applied[i] = s.applied[i] /\ t.db_requests[i] \in {NoCmd, s.db_requests[i]}
       \/ /\ m.op = "PREPARE" /\ m.id = i
          /\ t.applied[i] = s.applied[i] /\ t.db_requests[i] = m.cmd
       \/ /\ m.op = "COMMIT" /\ m.id = i /\ s.db_requests[i] # NoCmd
          /\ t.applied[i] = s.applied[i] + 1 /\ t.db_requests[i] = NoCmd

(* A call that touches neither the requests nor the history. *)
LEMMA NoEffect ==
  ASSUME NEW s, NEW m, NEW t \in States, t.inbox \subseteq s.inbox, t.applied = s.applied,
         t.db_requests = s.db_requests
  PROVE  Effect(s, m, t)
BY DEF Effect

(* The end of the process forgets the requests and keeps the history. *)
LEMMA DeadState ==
  ASSUME NEW s \in States
  PROVE  /\ Dead(s) \in States /\ Dead(s).inbox = {} /\ Dead(s).applied = s.applied
         /\ Dead(s).db_requests = NoRequests /\ \A i \in Ids : Dead(s).db_requests[i] = NoCmd
<1>1. NoRequests \in [Ids -> Cmds \cup {NoCmd}] /\ \A i \in Ids : NoRequests[i] = NoCmd
  BY DEF NoRequests
<1>2. [s.log EXCEPT !.mem = {}] \in Logs
  BY DEF States, Logs
<1>3. Dead(s) = [s EXCEPT !.status = "down", !.next_id = 0, !.db_requests = NoRequests, !.null = FALSE,
                     !.log = [s.log EXCEPT !.mem = {}], !.sessions = {}, !.inbox = {}]
  BY DEF Dead, States, Logs
<1>4. /\ Dead(s).status = "down" /\ Dead(s).next_id = 0 /\ Dead(s).db_requests = NoRequests
      /\ Dead(s).log \in Logs /\ Dead(s).db = s.db /\ Dead(s).sessions = {}
      /\ Dead(s).inbox = {} /\ Dead(s).applied = s.applied
  BY <1>2, <1>3 DEF States
<1>5. Dead(s) = [status |-> "down", next_id |-> 0, db_requests |-> NoRequests, null |-> FALSE,
                 log |-> [s.log EXCEPT !.mem = {}], db |-> s.db, sessions |-> {}, inbox |-> {},
                 applied |-> s.applied]
  BY <1>3 DEF States
<1>6. Dead(s) \in States
  <2>1. PICK l \in Logs : l = [s.log EXCEPT !.mem = {}]
    BY <1>2
  <2>2. PICK reqs \in [Ids -> Cmds \cup {NoCmd}] : reqs = NoRequests
    BY <1>1
  <2>3. PICK d \in Dbs, a \in [Ids -> Nat] : d = s.db /\ a = s.applied
    BY DEF States
  <2>4. [status |-> "down", next_id |-> 0, db_requests |-> reqs, null |-> FALSE, log |-> l, db |-> d,
         sessions |-> {}, inbox |-> {}, applied |-> a] \in States
    BY DEF States
  <2> QED
    BY <1>5, <2>1, <2>2, <2>3, <2>4
<1> QED
  BY <1>1, <1>4, <1>6

(* ... whatever call it was in. *)
LEMMA DeadEffect ==
  ASSUME NEW s \in States, NEW m, NEW t, Effect(s, m, t)
  PROVE  Effect(s, m, Dead(t))
<1>1. t \in States
  BY DEF Effect
<1>2. /\ Dead(t) \in States /\ Dead(t).inbox = {} /\ Dead(t).applied = t.applied
      /\ \A i \in Ids : Dead(t).db_requests[i] = NoCmd
  BY <1>1, DeadState
<1> QED
  BY <1>2 DEF Effect

(* A handler changes these fields of a state. *)
Changed(s, n, reqs, b, l, d, a) ==
  [s EXCEPT !.next_id = n, !.db_requests = reqs, !.null = b, !.log = l, !.db = d, !.applied = a]

(* A change of these fields gives a state again, with the same inbox. *)
LEMMA ChangedState ==
  ASSUME NEW s \in States, NEW n \in Nat, NEW reqs \in [Ids -> Cmds \cup {NoCmd}],
         NEW b \in BOOLEAN, NEW l \in Logs, NEW d \in Dbs, NEW a \in [Ids -> Nat]
  PROVE  /\ Changed(s, n, reqs, b, l, d, a) \in States
         /\ Changed(s, n, reqs, b, l, d, a).inbox = s.inbox
         /\ Changed(s, n, reqs, b, l, d, a).applied = a
         /\ Changed(s, n, reqs, b, l, d, a).db_requests = reqs
BY DEF Changed, States

(* The types of the fields. *)
LEMMA Fields ==
  ASSUME NEW s \in States
  PROVE  /\ s.next_id \in Nat /\ s.db_requests \in [Ids -> Cmds \cup {NoCmd}] /\ s.null \in BOOLEAN
         /\ s.log \in Logs /\ s.db \in Dbs /\ s.inbox \subseteq Calls /\ s.applied \in [Ids -> Nat]
         /\ s.status \in {"up", "down", "hung"} /\ s.sessions \subseteq {"member", "beat"}
BY DEF States

(* PREPARE_SET and PREPARE_DEL: the command becomes the entry of its id, or none does. *)
LEMMA PrepareEffect ==
  ASSUME NEW s \in States, NEW id \in Ids, NEW c \in Cmds, NEW m, m.op = "PREPARE", m.id = id, m.cmd = c,
         NEW o \in HandlePrepare(s, id, c)
  PROVE  Effect(s, m, o.state) /\ o.ret \notin Results
<1>1. PICK l \in Logs : l = LogRecord(s.log, "PREPARED", id, s.next_id)
  BY Fields, LogType DEF Pending
<1> DEFINE logged == [s EXCEPT !.log = LogRecord(@, "PREPARED", id, s.next_id)]
<1>2. logged = Changed(s, s.next_id, s.db_requests, s.null, l, s.db, s.applied)
  BY <1>1 DEF Changed, States
<1>3. logged \in States /\ logged.inbox = s.inbox /\ logged.applied = s.applied
      /\ logged.db_requests = s.db_requests
  <2>1. /\ s.next_id \in Nat /\ s.db_requests \in [Ids -> Cmds \cup {NoCmd}]
        /\ s.null \in BOOLEAN /\ s.log \in Logs /\ s.db \in Dbs /\ s.applied \in [Ids -> Nat]
    BY Fields
  <2> QED
    BY <1>2, <2>1, ChangedState
<1> HIDE DEF logged
<1>4. Effect(s, m, logged) /\ Effect(s, m, s)
  BY <1>3, NoEffect
<1>5. Effect(s, m, Dead(logged))
  BY <1>4, DeadEffect
<1> DEFINE reqs == [logged.db_requests EXCEPT ![id] = IF @ = NoCmd THEN c ELSE @]
           t    == [logged EXCEPT !.db_requests[id] = IF @ = NoCmd THEN c ELSE @]
<1>6. reqs \in [Ids -> Cmds \cup {NoCmd}]
      /\ \A i \in Ids : reqs[i] = s.db_requests[i] \/ (i = id /\ reqs[i] = c)
  BY <1>3, Fields
<1>7. t = [logged EXCEPT !.db_requests = reqs]
  BY <1>3 DEF States
<1> HIDE DEF reqs
<1>8. t = Changed(logged, logged.next_id, reqs, logged.null, logged.log, logged.db, logged.applied)
  BY <1>3, <1>7 DEF Changed, States
<1> HIDE DEF t
<1>9. t \in States /\ t.inbox = s.inbox /\ t.applied = s.applied /\ t.db_requests = reqs
  <2>1. /\ logged.next_id \in Nat /\ logged.db_requests \in [Ids -> Cmds \cup {NoCmd}]
        /\ logged.null \in BOOLEAN /\ logged.log \in Logs /\ logged.db \in Dbs /\ logged.applied \in [Ids -> Nat]
    BY <1>3, Fields
  <2> QED
    BY <1>3, <1>6, <1>8, <2>1, ChangedState
<1>10. Effect(s, m, t)
  BY <1>6, <1>9 DEF Effect
<1>11. \/ o = [state |-> Dead(logged), ret |-> "exception"] \/ o = [state |-> t, ret |-> "true"]
       \/ o = [state |-> s, ret |-> "false"] \/ o = [state |-> logged, ret |-> "false"]
  BY DEF HandlePrepare, Dies, Outcome, logged, t
<1> QED
  BY <1>4, <1>5, <1>10, <1>11 DEF Results

(* One entry of a history or of the requests changes. *)
LEMMA Counted ==
  ASSUME NEW f \in [Ids -> Nat], NEW id \in Ids
  PROVE  \E g \in [Ids -> Nat] : /\ g = [f EXCEPT ![id] = @ + 1] /\ g[id] = f[id] + 1
                                 /\ \A i \in Ids : i # id => g[i] = f[i]
<1>1. [f EXCEPT ![id] = @ + 1] \in [Ids -> Nat]
  OBVIOUS
<1> QED
  BY <1>1

(* db_requests_ without one id. *)
LEMMA Erased ==
  ASSUME NEW f \in [Ids -> Cmds \cup {NoCmd}], NEW id \in Ids
  PROVE  \E g \in [Ids -> Cmds \cup {NoCmd}] : /\ g = [f EXCEPT ![id] = NoCmd] /\ g[id] = NoCmd
                                               /\ \A i \in Ids : i # id => g[i] = f[i]
<1>1. [f EXCEPT ![id] = NoCmd] \in [Ids -> Cmds \cup {NoCmd}]
  OBVIOUS
<1> QED
  BY <1>1

(* The COMMIT record and the step of next_id_. *)
LEMMA CommitLoggedState ==
  ASSUME NEW s \in States, NEW id \in Ids
  PROVE  LET l == CommitLogged(s, id) IN
         /\ l \in States /\ l.inbox = s.inbox /\ l.applied = s.applied
         /\ l.db_requests = s.db_requests /\ l.db = s.db
<1>1. PICK l \in Logs : l = LogRecord(s.log, "COMMIT", id, s.next_id)
  BY Fields, LogType DEF Pending
<1>2. PICK n \in Nat : n = s.next_id + 1
  BY Fields
<1>3. CommitLogged(s, id) = Changed(s, n, s.db_requests, s.null, l, s.db, s.applied)
  BY <1>1, <1>2 DEF CommitLogged, Changed, States
<1>4. CommitLogged(s, id).db = s.db
  BY <1>1, <1>2 DEF CommitLogged, States
<1> QED
  <2>1. /\ s.next_id \in Nat /\ s.db_requests \in [Ids -> Cmds \cup {NoCmd}]
        /\ s.null \in BOOLEAN /\ s.log \in Logs /\ s.db \in Dbs /\ s.applied \in [Ids -> Nat]
    BY Fields
  <2> QED
    BY <1>3, <1>4, <2>1, ChangedState

(* COMMIT uses up the entry of db_requests_ that PREPARE left. *)
LEMMA CommitEffect ==
  ASSUME NEW s \in States, NEW id \in Ids, NEW m, m.op = "COMMIT", m.id = id,
         NEW o \in HandleCommit(s, id)
  PROVE  Effect(s, m, o.state) /\ (o.ret \in Results => o.state.applied[id] > 0)
<1>1. Effect(s, m, s)
  BY NoEffect
<1>2. Effect(s, m, Dead(s))
  BY <1>1, DeadEffect
<1> DEFINE k == CommitLogged(s, id)
           c == s.db_requests[id]
           t == [k EXCEPT !.db = Apply(@, c), !.applied[id] = @ + 1,
                          !.log = LogRecord(@, "COMMIT_DONE", id, s.next_id + 1),
                          !.db_requests[id] = NoCmd]
<1>0. \/ o = Outcome(s, "") \/ o \in Dies(s)
      \/ IsBegin(s, id) /\ o = Outcome(t, Result(s.db, c))
  BY Zenon DEF HandleCommit
<1> HIDE DEF t, c, k
<1>3. CASE o = Outcome(s, "")
  <2>1. o.state = s /\ o.ret = ""
    BY <1>3 DEF Outcome
  <2> QED
    BY <1>1, <2>1 DEF Results
<1>4. CASE o \in Dies(s)
  <2>1. o.state = Dead(s) /\ o.ret = "exception"
    BY <1>4 DEF Outcome, Dies
  <2> QED
    BY <1>2, <2>1 DEF Results
<1>5. CASE IsBegin(s, id) /\ o = Outcome(t, Result(s.db, c))
  <2>1. c \in Cmds /\ c # NoCmd
    BY <1>5, Fields DEF IsBegin, c
  <2>2. k \in States /\ k.inbox = s.inbox /\ k.applied = s.applied
        /\ k.db_requests = s.db_requests /\ k.db = s.db
    BY CommitLoggedState DEF k
  <2>3. o.state = t
    BY <1>5 DEF Outcome
  <2>4. PICK l \in Logs : l = LogRecord(k.log, "COMMIT_DONE", id, s.next_id + 1)
    BY <2>2, Fields, LogType DEF Done
  <2>5. PICK d \in Dbs : d = Apply(k.db, c)
    BY <2>1, <2>2, Fields, ApplyType
  <2>13. PICK ap \in [Ids -> Nat], rq \in [Ids -> Cmds \cup {NoCmd}] :
             ap = s.applied /\ rq = s.db_requests
    BY Fields
  <2>6. PICK a \in [Ids -> Nat] : a = [ap EXCEPT ![id] = @ + 1]
    BY Counted
  <2>14. a[id] = ap[id] + 1 /\ \A i \in Ids : i # id => a[i] = ap[i]
    BY <2>6
  <2>7. PICK reqs \in [Ids -> Cmds \cup {NoCmd}] :
             /\ reqs = [rq EXCEPT ![id] = NoCmd] /\ reqs[id] = NoCmd
             /\ \A i \in Ids : i # id => reqs[i] = rq[i]
    BY Erased
  <2>8. t = [k EXCEPT !.db = d, !.applied = a, !.log = l, !.db_requests = reqs]
    BY <2>2, <2>4, <2>5, <2>6, <2>7, <2>13 DEF States, t
  <2>9. t = Changed(k, k.next_id, reqs, k.null, l, d, a)
    BY <2>2, <2>8 DEF Changed, States
  <2>10. t \in States /\ t.inbox = s.inbox /\ t.applied = a /\ t.db_requests = reqs
    <3>1. PICK n \in Nat, b \in BOOLEAN : n = k.next_id /\ b = k.null
      BY <2>2, Fields
    <3>2. t = Changed(k, n, reqs, b, l, d, a)
      BY <2>9, <3>1
    <3>3. /\ Changed(k, n, reqs, b, l, d, a) \in States
          /\ Changed(k, n, reqs, b, l, d, a).inbox = k.inbox
          /\ Changed(k, n, reqs, b, l, d, a).applied = a
          /\ Changed(k, n, reqs, b, l, d, a).db_requests = reqs
      BY <2>2, ChangedState
    <3> QED
      BY <2>2, <3>2, <3>3
  <2>11. Effect(s, m, t)
    BY <2>1, <2>14, <2>7, <2>10, <2>13 DEF Effect, c
  <2>12. t.applied[id] > 0
    <3>1. ap[id] \in Nat
      OBVIOUS
    <3> QED
      BY <2>14, <2>10, <3>1
  <2> QED
    BY <2>3, <2>11, <2>12
<1> QED
  BY <1>0, <1>3, <1>4, <1>5

(* ... also when the process is killed in it. *)
LEMMA KilledInCommitEffect ==
  ASSUME NEW s \in States, NEW id \in Ids, NEW m, m.op = "COMMIT", m.id = id,
         NEW t \in KilledInCommit(s, id)
  PROVE  Effect(s, m, t)
<1> DEFINE k == CommitLogged(s, id)
<1>1. k \in States /\ k.inbox = s.inbox /\ k.applied = s.applied
      /\ k.db_requests = s.db_requests /\ k.db = s.db
  BY CommitLoggedState
<1>2. s.next_id = id /\ IsBegin(s, id)
  BY DEF KilledInCommit
<1>3. s.db_requests[id] \in Cmds /\ s.db_requests[id] # NoCmd
  BY <1>2, Fields DEF IsBegin
<1>4. \/ t = Dead(k)
      \/ \E d \in PartlyApplied(s.db, s.db_requests[id]) :
           t = Dead([k EXCEPT !.db = d, !.applied[id] = @ + 1])
      \/ \E o \in HandleCommit(s, id) : t = Dead(o.state)
  BY <1>2 DEF KilledInCommit
<1> HIDE DEF k
<1>5. CASE t = Dead(k)
  BY <1>1, <1>5, NoEffect, DeadEffect
<1>6. CASE \E d \in PartlyApplied(s.db, s.db_requests[id]) :
             t = Dead([k EXCEPT !.db = d, !.applied[id] = @ + 1])
  <2>1. PICK d \in PartlyApplied(s.db, s.db_requests[id]) :
           t = Dead([k EXCEPT !.db = d, !.applied[id] = @ + 1])
    BY <1>6
  <2> DEFINE u == [k EXCEPT !.db = d, !.applied[id] = @ + 1]
  <2>2. d \in Dbs
    BY <1>3, ApplyType, Fields
  <2>9. PICK ap \in [Ids -> Nat] : ap = s.applied
    BY Fields
  <2>3. PICK a \in [Ids -> Nat] : /\ a = [ap EXCEPT ![id] = @ + 1]
                                  /\ a[id] = ap[id] + 1
                                  /\ \A i \in Ids : i # id => a[i] = ap[i]
    BY Counted
  <2>4. u = [k EXCEPT !.db = d, !.applied = a]
    BY <1>1, <2>3, <2>9 DEF States
  <2> HIDE DEF u
  <2>5. u = Changed(k, k.next_id, k.db_requests, k.null, k.log, d, a)
    BY <1>1, <2>4 DEF Changed, States
  <2>6. u \in States /\ u.inbox = s.inbox /\ u.applied = a
    <3>1. k.next_id \in Nat /\ k.db_requests \in [Ids -> Cmds \cup {NoCmd}] /\ k.null \in BOOLEAN
          /\ k.log \in Logs
      BY <1>1, Fields
    <3> QED
      BY <1>1, <2>2, <2>5, <3>1, ChangedState
  <2>7. /\ Dead(u) \in States /\ Dead(u).inbox = {} /\ Dead(u).applied = a
        /\ \A i \in Ids : Dead(u).db_requests[i] = NoCmd
    BY <2>6, DeadState
  <2>8. t = Dead(u)
    BY <2>1 DEF u
  <2> QED
    BY <1>3, <2>3, <2>7, <2>8, <2>9 DEF Effect
<1>7. CASE \E o \in HandleCommit(s, id) : t = Dead(o.state)
  BY <1>7, CommitEffect, DeadEffect
<1> QED
  BY <1>4, <1>5, <1>6, <1>7

(* ABORT may only erase a request. *)
LEMMA AbortEffect ==
  ASSUME NEW s \in States, NEW id \in Ids, NEW m, NEW o \in HandleAbort(s, id)
  PROVE  Effect(s, m, o.state) /\ o.ret \notin Results
<1> DEFINE logged == [s EXCEPT !.log = LogRecord(@, "ABORT_DONE", id, s.next_id + 1)]
           erased == EraseBegin(s.db_requests)
           far  == [logged EXCEPT !.next_id = IF id > @ THEN id + 1 ELSE @]
           this == [logged EXCEPT !.next_id = @ + 1, !.null = FALSE,
                                  !.db_requests = IF s.null THEN @ ELSE EraseBegin(@)]
<1>1. PICK l \in Logs : l = LogRecord(s.log, "ABORT_DONE", id, s.next_id + 1)
  <2>1. s.log \in Logs /\ s.next_id + 1 \in Nat
    BY Fields
  <2> QED
    BY <2>1, LogType DEF Done
<1>2. logged = [s EXCEPT !.log = l]
  BY <1>1
<1>3. erased \in [Ids -> Cmds \cup {NoCmd}] /\ \A i \in Ids : erased[i] \in {NoCmd, s.db_requests[i]}
  BY Fields DEF EraseBegin
<1>4. PICK n \in Nat : n = IF id > s.next_id THEN id + 1 ELSE s.next_id
  BY Fields DEF Ids
<1>5. PICK n1 \in Nat : n1 = s.next_id + 1
  BY Fields
<1>6. PICK reqs \in [Ids -> Cmds \cup {NoCmd}] :
           /\ reqs = IF s.null THEN s.db_requests ELSE EraseBegin(s.db_requests)
           /\ \A i \in Ids : reqs[i] \in {NoCmd, s.db_requests[i]}
  BY <1>3, Fields
<1>7. far = Changed(s, n, s.db_requests, s.null, l, s.db, s.applied)
  BY <1>2, <1>4 DEF Changed, States
<1>11. PICK b \in BOOLEAN : b = FALSE
  OBVIOUS
<1>8. this = Changed(s, n1, reqs, b, l, s.db, s.applied)
  BY <1>2, <1>5, <1>6, <1>11 DEF Changed, States
<1>9. o = [state |-> far, ret |-> "true"] \/ o = [state |-> this, ret |-> "true"]
  BY DEF HandleAbort, Outcome
<1> HIDE DEF far, this, logged, erased
<1>10. /\ far \in States /\ far.inbox = s.inbox /\ far.applied = s.applied
       /\ far.db_requests = s.db_requests
  <2>1. /\ s.next_id \in Nat /\ s.db_requests \in [Ids -> Cmds \cup {NoCmd}]
        /\ s.null \in BOOLEAN /\ s.log \in Logs /\ s.db \in Dbs /\ s.applied \in [Ids -> Nat]
    BY Fields
  <2> QED
    BY <1>7, <2>1, ChangedState, SMTT(15)
<1>12. /\ this \in States /\ this.inbox = s.inbox /\ this.applied = s.applied
       /\ this.db_requests = reqs
  <2>1. /\ s.next_id \in Nat /\ s.db_requests \in [Ids -> Cmds \cup {NoCmd}]
        /\ s.null \in BOOLEAN /\ s.log \in Logs /\ s.db \in Dbs /\ s.applied \in [Ids -> Nat]
    BY Fields
  <2> QED
    BY <1>8, <2>1, ChangedState
<1>13. Effect(s, m, far) /\ Effect(s, m, this)
  BY <1>6, <1>10, <1>12 DEF Effect
<1> QED
  BY <1>9, <1>13 DEF Results

(* SET_NEXT_ID touches no request. *)
LEMMA SetNextIdEffect ==
  ASSUME NEW s \in States, NEW val \in Nat, NEW m, NEW o \in HandleSetNextId(s, val)
  PROVE  Effect(s, m, o.state) /\ o.ret \notin Results
<1> DEFINE t == [s EXCEPT !.next_id = val]
<1>1. t = Changed(s, val, s.db_requests, s.null, s.log, s.db, s.applied)
  BY DEF Changed, States
<1>2. o = [state |-> t, ret |-> "ok"]
  BY DEF HandleSetNextId, Outcome
<1> HIDE DEF t
<1>3. t \in States /\ t.inbox = s.inbox /\ t.applied = s.applied /\ t.db_requests = s.db_requests
  <2>1. /\ s.next_id \in Nat /\ s.db_requests \in [Ids -> Cmds \cup {NoCmd}]
        /\ s.null \in BOOLEAN /\ s.log \in Logs /\ s.db \in Dbs /\ s.applied \in [Ids -> Nat]
    BY Fields
  <2> QED
    BY <1>1, <2>1, ChangedState
<1> QED
  BY <1>2, <1>3, NoEffect DEF Results

(* What RECOVER puts together is a database. *)
LEMMA RecoveredDb ==
  ASSUME NEW s \in States, NEW data \in Dbs, NEW del_keys_
  PROVE  /\ Overlaid(Deleted(s.db, del_keys_), data) \in Dbs
         /\ PartlyRecovered(s, data, del_keys_) \subseteq Dbs
<1>1. PICK d \in Dbs : d = Deleted(s.db, del_keys_)
  BY ApplyType, Fields
<1>2. PICK e \in Dbs : e = Overlaid(d, data)
  BY DEF Overlaid, Dbs
<1>3. \A ks : [k \in Keys |-> IF k \in ks THEN e[k] ELSE d[k]] \in Dbs
  BY DEF Dbs
<1> QED
  BY <1>1, <1>2, <1>3 DEF PartlyRecovered

(* A new database touches no request. *)
LEMMA NewDbEffect ==
  ASSUME NEW s \in States, NEW m, NEW d \in Dbs
  PROVE  Effect(s, m, [s EXCEPT !.db = d]) /\ Effect(s, m, Dead([s EXCEPT !.db = d]))
<1> DEFINE t == [s EXCEPT !.db = d]
<1>1. t = Changed(s, s.next_id, s.db_requests, s.null, s.log, d, s.applied)
  BY DEF Changed, States
<1> HIDE DEF t
<1>2. t \in States /\ t.inbox = s.inbox /\ t.applied = s.applied /\ t.db_requests = s.db_requests
  <2>1. /\ s.next_id \in Nat /\ s.db_requests \in [Ids -> Cmds \cup {NoCmd}]
        /\ s.null \in BOOLEAN /\ s.log \in Logs /\ s.db \in Dbs /\ s.applied \in [Ids -> Nat]
    BY Fields
  <2> QED
    BY <1>1, <2>1, ChangedState
<1>3. Effect(s, m, t) /\ Effect(s, m, Dead(t))
  BY <1>2, NoEffect, DeadEffect
<1> QED
  BY <1>3 DEF t

(* RECOVER puts the snapshot into the database and touches no request. *)
LEMMA RecoverEffect ==
  ASSUME NEW s \in States, NEW data \in Dbs, NEW del_keys_, NEW m,
         NEW o \in HandleRecover(s, data, del_keys_)
  PROVE  Effect(s, m, o.state) /\ o.ret \notin Results
<1>1. CASE \A k \in Keys : Decodes(data, k)
  <2>1. PICK d \in Dbs : d = Overlaid(Deleted(s.db, del_keys_), data)
    BY RecoveredDb
  <2>2. o = [state |-> [s EXCEPT !.db = d], ret |-> "ok"]
    BY <1>1, <2>1 DEF HandleRecover, Outcome
  <2> QED
    BY <2>2, NewDbEffect DEF Results
<1>2. CASE ~\A k \in Keys : Decodes(data, k)
  <2>1. PICK d \in PartlyRecovered(s, data, del_keys_) : o \in Dies([s EXCEPT !.db = d])
    BY <1>2 DEF HandleRecover
  <2>2. d \in Dbs
    BY RecoveredDb
  <2>3. o = [state |-> Dead([s EXCEPT !.db = d]), ret |-> "exception"]
    BY <2>1 DEF Dies, Outcome
  <2> QED
    BY <2>2, <2>3, NewDbEffect DEF Results
<1> QED
  BY <1>1, <1>2

(* The same when the participant dies after some of the puts. *)
LEMMA KilledInRecoverEffect ==
  ASSUME NEW s \in States, NEW data \in Dbs, NEW del_keys_, NEW m,
         NEW t \in KilledInRecover(s, data, del_keys_)
  PROVE  Effect(s, m, t)
<1>1. PICK d : /\ t = Dead([s EXCEPT !.db = d])
               /\ \/ \E ks : d = Deleted(s.db, ks)
                  \/ d \in PartlyRecovered(s, data, del_keys_)
  BY DEF KilledInRecover
<1>2. d \in Dbs
  BY <1>1, RecoveredDb, ApplyType, Fields
<1> QED
  BY <1>1, <1>2, NewDbEffect

(* The calls that exist. *)
LEMMA CallCases ==
  ASSUME NEW m \in Calls
  PROVE  \/ m.op = "PREPARE" /\ m.id \in Ids /\ m.cmd \in Cmds
         \/ m.op \in {"COMMIT", "ABORT"} /\ m.id \in Ids
         \/ m.op = "SET_NEXT_ID" /\ m.val \in Nat
         \/ m.op = "RECOVER" /\ m.data \in Dbs
BY DEF Calls

(* What handling a call does; only a COMMIT that applied returns a result. *)
LEMMA HandleEffect ==
  ASSUME NEW s \in States, NEW m \in Calls, NEW o \in Handle(s, m)
  PROVE  /\ Effect(s, m, o.state)
         /\ o.ret \in Results => m.op = "COMMIT" /\ o.state.applied[m.id] > 0
<1>1. CASE m.op = "PREPARE" /\ m.id \in Ids /\ m.cmd \in Cmds
  <2>1. o \in HandlePrepare(s, m.id, m.cmd)
    BY <1>1 DEF Handle
  <2> QED
    BY <1>1, <2>1, PrepareEffect
<1>2. CASE m.op = "COMMIT" /\ m.id \in Ids
  <2>1. o \in HandleCommit(s, m.id)
    BY <1>2 DEF Handle
  <2> QED
    BY <1>2, <2>1, CommitEffect
<1>3. CASE m.op = "ABORT" /\ m.id \in Ids
  <2>1. o \in HandleAbort(s, m.id)
    BY <1>3 DEF Handle
  <2> QED
    BY <1>3, <2>1, AbortEffect
<1>4. CASE m.op = "SET_NEXT_ID" /\ m.val \in Nat
  <2>1. o \in HandleSetNextId(s, m.val)
    BY <1>4 DEF Handle
  <2> QED
    BY <1>4, <2>1, SetNextIdEffect
<1>5. CASE m.op = "RECOVER" /\ m.data \in Dbs
  <2>1. o \in HandleRecover(s, m.data, m.del_keys)
    BY <1>5 DEF Handle
  <2> QED
    BY <1>5, <2>1, RecoverEffect
<1> QED
  BY <1>1, <1>2, <1>3, <1>4, <1>5, CallCases

(* ... and what a kill inside it leaves. *)
LEMMA KilledEffect ==
  ASSUME NEW s \in States, NEW m \in Calls, NEW t \in Killed(s, m)
  PROVE  Effect(s, m, t)
<1>1. CASE m.op = "COMMIT" /\ m.id \in Ids
  <2>1. t \in KilledInCommit(s, m.id)
    BY <1>1 DEF Killed
  <2> QED
    BY <1>1, <2>1, KilledInCommitEffect
<1>2. CASE m.op = "RECOVER" /\ m.data \in Dbs
  <2>1. t \in KilledInRecover(s, m.data, m.del_keys)
    BY <1>2 DEF Killed
  <2> QED
    BY <1>2, <2>1, KilledInRecoverEffect
<1>3. CASE m.op \in {"PREPARE", "ABORT", "SET_NEXT_ID"}
  <2>1. PICK o \in Handle(s, m) : t = Dead(o.state)
    BY <1>3 DEF Killed
  <2> QED
    BY <2>1, HandleEffect, DeadEffect
<1> QED
  BY <1>1, <1>2, <1>3, CallCases

-----------------------------------------------------------------------------
(* What a step does to the part of DInv that is about the participants.    *)

Stores == PTypeOK /\ StoreInv /\ CallInv /\ AppliedIsCommitted /\ AppliedOnce /\ RightCommand

\* The history of a participant never shrinks.
Grows == \A q \in P, i \in Ids : part[q].applied[i] > 0 => part'[q].applied[i] > 0

\* A step of the coordinator that begins no request: ids are not taken back,
\* nor is a decision, nor a PREPARE that was sent.
Keeps ==
  /\ clog'.next >= clog.next
  /\ \A i \in Ids : decided[i] = {"COMMIT"} => decided'[i] = {"COMMIT"}
  /\ pc'[Worker] = "prepare" => /\ pc[Worker] = "prepare" /\ req'[Worker] = req[Worker]
                                /\ todo'[Worker] \subseteq todo[Worker] /\ cmd' = cmd

\* What is true of a call that is handled: a COMMIT was decided, a PREPARE is
\* the first of its id and of the client's command.
Sound(p, m, rest) ==
  /\ m.op = "COMMIT" => decided[m.id] = {"COMMIT"}
  /\ m.op = "PREPARE" => /\ m.cmd = issued[m.id] /\ Asked(p, m.id)' /\ Untouched(p, m.id)
                         /\ \A k \in rest : k.op = "PREPARE" => k.id # m.id

Same(s, t) == t.applied = s.applied /\ t.db_requests = s.db_requests /\ t.inbox \subseteq s.inbox

(* What the coordinator asked for stays asked for. *)
LEMMA AskedStays ==
  ASSUME CInv, CInv', Keeps, NEW p \in P, NEW i \in Ids, Asked(p, i)
  PROVE  Asked(p, i)'
<1>1. clog.next \in Nat /\ clog'.next \in Nat /\ i \in Nat
  <2>1. clog.next \in Nat
    BY DEF CInv, CTypeOK, Logs
  <2>2. clog'.next \in Nat
    BY DEF CInv, CTypeOK, Logs
  <2> QED
    BY <2>1, <2>2, MaxIdAssumption DEF Ids
<1>2. i < clog'.next
  <2>1. i < clog.next /\ clog'.next >= clog.next
    BY DEF Keeps, Asked
  <2> QED
    BY <1>1, <2>1
<1> QED
  BY <1>2 DEF Keeps, Asked

(* A step in which one participant handles a call. *)
LEMMA StoreStep ==
  ASSUME DInv, CInv', PTypeOK', Keeps, UNCHANGED issued, NEW p \in P, NEW m,
         Effect(part[p], m, part'[p]), Sound(p, m, part'[p].inbox),
         \A q \in P : q # p => Same(part[q], part'[q])
  PROVE  Stores' /\ Grows
<1>1. \A q \in P : part[q] \in States /\ part'[q] \in States
  BY DEF DInv, PTypeOK
<1>2. \A q \in P, i \in Ids : part[q].applied[i] \in Nat /\ part'[q].applied[i] \in Nat
  BY <1>1, Fields
<1>3. \A q \in P, i \in Ids : Asked(q, i) => Asked(q, i)'
  BY AskedStays DEF DInv
<1>4. \A q \in P : part'[q].inbox \subseteq part[q].inbox
  BY DEF Effect, Same
<1> DEFINE Old(q, i) == /\ part'[q].applied[i] = part[q].applied[i]
                        /\ part'[q].db_requests[i] \in {NoCmd, part[q].db_requests[i]}
           Put(q, i) == /\ m.op = "PREPARE" /\ m.id = i /\ q = p
                        /\ part'[q].applied[i] = part[q].applied[i]
                        /\ part'[q].db_requests[i] = m.cmd
           Use(q, i) == /\ m.op = "COMMIT" /\ m.id = i /\ part[q].db_requests[i] # NoCmd
                        /\ part'[q].applied[i] = part[q].applied[i] + 1
                        /\ part'[q].db_requests[i] = NoCmd
<1>5. \A q \in P, i \in Ids : Old(q, i) \/ Put(q, i) \/ Use(q, i)
  BY DEF Effect, Same
<1> HIDE DEF Old, Put, Use
<1>6. \A q \in P, i \in Ids : Put(q, i) =>
        /\ m.cmd = issued[i] /\ Asked(q, i)' /\ Untouched(q, i) /\ part'[q].applied[i] = 0
  BY DEF Put, Sound, Untouched
<1>7. \A q \in P, i \in Ids : Use(q, i) =>
        /\ decided'[i] = {"COMMIT"} /\ part'[q].applied[i] = 1 /\ Asked(q, i)'
  <2>1. \A q \in P, i \in Ids : Use(q, i) => decided[i] = {"COMMIT"} /\ ~Untouched(q, i)
    BY DEF Use, Sound, Untouched
  <2>2. \A q \in P, i \in Ids : Use(q, i) => part[q].applied[i] = 0
    BY <1>2 DEF Use, DInv, StoreInv
  <2>3. \A q \in P, i \in Ids : Use(q, i) => part'[q].applied[i] = 1
    BY <1>2, <2>2 DEF Use
  <2> QED
    BY <1>3, <2>1, <2>3 DEF Keeps, DInv, StoreInv
<1>8. StoreInv'
  <2>1. ASSUME NEW q \in P, NEW i \in Ids, part'[q].applied[i] > 0
        PROVE  part'[q].db_requests[i] = NoCmd
    BY <1>2, <1>5, <1>6, <2>1 DEF Old, Use, DInv, StoreInv
  <2>2. ASSUME NEW q \in P, NEW i \in Ids, ~Untouched(q, i)' PROVE Asked(q, i)'
    <3>1. CASE Old(q, i)
      BY <1>3, <2>2, <3>1 DEF Old, Untouched, DInv, StoreInv
    <3> QED
      BY <1>5, <1>6, <1>7, <3>1
  <2> QED
    BY <2>1, <2>2 DEF StoreInv
<1>9. CallInv'
  <2> SUFFICES ASSUME NEW q \in P, NEW k \in part'[q].inbox
               PROVE  /\ k.op = "PREPARE" => k.cmd = issued'[k.id] /\ Asked(q, k.id)' /\ Untouched(q, k.id)'
                      /\ k.op = "COMMIT" => decided'[k.id] = {"COMMIT"}
    BY DEF CallInv
  <2>1. k \in part[q].inbox /\ k \in Calls
    BY <1>1, <1>4, Fields
  <2>2. CASE k.op = "COMMIT"
    <3>1. k.id \in Ids /\ decided[k.id] = {"COMMIT"}
      BY <2>1, <2>2, CallCases DEF DInv, CallInv
    <3> QED
      BY <2>2, <3>1 DEF Keeps
  <2>3. CASE k.op = "PREPARE"
    <3>1. k.id \in Ids /\ k.cmd = issued[k.id] /\ Asked(q, k.id) /\ Untouched(q, k.id)
      BY <2>1, <2>3, CallCases DEF DInv, CallInv
    <3>2. ~Put(q, k.id) /\ ~Use(q, k.id)
      BY <2>3, <3>1 DEF Put, Use, Sound, Untouched
    <3>3. Untouched(q, k.id)'
      BY <1>5, <3>1, <3>2 DEF Old, Untouched
    <3> QED
      BY <1>3, <2>3, <3>1, <3>3
  <2> QED
    BY <2>2, <2>3
<1>10. AppliedIsCommitted' /\ AppliedOnce'
  <2> SUFFICES ASSUME NEW q \in P, NEW i \in Ids
               PROVE  part'[q].applied[i] <= 1 /\ (part'[q].applied[i] > 0 => decided'[i] = {"COMMIT"})
    BY DEF AppliedIsCommitted, AppliedOnce
  <2>1. part[q].applied[i] <= 1 /\ (part[q].applied[i] > 0 => decided'[i] = {"COMMIT"})
    BY DEF DInv, AppliedIsCommitted, AppliedOnce, Keeps
  <2> QED
    BY <1>2, <1>5, <1>6, <1>7, <2>1 DEF Old
<1>11. RightCommand'
  <2> SUFFICES ASSUME NEW q \in P, NEW i \in Ids
               PROVE  part'[q].db_requests[i] \in {NoCmd, issued[i]}
    BY DEF RightCommand
  <2>1. part[q].db_requests[i] \in {NoCmd, issued[i]}
    BY DEF DInv, RightCommand
  <2> QED
    BY <1>5, <1>6, <2>1 DEF Old, Put, Use
<1>12. Grows
  BY <1>2, <1>5, <1>6, <1>7 DEF Grows, Old, Untouched
<1> QED
  BY <1>8, <1>9, <1>10, <1>11, <1>12 DEF Stores

(* A step in which no participant handles a call. *)
LEMMA StoresStay ==
  ASSUME DInv, CInv', PTypeOK', Keeps, UNCHANGED issued,
         \A q \in P : Same(part[q], part'[q])
  PROVE  Stores' /\ Grows
<1>1. PICK p \in P : TRUE
  BY PAssumption
<1> DEFINE m == [op |-> "NONE"]
<1>2. m.op # "COMMIT" /\ m.op # "PREPARE"
  OBVIOUS
<1> HIDE DEF m
<1>3. part'[p] \in States
  BY DEF PTypeOK
<1>4. Effect(part[p], m, part'[p])
  BY <1>3, NoEffect DEF Same
<1>5. Sound(p, m, part'[p].inbox)
  BY <1>2 DEF Sound
<1> QED
  BY <1>4, <1>5, StoreStep

(* ... in particular one in which nothing happens to them. *)
LEMMA StoresUnchanged ==
  ASSUME DInv, CInv', Keeps, UNCHANGED <<issued, part>>
  PROVE  Stores' /\ Grows
<1>1. PTypeOK'
  BY DEF DInv, PTypeOK
<1>2. \A q \in P : Same(part[q], part'[q])
  BY DEF Same
<1> QED
  BY <1>1, <1>2, StoresStay

(* One participant is replaced. *)
LEMMA OneReplaced ==
  ASSUME DInv, NEW p \in P, NEW t \in States, part' = [part EXCEPT ![p] = t]
  PROVE  PTypeOK' /\ part'[p] = t /\ \A q \in P : q # p => Same(part[q], part'[q])
BY DEF DInv, PTypeOK, Same

(* The fields that the environment changes. *)
LEMMA SmallChanges ==
  ASSUME NEW s \in States
  PROVE  /\ \A k : [s EXCEPT !.inbox = @ \ {k}] \in States /\ Same(s, [s EXCEPT !.inbox = @ \ {k}])
         /\ \A x \in SUBSET {"member", "beat"} :
              [s EXCEPT !.sessions = x] \in States /\ Same(s, [s EXCEPT !.sessions = x])
         /\ [s EXCEPT !.status = "hung"] \in States /\ Same(s, [s EXCEPT !.status = "hung"])
<1>1. ASSUME NEW k PROVE [s EXCEPT !.inbox = @ \ {k}] \in States /\ Same(s, [s EXCEPT !.inbox = @ \ {k}])
  <2>0. s.inbox \ {k} \subseteq s.inbox /\ s.inbox \ {k} \subseteq Calls
    BY Fields
  <2>1. PICK b \in SUBSET Calls : b = s.inbox \ {k} /\ b \subseteq s.inbox
    BY <2>0
  <2>2. [s EXCEPT !.inbox = b] \in States /\ Same(s, [s EXCEPT !.inbox = b])
    BY <2>1 DEF States, Same
  <2> QED
    BY <2>1, <2>2
<1>2. ASSUME NEW x \in SUBSET {"member", "beat"}
      PROVE  [s EXCEPT !.sessions = x] \in States /\ Same(s, [s EXCEPT !.sessions = x])
  BY DEF States, Same
<1>3. [s EXCEPT !.status = "hung"] \in States /\ Same(s, [s EXCEPT !.status = "hung"])
  BY DEF States, Same
<1> QED
  BY <1>1, <1>2, <1>3

(* The caller gave up; the call waits in the server. *)
LEMMA QueueStep ==
  ASSUME DInv, CInv', Keeps, UNCHANGED issued, NEW p \in P, NEW m \in Calls, Queue(p, m),
         Sound(p, m, {})
  PROVE  Stores' /\ Grows
<1>1. PICK b \in SUBSET Calls : b = part[p].inbox \cup {m}
  BY Fields DEF DInv, PTypeOK
<1> DEFINE s == part[p]
           t == [s EXCEPT !.inbox = b]
<1>2. s \in States
  BY DEF DInv, PTypeOK
<1>3. t \in States /\ t.applied = s.applied /\ t.db_requests = s.db_requests /\ t.inbox = b
  BY <1>2 DEF States
<1>4. part' = [part EXCEPT ![p] = t]
  BY <1>1 DEF Queue
<1> HIDE DEF s, t
<1>5. PTypeOK' /\ part'[p] = t /\ \A q \in P : q # p => Same(part[q], part'[q])
  BY <1>3, <1>4, OneReplaced
<1>6. /\ \A q \in P : part'[q].applied = part[q].applied /\ part'[q].db_requests = part[q].db_requests
      /\ \A q \in P : \A k \in part'[q].inbox : k \in part[q].inbox \/ (q = p /\ k = m)
  BY <1>1, <1>3, <1>5 DEF Same, s
<1>7. \A q \in P, i \in Ids : Asked(q, i) => Asked(q, i)'
  BY AskedStays DEF DInv
<1>8. \A q \in P, i \in Ids : Untouched(q, i)' <=> Untouched(q, i)
  BY <1>6 DEF Untouched
<1>9. StoreInv'
  BY <1>6, <1>7, <1>8 DEF DInv, StoreInv
<1>10. CallInv'
  <2> SUFFICES ASSUME NEW q \in P, NEW k \in part'[q].inbox
               PROVE  /\ k.op = "PREPARE" => k.cmd = issued'[k.id] /\ Asked(q, k.id)' /\ Untouched(q, k.id)'
                      /\ k.op = "COMMIT" => decided'[k.id] = {"COMMIT"}
    BY DEF CallInv
  <2>1. k \in Calls
    BY <1>5, Fields DEF PTypeOK
  <2>2. k.op \in {"PREPARE", "COMMIT"} => k.id \in Ids
    BY <2>1, CallCases
  <2>3. CASE k \in part[q].inbox
    BY <1>7, <1>8, <2>2, <2>3 DEF DInv, CallInv, Keeps
  <2>4. CASE q = p /\ k = m
    BY <1>8, <2>2, <2>4 DEF Sound, Keeps
  <2> QED
    BY <1>6, <2>3, <2>4
<1>11. AppliedIsCommitted' /\ AppliedOnce' /\ RightCommand' /\ Grows
  BY <1>6 DEF DInv, AppliedIsCommitted, AppliedOnce, RightCommand, Grows, Keeps
<1> QED
  BY <1>5, <1>9, <1>10, <1>11 DEF Stores

(* A participant handles a call, or is killed in it. *)
LEMMA CallStep ==
  ASSUME DInv, CInv', Keeps, UNCHANGED issued, NEW p \in P, NEW m, NEW t,
         Effect(part[p], m, t), Sound(p, m, t.inbox), part' = [part EXCEPT ![p] = t]
  PROVE  Stores' /\ Grows /\ part'[p] = t
<1>1. t \in States
  BY DEF Effect
<1>2. PTypeOK' /\ part'[p] = t /\ \A q \in P : q # p => Same(part[q], part'[q])
  BY <1>1, OneReplaced
<1> QED
  BY <1>2, StoreStep

(* Every outcome of a call the coordinator makes. *)
LEMMA RpcStep ==
  ASSUME DInv, CInv', Keeps, UNCHANGED issued, NEW p \in P, NEW session, NEW m \in Calls, NEW r,
         Rpc(p, session, m, r), Sound(p, m, part[p].inbox)
  PROVE  Stores' /\ Grows /\ (r \in Results => m.op = "COMMIT" /\ part'[p].applied[m.id] > 0)
<1>1. part[p] \in States
  BY DEF DInv, PTypeOK
<1>2. CASE Execute(p, m, r)
  <2>1. PICK o \in Handle(part[p], m) : o.ret = r /\ part' = [part EXCEPT ![p] = o.state]
    BY <1>2 DEF Execute
  <2>2. Effect(part[p], m, o.state) /\ (r \in Results => m.op = "COMMIT" /\ o.state.applied[m.id] > 0)
    BY <1>1, <2>1, HandleEffect
  <2>3. Sound(p, m, o.state.inbox)
    BY <2>2 DEF Sound, Effect
  <2> QED
    BY <2>1, <2>2, <2>3, CallStep
<1>3. CASE r = "exception" /\ Queue(p, m)
  <2>1. Sound(p, m, {})
    BY DEF Sound
  <2> QED
    BY <1>3, <2>1, QueueStep DEF Results
<1>4. CASE r = "exception" /\ KilledIn(p, m)
  <2>1. PICK t \in Killed(part[p], m) : part' = [part EXCEPT ![p] = t]
    BY <1>4 DEF KilledIn
  <2>2. Effect(part[p], m, t)
    BY <1>1, KilledEffect
  <2>3. Sound(p, m, t.inbox)
    BY <2>2 DEF Sound, Effect
  <2> QED
    BY <1>4, <2>1, <2>2, <2>3, CallStep DEF Results
<1>5. CASE r = "exception" /\ UNCHANGED part
  BY <1>5, StoresUnchanged DEF Results
<1> QED
  BY <1>2, <1>3, <1>4, <1>5 DEF Rpc

(* A connection is made or not. *)
LEMMA ConnectStep ==
  ASSUME DInv, CInv', Keeps, UNCHANGED issued, NEW p \in P, NEW session \in {"member", "beat"},
         Connect(p, session) \/ UNCHANGED part
  PROVE  Stores' /\ Grows
<1>1. CASE UNCHANGED part
  BY <1>1, StoresUnchanged
<1>2. CASE Connect(p, session)
  <2>1. part[p] \in States
    BY DEF DInv, PTypeOK
  <2>2. PICK x \in SUBSET {"member", "beat"} : x = part[p].sessions \cup {session}
    BY <2>1, Fields
  <2>3. PICK t \in States : t = [part[p] EXCEPT !.sessions = x] /\ Same(part[p], t)
    BY <2>1, SmallChanges
  <2>4. part' = [part EXCEPT ![p] = t]
    BY <1>2, <2>2, <2>3 DEF Connect
  <2>5. PTypeOK' /\ part'[p] = t /\ \A q \in P : q # p => Same(part[q], part'[q])
    BY <2>4, OneReplaced
  <2> QED
    BY <2>3, <2>5, StoresStay
<1> QED
  BY <1>1, <1>2

-----------------------------------------------------------------------------
(* What a step does to the rest of DInv: to the client.                    *)

\* Results and replies come from a participant.
Tells ==
  /\ pc'[Worker] = "commit" /\ ret' \in Results =>
       /\ pc[Worker] = "commit" /\ req'[Worker] = req[Worker]
       /\ ret' = ret \/ \E q \in P : part'[q].applied[req[Worker]] > 0
  /\ \A i \in Ids : answer'[i] \in Results =>
       \/ answer[i] \in Results
       \/ pc[Worker] = "commit" /\ req[Worker] = i /\ ret \in Results

(* The client was told what the participants applied. *)
LEMMA AnswersStep ==
  ASSUME DInv, CInv', Stores', Grows, Tells
  PROVE  AnswerMatchesStores'
<1> SUFFICES ASSUME NEW i \in Ids
             PROVE  /\ answer'[i] \in Results => \E p \in P : part'[p].applied[i] > 0
                    /\ answer'[i] = "send_error" => \A p \in P : part'[p].applied[i] = 0
  BY DEF AnswerMatchesStores
<1>1. ASSUME answer'[i] \in Results PROVE \E p \in P : part'[p].applied[i] > 0
  <2>1. CASE answer[i] \in Results
    BY <2>1 DEF Grows, DInv, AnswerMatchesStores
  <2>2. CASE pc[Worker] = "commit" /\ req[Worker] = i /\ ret \in Results
    BY <2>2 DEF Grows, DInv, ClientInv
  <2> QED
    BY <1>1, <2>1, <2>2 DEF Tells
<1>2. ASSUME answer'[i] = "send_error", NEW p \in P PROVE part'[p].applied[i] = 0
  <2>1. part'[p].applied[i] \in Nat
    BY Fields DEF Stores, PTypeOK
  <2>2. ~(part'[p].applied[i] > 0)
    BY <1>2 DEF Stores, AppliedIsCommitted, CInv, AnswerMatchesDecision
  <2> QED
    BY <2>1, <2>2
<1> QED
  BY <1>1, <1>2

(* A step that begins no request keeps the invariant. *)
LEMMA Together ==
  ASSUME DInv, CInv', Stores', Grows, Keeps, Tells, UNCHANGED issued
  PROVE  DInv'
<1>1. AnswerMatchesStores'
  BY AnswersStep
<1>2. ClientInv'
  <2>1. pc'[Worker] = "prepare" => cmd' \in Cmds /\ cmd' = issued'[req'[Worker]]
    BY DEF Keeps, DInv, ClientInv
  <2>2. ASSUME pc'[Worker] = "commit", ret' \in Results
        PROVE  \E p \in P : part'[p].applied[req'[Worker]] > 0
    <3>1. /\ pc[Worker] = "commit" /\ req'[Worker] = req[Worker] /\ req[Worker] \in Ids
          /\ ret' = ret \/ \E q \in P : part'[q].applied[req[Worker]] > 0
      BY <2>2 DEF Tells, DInv, CInv, RequestInv
    <3> QED
      BY <2>2, <3>1 DEF Grows, DInv, ClientInv
  <2> QED
    BY <2>1, <2>2 DEF DInv, ClientInv
<1> QED
  BY <1>1, <1>2 DEF DInv, Stores

-----------------------------------------------------------------------------
(* The steps of the participants.                                          *)

(* The coordinator does nothing. *)
LEMMA CoordinatorRests ==
  ASSUME DInv, UNCHANGED cvars
  PROVE  CInv' /\ Keeps /\ Tells
<1> USE DEF cvars
<1>1. CInv'
  <2>1. CTypeOK' /\ LockInv' /\ LoopInv'
    BY DEF DInv, CInv, CTypeOK, LockInv, LoopInv
  <2>2. LogInv' /\ RequestInv' /\ CopyInv'
    BY DEF DInv, CInv, LogInv, RequestInv, CopyInv
  <2>3. Agreement' /\ AnswerMatchesDecision' /\ IteratorsValid'
    BY DEF DInv, CInv, Agreement, AnswerMatchesDecision, IteratorsValid
  <2> QED
    BY <2>1, <2>2, <2>3 DEF CInv
<1>2. Keeps
  <2>1. clog.next \in Nat
    BY DEF DInv, CInv, CTypeOK, Logs
  <2> QED
    BY <2>1 DEF Keeps
<1>3. Tells
  BY DEF Tells
<1> QED
  BY <1>1, <1>2, <1>3

(* A late call is run: there is no second PREPARE of its id. *)
LEMMA LateCallStep ==
  ASSUME DInv, LateCall
  PROVE  DInv'
<1>1. UNCHANGED <<cvars, issued>>
  BY DEF LateCall
<1>2. CInv' /\ Keeps /\ Tells
  BY <1>1, CoordinatorRests
<1>3. PICK p \in P : \E m \in part[p].inbox : Deliver(p, m)
  BY DEF LateCall
<1>4. PICK m \in part[p].inbox : Deliver(p, m)
  BY <1>3
<1>5. part[p] \in States
  BY DEF DInv, PTypeOK
<1>6. m \in Calls /\ part[p].inbox \subseteq Calls
  BY <1>5, Fields
<1>7. PICK s \in States : s = [part[p] EXCEPT !.inbox = @ \ {m}] /\ Same(part[p], s)
  BY <1>5, SmallChanges
<1>8. PICK o \in Handle(s, m) : part' = [part EXCEPT ![p] = o.state]
  BY <1>4, <1>7 DEF Deliver
<1>9. Effect(s, m, o.state)
  BY <1>6, HandleEffect
<1>10. Effect(part[p], m, o.state)
  BY <1>7, <1>9 DEF Effect, Same
<1>11. s.inbox = part[p].inbox \ {m}
  BY <1>5, <1>7 DEF States
<1>12. o.state.inbox \subseteq part[p].inbox /\ m \notin o.state.inbox
  BY <1>9, <1>11 DEF Effect
<1>13. Sound(p, m, o.state.inbox)
  <2>1. m.op \in {"COMMIT", "PREPARE"} => m.id \in Ids
    BY <1>6, CallCases
  <2>2. m.op = "COMMIT" => decided[m.id] = {"COMMIT"}
    BY DEF DInv, CallInv
  <2>3. m.op = "PREPARE" => m.cmd = issued[m.id] /\ Asked(p, m.id) /\ Untouched(p, m.id)
    BY DEF DInv, CallInv
  <2>4. m.op = "PREPARE" => Asked(p, m.id)'
    BY <1>2, <2>1, <2>3, AskedStays DEF DInv
  <2>5. ASSUME m.op = "PREPARE", NEW k \in o.state.inbox, k.op = "PREPARE", k.id = m.id PROVE FALSE
    <3>1. k.cmd = m.cmd /\ k \in Calls
      BY <1>6, <1>12, <2>3, <2>5 DEF DInv, CallInv
    <3>2. k = m
      BY <1>6, <2>5, <3>1 DEF Calls
    <3> QED
      BY <1>12, <3>2
  <2> QED
    BY <2>2, <2>3, <2>4, <2>5 DEF Sound
<1>14. Stores' /\ Grows
  BY <1>1, <1>2, <1>8, <1>10, <1>13, CallStep
<1> QED
  BY <1>1, <1>2, <1>14, Together

(* A step of one participant that keeps its requests or loses them all. *)
LEMMA OwnStep ==
  ASSUME DInv, CInv', Keeps, UNCHANGED issued, NEW p \in P, NEW t \in States,
         part' = [part EXCEPT ![p] = t], Same(part[p], t) \/ t = Dead(part[p])
  PROVE  Stores' /\ Grows
<1>1. part[p] \in States
  BY DEF DInv, PTypeOK
<1> DEFINE m == [op |-> "NONE"]
<1>2. m.op # "COMMIT" /\ m.op # "PREPARE"
  OBVIOUS
<1> HIDE DEF m
<1>3. Effect(part[p], m, part[p])
  BY <1>1, NoEffect
<1>4. Effect(part[p], m, t)
  BY <1>1, <1>3, NoEffect, DeadEffect DEF Same
<1>5. Sound(p, m, t.inbox)
  BY <1>2 DEF Sound
<1> QED
  BY <1>4, <1>5, CallStep

(* A participant is killed. *)
LEMMA ParticipantCrashStep ==
  ASSUME DInv, ParticipantCrash
  PROVE  DInv'
<1>1. UNCHANGED <<cvars, issued>>
  BY DEF ParticipantCrash
<1>2. CInv' /\ Keeps /\ Tells
  BY <1>1, CoordinatorRests
<1>3. PICK p \in P : Crash(p)
  BY DEF ParticipantCrash
<1>4. part[p] \in States
  BY DEF DInv, PTypeOK
<1>5. Dead(part[p]) \in States /\ part' = [part EXCEPT ![p] = Dead(part[p])]
  BY <1>3, <1>4, DeadState DEF Crash
<1>6. Stores' /\ Grows
  BY <1>1, <1>2, <1>5, OwnStep
<1> QED
  BY <1>1, <1>2, <1>6, Together

(* A participant is started again. *)
LEMMA RecoveredState ==
  ASSUME NEW s \in States, Recovers(s)
  PROVE  Recovered(s) \in States /\ Same(s, Recovered(s))
<1>1. s.log \in Logs /\ s.log.next \in Nat
  BY DEF States, Logs
<1>2. PICK l \in Logs : l = [s.log EXCEPT !.mem = {}]
  BY <1>1 DEF Logs
<1>3. PICK b \in BOOLEAN : b = (PendingIds(s) # {})
  OBVIOUS
<1>4. PICK n \in Nat : n = IF PendingIds(s) = {} THEN s.log.next ELSE CHOOSE i \in PendingIds(s) : TRUE
  <2>1. PendingIds(s) \subseteq Nat
    BY MaxIdAssumption DEF PendingIds, Ids
  <2>2. CASE PendingIds(s) = {}
    BY <1>1, <2>2
  <2>3. CASE PendingIds(s) # {}
    <3>1. (CHOOSE i \in PendingIds(s) : TRUE) \in PendingIds(s)
      BY <2>3
    <3> QED
      BY <2>1, <2>3, <3>1
  <2> QED
    BY <2>2, <2>3
<1>5. Recovered(s) = [s EXCEPT !.status = "up", !.null = b, !.log = l, !.next_id = n]
  BY <1>2, <1>3, <1>4 DEF Recovered, States
<1>6. /\ [s EXCEPT !.status = "up", !.null = b, !.log = l, !.next_id = n] \in States
      /\ Same(s, [s EXCEPT !.status = "up", !.null = b, !.log = l, !.next_id = n])
  BY DEF States, Same
<1> QED
  BY <1>5, <1>6

(* A participant that restarts applies nothing; the coordinator rests. *)
LEMMA ParticipantRestartStep ==
  ASSUME DInv, ParticipantRestart
  PROVE  DInv'
<1>1. UNCHANGED <<cvars, issued>>
  BY DEF ParticipantRestart
<1>2. CInv' /\ Keeps /\ Tells
  BY <1>1, CoordinatorRests
<1>3. PICK p \in P : Restart(p)
  BY DEF ParticipantRestart
<1>4. part[p] \in States
  BY DEF DInv, PTypeOK
<1>5. ASSUME Recovers(part[p]), part' = [part EXCEPT ![p] = Recovered(part[p])]
      PROVE  Stores' /\ Grows
  BY <1>1, <1>2, <1>4, <1>5, RecoveredState, OwnStep
<1>6. ASSUME part' = [part EXCEPT ![p] = [part[p] EXCEPT !.status = "hung"]]
      PROVE  Stores' /\ Grows
  <2>1. PICK t \in States : t = [part[p] EXCEPT !.status = "hung"] /\ Same(part[p], t)
    BY <1>4, SmallChanges
  <2> QED
    BY <1>1, <1>2, <1>6, <2>1, OwnStep
<1>7. Stores' /\ Grows
  BY <1>3, <1>5, <1>6 DEF Restart
<1> QED
  BY <1>1, <1>2, <1>7, Together

-----------------------------------------------------------------------------
(* The steps of the coordinator's main thread.                             *)

(* A step that leaves the request of the worker alone. *)
LEMMA WorkerRests ==
  ASSUME CInv, clog'.next = clog.next,
         \A i \in Ids : decided[i] = {"COMMIT"} => decided'[i] = {"COMMIT"},
         pc'[Worker] = pc[Worker], req'[Worker] = req[Worker], todo'[Worker] = todo[Worker],
         UNCHANGED <<cmd, ret, answer>>
  PROVE  Keeps /\ Tells
<1>1. clog.next \in Nat
  BY DEF CInv, CTypeOK, Logs
<1>2. Keeps
  BY <1>1 DEF Keeps
<1>3. Tells
  BY DEF Tells
<1> QED
  BY <1>2, <1>3

(* A step of Main outside the two update loops. *)
LEMMA MainRests ==
  ASSUME CInv, UNCHANGED <<clog, decided, req, todo, cmd, ret, answer>>,
         pc' = pc \/ \E l : pc' = [pc EXCEPT ![Main] = l]
  PROVE  Keeps /\ Tells
<1>1. pc'[Worker] = pc[Worker]
  BY DEF Main, Worker, CInv, CTypeOK, Threads
<1> QED
  BY <1>1, WorkerRests

(* Where the main thread goes. *)
LEMMA MainQueries ==
  ASSUME CInv, NEW r, NEW n, InitNextReturns(r, n) \/ JoinNextReturns(r, n)
  PROVE  Keeps /\ Tells
<1>1. /\ UNCHANGED <<clog, decided, req, todo, cmd, ret, answer>>
      /\ \E l : pc' = [pc EXCEPT ![Main] = l]
  BY DEF InitNextReturns, InitAdvance, JoinNextReturns, Joined, JoinThrew, NotJoined, NextBeat, Goto,
         recordVars, workerVars
<1> QED
  BY <1>1, MainRests

(* The answers to SET_NEXT_ID, RECOVER and HEARTBEAT decide nothing. *)
LEMMA MainSets ==
  ASSUME CInv, NEW r, InitSetReturns(r) \/ JoinSetReturns(r) \/ RecoverSetReturns(r)
                      \/ RecoverReturns(r) \/ BeatReturns(r)
  PROVE  Keeps /\ Tells
<1>1. /\ UNCHANGED <<clog, decided, req, todo, cmd, ret, answer>>
      /\ \E l : pc' = [pc EXCEPT ![Main] = l]
  BY DEF InitSetReturns, InitAdvance, JoinSetReturns, RecoverSetReturns, RecoverReturns, BeatReturns,
         Joined, JoinThrew, NotJoined, NextBeat, Goto, recordVars, workerVars
<1> QED
  BY <1>1, MainRests

(* Nor do the steps of recovery() and the heartbeat between two calls. *)
LEMMA MainMovesOn ==
  ASSUME CInv, \/ CopyRecords \/ UnfinishedEnd \/ Drop \/ Join \/ Wait
               \/ \E p, r, s : SnapshotReturns(p, r, s)
  PROVE  Keeps /\ Tells
<1>1. /\ UNCHANGED <<clog, decided, req, todo, cmd, ret, answer>>
      /\ pc' = pc \/ \E l : pc' = [pc EXCEPT ![Main] = l]
  BY DEF CopyRecords, UnfinishedEnd, Drop, Join, Wait, SnapshotReturns, NotJoined, NextBeat, Goto,
         recordVars, workerVars
<1> QED
  BY <1>1, MainRests

(* Logging takes no decision back. *)
LEMMA DecisionStays ==
  ASSUME CInv, CInv', NEW status, NEW id, Log(status, id)
  PROVE  \A i \in Ids : decided[i] = {"COMMIT"} => decided'[i] = {"COMMIT"}
<1>1. \A i \in Ids : decided[i] \subseteq decided'[i]
  BY DEF CInv, CTypeOK, Log
<1>2. \A i \in Ids : decided'[i] \subseteq {"COMMIT", "ABORT"} /\ decided'[i] # {"COMMIT", "ABORT"}
  BY DEF CInv, CTypeOK, Agreement
<1> QED
  BY <1>1, <1>2

(* handle_unfinished_records() takes up a record. *)
LEMMA ResolveRests ==
  ASSUME CInv, CInv', NEW id \in Ids, Resolve(id)
  PROVE  Keeps /\ Tells
<1>1. clog'.next = clog.next
  BY ResolveLogs
<1>2. PICK status : Log(status, id)
  BY DEF Resolve, StartCommit, StartAbort
<1>3. \A i \in Ids : decided[i] = {"COMMIT"} => decided'[i] = {"COMMIT"}
  BY <1>2, DecisionStays
<1>4. /\ \E l : pc' = [pc EXCEPT ![Main] = l]
      /\ req' = [req EXCEPT ![Main] = id] /\ todo' = [todo EXCEPT ![Main] = participants]
      /\ UNCHANGED <<cmd, ret, answer>>
  BY DEF Resolve, StartCommit, StartAbort, Goto, Main, Worker
<1>5. pc'[Worker] = pc[Worker] /\ req'[Worker] = req[Worker] /\ todo'[Worker] = todo[Worker]
  BY <1>4 DEF CInv, CTypeOK, Threads, Main, Worker
<1> QED
  BY <1>1, <1>3, <1>4, <1>5, WorkerRests

(* The end of an update loop, in either thread. *)
LEMMA EndRests ==
  ASSUME CInv, NEW t \in Threads, CommitEnd(t) \/ AbortEnd(t)
  PROVE  Keeps /\ Tells
<1>1. /\ pc[t] \in {"commit", "abort"} /\ UNCHANGED <<next_id, todo>>
      /\ \E status \in Done : LogDone(t, status)
  BY DEF CommitEnd, AbortEnd, Done
<1>2. clog'.next = clog.next /\ decided' = decided
  BY <1>1, DoneLogged
<1>3. PICK a : Finish(t, a) /\ ((pc[t] = "commit" /\ a = ret) \/ a = "send_error")
  BY DEF CommitEnd, AbortEnd
<1>4. CASE t = Main
  <2>1. /\ pc' = [pc EXCEPT ![Main] = "unfinished"] /\ req' = [req EXCEPT ![Main] = 0]
        /\ UNCHANGED <<cmd, ret, answer>>
    BY <1>3, <1>4 DEF Finish, Goto, workerVars, Main, Worker
  <2>2. pc'[Worker] = pc[Worker] /\ req'[Worker] = req[Worker] /\ todo'[Worker] = todo[Worker]
    BY <1>1, <2>1 DEF CInv, CTypeOK, Threads, Main, Worker
  <2> QED
    BY <1>2, <2>1, <2>2, WorkerRests
<1>5. CASE t = Worker
  <2>1. pc'[Worker] = "idle" /\ answer' = [answer EXCEPT ![req[Worker]] = a]
    BY <1>3, <1>5 DEF Finish, Goto, CInv, CTypeOK, Threads
  <2>2. clog.next \in Nat
    BY DEF CInv, CTypeOK, Logs
  <2>3. Keeps
    BY <1>2, <2>1, <2>2 DEF Keeps
  <2>4. \A i \in Ids : answer'[i] = answer[i] \/ (i = req[Worker] /\ answer'[i] = a)
    BY <2>1 DEF CInv, CTypeOK
  <2>5. Tells
    BY <1>3, <1>5, <2>1, <2>4 DEF Tells, Results
  <2> QED
    BY <2>3, <2>5
<1> QED
  BY <1>4, <1>5 DEF Threads

(* The PREPARE loop is over, with a decision or with nobody left. *)
LEMMA PrepareEndRests ==
  ASSUME CInv, CInv', PrepareEnd \/ PrepareAllDead
  PROVE  Keeps /\ Tells
<1>0. clog.next \in Nat /\ Worker \in Threads
  BY DEF CInv, CTypeOK, Logs, Threads
<1>1. CASE PrepareEnd
  <2>1. clog'.next = clog.next
    BY <1>1, PrepareEndLogs
  <2>2. PICK status : Log(status, req[Worker])
    BY <1>1 DEF PrepareEnd, StartCommit, StartAbort
  <2>3. \A i \in Ids : decided[i] = {"COMMIT"} => decided'[i] = {"COMMIT"}
    BY <2>2, DecisionStays
  <2>4. /\ \/ pc' = [pc EXCEPT ![Worker] = "commit"] /\ ret' = ""
           \/ pc' = [pc EXCEPT ![Worker] = "abort"]
        /\ answer' = answer
    BY <1>1 DEF PrepareEnd, StartCommit, StartAbort, Goto
  <2>5. (pc'[Worker] = "commit" /\ ret' = "") \/ pc'[Worker] = "abort"
    BY <1>0, <2>4 DEF CInv, CTypeOK
  <2>6. Keeps
    <3>1. clog'.next >= clog.next
      BY <1>0, <2>1
    <3>2. pc'[Worker] # "prepare"
      BY <2>5
    <3> QED
      BY <2>3, <3>1, <3>2, Zenon DEF Keeps
  <2>7. Tells
    BY <2>4, <2>5 DEF Tells, Results
  <2> QED
    BY <2>6, <2>7
<1>2. CASE PrepareAllDead
  <2>1. /\ pc'[Worker] = "idle" /\ answer' = [answer EXCEPT ![req[Worker]] = "send_error"]
        /\ UNCHANGED <<clog, decided>>
    BY <1>0, <1>2 DEF PrepareAllDead, Finish, Goto, recordVars, CInv, CTypeOK
  <2>2. Keeps
    BY <1>0, <2>1 DEF Keeps
  <2>3. \A i \in Ids : answer'[i] = answer[i] \/ answer'[i] = "send_error"
    BY <2>1 DEF CInv, CTypeOK
  <2>4. Tells
    BY <2>1, <2>3 DEF Tells, Results
  <2> QED
    BY <2>2, <2>4
<1> QED
  BY <1>1, <1>2

(* One call of an update loop, or a GET, returned. *)
LEMMA LoopKeeps ==
  ASSUME CInv, NEW t \in Threads, NEW p, NEW r,
         \/ CommitReturns(t, p, r) \/ AbortReturns(t, p, r) \/ PrepareReturns(p, r) \/ GetReturns(p, r)
  PROVE  Keeps /\ UNCHANGED answer
<1>1. clog.next \in Nat /\ Worker \in Threads
  BY DEF CInv, CTypeOK, Logs, Threads
<1>2. UNCHANGED <<clog, decided, req, cmd, answer>>
  BY DEF CommitReturns, AbortReturns, PrepareReturns, GetReturns, recordVars, workerVars
<1>3. todo'[Worker] \subseteq todo[Worker]
  BY <1>1 DEF CommitReturns, AbortReturns, PrepareReturns, GetReturns, Visited, CInv, CTypeOK
<1>4. pc'[Worker] \in {pc[Worker], "idle"}
  BY <1>1 DEF CommitReturns, AbortReturns, PrepareReturns, GetReturns, Goto, CInv, CTypeOK
<1> QED
  BY <1>1, <1>2, <1>3, <1>4 DEF Keeps

(* The process starts or dies, or a GET is taken. *)
LEMMA OthersRest ==
  ASSUME CInv, StartCoordinator \/ CrashCoordinator \/ BeginGet
  PROVE  Keeps /\ Tells
<1>1. clog.next \in Nat /\ Worker \in Threads
  BY DEF CInv, CTypeOK, Logs, Threads
<1>2. clog'.next = clog.next /\ UNCHANGED <<decided, answer>>
  BY DEF StartCoordinator, CrashCoordinator, BeginGet, InitRecords, recordVars, CInv, CTypeOK, Logs
<1>3. pc'[Worker] \in {"idle", "get"}
  BY DEF StartCoordinator, CrashCoordinator, BeginGet, Goto, CInv, CTypeOK, LockInv, Threads, Main, Worker
<1> QED
  BY <1>1, <1>2, <1>3 DEF Keeps, Tells

-----------------------------------------------------------------------------
(* The steps of Cdb.                                                       *)

(* COMMIT of a logged decision is sent, and its result is kept for the     *)
(* client.                                                                 *)
LEMMA CommitCallStep ==
  ASSUME DInv, NEW t \in Threads, Commit(t), UNCHANGED issued
  PROVE  DInv'
<1>1. PICK p \in P, r \in Results \cup {"", "exception"} :
         /\ CommitReturns(t, p, r)
         /\ Rpc(p, "member", [op |-> "COMMIT", id |-> req[t]], r)
  BY DEF Commit
<1>0. PICK m : m = [op |-> "COMMIT", id |-> req[t]]
  OBVIOUS
<1>2. CInv' /\ CInv
  BY <1>1, CommitReturnsStep DEF DInv
<1>3. Keeps /\ UNCHANGED answer
  BY <1>1, <1>2, LoopKeeps
<1>4. pc[t] = "commit" /\ req[t] \in Ids /\ decided[req[t]] = {"COMMIT"}
  BY <1>1, <1>2 DEF CommitReturns, CInv, RequestInv, LogInv
<1>5. m \in Calls /\ m.op = "COMMIT" /\ m.id = req[t]
  BY <1>0, <1>4 DEF Calls
<1>6. Rpc(p, "member", m, r)
  BY <1>0, <1>1
<1>7. Sound(p, m, part[p].inbox)
  BY <1>4, <1>5 DEF Sound
<1>8. Stores' /\ Grows /\ (r \in Results => part'[p].applied[req[t]] > 0)
  BY <1>2, <1>3, <1>5, <1>6, <1>7, RpcStep
<1>9. Tells
  <2>1. /\ pc' = pc /\ req' = req
        /\ ret' = IF t = Worker /\ ret = "" /\ r # "exception" THEN r ELSE ret
    BY <1>1 DEF CommitReturns
  <2> QED
    BY <1>3, <1>8, <2>1 DEF Tells
<1> QED
  BY <1>2, <1>3, <1>8, <1>9, Together

(* ABORT is sent. *)
LEMMA AbortCallStep ==
  ASSUME DInv, NEW t \in Threads, Abort(t), UNCHANGED issued
  PROVE  DInv'
<1>1. PICK p \in P, r \in {"true", "exception"} :
         /\ AbortReturns(t, p, r)
         /\ Rpc(p, "member", [op |-> "ABORT", id |-> req[t]], r)
  BY DEF Abort
<1>0. PICK m : m = [op |-> "ABORT", id |-> req[t]]
  OBVIOUS
<1>2. CInv' /\ CInv
  BY <1>1, AbortReturnsStep DEF DInv
<1>3. Keeps /\ UNCHANGED answer
  BY <1>1, <1>2, LoopKeeps
<1>4. req[t] \in Ids
  BY <1>1, <1>2 DEF AbortReturns, CInv, RequestInv
<1>5. m \in Calls /\ m.op = "ABORT"
  BY <1>0, <1>4 DEF Calls
<1>6. Rpc(p, "member", m, r)
  BY <1>0, <1>1
<1>7. Sound(p, m, part[p].inbox)
  BY <1>5 DEF Sound
<1>8. Stores' /\ Grows
  BY <1>2, <1>3, <1>5, <1>6, <1>7, RpcStep
<1>9. Tells
  BY <1>1, <1>3 DEF Tells, AbortReturns, workerVars
<1> QED
  BY <1>2, <1>3, <1>8, <1>9, Together

(* PREPARE is sent, once to a participant: p leaves todo in the same step. *)
LEMMA PrepareCallStep ==
  ASSUME DInv, Prepare, UNCHANGED issued
  PROVE  DInv'
<1>1. PICK p \in P, r \in {"true", "false", "exception"} :
         /\ PrepareReturns(p, r)
         /\ Rpc(p, "member", [op |-> "PREPARE", id |-> req[Worker], cmd |-> cmd], r)
  BY DEF Prepare
<1>0. PICK m : m = [op |-> "PREPARE", id |-> req[Worker], cmd |-> cmd]
  OBVIOUS
<1>2. CInv' /\ CInv /\ Worker \in Threads
  BY <1>1, PrepareReturnsStep DEF DInv, Threads
<1>3. Keeps /\ UNCHANGED answer
  BY <1>1, <1>2, LoopKeeps
<1>4. /\ pc[Worker] = "prepare" /\ req[Worker] \in Ids /\ p \in todo[Worker]
      /\ req[Worker] < clog.next
  BY <1>1, <1>2 DEF PrepareReturns, Begin, CInv, RequestInv, LogInv, NoRecord
<1>5. cmd \in Cmds /\ cmd = issued[req[Worker]]
  BY <1>4 DEF DInv, ClientInv
<1>6. m \in Calls /\ m.op = "PREPARE" /\ m.id = req[Worker] /\ m.cmd = cmd
  BY <1>0, <1>4, <1>5 DEF Calls
<1>7. Rpc(p, "member", m, r)
  BY <1>0, <1>1
<1>8. ~Asked(p, m.id) /\ m.id \in Ids
  BY <1>4, <1>6 DEF Asked
<1>9. Untouched(p, m.id) /\ \A k \in part[p].inbox : k.op = "PREPARE" => k.id # m.id
  BY <1>8 DEF DInv, StoreInv, CallInv
<1>10. Asked(p, m.id)'
  <2>1. p \notin todo'[Worker] /\ clog' = clog /\ req' = req
    BY <1>1, <1>2 DEF PrepareReturns, recordVars, CInv, CTypeOK
  <2>2. m.id < clog'.next
    BY <1>4, <1>6, <2>1
  <2> QED
    BY <2>1, <2>2 DEF Asked
<1>11. Sound(p, m, part[p].inbox)
  BY <1>5, <1>6, <1>9, <1>10 DEF Sound
<1>12. Stores' /\ Grows
  BY <1>2, <1>3, <1>6, <1>7, <1>11, RpcStep
<1>13. Tells
  BY <1>1, <1>3, <1>4 DEF Tells, PrepareReturns
<1> QED
  BY <1>2, <1>3, <1>12, <1>13, Together

(* SET_NEXT_ID, RECOVER: calls that are about no request. *)
LEMMA OtherCallStep ==
  ASSUME DInv, CInv', Keeps, Tells, UNCHANGED issued, NEW p \in P, NEW session, NEW m \in Calls, NEW r,
         m.op \in {"SET_NEXT_ID", "RECOVER"}, Rpc(p, session, m, r)
  PROVE  DInv'
<1>1. Sound(p, m, part[p].inbox)
  BY DEF Sound
<1>2. Stores' /\ Grows
  BY <1>1, RpcStep
<1> QED
  BY <1>2, Together

(* A request gets an id that no participant has heard of. *)
LEMMA NewUpdateStep ==
  ASSUME DInv, ~EarlyClients, NewUpdate
  PROVE  DInv'
<1>1. PICK c \in Cmds : /\ BeginUpdate(c) /\ issued' = [issued EXCEPT ![next_id] = c]
                        /\ UNCHANGED part
  BY DEF NewUpdate
<1>2. CInv /\ CInv'
  BY <1>1, BeginUpdateStep DEF DInv
<1>3. /\ next_id \in Ids /\ next_id \in Nat /\ clog.next \in Nat /\ ~(next_id < clog.next)
      /\ clog'.next = next_id + 1
  BY <1>1, <1>2, BeginUpdateLogs
<1>4. /\ pc'[Worker] = "prepare" /\ req'[Worker] = next_id /\ cmd' = c /\ answer' = answer
      /\ decided' = decided
  BY <1>1, <1>2 DEF BeginUpdate, Goto, CInv, CTypeOK, Threads
<1>5. /\ issued \in [Ids -> Cmds \cup {NoCmd}] /\ issued' \in [Ids -> Cmds \cup {NoCmd}]
      /\ issued'[next_id] = c /\ \A i \in Ids : i # next_id => issued'[i] = issued[i]
  BY <1>1, <1>3 DEF DInv, ClientInv
<1>6. \A q \in P, i \in Ids : Asked(q, i) => i # next_id /\ Asked(q, i)'
  <2> SUFFICES ASSUME NEW q \in P, NEW i \in Ids, Asked(q, i) PROVE i # next_id /\ Asked(q, i)'
    OBVIOUS
  <2>1. i < clog.next /\ i \in Nat
    BY MaxIdAssumption DEF Asked, Ids
  <2>2. i # next_id /\ i < clog'.next
    BY <1>3, <2>1
  <2> QED
    BY <1>4, <2>2 DEF Asked
<1>7. \A q \in P : Untouched(q, next_id)
  BY <1>3, <1>6 DEF DInv, StoreInv
<1>8. \A q \in P, i \in Ids : Untouched(q, i)' <=> Untouched(q, i)
  BY <1>1 DEF Untouched
<1>9. PTypeOK' /\ StoreInv'
  BY <1>1, <1>6, <1>8 DEF DInv, PTypeOK, StoreInv
<1>10. CallInv'
  <2> SUFFICES ASSUME NEW q \in P, NEW k \in part[q].inbox
               PROVE  /\ k.op = "PREPARE" => k.cmd = issued'[k.id] /\ Asked(q, k.id)' /\ Untouched(q, k.id)'
                      /\ k.op = "COMMIT" => decided'[k.id] = {"COMMIT"}
    BY <1>1 DEF CallInv
  <2>1. k \in Calls
    BY Fields DEF DInv, PTypeOK
  <2>2. k.op = "PREPARE" => k.id \in Ids
    BY <2>1, CallCases
  <2> QED
    BY <1>4, <1>5, <1>6, <1>8, <2>2 DEF DInv, CallInv
<1>11. AppliedIsCommitted' /\ AppliedOnce' /\ AnswerMatchesStores'
  BY <1>1, <1>4 DEF DInv, AppliedIsCommitted, AppliedOnce, AnswerMatchesStores
<1>12. RightCommand'
  BY <1>1, <1>5, <1>7 DEF DInv, RightCommand, Untouched
<1>13. ClientInv'
  BY <1>4, <1>5 DEF ClientInv
<1> QED
  BY <1>2, <1>9, <1>10, <1>11, <1>12, <1>13 DEF DInv

(* The coordinator dies: its connections are closed. *)
LEMMA CoordinatorCrashStep ==
  ASSUME DInv, CoordinatorCrash
  PROVE  DInv'
<1>1. /\ CrashCoordinator /\ UNCHANGED issued
      /\ part' = [p \in P |-> [part[p] EXCEPT !.sessions = {}]]
  BY DEF CoordinatorCrash
<1>2. CInv /\ CInv'
  BY <1>1, CrashCoordinatorStep DEF DInv
<1>3. Keeps /\ Tells
  BY <1>1, <1>2, OthersRest
<1>4. \A q \in P : part'[q] \in States /\ Same(part[q], part'[q])
  <2> SUFFICES ASSUME NEW q \in P PROVE part'[q] \in States /\ Same(part[q], part'[q])
    OBVIOUS
  <2>1. part[q] \in States
    BY DEF DInv, PTypeOK
  <2>2. PICK x \in SUBSET {"member", "beat"} : x = {}
    OBVIOUS
  <2>3. PICK t \in States : t = [part[q] EXCEPT !.sessions = x] /\ Same(part[q], t)
    BY <2>1, SmallChanges
  <2>4. part'[q] = t
    BY <1>1, <2>2, <2>3
  <2> QED
    BY <2>3, <2>4
<1>5. PTypeOK'
  <2>1. part' = [q \in P |-> part'[q]]
    BY <1>1
  <2> QED
    BY <1>4, <2>1 DEF PTypeOK
<1>6. Stores' /\ Grows
  BY <1>1, <1>2, <1>3, <1>4, <1>5, StoresStay
<1> QED
  BY <1>1, <1>2, <1>3, <1>6, Together

(* A step of the worker. *)
LEMMA WorkerRunsStep ==
  ASSUME DInv, WorkerRuns
  PROVE  DInv'
<1>0. CInv /\ Worker \in Threads
  BY DEF DInv, Threads
<1>1. CASE Commit(Worker) /\ UNCHANGED issued
  BY <1>0, <1>1, CommitCallStep
<1>2. CASE Abort(Worker) /\ UNCHANGED issued
  BY <1>0, <1>2, AbortCallStep
<1>3. CASE Prepare /\ UNCHANGED issued
  BY <1>3, PrepareCallStep
<1>4. CASE Get /\ UNCHANGED issued
  <2>1. PICK p \in P, r \in Outcomes : GetReturns(p, r) /\ UNCHANGED part
    BY <1>4 DEF Get, Ask
  <2>2. CInv' /\ Keeps /\ UNCHANGED answer
    BY <1>0, <2>1, GetReturnsStep, LoopKeeps
  <2>3. Tells
    <3>1. pc[Worker] = "get" /\ pc'[Worker] \in {"get", "idle"}
      BY <1>0, <2>1 DEF GetReturns, Goto, CInv, CTypeOK
    <3> QED
      BY <2>2, <3>1 DEF Tells
  <2> QED
    BY <1>4, <2>1, <2>2, <2>3, StoresUnchanged, Together
<1>5. CASE (CommitEnd(Worker) \/ AbortEnd(Worker)) /\ UNCHANGED <<part, issued>>
  <2>1. CInv' /\ Keeps /\ Tells
    BY <1>0, <1>5, CommitEndStep, AbortEndStep, EndRests
  <2> QED
    BY <1>5, <2>1, StoresUnchanged, Together
<1>6. CASE (PrepareEnd \/ PrepareAllDead) /\ UNCHANGED <<part, issued>>
  <2>1. CInv'
    BY <1>0, <1>6, PrepareEndStep, PrepareAllDeadStep
  <2>2. Keeps /\ Tells
    BY <1>0, <1>6, <2>1, PrepareEndRests
  <2> QED
    BY <1>6, <2>1, <2>2, StoresUnchanged, Together
<1> QED
  BY <1>1, <1>2, <1>3, <1>4, <1>5, <1>6 DEF WorkerRuns, Decide

(* The queries and the connections of the main thread. *)
LEMMA MainAsksStep ==
  ASSUME DInv, UNCHANGED issued, QueryInit \/ QueryJoin \/ Heartbeat \/ GetSnapshot \/ BeginUnfinished
  PROVE  DInv'
<1>0. CInv /\ cur \in P
  BY DEF DInv, CInv, CTypeOK
<1>1. ASSUME NEW session \in {"member", "beat"}, NEW r, AskNew(cur, session, r), CInv', Keeps, Tells
      PROVE  DInv'
  <2>1. Connect(cur, session) \/ UNCHANGED part
    BY <1>1 DEF AskNew
  <2> QED
    BY <1>0, <1>1, <2>1, ConnectStep, Together
<1>2. CASE QueryInit
  <2>1. PICK r \in Outcomes : InitNextReturns(r, part[cur].next_id) /\ AskNew(cur, "member", r)
    BY <1>2 DEF QueryInit
  <2>2. CInv' /\ Keeps /\ Tells
    BY <1>0, <2>1, InitNextReturnsStep, MainQueries
  <2> QED
    BY <1>1, <2>1, <2>2
<1>3. CASE QueryJoin
  <2>1. PICK r \in Outcomes : JoinNextReturns(r, part[cur].next_id) /\ UNCHANGED part
    BY <1>3 DEF QueryJoin, Ask
  <2>2. CInv' /\ Keeps /\ Tells
    BY <1>0, <2>1, JoinNextReturnsStep, MainQueries
  <2> QED
    BY <2>1, <2>2, StoresUnchanged, Together
<1>4. CASE Heartbeat
  <2>1. PICK r \in Outcomes : BeatReturns(r) /\ AskNew(cur, "beat", r)
    BY <1>4 DEF Heartbeat
  <2>2. CInv' /\ Keeps /\ Tells
    BY <1>0, <2>1, BeatReturnsStep, MainSets
  <2> QED
    BY <1>1, <2>1, <2>2
<1>5. CASE GetSnapshot
  <2>1. PICK p \in P, r \in Outcomes : SnapshotReturns(p, r, part[p].db) /\ UNCHANGED part
    BY <1>5 DEF GetSnapshot, Ask
  <2>2. part[p].db \in Dbs
    BY Fields DEF DInv, PTypeOK
  <2>3. CInv' /\ Keeps /\ Tells
    BY <1>0, <2>1, <2>2, SnapshotReturnsStep, MainMovesOn
  <2> QED
    BY <2>1, <2>3, StoresUnchanged, Together
<1>6. CASE BeginUnfinished
  <2>1. CopyRecords /\ (Connect(cur, "member") \/ UNCHANGED part)
    BY <1>6 DEF BeginUnfinished
  <2>2. CInv' /\ Keeps /\ Tells
    BY <1>0, <2>1, CopyRecordsStep, MainMovesOn
  <2>3. Stores' /\ Grows
    BY <1>0, <2>1, <2>2, ConnectStep
  <2> QED
    BY <2>2, <2>3, Together
<1> QED
  BY <1>2, <1>3, <1>4, <1>5, <1>6

(* The calls of the main thread that change a participant it recovers. *)
LEMMA MainCallsStep ==
  ASSUME DInv, UNCHANGED issued, SetNextIdInit \/ SetNextIdJoin \/ Recover
  PROVE  DInv'
<1>0. CInv /\ cur \in P /\ next_id \in Nat /\ snapshot \in Dbs /\ del_keys \subseteq Keys
  BY DEF DInv, CInv, CTypeOK
<1>1. CASE SetNextIdInit \/ SetNextIdJoin
  <2>1. PICK m : m = [op |-> "SET_NEXT_ID", val |-> next_id]
    OBVIOUS
  <2>2. m \in Calls /\ m.op = "SET_NEXT_ID"
    BY <1>0, <2>1 DEF Calls
  <2>3. PICK r, session : /\ InitSetReturns(r) \/ JoinSetReturns(r) \/ RecoverSetReturns(r)
                          /\ Rpc(cur, session, m, r)
    BY <1>1, <2>1 DEF SetNextIdInit, SetNextIdJoin
  <2>4. CInv' /\ Keeps /\ Tells
    BY <1>0, <2>3, InitSetReturnsStep, JoinSetReturnsStep, RecoverSetReturnsStep, MainSets
  <2> QED
    BY <1>0, <2>2, <2>3, <2>4, OtherCallStep
<1>2. CASE Recover
  <2>1. PICK m : m = [op |-> "RECOVER", data |-> snapshot, del_keys |-> del_keys]
    OBVIOUS
  <2>2. m \in Calls /\ m.op = "RECOVER"
    BY <1>0, <2>1 DEF Calls
  <2>3. PICK r : RecoverReturns(r) /\ Rpc(cur, "beat", m, r)
    BY <1>2, <2>1 DEF Recover
  <2>4. CInv' /\ Keeps /\ Tells
    BY <1>0, <2>3, RecoverReturnsStep, MainSets
  <2> QED
    BY <1>0, <2>2, <2>3, <2>4, OtherCallStep
<1> QED
  BY <1>1, <1>2

(* A step of the main thread. *)
LEMMA MainRunsStep ==
  ASSUME DInv, MainRuns
  PROVE  DInv'
<1>0. CInv /\ Main \in Threads /\ UNCHANGED issued
  BY DEF DInv, Threads, MainRuns
<1>1. CASE Commit(Main) \/ Abort(Main)
  BY <1>0, <1>1, CommitCallStep, AbortCallStep
<1>2. CASE QueryInit \/ QueryJoin \/ Heartbeat \/ GetSnapshot \/ BeginUnfinished
  BY <1>0, <1>2, MainAsksStep
<1>3. CASE SetNextIdInit \/ SetNextIdJoin \/ Recover
  BY <1>0, <1>3, MainCallsStep
<1>4. CASE /\ \/ CommitEnd(Main) \/ AbortEnd(Main) \/ (\E id \in Ids : Resolve(id))
              \/ UnfinishedEnd \/ Drop \/ Join \/ Wait
           /\ UNCHANGED part
  <2>1. CInv'
    BY <1>0, <1>4, CommitEndStep, AbortEndStep, ResolveStep, UnfinishedEndStep, DropStep, JoinStep, WaitStep
  <2>2. Keeps /\ Tells
    BY <1>0, <1>4, <2>1, EndRests, ResolveRests, MainMovesOn
  <2> QED
    BY <1>0, <1>4, <2>1, <2>2, StoresUnchanged, Together
<1> QED
  BY <1>1, <1>2, <1>3, <1>4 DEF MainRuns

-----------------------------------------------------------------------------
(* The theorems.                                                           *)

\* The state a participant starts from.
FirstState == [status |-> "up", next_id |-> InitNext, db_requests |-> NoRequests, null |-> FALSE,
               log |-> EmptyLog(InitNext), db |-> InitDb, sessions |-> {}, inbox |-> {},
               applied |-> [i \in Ids |-> 0]]

(* ... is one. *)
LEMMA FirstStateType ==
  /\ FirstState \in States /\ FirstState.db_requests = NoRequests /\ FirstState.inbox = {}
  /\ FirstState.applied = [i \in Ids |-> 0]
<1>1. PICK l \in Logs : l = EmptyLog(InitNext)
  BY InitNextAssumption DEF EmptyLog, Logs, Records, NoRecords
<1>2. PICK reqs \in [Ids -> Cmds \cup {NoCmd}] : reqs = NoRequests
  BY DEF NoRequests
<1>3. PICK a \in [Ids -> Nat] : a = [i \in Ids |-> 0]
  OBVIOUS
<1>4. InitDb \in Dbs /\ InitNext \in Nat
  BY ParticipantAssumption, InitNextAssumption
<1>5. [status |-> "up", next_id |-> InitNext, db_requests |-> reqs, null |-> FALSE,
       log |-> l, db |-> InitDb, sessions |-> {}, inbox |-> {}, applied |-> a] \in States
  BY <1>4 DEF States
<1> QED
  BY <1>1, <1>2, <1>3, <1>5 DEF FirstState

(* The first start satisfies the invariant. *)
LEMMA InitDInv == Init => DInv
<1> SUFFICES ASSUME Init PROVE DInv
  OBVIOUS
<1>1. CInv /\ pc[Worker] = "idle" /\ answer = [i \in Ids |-> "none"]
  BY InitCInv DEF Init, CInit, Threads, Main, Worker
<1>2. PICK s \in States : /\ s = FirstState /\ s.db_requests = NoRequests /\ s.inbox = {}
                          /\ s.applied = [i \in Ids |-> 0]
  BY FirstStateType
<1>3. part = [p \in P |-> IF p \in InitUp THEN s ELSE Dead(s)]
  BY <1>2 DEF Init, PInit, FirstState
<1>4. \A p \in P : /\ part[p] \in States /\ part[p].db_requests = NoRequests /\ part[p].inbox = {}
                   /\ part[p].applied = [i \in Ids |-> 0]
  BY <1>2, <1>3, DeadState
<1>5. PTypeOK
  BY <1>3, <1>4 DEF PTypeOK
<1>6. \A p \in P, i \in Ids : Untouched(p, i) /\ part[p].applied[i] = 0 /\ part[p].db_requests[i] = NoCmd
  BY <1>4 DEF Untouched, NoRequests
<1>7. StoreInv /\ CallInv
  BY <1>4, <1>6 DEF StoreInv, CallInv
<1>8. AppliedIsCommitted /\ AppliedOnce /\ RightCommand
  BY <1>6 DEF AppliedIsCommitted, AppliedOnce, RightCommand
<1>9. AnswerMatchesStores /\ ClientInv
  BY <1>1 DEF AnswerMatchesStores, ClientInv, Init, Results
<1> QED
  BY <1>1, <1>5, <1>7, <1>8, <1>9 DEF DInv

(* Every step of the system keeps the invariant. *)
LEMMA NextDInv ==
  ASSUME ~EarlyClients, DInv, [Next]_vars
  PROVE  DInv'
<1>0. CInv
  BY DEF DInv
<1>1. CASE UNCHANGED vars
  <2>1. UNCHANGED <<cvars, part, issued>>
    BY <1>1 DEF vars
  <2>2. CInv' /\ Keeps /\ Tells
    BY <2>1, CoordinatorRests
  <2> QED
    BY <2>1, <2>2, StoresUnchanged, Together
<1>2. CASE NewGet \/ Boot
  <2>1. (BeginGet \/ StartCoordinator) /\ UNCHANGED <<part, issued>>
    BY <1>2 DEF NewGet, Boot
  <2>2. CInv' /\ Keeps /\ Tells
    BY <1>0, <2>1, BeginGetStep, StartCoordinatorStep, OthersRest
  <2> QED
    BY <2>1, <2>2, StoresUnchanged, Together
<1> QED
  BY <1>1, <1>2, WorkerRunsStep, MainRunsStep, NewUpdateStep, ParticipantRestartStep, LateCallStep,
     CoordinatorCrashStep, ParticipantCrashStep DEF Next

(* DInv holds in every reachable state of the store, for every number of    *)
(* participants, keys, values and requests and for every number of crashes, *)
(* kills and calls that arrive late.                                        *)
THEOREM StoresInductive == ~EarlyClients => (Spec => []DInv)
<1> SUFFICES ASSUME ~EarlyClients PROVE Spec => []DInv
  OBVIOUS
<1>1. Init => DInv
  BY InitDInv
<1>2. DInv /\ [Next]_vars => DInv'
  BY NextDInv
<1> QED
  BY <1>1, <1>2, PTL DEF Spec

(* Atomicity of the two-phase commit: a participant applies only what the   *)
(* coordinator committed, whatever calls arrive late.                       *)
THEOREM StoresAreAtomic == ~EarlyClients => (Spec => []AppliedIsCommitted)
<1> SUFFICES ASSUME ~EarlyClients PROVE Spec => []AppliedIsCommitted
  OBVIOUS
<1>1. DInv => AppliedIsCommitted
  BY DEF DInv
<1> QED
  BY <1>1, StoresInductive, PTL

(* A command is applied at most once by a participant, however often COMMIT *)
(* is repeated by handle_unfinished_records() or delivered late.            *)
THEOREM CommitIsIdempotent == ~EarlyClients => (Spec => []AppliedOnce)
<1> SUFFICES ASSUME ~EarlyClients PROVE Spec => []AppliedOnce
  OBVIOUS
<1>1. DInv => AppliedOnce
  BY DEF DInv
<1> QED
  BY <1>1, StoresInductive, PTL

(* A result sent to a client means that a participant applied its command,  *)
(* send_error() that none did or ever will.                                 *)
THEOREM ClientKnows == ~EarlyClients => (Spec => []AnswerMatchesStores)
<1> SUFFICES ASSUME ~EarlyClients PROVE Spec => []AnswerMatchesStores
  OBVIOUS
<1>1. DInv => AnswerMatchesStores
  BY DEF DInv
<1> QED
  BY <1>1, StoresInductive, PTL

(* What waits in db_requests_ under an id is the command the coordinator    *)
(* gave that id to.                                                         *)
THEOREM CommitFindsItsCommand == ~EarlyClients => (Spec => []RightCommand)
<1> SUFFICES ASSUME ~EarlyClients PROVE Spec => []RightCommand
  OBVIOUS
<1>1. DInv => RightCommand
  BY DEF DInv
<1> QED
  BY <1>1, StoresInductive, PTL

-----------------------------------------------------------------------------
(* One copy: the handlers.                                                 *)

\* A participant the coordinator may rely on: it is not ahead of n, and at n
\* it has the data d.
Fit(s, n, awaits, d) == Placed(s, n, awaits) /\ Holds(s, n, d)

(* The parts of a log. *)
LEMMA LogFields ==
  ASSUME NEW s \in States
  PROVE  /\ s.log.recs \in Records /\ s.log.next \in Nat /\ s.next_id \in Nat
         /\ PendingIds(s) = {} <=> \A i \in Ids : s.log.recs[i] = NoRecord
BY DEF States, Logs, PendingIds

(* What a dead process leaves. *)
LEMMA DeadParts ==
  ASSUME NEW s \in States
  PROVE  /\ Dead(s).status = "down" /\ Dead(s).next_id = 0 /\ Dead(s).sessions = {} /\ Dead(s).inbox = {}
         /\ Dead(s).db = s.db /\ Dead(s).log.recs = s.log.recs /\ Dead(s).log.next = s.log.next
         /\ PendingIds(Dead(s)) = PendingIds(s)
<1>1. Dead(s) = [s EXCEPT !.status = "down", !.next_id = 0, !.db_requests = NoRequests, !.null = FALSE,
                     !.log = [s.log EXCEPT !.mem = {}], !.sessions = {}, !.inbox = {}]
  BY DEF Dead, States, Logs
<1>2. /\ Dead(s).status = "down" /\ Dead(s).next_id = 0 /\ Dead(s).sessions = {} /\ Dead(s).inbox = {}
      /\ Dead(s).db = s.db /\ Dead(s).log = [s.log EXCEPT !.mem = {}]
  BY <1>1 DEF States
<1>3. Dead(s).log.recs = s.log.recs /\ Dead(s).log.next = s.log.next
  BY <1>2 DEF States, Logs
<1> QED
  BY <1>2, <1>3 DEF PendingIds

(* A log that is fit stays fit when its process dies. *)
LEMMA DeadFit ==
  ASSUME NEW s \in States, NEW n \in Nat, NEW awaits \in BOOLEAN, NEW d, n # 0,
         s.log.next <= n, awaits => s.log.next < n,
         \A i \in Ids : s.log.recs[i] # NoRecord => i < n,
         PendingIds(s) = {} /\ s.log.next = n => s.db = d
  PROVE  Fit(Dead(s), n, awaits, d)
<1>1. s.log.next \in Nat
  BY LogFields
<1>2. Placed(Dead(s), n, awaits)
  BY <1>1, DeadParts DEF Placed
<1>3. Holds(Dead(s), n, d)
  BY DeadParts DEF Holds
<1> QED
  BY <1>2, <1>3 DEF Fit

(* ... whatever state it dies in. *)
LEMMA FitDies ==
  ASSUME NEW s \in States, NEW n \in Nat, NEW awaits \in BOOLEAN, NEW d, n # 0, Fit(s, n, awaits, d)
  PROVE  Fit(Dead(s), n, awaits, d)
<1>1. /\ s.log.next <= n /\ (awaits => s.log.next < n)
      /\ \A i \in Ids : s.log.recs[i] # NoRecord => i < n
  BY DEF Fit, Placed
<1>2. PendingIds(s) = {} /\ s.log.next = n => s.db = d
  BY DEF Fit, Holds
<1> QED
  BY <1>1, <1>2, DeadFit

(* The record that is logged. *)
LEMMA LogParts ==
  ASSUME NEW l \in Logs, NEW status, NEW id \in Ids, NEW nx
  PROVE  /\ LogRecord(l, status, id, nx).next = nx
         /\ status \notin Done => /\ LogRecord(l, status, id, nx).recs[id] = status
                                  /\ \A i \in Ids : i # id => LogRecord(l, status, id, nx).recs[i] = l.recs[i]
         /\ status \in Done => LogRecord(l, status, id, nx).recs[id] = NoRecord
         /\ \A i \in Ids : LogRecord(l, status, id, nx).recs[i] # NoRecord => i = id \/ l.recs[i] # NoRecord
<1>1. l.recs \in [Ids -> Pending \cup {NoRecord}]
  BY DEF Logs, Records
<1> DEFINE m == IF status \in Done THEN l.mem \ {id} ELSE l.mem \cup {id}
           f == [l.recs EXCEPT ![id] = IF status \in Done THEN NoRecord ELSE status]
<1>2. LogRecord(l, status, id, nx) = [recs |-> IF status \in Done /\ m = {} THEN NoRecords ELSE f,
                                      mem |-> m, next |-> nx]
  BY DEF LogRecord
<1>3. f[id] = (IF status \in Done THEN NoRecord ELSE status) /\ \A i \in Ids : i # id => f[i] = l.recs[i]
  BY <1>1
<1>4. \A i \in Ids : NoRecords[i] = NoRecord
  BY DEF NoRecords
<1> HIDE DEF m, f
<1> QED
  BY <1>2, <1>3, <1>4

(* A state of which the handlers changed these fields. *)
LEMMA ChangedParts ==
  ASSUME NEW s \in States, NEW n, NEW reqs, NEW b, NEW l, NEW d, NEW a
  PROVE  LET t == Changed(s, n, reqs, b, l, d, a) IN
         /\ t.next_id = n /\ t.log = l /\ t.db = d
         /\ t.status = s.status /\ t.sessions = s.sessions /\ t.inbox = s.inbox
BY DEF Changed, States

(* PREPARE changes the log only, and leaves next_id_ in it. *)
LEMMA PrepareFit ==
  ASSUME NEW s \in States, NEW n \in Nat, NEW d, NEW id \in Ids, NEW c \in Cmds, id < n, n # 0,
         Fit(s, n, TRUE, d), NEW o \in HandlePrepare(s, id, c)
  PROVE  Fit(o.state, n, TRUE, d) /\ o.state.db = s.db /\ o.state \in States
<1>1. PICK l \in Logs : l = LogRecord(s.log, "PREPARED", id, s.next_id)
  BY Fields, LogType DEF Pending
<1> DEFINE logged == [s EXCEPT !.log = LogRecord(@, "PREPARED", id, s.next_id)]
           t      == [logged EXCEPT !.db_requests[id] = IF @ = NoCmd THEN c ELSE @]
<1>2. \/ o = [state |-> Dead(logged), ret |-> "exception"] \/ o = [state |-> t, ret |-> "true"]
      \/ o = [state |-> s, ret |-> "false"] \/ o = [state |-> logged, ret |-> "false"]
  BY DEF HandlePrepare, Dies, Outcome
<1>3. s.next_id \in Nat /\ s.log \in Logs /\ s.log.next \in Nat /\ id \in Nat
  BY Fields, LogFields, MaxIdAssumption DEF Ids
<1>4. l.next = s.next_id /\ l.recs[id] = "PREPARED"
      /\ \A i \in Ids : l.recs[i] # NoRecord => i = id \/ s.log.recs[i] # NoRecord
  <2>1. "PREPARED" \notin Done
    BY DEF Done
  <2>2. l.next = s.next_id /\ l.recs[id] = "PREPARED"
    BY <1>1, <1>3, <2>1, LogParts
  <2>3. \A i \in Ids : l.recs[i] # NoRecord => i = id \/ s.log.recs[i] # NoRecord
    BY <1>1, <1>3, <2>1, LogParts
  <2> QED
    BY <2>2, <2>3
<1>5. ASSUME NEW x \in States, x.log = l, x.next_id = s.next_id, x.db = s.db, x.status = s.status,
             x.sessions = s.sessions, x.inbox = s.inbox
      PROVE  Fit(x, n, TRUE, d)
  <2>1. x.log.next < n /\ x.next_id < n
    BY <1>3, <1>4, <1>5 DEF Fit, Placed
  <2>2. PendingIds(x) # {}
    BY <1>4, <1>5 DEF PendingIds, NoRecord
  <2>3. \A i \in Ids : x.log.recs[i] # NoRecord => i < n
    BY <1>4, <1>5 DEF Fit, Placed
  <2>4. Placed(x, n, TRUE)
    BY <1>3, <1>4, <1>5, <2>1, <2>2, <2>3 DEF Fit, Placed
  <2>5. Holds(x, n, d)
    BY <1>3, <1>4, <1>5, <2>1 DEF Holds
  <2> QED
    BY <2>4, <2>5 DEF Fit
<1>6. /\ logged \in States /\ logged.log = l /\ logged.next_id = s.next_id /\ logged.db = s.db
      /\ logged.status = s.status /\ logged.sessions = s.sessions /\ logged.inbox = s.inbox
      /\ logged.db_requests \in [Ids -> Cmds \cup {NoCmd}]
  BY <1>1 DEF States
<1> DEFINE reqs == [logged.db_requests EXCEPT ![id] = IF @ = NoCmd THEN c ELSE @]
<1>7. reqs \in [Ids -> Cmds \cup {NoCmd}]
  BY <1>6
<1>8. t = [logged EXCEPT !.db_requests = reqs]
  BY <1>6 DEF States
<1> HIDE DEF reqs, logged
<1>9. /\ t \in States /\ t.log = l /\ t.next_id = s.next_id /\ t.db = s.db
      /\ t.status = s.status /\ t.sessions = s.sessions /\ t.inbox = s.inbox
  BY <1>6, <1>7, <1>8 DEF States
<1> HIDE DEF t
<1>10. Fit(logged, n, TRUE, d) /\ Fit(t, n, TRUE, d)
  BY <1>5, <1>6, <1>9
<1>11. Fit(Dead(logged), n, TRUE, d) /\ Dead(logged).db = s.db /\ Dead(logged) \in States
  BY <1>6, <1>10, FitDies, DeadParts, DeadState
<1>12. o.state \in {Dead(logged), t, s, logged}
  BY <1>2
<1> QED
  BY <1>6, <1>9, <1>10, <1>11, <1>12

(* COMMIT of the last id: the participant applies the command and is at n, *)
(* or it throws and nothing of it changes but its death.                   *)
LEMMA CommitFit ==
  ASSUME NEW s \in States, NEW n \in Nat, NEW id \in Ids, id + 1 = n, NEW c \in Cmds,
         s.db_requests[id] \in {NoCmd, c},
         Fit(s, n, TRUE, Apply(s.db, c)), NEW o \in HandleCommit(s, id)
  PROVE  /\ Fit(o.state, n, FALSE, Apply(s.db, c))
         /\ o.state.db = Apply(s.db, c) \/ (o.ret = "exception" /\ o.state.db = s.db)
<1>9. PICK d \in Dbs : d = Apply(s.db, c)
  BY Fields, ApplyType
<1>0. /\ s.next_id \in Nat /\ s.log \in Logs /\ s.log.next \in Nat /\ id \in Nat /\ n # 0
      /\ s.next_id < n /\ s.log.next < n /\ s.next_id <= id
  <2>1. s.next_id \in Nat /\ s.log \in Logs /\ s.log.next \in Nat /\ id \in Nat
    BY Fields, LogFields, MaxIdAssumption DEF Ids
  <2>2. s.next_id < n /\ s.log.next < n
    BY DEF Fit, Placed
  <2> QED
    BY <2>1, <2>2
<1> DEFINE k == CommitLogged(s, id)
           t == [k EXCEPT !.db = Apply(@, s.db_requests[id]), !.applied[id] = @ + 1,
                          !.log = LogRecord(@, "COMMIT_DONE", id, s.next_id + 1),
                          !.db_requests[id] = NoCmd]
<1>1. \/ s.next_id > id
      \/ o \in Dies(s)
      \/ s.next_id = id /\ IsBegin(s, id) /\ o = Outcome(t, Result(s.db, s.db_requests[id]))
  <2>1. ~(s.next_id < id) /\ ~(s.next_id > id) => s.next_id = id
    BY <1>0
  <2> HIDE DEF t
  <2>2. CASE s.next_id < id \/ ~IsBegin(s, id)
    BY <2>2 DEF HandleCommit
  <2>3. CASE ~(s.next_id < id \/ ~IsBegin(s, id))
    BY <2>1, <2>3 DEF HandleCommit, t
  <2> QED
    BY <2>2, <2>3
<1>2. ~(s.next_id > id)
  BY <1>0
<1>3. CASE o \in Dies(s)
  <2>1. o.state = Dead(s) /\ o.ret = "exception"
    BY <1>3 DEF Dies, Outcome
  <2>2. Fit(Dead(s), n, FALSE, d) /\ Dead(s).db = s.db
    BY <1>0, <1>9, DeadFit, DeadParts DEF Fit, Placed, Holds
  <2> QED
    BY <1>9, <2>1, <2>2
<1>4. CASE s.next_id = id /\ IsBegin(s, id) /\ o = Outcome(t, Result(s.db, s.db_requests[id]))
  <2>1. s.db_requests[id] = c
    BY <1>4 DEF IsBegin
  <2>2. PICK l \in Logs : l = LogRecord(s.log, "COMMIT", id, s.next_id)
    BY <1>0, LogType DEF Pending
  <2>3. k \in States /\ k.log = l /\ k.db = s.db /\ k.next_id = n
        /\ k.status = s.status /\ k.sessions = s.sessions /\ k.inbox = s.inbox
    <3>1. k \in States /\ k.db = s.db
      BY CommitLoggedState
    <3>2. k.log = l /\ k.next_id = s.next_id + 1
          /\ k.status = s.status /\ k.sessions = s.sessions /\ k.inbox = s.inbox
      BY <2>2 DEF CommitLogged, States
    <3> QED
      BY <1>4, <3>1, <3>2
  <2>0. s.next_id + 1 = n
    BY <1>4
  <2>4. PICK e \in Logs : e = LogRecord(l, "COMMIT_DONE", id, n)
    BY <1>0, LogType DEF Done
  <2> HIDE DEF k
  <2>5. t.log = e /\ t.db = d /\ t.next_id = n
        /\ t.status = s.status /\ t.sessions = s.sessions /\ t.inbox = s.inbox
    BY <1>9, <2>0, <2>1, <2>3, <2>4 DEF States
  <2>6. /\ e.next = n
        /\ \A i \in Ids : e.recs[i] # NoRecord => i = id \/ s.log.recs[i] # NoRecord
    <3>1. \A i \in Ids : l.recs[i] # NoRecord => i = id \/ s.log.recs[i] # NoRecord
      <4>1. "COMMIT" \notin Done
        BY DEF Done
      <4> QED
        BY <1>0, <2>2, <4>1, LogParts
    <3>2. e.next = n /\ \A i \in Ids : e.recs[i] # NoRecord => i = id \/ l.recs[i] # NoRecord
      <4>1. "COMMIT_DONE" \in Done
        BY DEF Done
      <4> QED
        BY <2>4, <4>1, LogParts
    <3> QED
      BY <3>1, <3>2
  <2>7. o.state = t
    BY <1>4 DEF Outcome
  <2> HIDE DEF t
  <2>8. Placed(t, n, FALSE)
    <3>1. \A i \in Ids : t.log.recs[i] # NoRecord => i < n
      BY <1>0, <2>5, <2>6 DEF Fit, Placed
    <3> QED
      BY <1>0, <2>5, <2>6, <3>1 DEF Fit, Placed
  <2>9. Holds(t, n, d)
    BY <2>5 DEF Holds
  <2> QED
    BY <1>9, <2>5, <2>7, <2>8, <2>9 DEF Fit
<1> QED
  BY <1>1, <1>2, <1>3, <1>4

(* A participant that is killed in COMMIT is left at the id, with the      *)
(* command not, partly or fully applied, or past it with the command.      *)
LEMMA KilledInCommitFit ==
  ASSUME NEW s \in States, NEW n \in Nat, NEW d \in Dbs, NEW id \in Ids, id + 1 = n, NEW c \in Cmds,
         s.db_requests[id] \in {NoCmd, c},
         Fit(s, n, TRUE, d), d = Apply(s.db, c), NEW t \in KilledInCommit(s, id)
  PROVE  /\ Fit(t, n, FALSE, d)
         /\ t.db \in {s.db, d} \/ t.db \in PartlyApplied(s.db, c)
<1>0. /\ s.next_id \in Nat /\ s.log \in Logs /\ s.log.next \in Nat /\ id \in Nat /\ n # 0
      /\ s.next_id < n /\ s.log.next < n /\ id < n
  <2>1. s.next_id \in Nat /\ s.log \in Logs /\ s.log.next \in Nat /\ id \in Nat
    BY Fields, LogFields, MaxIdAssumption DEF Ids
  <2>2. s.next_id < n /\ s.log.next < n
    BY DEF Fit, Placed
  <2> QED
    BY <2>1, <2>2
<1>1. s.next_id = id /\ IsBegin(s, id)
  BY DEF KilledInCommit
<1>2. s.db_requests[id] = c
  BY <1>1 DEF IsBegin
<1>3. PICK l \in Logs : l = LogRecord(s.log, "COMMIT", id, s.next_id)
  BY <1>0, LogType DEF Pending
<1>4. l.next = id /\ l.recs[id] = "COMMIT"
      /\ \A i \in Ids : l.recs[i] # NoRecord => i = id \/ s.log.recs[i] # NoRecord
  <2>1. "COMMIT" \notin Done
    BY DEF Done
  <2> QED
    BY <1>0, <1>1, <1>3, <2>1, LogParts
<1>5. ASSUME NEW x \in States, x.log = l PROVE Fit(Dead(x), n, FALSE, d)
  <2>1. x.log.next < n /\ PendingIds(x) # {}
    BY <1>0, <1>4, <1>5 DEF PendingIds, NoRecord
  <2>2. \A i \in Ids : x.log.recs[i] # NoRecord => i < n
    BY <1>0, <1>4, <1>5 DEF Fit, Placed
  <2>3. x.log.next <= n
    BY <1>0, <1>4, <1>5
  <2> QED
    BY <1>0, <2>1, <2>2, <2>3, DeadFit
<1> DEFINE k == CommitLogged(s, id)
<1>6. k \in States /\ k.log = l /\ k.db = s.db
  <2>1. k.log = l
    BY <1>3 DEF CommitLogged, States
  <2> QED
    BY <2>1, CommitLoggedState
<1>7. \/ t = Dead(k)
      \/ \E e \in PartlyApplied(s.db, c) : t = Dead([k EXCEPT !.db = e, !.applied[id] = @ + 1])
      \/ \E o \in HandleCommit(s, id) : t = Dead(o.state)
  BY <1>1, <1>2 DEF KilledInCommit
<1> HIDE DEF k
<1>8. CASE t = Dead(k)
  BY <1>5, <1>6, <1>8, DeadParts
<1>9. ASSUME NEW e \in PartlyApplied(s.db, c), t = Dead([k EXCEPT !.db = e, !.applied[id] = @ + 1])
      PROVE  Fit(t, n, FALSE, d) /\ t.db = e
  <2>1. e \in Dbs
    BY Fields, ApplyType
  <2>5. k.applied \in [Ids -> Nat]
    BY <1>6, Fields
  <2>2. PICK a \in [Ids -> Nat] : a = [k.applied EXCEPT ![id] = @ + 1]
    BY <2>5, Counted
  <2>3. [k EXCEPT !.db = e, !.applied[id] = @ + 1] = [k EXCEPT !.db = e, !.applied = a]
    BY <1>6, <2>2 DEF States
  <2>4. PICK x \in States : x = [k EXCEPT !.db = e, !.applied = a] /\ x.log = l /\ x.db = e
    <3>1. [k EXCEPT !.db = e, !.applied = a] = Changed(k, k.next_id, k.db_requests, k.null, k.log, e, a)
      BY <1>6 DEF Changed, States
    <3>2. /\ k.next_id \in Nat /\ k.db_requests \in [Ids -> Cmds \cup {NoCmd}] /\ k.null \in BOOLEAN
          /\ k.log \in Logs
      BY <1>6, Fields
    <3> QED
      BY <1>6, <2>1, <3>1, <3>2, ChangedState, ChangedParts
  <2> QED
    BY <1>5, <1>9, <2>3, <2>4, DeadParts
<1>10. ASSUME NEW o \in HandleCommit(s, id), t = Dead(o.state)
       PROVE  Fit(t, n, FALSE, d) /\ t.db \in {s.db, d}
  <2>1. Fit(o.state, n, FALSE, d) /\ o.state.db \in {s.db, d}
    <3>1. /\ Fit(o.state, n, FALSE, Apply(s.db, c))
          /\ o.state.db = Apply(s.db, c) \/ (o.ret = "exception" /\ o.state.db = s.db)
      BY CommitFit, ZenonT(30)
    <3> QED
      BY <3>1
  <2>2. o.state \in States
    <3>1. PICK m : m = [op |-> "COMMIT", id |-> id]
      OBVIOUS
    <3>2. Effect(s, m, o.state)
      BY <3>1, CommitEffect
    <3> QED
      BY <3>2 DEF Effect
  <2> QED
    BY <1>0, <1>10, <2>1, <2>2, FitDies, DeadParts
<1> QED
  BY <1>7, <1>8, <1>9, <1>10

(* ABORT of the last id: whatever the participant was at, it is at n now. *)
LEMMA AbortFit ==
  ASSUME NEW s \in States, NEW n \in Nat, NEW id \in Ids, id + 1 = n,
         Fit(s, n, TRUE, s.db), NEW o \in HandleAbort(s, id)
  PROVE  Fit(o.state, n, FALSE, s.db) /\ o.state.db = s.db
<1>0. /\ s.next_id \in Nat /\ s.log \in Logs /\ s.log.next \in Nat /\ id \in Nat /\ n # 0
      /\ s.next_id < n /\ s.log.next < n /\ id < n /\ s.next_id + 1 <= n
  <2>1. s.next_id \in Nat /\ s.log \in Logs /\ s.log.next \in Nat /\ id \in Nat
    BY Fields, LogFields, MaxIdAssumption DEF Ids
  <2>2. s.next_id < n /\ s.log.next < n
    BY DEF Fit, Placed
  <2> QED
    BY <2>1, <2>2
<1>9. PICK nx \in Nat : nx = s.next_id + 1
  BY <1>0
<1>1. PICK l \in Logs : l = LogRecord(s.log, "ABORT_DONE", id, nx)
  BY <1>0, LogType DEF Done
<1>2. l.next = s.next_id + 1 /\ \A i \in Ids : l.recs[i] # NoRecord => i = id \/ s.log.recs[i] # NoRecord
  <2>1. "ABORT_DONE" \in Done
    BY DEF Done
  <2> QED
    BY <1>0, <1>1, <1>9, <2>1, LogParts
<1> DEFINE logged == [s EXCEPT !.log = LogRecord(@, "ABORT_DONE", id, s.next_id + 1)]
<1>3. /\ logged.log = l /\ logged.next_id = s.next_id /\ logged.db = s.db
      /\ logged.status = s.status /\ logged.sessions = s.sessions /\ logged.inbox = s.inbox
      /\ logged \in States
  BY <1>1, <1>9 DEF States
<1> DEFINE t == IF s.next_id # id
                THEN [logged EXCEPT !.next_id = IF id > @ THEN id + 1 ELSE @]
                ELSE [logged EXCEPT !.next_id = @ + 1, !.null = FALSE,
                                    !.db_requests = IF s.null THEN @ ELSE EraseBegin(@)]
<1>4. o.state = t
  BY DEF HandleAbort, Outcome
<1> HIDE DEF logged
<1>5. t.log = l /\ t.db = s.db /\ t.status = s.status /\ t.sessions = s.sessions /\ t.inbox = s.inbox
  BY <1>3 DEF States
<1>6. t.next_id = n
  <2>1. CASE s.next_id = id
    BY <1>3, <2>1 DEF States
  <2>2. CASE s.next_id # id
    <3>1. id > s.next_id
      BY <1>0, <2>2
    <3> QED
      BY <1>3, <2>2, <3>1 DEF States
  <2> QED
    BY <2>1, <2>2
<1> HIDE DEF t
<1>7. Placed(t, n, FALSE)
  <2>1. \A i \in Ids : t.log.recs[i] # NoRecord => i < n
    BY <1>0, <1>2, <1>5 DEF Fit, Placed
  <2> QED
    BY <1>0, <1>2, <1>5, <1>6, <2>1 DEF Fit, Placed
<1>8. Holds(t, n, s.db)
  BY <1>5 DEF Holds
<1> QED
  BY <1>4, <1>5, <1>7, <1>8 DEF Fit

(* SET_NEXT_ID brings the participant to n. *)
LEMMA SetNextIdFit ==
  ASSUME NEW s \in States, NEW n \in Nat, Placed(s, n, FALSE), NEW o \in HandleSetNextId(s, n)
  PROVE  Fit(o.state, n, FALSE, s.db) /\ o.state.db = s.db
<1> DEFINE t == [s EXCEPT !.next_id = n]
<1>1. o.state = t
  BY DEF HandleSetNextId, Outcome
<1>2. /\ t.next_id = n /\ t.log = s.log /\ t.db = s.db /\ t.status = s.status
      /\ t.sessions = s.sessions /\ t.inbox = s.inbox
  BY DEF States
<1>3. s.log.next \in Nat
  BY LogFields
<1> HIDE DEF t
<1>4. Placed(t, n, FALSE)
  BY <1>2, <1>3 DEF Placed
<1>5. Holds(t, n, s.db)
  BY <1>2 DEF Holds
<1> QED
  BY <1>1, <1>2, <1>4, <1>5 DEF Fit

(* With every stale key among the deleted ones, RECOVER makes the database *)
(* that of the snapshot; what it has done in between brings no key back.   *)
LEMMA RecoverKeys ==
  ASSUME NEW s \in States, NEW data \in Dbs, NEW ks,
         \A k \in Keys : data[k] = Nil /\ s.db[k] # Nil => k \in ks
  PROVE  /\ Overlaid(Deleted(s.db, ks), data) = data
         /\ \A d \in PartlyRecovered(s, data, ks), k \in Keys : data[k] = Nil /\ d[k] # Nil => s.db[k] # Nil
<1> DEFINE e == Deleted(s.db, ks)
<1>3. \A k \in Keys : Overlaid(e, data)[k] = IF data[k] = Nil THEN e[k] ELSE data[k]
  BY DEF Overlaid
<1>4. \A k \in Keys : Overlaid(e, data)[k] = data[k]
  <2> SUFFICES ASSUME NEW k \in Keys PROVE Overlaid(e, data)[k] = data[k]
    OBVIOUS
  <2>1. e[k] = IF k \in ks THEN Nil ELSE s.db[k]
    BY DEF Deleted
  <2> QED
    BY <1>3, <2>1
<1>5. Overlaid(e, data) = data
  <2>1. Overlaid(e, data) = [k \in Keys |-> Overlaid(e, data)[k]] /\ data = [k \in Keys |-> data[k]]
    BY DEF Overlaid, Dbs
  <2> QED
    BY <1>4, <2>1
<1>6. ASSUME NEW d \in PartlyRecovered(s, data, ks), NEW k \in Keys, data[k] = Nil, d[k] # Nil
      PROVE  s.db[k] # Nil
  <2>1. PICK js : d = [i \in Keys |-> IF i \in js THEN Overlaid(e, data)[i] ELSE e[i]]
    BY DEF PartlyRecovered
  <2>2. d[k] = IF k \in js THEN Overlaid(e, data)[k] ELSE e[k]
    BY <2>1
  <2>3. e[k] # Nil
    BY <1>3, <1>6, <2>2
  <2> QED
    BY <2>3 DEF Deleted
<1> QED
  BY <1>5, <1>6

(* Who is not at n yet may die with any data; a log without a pending      *)
(* record is not ahead of the memory.                                      *)
LEMMA NotThereFit ==
  ASSUME NEW s \in States, NEW n \in Nat, NEW d, n # 0, Placed(s, n, FALSE), s.status = "up",
         s.next_id # n, NEW e \in Dbs
  PROVE  /\ Fit(Dead([s EXCEPT !.db = e]), n, FALSE, d) /\ Dead([s EXCEPT !.db = e]).db = e
         /\ Dead([s EXCEPT !.db = e]) \in States
<1>1. PICK x : x = [s EXCEPT !.db = e]
  OBVIOUS
<1>2. x \in States /\ x.log = s.log /\ x.db = e
  BY <1>1 DEF States
<1>3. s.next_id \in Nat /\ s.log.next \in Nat
  BY LogFields
<1>4. ~(PendingIds(s) = {} /\ s.log.next = n)
  BY <1>3 DEF Placed
<1>5. PendingIds(x) = PendingIds(s)
  BY <1>2 DEF PendingIds
<1>6. Fit(Dead(x), n, FALSE, d)
  <2>1. x.log.next <= n /\ ~(PendingIds(x) = {} /\ x.log.next = n)
    BY <1>2, <1>4, <1>5 DEF Placed
  <2>2. \A i \in Ids : x.log.recs[i] # NoRecord => i < n
    BY <1>2 DEF Placed
  <2> QED
    BY <1>2, <2>1, <2>2, DeadFit
<1> QED
  BY <1>1, <1>2, <1>6, DeadParts, DeadState

\* What RECOVER may make of s, with d the committed data.
Taken(s, o, n, d) ==
  /\ Fit(o.state, n, FALSE, d) /\ (o.ret = "ok" => o.state.db = d)
  /\ \A k \in Keys : d[k] = Nil /\ o.state.db[k] # Nil => s.db[k] # Nil

(* RECOVER. *)
LEMMA RecoverFit ==
  ASSUME NEW s \in States, NEW n \in Nat, NEW d \in Dbs, n # 0, Placed(s, n, FALSE), s.status = "up",
         s.next_id # n, NEW ks, \A k \in Keys : d[k] = Nil /\ s.db[k] # Nil => k \in ks,
         NEW o \in HandleRecover(s, d, ks)
  PROVE  Taken(s, o, n, d)
<1>1. CASE \A k \in Keys : Decodes(d, k)
  <2>1. o.state = [s EXCEPT !.db = d]
    <3>1. Overlaid(Deleted(s.db, ks), d) = d
      BY RecoverKeys
    <3>2. o = [state |-> [s EXCEPT !.db = Overlaid(Deleted(s.db, ks), d)], ret |-> "ok"]
      BY <1>1 DEF HandleRecover, Outcome
    <3> QED
      BY <3>1, <3>2
  <2> DEFINE t == [s EXCEPT !.db = d]
  <2>2. /\ t.next_id = s.next_id /\ t.log = s.log /\ t.db = d /\ t.status = s.status
        /\ t.sessions = s.sessions /\ t.inbox = s.inbox
    BY DEF States
  <2> HIDE DEF t
  <2>3. PendingIds(t) = PendingIds(s)
    BY <2>2 DEF PendingIds
  <2>4. Placed(t, n, FALSE) /\ Holds(t, n, d)
    BY <2>2, <2>3 DEF Placed, Holds
  <2> QED
    BY <2>1, <2>2, <2>4 DEF Taken, Fit, t
<1>2. CASE ~\A k \in Keys : Decodes(d, k)
  <2>1. PICK e \in PartlyRecovered(s, d, ks) : o \in Dies([s EXCEPT !.db = e])
    BY <1>2 DEF HandleRecover
  <2>2. e \in Dbs /\ \A k \in Keys : d[k] = Nil /\ e[k] # Nil => s.db[k] # Nil
    BY RecoveredDb, RecoverKeys
  <2>3. o.state = Dead([s EXCEPT !.db = e]) /\ o.ret = "exception"
    BY <2>1 DEF Dies, Outcome
  <2>4. Fit(o.state, n, FALSE, d) /\ o.state.db = e
    BY <2>2, <2>3, NotThereFit, ZenonT(30)
  <2> QED
    BY <2>2, <2>3, <2>4 DEF Taken
<1> QED
  BY <1>1, <1>2

(* A participant killed in RECOVER. *)
LEMMA KilledInRecoverFit ==
  ASSUME NEW s \in States, NEW n \in Nat, NEW d \in Dbs, n # 0, Placed(s, n, FALSE), s.status = "up",
         s.next_id # n, NEW ks, \A k \in Keys : d[k] = Nil /\ s.db[k] # Nil => k \in ks,
         NEW t \in KilledInRecover(s, d, ks)
  PROVE  /\ Fit(t, n, FALSE, d)
         /\ \A k \in Keys : d[k] = Nil /\ t.db[k] # Nil => s.db[k] # Nil
<1>1. PICK e : /\ t = Dead([s EXCEPT !.db = e])
               /\ \/ \E js : e = Deleted(s.db, js)
                  \/ e \in PartlyRecovered(s, d, ks)
  BY DEF KilledInRecover
<1>2. e \in Dbs
  BY <1>1, RecoveredDb, ApplyType, Fields
<1>3. \A k \in Keys : d[k] = Nil /\ e[k] # Nil => s.db[k] # Nil
  <2>1. ASSUME NEW js, e = Deleted(s.db, js), NEW k \in Keys, e[k] # Nil PROVE s.db[k] # Nil
    BY <2>1 DEF Deleted
  <2> QED
    BY <1>1, <2>1, RecoverKeys
<1> QED
  BY <1>1, <1>2, <1>3, NotThereFit

(* A participant that restarts is at the next_id of its log or at a        *)
(* pending id.                                                             *)
LEMMA RecoveredFit ==
  ASSUME NEW s \in States, NEW n \in Nat, NEW awaits \in BOOLEAN, NEW d, Fit(s, n, awaits, d),
         s.status = "down", n # 0
  PROVE  /\ Fit(Recovered(s), n, awaits, d) /\ Recovered(s).db = s.db /\ Recovered(s).sessions = {}
         /\ Fit([s EXCEPT !.status = "hung"], n, awaits, d) /\ [s EXCEPT !.status = "hung"].db = s.db
         /\ [s EXCEPT !.status = "hung"].sessions = {}
<1>1. s.log \in Logs /\ s.log.next \in Nat /\ s.next_id \in Nat /\ s.sessions = {}
  BY LogFields, Fields DEF Fit, Placed
<1> DEFINE x == IF PendingIds(s) = {} THEN s.log.next ELSE CHOOSE i \in PendingIds(s) : TRUE
           t == Recovered(s)
<1>2. (x = s.log.next /\ PendingIds(s) = {}) \/ x \in PendingIds(s)
  <2>1. CASE PendingIds(s) # {}
    <3>1. (CHOOSE i \in PendingIds(s) : TRUE) \in PendingIds(s)
      BY <2>1
    <3> QED
      BY <2>1, <3>1
  <2> QED
    BY <2>1
<1> HIDE DEF x
<1>3. \A i \in PendingIds(s) : i \in Nat /\ i < n
  BY MaxIdAssumption DEF PendingIds, Fit, Placed, Ids
<1>4. x \in Nat /\ x <= n /\ (awaits => x < n) /\ (x = n => PendingIds(s) = {} /\ s.log.next = n)
  BY <1>1, <1>2, <1>3 DEF Fit, Placed
<1>5. /\ t.next_id = x /\ t.log = [s.log EXCEPT !.mem = {}] /\ t.db = s.db /\ t.status = "up"
      /\ t.sessions = {} /\ t.inbox = s.inbox
  BY <1>1 DEF Recovered, States, Logs, x
<1>6. t.log.recs = s.log.recs /\ t.log.next = s.log.next
  BY <1>1, <1>5 DEF Logs
<1> HIDE DEF t
<1>7. PendingIds(t) = PendingIds(s)
  BY <1>6 DEF PendingIds
<1>8. Placed(t, n, awaits)
  <2>1. PendingIds(s) = {} => s.log.next <= x
    BY <1>1, <1>2
  <2> QED
    BY <1>1, <1>4, <1>5, <1>6, <1>7, <2>1 DEF Fit, Placed
<1>9. Holds(t, n, d)
  BY <1>4, <1>5, <1>6, <1>7 DEF Fit, Holds
<1> DEFINE h == [s EXCEPT !.status = "hung"]
<1>10. /\ h.next_id = s.next_id /\ h.log = s.log /\ h.db = s.db /\ h.status = "hung"
       /\ h.sessions = {} /\ h.inbox = s.inbox
  BY <1>1 DEF States
<1> HIDE DEF h
<1>11. PendingIds(h) = PendingIds(s)
  BY <1>10 DEF PendingIds
<1>12. Placed(h, n, awaits) /\ Holds(h, n, d)
  BY <1>10, <1>11 DEF Fit, Placed, Holds
<1> QED
  BY <1>5, <1>8, <1>9, <1>10, <1>12 DEF Fit, t, h

-----------------------------------------------------------------------------
(* One participant changes, the others rest.                               *)

Counts == faults \in [timeout : Nat, kill : Nat, crash : Nat]

(* What the invariants say of the present state. *)
LEMMA CopyFacts ==
  ASSUME DInv, OneCopy
  PROVE  /\ clog.next \in Nat /\ clog.next # 0 /\ Worker \in Threads /\ Main \in Threads /\ cur \in P
         /\ pc[Main] # "down" => next_id = clog.next
         /\ \A q \in P : part[q] \in States /\ Fit(part[q], clog.next, Awaits(q), ledger)
         /\ pc[Worker] # "idle" => lock = Worker /\ pc[Main] \notin Locking
         /\ pc[Main] \in Locking \cup Updating \cup {"down"} => pc[Worker] = "idle"
         /\ \A q \in P : Awaits(q) \in BOOLEAN
<1>1. clog.next \in Nat /\ clog.next # 0 /\ Worker \in Threads /\ Main \in Threads /\ cur \in P
  BY DEF DInv, CInv, CTypeOK, Logs, OneCopy, NothingLeft, Threads
<1>2. pc[Main] # "down" => next_id = clog.next
  BY <1>1 DEF DInv, CInv, LogInv
<1>3. \A q \in P : part[q] \in States /\ Fit(part[q], clog.next, Awaits(q), ledger)
  BY DEF DInv, PTypeOK, OneCopy, PlaceInv, DataInv, Fit
<1>4. pc[Worker] # "idle" => lock = Worker /\ pc[Main] \notin Locking
  BY DEF DInv, CInv, LockInv, Main, Worker
<1>5. pc[Main] \in Locking \cup Updating \cup {"down"} => pc[Worker] = "idle"
  BY <1>4 DEF DInv, CInv, LockInv
<1>6. \A q \in P : Awaits(q) \in BOOLEAN
  BY DEF Awaits
<1> QED
  BY <1>1, <1>2, <1>3, <1>4, <1>5, <1>6

(* Who has been told the outcome need not be behind. *)
LEMMA FitLater ==
  ASSUME NEW s, NEW n, NEW a \in BOOLEAN, NEW b \in BOOLEAN, NEW d, Fit(s, n, a, d), b => a
  PROVE  Fit(s, n, b, d)
BY DEF Fit, Placed

(* Every participant is fit after the step of one. *)
LEMMA OneMoves ==
  ASSUME DInv, OneCopy, clog'.next = clog.next, UNCHANGED ledger, NEW p \in P, NEW t,
         part' = [part EXCEPT ![p] = t], Fit(t, clog.next, Awaits(p)', ledger),
         \A q \in P : q # p /\ Awaits(q)' => Awaits(q)
  PROVE  /\ PlaceInv' /\ DataInv' /\ part'[p] = t
         /\ \A q \in P : q # p => part'[q] = part[q]
<1>1. part'[p] = t /\ \A q \in P : q # p => part'[q] = part[q]
  BY DEF DInv, PTypeOK
<1>2. ASSUME NEW q \in P PROVE Fit(part'[q], clog'.next, Awaits(q)', ledger')
  <2>1. CASE q = p
    BY <1>1, <2>1
  <2>2. CASE q # p
    <3>1. Fit(part[q], clog.next, Awaits(q), ledger)
      BY CopyFacts
    <3>2. Awaits(q) \in BOOLEAN /\ Awaits(q)' \in BOOLEAN
      BY DEF Awaits
    <3>3. Fit(part[q], clog.next, Awaits(q)', ledger)
      BY <2>2, <3>1, <3>2, FitLater
    <3> QED
      BY <1>1, <2>2, <3>3
  <2> QED
    BY <2>1, <2>2
<1>3. PlaceInv'
  BY <1>2 DEF PlaceInv, Fit
<1>4. DataInv'
  BY <1>2 DEF DataInv, Fit, OneCopy
<1> QED
  BY <1>1, <1>3, <1>4

(* Nobody changes. *)
LEMMA NobodyMoves ==
  ASSUME DInv, OneCopy, clog'.next = clog.next, UNCHANGED <<part, ledger>>,
         \A q \in P : Awaits(q)' => Awaits(q)
  PROVE  PlaceInv' /\ DataInv'
<1>1. ASSUME NEW q \in P PROVE Fit(part'[q], clog'.next, Awaits(q)', ledger')
  <2>1. Fit(part[q], clog.next, Awaits(q), ledger)
    BY CopyFacts
  <2>2. Awaits(q) \in BOOLEAN /\ Awaits(q)' \in BOOLEAN
    BY DEF Awaits
  <2>3. Fit(part[q], clog.next, Awaits(q)', ledger)
    BY <2>1, <2>2, FitLater
  <2> QED
    BY <2>3
<1>2. PlaceInv'
  BY <1>1 DEF PlaceInv, Fit
<1>3. DataInv'
  BY <1>1 DEF DataInv, Fit, OneCopy
<1> QED
  BY <1>2, <1>3

(* A fault is counted. *)
LEMMA FaultCounts ==
  ASSUME Counts, NEW f \in {"timeout", "kill", "crash"}, Fault(f)
  PROVE  /\ Counts' /\ faults'[f] = faults[f] + 1 /\ faults'[f] # 0
         /\ \A g \in {"timeout", "kill", "crash"} : g # f => faults'[g] = faults[g]
<1>1. faults' = [faults EXCEPT ![f] = @ + 1]
  BY DEF Fault
<1>2. CASE f = "timeout"
  BY <1>1, <1>2 DEF Counts
<1>3. CASE f = "kill"
  BY <1>1, <1>3 DEF Counts
<1>4. CASE f = "crash"
  BY <1>1, <1>4 DEF Counts
<1> QED
  BY <1>2, <1>3, <1>4

(* Without timeouts a call is handled, or its participant is killed in it, *)
(* or it does not reach anybody.                                           *)
LEMMA CallOutcome ==
  ASSUME Counts, FailStop', NEW p \in P, NEW session, NEW m, NEW r, Rpc(p, session, m, r)
  PROVE  \/ /\ Live(p, session)
            /\ \E o \in Handle(part[p], m) : o.ret = r /\ part' = [part EXCEPT ![p] = o.state]
         \/ /\ Live(p, session) /\ r = "exception"
            /\ \E t \in Killed(part[p], m) : part' = [part EXCEPT ![p] = t]
         \/ r = "exception" /\ UNCHANGED part
<1>1. ~Fault("timeout")
  BY FaultCounts DEF FailStop
<1> QED
  BY <1>1 DEF Rpc, Execute, KilledIn

-----------------------------------------------------------------------------
(* The steps of the worker.                                                *)

(* Partly applied, a command brings no key back that its whole leaves out. *)
LEMMA PartlyKeys ==
  ASSUME NEW d \in Dbs, NEW c \in Cmds, NEW e, e = d \/ e \in PartlyApplied(d, c), NEW k \in Keys,
         Apply(d, c)[k] = Nil, e[k] # Nil
  PROVE  d[k] # Nil
<1>1. CASE e \in PartlyApplied(d, c) /\ c.type = "SET"
  BY <1>1 DEF PartlyApplied, Apply
<1>2. CASE e \in PartlyApplied(d, c) /\ c.type # "SET"
  BY <1>2 DEF PartlyApplied, Deleted
<1> QED
  BY <1>1, <1>2

(* The loop of an update goes on: what is left to show is the outcome of   *)
(* the call for the participant p that was called.                         *)
LEMMA LoopGoesOn ==
  ASSUME DInv, OneCopy, InUpdate, ~deserted', deserted' = (deserted \/ Deserted'), NEW p \in P, NEW t, NEW r,
         UNCHANGED <<clog, is_recovered, del_keys, pc, req, cmd, unfinished, issued, ledger>>,
         todo'[Worker] \subseteq todo[Worker],
         \A q \in P : q # p /\ q \in todo[Worker] => q \in todo'[Worker] \/ pc[Worker] = "prepare",
         participants' = IF r = "exception" THEN participants \ {p} ELSE participants,
         part' = [part EXCEPT ![p] = t], Fit(t, clog.next, Awaits(p)', ledger),
         r # "exception" => t.db = ledger /\ (pc[Worker] = "commit" => p \notin todo'[Worker]),
         \A k \in Keys : ledger[k] = Nil /\ t.db[k] # Nil => part[p].db[k] # Nil
  PROVE  OneCopy'
<1>1. \A q \in P : Awaits(q)' => Awaits(q)
  BY DEF Awaits
<1>2. /\ PlaceInv' /\ DataInv' /\ part'[p] = t
      /\ \A q \in P : q # p => part'[q] = part[q]
  BY <1>1, OneMoves
<1>3. InUpdate' /\ participants' # {} /\ participants' \subseteq participants /\ participants \subseteq P
  <2>1. InUpdate'
    BY DEF InUpdate
  <2>2. participants' # {}
    BY <2>1 DEF Deserted, InUpdate
  <2> QED
    BY <2>1, <2>2 DEF DInv, CInv, CTypeOK
<1>4. NothingLeft'
  BY <1>3 DEF OneCopy, NothingLeft, InUpdate
<1>5. MemberInv'
  <2> SUFFICES ASSUME NEW q \in participants'
               PROVE  IF pc[Worker] = "commit" /\ q \in todo'[Worker]
                      THEN Apply(part'[q].db, cmd) = ledger ELSE part'[q].db = ledger
    BY DEF MemberInv
  <2>1. q \in P /\ q \in participants
    BY <1>3
  <2>2. CASE q = p
    BY <1>2, <2>2
  <2>3. CASE q # p
    BY <1>2, <2>1, <2>3 DEF OneCopy, MemberInv
  <2> QED
    BY <2>2, <2>3
<1>6. DelInv'
  BY <1>2 DEF OneCopy, DelInv
<1>7. RecoverInv'
  <2>1. pc'[Main] \notin Locking
    BY CopyFacts DEF InUpdate
  <2> QED
    BY <2>1 DEF RecoverInv, Locking
<1> QED
  BY <1>2, <1>4, <1>5, <1>6, <1>7 DEF OneCopy

(* COMMIT: who answers has the update, who does not is a member no more. *)
LEMMA CommitCopy ==
  ASSUME DInv, DInv', OneCopy, Counts, FailStop', Commit(Worker), UNCHANGED <<issued, ledger>>,
         deserted' = (deserted \/ Deserted')
  PROVE  OneCopy'
<1>1. PICK p \in P, r \in Results \cup {"", "exception"} :
         /\ CommitReturns(Worker, p, r)
         /\ Rpc(p, "member", [op |-> "COMMIT", id |-> req[Worker]], r)
  BY DEF Commit
<1>2. PICK m : m = [op |-> "COMMIT", id |-> req[Worker]]
  OBVIOUS
<1>3. /\ pc[Worker] = "commit" /\ p \in todo[Worker] /\ todo'[Worker] = todo[Worker] \ {p}
      /\ participants' = IF r = "exception" THEN participants \ {p} ELSE participants
      /\ UNCHANGED <<clog, is_recovered, del_keys, pc, req, cmd, unfinished>>
  BY <1>1, CopyFacts DEF CommitReturns, Visited, Begin, recordVars, mainVars, DInv, CInv, CTypeOK
<1> DEFINE s == part[p]
           n == clog.next
           id == req[Worker]
<1>4. /\ p \in participants /\ id \in Ids /\ id + 1 = n /\ n \in Nat /\ n # 0 /\ cmd \in Cmds
      /\ cmd = issued[id] /\ Apply(s.db, cmd) = ledger /\ s \in States /\ s.db \in Dbs
      /\ ledger \in Dbs
  <2>1. p \in participants
    BY <1>3, CopyFacts DEF DInv, CInv, IteratorsValid
  <2>2. id \in Ids
    BY <1>3, CopyFacts DEF DInv, CInv, RequestInv
  <2>3. id + 1 = n /\ cmd \in Cmds /\ cmd = issued[id]
    BY <1>3 DEF OneCopy, NothingLeft, InUpdate
  <2>4. Apply(s.db, cmd) = ledger
    BY <1>3, <2>1 DEF OneCopy, MemberInv
  <2>5. ledger \in Dbs
    BY DEF OneCopy, DataInv
  <2> QED
    BY <2>1, <2>2, <2>3, <2>4, <2>5, CopyFacts, Fields
<1>5. Fit(s, n, TRUE, ledger)
  <2>1. Awaits(p) = TRUE
    BY <1>3 DEF Awaits
  <2>2. Fit(s, n, Awaits(p), ledger)
    BY CopyFacts
  <2> QED
    BY <2>1, <2>2
<1>6. s.db_requests[id] \in {NoCmd, cmd}
  BY <1>4 DEF DInv, RightCommand
<1>7. \E t : /\ part' = [part EXCEPT ![p] = t] /\ Fit(t, n, FALSE, ledger)
             /\ r # "exception" => t.db = ledger
             /\ \A k \in Keys : ledger[k] = Nil /\ t.db[k] # Nil => s.db[k] # Nil
  <2> HIDE DEF s, n, id
  <2>1. Rpc(p, "member", m, r)
    BY <1>1, <1>2
  <2>2. m.op = "COMMIT" /\ m.id = id
    BY <1>2 DEF id
  <2>3. ASSUME NEW o \in Handle(s, m), o.ret = r, part' = [part EXCEPT ![p] = o.state]
        PROVE  /\ Fit(o.state, n, FALSE, ledger) /\ (r # "exception" => o.state.db = ledger)
               /\ \A k \in Keys : ledger[k] = Nil /\ o.state.db[k] # Nil => s.db[k] # Nil
    <3>1. o \in HandleCommit(s, id)
      BY <2>2 DEF Handle
    <3>4. /\ Fit(o.state, n, FALSE, ledger)
          /\ o.state.db = ledger \/ (o.ret = "exception" /\ o.state.db = s.db)
      <4>1. Fit(s, n, TRUE, Apply(s.db, cmd))
        BY <1>4, <1>5
      <4>2. /\ Fit(o.state, n, FALSE, Apply(s.db, cmd))
            /\ o.state.db = Apply(s.db, cmd) \/ (o.ret = "exception" /\ o.state.db = s.db)
        BY <1>4, <1>6, <3>1, <4>1, CommitFit, ZenonT(30)
      <4> QED
        BY <1>4, <4>2
    <3> QED
      BY <2>3, <3>4
  <2>4. ASSUME NEW t \in Killed(s, m), r = "exception"
        PROVE  /\ Fit(t, n, FALSE, ledger)
               /\ \A k \in Keys : ledger[k] = Nil /\ t.db[k] # Nil => s.db[k] # Nil
    <3>1. t \in KilledInCommit(s, id)
      BY <2>2 DEF Killed
    <3>2. Fit(t, n, FALSE, ledger) /\ (t.db \in {s.db, ledger} \/ t.db \in PartlyApplied(s.db, cmd))
      BY <1>4, <1>5, <1>6, <3>1, KilledInCommitFit
    <3> QED
      BY <1>4, <3>2, PartlyKeys
  <2>5. ASSUME UNCHANGED part PROVE part' = [part EXCEPT ![p] = s] /\ Fit(s, n, FALSE, ledger)
    BY <1>5, <2>5, FitLater DEF DInv, PTypeOK, s
  <2>6. \/ \E o \in Handle(s, m) : o.ret = r /\ part' = [part EXCEPT ![p] = o.state]
        \/ r = "exception" /\ \E t \in Killed(s, m) : part' = [part EXCEPT ![p] = t]
        \/ r = "exception" /\ UNCHANGED part
    BY <2>1, CallOutcome DEF s
  <2>7. CASE \E o \in Handle(s, m) : o.ret = r /\ part' = [part EXCEPT ![p] = o.state]
    BY <2>3, <2>7
  <2>8. CASE r = "exception" /\ \E t \in Killed(s, m) : part' = [part EXCEPT ![p] = t]
    BY <2>4, <2>8
  <2>9. CASE r = "exception" /\ UNCHANGED part
    BY <2>5, <2>9
  <2> QED
    BY <2>6, <2>7, <2>8, <2>9
<1>8. PICK t : /\ part' = [part EXCEPT ![p] = t] /\ Fit(t, n, FALSE, ledger)
               /\ r # "exception" => t.db = ledger
               /\ \A k \in Keys : ledger[k] = Nil /\ t.db[k] # Nil => s.db[k] # Nil
  BY <1>7
<1>9. Awaits(p)' = FALSE
  BY <1>3 DEF Awaits
<1>10. Fit(t, clog.next, Awaits(p)', ledger)
  BY <1>8, <1>9
<1>11. InUpdate /\ ~deserted'
  BY <1>3 DEF InUpdate, FailStop
<1> QED
  BY <1>3, <1>8, <1>10, <1>11, LoopGoesOn

(* ABORT: who answers is at the coordinator's next_id_ with the old data. *)
LEMMA AbortCopy ==
  ASSUME DInv, DInv', OneCopy, Counts, FailStop', Abort(Worker), UNCHANGED <<issued, ledger>>,
         deserted' = (deserted \/ Deserted')
  PROVE  OneCopy'
<1>1. PICK p \in P, r \in {"true", "exception"} :
         /\ AbortReturns(Worker, p, r)
         /\ Rpc(p, "member", [op |-> "ABORT", id |-> req[Worker]], r)
  BY DEF Abort
<1>2. PICK m : m = [op |-> "ABORT", id |-> req[Worker]]
  OBVIOUS
<1>3. /\ pc[Worker] = "abort" /\ p \in todo[Worker] /\ todo'[Worker] = todo[Worker] \ {p}
      /\ participants' = IF r = "exception" THEN participants \ {p} ELSE participants
      /\ UNCHANGED <<clog, is_recovered, del_keys, pc, req, cmd, unfinished>>
  BY <1>1, CopyFacts DEF AbortReturns, Visited, Begin, recordVars, workerVars, mainVars, DInv, CInv, CTypeOK
<1> DEFINE s == part[p]
           n == clog.next
           id == req[Worker]
<1>4. /\ p \in participants /\ id \in Ids /\ id + 1 = n /\ n \in Nat /\ n # 0
      /\ s.db = ledger /\ s \in States
  <2>1. p \in participants
    BY <1>3, CopyFacts DEF DInv, CInv, IteratorsValid
  <2>2. id \in Ids
    BY <1>3, CopyFacts DEF DInv, CInv, RequestInv
  <2>3. id + 1 = n
    BY <1>3 DEF OneCopy, NothingLeft, InUpdate
  <2>4. s.db = ledger
    BY <1>3, <2>1 DEF OneCopy, MemberInv
  <2> QED
    BY <2>1, <2>2, <2>3, <2>4, CopyFacts
<1>5. Fit(s, n, TRUE, s.db)
  <2>1. Awaits(p) = TRUE
    BY <1>3 DEF Awaits
  <2>2. Fit(s, n, Awaits(p), ledger)
    BY CopyFacts
  <2> QED
    BY <1>4, <2>1, <2>2
<1>6. Rpc(p, "member", m, r) /\ m.op = "ABORT" /\ m.id = id /\ m \in Calls
  <2>1. m \in Calls
    BY <1>2, <1>4 DEF Calls
  <2> QED
    BY <1>1, <1>2, <2>1
<1> HIDE DEF s, n, id
<1>7. \E t : part' = [part EXCEPT ![p] = t] /\ Fit(t, n, FALSE, s.db) /\ t.db = s.db
  <2>1. ASSUME NEW o \in Handle(s, m)
        PROVE  Fit(o.state, n, FALSE, s.db) /\ o.state.db = s.db /\ o.state \in States
    <3>1. o \in HandleAbort(s, id)
      BY <1>6 DEF Handle
    <3>2. o.state \in States
      BY <1>4, <1>6, HandleEffect DEF Effect
    <3> QED
      BY <1>4, <1>5, <3>1, <3>2, AbortFit
  <2>2. ASSUME NEW t \in Killed(s, m) PROVE Fit(t, n, FALSE, s.db) /\ t.db = s.db
    <3>1. PICK o \in Handle(s, m) : t = Dead(o.state)
      BY <1>6 DEF Killed
    <3> QED
      BY <1>4, <2>1, <3>1, FitDies, DeadParts
  <2>3. ASSUME UNCHANGED part PROVE part' = [part EXCEPT ![p] = s] /\ Fit(s, n, FALSE, s.db)
    BY <1>5, <2>3, FitLater DEF DInv, PTypeOK, s
  <2>4. \/ \E o \in Handle(s, m) : part' = [part EXCEPT ![p] = o.state]
        \/ \E t \in Killed(s, m) : part' = [part EXCEPT ![p] = t]
        \/ UNCHANGED part
    BY <1>6, CallOutcome DEF s
  <2>5. CASE \E o \in Handle(s, m) : part' = [part EXCEPT ![p] = o.state]
    BY <2>1, <2>5
  <2>6. CASE \E t \in Killed(s, m) : part' = [part EXCEPT ![p] = t]
    BY <2>2, <2>6
  <2>7. CASE UNCHANGED part
    BY <2>3, <2>7
  <2> QED
    BY <2>4, <2>5, <2>6, <2>7
<1>8. PICK t : part' = [part EXCEPT ![p] = t] /\ Fit(t, n, FALSE, s.db) /\ t.db = s.db
  BY <1>7
<1>9. Awaits(p)' = FALSE
  BY <1>3 DEF Awaits
<1>10. Fit(t, clog.next, Awaits(p)', ledger) /\ t.db = ledger /\ t.db = part[p].db
  BY <1>4, <1>8, <1>9 DEF n, s
<1>11. InUpdate /\ ~deserted' /\ pc[Worker] # "commit"
  BY <1>3 DEF InUpdate, FailStop
<1> QED
  BY <1>3, <1>8, <1>10, <1>11, LoopGoesOn

(* PREPARE changes no data and no next_id_. *)
LEMMA PrepareCopy ==
  ASSUME DInv, DInv', OneCopy, Counts, FailStop', Prepare, UNCHANGED <<issued, ledger>>,
         deserted' = (deserted \/ Deserted')
  PROVE  OneCopy'
<1>1. PICK p \in P, r \in {"true", "false", "exception"} :
         /\ PrepareReturns(p, r)
         /\ Rpc(p, "member", [op |-> "PREPARE", id |-> req[Worker], cmd |-> cmd], r)
  BY DEF Prepare
<1>2. PICK m : m = [op |-> "PREPARE", id |-> req[Worker], cmd |-> cmd]
  OBVIOUS
<1>3. /\ pc[Worker] = "prepare" /\ p \in todo[Worker] /\ todo'[Worker] \subseteq todo[Worker]
      /\ participants' = IF r = "exception" THEN participants \ {p} ELSE participants
      /\ UNCHANGED <<clog, is_recovered, del_keys, pc, req, cmd, unfinished>>
  BY <1>1, CopyFacts DEF PrepareReturns, Begin, recordVars, mainVars, DInv, CInv, CTypeOK
<1> DEFINE s == part[p]
           n == clog.next
           id == req[Worker]
<1>4. /\ p \in participants /\ id \in Ids /\ id < n /\ n \in Nat /\ n # 0
      /\ s.db = ledger /\ s \in States /\ cmd \in Cmds
  <2>1. p \in participants
    BY <1>3, CopyFacts DEF DInv, CInv, IteratorsValid
  <2>2. id \in Ids /\ cmd \in Cmds
    BY <1>3, CopyFacts DEF DInv, CInv, RequestInv, ClientInv
  <2>3. id + 1 = n
    BY <1>3 DEF OneCopy, NothingLeft, InUpdate
  <2>4. s.db = ledger
    BY <1>3, <2>1 DEF OneCopy, MemberInv
  <2>5. id \in Nat
    BY <2>2, MaxIdAssumption DEF Ids
  <2> QED
    BY <2>1, <2>2, <2>3, <2>4, <2>5, CopyFacts
<1>5. Fit(s, n, TRUE, s.db)
  <2>1. Awaits(p) = TRUE
    BY <1>3 DEF Awaits
  <2>2. Fit(s, n, Awaits(p), ledger)
    BY CopyFacts
  <2> QED
    BY <1>4, <2>1, <2>2
<1>6. Rpc(p, "member", m, r) /\ m.op = "PREPARE" /\ m.id = id /\ m.cmd = cmd
  BY <1>1, <1>2
<1> HIDE DEF s, n, id
<1>7. \E t : part' = [part EXCEPT ![p] = t] /\ Fit(t, n, TRUE, s.db) /\ t.db = s.db
  <2>1. ASSUME NEW o \in Handle(s, m)
        PROVE  Fit(o.state, n, TRUE, s.db) /\ o.state.db = s.db /\ o.state \in States
    <3>1. o \in HandlePrepare(s, id, cmd)
      BY <1>6 DEF Handle
    <3> QED
      BY <1>4, <1>5, <3>1, PrepareFit
  <2>2. ASSUME NEW t \in Killed(s, m) PROVE Fit(t, n, TRUE, s.db) /\ t.db = s.db
    <3>1. PICK o \in Handle(s, m) : t = Dead(o.state)
      BY <1>6 DEF Killed
    <3> QED
      BY <1>4, <2>1, <3>1, FitDies, DeadParts
  <2>3. ASSUME UNCHANGED part PROVE part' = [part EXCEPT ![p] = s]
    BY <2>3 DEF DInv, PTypeOK, s
  <2>4. \/ \E o \in Handle(s, m) : part' = [part EXCEPT ![p] = o.state]
        \/ \E t \in Killed(s, m) : part' = [part EXCEPT ![p] = t]
        \/ UNCHANGED part
    BY <1>6, CallOutcome DEF s
  <2>5. CASE \E o \in Handle(s, m) : part' = [part EXCEPT ![p] = o.state]
    BY <2>1, <2>5
  <2>6. CASE \E t \in Killed(s, m) : part' = [part EXCEPT ![p] = t]
    BY <2>2, <2>6
  <2>7. CASE UNCHANGED part
    BY <1>5, <2>3, <2>7
  <2> QED
    BY <2>4, <2>5, <2>6, <2>7
<1>8. PICK t : part' = [part EXCEPT ![p] = t] /\ Fit(t, n, TRUE, s.db) /\ t.db = s.db
  BY <1>7
<1>9. Awaits(p)' = TRUE
  BY <1>3 DEF Awaits
<1>10. Fit(t, clog.next, Awaits(p)', ledger) /\ t.db = ledger /\ t.db = part[p].db
  BY <1>4, <1>8, <1>9 DEF n, s
<1>11. InUpdate /\ ~deserted'
  BY <1>3 DEF InUpdate, FailStop
<1> QED
  BY <1>3, <1>8, <1>10, <1>11, LoopGoesOn

(* GET changes no data. *)
LEMMA GetCopy ==
  ASSUME DInv, DInv', OneCopy, Get, UNCHANGED <<issued, ledger>>
  PROVE  OneCopy'
<1>1. PICK p \in P, r \in Outcomes : GetReturns(p, r) /\ UNCHANGED part
  BY DEF Get, Ask
<1>2. /\ pc[Worker] = "get" /\ pc'[Worker] \in {"get", "idle"} /\ pc'[Main] = pc[Main]
      /\ participants' \subseteq participants
      /\ UNCHANGED <<clog, is_recovered, del_keys, req, todo, cmd, unfinished, snapshot, cur>>
  BY <1>1, CopyFacts DEF GetReturns, Goto, recordVars, workerVars, mainVars, DInv, CInv, CTypeOK, Main, Worker
<1>3. ~InUpdate /\ ~InUpdate' /\ \A q \in P : ~Awaits(q) /\ ~Awaits(q)'
  BY <1>2 DEF InUpdate, Awaits
<1>4. PlaceInv' /\ DataInv'
  BY <1>1, <1>2, <1>3, NobodyMoves
<1>5. NothingLeft'
  BY <1>2, <1>3 DEF OneCopy, NothingLeft
<1>6. MemberInv' /\ DelInv'
  BY <1>1, <1>2 DEF OneCopy, MemberInv, DelInv
<1>7. RecoverInv'
  BY <1>2, CopyFacts DEF RecoverInv, Locking
<1> QED
  BY <1>4, <1>5, <1>6, <1>7 DEF OneCopy

(* The end of an update: its DONE record leaves nothing in the log. *)
LEMMA EndCopy ==
  ASSUME DInv, DInv', OneCopy, CommitEnd(Worker) \/ AbortEnd(Worker), UNCHANGED <<part, issued, ledger>>
  PROVE  OneCopy'
<1>0. clog \in Logs /\ participants \subseteq P /\ pc \in [Threads -> MainPcs \cup WorkerPcs]
  BY DEF DInv, CInv, CTypeOK
<1>1. /\ InUpdate /\ todo[Worker] = {} /\ pc'[Worker] = "idle" /\ pc'[Main] = pc[Main]
      /\ UNCHANGED <<is_recovered, participants, todo, unfinished, next_id>>
  BY <1>0, CopyFacts DEF CommitEnd, AbortEnd, Finish, Goto, memberVars, mainVars, InUpdate, Main, Worker
<1>2. req[Worker] \in Ids /\ participants # {} /\ next_id = clog.next
  BY <1>1, CopyFacts DEF OneCopy, NothingLeft, InUpdate, DInv, CInv, RequestInv
<1>3. PICK status \in Done : clog' = LogRecord(clog, status, req[Worker], next_id)
  BY <1>2 DEF CommitEnd, AbortEnd, LogDone, Log, Done
<1>4. /\ clog'.next = clog.next /\ clog'.recs[req[Worker]] = NoRecord
      /\ \A i \in Ids : clog'.recs[i] # NoRecord => i = req[Worker] \/ clog.recs[i] # NoRecord
  BY <1>0, <1>2, <1>3, LogParts
<1>5. ~InUpdate' /\ \A q \in P : ~Awaits(q)'
  BY <1>1 DEF InUpdate, Awaits
<1>6. PlaceInv' /\ DataInv'
  BY <1>4, <1>5, NobodyMoves
<1>7. NothingLeft'
  <2>1. \A i \in Ids : clog'.recs[i] = NoRecord
    BY <1>4 DEF OneCopy, NothingLeft
  <2> QED
    BY <1>1, <1>4, <1>5, <2>1 DEF OneCopy, NothingLeft
<1>8. MemberInv' /\ \A q \in participants : part[q].db = ledger
  BY <1>1 DEF OneCopy, MemberInv
<1>9. DelInv'
  <2>1. CASE CommitEnd(Worker)
    <3>1. /\ pc[Worker] = "commit"
          /\ del_keys' = IF cmd.type = "DEL" /\ participants # P THEN del_keys \cup cmd.keys ELSE del_keys
      BY <2>1 DEF CommitEnd
    <3>2. CASE participants = P
      BY <1>8, <3>2 DEF DelInv
    <3>3. CASE participants # P
      BY <1>1, <3>1, <3>3 DEF OneCopy, DelInv
    <3> QED
      BY <3>2, <3>3
  <2>2. CASE AbortEnd(Worker)
    BY <2>2 DEF OneCopy, DelInv, AbortEnd, memberVars
  <2> QED
    BY <2>1, <2>2
<1>10. RecoverInv'
  BY <1>1, CopyFacts DEF RecoverInv, Locking, InUpdate
<1> QED
  BY <1>6, <1>7, <1>8, <1>9, <1>10 DEF OneCopy

(* An update does not end without participants. *)
LEMMA NotAllDead ==
  ASSUME OneCopy PROVE ~PrepareAllDead
BY DEF OneCopy, NothingLeft, InUpdate, PrepareAllDead

(* Applied to the committed data, a command deletes its own keys only. *)
LEMMA ApplyKeys ==
  ASSUME NEW d \in Dbs, NEW c \in Cmds, NEW k \in Keys, Apply(d, c)[k] = Nil
  PROVE  d[k] = Nil \/ (c.type = "DEL" /\ k \in c.keys)
<1>1. CASE c \in SetCommands
  <2>1. c.type = "SET" /\ c.key \in Keys /\ c.value \in Vals
    BY <1>1 DEF SetCommands
  <2>2. Apply(d, c)[k] = IF k = c.key THEN c.value ELSE d[k]
    BY <2>1 DEF Apply, HandleSet, Dbs
  <2> QED
    BY <2>1, <2>2, NilAssumption
<1>2. CASE c \in DelCommands
  <2>1. c.type = "DEL"
    BY <1>2 DEF DelCommands
  <2>2. Apply(d, c)[k] = IF k \in c.keys THEN Nil ELSE d[k]
    BY <2>1 DEF Apply, HandleDel, Deleted
  <2> QED
    BY <2>1, <2>2
<1> QED
  BY <1>1, <1>2 DEF Cmds

(* The decision: the committed data moves on while every participant is    *)
(* behind, and the members have yet to be told.                            *)
LEMMA DecideCopy ==
  ASSUME DInv, DInv', OneCopy, Decide
  PROVE  OneCopy'
<1>0. /\ clog \in Logs /\ pc \in [Threads -> MainPcs \cup WorkerPcs] /\ req \in [Threads -> Ids \cup {0}]
      /\ todo \in [Threads -> SUBSET P] /\ participants \subseteq P
  BY DEF DInv, CInv, CTypeOK
<1>1. /\ PrepareEnd /\ UNCHANGED <<part, issued>>
      /\ ledger' = IF prepare_ok THEN Apply(ledger, cmd) ELSE ledger
  BY DEF Decide
<1>2. /\ pc[Worker] = "prepare" /\ InUpdate /\ participants # {}
      /\ UNCHANGED <<is_recovered, participants, del_keys, unfinished, next_id, cmd>>
  BY <1>1 DEF PrepareEnd, memberVars, mainVars, InUpdate
<1>3. req[Worker] \in Ids /\ next_id = clog.next /\ req[Worker] + 1 = clog.next
      /\ cmd \in Cmds /\ cmd = issued[req[Worker]] /\ ledger \in Dbs
  BY <1>2, CopyFacts DEF OneCopy, NothingLeft, InUpdate, DataInv, DInv, CInv, RequestInv, ClientInv
<1>4. /\ pc'[Worker] = IF prepare_ok THEN "commit" ELSE "abort"
      /\ pc'[Main] = pc[Main] /\ req'[Worker] = req[Worker] /\ todo'[Worker] = participants
  BY <1>0, <1>1, CopyFacts DEF PrepareEnd, StartCommit, StartAbort, Goto, Main, Worker
<1>5. PICK status \in {"COMMIT", "ABORT"} : clog' = LogRecord(clog, status, req[Worker], next_id)
  BY <1>1 DEF PrepareEnd, StartCommit, StartAbort, Log
<1>6. /\ clog'.next = clog.next
      /\ \A i \in Ids : clog'.recs[i] # NoRecord => i = req[Worker] \/ clog.recs[i] # NoRecord
  <2>1. status \notin Done
    BY DEF Done
  <2> QED
    BY <1>0, <1>3, <1>5, <2>1, LogParts
<1>7. InUpdate'
  BY <1>4 DEF InUpdate
<1>8. NothingLeft'
  <2>1. \A i \in Ids : clog'.recs[i] # NoRecord => i = req[Worker]
    BY <1>6 DEF OneCopy, NothingLeft
  <2> QED
    BY <1>1, <1>2, <1>3, <1>4, <1>6, <1>7, <2>1 DEF OneCopy, NothingLeft
<1>9. \A q \in P : Fit(part[q], clog.next, TRUE, ledger)
  <2>1. \A q \in P : Awaits(q) = TRUE
    BY <1>2 DEF Awaits
  <2> QED
    BY <2>1, CopyFacts
<1>10. \A q \in P : Fit(part'[q], clog'.next, Awaits(q)', ledger')
  <2> SUFFICES ASSUME NEW q \in P PROVE Fit(part'[q], clog'.next, Awaits(q)', ledger')
    OBVIOUS
  <2>1. part[q].next_id \in Nat /\ part[q].log.next \in Nat /\ clog.next \in Nat
    BY CopyFacts, LogFields
  <2>2. part[q].next_id < clog.next /\ part[q].log.next < clog.next
    BY <1>9 DEF Fit, Placed
  <2>3. Holds(part[q], clog.next, ledger')
    BY <2>1, <2>2 DEF Holds
  <2>4. Fit(part[q], clog.next, TRUE, ledger')
    BY <1>9, <2>3 DEF Fit
  <2>5. Awaits(q)' \in BOOLEAN
    BY DEF Awaits
  <2>6. Fit(part[q], clog.next, Awaits(q)', ledger')
    BY <2>4, <2>5, FitLater
  <2> QED
    BY <1>1, <1>6, <2>6
<1>11. PlaceInv' /\ DataInv'
  <2>1. ledger' \in Dbs
    BY <1>1, <1>3, ApplyType
  <2> QED
    BY <1>10, <2>1 DEF PlaceInv, DataInv, Fit
<1>12. MemberInv'
  <2>1. \A q \in participants : part[q].db = ledger
    BY <1>2 DEF OneCopy, MemberInv
  <2>2. CASE prepare_ok
    BY <1>1, <1>2, <1>4, <2>1, <2>2 DEF MemberInv
  <2>3. CASE ~prepare_ok
    BY <1>1, <1>2, <1>4, <2>1, <2>3 DEF MemberInv
  <2> QED
    BY <2>2, <2>3
<1>13. DelInv'
  <2>1. \A q \in P, k \in Keys : ledger[k] = Nil /\ part[q].db[k] # Nil => k \in del_keys
    BY <1>2 DEF OneCopy, DelInv
  <2>2. CASE prepare_ok
    <3>1. \A k \in Keys : ledger'[k] = Nil => ledger[k] = Nil \/ (cmd.type = "DEL" /\ k \in cmd.keys)
      BY <1>1, <1>3, <2>2, ApplyKeys
    <3> QED
      BY <1>1, <1>2, <1>4, <2>1, <2>2, <3>1 DEF DelInv
  <2>3. CASE ~prepare_ok
    BY <1>1, <1>2, <2>1, <2>3 DEF DelInv
  <2> QED
    BY <2>2, <2>3
<1>14. RecoverInv'
  BY <1>2, <1>4, CopyFacts DEF RecoverInv, Locking
<1> QED
  BY <1>8, <1>11, <1>12, <1>13, <1>14 DEF OneCopy

(* A new update puts every participant behind. *)
LEMMA NewUpdateCopy ==
  ASSUME DInv, DInv', OneCopy, ~EarlyClients, NewUpdate
  PROVE  OneCopy'
<1>0. /\ clog \in Logs /\ pc \in [Threads -> MainPcs \cup WorkerPcs] /\ req \in [Threads -> Ids \cup {0}]
      /\ participants \subseteq P
  BY DEF DInv, CInv, CTypeOK
<1>1. PICK c \in Cmds : /\ BeginUpdate(c) /\ issued' = [issued EXCEPT ![next_id] = c]
                        /\ UNCHANGED <<part, ledger>>
  BY DEF NewUpdate
<1>2. /\ pc[Main] \in {"beat", "drop", "join", "wait"} /\ pc[Worker] = "idle" /\ participants # {}
      /\ next_id \in Ids /\ clog' = LogRecord(clog, "UNRESOLVED", next_id, next_id + 1)
      /\ pc'[Worker] = "prepare" /\ pc'[Main] = pc[Main] /\ req'[Worker] = next_id
      /\ UNCHANGED <<is_recovered, participants, del_keys, unfinished>>
  BY <1>0, <1>1, CopyFacts DEF BeginUpdate, Accept, Serving, Goto, memberVars, mainVars, Main, Worker
<1>3. next_id = clog.next /\ clog.next \in Nat
  BY <1>2, CopyFacts
<1>4. /\ clog'.next = clog.next + 1
      /\ \A i \in Ids : clog'.recs[i] # NoRecord => i = next_id \/ clog.recs[i] # NoRecord
  <2>1. "UNRESOLVED" \notin Done
    BY DEF Done
  <2>2. PICK nx : nx = next_id + 1
    OBVIOUS
  <2>3. clog' = LogRecord(clog, "UNRESOLVED", next_id, nx)
    BY <1>2, <2>2
  <2>4. clog'.next = nx
    BY <1>0, <1>2, <2>1, <2>3, LogParts
  <2>5. \A i \in Ids : clog'.recs[i] # NoRecord => i = next_id \/ clog.recs[i] # NoRecord
    BY <1>0, <1>2, <2>1, <2>3, LogParts
  <2> QED
    BY <1>3, <2>2, <2>4, <2>5
<1>5. ~InUpdate /\ InUpdate' /\ \A q \in P : ~Awaits(q) /\ Awaits(q)'
  BY <1>2 DEF InUpdate, Awaits
<1>6. NothingLeft'
  <2>1. \A i \in Ids : clog'.recs[i] # NoRecord => i = next_id
    BY <1>4, <1>5 DEF OneCopy, NothingLeft
  <2>2. clog'.next # 0
    BY <1>3, <1>4
  <2> QED
    BY <1>2, <1>3, <1>4, <1>5, <2>1, <2>2 DEF OneCopy, NothingLeft
<1>7. \A q \in P : Fit(part'[q], clog'.next, Awaits(q)', ledger')
  <2> SUFFICES ASSUME NEW q \in P PROVE Fit(part'[q], clog'.next, Awaits(q)', ledger')
    OBVIOUS
  <2>1. part[q] \in States /\ Placed(part[q], clog.next, Awaits(q))
    BY CopyFacts DEF Fit
  <2>2. part[q].next_id \in Nat /\ part[q].log.next \in Nat
    BY <2>1, LogFields
  <2>3. part[q].next_id < clog'.next /\ part[q].log.next < clog'.next
    BY <1>3, <1>4, <2>1, <2>2 DEF Placed
  <2>4. \A i \in Ids : part[q].log.recs[i] # NoRecord => i < clog'.next
    <3>1. \A i \in Ids : i \in Nat
      BY MaxIdAssumption DEF Ids
    <3> QED
      BY <1>3, <1>4, <2>1, <3>1 DEF Placed
  <2>5. Placed(part[q], clog'.next, Awaits(q)')
    BY <1>3, <1>4, <2>1, <2>2, <2>3, <2>4 DEF Placed
  <2>6. Holds(part[q], clog'.next, ledger')
    BY <1>3, <1>4, <2>2, <2>3 DEF Holds
  <2> QED
    BY <1>1, <2>5, <2>6 DEF Fit
<1>8. PlaceInv' /\ DataInv'
  BY <1>1, <1>7 DEF PlaceInv, DataInv, Fit, OneCopy
<1>9. MemberInv' /\ DelInv'
  BY <1>1, <1>2 DEF OneCopy, MemberInv, DelInv
<1>10. RecoverInv'
  BY <1>2 DEF RecoverInv
<1> QED
  BY <1>6, <1>8, <1>9, <1>10 DEF OneCopy

-----------------------------------------------------------------------------
(* The steps of the main thread.                                           *)

\* The request of the worker rests.
RequestRests ==
  /\ clog'.next = clog.next /\ clog'.recs = clog.recs /\ pc'[Worker] = pc[Worker]
  /\ UNCHANGED <<req, todo, cmd, issued, ledger>>

(* ... so nobody is told anything new and nothing is left behind. *)
LEMMA MainNothingLeft ==
  ASSUME DInv, OneCopy, RequestRests, is_recovered' = TRUE, unfinished' = NoRecords,
         pc'[Main] \notin {"initSet", "joinSet", "commit", "abort"},
         pc[Worker] # "idle" => participants' = participants
  PROVE  /\ NothingLeft' /\ \A q \in P : Awaits(q)' <=> Awaits(q)
<1>1. (InUpdate' <=> InUpdate) /\ \A q \in P : Awaits(q)' <=> Awaits(q)
  BY DEF RequestRests, InUpdate, Awaits
<1>2. InUpdate => pc[Worker] # "idle"
  BY DEF InUpdate
<1> QED
  BY <1>1, <1>2 DEF RequestRests, OneCopy, NothingLeft

\* No participant does more than accept a connection.
OnlyConnects ==
  \A q \in P : part'[q] = part[q] \/ \E x : /\ part[q].status = "up"
                                           /\ part'[q] = [part[q] EXCEPT !.sessions = x]

(* A step of Main that calls nobody, or only asks. *)
LEMMA MainMovesOnCopy ==
  ASSUME DInv, OneCopy, RequestRests, is_recovered' = TRUE, unfinished' = NoRecords,
         pc'[Main] \notin {"initSet", "joinSet", "commit", "abort"},
         pc[Worker] # "idle" => participants' = participants,
         OnlyConnects,
         \A q \in participants' : q \in participants \/ (q \in P /\ part[q].db = ledger),
         del_keys' = del_keys \/ (del_keys' = {} /\ participants' = P /\ pc[Worker] = "idle"),
         RecoverInv'
  PROVE  OneCopy'
<1>1. /\ NothingLeft' /\ \A q \in P : Awaits(q)' <=> Awaits(q)
  BY MainNothingLeft
<1>2. ASSUME NEW q \in P
      PROVE  /\ part'[q].db = part[q].db /\ part'[q].log = part[q].log /\ part'[q].next_id = part[q].next_id
             /\ part'[q].inbox = part[q].inbox /\ part'[q].status = part[q].status
             /\ part'[q].status # "up" => part'[q].sessions = part[q].sessions
  <2>1. part[q] \in States
    BY CopyFacts
  <2>2. ASSUME NEW x, part[q].status = "up", part'[q] = [part[q] EXCEPT !.sessions = x]
        PROVE  /\ part'[q].db = part[q].db /\ part'[q].log = part[q].log /\ part'[q].next_id = part[q].next_id
               /\ part'[q].inbox = part[q].inbox /\ part'[q].status = part[q].status
    BY <2>1, <2>2 DEF States
  <2> QED
    BY <2>2 DEF OnlyConnects
<1>3. \A q \in P : Fit(part'[q], clog'.next, Awaits(q)', ledger')
  <2> SUFFICES ASSUME NEW q \in P PROVE Fit(part'[q], clog'.next, Awaits(q)', ledger')
    OBVIOUS
  <2>1. Fit(part[q], clog.next, Awaits(q), ledger)
    BY CopyFacts
  <2>2. PendingIds(part'[q]) = PendingIds(part[q])
    BY <1>2 DEF PendingIds
  <2>3. Placed(part'[q], clog.next, Awaits(q)) /\ Holds(part'[q], clog.next, ledger)
    BY <1>2, <2>1, <2>2 DEF Fit, Placed, Holds
  <2> QED
    BY <1>1, <2>3 DEF Fit, RequestRests, Placed
<1>4. PlaceInv' /\ DataInv'
  BY <1>3 DEF PlaceInv, DataInv, Fit, OneCopy, RequestRests
<1>5. MemberInv'
  <2> SUFFICES ASSUME NEW q \in participants'
               PROVE  IF pc[Worker] = "commit" /\ q \in todo[Worker]
                      THEN Apply(part'[q].db, cmd) = ledger ELSE part'[q].db = ledger
    BY DEF MemberInv, RequestRests
  <2>1. participants \subseteq P /\ (pc[Worker] = "commit" => q \in participants)
    BY DEF DInv, CInv, CTypeOK
  <2>2. q \in P /\ part'[q].db = part[q].db
    BY <1>2, <2>1
  <2> QED
    BY <2>1, <2>2 DEF OneCopy, MemberInv
<1>6. DelInv'
  <2>1. CASE del_keys' = del_keys
    BY <1>2, <2>1 DEF OneCopy, DelInv, RequestRests
  <2>2. CASE participants' = P /\ pc[Worker] = "idle"
    <3>1. \A q \in P : part'[q].db = ledger'
      BY <1>5, <2>2 DEF MemberInv, RequestRests
    <3> QED
      BY <3>1 DEF DelInv
  <2> QED
    BY <2>1, <2>2
<1> QED
  BY <1>1, <1>4, <1>5, <1>6 DEF OneCopy

(* A connection is made or not. *)
LEMMA ConnectOnly ==
  ASSUME DInv, NEW p \in P, NEW session, Connect(p, session) \/ UNCHANGED part
  PROVE  OnlyConnects
<1>1. CASE UNCHANGED part
  BY <1>1 DEF OnlyConnects
<1>2. CASE Connect(p, session)
  <2>1. PICK x : x = part[p].sessions \cup {session}
    OBVIOUS
  <2>2. part[p].status = "up" /\ part' = [part EXCEPT ![p] = [part[p] EXCEPT !.sessions = x]]
    BY <1>2, <2>1 DEF Connect
  <2>3. part'[p] = [part[p] EXCEPT !.sessions = x] /\ \A q \in P : q # p => part'[q] = part[q]
    BY <2>2 DEF DInv, PTypeOK
  <2> QED
    BY <2>2, <2>3 DEF OnlyConnects
<1> QED
  BY <1>1, <1>2

(* Who is at next_id_ is up to date; the records Main looks at are gone    *)
(* when no update is going on.                                             *)
LEMMA UpToDate ==
  ASSUME DInv, OneCopy, NEW p \in P, pc[Main] # "down", pc[Worker] = "idle"
  PROVE  /\ InitUpToDate(part[p].next_id) => part[p].db = ledger
         /\ JoinUpToDate(part[p].next_id) => part[p].db = ledger
         /\ ~JoinUpToDate(part[p].next_id) => part[p].next_id # clog.next
<1>1. next_id = clog.next /\ Holds(part[p], clog.next, ledger)
  BY CopyFacts DEF Fit
<1>2. \A i \in Ids : clog.recs[i] = NoRecord
  BY DEF OneCopy, NothingLeft, InUpdate
<1>3. InitUpToDate(part[p].next_id) => part[p].next_id = clog.next
  BY <1>1, <1>2 DEF InitUpToDate, NoRecord
<1>4. JoinUpToDate(part[p].next_id) => part[p].next_id = clog.next
  BY <1>1, <1>2 DEF JoinUpToDate, NoRecord
<1>5. ~JoinUpToDate(part[p].next_id) => part[p].next_id # clog.next
  BY <1>1 DEF JoinUpToDate
<1> QED
  BY <1>1, <1>3, <1>4, <1>5 DEF Holds

(* init_participant() takes those in who are up to date. *)
LEMMA QueryInitCopy ==
  ASSUME DInv, DInv', OneCopy, Counts, FailStop', QueryInit, UNCHANGED <<issued, ledger>>
  PROVE  OneCopy'
<1>1. PICK r \in Outcomes : InitNextReturns(r, part[cur].next_id) /\ AskNew(cur, "member", r)
  BY DEF QueryInit
<1>2. pc[Main] = "initNext" /\ pc[Worker] = "idle" /\ is_recovered /\ cur \in P
  BY <1>1, CopyFacts DEF InitNextReturns, Locking, OneCopy, NothingLeft
<1>3. OnlyConnects
  <2>1. Connect(cur, "member") \/ UNCHANGED part
    BY <1>1 DEF AskNew
  <2> QED
    BY <1>2, <2>1, ConnectOnly
<1>4. PICK keep : keep = (r = "ok" /\ InitUpToDate(part[cur].next_id))
  OBVIOUS
<1>5. /\ InitAdvance(keep)
      /\ UNCHANGED <<clog, is_recovered, del_keys, req, todo, cmd, unfinished>>
  BY <1>1, <1>2, <1>4 DEF InitNextReturns, recordVars, workerVars
<1>6. /\ participants' = IF keep THEN participants \cup {cur} ELSE participants \ {cur}
      /\ pc'[Main] \in {"copy", "initNext"} /\ pc'[Worker] = pc[Worker]
  BY <1>5, CopyFacts DEF InitAdvance, Goto, Main, Worker, DInv, CInv, CTypeOK
<1>7. keep => part[cur].db = ledger
  BY <1>2, <1>4, UpToDate
<1>8. RequestRests /\ RecoverInv'
  BY <1>5, <1>6 DEF RequestRests, RecoverInv
<1>9. \A q \in participants' : q \in participants \/ (q \in P /\ part[q].db = ledger)
  BY <1>2, <1>6, <1>7
<1>10. is_recovered' = TRUE /\ unfinished' = NoRecords
  BY <1>2, <1>5 DEF OneCopy, NothingLeft, DInv, CInv, CTypeOK
<1> QED
  BY <1>2, <1>3, <1>5, <1>6, <1>8, <1>9, <1>10, MainMovesOnCopy

(* recover_participant() asks for next_id_. *)
LEMMA QueryJoinCopy ==
  ASSUME DInv, DInv', OneCopy, QueryJoin, UNCHANGED <<issued, ledger>>
  PROVE  OneCopy'
<1>1. PICK r \in Outcomes : JoinNextReturns(r, part[cur].next_id) /\ UNCHANGED part
  BY DEF QueryJoin, Ask
<1>2. pc[Main] = "joinNext" /\ pc[Worker] = "idle" /\ cur \in P /\ cur \notin participants
  BY <1>1, CopyFacts DEF JoinNextReturns, Locking, OneCopy, RecoverInv
<1>3. UNCHANGED <<clog, is_recovered, req, todo, cmd, unfinished>>
  BY <1>1 DEF JoinNextReturns, recordVars, workerVars
<1>4. RequestRests /\ OnlyConnects /\ is_recovered' = TRUE /\ unfinished' = NoRecords
      /\ pc'[Main] \notin {"initSet", "joinSet", "commit", "abort"}
  <2>1. pc'[Worker] = pc[Worker] /\ pc'[Main] \notin {"initSet", "joinSet", "commit", "abort"}
    BY <1>1, CopyFacts, ZenonT(30) DEF JoinNextReturns, Joined, NotJoined, JoinThrew, NextBeat, Goto, Main, Worker,
       DInv, CInv, CTypeOK
  <2> QED
    BY <1>1, <1>3, <2>1 DEF RequestRests, OnlyConnects, OneCopy, NothingLeft, DInv, CInv, CTypeOK
<1>5. CASE r = "ok" /\ JoinUpToDate(part[cur].next_id)
  <2>1. /\ participants' = participants \cup {cur} /\ pc'[Main] = "copy"
        /\ del_keys' = IF participants' = P THEN {} ELSE del_keys
    BY <1>1, <1>5, CopyFacts DEF JoinNextReturns, Joined, Goto, DInv, CInv, CTypeOK
  <2>2. part[cur].db = ledger
    BY <1>2, <1>5, UpToDate
  <2>3. RecoverInv'
    BY <2>1 DEF RecoverInv
  <2>4. \A q \in participants' : q \in participants \/ (q \in P /\ part[q].db = ledger)
    BY <1>2, <2>1, <2>2
  <2> QED
    BY <1>2, <1>4, <2>1, <2>3, <2>4, MainMovesOnCopy
<1>6. CASE ~(r = "ok" /\ JoinUpToDate(part[cur].next_id))
  <2>1. /\ participants' = participants /\ del_keys' = del_keys
        /\ \/ pc'[Main] \in {"drop", "wait", "beat"}
           \/ pc'[Main] = "snapshot" /\ cur' = cur /\ ~JoinUpToDate(part[cur].next_id)
    BY <1>1, <1>6, CopyFacts DEF JoinNextReturns, NotJoined, JoinThrew, NextBeat, Goto, DInv, CInv, CTypeOK
  <2>2. RecoverInv'
    BY <1>1, <1>2, <1>3, <2>1, UpToDate DEF RecoverInv
  <2> QED
    BY <1>2, <1>4, <2>1, <2>2, MainMovesOnCopy
<1> QED
  BY <1>5, <1>6

(* A snapshot comes from a member. *)
LEMMA SnapshotCopy ==
  ASSUME DInv, DInv', OneCopy, GetSnapshot, UNCHANGED <<issued, ledger>>
  PROVE  OneCopy'
<1>1. PICK p \in P, r \in Outcomes : SnapshotReturns(p, r, part[p].db) /\ UNCHANGED part
  BY DEF GetSnapshot, Ask
<1>2. pc[Main] = "snapshot" /\ pc[Worker] = "idle" /\ cur \in P /\ cur \notin participants
      /\ p \in participants
  BY <1>1, CopyFacts DEF SnapshotReturns, Locking, OneCopy, RecoverInv, Begin
<1>3. /\ UNCHANGED <<clog, is_recovered, req, todo, cmd, unfinished, del_keys>>
      /\ participants' \subseteq participants
  BY <1>1 DEF SnapshotReturns, NotJoined, recordVars, workerVars
<1>4. /\ pc'[Worker] = pc[Worker]
      /\ \/ pc'[Main] \in {"wait", "beat"}
         \/ pc'[Main] = "snapshot" /\ cur' = cur
         \/ pc'[Main] = "recover" /\ cur' = cur /\ snapshot' = part[p].db
  BY <1>1, <1>2, CopyFacts DEF SnapshotReturns, NotJoined, NextBeat, Goto, Main, Worker, DInv, CInv, CTypeOK
<1>5. part[p].db = ledger
  BY <1>2 DEF OneCopy, MemberInv
<1>6. RecoverInv'
  BY <1>1, <1>2, <1>3, <1>4, <1>5 DEF OneCopy, RecoverInv, Live
<1>7. RequestRests /\ OnlyConnects /\ is_recovered' = TRUE /\ unfinished' = NoRecords
  BY <1>1, <1>3, <1>4 DEF RequestRests, OnlyConnects, OneCopy, NothingLeft, DInv, CInv, CTypeOK
<1> QED
  BY <1>2, <1>3, <1>4, <1>6, <1>7, MainMovesOnCopy

(* The heartbeat, the copy of the records (there are none) and the steps   *)
(* between two calls.                                                      *)
LEMMA MainWalksCopy ==
  ASSUME DInv, DInv', OneCopy, UNCHANGED <<issued, ledger>>,
         \/ Heartbeat \/ BeginUnfinished
         \/ (UnfinishedEnd \/ Drop \/ Join \/ Wait) /\ UNCHANGED part
  PROVE  OneCopy'
<1>0. cur \in P /\ is_recovered = TRUE /\ unfinished = NoRecords /\ pc \in [Threads -> MainPcs \cup WorkerPcs]
  BY CopyFacts DEF OneCopy, NothingLeft, DInv, CInv, CTypeOK
<1>1. CASE Heartbeat
  <2>1. PICK r \in Outcomes : BeatReturns(r) /\ AskNew(cur, "beat", r)
    BY <1>1 DEF Heartbeat
  <2>2. OnlyConnects
    <3>1. Connect(cur, "beat") \/ UNCHANGED part
      BY <2>1 DEF AskNew
    <3> QED
      BY <1>0, <3>1, ConnectOnly
  <2>3. /\ pc'[Main] \in {"join", "drop"} /\ pc'[Worker] = pc[Worker]
        /\ UNCHANGED <<clog, is_recovered, participants, del_keys, req, todo, cmd, unfinished>>
    BY <1>0, <2>1, CopyFacts DEF BeatReturns, Goto, recordVars, memberVars, workerVars, mainVars, Main, Worker
  <2>4. RequestRests /\ RecoverInv'
    BY <2>3 DEF RequestRests, RecoverInv
  <2> QED
    BY <1>0, <2>2, <2>3, <2>4, MainMovesOnCopy
<1>2. CASE BeginUnfinished
  <2>1. CopyRecords /\ (Connect(cur, "member") \/ UNCHANGED part)
    BY <1>2 DEF BeginUnfinished
  <2>2. OnlyConnects
    BY <1>0, <2>1, ConnectOnly
  <2>3. /\ pc[Main] = "copy" /\ pc'[Main] = "unfinished" /\ pc'[Worker] = pc[Worker] /\ unfinished' = clog.recs
        /\ UNCHANGED <<clog, is_recovered, participants, del_keys, req, todo, cmd>>
    BY <1>0, <2>1, CopyFacts DEF CopyRecords, Goto, recordVars, memberVars, workerVars, Main, Worker
  <2>4. clog.recs = NoRecords
    <3>1. pc[Worker] = "idle"
      BY <2>3, CopyFacts DEF Updating
    <3>2. \A i \in Ids : clog.recs[i] = NoRecord
      BY <3>1 DEF OneCopy, NothingLeft, InUpdate
    <3>3. clog.recs \in [Ids -> Pending \cup {NoRecord}]
      BY DEF DInv, CInv, CTypeOK, Logs, Records
    <3> QED
      BY <3>2, <3>3 DEF NoRecords
  <2>5. RequestRests /\ RecoverInv'
    BY <2>3 DEF RequestRests, RecoverInv
  <2> QED
    BY <1>0, <2>2, <2>3, <2>4, <2>5, MainMovesOnCopy
<1>3. CASE (UnfinishedEnd \/ Wait) /\ UNCHANGED part
  <2>1. /\ pc'[Main] \in {"beat", "wait"} /\ pc'[Worker] = pc[Worker]
        /\ UNCHANGED <<clog, is_recovered, participants, del_keys, req, todo, cmd, unfinished>>
    BY <1>0, <1>3, CopyFacts DEF UnfinishedEnd, Wait, NextBeat, Goto, recordVars, memberVars, workerVars, Main, Worker
  <2>2. RequestRests /\ RecoverInv'
    BY <2>1 DEF RequestRests, RecoverInv
  <2> QED
    BY <1>0, <1>3, <2>1, <2>2, MainMovesOnCopy DEF OnlyConnects
<1>4. CASE Drop /\ UNCHANGED part
  <2>1. /\ pc'[Main] \in {"beat", "wait"} /\ pc'[Worker] = pc[Worker] /\ lock = Nobody
        /\ participants' = participants \ {cur}
        /\ UNCHANGED <<clog, is_recovered, del_keys, req, todo, cmd, unfinished>>
    BY <1>0, <1>4, CopyFacts DEF Drop, NextBeat, Goto, recordVars, workerVars, Main, Worker
  <2>2. RequestRests /\ RecoverInv'
    BY <2>1 DEF RequestRests, RecoverInv
  <2>3. pc[Worker] = "idle"
    BY <2>1, CopyFacts DEF Nobody, Worker
  <2> QED
    BY <1>0, <1>4, <2>1, <2>2, <2>3, MainMovesOnCopy DEF OnlyConnects
<1>5. CASE Join /\ UNCHANGED part
  <2>1. /\ pc'[Main] \in {"beat", "wait"} \/ (pc'[Main] = "joinNext" /\ cur' = cur /\ cur \notin participants)
        /\ pc'[Worker] = pc[Worker]
        /\ UNCHANGED <<clog, is_recovered, participants, del_keys, req, todo, cmd, unfinished>>
    BY <1>0, <1>5, CopyFacts DEF Join, NextBeat, Goto, recordVars, memberVars, workerVars, Main, Worker
  <2>2. RequestRests /\ RecoverInv'
    BY <2>1 DEF RequestRests, RecoverInv
  <2> QED
    BY <1>0, <1>5, <2>1, <2>2, MainMovesOnCopy DEF OnlyConnects
<1> QED
  BY <1>1, <1>2, <1>3, <1>4, <1>5

(* The process starts with a log that was written before; a GET is taken. *)
LEMMA BootGetCopy ==
  ASSUME DInv, DInv', OneCopy, ~EarlyClients, Boot \/ NewGet
  PROVE  OneCopy'
<1>0. is_recovered = TRUE /\ unfinished = NoRecords /\ pc \in [Threads -> MainPcs \cup WorkerPcs]
      /\ clog \in Logs /\ clog.next # 0
  BY CopyFacts DEF OneCopy, NothingLeft, DInv, CInv, CTypeOK
<1>1. CASE Boot
  <2>1. StartCoordinator /\ UNCHANGED <<part, issued, ledger>>
    BY <1>1 DEF Boot
  <2>2. /\ pc'[Main] = "initNext" /\ pc'[Worker] = pc[Worker] /\ clog' = InitRecords(clog)
        /\ is_recovered' = (clog.next # 0)
        /\ UNCHANGED <<participants, del_keys, req, todo, cmd, unfinished>>
    BY <1>0, <2>1, CopyFacts DEF StartCoordinator, Goto, workerVars, Main, Worker
  <2>3. clog'.next = clog.next /\ clog'.recs = clog.recs
    BY <1>0, <2>2 DEF InitRecords, Logs
  <2>4. RequestRests /\ RecoverInv'
    BY <2>1, <2>2, <2>3 DEF RequestRests, RecoverInv
  <2>5. is_recovered' = TRUE
    BY <1>0, <2>2
  <2> QED
    BY <1>0, <2>1, <2>2, <2>4, <2>5, MainMovesOnCopy DEF OnlyConnects
<1>2. CASE NewGet
  <2>1. BeginGet /\ UNCHANGED <<part, issued, ledger>>
    BY <1>2 DEF NewGet
  <2>2. /\ pc[Main] \in {"beat", "drop", "join", "wait"} /\ pc'[Main] = pc[Main]
        /\ pc[Worker] = "idle" /\ pc'[Worker] = "get"
        /\ UNCHANGED <<clog, is_recovered, participants, del_keys, req, todo, cmd, unfinished>>
    BY <1>0, <2>1, CopyFacts DEF BeginGet, Accept, Serving, Goto, recordVars, memberVars, workerVars, mainVars,
       Main, Worker
  <2>3. ~InUpdate /\ ~InUpdate' /\ \A q \in P : ~Awaits(q) /\ ~Awaits(q)'
    BY <2>2 DEF InUpdate, Awaits
  <2>4. PlaceInv' /\ DataInv'
    BY <2>1, <2>2, <2>3, NobodyMoves
  <2>5. NothingLeft'
    BY <2>2, <2>3 DEF OneCopy, NothingLeft
  <2>6. MemberInv' /\ DelInv' /\ RecoverInv'
    BY <2>1, <2>2 DEF OneCopy, MemberInv, DelInv, RecoverInv
  <2> QED
    BY <2>4, <2>5, <2>6 DEF OneCopy
<1> QED
  BY <1>1, <1>2

(* With no update left behind and next_id_ in the log, these are not taken. *)
LEMMA MainNeverDoes ==
  ASSUME OneCopy
  PROVE  /\ ~Commit(Main) /\ ~Abort(Main) /\ ~CommitEnd(Main) /\ ~AbortEnd(Main) /\ ~SetNextIdInit
         /\ \A r : ~JoinSetReturns(r)
         /\ \A id \in Ids : ~Resolve(id)
<1>1. pc[Main] \notin {"initSet", "joinSet", "commit", "abort"} /\ \A i \in Ids : unfinished[i] = NoRecord
  BY DEF OneCopy, NothingLeft, NoRecords
<1> QED
  BY <1>1 DEF Commit, Abort, CommitReturns, AbortReturns, CommitEnd, AbortEnd, SetNextIdInit, InitSetReturns,
     JoinSetReturns, Resolve, Begin

(* A call of Main that changes the participant p, which is no member: if it *)
(* becomes one, it has the committed data.                                  *)
LEMMA MainCallCopy ==
  ASSUME DInv, OneCopy, RequestRests, is_recovered' = TRUE, unfinished' = NoRecords,
         pc'[Main] \notin {"initSet", "joinSet", "commit", "abort"}, pc[Worker] = "idle",
         NEW p \in P, p \notin participants, NEW t, part' = [part EXCEPT ![p] = t],
         Fit(t, clog.next, FALSE, ledger),
         \A k \in Keys : ledger[k] = Nil /\ t.db[k] # Nil => part[p].db[k] # Nil,
         participants' = participants \/ (participants' = participants \cup {p} /\ t.db = ledger),
         del_keys' = del_keys \/ (del_keys' = {} /\ participants' = P),
         RecoverInv'
  PROVE  OneCopy'
<1>1. /\ NothingLeft' /\ \A q \in P : Awaits(q)' <=> Awaits(q)
  BY MainNothingLeft
<1>2. ~Awaits(p)' /\ Awaits(p)' = FALSE
  BY DEF Awaits, RequestRests
<1>3. clog'.next = clog.next /\ ledger' = ledger /\ pc'[Worker] = "idle"
  BY DEF RequestRests
<1>4. /\ PlaceInv' /\ DataInv' /\ part'[p] = t
      /\ \A q \in P : q # p => part'[q] = part[q]
  BY <1>1, <1>2, <1>3, OneMoves
<1>5. MemberInv'
  <2> SUFFICES ASSUME NEW q \in participants' PROVE part'[q].db = ledger
    BY <1>3 DEF MemberInv
  <2>1. participants \subseteq P
    BY DEF DInv, CInv, CTypeOK
  <2>2. CASE q = p
    BY <1>4, <2>2
  <2>3. CASE q # p
    BY <1>4, <2>1, <2>3 DEF OneCopy, MemberInv
  <2> QED
    BY <2>2, <2>3
<1>6. DelInv'
  <2>1. CASE del_keys' = del_keys
    BY <1>3, <1>4, <2>1 DEF OneCopy, DelInv
  <2>2. CASE participants' = P
    BY <1>3, <1>5, <2>2 DEF MemberInv, DelInv
  <2> QED
    BY <2>1, <2>2
<1> QED
  BY <1>1, <1>4, <1>5, <1>6 DEF OneCopy

(* RECOVER: a snapshot of a member and the deleted keys make the database   *)
(* that of the members; a failure on the way leaves a participant that is   *)
(* still behind.                                                            *)
LEMMA RecoverCopy ==
  ASSUME DInv, DInv', OneCopy, Counts, FailStop', Recover, UNCHANGED <<issued, ledger>>
  PROVE  OneCopy'
<1>1. PICK r \in Outcomes :
         /\ RecoverReturns(r)
         /\ Rpc(cur, "beat", [op |-> "RECOVER", data |-> snapshot, del_keys |-> del_keys], r)
  BY DEF Recover
<1>2. PICK m : m = [op |-> "RECOVER", data |-> snapshot, del_keys |-> del_keys]
  OBVIOUS
<1> DEFINE s == part[cur]
           n == clog.next
<1>3. /\ pc[Main] = "recover" /\ pc[Worker] = "idle" /\ cur \in P /\ cur \notin participants
      /\ snapshot = ledger /\ (Live(cur, "beat") => s.next_id # n)
  BY <1>1, CopyFacts DEF RecoverReturns, Locking, OneCopy, RecoverInv
<1>4. /\ pc'[Worker] = pc[Worker]
      /\ pc'[Main] \in {"wait", "beat"} \/ (r = "ok" /\ pc'[Main] = "recoverSet" /\ cur' = cur)
      /\ UNCHANGED <<clog, is_recovered, participants, del_keys, req, todo, cmd, unfinished>>
  BY <1>1, CopyFacts DEF RecoverReturns, NotJoined, NextBeat, Goto, recordVars, workerVars, Main, Worker,
     DInv, CInv, CTypeOK
<1>5. /\ s \in States /\ n \in Nat /\ n # 0 /\ Fit(s, n, FALSE, ledger) /\ ledger \in Dbs
      /\ \A k \in Keys : ledger[k] = Nil /\ s.db[k] # Nil => k \in del_keys
  <2>1. Awaits(cur) = FALSE
    BY <1>3 DEF Awaits
  <2>2. Fit(s, n, Awaits(cur), ledger)
    BY <1>3, CopyFacts
  <2>3. ledger \in Dbs /\ \A k \in Keys : ledger[k] = Nil /\ s.db[k] # Nil => k \in del_keys
    BY <1>3 DEF OneCopy, DataInv, DelInv
  <2> QED
    BY <1>3, <2>1, <2>2, <2>3, CopyFacts
<1>6. Rpc(cur, "beat", m, r) /\ m.op = "RECOVER" /\ m.data = ledger /\ m.del_keys = del_keys
  BY <1>1, <1>2, <1>3
<1>7. Live(cur, "beat") => s.status = "up" /\ s.next_id # n
  BY <1>3, <1>5 DEF Live, Fit, Placed
<1>8. Placed(s, n, FALSE)
  BY <1>5 DEF Fit
<1> HIDE DEF s, n
<1>9. \E t : /\ part' = [part EXCEPT ![cur] = t] /\ Fit(t, n, FALSE, ledger)
             /\ r = "ok" => t.db = ledger
             /\ \A k \in Keys : ledger[k] = Nil /\ t.db[k] # Nil => s.db[k] # Nil
  <2>1. ASSUME Live(cur, "beat"), NEW o \in Handle(s, m), o.ret = r
        PROVE  /\ Fit(o.state, n, FALSE, ledger) /\ (r = "ok" => o.state.db = ledger)
               /\ \A k \in Keys : ledger[k] = Nil /\ o.state.db[k] # Nil => s.db[k] # Nil
    <3>1. o \in HandleRecover(s, ledger, del_keys)
      BY <1>6 DEF Handle
    <3>2. s.status = "up" /\ s.next_id # n
      BY <1>7, <2>1
    <3>3. PICK d \in Dbs : d = ledger
      BY <1>5
    <3>4. PICK ks : ks = del_keys
      OBVIOUS
    <3>5. o \in HandleRecover(s, d, ks) /\ \A k \in Keys : d[k] = Nil /\ s.db[k] # Nil => k \in ks
      BY <1>5, <3>1, <3>3, <3>4
    <3>6. Taken(s, o, n, d)
      BY <1>5, <1>8, <3>2, <3>5, RecoverFit
    <3> QED
      BY <2>1, <3>3, <3>6 DEF Taken
  <2>2. ASSUME Live(cur, "beat"), NEW t \in Killed(s, m)
        PROVE  /\ Fit(t, n, FALSE, ledger)
               /\ \A k \in Keys : ledger[k] = Nil /\ t.db[k] # Nil => s.db[k] # Nil
    <3>1. t \in KilledInRecover(s, ledger, del_keys)
      BY <1>6 DEF Killed
    <3> QED
      BY <1>5, <1>7, <1>8, <2>2, <3>1, KilledInRecoverFit
  <2>3. ASSUME UNCHANGED part PROVE part' = [part EXCEPT ![cur] = s]
    BY <2>3 DEF DInv, PTypeOK, s
  <2>4. \/ /\ Live(cur, "beat")
           /\ \E o \in Handle(s, m) : o.ret = r /\ part' = [part EXCEPT ![cur] = o.state]
        \/ /\ Live(cur, "beat") /\ r = "exception"
           /\ \E t \in Killed(s, m) : part' = [part EXCEPT ![cur] = t]
        \/ r = "exception" /\ UNCHANGED part
    BY <1>3, <1>6, CallOutcome DEF s
  <2>5. CASE Live(cur, "beat") /\ \E o \in Handle(s, m) : o.ret = r /\ part' = [part EXCEPT ![cur] = o.state]
    BY <2>1, <2>5
  <2>6. CASE /\ Live(cur, "beat") /\ r = "exception"
             /\ \E t \in Killed(s, m) : part' = [part EXCEPT ![cur] = t]
    BY <2>2, <2>6
  <2>7. CASE r = "exception" /\ UNCHANGED part
    BY <1>5, <2>3, <2>7
  <2> QED
    BY <2>4, <2>5, <2>6, <2>7
<1>10. PICK t : /\ part' = [part EXCEPT ![cur] = t] /\ Fit(t, n, FALSE, ledger)
                /\ r = "ok" => t.db = ledger
                /\ \A k \in Keys : ledger[k] = Nil /\ t.db[k] # Nil => s.db[k] # Nil
  BY <1>9
<1>11. RequestRests /\ is_recovered' = TRUE /\ unfinished' = NoRecords
  BY <1>4 DEF RequestRests, OneCopy, NothingLeft, DInv, CInv, CTypeOK
<1>12. RecoverInv'
  <2>1. part'[cur] = t
    BY <1>3, <1>10 DEF DInv, PTypeOK
  <2> QED
    BY <1>3, <1>4, <1>10, <2>1 DEF RecoverInv
<1> QED
  BY <1>3, <1>4, <1>10, <1>11, <1>12, MainCallCopy DEF s, n

(* SET_NEXT_ID after RECOVER: the participant is at next_id_ and a member. *)
LEMMA RecoverSetCopy ==
  ASSUME DInv, DInv', OneCopy, Counts, FailStop', SetNextIdJoin, UNCHANGED <<issued, ledger>>
  PROVE  OneCopy'
<1>1. PICK r \in Outcomes : RecoverSetReturns(r) /\ Rpc(cur, "beat", [op |-> "SET_NEXT_ID", val |-> next_id], r)
  BY MainNeverDoes DEF SetNextIdJoin
<1>2. PICK m : m = [op |-> "SET_NEXT_ID", val |-> next_id]
  OBVIOUS
<1> DEFINE s == part[cur]
           n == clog.next
<1>3. /\ pc[Main] = "recoverSet" /\ pc[Worker] = "idle" /\ cur \in P /\ cur \notin participants
      /\ s.db = ledger /\ next_id = n
  BY <1>1, CopyFacts DEF RecoverSetReturns, Locking, OneCopy, RecoverInv
<1>4. UNCHANGED <<clog, is_recovered, req, todo, cmd, unfinished>>
  BY <1>1 DEF RecoverSetReturns, recordVars, workerVars
<1>5. s \in States /\ n \in Nat /\ n # 0 /\ Placed(s, n, FALSE) /\ Fit(s, n, FALSE, s.db)
  <2>1. Awaits(cur) = FALSE
    BY <1>3 DEF Awaits
  <2>2. Fit(s, n, Awaits(cur), ledger)
    BY <1>3, CopyFacts
  <2> QED
    BY <1>3, <2>1, <2>2, CopyFacts DEF Fit
<1>6. Rpc(cur, "beat", m, r) /\ m.op = "SET_NEXT_ID" /\ m.val = n /\ m \in Calls
  <2>1. m \in Calls
    BY <1>2, <1>3, <1>5 DEF Calls
  <2> QED
    BY <1>1, <1>2, <1>3, <2>1
<1> HIDE DEF s, n
<1>7. \E t : part' = [part EXCEPT ![cur] = t] /\ Fit(t, n, FALSE, s.db) /\ t.db = s.db
  <2>1. ASSUME NEW o \in Handle(s, m)
        PROVE  Fit(o.state, n, FALSE, s.db) /\ o.state.db = s.db /\ o.state \in States
    <3>1. o \in HandleSetNextId(s, n)
      BY <1>6 DEF Handle
    <3>2. o.state \in States
      BY <1>5, <1>6, HandleEffect DEF Effect
    <3> QED
      BY <1>5, <3>1, <3>2, SetNextIdFit
  <2>2. ASSUME NEW t \in Killed(s, m) PROVE Fit(t, n, FALSE, s.db) /\ t.db = s.db
    <3>1. PICK o \in Handle(s, m) : t = Dead(o.state)
      BY <1>6 DEF Killed
    <3> QED
      BY <1>5, <2>1, <3>1, FitDies, DeadParts
  <2>3. ASSUME UNCHANGED part PROVE part' = [part EXCEPT ![cur] = s]
    BY <2>3 DEF DInv, PTypeOK, s
  <2>4. \/ \E o \in Handle(s, m) : part' = [part EXCEPT ![cur] = o.state]
        \/ \E t \in Killed(s, m) : part' = [part EXCEPT ![cur] = t]
        \/ UNCHANGED part
    BY <1>3, <1>6, CallOutcome DEF s
  <2>5. CASE \E o \in Handle(s, m) : part' = [part EXCEPT ![cur] = o.state]
    BY <2>1, <2>5
  <2>6. CASE \E t \in Killed(s, m) : part' = [part EXCEPT ![cur] = t]
    BY <2>2, <2>6
  <2>7. CASE UNCHANGED part
    BY <1>5, <2>3, <2>7
  <2> QED
    BY <2>4, <2>5, <2>6, <2>7
<1>8. PICK t : part' = [part EXCEPT ![cur] = t] /\ Fit(t, n, FALSE, s.db) /\ t.db = s.db
  BY <1>7
<1>9. /\ pc'[Worker] = pc[Worker] /\ pc'[Main] \in {"copy", "wait", "beat"}
      /\ participants' = participants \/ participants' = participants \cup {cur}
      /\ del_keys' = del_keys \/ (del_keys' = {} /\ participants' = P)
  BY <1>1, CopyFacts DEF RecoverSetReturns, Joined, NotJoined, NextBeat, Goto, Main, Worker, DInv, CInv, CTypeOK
<1>10. RequestRests /\ is_recovered' = TRUE /\ unfinished' = NoRecords /\ RecoverInv'
  BY <1>4, <1>9 DEF RequestRests, OneCopy, NothingLeft, DInv, CInv, CTypeOK, RecoverInv
<1>11. /\ part' = [part EXCEPT ![cur] = t] /\ Fit(t, clog.next, FALSE, ledger) /\ t.db = ledger
       /\ t.db = part[cur].db
  BY <1>3, <1>8 DEF s, n
<1>12. /\ pc'[Main] \notin {"initSet", "joinSet", "commit", "abort"}
       /\ participants' = participants \/ (participants' = participants \cup {cur} /\ t.db = ledger)
       /\ \A k \in Keys : ledger[k] = Nil /\ t.db[k] # Nil => part[cur].db[k] # Nil
  BY <1>9, <1>11
<1>13. del_keys' = del_keys \/ (del_keys' = {} /\ participants' = P)
  BY <1>9
<1> QED
  BY <1>3, <1>10, <1>11, <1>12, <1>13, MainCallCopy

-----------------------------------------------------------------------------
(* The steps of a participant.                                             *)

(* A participant dies or restarts with the data and the log it has. *)
LEMMA OwnCopy ==
  ASSUME DInv, OneCopy, NEW p \in P, NEW t, part' = [part EXCEPT ![p] = t],
         Fit(t, clog.next, Awaits(p), ledger), t.db = part[p].db, t.sessions = {},
         UNCHANGED <<cvars, issued, ledger>>
  PROVE  OneCopy'
<1>1. UNCHANGED <<clog, is_recovered, pc, req, todo, cmd, unfinished, participants, del_keys, cur, snapshot>>
  BY DEF cvars, recordVars, memberVars, workerVars, mainVars
<1>2. /\ \A q \in P : Awaits(q)' <=> Awaits(q)
      /\ Awaits(p)' = Awaits(p)
  BY <1>1 DEF Awaits
<1>3. /\ PlaceInv' /\ DataInv' /\ part'[p] = t
      /\ \A q \in P : q # p => part'[q] = part[q]
  BY <1>1, <1>2, OneMoves
<1>4. \A q \in P : part'[q].db = part[q].db
  BY <1>3
<1>5. NothingLeft'
  BY <1>1 DEF OneCopy, NothingLeft, InUpdate
<1>6. MemberInv' /\ DelInv'
  BY <1>1, <1>4 DEF OneCopy, MemberInv, DelInv, DInv, CInv, CTypeOK
<1>7. RecoverInv'
  <2>1. cur \in P /\ (Live(cur, "beat")' => Live(cur, "beat") /\ part'[cur] = part[cur])
    BY <1>1, <1>3, CopyFacts DEF Live
  <2> QED
    BY <1>1, <1>4, <2>1 DEF OneCopy, RecoverInv
<1> QED
  BY <1>3, <1>5, <1>6, <1>7 DEF OneCopy

(* A participant is killed between two calls, or started again. *)
LEMMA ParticipantCopy ==
  ASSUME DInv, OneCopy, ParticipantCrash \/ ParticipantRestart
  PROVE  OneCopy'
<1>1. PICK p \in P : Crash(p) \/ Restart(p)
  BY DEF ParticipantCrash, ParticipantRestart
<1>2. UNCHANGED <<cvars, issued, ledger>>
  BY DEF ParticipantCrash, ParticipantRestart
<1>3. part[p] \in States /\ Fit(part[p], clog.next, Awaits(p), ledger) /\ clog.next \in Nat /\ clog.next # 0
      /\ Awaits(p) \in BOOLEAN
  BY CopyFacts
<1>4. CASE Crash(p)
  <2>1. part' = [part EXCEPT ![p] = Dead(part[p])]
    BY <1>4 DEF Crash
  <2>2. Fit(Dead(part[p]), clog.next, Awaits(p), ledger)
    BY <1>3, FitDies
  <2>3. Dead(part[p]).db = part[p].db /\ Dead(part[p]).sessions = {}
    BY <1>3, DeadParts
  <2> QED
    BY <1>2, <2>1, <2>2, <2>3, OwnCopy
<1>5. CASE Restart(p)
  <2>1. /\ part[p].status = "down"
        /\ \/ part' = [part EXCEPT ![p] = Recovered(part[p])]
           \/ part' = [part EXCEPT ![p] = [part[p] EXCEPT !.status = "hung"]]
    BY <1>5 DEF Restart
  <2>2. PICK s \in States : s = part[p]
    BY <1>3
  <2>3. /\ Fit(Recovered(s), clog.next, Awaits(p), ledger) /\ Recovered(s).db = s.db
        /\ Recovered(s).sessions = {}
        /\ Fit([s EXCEPT !.status = "hung"], clog.next, Awaits(p), ledger)
        /\ [s EXCEPT !.status = "hung"].db = s.db /\ [s EXCEPT !.status = "hung"].sessions = {}
    BY <1>3, <2>1, <2>2, RecoveredFit
  <2>4. CASE part' = [part EXCEPT ![p] = Recovered(s)]
    BY <1>2, <2>2, <2>3, <2>4, OwnCopy
  <2>5. CASE part' = [part EXCEPT ![p] = [s EXCEPT !.status = "hung"]]
    BY <1>2, <2>2, <2>3, <2>5, OwnCopy
  <2> QED
    BY <2>1, <2>2, <2>4, <2>5
<1> QED
  BY <1>1, <1>4, <1>5

(* No call is left in a server. *)
LEMMA NothingLate ==
  ASSUME OneCopy PROVE ~LateCall
BY DEF LateCall, OneCopy, PlaceInv, Placed

-----------------------------------------------------------------------------
(* Every step.                                                             *)

(* A step counts at most one fault, and what has happened stays. *)
LEMMA FaultsStay ==
  ASSUME Counts, [Next]_vars
  PROVE  Counts' /\ (FailStop' => FailStop)
<1>1. UNCHANGED faults \/ \E f \in {"timeout", "kill", "crash"} : Fault(f)
  <2>1. CASE WorkerRuns
    BY <2>1 DEF WorkerRuns, Commit, Abort, Prepare, Get, Decide, Rpc, Ask
  <2>2. CASE MainRuns
    BY <2>2 DEF MainRuns, Commit, Abort, QueryInit, QueryJoin, Heartbeat, SetNextIdInit, SetNextIdJoin,
       GetSnapshot, Recover, BeginUnfinished, Rpc, Ask, AskNew
  <2>3. CASE NewUpdate \/ NewGet \/ Boot \/ ParticipantRestart \/ LateCall
    BY <2>3 DEF NewUpdate, NewGet, Boot, ParticipantRestart, LateCall
  <2>4. CASE CoordinatorCrash \/ ParticipantCrash
    BY <2>4 DEF CoordinatorCrash, ParticipantCrash
  <2>5. CASE UNCHANGED vars
    BY <2>5 DEF vars
  <2> QED
    BY <2>1, <2>2, <2>3, <2>4, <2>5 DEF Next
<1>2. deserted' = deserted \/ deserted' = (deserted \/ Deserted')
  BY DEF Next, vars, WorkerRuns, MainRuns, NewUpdate, NewGet, Boot, ParticipantRestart, LateCall,
     CoordinatorCrash, ParticipantCrash
<1>3. ~deserted' => ~deserted
  BY <1>2, Zenon
<1>4. CASE UNCHANGED faults
  BY <1>4, <1>3 DEF Counts, FailStop
<1>5. ASSUME NEW f \in {"timeout", "kill", "crash"}, Fault(f) PROVE Counts' /\ (FailStop' => FailStop)
  <2>1. /\ Counts' /\ faults'[f] # 0
        /\ \A g \in {"timeout", "kill", "crash"} : g # f => faults'[g] = faults[g]
    BY <1>5, FaultCounts
  <2>2. f = "kill" => faults'["timeout"] = faults["timeout"] /\ faults'["crash"] = faults["crash"]
    BY <2>1
  <2>3. CASE f = "kill"
    BY <1>3, <2>1, <2>2, <2>3 DEF FailStop
  <2>4. CASE f \in {"timeout", "crash"}
    BY <2>1, <2>4 DEF FailStop
  <2> QED
    BY <2>1, <2>3, <2>4
<1> QED
  BY <1>1, <1>4, <1>5

(* The worker's steps. *)
LEMMA WorkerRunsCopy ==
  ASSUME DInv, DInv', OneCopy, Counts, FailStop', WorkerRuns
  PROVE  OneCopy'
<1>1. deserted' = (deserted \/ Deserted')
  BY DEF WorkerRuns
<1>2. CASE (Commit(Worker) \/ Abort(Worker) \/ Prepare \/ Get) /\ UNCHANGED <<issued, ledger>>
  BY <1>1, <1>2, CommitCopy, AbortCopy, PrepareCopy, GetCopy
<1>3. CASE /\ CommitEnd(Worker) \/ AbortEnd(Worker) \/ PrepareAllDead
           /\ UNCHANGED <<part, faults, issued, ledger>>
  BY <1>3, EndCopy, NotAllDead
<1>4. CASE Decide
  BY <1>4, DecideCopy
<1> QED
  BY <1>2, <1>3, <1>4 DEF WorkerRuns

(* The main thread's steps. *)
LEMMA MainRunsCopy ==
  ASSUME DInv, DInv', OneCopy, Counts, FailStop', MainRuns
  PROVE  OneCopy'
<1>1. UNCHANGED <<issued, ledger>>
  BY DEF MainRuns
<1>2. CASE QueryInit \/ QueryJoin \/ GetSnapshot
  BY <1>1, <1>2, QueryInitCopy, QueryJoinCopy, SnapshotCopy
<1>3. CASE Recover \/ SetNextIdJoin
  BY <1>1, <1>3, RecoverCopy, RecoverSetCopy
<1>4. CASE Heartbeat \/ BeginUnfinished \/ ((UnfinishedEnd \/ Drop \/ Join \/ Wait) /\ UNCHANGED part)
  BY <1>1, <1>4, MainWalksCopy
<1> QED
  BY <1>2, <1>3, <1>4, MainNeverDoes DEF MainRuns

(* The system starts with equal logs and databases. *)
LEMMA InitReplicaInv ==
  ASSUME Init, InitNext # 0
  PROVE  ReplicaInv
<1> DEFINE s == FirstState
<1>1. /\ clog = EmptyLog(InitNext) /\ pc[Main] = "down" /\ pc[Worker] = "idle" /\ is_recovered
      /\ unfinished = NoRecords /\ participants = {}
  BY DEF Init, CInit, Main, Worker, Threads
<1>2. ~InUpdate /\ \A p \in P : ~Awaits(p) /\ Awaits(p) = FALSE
  BY <1>1 DEF InUpdate, Awaits
<1>3. /\ EmptyLog(InitNext).next = InitNext /\ \A i \in Ids : EmptyLog(InitNext).recs[i] = NoRecord
  BY DEF EmptyLog, NoRecords
<1>4. \A p \in P : part[p] \in States
  BY InitDInv DEF DInv, PTypeOK
<1>5. PICK l : l = EmptyLog(InitNext)
  OBVIOUS
<1>6. /\ s.status = "up" /\ s.next_id = InitNext /\ s.log = l /\ s.db = InitDb
      /\ s.sessions = {} /\ s.inbox = {}
  BY <1>5 DEF FirstState
<1>7. \A p \in P : part[p] = IF p \in InitUp THEN s ELSE Dead(s)
  BY DEF Init, PInit, FirstState
<1>8. s \in States
  BY FirstStateType
<1> HIDE DEF s
<1>9. PendingIds(s) = {}
  BY <1>3, <1>5, <1>6 DEF PendingIds
<1>10. Fit(s, InitNext, FALSE, InitDb)
  BY <1>3, <1>5, <1>6, <1>9, InitNextAssumption DEF Fit, Placed, Holds
<1>11. Fit(Dead(s), InitNext, FALSE, InitDb) /\ Dead(s).db = InitDb
  BY <1>6, <1>8, <1>10, InitNextAssumption, FitDies, DeadParts
<1>12. \A p \in P : Fit(part[p], clog.next, Awaits(p), ledger) /\ part[p].db = ledger
  BY <1>1, <1>2, <1>3, <1>6, <1>7, <1>10, <1>11 DEF Init
<1>13. PlaceInv /\ DataInv /\ DelInv
  <2>1. ledger \in Dbs
    BY ParticipantAssumption DEF Init
  <2> QED
    BY <1>12, <2>1 DEF PlaceInv, DataInv, DelInv, Fit
<1>14. NothingLeft /\ MemberInv /\ RecoverInv
  BY <1>1, <1>2, <1>3 DEF NothingLeft, MemberInv, RecoverInv
<1>15. faults \in [timeout : Nat, kill : Nat, crash : Nat]
  BY DEF Init
<1> QED
  BY <1>13, <1>14, <1>15 DEF ReplicaInv, OneCopy

(* A step keeps the one copy, or is the fault that is excluded. *)
LEMMA NextReplicaInv ==
  ASSUME ~EarlyClients, DInv, DInv', ReplicaInv, [Next]_vars
  PROVE  ReplicaInv'
<1>1. Counts /\ Counts' /\ (FailStop' => FailStop)
  BY FaultsStay DEF ReplicaInv, Counts
<1> SUFFICES ASSUME FailStop' PROVE OneCopy'
  BY <1>1 DEF ReplicaInv, Counts
<1>2. OneCopy
  BY <1>1 DEF ReplicaInv
<1>3. CASE WorkerRuns
  BY <1>1, <1>2, <1>3, WorkerRunsCopy
<1>4. CASE MainRuns
  BY <1>1, <1>2, <1>4, MainRunsCopy
<1>5. CASE NewUpdate
  BY <1>2, <1>5, NewUpdateCopy
<1>6. CASE NewGet \/ Boot
  BY <1>2, <1>6, BootGetCopy
<1>7. CASE ParticipantCrash \/ ParticipantRestart
  BY <1>2, <1>7, ParticipantCopy
<1>8. CASE LateCall
  BY <1>2, <1>8, NothingLate
<1>9. ~CoordinatorCrash
  BY <1>1, FaultCounts DEF CoordinatorCrash, FailStop
<1>10. CASE UNCHANGED vars
  <2>1. OneCopy' <=> OneCopy
    BY <1>10 DEF vars, cvars, recordVars, memberVars, workerVars, mainVars, OneCopy, NothingLeft, PlaceInv,
       DataInv, MemberInv, DelInv, RecoverInv, InUpdate, Awaits, Live
  <2> QED
    BY <1>2, <2>1
<1> QED
  BY <1>3, <1>4, <1>5, <1>6, <1>7, <1>8, <1>9, <1>10 DEF Next

(* The inductive invariant behind one-copy behaviour: what NEXT_ID answers, *)
(* now or after a restart, never promises more than the database holds, and *)
(* del_keys_ names every key a snapshot could not take away.                *)
THEOREM ReplicasInductive == ~EarlyClients /\ InitNext # 0 => (Spec => []ReplicaInv)
<1> SUFFICES ASSUME ~EarlyClients, InitNext # 0 PROVE Spec => []ReplicaInv
  OBVIOUS
<1>1. Init => ReplicaInv
  BY InitReplicaInv
<1>2. DInv /\ DInv' /\ ReplicaInv /\ [Next]_vars => ReplicaInv'
  BY NextReplicaInv
<1> QED
  BY <1>1, <1>2, StoresInductive, PTL DEF Spec

(* One-copy behaviour when participants die, also in the middle of a call,  *)
(* and are restarted: whoever answers a GET has every committed update and  *)
(* no deleted key, for any number of kills, as long as no update loses all  *)
(* its participants.                                                        *)
THEOREM OneCopyFailStop == ~EarlyClients /\ InitNext # 0 => (Spec => []ReplicasFailStop)
<1> SUFFICES ASSUME ~EarlyClients, InitNext # 0 PROVE Spec => []ReplicasFailStop
  OBVIOUS
<1>1. ReplicaInv => ReplicasFailStop
  <2> SUFFICES ASSUME ReplicaInv, FailStop, Quiet, NEW p \in participants PROVE part[p].db = ledger
    BY DEF ReplicasFailStop, Replicas
  <2>1. MemberInv
    BY DEF ReplicaInv, OneCopy
  <2> QED
    BY <2>1 DEF MemberInv, Quiet
<1> QED
  BY <1>1, ReplicasInductive, PTL
==============================================================================
