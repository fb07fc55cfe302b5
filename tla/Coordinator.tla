---------------------------- MODULE Coordinator ----------------------------
(***************************************************************************)
(* The coordinator of the Cdb key-value store, src/Lab3/src/coordinator.cpp.*)
(* Two of its threads matter: Main runs recovery() and then                *)
(* heartbeat_participants(); Worker is whichever thread of the TCP server  *)
(* holds participants_mutex_ while it serves a client request (the others  *)
(* wait for the mutex, so one is enough).                                  *)
(*                                                                         *)
(* Every remote call is one step in which the coordinator learns the       *)
(* outcome, a parameter of the step: the reply, or "exception" when the    *)
(* connection is dead or RPC_TIMEOUT passed.  In this module every outcome *)
(* is possible; module Cdb composes the steps with the participants that   *)
(* produce the outcomes.  A crash may come between any two steps.          *)
(***************************************************************************)
EXTENDS Configuration

CONSTANTS
  FirstIds,     \* the values std::rand() may give next_id_ when it is 0
  EarlyClients  \* may a client be served before recovery() returned?

ASSUME StartAssumption == FirstIds \subseteq Nat \ {0} /\ EarlyClients \in BOOLEAN

Main    == "main"
Worker  == "worker"
Threads == {Main, Worker}
Nobody  == "nobody"

VARIABLES
  clog,          \* r_manager_: the only state that survives a crash
  next_id,       \* next_id_
  is_recovered,  \* is_recovered
  participants,  \* keys of participants_: the participants taken for up to date
  del_keys,      \* del_keys_
  lock,          \* the owner of participants_mutex_
  pc,            \* where each thread is
  req,           \* the id of the request each thread works on, or 0
  todo,          \* the participants its loop over participants_ has yet to call
  cmd,           \* Worker: the client's command
  prepare_ok,    \* Worker: prepare_ok
  ret,           \* Worker: ret of commit_db_request
  cur,           \* Main: the participant init/heartbeat is at
  unfinished,    \* Main: the copy of the records in handle_unfinished_records
  snapshot,      \* Main: snapshot of recover_participant
  decided,       \* history: the decisions logged for each id
  answer         \* history: what the client of each id was sent

cvars == <<clog, next_id, is_recovered, participants, del_keys, lock, pc, req, todo,
           cmd, prepare_ok, ret, cur, unfinished, snapshot, decided, answer>>

recordVars == <<clog, decided>>
memberVars == <<is_recovered, participants, del_keys>>
workerVars == <<cmd, prepare_ok, ret>>
mainVars   == <<cur, unfinished, snapshot>>

MainPcs   == {"down", "initNext", "initSet", "copy", "unfinished", "commit", "abort", "beat",
              "drop", "join", "joinSet", "joinNext", "snapshot", "recover", "recoverSet", "wait"}
WorkerPcs == {"idle", "get", "prepare", "commit", "abort"}
Answers   == Results \cup {"", "send_error", "none"}

CTypeOK ==
  /\ clog \in Logs
  /\ next_id \in Nat
  /\ is_recovered \in BOOLEAN
  /\ participants \subseteq P
  /\ del_keys \subseteq Keys
  /\ lock \in Threads \cup {Nobody}
  /\ pc \in [Threads -> MainPcs \cup WorkerPcs]
  /\ pc[Main] \in MainPcs /\ pc[Worker] \in WorkerPcs
  /\ req \in [Threads -> Ids \cup {0}]
  /\ todo \in [Threads -> SUBSET P]
  /\ cmd \in Cmds \cup {NoCmd}
  /\ prepare_ok \in BOOLEAN
  /\ ret \in Results \cup {""}
  /\ cur \in P
  /\ unfinished \in Records
  /\ snapshot \in Dbs
  /\ decided \in [Ids -> SUBSET {"COMMIT", "ABORT"}]
  /\ answer \in [Ids -> Answers]

\* begin() of an ordered container with these keys, as a set: {} if it is empty.
Begin(S) == {p \in S : \A q \in S : p <= q}

CInit ==
  /\ clog = EmptyLog(InitNext)
  /\ decided = [i \in Ids |-> {}]
  /\ answer = [i \in Ids |-> "none"]
  /\ next_id = 0 /\ is_recovered = TRUE /\ participants = {} /\ del_keys = {}
  /\ lock = Nobody
  /\ pc = [t \in Threads |-> IF t = Main THEN "down" ELSE "idle"]
  /\ req = [t \in Threads |-> 0] /\ todo = [t \in Threads |-> {}]
  /\ cmd = NoCmd /\ prepare_ok = TRUE /\ ret = ""
  /\ cur \in Begin(P) /\ unfinished = NoRecords /\ snapshot = EmptyDb

\* Everything but the log is lost with the process.
CrashCoordinator ==
  /\ pc[Main] # "down"
  /\ next_id' = 0 /\ is_recovered' = TRUE /\ participants' = {} /\ del_keys' = {}
  /\ lock' = Nobody
  /\ pc' = [t \in Threads |-> IF t = Main THEN "down" ELSE "idle"]
  /\ req' = [t \in Threads |-> 0] /\ todo' = [t \in Threads |-> {}]
  /\ cmd' = NoCmd /\ prepare_ok' = TRUE /\ ret' = ""
  /\ cur' \in Begin(P) /\ unfinished' = NoRecords /\ snapshot' = EmptyDb
  /\ UNCHANGED <<clog, decided, answer>>

-----------------------------------------------------------------------------
(* commit_db_request and abort_db_request, run by either thread.           *)

Goto(t, l) == pc' = [pc EXCEPT ![t] = l]

\* r_manager_.log({ status, id, next_id_ })
Log(status, id) ==
  /\ clog' = LogRecord(clog, status, id, next_id)
  /\ decided' = IF status \in {"COMMIT", "ABORT"}
                THEN [decided EXCEPT ![id] = @ \cup {status}] ELSE decided

\* Mutant: COMMIT is sent before its record is written.
StartCommitUnlogged(t, id) ==
  /\ UNCHANGED recordVars
  /\ req' = [req EXCEPT ![t] = id]
  /\ todo' = [todo EXCEPT ![t] = participants]
  /\ ret' = IF t = Worker THEN "" ELSE ret
  /\ Goto(t, "commit")

StartCommit(t, id) ==
  /\ Log("COMMIT", id)
  /\ req' = [req EXCEPT ![t] = id]
  /\ todo' = [todo EXCEPT ![t] = participants]
  /\ ret' = IF t = Worker THEN "" ELSE ret
  /\ Goto(t, "commit")

StartAbort(t, id) ==
  /\ Log("ABORT", id)
  /\ req' = [req EXCEPT ![t] = id]
  /\ todo' = [todo EXCEPT ![t] = participants]
  /\ ret' = ret
  /\ Goto(t, "abort")

\* The loop body: an exception erases the participant, anything else moves on.
Visited(t, p, r) ==
  /\ p \in Begin(todo[t])
  /\ todo' = [todo EXCEPT ![t] = @ \ {p}]
  /\ participants' = IF r = "exception" THEN participants \ {p} ELSE participants

CommitReturns(t, p, r) ==
  /\ pc[t] = "commit"
  /\ Visited(t, p, r)
  /\ ret' = IF t = Worker /\ ret = "" /\ r # "exception" THEN r ELSE ret
  /\ UNCHANGED <<recordVars, next_id, is_recovered, del_keys, lock, pc, req, cmd, prepare_ok,
                 mainVars, answer>>

AbortReturns(t, p, r) ==
  /\ pc[t] = "abort"
  /\ Visited(t, p, r)
  /\ UNCHANGED <<recordVars, next_id, is_recovered, del_keys, lock, pc, req, workerVars,
                 mainVars, answer>>

\* Mutant: a DONE record needs every configured participant.
LogDoneIfAll(t, status) ==
  IF participants = P THEN Log(status, req[t]) ELSE UNCHANGED recordVars

\* A DONE record is logged only while some participant is left.
LogDone(t, status) ==
  IF participants # {} THEN Log(status, req[t]) ELSE UNCHANGED recordVars

\* Worker replies, unlocks and forgets its locals; Main has no client and
\* takes the next record.
Finish(t, a) ==
  /\ req' = [req EXCEPT ![t] = 0]
  /\ IF t = Worker
     THEN /\ answer' = [answer EXCEPT ![req[t]] = a]
          /\ lock' = Nobody
          /\ Goto(t, "idle")
          /\ cmd' = NoCmd /\ prepare_ok' = TRUE /\ ret' = ""
     ELSE /\ Goto(t, "unfinished")
          /\ UNCHANGED <<answer, lock, workerVars>>

\* Mutant: the client is told "+OK" although no participant answered.
CommitEndAlwaysOk(t) ==
  /\ pc[t] = "commit" /\ todo[t] = {}
  /\ LogDone(t, "COMMIT_DONE")
  /\ Finish(t, IF ret = "" THEN "+OK" ELSE ret)
  /\ UNCHANGED <<next_id, memberVars, todo, mainVars>>

CommitEnd(t) ==
  /\ pc[t] = "commit" /\ todo[t] = {}
  /\ LogDone(t, "COMMIT_DONE")
  /\ Finish(t, ret)
  /\ del_keys' = IF t = Worker /\ cmd.type = "DEL" /\ participants # P
                 THEN del_keys \cup cmd.keys ELSE del_keys
  /\ UNCHANGED <<next_id, is_recovered, participants, todo, mainVars>>

AbortEnd(t) ==
  /\ pc[t] = "abort" /\ todo[t] = {}
  /\ LogDone(t, "ABORT_DONE")
  /\ Finish(t, "send_error")
  /\ UNCHANGED <<next_id, memberVars, todo, mainVars>>

-----------------------------------------------------------------------------
(* Client requests.  With participants_ empty a request is refused by      *)
(* send_error() and changes nothing, so these steps need a participant.    *)

\* svr_.start() comes before recovery(): requests may be served while Main is
\* still in handle_unfinished_records(), which holds no lock during start-up.
Serving == pc[Main] \in {"beat", "drop", "join", "wait"}
                        \cup (IF EarlyClients THEN {"copy", "unfinished", "commit", "abort"} ELSE {})

Accept == Serving /\ lock = Nobody /\ pc[Worker] = "idle" /\ participants # {} /\ lock' = Worker

\* Mutant: the record is written before next_id_ is incremented.
BeginUpdateOldNext(c) ==
  /\ Accept
  /\ next_id \in Ids
  /\ next_id' = next_id + 1
  /\ clog' = LogRecord(clog, "UNRESOLVED", next_id, next_id)
  /\ req' = [req EXCEPT ![Worker] = next_id]
  /\ todo' = [todo EXCEPT ![Worker] = participants]
  /\ cmd' = c /\ prepare_ok' = TRUE /\ ret' = ""
  /\ Goto(Worker, "prepare")
  /\ UNCHANGED <<decided, memberVars, mainVars, answer>>

BeginUpdate(c) ==
  /\ Accept
  /\ next_id \in Ids                     \* bound: MaxId requests
  /\ next_id' = next_id + 1
  /\ clog' = LogRecord(clog, "UNRESOLVED", next_id, next_id + 1)
  /\ req' = [req EXCEPT ![Worker] = next_id]
  /\ todo' = [todo EXCEPT ![Worker] = participants]
  /\ cmd' = c /\ prepare_ok' = TRUE /\ ret' = ""
  /\ Goto(Worker, "prepare")
  /\ UNCHANGED <<decided, memberVars, mainVars, answer>>

\* PREPARE_SET / PREPARE_DEL returned: a false reply breaks out of the loop.
PrepareReturns(p, r) ==
  /\ pc[Worker] = "prepare"
  /\ p \in Begin(todo[Worker])
  /\ prepare_ok' = (r # "false")
  /\ todo' = [todo EXCEPT ![Worker] = IF r = "false" THEN {} ELSE @ \ {p}]
  /\ participants' = IF r = "exception" THEN participants \ {p} ELSE participants
  /\ UNCHANGED <<recordVars, next_id, is_recovered, del_keys, lock, pc, req, cmd, ret,
                 mainVars, answer>>

\* Mutant: the check for an empty participants_ is made only after a refusal.
PrepareAllDeadIfRefused ==
  /\ pc[Worker] = "prepare" /\ todo[Worker] = {} /\ participants = {} /\ ~prepare_ok
  /\ Finish(Worker, "send_error")
  /\ UNCHANGED <<recordVars, next_id, memberVars, todo, mainVars>>

\* Nobody is left: the client gets an error and the record stays UNRESOLVED.
PrepareAllDead ==
  /\ pc[Worker] = "prepare" /\ todo[Worker] = {} /\ participants = {}
  /\ Finish(Worker, "send_error")
  /\ UNCHANGED <<recordVars, next_id, memberVars, todo, mainVars>>

PrepareEnd ==
  /\ pc[Worker] = "prepare" /\ todo[Worker] = {} /\ participants # {}
  /\ IF prepare_ok THEN StartCommit(Worker, req[Worker]) ELSE StartAbort(Worker, req[Worker])
  /\ UNCHANGED <<next_id, memberVars, lock, cmd, prepare_ok, mainVars, answer>>

BeginGet ==
  /\ Accept
  /\ Goto(Worker, "get")
  /\ UNCHANGED <<recordVars, next_id, memberVars, req, todo, workerVars, mainVars, answer>>

\* GET goes to the first participant and, when that fails, to the next one.
GetReturns(p, r) ==
  /\ pc[Worker] = "get"
  /\ p \in Begin(participants)
  /\ participants' = IF r = "exception" THEN participants \ {p} ELSE participants
  /\ IF r = "exception" /\ participants' # {}
     THEN UNCHANGED <<pc, lock>>
     ELSE Goto(Worker, "idle") /\ lock' = Nobody
  /\ UNCHANGED <<recordVars, next_id, is_recovered, del_keys, req, todo, workerVars,
                 mainVars, answer>>

-----------------------------------------------------------------------------
(* recovery(): next_id_, init_participants(), handle_unfinished_records(). *)

After(p) == {q \in P : q > p}

StartCoordinator ==
  /\ pc[Main] = "down"
  /\ clog' = InitRecords(clog)
  /\ next_id' \in IF clog.next = 0 THEN FirstIds ELSE {clog.next}
  /\ is_recovered' = (clog.next # 0)
  /\ lock' = Main
  /\ cur' \in Begin(P)
  /\ Goto(Main, "initNext")
  /\ UNCHANGED <<participants, del_keys, req, todo, workerVars, unfinished, snapshot, decided, answer>>

\* Mutant: a participant that fails is tried again at once.
InitAdvanceRetries(keep) ==
  /\ participants' = IF keep THEN participants \cup {cur} ELSE participants \ {cur}
  /\ CASE ~keep -> UNCHANGED <<lock, cur>> /\ Goto(Main, "initNext")
       [] keep /\ After(cur) = {} -> lock' = Nobody /\ cur' \in Begin(P) /\ Goto(Main, "copy")
       [] OTHER -> lock' = lock /\ cur' \in Begin(After(cur)) /\ Goto(Main, "initNext")

\* The end of init_participant(cur); after the last one the lock is released.
InitAdvance(keep) ==
  /\ participants' = IF keep THEN participants \cup {cur} ELSE participants \ {cur}
  /\ IF After(cur) = {}
     THEN lock' = Nobody /\ cur' \in Begin(P) /\ Goto(Main, "copy")
     ELSE lock' = lock /\ cur' \in Begin(After(cur)) /\ Goto(Main, "initNext")

\* The last test looks up next_id_, an id no record has yet.
InitUpToDate(n) ==
  \/ n = next_id
  \/ n + 1 = next_id /\ next_id \in Ids /\ clog.recs[next_id] = "ABORT"

InitNextReturns(r, n) ==
  /\ pc[Main] = "initNext"
  /\ IF r = "ok" /\ ~is_recovered
     THEN Goto(Main, "initSet") /\ UNCHANGED <<participants, lock, cur>>
     ELSE InitAdvance(r = "ok" /\ InitUpToDate(n))
  /\ UNCHANGED <<recordVars, next_id, is_recovered, del_keys, req, todo, workerVars,
                 unfinished, snapshot, answer>>

InitSetReturns(r) ==
  /\ pc[Main] = "initSet"
  /\ InitAdvance(r = "ok")
  /\ UNCHANGED <<recordVars, next_id, is_recovered, del_keys, req, todo, workerVars,
                 unfinished, snapshot, answer>>

\* handle_unfinished_records() works on a copy of the records.
CopyRecords ==
  /\ pc[Main] = "copy"
  /\ unfinished' = clog.recs
  /\ Goto(Main, "unfinished")
  /\ UNCHANGED <<recordVars, next_id, memberVars, lock, req, todo, workerVars, cur, snapshot, answer>>

\* Mutant: every unfinished record is aborted.
ResolveAbortsAll(id) ==
  /\ pc[Main] = "unfinished"
  /\ id \in Begin({i \in Ids : unfinished[i] # NoRecord})
  /\ unfinished' = [unfinished EXCEPT ![id] = NoRecord]
  /\ StartAbort(Main, id)
  /\ UNCHANGED <<next_id, memberVars, lock, cmd, prepare_ok, cur, snapshot, answer>>

\* Mutant: RECORD_UNRESOLVED falls through to RECORD_COMMIT.
ResolveFallsThrough(id) ==
  /\ pc[Main] = "unfinished"
  /\ id \in Begin({i \in Ids : unfinished[i] # NoRecord})
  /\ unfinished' = [unfinished EXCEPT ![id] = NoRecord]
  /\ IF unfinished[id] \in {"UNRESOLVED", "COMMIT"} THEN StartCommit(Main, id) ELSE StartAbort(Main, id)
  /\ UNCHANGED <<next_id, memberVars, lock, cmd, prepare_ok, cur, snapshot, answer>>

Resolve(id) ==
  /\ pc[Main] = "unfinished"
  /\ id \in Begin({i \in Ids : unfinished[i] # NoRecord})
  /\ unfinished' = [unfinished EXCEPT ![id] = NoRecord]
  /\ IF unfinished[id] = "COMMIT" THEN StartCommit(Main, id) ELSE StartAbort(Main, id)
  /\ UNCHANGED <<next_id, memberVars, lock, cmd, prepare_ok, cur, snapshot, answer>>

\* The heartbeat loop moves on to the next participant, or to its wait_for.
NextBeat == IF After(cur) = {}
            THEN cur' = cur /\ Goto(Main, "wait")
            ELSE cur' \in Begin(After(cur)) /\ Goto(Main, "beat")

\* At start-up Main owns no lock here and enters the heartbeat loop.
UnfinishedEnd ==
  /\ pc[Main] = "unfinished"
  /\ unfinished = NoRecords
  /\ IF lock = Main THEN lock' = Nobody /\ NextBeat
                    ELSE lock' = lock /\ cur' \in Begin(P) /\ Goto(Main, "beat")
  /\ UNCHANGED <<recordVars, next_id, memberVars, req, todo, workerVars, unfinished, snapshot, answer>>

-----------------------------------------------------------------------------
(* heartbeat_participants() and recover_participant().                     *)

BeatReturns(r) ==
  /\ pc[Main] = "beat"
  /\ Goto(Main, IF r = "ok" THEN "join" ELSE "drop")
  /\ UNCHANGED <<recordVars, next_id, memberVars, lock, req, todo, workerVars, mainVars, answer>>

\* Mutant: the catch clause does not take the lock.
DropUnlocked ==
  /\ pc[Main] = "drop"
  /\ participants' = participants \ {cur}
  /\ NextBeat
  /\ UNCHANGED <<recordVars, next_id, is_recovered, del_keys, lock, req, todo, workerVars,
                 unfinished, snapshot, answer>>

\* The catch clause: lock, erase, unlock.
Drop ==
  /\ pc[Main] = "drop" /\ lock = Nobody
  /\ participants' = participants \ {cur}
  /\ NextBeat
  /\ UNCHANGED <<recordVars, next_id, is_recovered, del_keys, lock, req, todo, workerVars,
                 unfinished, snapshot, answer>>

\* Mutant: an answered HEARTBEAT never leads to a recovery.
JoinNever ==
  /\ pc[Main] = "join" /\ lock = Nobody
  /\ NextBeat
  /\ UNCHANGED <<recordVars, next_id, memberVars, lock, req, todo, workerVars, unfinished, snapshot, answer>>

\* HEARTBEAT was answered: lock, and recover the participant if it is out.
Join ==
  /\ pc[Main] = "join" /\ lock = Nobody
  /\ IF cur \in participants
     THEN lock' = lock /\ NextBeat
     ELSE lock' = Main /\ cur' = cur /\ Goto(Main, IF is_recovered THEN "joinNext" ELSE "joinSet")
  /\ UNCHANGED <<recordVars, next_id, memberVars, req, todo, workerVars, unfinished, snapshot, answer>>

\* recover_participant() returned true: the participant is back.
Joined ==
  /\ participants' = participants \cup {cur}
  /\ del_keys' = IF participants' = P THEN {} ELSE del_keys
  /\ Goto(Main, "copy")
  /\ UNCHANGED <<lock, cur>>

\* It returned false.
NotJoined ==
  /\ lock' = Nobody
  /\ NextBeat
  /\ UNCHANGED del_keys

\* It threw: the lock is released and the catch clause runs.
JoinThrew ==
  /\ lock' = Nobody
  /\ Goto(Main, "drop")
  /\ UNCHANGED <<participants, del_keys, cur>>

JoinSetReturns(r) ==
  /\ pc[Main] = "joinSet"
  /\ IF r = "ok" THEN is_recovered' = TRUE /\ Joined
                 ELSE is_recovered' = is_recovered /\ JoinThrew
  /\ UNCHANGED <<recordVars, next_id, req, todo, workerVars, unfinished, snapshot, answer>>

JoinUpToDate(n) ==
  \/ n = next_id
  \/ n + 1 = next_id /\ n \in Ids /\ clog.recs[n] = "UNRESOLVED"

JoinNextReturns(r, n) ==
  /\ pc[Main] = "joinNext"
  /\ CASE r # "ok"                               -> JoinThrew
       [] r = "ok" /\ JoinUpToDate(n)            -> Joined
       [] r = "ok" /\ ~JoinUpToDate(n) /\ participants = {} ->
            NotJoined /\ UNCHANGED participants
       [] OTHER -> Goto(Main, "snapshot") /\ UNCHANGED <<participants, del_keys, lock, cur>>
  /\ UNCHANGED <<recordVars, next_id, is_recovered, req, todo, workerVars, unfinished, snapshot, answer>>

SnapshotReturns(p, r, s) ==
  /\ pc[Main] = "snapshot"
  /\ p \in Begin(participants)
  /\ IF r = "ok"
     THEN /\ snapshot' = s
          /\ Goto(Main, "recover")
          /\ UNCHANGED <<participants, del_keys, lock, cur>>
     ELSE /\ snapshot' = snapshot
          /\ participants' = participants \ {p}
          /\ IF participants' = {} THEN NotJoined ELSE UNCHANGED <<pc, del_keys, lock, cur>>
  /\ UNCHANGED <<recordVars, next_id, is_recovered, req, todo, workerVars, unfinished, answer>>

\* The result of RECOVER is not looked at, only whether the call returned.
RecoverReturns(r) ==
  /\ pc[Main] = "recover"
  /\ snapshot' = EmptyDb
  /\ IF r = "ok" THEN Goto(Main, "recoverSet") /\ UNCHANGED <<del_keys, lock, cur>>
                 ELSE NotJoined
  /\ UNCHANGED <<recordVars, next_id, is_recovered, participants, req, todo, workerVars,
                 unfinished, answer>>

RecoverSetReturns(r) ==
  /\ pc[Main] = "recoverSet"
  /\ IF r = "ok" THEN Joined ELSE NotJoined /\ UNCHANGED participants
  /\ UNCHANGED <<recordVars, next_id, is_recovered, req, todo, workerVars, unfinished, snapshot, answer>>

\* wait_for(lock, 1s): the lock is free before and after.
Wait ==
  /\ pc[Main] = "wait" /\ lock = Nobody
  /\ cur' \in Begin(P)
  /\ Goto(Main, "beat")
  /\ UNCHANGED <<recordVars, next_id, memberVars, lock, req, todo, workerVars, unfinished,
                 snapshot, answer>>

-----------------------------------------------------------------------------
(* The coordinator by itself: any participant may answer anything.         *)

CONSTANT NextIds     \* the answers to NEXT_ID that are tried

Outcomes == {"ok", "exception"}

\* commit_db_request and abort_db_request in thread t
UpdateStep(t) ==
  \/ \E p \in P, r \in Results \cup {"", "exception"} : CommitReturns(t, p, r)
  \/ \E p \in P, r \in {"true", "exception"} : AbortReturns(t, p, r)
  \/ CommitEnd(t)
  \/ AbortEnd(t)

WorkerStep ==
  \/ UpdateStep(Worker)
  \/ \E p \in P, r \in {"true", "false", "exception"} : PrepareReturns(p, r)
  \/ PrepareAllDead
  \/ PrepareEnd
  \/ \E p \in P, r \in Outcomes : GetReturns(p, r)

MainStep ==
  \/ UpdateStep(Main)
  \/ \E r \in Outcomes, n \in NextIds : InitNextReturns(r, n) \/ JoinNextReturns(r, n)
  \/ \E r \in Outcomes : InitSetReturns(r) \/ BeatReturns(r) \/ JoinSetReturns(r)
  \/ \E r \in Outcomes : RecoverReturns(r) \/ RecoverSetReturns(r)
  \/ \E p \in P, r \in Outcomes, s \in Dbs : SnapshotReturns(p, r, s)
  \/ \E id \in Ids : Resolve(id)
  \/ CopyRecords
  \/ UnfinishedEnd
  \/ Drop
  \/ Join
  \/ Wait

Client == BeginGet \/ \E c \in Cmds : BeginUpdate(c)

CNext == MainStep \/ WorkerStep \/ Client \/ StartCoordinator \/ CrashCoordinator

CSpec == CInit /\ [][CNext]_cvars

\* Every call returns, at the latest after RPC_TIMEOUT, and neither thread
\* waits for anything else while it holds the lock.
CFairSpec == CSpec /\ WF_cvars(MainStep) /\ WF_cvars(WorkerStep)

-----------------------------------------------------------------------------
(* Properties.                                                             *)

\* No request is ever decided both ways, in whatever order the coordinator
\* logs, crashes, recovers and retries: commit_db_request and
\* abort_db_request never both log a decision for one id.
Agreement == \A i \in Ids : decided[i] # {"COMMIT", "ABORT"}

\* What the client was told is what was decided: after send_error() the
\* request is never committed, not even by a later handle_unfinished_records();
\* a result of the participants is sent only for a committed request.
AnswerMatchesDecision ==
  \A i \in Ids : /\ answer[i] = "send_error" => "COMMIT" \notin decided[i]
                 /\ answer[i] \in Results => decided[i] = {"COMMIT"}

\* The loops of one thread never stand on a map entry the other has erased:
\* the lock (or the order of start-up) protects participants_.
IteratorsValid == \A t \in Threads : todo[t] \subseteq participants

\* The next_id found by a restart never goes back, and an id is logged
\* UNRESOLVED, hence handed to a client request, at most once over all
\* restarts of the coordinator.
IdsNotReused ==
  [][/\ clog'.next >= clog.next
     /\ \A i \in Ids : clog.recs[i] # "UNRESOLVED" /\ clog'.recs[i] = "UNRESOLVED"
                         => decided[i] = {} /\ answer[i] = "none" /\ i >= clog.next]_cvars

\* Only the request that is being prepared, with no PREPARE refused, is
\* newly committed; recovery repeats decisions and otherwise aborts.
CommitOnlyPrepared ==
  [][\A i \in Ids : "COMMIT" \in decided'[i] \ decided[i]
       => pc[Worker] = "prepare" /\ req[Worker] = i /\ todo[Worker] = {} /\ prepare_ok]_cvars

\* A request that took the lock gives it back: the loops over participants_
\* end whatever the participants do.
RequestEnds == pc[Worker] # "idle" ~> pc[Worker] = "idle"

\* recovery() ends (or the process dies), so the heartbeat loop is reached.
RecoveryEnds == pc[Main] = "initNext" ~> pc[Main] \in {"beat", "down"}

-----------------------------------------------------------------------------
(* The inductive invariant behind the safety properties, for a coordinator *)
(* whose clients come after recovery() (EarlyClients = FALSE).             *)

Updating == {"copy", "unfinished", "commit", "abort"}
Locking  == {"initNext", "initSet", "joinSet", "joinNext", "snapshot", "recover", "recoverSet"}

\* Who holds the lock; Main never resolves records while a request is served.
LockInv ==
  /\ lock = Worker <=> pc[Worker] # "idle"
  /\ pc[Main] \in Locking => lock = Main
  /\ pc[Main] \in {"down", "beat", "drop", "join", "wait"} => lock # Main
  /\ pc[Main] \in Updating \cup {"down"} => pc[Worker] = "idle"

\* Only the loops of PREPARE, COMMIT and ABORT have participants left to call.
LoopInv == \A t \in Threads : pc[t] \notin {"prepare", "commit", "abort"} => todo[t] = {}

\* The log, next_id_ and the decisions agree.
LogInv ==
  /\ clog.mem = {i \in Ids : clog.recs[i] # NoRecord}
  /\ pc[Main] # "down" => /\ next_id >= clog.next
                          /\ clog.next # 0 => next_id = clog.next
  /\ \A i \in Ids :
       /\ clog.recs[i] # "PREPARED"
       /\ clog.recs[i] # NoRecord \/ decided[i] # {} \/ answer[i] # "none" => i < clog.next
       /\ clog.recs[i] = "UNRESOLVED" => decided[i] = {}
       /\ clog.recs[i] = "COMMIT" => decided[i] = {"COMMIT"}
       /\ clog.recs[i] = "ABORT" => decided[i] = {"ABORT"}

\* What the request of a thread looks like in the log.
RequestInv ==
  /\ pc[Worker] \in {"prepare", "commit", "abort"} => /\ req[Worker] \in Ids
                                                      /\ answer[req[Worker]] = "none"
  /\ pc[Worker] = "prepare" => clog.recs[req[Worker]] = "UNRESOLVED"
  /\ \A t \in Threads : /\ pc[t] \in {"commit", "abort"} => req[t] \in Ids
                        /\ pc[t] = "commit" => clog.recs[req[t]] = "COMMIT"
                        /\ pc[t] = "abort" => clog.recs[req[t]] = "ABORT"

\* The copy handle_unfinished_records() works on is not out of date.
CopyInv ==
  /\ pc[Main] \in {"unfinished", "commit", "abort"} =>
       \A i \in Ids : unfinished[i] # NoRecord => unfinished[i] = clog.recs[i]
  /\ pc[Main] \in {"commit", "abort"} => unfinished[req[Main]] = NoRecord

CInv == /\ CTypeOK /\ LockInv /\ LoopInv /\ LogInv /\ RequestInv /\ CopyInv
        /\ Agreement /\ AnswerMatchesDecision /\ IteratorsValid
=============================================================================
