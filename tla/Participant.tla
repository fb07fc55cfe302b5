---------------------------- MODULE Participant ----------------------------
(***************************************************************************)
(* The participants of the Cdb store, src/Lab3/src/participant.cpp: one    *)
(* leveldb, one record log and the handlers of the ten RPCs.               *)
(*                                                                         *)
(* PREPARE, COMMIT and ABORT hold db_request_mutex_ from end to end, so a  *)
(* handler is one step.  It is written as the set of its outcomes: the     *)
(* state it leaves and its reply, which is "exception" when the process    *)
(* dies in it (rpc::server does not suppress exceptions, so a handler that *)
(* throws ends the process).                                               *)
(***************************************************************************)
EXTENDS Configuration, Integers

CONSTANTS
  InitUp,     \* the participants running when the system is first started
  InitDb,     \* the database they start from
  MayRefuse,  \* may PREPARE fail, before or after it logged, and answer false?
  Size        \* the length of each value; bound: below 2^16

ASSUME ParticipantAssumption ==
  InitUp \subseteq P /\ InitDb \in Dbs /\ MayRefuse \in BOOLEAN
ASSUME SizeAssumption == Size \in [Vals -> 0..(2^16 - 1)]

VARIABLE part   \* the state of every participant

NoRequests == [i \in Ids |-> NoCmd]

\* A call that reached the rpc::server, as a record.
Calls == [op : {"PREPARE"}, id : Ids, cmd : Cmds]
         \cup [op : {"COMMIT", "ABORT"}, id : Ids]
         \cup [op : {"SET_NEXT_ID"}, val : Nat]
         \cup [op : {"RECOVER"}, data : Dbs, del_keys : SUBSET Keys]

(***************************************************************************)
(*   status       "up"; "down"; "hung": deadlocked in its own recovery()   *)
(*   next_id      next_id_                                                 *)
(*   db_requests  db_requests_, a std::set ordered by id: one per id       *)
(*   null         db_requests_ holds a null pointer (and nothing else)     *)
(*   log, db      r_manager_ and the leveldb: they survive a crash         *)
(*   sessions     the coordinator's connections to this process            *)
(*   inbox        calls received whose caller has timed out                *)
(*   applied      history: how often each id was applied to db             *)
(***************************************************************************)
States ==
  [status : {"up", "down", "hung"}, next_id : Nat, db_requests : [Ids -> Cmds \cup {NoCmd}],
   null : BOOLEAN, log : Logs, db : Dbs, sessions : SUBSET {"member", "beat"},
   inbox : SUBSET Calls, applied : [Ids -> Nat]]

PTypeOK == part \in [P -> States]

\* The process ends: memory, connections and queued calls are gone.
Dead(s) == [s EXCEPT !.status = "down", !.next_id = 0, !.db_requests = NoRequests, !.null = FALSE,
                     !.log.mem = {}, !.sessions = {}, !.inbox = {}]

Outcome(s, r) == [state |-> s, ret |-> r]
Dies(s)       == {Outcome(Dead(s), "exception")}

PInit ==
  part = [p \in P |->
    LET s == [status |-> "up", next_id |-> InitNext, db_requests |-> NoRequests, null |-> FALSE,
              log |-> EmptyLog(InitNext), db |-> InitDb, sessions |-> {}, inbox |-> {},
              applied |-> [i \in Ids |-> 0]]
    IN  IF p \in InitUp THEN s ELSE Dead(s)]

-----------------------------------------------------------------------------
(* The handlers.                                                           *)

\* PREPARE_SET, PREPARE_DEL: log, then insert; the set keeps the entry it has.
\* Inserting next to a null pointer makes command_cmp dereference it.
HandlePrepare(s, id, c) ==
  LET logged == [s EXCEPT !.log = LogRecord(@, "PREPARED", id, s.next_id)]
  IN  (IF s.null THEN Dies(logged)
       ELSE {Outcome([logged EXCEPT !.db_requests[id] = IF @ = NoCmd THEN c ELSE @], "true")})
      \cup (IF MayRefuse THEN {Outcome(x, "false") : x \in {s, logged}} ELSE {})

\* db_requests_.begin() is the request id (and not null or end()).
IsBegin(s, id) == /\ ~s.null
                  /\ s.db_requests[id] # NoCmd
                  /\ \A j \in Ids : j < id => s.db_requests[j] = NoCmd

CommitLogged(s, id) == [s EXCEPT !.log = LogRecord(@, "COMMIT", id, s.next_id),
                                 !.next_id = @ + 1]

\* Mutant: COMMIT looks the request up, ignores next_id_ and never erases it.
HandleCommitByLookup(s, id) ==
  IF s.db_requests[id] = NoCmd THEN Dies(s)
  ELSE {Outcome([CommitLogged(s, id) EXCEPT
                   !.db = Apply(@, s.db_requests[id]),
                   !.applied[id] = @ + 1,
                   !.log = LogRecord(@, "COMMIT_DONE", id, s.next_id + 1)],
                Result(s.db, s.db_requests[id]))}

\* COMMIT: seen before; not caught up, or not the next request: throw; apply.
HandleCommit(s, id) ==
  IF s.next_id > id THEN {Outcome(s, "")}
  ELSE IF s.next_id < id \/ ~IsBegin(s, id) THEN Dies(s)
  ELSE LET c == s.db_requests[id]
       IN  {Outcome([CommitLogged(s, id) EXCEPT
                       !.db = Apply(@, c),
                       !.applied[id] = @ + 1,
                       !.log = LogRecord(@, "COMMIT_DONE", id, s.next_id + 1),
                       !.db_requests[id] = NoCmd],
                    Result(s.db, c))}

\* The process is killed inside COMMIT: after the COMMIT record, with the command
\* not, partly or fully applied, or after COMMIT_DONE and before the reply.
KilledInCommit(s, id) ==
  IF s.next_id # id \/ ~IsBegin(s, id) THEN {}
  ELSE LET l == CommitLogged(s, id)
       IN  {Dead(l)} \cup {Dead([l EXCEPT !.db = d, !.applied[id] = @ + 1]) :
                             d \in PartlyApplied(s.db, s.db_requests[id])}
           \cup {Dead(o.state) : o \in HandleCommit(s, id)}

\* db_requests_.erase(begin()), if there is one.
EraseBegin(reqs) ==
  [i \in Ids |-> IF \A j \in Ids : j < i => reqs[j] = NoCmd THEN NoCmd ELSE reqs[i]]

\* ABORT: the record is written first, with next_id_ + 1 whatever the id.
HandleAbort(s, id) ==
  LET logged == [s EXCEPT !.log = LogRecord(@, "ABORT_DONE", id, s.next_id + 1)]
  IN  {Outcome(IF s.next_id # id
               THEN [logged EXCEPT !.next_id = IF id > @ THEN id + 1 ELSE @]
               ELSE [logged EXCEPT !.next_id = @ + 1, !.null = FALSE,
                                   !.db_requests = IF s.null THEN @ ELSE EraseBegin(@)],
               "true")}

\* Mutant: SET_NEXT_ID answers and forgets.
HandleSetNextIdIgnored(s, val) == {Outcome(s, "ok")}

HandleSetNextId(s, val) == {Outcome([s EXCEPT !.next_id = val], "ok")}

\* encode_pair() keeps a length in a short, so one of 2^15 or more is negative
\* when RECOVER decodes it, and the std::string made with it throws.
Short(n) == LET u == n % 2^16 IN IF u < 2^15 THEN u ELSE u - 2^16
Decodes(data, k) == data[k] = Nil \/ Short(Size[data[k]]) >= 0

\* RECOVER: delete the deleted keys, then put the pairs of the snapshot.
Overlaid(d, data) == [k \in Keys |-> IF data[k] = Nil THEN d[k] ELSE data[k]]

\* What is in the database after some of the pairs were put.
PartlyRecovered(s, data, del_keys) ==
  {[k \in Keys |-> IF k \in ks THEN Overlaid(Deleted(s.db, del_keys), data)[k]
                   ELSE Deleted(s.db, del_keys)[k]] : ks \in SUBSET {k \in Keys : Decodes(data, k)}}

\* Mutant: RECOVER puts the pairs and deletes nothing.
HandleRecoverKeepsDeleted(s, data, del_keys) ==
  {Outcome([s EXCEPT !.db = Overlaid(@, data)], "ok")}

HandleRecover(s, data, del_keys) ==
  IF \A k \in Keys : Decodes(data, k)
  THEN {Outcome([s EXCEPT !.db = Overlaid(Deleted(@, del_keys), data)], "ok")}
  ELSE UNION {Dies([s EXCEPT !.db = d]) : d \in PartlyRecovered(s, data, del_keys)}

\* Killed in RECOVER: some keys deleted, or all of them and some pairs put.
KilledInRecover(s, data, del_keys) ==
  {Dead([s EXCEPT !.db = d]) :
     d \in {Deleted(s.db, ks) : ks \in SUBSET del_keys} \cup PartlyRecovered(s, data, del_keys)}

Handle(s, m) ==
  CASE m.op = "PREPARE"     -> HandlePrepare(s, m.id, m.cmd)
    [] m.op = "COMMIT"      -> HandleCommit(s, m.id)
    [] m.op = "ABORT"       -> HandleAbort(s, m.id)
    [] m.op = "SET_NEXT_ID" -> HandleSetNextId(s, m.val)
    [] m.op = "RECOVER"     -> HandleRecover(s, m.data, m.del_keys)

Killed(s, m) ==
  CASE m.op = "COMMIT"  -> KilledInCommit(s, m.id)
    [] m.op = "RECOVER" -> KilledInRecover(s, m.data, m.del_keys)
    [] OTHER            -> {Dead(o.state) : o \in Handle(s, m)}

-----------------------------------------------------------------------------
(* The steps of a participant.                                             *)

\* A call is handled and answered.
Execute(p, m, r) == \E o \in Handle(part[p], m) :
                      /\ o.ret = r
                      /\ part' = [part EXCEPT ![p] = o.state]

\* The process is killed while it handles a call.
KilledIn(p, m) == \E s \in Killed(part[p], m) : part' = [part EXCEPT ![p] = s]

\* The caller gives up after RPC_TIMEOUT; the call is still in the server.
Queue(p, m) == part' = [part EXCEPT ![p].inbox = @ \cup {m}]

\* ... and one of the worker threads runs it later; nobody reads the answer.
Deliver(p, m) ==
  /\ m \in part[p].inbox
  /\ \E o \in Handle([part[p] EXCEPT !.inbox = @ \ {m}], m) : part' = [part EXCEPT ![p] = o.state]

\* The coordinator connects; a hung or dead process accepts nothing.
Connect(p, session) == /\ part[p].status = "up"
                       /\ part' = [part EXCEPT ![p].sessions = @ \cup {session}]

Crash(p) == /\ part[p].status = "up"
            /\ part' = [part EXCEPT ![p] = Dead(@)]

\* recovery().  cmds_ is always empty (init_records() reads the commands from
\* the wrong stream), so every record inserts a null pointer: with a COMMIT
\* record first, commit_handler_ relocks the mutex recovery() holds; with two
\* records the second insert dereferences the first one's null pointer.
PendingIds(s)  == {i \in Ids : s.log.recs[i] # NoRecord}
Recovers(s)    == \/ PendingIds(s) = {}
                  \/ \E i \in Ids : PendingIds(s) = {i} /\ s.log.recs[i] # "COMMIT"
Deadlocks(s)   == \E i \in PendingIds(s) : /\ s.log.recs[i] = "COMMIT"
                                           /\ \A j \in PendingIds(s) : i <= j
Recovered(s)   ==
  [s EXCEPT !.status = "up", !.null = (PendingIds(s) # {}), !.log.mem = {},
            !.next_id = IF PendingIds(s) = {} THEN s.log.next ELSE CHOOSE i \in PendingIds(s) : TRUE]

Restart(p) ==
  /\ part[p].status = "down"
  /\ \/ /\ Recovers(part[p])
        /\ part' = [part EXCEPT ![p] = Recovered(@)]
     \/ /\ Deadlocks(part[p])
        /\ part' = [part EXCEPT ![p].status = "hung"]
=============================================================================
