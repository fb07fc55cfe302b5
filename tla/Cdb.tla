-------------------------------- MODULE Cdb --------------------------------
(***************************************************************************)
(* The Cdb store: a coordinator, its participants and the RPCs between     *)
(* them (rpclib, modelled from how the coordinator uses it).  A call made  *)
(* on a live connection is handled, or it times out and is handled later,  *)
(* or the participant is killed in it; on a dead connection it fails.  A   *)
(* connection belongs to one incarnation of the participant and is never   *)
(* re-established by the client object that owns it.                       *)
(***************************************************************************)
EXTENDS Coordinator, Participant

CONSTANTS
  MaxTimeouts,   \* bound: calls that time out although they are handled
  MaxKills,      \* bound: participant crashes
  MaxCrashes,    \* bound: coordinator crashes
  MaxFaults      \* bound: all of them together

VARIABLES
  faults,        \* how many of each fault have happened
  issued,        \* history: the command each id was given to
  ledger,        \* history: the database after every committed update
  deserted       \* history: an update has lost all its participants

vars == <<cvars, part, faults, issued, ledger, deserted>>

Bound == [timeout |-> MaxTimeouts, kill |-> MaxKills, crash |-> MaxCrashes]

Fault(f) == /\ faults[f] < Bound[f]
            /\ faults.timeout + faults.kill + faults.crash < MaxFaults
            /\ faults' = [faults EXCEPT ![f] = @ + 1]

Live(p, session) == session \in part[p].sessions

\* The outcome r of the call m made to p.
Rpc(p, session, m, r) ==
  \/ Live(p, session) /\ Execute(p, m, r) /\ UNCHANGED faults
  \/ Live(p, session) /\ r = "exception" /\ Queue(p, m) /\ Fault("timeout")
  \/ Live(p, session) /\ r = "exception" /\ KilledIn(p, m) /\ Fault("kill")
  \/ ~Live(p, session) /\ r = "exception" /\ UNCHANGED <<part, faults>>

\* The same for a call that only reads the participant.
Ask(p, session, r) ==
  /\ UNCHANGED part
  /\ \/ Live(p, session) /\ r = "ok" /\ UNCHANGED faults
     \/ Live(p, session) /\ r = "exception" /\ Fault("timeout")
     \/ ~Live(p, session) /\ r = "exception" /\ UNCHANGED faults

\* A call on a connection that is opened for it.
AskNew(p, session, r) ==
  \/ r = "ok" /\ Connect(p, session) /\ UNCHANGED faults
  \/ r = "exception" /\ part[p].status = "up" /\ UNCHANGED part /\ Fault("timeout")
  \/ r = "exception" /\ part[p].status # "up" /\ UNCHANGED <<part, faults>>

-----------------------------------------------------------------------------
Commit(t) ==
  \E p \in P, r \in Results \cup {"", "exception"} :
    CommitReturns(t, p, r) /\ Rpc(p, "member", [op |-> "COMMIT", id |-> req[t]], r)

Abort(t) ==
  \E p \in P, r \in {"true", "exception"} :
    AbortReturns(t, p, r) /\ Rpc(p, "member", [op |-> "ABORT", id |-> req[t]], r)

Prepare ==
  \E p \in P, r \in {"true", "false", "exception"} :
    /\ PrepareReturns(p, r)
    /\ Rpc(p, "member", [op |-> "PREPARE", id |-> req[Worker], cmd |-> cmd], r)

Get == \E p \in P, r \in Outcomes : GetReturns(p, r) /\ Ask(p, "member", r)

QueryInit == \E r \in Outcomes : InitNextReturns(r, part[cur].next_id) /\ AskNew(cur, "member", r)
QueryJoin == \E r \in Outcomes : JoinNextReturns(r, part[cur].next_id) /\ Ask(cur, "beat", r)
Heartbeat == \E r \in Outcomes : BeatReturns(r) /\ AskNew(cur, "beat", r)

\* SET_NEXT_ID on the connection init_participant() has made, ...
SetNextIdInit ==
  \E r \in Outcomes :
    InitSetReturns(r) /\ Rpc(cur, "member", [op |-> "SET_NEXT_ID", val |-> next_id], r)

\* ... and on the heartbeat's, at a first start or after RECOVER.
SetNextIdJoin ==
  \E r \in Outcomes :
    /\ JoinSetReturns(r) \/ RecoverSetReturns(r)
    /\ Rpc(cur, "beat", [op |-> "SET_NEXT_ID", val |-> next_id], r)

GetSnapshot ==
  \E p \in P, r \in Outcomes : SnapshotReturns(p, r, part[p].db) /\ Ask(p, "member", r)

Recover ==
  \E r \in Outcomes :
    /\ RecoverReturns(r)
    /\ Rpc(cur, "beat", [op |-> "RECOVER", data |-> snapshot, del_keys |-> del_keys], r)

\* A participant that was just added gets a connection of its own.
BeginUnfinished ==
  /\ CopyRecords
  /\ IF lock = Main /\ part[cur].status = "up" THEN Connect(cur, "member") ELSE UNCHANGED part
  /\ UNCHANGED faults

\* participants_ is empty in the middle of an update, whose record then stays
\* without a DONE record.
Deserted == participants = {} /\ pc[Worker] \in {"prepare", "commit", "abort"}

\* The moment a request takes effect for the outside: COMMIT is logged.
Decide == /\ PrepareEnd
          /\ ledger' = IF prepare_ok THEN Apply(ledger, cmd) ELSE ledger
          /\ UNCHANGED <<part, faults, issued>>

WorkerRuns ==
  /\ \/ /\ Commit(Worker) \/ Abort(Worker) \/ Prepare \/ Get
        /\ UNCHANGED <<issued, ledger>>
     \/ /\ CommitEnd(Worker) \/ AbortEnd(Worker) \/ PrepareAllDead
        /\ UNCHANGED <<part, faults, issued, ledger>>
     \/ Decide
  /\ deserted' = (deserted \/ Deserted')

MainRuns ==
  /\ \/ Commit(Main)
     \/ Abort(Main)
     \/ QueryInit
     \/ QueryJoin
     \/ Heartbeat
     \/ SetNextIdInit
     \/ SetNextIdJoin
     \/ GetSnapshot
     \/ Recover
     \/ BeginUnfinished
     \/ /\ \/ CommitEnd(Main)
           \/ AbortEnd(Main)
           \/ \E id \in Ids : Resolve(id)
           \/ UnfinishedEnd
           \/ Drop
           \/ Join
           \/ Wait
        /\ UNCHANGED <<part, faults>>
  /\ UNCHANGED <<issued, ledger, deserted>>

NewUpdate == \E c \in Cmds : /\ BeginUpdate(c)
                             /\ issued' = [issued EXCEPT ![next_id] = c]
                             /\ UNCHANGED <<part, faults, ledger, deserted>>
NewGet    == BeginGet /\ UNCHANGED <<part, faults, issued, ledger, deserted>>

Boot == StartCoordinator /\ UNCHANGED <<part, faults, issued, ledger, deserted>>

\* The sockets of a dead coordinator are closed; calls it made stay queued.
CoordinatorCrash ==
  /\ CrashCoordinator
  /\ Fault("crash")
  /\ part' = [p \in P |-> [part[p] EXCEPT !.sessions = {}]]
  /\ UNCHANGED <<issued, ledger, deserted>>

ParticipantRestart ==
  /\ \E p \in P : Restart(p)
  /\ UNCHANGED <<cvars, faults, issued, ledger, deserted>>

LateCall ==
  /\ \E p \in P : \E m \in part[p].inbox : Deliver(p, m)
  /\ UNCHANGED <<cvars, faults, issued, ledger, deserted>>

ParticipantCrash ==
  /\ \E p \in P : Crash(p)
  /\ Fault("kill")
  /\ UNCHANGED <<cvars, issued, ledger, deserted>>

Init == /\ CInit
        /\ PInit
        /\ faults = [timeout |-> 0, kill |-> 0, crash |-> 0]
        /\ issued = [i \in Ids |-> NoCmd]
        /\ ledger = InitDb
        /\ deserted = FALSE

Next == \/ WorkerRuns
        \/ MainRuns
        \/ NewUpdate
        \/ NewGet
        \/ Boot
        \/ ParticipantRestart
        \/ LateCall
        \/ CoordinatorCrash
        \/ ParticipantCrash

Spec == Init /\ [][Next]_vars

\* Every call returns within RPC_TIMEOUT, so a thread that holds the lock goes
\* on.  Main competes for participants_mutex_ with the clients' requests,
\* which release it again and again: it is assumed not to starve.  An operator
\* starts a coordinator that is down.
FairSpec == Spec /\ WF_vars(WorkerRuns) /\ SF_vars(MainRuns) /\ WF_vars(Boot)

-----------------------------------------------------------------------------
(* Properties.                                                             *)

TypeOK == CTypeOK /\ PTypeOK

\* Atomicity: what any participant applied is committed, and nothing else, by
\* the coordinator: no update is applied here and aborted there, whatever
\* calls arrive late, whoever dies, and however often recovery repeats a call.
AppliedIsCommitted ==
  \A p \in P, i \in Ids : part[p].applied[i] > 0 => decided[i] = {"COMMIT"}

\* COMMIT repeated by handle_unfinished_records(), or delivered late, never
\* applies a command twice.
AppliedOnce == \A p \in P, i \in Ids : part[p].applied[i] <= 1

\* A client that got a result of its update, and not an error or nothing, has
\* it applied by some participant; one that got send_error() has it applied
\* by none, then and later.
AnswerMatchesStores ==
  \A i \in Ids :
    /\ answer[i] \in Results => \E p \in P : part[p].applied[i] > 0
    /\ answer[i] = "send_error" => \A p \in P : part[p].applied[i] = 0

\* A request waiting in db_requests_ is the one the client sent with that id,
\* so COMMIT(id) applies the command the coordinator means by id.
RightCommand ==
  \A p \in P, i \in Ids : part[p].db_requests[i] \in {NoCmd, issued[i]}

\* Nothing is being updated, or a GET is being served.
Quiet == /\ pc[Main] \in {"beat", "drop", "join", "wait"}
         /\ pc[Worker] \in {"idle", "get"}

\* One-copy behaviour: every participant that would answer a GET holds exactly
\* the committed updates: none lost, none undone, no deleted key back.
Replicas ==
  Quiet => \A p \in participants : Live(p, "member") => part[p].db = ledger

\* No handler throws, which would end the participant's process: a COMMIT never
\* finds its participant behind or with another request first, a PREPARE never
\* a null request, a RECOVER never a length it cannot decode.  A participant
\* goes down only when it is killed.
NoHandlerThrows ==
  [][\A p \in P : part[p].status = "up" /\ part'[p].status = "down" => faults'.kill > faults.kill]_vars

\* Participants die, also inside a handler, but no call times out, the
\* coordinator does not crash and every update keeps a participant.
FailStop == faults.timeout = 0 /\ faults.crash = 0 /\ ~deserted

\* The store stays one copy "as long as [...] the coordinator is up and running
\* and at least one participant is working correctly" (Lab3/README.md:12-14).
ReplicasFailStop == FailStop => Replicas

\* A participant that died inside COMMIT comes back by itself when restarted.
SelfRecovery == \A p \in P : part[p].status # "hung"

\* The heartbeat brings every reachable participant back as long as there is
\* a participant to recover it from.
Rejoins ==
  \A p \in P : (part[p].status = "up" /\ participants # {})
                 ~> (p \in participants \/ part[p].status # "up" \/ participants = {})

\* A request that was not decided, or whose decision was not carried out, gets
\* its DONE record in the end, as long as some participant is left: the loops
\* that remove dead participants neither skip the record nor wait for them.
UnfinishedGetsDone ==
  \/ <>[](participants = {})
  \/ \A i \in Ids : clog.recs[i] # NoRecord ~> clog.recs[i] = NoRecord

\* When every server runs, the coordinator has participants again in the end:
\* "all you have to do is to restart the dead servers" (Lab3/README.md:16).
BackInService ==
  LET running == pc[Main] # "down" /\ \A p \in P : part[p].status = "up"
  IN  running ~> participants # {} \/ ~running

-----------------------------------------------------------------------------
(* The inductive invariant behind the safety properties, for a coordinator *)
(* whose clients come after recovery() (EarlyClients = FALSE).  A PREPARE  *)
(* is sent once to a participant for an id; what it leaves there, a queued *)
(* call, then an entry of db_requests_, is used up by the one COMMIT that  *)
(* applies the command.                                                    *)

\* PREPARE of id i has been sent to p.
Asked(p, i) == /\ i < clog.next
               /\ ~(pc[Worker] = "prepare" /\ req[Worker] = i /\ p \in todo[Worker])

\* No trace of PREPARE of id i in the memory of p or in its database.
Untouched(p, i) == part[p].db_requests[i] = NoCmd /\ part[p].applied[i] = 0

\* An id a participant knows was sent to it, and it is waiting or applied.
StoreInv ==
  \A p \in P, i \in Ids :
    /\ part[p].applied[i] > 0 => part[p].db_requests[i] = NoCmd
    /\ ~Untouched(p, i) => Asked(p, i)

\* The calls that are still in a server: one PREPARE for an id, with the
\* client's command, before it was handled; COMMIT after the decision.
CallInv ==
  \A p \in P : \A m \in part[p].inbox :
    /\ m.op = "PREPARE" => m.cmd = issued[m.id] /\ Asked(p, m.id) /\ Untouched(p, m.id)
    /\ m.op = "COMMIT" => decided[m.id] = {"COMMIT"}

\* The client's command is the one of its id, and a result came from somebody
\* who applied it.
ClientInv ==
  /\ issued \in [Ids -> Cmds \cup {NoCmd}]
  /\ pc[Worker] = "prepare" => cmd \in Cmds /\ cmd = issued[req[Worker]]
  /\ pc[Worker] = "commit" /\ ret \in Results => \E p \in P : part[p].applied[req[Worker]] > 0

DInv == /\ CInv /\ PTypeOK /\ StoreInv /\ CallInv /\ ClientInv
        /\ AppliedIsCommitted /\ AppliedOnce /\ AnswerMatchesStores /\ RightCommand

-----------------------------------------------------------------------------
(* The inductive invariant behind ReplicasFailStop, for a system that was  *)
(* started before (InitNext # 0: the first start takes participants in     *)
(* without a look at their data).  What a participant answers to NEXT_ID,  *)
(* now or after a restart, never promises more than its database holds.    *)

InUpdate == pc[Worker] \in {"prepare", "commit", "abort"}

\* Every update leaves its DONE record behind: Main has nothing to resolve.
NothingLeft ==
  /\ is_recovered /\ clog.next # 0 /\ unfinished = NoRecords
  /\ pc[Main] \notin {"initSet", "joinSet", "commit", "abort"}
  /\ \A i \in Ids : clog.recs[i] # NoRecord => InUpdate /\ i = req[Worker]
  /\ InUpdate => participants # {} /\ req[Worker] + 1 = clog.next
  /\ pc[Worker] = "commit" => cmd \in Cmds /\ cmd = issued[req[Worker]]

\* p has not been told the outcome of the update that is going on.
Awaits(p) == pc[Worker] = "prepare" \/ (pc[Worker] \in {"commit", "abort"} /\ p \in todo[Worker])

\* A participant in state s is not ahead of the coordinator's n, in memory or
\* in its log, and behind it while it awaits the outcome of an update; a log
\* without a pending record is not ahead of the memory.
Placed(s, n, awaits) ==
  /\ s.inbox = {} /\ (s.status # "up" => s.sessions = {})
  /\ s.next_id <= n /\ s.log.next <= n
  /\ awaits => s.next_id < n /\ s.log.next < n
  /\ \A i \in Ids : s.log.recs[i] # NoRecord => i < n
  /\ s.status = "up" /\ PendingIds(s) = {} => s.log.next <= s.next_id

PlaceInv == \A p \in P : Placed(part[p], clog.next, Awaits(p))

\* Who is, or after a restart will be, at n has the committed data d.
Holds(s, n, d) == s.next_id = n \/ (PendingIds(s) = {} /\ s.log.next = n) => s.db = d

DataInv == ledger \in Dbs /\ \A p \in P : Holds(part[p], clog.next, ledger)

\* So has every member, once it has applied the update.
MemberInv ==
  \A p \in participants :
    IF pc[Worker] = "commit" /\ p \in todo[Worker] THEN Apply(part[p].db, cmd) = ledger
                                                   ELSE part[p].db = ledger

\* A key that somebody has and the committed data has not is in del_keys_, or
\* will be at the end of the DEL.
DelInv ==
  \A p \in P, k \in Keys : ledger[k] = Nil /\ part[p].db[k] # Nil =>
    k \in del_keys \/ (pc[Worker] = "commit" /\ cmd.type = "DEL" /\ k \in cmd.keys)

\* A recovery that is going on.
RecoverInv ==
  /\ pc[Main] \in {"joinNext", "snapshot", "recover", "recoverSet"} => cur \notin participants
  /\ pc[Main] \in {"snapshot", "recover"} /\ Live(cur, "beat") => part[cur].next_id # clog.next
  /\ pc[Main] = "recover" => snapshot = ledger
  /\ pc[Main] = "recoverSet" => part[cur].db = ledger

OneCopy == NothingLeft /\ PlaceInv /\ DataInv /\ MemberInv /\ DelInv /\ RecoverInv

ReplicaInv == /\ faults \in [timeout : Nat, kill : Nat, crash : Nat]
              /\ FailStop => OneCopy
=============================================================================
