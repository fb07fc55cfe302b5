# TLA+ verification of CloudComputingLabs

The repository holds three programs: a multi-threaded Sudoku solver (Lab 1), an
HTTP server (Lab 2) and **Cdb** (Lab 3), a replicated key-value store with
two-phase commit on top of a home-made reactor library, rpclib and leveldb. Cdb
is the core of this project; the reactor library, sessions and start-up around it
and the two smaller programs follow. TLC checks small instances; TLAPS proves the
safety of the coordinator, the log, the stores of the participants as one copy, the
sessions with their parser, program start, the TCP library with its pool, the Sudoku
program and the HTTP server for every instance.

## 1. Inventory

| Component | Source | State | Operations | Hard behaviour |
|---|---|---|---|---|
| coordinator | `Lab3/src/coordinator.cpp` | log `r_manager_`, `next_id_`, `is_recovered`, map `participants_`, `del_keys_`, `participants_mutex_` | SET/DEL by 2PC, GET, recovery, heartbeat with recovery of participants | two threads on one map; crash between log and calls; every call may fail or time out |
| participant | `Lab3/src/participant.cpp` | leveldb, log, `next_id_`, ordered set `db_requests_` | PREPARE_*, COMMIT, ABORT, GET, NEXT_ID, SET_NEXT_ID, GET_SNAPSHOT, RECOVER, HEARTBEAT, recovery at start | killed inside a handler; calls that arrive late |
| record_manager | `Lab3/src/record.cpp` | log file, map `records_` | `log`, truncation, `init_records` | crash inside the truncation |
| command_parser, client session | `Lab3/src/command_parser.cpp`, `coordinator.cpp:269-379,639-699` | unparsed bytes, replies to write | read, parse, execute, reply | commands cut anywhere by TCP |
| thread_pool | `Lab3/src/tcp_server/thread_pool.cpp` | queue, workers, atomics, condition variable | add, run, stop, resize | lost wakeups, shutdown |
| reactor, pipe | `Lab3/src/tcp_server/reactor.cpp`, `pipe.cpp` | `tracked_fds_` with callbacks, executing flags and `marked_untrack`; the `select()` sets; the pipe | register, set callback, unregister, poll, dispatch, end of a callback, stop | answers of `select()` that are stale when used, erasing under a running callback, waking the poll thread |
| tcp_socket, tcp_client, tcp_server | `Lab3/src/tcp_server/tcp_*.cpp` | `fd_`, request queues, `is_connected_`, `clients_`, `is_running_` | accept, read, write, disconnect, start, stop | disconnections from several threads at once, reuse of descriptor numbers, stop against callbacks |
| configuration, main | `Lab3/src/configuration.cpp`, `kvstore2pcsystem.cpp` | options, configuration of the file, merged configuration | parse options, read the file line by line, merge, start | errors halfway, uninitialised port, moves that drop a member |
| Sudoku program and solver | `Lab1/src/` | task queue, futures; a board | read names, queue lines, solve by backtracking, flush in order | order of answers, notification, shutdown |
| HTTP server | `Lab2/src/` | queue of sockets | accept, serve, answer, close | slow and vanishing clients |

Interactions: a client's bytes reach `handle_db_requests` through a callback of
the reactor, run by a worker of the pool; SET and DEL take `participants_mutex_`
and call every participant in turn by RPC; the main thread runs `recovery()` once
and then the heartbeat loop, which removes dead participants, recovers those that
come back (snapshot of a member, RECOVER, SET_NEXT_ID) and finishes what the log
still has as unfinished. The only state that survives a process is its log and,
for participants, leveldb.

What makes each part correct: one decision per request, told truthfully to
the client; a participant applies exactly what was decided, once; members hold
the same data; ids are never reused; log() is atomic; the reply to a byte stream
does not depend on how it was cut; every callback, line and request is handled
once and in the end; a request meets its own descriptor and the reactor forgets
none; threads do not sleep through work or block in a callback; a server runs with
the configuration it was given or not at all; a Sudoku answer is a solution.

## 2. Modules and source

| Module | Models | Notes |
|---|---|---|
| `RecordLog` | the log as its owner sees it | a record per id, the last `next_id`, and which records are in memory |
| `AtomicLog`, `RecordManager` (`RecordManagerProofs`) | contract and implementation of `record_manager` | file as a sequence of records; `log()` is write, remember, truncate, rewrite, with a crash between any two; refinement mapping onto `AtomicLog` |
| `Commands` | SET, DEL and their effect on a store | stores are functions `Keys -> Vals \cup {Nil}` |
| `Configuration` | ids, participants, commands shared by both sides | |
| `Coordinator`, `MCCoordinator` (`CdbProofs`) | `coordinator.cpp` | one action per call that returns or per step between two calls; threads `Main` (recovery, heartbeat) and `Worker` (whoever holds the mutex for a client) |
| `Participant` | `participant.cpp` | each handler maps a state to the set of its outcomes (new state, reply) |
| `Cdb`, `MCCdb` (`CdbProofs`) | the system | the coordinator's steps with the outcomes the participants really give |
| `CommandParser`, `ClientSession`, `MCClientSession` (`ClientSessionProofs`) | parser and one session | data is a sequence of RESP tokens; a read brings any non-empty piece |
| `CallbackPool` (`CallbackPoolProofs`) | `tcp_server/thread_pool.cpp` | mutex, atomics, condition variable; test and sleep are two steps |
| `Sockets` | `tcp_server/tcp_socket.cpp` and the kernel's descriptor table | what each number denotes; peers connect, send and close |
| `Reactor` | `tcp_server/reactor.cpp`, `pipe.cpp` | operations hold `tracked_fds_mutex_` throughout and are one step each; between `select()` and `dispatch()` the poll thread holds nothing |
| `TcpServer` (`TcpServerProofs`) | `tcp_server/tcp_server.cpp`, `tcp_client.cpp` | composes `Sockets` and `Reactor` with the workers and the owner; `disconnect()` and `stop()` are split at every access to shared state |
| `ProgramStart`, `MCProgramStart` (`ProgramStartProofs`) | `configuration.cpp`, `kvstore2pcsystem.cpp` | lines and addresses are records; ports keep their 16 bits; an uninitialised port is any of `Garbage` |
| `SudokuSolver` | `Lab1/src/sudoku_basic.h`, conversions of `main.cc` | the search as a recursive function on (board, next value); boards of any box size; `Solutions` is the reference |
| `SudokuMain`, `MCSudoku` (`SudokuMainProofs`) | `Lab1/src/main.cc`, `thread_pool.h` | a task is a line's number and its value what the solver makes of the line; what happens under the mutex is one step, notifications are their own |
| `HttpServer`, `MCHttpServer` (`HttpServerProofs`) | `Lab2/src/server.cc`, `thread_pool.cc`, `tcp_socket.cc` | a request comes in three parts and may stop after any of them |

The modules in parentheses hold the theorems and TLAPS proofs about the module they
extend (section 4).

Variables carry the names of the members they stand for (`participants` for
`participants_`, `clog` for the coordinator's `r_manager_`). History variables
(`decided`, `answer`, `ledger`, `issued`, `applied`, `deserted`, `ran`) only record.

Choices a reader should know:

* PREPARE, COMMIT and ABORT run under `db_request_mutex_` and are atomic but for
  kills inside COMMIT (before, between and after its effects, and before the reply) and
  RECOVER. SET_NEXT_ID and RECOVER take no mutex in the
  code; they are atomic here too.
* rpclib is external. A call may return, throw because the connection is dead, or
  time out and run later at the participant; a client object never reconnects; a
  handler that throws ends its process (`participant.cpp` does not suppress
  exceptions). Dereferencing `begin()` of an empty `db_requests_`, or a null
  command, is modelled as the death of the process.
* `records_` of a restarted participant has no commands, because
  `record.cpp:217` reads them from `file_` instead of `cmd_file_`; the recovered
  request is a null command (field `null`).
* The heartbeat visits participants in the order of their addresses; the code
  uses the order of the configuration file.
* `std::rand()` may give any id of `FirstIds`; 0 is excluded.
* A COMMIT that finds the participant ahead returns an empty string; the client
  then gets zero bytes (answer `""`).
* A snapshot is a function on the keys; the length of a value keeps its 16 bits
  (`Size`, `Short`), and a length that turns negative makes RECOVER throw after
  some of the pairs were put.
* `TcpServer` uses the library the way the coordinator and the echo server do: a
  read is answered and the client read again, or answered with an error whose
  completion disconnects. Exceptions of `async_read` and `async_write` on a client
  that is not connected are caught by these users and do nothing.
* In `TcpServer` the kernel gives out the lowest free number, as `socket()` and
  `accept()` do, also one the library still uses. `disconnect()` closes a descriptor
  before the callback that runs for it has ended, so this happens in ordinary
  service. The history variable `reused` records how a number was in use when it was
  given out: another thread inside `disconnect()` is still to unregister and close it
  ("closing"), `tracked_fds_` has an entry for it ("tracked"), the answer of
  `select()` reports it ("reported"). What the library promises holds as long as
  nothing it depends on has been recorded, and fails after it:

  | Promise | fails after | how |
  |---|---|---|
  | `RequestOnOwnConnection` (`OwnDescriptor`) | "closing" | the second `disconnect()` closes the new client's descriptor (`tcp_client.cpp:47-48`); `tcp_claims` |
  | `ReactorHasRequests` (`NotForgotten`) | "closing", "tracked" | the new client's callback is set on the entry its predecessor marked, `set_rd_callback()` keeps the mark (`reactor.cpp:72-73`) and the end of the predecessor's callback erases the entry (`reactor.cpp:241-244`): the client is never read; `tcp_claims` |
  | `HandlersDoNotBlock` (`NeverBlocks`) | any | the answer of `select()` for the old connection is dispatched to the new one; `tcp_fd_reuse` |
  | `FindsRequest` | never | |
* `JoinPoll` and `JoinPool` are `reactor::stop()` after its notification.
  `callback_workers_.stop()` sets its flag and notifies without the mutex
  (`thread_pool.cpp:58-64`): a worker between its test and its sleep misses it and the
  owner is "hung" in `join()`. `CallbackPool` has the pool step by step.
* The pipe is whether it holds a byte. `clear_pipe()` reads 256 of them, so a
  poll after more than that may find it not empty and go round once more; that a full
  pipe makes `notify()` block under `tracked_fds_mutex_` is left out.
* `clients_.emplace_back()` without the mutex while another thread holds it is a data
  race; its outcomes here are that the element is appended or lost.
* In `HttpServer` the branch for `parse_headers` returning null does not exist,
  because it never does; the pool's destructor never runs, as `start()` does not
  return.

## 3. Runs

| Run | States | Bounds | Shows |
|---|---|---|---|
| `coordinator` | 166 k | 2 participants, 3 ids, one key and value, first start, crashes anywhere, every outcome of every call | `Agreement`, `AnswerMatchesDecision`, `IteratorsValid`, `IdsNotReused`, `CommitOnlyPrepared`; the inductive `CInv`; `RequestEnds`, `RecoveryEnds` |
| `record_manager` | 229 k | 2 ids, 4 records in the file | the log implements `AtomicLog` (`LogIsAtomic`); the inductive `RecordsInv` behind it |
| `cdb_faults` | 1.8 M | 2 participants, 2 updates, any 2 faults among timeouts, kills, coordinator crashes | `AppliedIsCommitted`, `AppliedOnce`, `AnswerMatchesStores`, `RightCommand`; `ReplicasFailStop`: while only participants have died, also inside COMMIT and RECOVER, and every update kept one, members hold exactly the committed data |
| `cdb_first_start` | 39 k | 3 participants, one up, the others start at any time or never; values of 32767 bytes | `NoHandlerThrows`, `Rejoins`, `UnfinishedGetsDone` |
| `client_session` | 101 k | streams of 3 messages, every way to cut them, failing reads and writes | `FramingIndependent`, `RepliesInOrder`, `SessionEnds` |
| `callback_pool` | 8.5 k | 3 tasks, 2 workers growing to 3, stop at any time | `EveryTaskOnce`, `WorkHasWorker`, `TasksRun` |
| `tcp_server` | 607 k | two connections on a kernel that reuses numbers, 3 steps of peers, 2 workers, poll thread, owner; a peer sends and closes, accept fails and the owner stops at any time | `FindsRequest`; `OwnDescriptor`, `NotForgotten`, `NeverBlocks` until a number still in use is given out; `ServesAndStops`: requests are served or dropped, `start()` and `tcp_server::stop()` return |
| `program_start` | 439 k | 152 command lines, every file of up to 4 lines out of 13 | `StartedAsAsked` (the loop and the merge against what the lines of the whole file and the options say), `NothingWrongStarts` |
| `sudoku_main` | 10 k | 3 workers, 5 lines in up to 2 files: one solution behind 12 dead ends, two, none, a full board, a malformed line; bad names | `InOrder`, `AnswersSolve`, `NothingLost`, `NobodySleepsInVain`, `Exits` |
| `http_server` | 309 k | 2 clients, 2 workers, seven kinds of request | `OneOwner`, `AnsweredOnce`, `Served` |
| `coordinator_early_clients` | | violation of `Agreement` | a client served while `recovery()` runs |
| `tcp_fd_reuse` | | violation of `HandlersDoNotBlock`; 2 connections, 4 steps of peers | the answer of `select()` for a closed descriptor is dispatched to the new client that has its number, and the worker blocks in `recv()` |

Bounds. Two participants are enough for one that commits and one that does not;
three are needed on a first start, where the first late one is given
SET_NEXT_ID and the second is recovered from a snapshot. Two updates let a SET
be followed by a DEL of the same key, which is the case snapshots get
wrong. Two faults reach a failure during the recovery from a failure. In
`tcp_server` the read callback, the write callback, the accept callback and `stop()`
of a connection are four actors on the same descriptor, of which two workers run any two
at once; the second connection is the one that inherits a number while they still use it, or that
`accept()` fails to accept. `MaxSteps` bounds what all peers do together (connect, send,
close): three are two connections and the close, or the message, that ends the first;
`Active = {1}` lets the first peer send and close, `AcceptFails` says which connections
`accept()` may fail on. `tcp_claims` and `tcp_fd_reuse` have four steps, and
`TcpServerProofs` any number of connections, workers and steps. `MaxConns` bounds the
connections, `MaxId`
bounds the ids, `MaxTimeouts`, `MaxKills`, `MaxCrashes` and `MaxFaults` the faults,
`MaxLen` the log file, `MaxMessages` the stream, `MaxTasks`, `MaxLines`,
`Text` and `MaxNames` the input.

Assumptions of the passing runs. `EarlyClients = FALSE`: clients come after
`recovery()`; the code does not ensure it, and `coordinator_early_clients` is the
same specification without it. `CrashWhenEmpty = FALSE` in `record_manager`: no
crash between the truncation of the log and the rewrite. `ReplicasFailStop` says
nothing after a timeout or a coordinator crash, with which `Replicas` fails
(`cdb_late_commit`, `cdb_coordinator_crash`), nor once an update has lost all its
participants (`deserted`), with which it fails too (`cdb_deserted`).
`EarlyPeers = FALSE` in `tcp_server`: peers come once `start()` has returned; without it
`ClientsRead` fails (`tcp_claims`). That three of its properties end when a number still
in use is given out is part of the properties and no assumption on the kernel: in 565 k of
the 607 k states no such number was given out, among them those in which the second client
got the first one's number after everybody was done with it; in the other 42 k it got the
number while `tracked_fds_` still had it, and there `OwnDescriptor` and `FindsRequest` are
still checked. ("closing" takes four steps, which `tcp_claims` has.)

What `cdb_deserted` shows. The attempt to prove the property without `deserted` failed
at the ABORT handler, which logs `next_id_ + 1` before it looks at the id
(`participant.cpp:241`). Two kills reach nothing; with three, TLC has the trace: both
participants die in an ABORT after their ABORT_DONE record, so the coordinator keeps
its ABORT record. One is restarted, its `next_id_` already past the id, and
`handle_unfinished_records()` sends it the ABORT again: `next_id_` stays, but the log now says
one more. It is killed in the next PREPARE, the other one commits, and after its
restart its `next_id_` is the coordinator's, although it never saw the update.
`recover_participant()` takes it without a snapshot ("The same next_id means the
participant is defintely up-to-date", `coordinator.cpp:132`), and it answers GETs with the
old data, against "all you have to do is to restart the dead servers"
(`Lab3/README.md:16`). As long as every update keeps a participant no ABORT is repeated,
and the property is proved for any number of kills (section 4).

Deadlock checking is off only where a program may stop: a session that has ended,
a pool that was stopped, `main()` that returned, a server whose clients are done.

Fairness. Coordinator: a thread that can run does (weak fairness), every call
returns because `set_timeout` bounds it, and the heartbeat is not starved of the
mutex for ever (strong fairness, as requests release it again and again); a
coordinator that is down is started. No client has to send and no participant has
to start. Pools: strong fairness per worker in `CallbackPool`, where the mutex is
contended step by step; weak in the others, where a critical section is one step.
In `TcpServer` the poll thread, each worker and the owner inside `start()`, `stop()`
and the end of the reactor are scheduled fairly (weak fairness; a thread in a
`recv()` that blocks has no step). Peers do finitely much there, so `ServesAndStops` is
stated as what holds again and again: nothing that is ready waits and the owner is not
inside `start()` or `tcp_server::stop()`. It says nothing of the end of the reactor, which
need not return (`tcp_exit`), nor after a number still in use was given out, which may
block a worker for ever. Typing file names, connecting, sending, stopping
and spurious wakeups are never assumed.

### Further configurations

These are not part of the regular runs. Each states what a comment or a document
of the repository says, and TLC refutes it
(`tlc -config <name>.cfg <module>`):

| Configuration (module) | Property | What happens |
|---|---|---|
| `record_truncation` (`RecordManager`) | `NextIdFound` | a crash after `record.cpp:120` loses next_id, against "Preserve at least one record to help finding next_id" (`record.cpp:129`) |
| `cdb_late_start` (`MCCdb`) | `Replicas` | without any fault: a participant first seen after an update is accepted with SET_NEXT_ID only (`coordinator.cpp:211`) |
| `cdb_late_commit` (`MCCdb`) | `Replicas` | a timed-out COMMIT runs between RECOVER and SET_NEXT_ID (`coordinator.cpp:252`) |
| `cdb_coordinator_crash` (`MCCdb`) | `Replicas` | the coordinator dies in a DEL and `del_keys_` with it: the key stays in a recovered participant, against "The system can tolerate the coordinator failures." (`Lab3/README.md:17`, `coordinator.hpp:108`) |
| `cdb_deserted` (`MCCdb`) | `Replicas` | 3 kills and no other fault: a participant whose log is one id ahead is taken for up to date without an update it missed (`participant.cpp:241`; above), against "The same next_id means the participant is defintely up-to-date" (`coordinator.cpp:132`) |
| `cdb_self_recovery` (`MCCdb`) | `SelfRecovery` | a participant killed after its COMMIT record hangs on its own mutex when restarted (`participant.cpp:500`), against "the participant can recover itself" (`participant.cpp:158-160`) |
| `cdb_long_value` (`MCCdb`) | `NoHandlerThrows` | a value of 2^15 bytes makes RECOVER throw: lengths have 2 bytes and a sign (`participant.cpp:331`), against 4 bytes in `internal_documentation.md:42` |
| `cdb_handler_throws` (`MCCdb`) | `NoHandlerThrows` | a recovered participant keeps its old prepared request and throws on the next COMMIT (`participant.cpp:149`, "If this happens, then there's a bug in coordinator class") |
| `cdb_back_in_service` (`MCCdb`) | `BackInService` | a coordinator that died before deciding never has a participant again, although all servers run (`coordinator.cpp:137`; `Lab3/README.md:16`) |
| `session_waits` (`MCClientSession`) | `WaitsOnlyForIncomplete` | a complete command with too few arguments is taken for an incomplete one (`command_parser.cpp:101`, `coordinator.cpp:665`) |
| `callback_pool_claims` (`CallbackPool`) | `StopReturns` | `stop()` notifies without the mutex and can wait for ever (`thread_pool.cpp:60`) |
| | `KeepsWorkers` | a smaller `set_thread_num()` makes every worker exit (`thread_pool.cpp:73`) |
| `tcp_claims` (`TcpServer`) | `RequestOnOwnConnection` | a second `disconnect()` of the same client closes the number after `accept()` gave it to another one (`tcp_client.cpp:48`) |
| | `ReactorHasRequests` | a client that got the number of one whose callback still runs is never read: its entry keeps `marked_untrack` and is erased (`reactor.cpp:73`, `241`), against "Update callback on read available" (`reactor.hpp:53`) |
| | `ClientsRead` | a client accepted before `start()` has set its callback is never read (`tcp_server.cpp:27`) |
| | `DisconnectWaits` | `disconnect(true)` waits for `socket_.fd()` after `close()` has reset it and returns while a callback runs (`tcp_client.cpp:50`), against "If [wait] is true, the call blocks until disconnection completes" (`tcp_client.hpp:82`) |
| | `StopDisconnectsAll` | the accept callback appends its client after `stop()` cleared the list (`tcp_server.cpp:60`) |
| `tcp_exit` (`TcpServer`) | `ReactorEnds` | `~reactor()` sets the flag without waking the poll thread and joins for ever (`reactor.cpp:25`); with `Ends = "stop"` the poll thread is woken, and a worker that misses the notification of the pool is joined for ever (`thread_pool.cpp:60`) |
| `program_claims` (`MCProgramStart`) | `WorkersAsAsked` | `num_workers` of the file is lost by the moves (`configuration.cpp:18-63`), against "Number of callback workers" (`configuration.hpp:66`) |
| | `AddressDefault` | without an address the server gets an empty one, against "Defaulted to 127.0.0.1" (`kvstore2pcsystem.cpp:70`) |

`callback_pool_claims`, `tcp_claims` and `program_claims` hold several properties: TLC reports the first that
fails; take it out of the configuration to see the next.

## 4. Proofs

Every theorem below holds for every value of the constants: any number of
participants, keys, ids, tasks, workers, clients, connections, messages, lines and faults.
`tlapm <Module>.tla` checks a module.

| Module | Theorem | States |
|---|---|---|
| `CdbProofs` | `Inductive` | `CInv` (coordinator) |
| | `CSafety`, `AnswerIsDecision`, `LoopsAreValid` | type correctness and `Agreement`; `AnswerMatchesDecision`; `IteratorsValid` |
| | `CommitsArePrepared`, `IdsAreNotReused` | the action properties `CommitOnlyPrepared`, `IdsNotReused` |
| | `StoresInductive` | `DInv` (the system) |
| | `StoresAreAtomic`, `CommitIsIdempotent`, `ClientKnows`, `CommitFindsItsCommand` | `AppliedIsCommitted`, `AppliedOnce`, `AnswerMatchesStores`, `RightCommand` |
| | `ReplicasInductive`, `OneCopyFailStop` | `ReplicaInv`; `ReplicasFailStop` |
| `RecordManagerProofs` | `RecordsInductive` | `RecordsInv` |
| | `LogRefines` | `LogIsAtomic`: the record file implements `AtomicLog` |
| `ClientSessionProofs` | `SessionInductive`, `ReplyOrder` | `SessionInv`; `RepliesInOrder` |
| | `FramingInductive`, `FramingDoesNotMatter` | `FrameInv`; `FramingIndependent` |
| `CallbackPoolProofs` | `PoolInductive`, `TaskRunsOnce`, `NoLostWakeup` | `PoolInv`; `EveryTaskOnce`; `WorkHasWorker` |
| `TcpServerProofs` | `TcpInductive` | `TcpInv` |
| | `RequestsOwnTheirFd`, `ReactorKnowsRequests`, `WorkersNeverBlock`, `CallbackFindsRequest` | `OwnDescriptor`, `NotForgotten`, `NeverBlocks`, `FindsRequest` |
| `SudokuMainProofs` | `SudokuInductive` | `SInv` |
| | `AnswersInOrder`, `NoLineLost`, `NotifyOneIsEnough` | `InOrder`, `NothingLost`, `NobodySleepsInVain` |
| `HttpServerProofs` | `SocketsInductive`, `SocketHasOneOwner`, `AnswerIsOnce` | `HInv`; `OneOwner`; `AnsweredOnce` |
| `ProgramStartProofs` | `StartInductive`, `StartsAsAsked`, `NoneStartsWrong` | `StartInv`; `StartedAsAsked`; `NothingWrongStarts` |

The inductive invariants not among the runs' properties (`DInv`, `ReplicaInv`,
`SessionInv`, `FrameInv`, `StartInv`, `PoolInv`, `GrowInv`, `TcpInv`, `SInv`, `HInv`) were checked
with TLC on the instances of the runs before they were proved, `TcpInv` also with four
steps of peers and early ones (1.7 M states), `ReplicaInv` also with three kills (0.9 M).

**Assumptions.** The named `ASSUME`s give the constants their types and say that
"nobody" (`Nobody`, `Nil`, the owner) is none of the workers, clients or values;
`StreamsAssumption` that a client sends a sequence of tokens, `ValuesAssumption` that the
address lists of the options are sequences of entries and that a malformed value is
neither of the two modes. Beyond
them a theorem states its hypothesis itself:

* `~EarlyClients` (coordinator, `Cdb`): no client before `recovery()` is over. Without it
  `Agreement` fails (`coordinator_early_clients`).
* `InitNext # 0` (`ReplicasInductive`, `OneCopyFailStop`): the system was started before. On
  a first start a participant seen after an update is taken as it is and `Replicas` fails
  (`cdb_late_start`).
* `~CrashWhenEmpty` (`LogRefines`): no crash between truncation and rewrite. Without it
  `NextIdFound` fails (`record_truncation`).
* None in `TcpServerProofs`: peers may come early, and the kernel gives out any free
  number. The condition on `reused` is part of the properties (section 2), and with it
  removed `tcp_claims` and `tcp_fd_reuse` refute three of the four.
* `InitWorkers # {}` and `NeverShrunk` (`NoLostWakeup`): `set_thread_num()` only adds
  workers. Without it `KeepsWorkers` fails (`callback_pool_claims`).

**Arguments.** What the inductive invariants add, and why:

* `CInv`. `Agreement` alone is not inductive: from an arbitrary state in which the log
  says ABORT while a thread is about to log COMMIT, a step breaks it. `CInv` adds who
  holds the lock and that `Main` never resolves records while a request is served
  (`LockInv`), that only the loops have participants left to call (`LoopInv`), that log,
  `next_id` and decisions agree (`LogInv`), what the request of each thread looks like
  in the log (`RequestInv`), and that the copy of the records recovery works on is not
  out of date (`CopyInv`). One lemma per action; actions that only move `Main`, a loop
  or a GET share `MainMoves`, `LoopMoves` and `GetMoves`, those that log share
  `LogRecordLemma`.
* `RecordsInv` says, for each step of `log()`, what `records_` lacks of the replay of the
  file. The refinement needs that a truncation happens only when nothing in the file
  is unfinished, so that the abstract log does not change when the file is emptied.
* `DInv` joins `CInv` with what every participant holds (`StoreInv`), which calls are
  under way (`CallInv`) and what the client sent (`ClientInv`). A PREPARE is sent once per
  id and participant and leaves one trace, a queued call and then an entry of
  `db_requests_`; the one COMMIT that finds the trace uses it up. That is what makes a
  repeated or late COMMIT harmless, and `AppliedOnce` is not inductive without it. The
  handlers are described by lemmas on their outcomes (what an outcome may change,
  what it keeps and what its reply tells), so that the lemmas for the coordinator's
  steps never look into `participant.cpp` again.
* `ReplicaInv` is `OneCopy` in the fail-stop case. The argument is about what a participant
  answers to NEXT_ID, now or after a restart, because the coordinator judges by that
  alone. No participant is ahead of the coordinator, in memory or in its log, and it is
  behind while it awaits the outcome of an update (`PlaceInv`); whoever is at the
  coordinator's id, or will be after a restart, has the committed data (`DataInv`); members
  have it too, up to the update they are to apply (`MemberInv`); a key that somebody still
  has although it was deleted is in `del_keys_` or about to be, so that a snapshot with
  these deletions removes it (`DelInv`); a recovery under way works on the present data
  (`RecoverInv`). `NothingLeft` says that the heartbeat never has a record to resolve,
  which needs that no update loses all its participants. `MemberInv` alone is not
  inductive: a participant that died between two steps of COMMIT rejoins without being
  recovered if its id is right, and only `DataInv` says that its data then is.
* `SessionInv` adds that a session still connected has sent no error yet.
* `FrameInv` says that the bytes kept are the part of the stream between the last
  command executed or about to be and what has arrived, and that those commands followed
  by what parsing the rest of the stream gives are the commands of the stream. That a
  command read in a prefix is the one read in the whole, and that "incomplete" is said
  only where more input can complete it, are lemmas on `ReadCommand`. They speak of every
  length of input: where they need an induction, they take the least position that
  would violate them (`LeastOf`, `Downward`), which the prover can do without the
  induction theorems of the library.
* `StartInv` says that after any number of lines the configuration is what those lines
  say (`FileRead`): the last line that gives a field for most of them, and for the
  participants every line, the one of line i at i's place among them. One more line
  changes what the file says of its own field only (`Longer`), and the setter changes the
  same member (`LineRead`); main() carries this through the choice of the mode, the
  options and the moves. The two properties are stated on positions in the file, not by
  the loop they are about.
* `PoolInv` adds who may be inside the mutex and that nobody sleeps while a task is
  queued; `GrowInv` that workers exit only after `stop()`.
* `SInv` adds how the numbers of the tasks queued, running, done and printed fit
  together. The attempt to prove `NobodySleepsInVain` without its `Alive` shows where it
  is needed: after an assertion has failed in a worker between the push and the
  notification, the process is gone and the notification never comes.
* `HInv` adds that the places a socket can be in are pairwise disjoint (`Apart`) and
  what a worker in each part of the handler knows of the request (`ServeInv`).
* `TcpInv` is stated on sets and functions read off the state: `Open` descriptors, those
  that have input (`HasInput`), the clients with a request in each direction (`Waiting`), and
  the callbacks, executing flags and marks of every number (`Cb`, `Exec`, `Marked`). It has
  a part for each kind of reuse. `BaseInv` holds whatever the kernel does: what holds at
  each place inside `disconnect()` (`DisconnectInv`), where several threads may be at once;
  that a callback set, queued or running for a number is for a client whose `fd_` is that
  number or reset, and who has a request if connected (`TrackInv`, `TaskInv`); that a
  queued or running callback is the only one for its descriptor and direction, which its
  executing flag shows, and that what is in the sets of `select()` does not run (`ExecInv`,
  `PollInv`). `FindsRequest` needs no more, because a callback is bound to its client and
  not to the number. `OwnInv` adds, until a number is reused that is still to be closed,
  that connected clients and those with requests have their own connection open, and that no
  thread inside `disconnect()` is about to close another one. `KnownInv` adds, until
  one is reused that is tracked, that the entry of a connected client is not marked and has
  its callbacks; `InputInv`, until any such number is reused, that what `select()` reported
  readable stays so. Lemmas on the views say what each operation of the reactor does to
  them; general lemmas cover steps that only move a thread, start or end a callback, add a
  request, release a descriptor or give one out; then there is one lemma per action.

**Only model-checked.** All liveness (`RequestEnds`, `RecoveryEnds`, `Rejoins`,
`UnfinishedGetsDone`, `SessionEnds`, `TasksRun`, `ServesAndStops`, `Exits`, `Served`): fairness and ENABLED are out of the prover's reach. `AnswersSolve`: that the
backtracking search finds a solution needs an induction over the tree of its calls,
and the solver is a recursive function on boards.
`NoHandlerThrows`: it holds only for the faultless first start of its run.

## 5. Not modelled

leveldb, rpclib, `Flags.hh` and the kernel (external, modelled from their use);
logging, formatting of pages and messages, serialisation of commands; the option
parsing and page building of Lab 2; character-level scanning inside a token;
`tcp_client::connect()` and the move assignment of sockets, which the servers do not
use; a full pipe of the notifier; contradictory Sudoku clues, which the solver
never compares; wrap-around of 32-bit ids; `SIGPIPE`.

## 6. Status and what is left

Modelled: log, coordinator, participant, system; session and parser, callback pool,
reactor, TCP server, program start; the Lab 1 program with its solver, and the Lab 2
server. Proved: every safety invariant the runs check but `AnswersSolve`, and the action
properties but `NoHandlerThrows`, as section 4 lists them.

Left: an abstract store (one copy, atomic updates) that `Cdb` implements in the fail-stop
case, now that `ReplicaInv` says what its refinement mapping would need; the solver against
its reference.
