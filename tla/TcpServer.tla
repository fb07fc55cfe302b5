----------------------------- MODULE TcpServer ------------------------------
(***************************************************************************)
(* tcp_server and tcp_client on the reactor, src/Lab3/src/tcp_server/      *)
(* tcp_server.cpp and tcp_client.cpp, used the way the coordinator and the *)
(* echo server do: an accepted client is read; a read is answered and the  *)
(* client read again, or answered with an error whose completion           *)
(* disconnects.  The threads are the reactor's workers, which run the      *)
(* callbacks, and the owner of the server, which starts and stops it.      *)
(***************************************************************************)
EXTENDS Reactor

CONSTANTS
  Workers,      \* the threads of callback_workers_
  Owner,        \* the thread that owns the tcp_server
  EarlyPeers,   \* may peers connect before start() returns?
  AcceptFails,  \* the connections accept() may fail to accept
  Ends          \* what ends the reactor: "none", "stop" or "destroy"

ASSUME TcpServerAssumption ==
  /\ Owner \notin Workers
  /\ EarlyPeers \in BOOLEAN /\ AcceptFails \subseteq Conns
  /\ Ends \in {"none", "stop", "destroy"}

VARIABLES
  connected,    \* the clients with is_connected_ set
  reads,        \* how many read_requests_ each client has
  writes,       \* its write_requests_, by what is written
  bound,        \* the clients whose on_disconnection_ is the server's
  clients,      \* clients_
  mutex,        \* the owner of clients_mutex_
  is_running,   \* is_running_
  new_cb,       \* is on_new_connection_cb_ set?
  th            \* where each thread is, and its local variables

clientVars == <<connected, reads, writes, bound>>
serverVars == <<clients, mutex, is_running, new_cb>>
vars == <<sockVars, reactorVars, clientVars, serverVars, th>>

Threads == Workers \cup {Owner}
Nobody  == "nobody"
NoTask  == [fd |-> NoFd, dir |-> "rd", cb |-> NoCb]

\* Where a thread may be: in start() and after it, in a callback of a client or of
\* the server, in disconnect(), in stop().
Places ==
  {"start", "set_cb", "set_running", "serving", "stopped", "join_poll", "join_pool", "hung", "done",
   "idle", "do", "answer", "read_again", "epilogue", "accept", "new_client", "bind", "append",
   "disconnect", "clear", "unregister", "close", "reset", "wait", "lock", "erase",
   "stop", "unset", "lock_all", "next"}

TypeOK ==
  /\ SocketsTypeOK /\ ReactorTypeOK
  /\ connected \subseteq Conns /\ bound \subseteq Conns
  /\ reads \in [Conns -> Nat] /\ writes \in [Conns -> Seq({"result", "error"})]
  /\ clients \in Seq(Conns) /\ mutex \in Threads \cup {Nobody}
  /\ is_running \in BOOLEAN /\ new_cb \in BOOLEAN
  /\ th \in [Threads -> [pc : Places, task : Tasks \cup {NoTask}, s : Socks,
                       fd : Fds \cup {NoFd}, i : Nat \ {0}]]

Init ==
  /\ SocketsInit /\ ReactorInit
  /\ connected = {} /\ bound = {}
  /\ reads = [c \in Conns |-> 0] /\ writes = [c \in Conns |-> <<>>]
  /\ clients = <<>> /\ mutex = Nobody /\ is_running = FALSE /\ new_cb = FALSE
  /\ th = [t \in Threads |-> [pc |-> IF t = Owner THEN "start" ELSE "idle",
                              task |-> NoTask, s |-> Server, fd |-> NoFd, i |-> 1]]

At(t, l) == th[t].pc = l
Goto(t, l) == th' = [th EXCEPT ![t].pc = l]
Me(t) == th[t].task.cb       \* the tcp_client or tcp_server whose callback t runs

\* What thread t passes to unregister() or close(): fd_ as it was at any time since
\* the step before, which another thread may have reset meanwhile.
FdRead(t) == {th[t].fd, sockfd[th[t].s]}

\* The uses the library has for number f: a thread in disconnect() or stop() has
\* still to close it, tracked_fds_ has an entry for it, select() has reported it.
Closes(f) ==
  \E t \in Threads :
    \/ th[t].pc \in {"disconnect", "clear"} /\ sockfd[th[t].s] = f
    \/ th[t].pc \in {"unregister", "close"} /\ f \in FdRead(t)
Reports(f) == \E p \in poll.ready : p[1] = f
UsesOf(f) ==
  {u \in Uses : \/ u = "closing"  /\ Closes(f)
                \/ u = "tracked"  /\ f \in DOMAIN tracked
                \/ u = "reported" /\ Reports(f)}

\* disconnect() of client c returns to the loop of stop() or ends a callback; it
\* does nothing for a client that is not connected.
Returned(t) == IF t = mutex THEN "next" ELSE "epilogue"
Disconnecting(t, c) == IF c \in connected THEN "disconnect" ELSE Returned(t)

-----------------------------------------------------------------------------
(* Requests of a tcp_client, each under its read or write mutex.           *)

\* do_read() in a recv() that blocks, which keeps read_request_mutex_.
Blocked(w, c) ==
  At(w, "do") /\ Me(w) = c /\ th[w].task.dir = "rd" /\ reads[c] > 0 /\ RecvBlocks(c)
ReadLocked(c) == \E w \in Workers : Blocked(w, c)

AsyncRead(c) ==
  /\ ~ReadLocked(c)
  /\ IF c \in connected
     THEN SetCallback(sockfd[c], "rd", c) /\ reads' = [reads EXCEPT ![c] = @ + 1]
     ELSE UNCHANGED <<tracked, pipe, reads>>
  /\ UNCHANGED <<connected, writes, bound>>

\* Mutant: is_connected_ is not looked at.
AsyncWriteUnchecked(c, what) ==
  /\ IF sockfd[c] # NoFd THEN SetCallback(sockfd[c], "wr", c) ELSE UNCHANGED <<tracked, pipe>>
  /\ writes' = [writes EXCEPT ![c] = Append(@, what)]
  /\ UNCHANGED <<connected, reads, bound>>

AsyncWrite(c, what) ==
  /\ IF c \in connected
     THEN SetCallback(sockfd[c], "wr", c) /\ writes' = [writes EXCEPT ![c] = Append(@, what)]
     ELSE UNCHANGED <<tracked, pipe, writes>>
  /\ UNCHANGED <<connected, reads, bound>>

-----------------------------------------------------------------------------
(* A worker takes a callback; on_read_available() and on_write_available() *)
(* of a tcp_client.                                                        *)

Take(w) ==
  /\ At(w, "idle") /\ tasks # <<>> /\ th[Owner].pc \notin {"join_pool", "hung", "done"}
  /\ tasks' = Tail(tasks)
  /\ th' = [th EXCEPT ![w].task = Head(tasks),
                      ![w].pc = IF Head(tasks).cb = Server THEN "accept" ELSE "do"]
  /\ UNCHANGED <<sockVars, tracked, poll, pipe, poll_stop, clientVars, serverVars>>

\* do_read() or do_write() with no request: result.success was never written.
DoNothing(w) ==
  /\ At(w, "do")
  /\ \/ th[w].task.dir = "rd" /\ reads[Me(w)] = 0 /\ ~ReadLocked(Me(w))
     \/ th[w].task.dir = "wr" /\ writes[Me(w)] = <<>>
  /\ \/ Goto(w, "epilogue")
     \/ th' = [th EXCEPT ![w].pc = Disconnecting(w, Me(w)), ![w].s = Me(w)]
  /\ UNCHANGED <<sockVars, reactorVars, clientVars, serverVars>>

\* Mutant: the callback stays when no request is left.
DoReadKeepsCallback(w) ==
  LET c == Me(w) IN
  /\ At(w, "do") /\ th[w].task.dir = "rd" /\ reads[c] > 0 /\ ~ReadLocked(c)
  /\ Recv(c)
  /\ reads' = [reads EXCEPT ![c] = @ - 1]
  /\ th' = [th EXCEPT ![w].pc = IF RecvSucceeds(c) THEN "answer" ELSE Disconnecting(w, c), ![w].s = c]
  /\ UNCHANGED <<sockfd, reactorVars, connected, writes, bound, serverVars>>

\* do_read(): the last request takes the callback with it.
DoRead(w) ==
  LET c == Me(w) IN
  /\ At(w, "do") /\ th[w].task.dir = "rd" /\ reads[c] > 0 /\ ~ReadLocked(c)
  /\ Recv(c)
  /\ reads' = [reads EXCEPT ![c] = @ - 1]
  /\ IF reads[c] = 1 THEN SetCallback(sockfd[c], "rd", NoCb) ELSE UNCHANGED <<tracked, pipe>>
  /\ th' = [th EXCEPT ![w].pc = IF RecvSucceeds(c) THEN "answer" ELSE Disconnecting(w, c), ![w].s = c]
  /\ UNCHANGED <<sockfd, poll, tasks, poll_stop, connected, writes, bound, serverVars>>

\* do_write(), and the completion of an error, which disconnects.
DoWrite(w) ==
  LET c == Me(w) IN
  /\ At(w, "do") /\ th[w].task.dir = "wr" /\ writes[c] # <<>>
  /\ writes' = [writes EXCEPT ![c] = Tail(@)]
  /\ IF Len(writes[c]) = 1 THEN SetCallback(sockfd[c], "wr", NoCb) ELSE UNCHANGED <<tracked, pipe>>
  /\ \E ok \in SendResults(c) :
       th' = [th EXCEPT ![w].s = c,
                ![w].pc = IF ok /\ Head(writes[c]) = "result" THEN "epilogue" ELSE Disconnecting(w, c)]
  /\ UNCHANGED <<sockVars, poll, tasks, poll_stop, connected, reads, bound, serverVars>>

\* What handle_db_requests() makes of a read: a result, and it reads
\* again, or an error.
Answer(w) ==
  /\ At(w, "answer")
  /\ \/ AsyncWrite(Me(w), "result") /\ Goto(w, "read_again")
     \/ AsyncWrite(Me(w), "error") /\ Goto(w, "epilogue")
  /\ UNCHANGED <<sockVars, poll, tasks, poll_stop, serverVars>>

ReadAgain(w) ==
  /\ At(w, "read_again")
  /\ AsyncRead(Me(w)) /\ Goto(w, "epilogue")
  /\ UNCHANGED <<sockVars, poll, tasks, poll_stop, serverVars>>

EndCallback(w) ==
  /\ At(w, "epilogue")
  /\ Epilogue(th[w].task.fd, th[w].task.dir)
  /\ th' = [th EXCEPT ![w].pc = "idle", ![w].task = NoTask, ![w].s = Server]
  /\ UNCHANGED <<sockVars, poll, tasks, poll_stop, clientVars, serverVars>>

-----------------------------------------------------------------------------
(* tcp_server::on_read_available().                                        *)

Accept(w) ==
  /\ At(w, "accept")
  /\ \/ \E f \in NewFds : AcceptNext(f, UsesOf(f))
        /\ connected' = connected \cup {accepted + 1}
        /\ th' = [th EXCEPT ![w].pc = "new_client", ![w].s = accepted + 1]
     \/ Denotes(sockfd[Server]) = Server /\ accepted < arrived /\ accepted + 1 \in AcceptFails
        /\ Goto(w, "stop") /\ UNCHANGED <<sockVars, connected>>
     \/ \E f \in NewFds : AcceptClosed(f, UsesOf(f))
        /\ Goto(w, "stop") /\ UNCHANGED connected
  /\ UNCHANGED <<reactorVars, reads, writes, bound, serverVars>>

\* on_new_connection_cb_, if it is there already: the coordinator's handle_new_client().
NewClient(w) ==
  /\ At(w, "new_client")
  /\ IF new_cb THEN AsyncRead(th[w].s) ELSE UNCHANGED <<tracked, pipe, clientVars>>
  /\ Goto(w, "bind")
  /\ UNCHANGED <<sockVars, poll, tasks, poll_stop, serverVars>>

Bind(w) ==
  /\ At(w, "bind")
  /\ bound' = bound \cup {th[w].s} /\ Goto(w, "append")
  /\ UNCHANGED <<sockVars, reactorVars, connected, reads, writes, serverVars>>

\* emplace_back() without clients_mutex_: a race when another thread holds it,
\* which may lose the new element.
AppendClient(w) ==
  /\ At(w, "append")
  /\ \/ clients' = Append(clients, th[w].s)
     \/ mutex # Nobody /\ UNCHANGED clients
  /\ Goto(w, "epilogue")
  /\ UNCHANGED <<sockVars, reactorVars, clientVars, mutex, is_running, new_cb>>

-----------------------------------------------------------------------------
(* tcp_client::disconnect() of client th[t].s; UnregisterFd, CloseFd  *)
(* and ResetFd are also those of the server's own socket in stop().              *)

\* is_connected_ is cleared before the queues, so that nothing is queued after.
Disconnect(t) ==
  /\ At(t, "disconnect")
  /\ connected' = connected \ {th[t].s}
  /\ Goto(t, "clear")
  /\ UNCHANGED <<sockVars, reactorVars, reads, writes, bound, serverVars>>

ClearReqs(t) ==
  /\ At(t, "clear") /\ ~ReadLocked(th[t].s)
  /\ reads' = [reads EXCEPT ![th[t].s] = 0] /\ writes' = [writes EXCEPT ![th[t].s] = <<>>]
  /\ th' = [th EXCEPT ![t].pc = "unregister", ![t].fd = sockfd[th[t].s]]
  /\ UNCHANGED <<sockVars, reactorVars, connected, bound, serverVars>>

UnregisterFd(t) ==
  /\ At(t, "unregister")
  /\ \E f \in FdRead(t) : Unregister(f)
  /\ th' = [th EXCEPT ![t].pc = "close", ![t].fd = sockfd[th[t].s]]
  /\ UNCHANGED <<sockVars, poll, tasks, poll_stop, clientVars, serverVars>>

\* tcp_socket::close(): the descriptor is closed, then fd_ reset.
CloseFd(t) ==
  /\ At(t, "close")
  /\ \E f \in FdRead(t) : KernelClose(f)
  /\ th' = [th EXCEPT ![t].pc = "reset", ![t].fd = NoFd]
  /\ UNCHANGED <<sockfd, reactorVars, clientVars, serverVars>>

ResetFd(t) ==
  /\ At(t, "reset")
  /\ sockfd' = [sockfd EXCEPT ![th[t].s] = NoFd]
  /\ Goto(t, IF th[t].s = Server THEN "lock_all" ELSE "wait")
  /\ UNCHANGED <<kernelVars, reactorVars, clientVars, serverVars>>

\* wait_on_removal_cond(socket_.fd()) of disconnect(true), which stop() calls, and
\* the tests of on_disconnection_ and is_running_.
Wait(t) ==
  /\ At(t, "wait") /\ (mutex = t => sockfd[th[t].s] \notin DOMAIN tracked)
  /\ Goto(t, IF th[t].s \in bound /\ is_running THEN "lock" ELSE Returned(t))
  /\ UNCHANGED <<sockVars, reactorVars, clientVars, serverVars>>

\* on_client_disconnect().
Lock(t) ==
  /\ At(t, "lock") /\ mutex = Nobody
  /\ mutex' = t /\ Goto(t, "erase")
  /\ UNCHANGED <<sockVars, reactorVars, clientVars, clients, is_running, new_cb>>

EraseClient(t) ==
  /\ At(t, "erase")
  /\ clients' = RemoveFirst(clients, th[t].s)
  /\ mutex' = Nobody /\ Goto(t, "epilogue")
  /\ UNCHANGED <<sockVars, reactorVars, clientVars, is_running, new_cb>>

DisconnectStep(t) ==
  \/ Disconnect(t) \/ ClearReqs(t) \/ UnregisterFd(t) \/ CloseFd(t) \/ ResetFd(t)
  \/ Wait(t) \/ Lock(t) \/ EraseClient(t)

-----------------------------------------------------------------------------
(* tcp_server::stop(), called by the owner or by a failed accept().        *)

Stopped(t) == IF t = Owner THEN "stopped" ELSE "epilogue"

Stop(t) ==
  /\ At(t, "stop")
  /\ Goto(t, IF is_running THEN "unset" ELSE Stopped(t))
  /\ UNCHANGED <<sockVars, reactorVars, clientVars, serverVars>>

\* Mutant: is_running_ is still set while the clients are disconnected.
UnsetRunningLate(t) ==
  /\ At(t, "unset")
  /\ th' = [th EXCEPT ![t].pc = "unregister", ![t].s = Server, ![t].fd = sockfd[Server]]
  /\ UNCHANGED <<sockVars, reactorVars, clientVars, serverVars>>

UnsetRunning(t) ==
  /\ At(t, "unset")
  /\ is_running' = FALSE
  /\ th' = [th EXCEPT ![t].pc = "unregister", ![t].s = Server, ![t].fd = sockfd[Server]]
  /\ UNCHANGED <<sockVars, reactorVars, clientVars, clients, mutex, new_cb>>

LockAll(t) ==
  /\ At(t, "lock_all") /\ mutex = Nobody
  /\ mutex' = t
  /\ th' = [th EXCEPT ![t].pc = "next", ![t].i = 1]
  /\ UNCHANGED <<sockVars, reactorVars, clientVars, clients, is_running, new_cb>>

NextClient(t) ==
  /\ At(t, "next") /\ th[t].i <= Len(clients)
  /\ LET c == clients[th[t].i] IN
     th' = [th EXCEPT ![t].pc = Disconnecting(t, c), ![t].s = c, ![t].i = @ + 1]
  /\ UNCHANGED <<sockVars, reactorVars, clientVars, serverVars>>

ClearClients(t) ==
  /\ At(t, "next") /\ th[t].i > Len(clients)
  /\ clients' = <<>> /\ mutex' = Nobody
  /\ th' = [th EXCEPT ![t].pc = Stopped(t), ![t].s = Server, ![t].i = 1]
  /\ UNCHANGED <<sockVars, reactorVars, clientVars, is_running, new_cb>>

StopStep(t) == Stop(t) \/ UnsetRunning(t) \/ LockAll(t) \/ NextClient(t) \/ ClearClients(t)

-----------------------------------------------------------------------------
(* The owner: tcp_server::start(), and the end of the reactor.             *)

Start ==
  /\ At(Owner, "start")
  /\ \E f \in NewFds : Listen(f, UsesOf(f)) /\ RegisterFd(f, Server)
  /\ Goto(Owner, "set_cb")
  /\ UNCHANGED <<poll, tasks, poll_stop, clientVars, serverVars>>

SetNewCb ==
  /\ At(Owner, "set_cb")
  /\ new_cb' = TRUE /\ Goto(Owner, "set_running")
  /\ UNCHANGED <<sockVars, reactorVars, clientVars, clients, mutex, is_running>>

SetRunning ==
  /\ At(Owner, "set_running")
  /\ is_running' = TRUE /\ Goto(Owner, "serving")
  /\ UNCHANGED <<sockVars, reactorVars, clientVars, clients, mutex, new_cb>>

\* The owner decides to stop, and then to end the reactor.
CallStop ==
  /\ At(Owner, "serving") /\ Goto(Owner, "stop")
  /\ UNCHANGED <<sockVars, reactorVars, clientVars, serverVars>>

EndReactor ==
  /\ At(Owner, "stopped") /\ Ends # "none"
  /\ SetPollStop(Ends = "stop") /\ Goto(Owner, "join_poll")
  /\ UNCHANGED <<sockVars, tracked, poll, tasks, clientVars, serverVars>>

\* The poll thread is joined; callback_workers_.stop() sets its flag and notifies,
\* which a worker between its test of the empty queue and its sleep misses.
JoinPoll ==
  /\ At(Owner, "join_poll") /\ poll.pc = "exited"
  /\ \/ Goto(Owner, "join_pool")
     \/ tasks = <<>> /\ (\E w \in Workers : At(w, "idle")) /\ Goto(Owner, "hung")
  /\ UNCHANGED <<sockVars, reactorVars, clientVars, serverVars>>

\* The join() of the workers, which finish what they run and take nothing more; one
\* that missed the notification is waited for for ever ("hung").
JoinPool ==
  /\ At(Owner, "join_pool") /\ \A w \in Workers : At(w, "idle")
  /\ Goto(Owner, "done")
  /\ UNCHANGED <<sockVars, reactorVars, clientVars, serverVars>>

-----------------------------------------------------------------------------

Worker(w) ==
  \/ Take(w) \/ DoNothing(w) \/ DoRead(w) \/ DoWrite(w) \/ Answer(w)
  \/ ReadAgain(w) \/ EndCallback(w) \/ Accept(w) \/ NewClient(w) \/ Bind(w) \/ AppendClient(w)
  \/ DisconnectStep(w) \/ StopStep(w)

OwnerStep ==
  \/ Start \/ SetNewCb \/ SetRunning \/ JoinPoll \/ JoinPool
  \/ DisconnectStep(Owner) \/ StopStep(Owner)

PollThread == Poll /\ UNCHANGED <<clientVars, serverVars, th>>

Peer ==
  /\ \/ PeerConnect /\ (EarlyPeers \/ th[Owner].pc \notin {"set_cb", "set_running"})
     \/ \E c \in Conns : PeerSend(c) \/ PeerClose(c)
  /\ UNCHANGED <<reactorVars, clientVars, serverVars, th>>

Next ==
  \/ PollThread \/ OwnerStep \/ CallStop \/ EndReactor \/ Peer
  \/ \E w \in Workers : Worker(w)

\* The threads are scheduled fairly; peers and the owner's decisions are free.  Every
\* step of the poll thread changes poll, every other one the place of its thread.
Fairness == WF_poll(PollThread) /\ WF_th(OwnerStep) /\ \A w \in Workers : WF_th(Worker(w))

Spec == Init /\ [][Next]_vars /\ Fairness

-----------------------------------------------------------------------------
(* Properties.                                                             *)

Pending(c, dir) == IF dir = "rd" THEN reads[c] > 0 ELSE writes[c] # <<>>

\* What a request, the reactor and a worker rely on while descriptor numbers mean
\* what they meant: a pending request is for the open descriptor of its client's
\* own connection; the reactor has a connected client's pending requests with their
\* callbacks; no callback blocks its worker in recv().
RequestOnOwnConnection ==
  \A c \in Conns : (\E d \in Dirs : Pending(c, d)) => Denotes(sockfd[c]) = c
ReactorHasRequests ==
  \A c \in connected, d \in Dirs :
    Pending(c, d) => sockfd[c] \in DOMAIN tracked /\ tracked[sockfd[c]].cb[d] = c
HandlersDoNotBlock == \A w \in Workers, c \in Conns : ~Blocked(w, c)

\* A request is pending only on the open descriptor of its own client's connection,
\* although disconnect() runs in several threads and closes the descriptor before
\* fd_ is reset: tcp_client.cpp:39-48 clears the requests before it closes.  This
\* ends when accept() gives out a number that a second disconnect() is still to
\* close (configuration tcp_claims).
OwnDescriptor == "closing" \notin reused => RequestOnOwnConnection

\* No unregistration, end of a callback or erasure in dispatch_select() loses the
\* callback of a pending request, as long as no number is given out that a second
\* disconnect() is to unregister or that tracked_fds_ still has, marked for the end
\* of its old owner's callback (reactor.cpp:72-73, 98 and 241-244); then it does
\* (configuration tcp_claims).
NotForgotten == {"closing", "tracked"} \cap reused = {} => ReactorHasRequests

\* What select() reported readable is still so when recv() is called, until a number
\* is given out that the library still uses: then HandlersDoNotBlock is refuted by
\* the answer of select() for the old connection (run tcp_fd_reuse).
NeverBlocks == reused = {} => HandlersDoNotBlock

\* A callback of a connected client finds a request, whatever select() answered and
\* whichever numbers were reused: do_read() and do_write() never return a
\* result.success that was not written (tcp_client.cpp:117 and 144).
FindsRequest ==
  \A w \in Workers : At(w, "do") /\ Me(w) \in connected => Pending(Me(w), th[w].task.dir)

\* What peers send and stop() ask for is done: every pending request whose descriptor
\* is ready is served or dropped, and start() and tcp_server::stop() return.  Every
\* new callback and every end of one wakes the poll thread, which sleeps on the sets
\* it made before (reactor.cpp:250), and the disconnection of a client by stop(),
\* which holds clients_mutex_, does not take it again (tcp_server.cpp:66-90).  Peers
\* do finitely much here, so that nothing waits from some time on unless it waits for
\* ever.  A worker that recv() blocks on a reused number keeps others waiting.
Unserved ==
  {r \in Conns \X Dirs : Pending(r[1], r[2]) /\ sockfd[r[1]] # NoFd /\ Ready(sockfd[r[1]], r[2])}
OwnerFree == th[Owner].pc \in {"serving", "stopped", "join_poll", "join_pool", "hung", "done"}
ServesAndStops == []<>((Unserved = {} /\ OwnerFree) \/ poll_stop \/ reused # {})

\* What further configurations refute, with RequestOnOwnConnection and
\* ReactorHasRequests.  The end of the reactor returns: ~reactor() does not wake the
\* poll thread, and a worker can miss the notification of callback_workers_.stop().
ReactorEnds == At(Owner, "join_poll") ~> At(Owner, "done")

\* disconnect(true), which stop() calls for every client, is to wait until the
\* disconnection is complete; it waits for socket_.fd() after close() has reset it.
DisconnectWaits ==
  \A t \in Threads : At(t, "next") /\ th[t].s \in Conns =>
    \A w \in Workers \ {t} : Me(w) # th[t].s

\* After stop() no accepted client is connected; one whose accept callback
\* appends it after stop() cleared the list is.
StopDisconnectsAll == At(Owner, "stopped") => connected = {}

\* An accepted client has been handed to on_new_connection_cb_; start()
\* registers the descriptor before it sets the callback.
ClientsRead ==
  \A w \in Workers : At(w, "bind") /\ th[w].s \in connected => sockfd[th[w].s] \in DOMAIN tracked

-----------------------------------------------------------------------------
(* The inductive invariant behind OwnDescriptor, NotForgotten, NeverBlocks *)
(* and FindsRequest: what holds whatever numbers are reused, and what holds *)
(* until one is reused that is still to be closed, tracked or reported.    *)

\* The clients that have their descriptor open, those recv() has something for,
\* those with requests, and tracked_fds_ as total functions of the descriptor.
Open     == {c \in Conns : Denotes(sockfd[c]) = c}
HasInput == {c \in Conns : unread[c] > 0 \/ c \in eof}
Waiting  == [d \in Dirs |-> {c \in Conns : Pending(c, d)}]
Cb       == [f \in Fds |-> Info(f).cb]
Exec     == [f \in Fds |-> Info(f).exec]
Marked   == [f \in Fds |-> Info(f).marked]

\* The workers that run a callback, and the ones that have not read or written.
Running == {w \in Workers : ~At(w, "idle")}
Doing   == {w \in Workers : At(w, "do")}

ThreadInv ==
  /\ \A w \in Running : th[w].task \in Tasks
  /\ \A w \in Workers : th[w].pc \in {"do", "answer", "read_again"} => Me(w) \in Conns
  /\ \A w \in Workers : th[w].pc \in {"new_client", "bind", "append"} => th[w].s \in Conns

\* A connected client and one with requests have an fd_, and the server's fd_ never
\* denotes a connection.
SockInv ==
  /\ \A c \in connected : sockfd[c] # NoFd
  /\ \A d \in Dirs : \A c \in Waiting[d] : sockfd[c] # NoFd
  /\ Denotes(sockfd[Server]) \notin Conns

\* What was not accepted yet is nowhere.
AcceptedInv ==
  /\ \A c \in Conns : c > accepted => sockfd[c] = NoFd
  /\ \A t \in Threads : th[t].s <= accepted
  /\ \A i \in 1..Len(clients) : clients[i] <= accepted

\* Where each thread is inside disconnect(): the queues of its client are empty
\* before the descriptor is unregistered and closed, and stay so.
DisconnectInv ==
  \A t \in Threads :
    /\ th[t].pc \in {"clear", "unregister", "close", "reset"} => th[t].s \notin connected
    /\ th[t].pc \in {"unregister", "close", "reset"} => \A d \in Dirs : th[t].s \notin Waiting[d]

\* A callback of client c for descriptor f is for the client's own fd_, and while
\* the client is connected there is a request for it; so it is with those in
\* tracked_fds_, in the queue, and running but not at work yet.
Serves(c, f, d) ==
  /\ c <= accepted /\ sockfd[c] \in {f, NoFd}
  /\ c \in connected => c \in Waiting[d]
TaskServed(k) == k.cb \in Conns => Serves(k.cb, k.fd, k.dir)
TrackInv == \A f \in Fds, d \in Dirs : Cb[f][d] \in Conns => Serves(Cb[f][d], f, d)
TaskInv ==
  /\ \A i \in 1..Len(tasks) : TaskServed(tasks[i])
  /\ \A w \in Doing : TaskServed(th[w].task)

\* A queued or running callback is the only one of its descriptor and direction,
\* and its is_executing flag is set; what select() is asked about or has reported
\* does not run.
ExecInv ==
  /\ \A i \in 1..Len(tasks) : Exec[tasks[i].fd][tasks[i].dir]
  /\ \A w \in Running : Exec[th[w].task.fd][th[w].task.dir]
  /\ \A i, j \in 1..Len(tasks) :
       tasks[i].fd = tasks[j].fd /\ tasks[i].dir = tasks[j].dir => i = j
  /\ \A v, w \in Running :
       th[v].task.fd = th[w].task.fd /\ th[v].task.dir = th[w].task.dir => v = w
  /\ \A i \in 1..Len(tasks), w \in Running :
       ~(tasks[i].fd = th[w].task.fd /\ tasks[i].dir = th[w].task.dir)
PollInv == \A p \in poll.asked \cup poll.ready : ~Exec[p[1]][p[2]]

\* Until a number is reused that is still to be closed: a connected client and one
\* with requests have their own connection open, and no thread is about to
\* unregister or close the descriptor of another one.
Harmless(f, s) == Denotes(f) \notin Conns \ {s}
Spares(t) ==
  /\ th[t].pc \in {"disconnect", "clear"} => Harmless(sockfd[th[t].s], th[t].s)
  /\ th[t].pc \in {"unregister", "close"} => \A f \in FdRead(t) : Harmless(f, th[t].s)
OwnInv ==
  /\ connected \subseteq Open
  /\ \A d \in Dirs : Waiting[d] \subseteq Open
  /\ \A t \in Threads : Spares(t)

\* Until one is reused that is tracked, too: the entry of a connected client is not
\* marked and has the callbacks of its requests.
KnownInv ==
  \A c \in connected :
    /\ ~Marked[sockfd[c]]
    /\ \A d \in Dirs : c \in Waiting[d] => Cb[sockfd[c]][d] = c

\* Until any such number is reused: what select() has reported, and a callback has
\* not read, can still be read.
Fed(f) == \A c \in Open : sockfd[c] = f => c \in HasInput
InputInv ==
  /\ \A i \in 1..Len(tasks) : tasks[i].dir = "rd" => Fed(tasks[i].fd)
  /\ \A w \in Doing : th[w].task.dir = "rd" => Fed(th[w].task.fd)
  /\ \A p \in poll.ready : p[2] = "rd" => Fed(p[1])

\* The numbers reused so far, and what holds whatever they are.
NotClosing == "closing" \notin reused
NotKept    == {"closing", "tracked"} \cap reused = {}
Fresh      == reused = {}
BaseInv ==
  /\ TypeOK /\ ThreadInv /\ SockInv /\ AcceptedInv /\ DisconnectInv
  /\ TrackInv /\ TaskInv /\ ExecInv /\ PollInv
TcpInv ==
  /\ BaseInv
  /\ NotClosing => OwnInv
  /\ NotKept => KnownInv
  /\ Fresh => InputInv
=============================================================================
