----------------------------- MODULE HttpServer -----------------------------
(***************************************************************************)
(* The HTTP server of Lab 2: the accept loop of src/Lab2/src/server.cc,    *)
(* the pool of src/Lab2/src/thread_pool.cc and serve_client().             *)
(*                                                                         *)
(* A request arrives in three parts, its first line, its headers with the  *)
(* empty line that ends them, and its body; the client may stop after any  *)
(* of them and may close its side at any time.  recv_line() waits for a    *)
(* part and gives an empty line once the other side is closed.             *)
(***************************************************************************)
EXTENDS Naturals, Sequences, FiniteSets

CONSTANTS
  Clients,   \* the connections, one request each
  Workers,   \* the threads of the pool
  Requests   \* the requests a client may make

\* line and version: is the first line well formed, is it HTTP/1.1?  length:
\* is there a Content-Length, and is it a number that fits?  found: is the
\* file there (GET), or are the path and both fields right (POST)?
RequestType == [line : BOOLEAN, version : BOOLEAN, length : {"none", "ok", "bad"},
                method : {"GET", "POST", "other"}, found : BOOLEAN]

ASSUME HttpAssumption ==
  /\ IsFiniteSet(Clients) /\ IsFiniteSet(Workers) /\ Workers # {}
  /\ Requests \subseteq RequestType

Nobody == "nobody"

ASSUME NobodyAssumption == Nobody \notin Clients

VARIABLES
  request,       \* what each client asks
  sent,          \* how many of the three parts are there to be received
  eof,           \* the clients that closed their side
  backlog,       \* connections listen() holds
  accepted,      \* sock_client of start(): accepted, not yet given to the pool
  client_socks,  \* client_socks of the pool
  asleep,        \* the workers waiting on the condition variable
  wpc,           \* where each worker is
  sock,          \* the socket it owns
  answers,       \* the status codes sent to each client
  closed,        \* the sockets the server closed
  up             \* is the process there?

vars == <<request, sent, eof, backlog, accepted, client_socks, asleep, wpc, sock,
          answers, closed, up>>
client == <<request, sent, eof>>

\* Every variable has its type; a worker owns a socket exactly while it is in
\* serve_client().
TypeOK ==
  /\ request \in [Clients -> Requests] /\ sent \in [Clients -> 0..3]
  /\ eof \subseteq Clients /\ closed \subseteq Clients
  /\ backlog \in Seq(Clients) /\ client_socks \in Seq(Clients)
  /\ accepted \in Clients \cup {Nobody}
  /\ asleep \subseteq Workers /\ up \in BOOLEAN
  /\ wpc \in [Workers -> {"fetch", "line", "headers", "body", "dispatch"}]
  /\ sock \in [Workers -> Clients \cup {Nobody}]
  /\ \A w \in Workers : sock[w] \in IF wpc[w] = "fetch" THEN {Nobody} ELSE Clients
  /\ answers \in [Clients -> Seq({200, 404, 501})]

Init ==
  /\ request \in [Clients -> Requests] /\ sent = [c \in Clients |-> 0] /\ eof = {}
  /\ backlog = <<>> /\ accepted = Nobody /\ client_socks = <<>>
  /\ asleep = {} /\ wpc = [w \in Workers |-> "fetch"]
  /\ sock = [w \in Workers |-> Nobody]
  /\ answers = [c \in Clients |-> <<>>] /\ closed = {} /\ up = TRUE

\* Where a connection is: a bag of places, as the socket should be in one.
Places(c) ==
  {<<"backlog", i>> : i \in {k \in 1..Len(backlog) : backlog[k] = c}}
    \cup {<<"accepted", 0>> : a \in {accepted} \cap {c}}
    \cup {<<"queue", i>> : i \in {k \in 1..Len(client_socks) : client_socks[k] = c}}
    \cup {<<"worker", w>> : w \in {v \in Workers : sock[v] = c}}
    \cup {<<"closed", 0>> : a \in closed \cap {c}}

-----------------------------------------------------------------------------
(* The clients.                                                            *)

Connect(c) ==
  /\ up /\ Places(c) = {}
  /\ backlog' = Append(backlog, c)
  /\ UNCHANGED <<client, accepted, client_socks, asleep, wpc, sock, answers, closed, up>>

\* The parts a request has.
Parts(c) == IF request[c].length = "ok" THEN 3 ELSE 2

SendPart(c) ==
  /\ up /\ Places(c) # {} /\ c \notin eof /\ c \notin closed /\ sent[c] < Parts(c)
  /\ sent' = [sent EXCEPT ![c] = @ + 1]
  /\ UNCHANGED <<request, eof, backlog, accepted, client_socks, asleep, wpc, sock,
                 answers, closed, up>>

CloseSide(c) ==
  /\ up /\ Places(c) # {} /\ c \notin eof /\ c \notin closed
  /\ eof' = eof \cup {c}
  /\ UNCHANGED <<request, sent, backlog, accepted, client_socks, asleep, wpc, sock,
                 answers, closed, up>>

-----------------------------------------------------------------------------
(* start()                                                                 *)

Accept ==
  /\ up /\ accepted = Nobody /\ backlog # <<>>
  /\ accepted' = Head(backlog)
  /\ backlog' = Tail(backlog)
  /\ UNCHANGED <<client, client_socks, asleep, wpc, sock, answers, closed, up>>

\* abort() on failure accepting
AcceptFails ==
  /\ up /\ accepted = Nobody /\ backlog # <<>>
  /\ up' = FALSE
  /\ UNCHANGED <<client, backlog, accepted, client_socks, asleep, wpc, sock, answers, closed>>

\* Mutant: the pool notifies nobody.
AddClientQuietly ==
  /\ up /\ accepted # Nobody
  /\ client_socks' = Append(client_socks, accepted)
  /\ accepted' = Nobody
  /\ UNCHANGED <<client, backlog, asleep, wpc, sock, answers, closed, up>>

\* add_client(): push and notify_one under the mutex.
AddClient ==
  /\ up /\ accepted # Nobody
  /\ client_socks' = Append(client_socks, accepted)
  /\ accepted' = Nobody
  /\ IF asleep # {} THEN \E w \in asleep : asleep' = asleep \ {w} ELSE UNCHANGED asleep
  /\ UNCHANGED <<client, backlog, wpc, sock, answers, closed, up>>

-----------------------------------------------------------------------------
(* The workers.                                                            *)

\* Mutant: the socket is copied out of the queue and left in it.
FetchKeeps(w) ==
  /\ up /\ wpc[w] = "fetch" /\ w \notin asleep
  /\ IF client_socks = <<>>
     THEN asleep' = asleep \cup {w} /\ UNCHANGED <<client_socks, wpc, sock>>
     ELSE /\ sock' = [sock EXCEPT ![w] = Head(client_socks)]
          /\ wpc' = [wpc EXCEPT ![w] = "line"]
          /\ UNCHANGED <<client_socks, asleep>>
  /\ UNCHANGED <<client, backlog, accepted, answers, closed, up>>

Fetch(w) ==
  /\ up /\ wpc[w] = "fetch" /\ w \notin asleep
  /\ IF client_socks = <<>>
     THEN asleep' = asleep \cup {w} /\ UNCHANGED <<client_socks, wpc, sock>>
     ELSE /\ sock' = [sock EXCEPT ![w] = Head(client_socks)]
          /\ client_socks' = Tail(client_socks)
          /\ wpc' = [wpc EXCEPT ![w] = "line"]
          /\ UNCHANGED asleep
  /\ UNCHANGED <<client, backlog, accepted, answers, closed, up>>

Spurious(w) ==
  /\ up /\ w \in asleep
  /\ asleep' = asleep \ {w}
  /\ UNCHANGED <<client, backlog, accepted, client_socks, wpc, sock, answers, closed, up>>

\* Is part i there, or is it known that it never will be?
Arrived(c, i) == sent[c] >= i
Ended(c, i) == sent[c] < i /\ c \in eof

\* The end of serve_client(): at most one answer is sent, and the socket is
\* closed, by close() or, after a GET, by its destructor.
EndService(w, codes) ==
  /\ answers' = [answers EXCEPT ![sock[w]] = @ \o codes]
  /\ closed' = closed \cup {sock[w]}
  /\ wpc' = [wpc EXCEPT ![w] = "fetch"]
  /\ sock' = [sock EXCEPT ![w] = Nobody]
  /\ UNCHANGED up

RequestLine(w) ==
  LET c == sock[w] IN
  /\ up /\ wpc[w] = "line" /\ (Arrived(c, 1) \/ Ended(c, 1))
  /\ CASE Ended(c, 1) \/ ~request[c].line -> EndService(w, <<>>)
       [] Arrived(c, 1) /\ request[c].line /\ ~request[c].version -> EndService(w, <<501>>)
       [] OTHER -> wpc' = [wpc EXCEPT ![w] = "headers"] /\ UNCHANGED <<sock, answers, closed, up>>
  /\ UNCHANGED <<client, backlog, accepted, client_socks, asleep>>

\* Reading stops at the empty line only: after the other side has closed,
\* recv_line() gives "" for ever and the worker does not leave the loop.
ReadHeaders(w) ==
  /\ up /\ wpc[w] = "headers" /\ Arrived(sock[w], 2)
  /\ wpc' = [wpc EXCEPT ![w] = "body"]
  /\ UNCHANGED <<client, backlog, accepted, client_socks, asleep, sock, answers, closed, up>>

\* recv_body(): a Content-Length that stoll() does not take throws, which ends
\* the process; a body cut short is used with what the buffer holds.
ReadBody(w) ==
  LET c == sock[w] IN
  /\ up /\ wpc[w] = "body"
  /\ \/ /\ request[c].length = "bad"
        /\ up' = FALSE /\ UNCHANGED wpc
     \/ /\ request[c].length = "ok" => Arrived(c, 3) \/ Ended(c, 3)
        /\ request[c].length # "bad"
        /\ wpc' = [wpc EXCEPT ![w] = "dispatch"] /\ UNCHANGED up
  /\ UNCHANGED <<client, backlog, accepted, client_socks, asleep, sock, answers, closed>>

\* handle_get(), handle_post(), page_not_found(), method_not_supported(); the
\* fields of a POST whose body was cut may be found or not.
Codes(c) ==
  CASE request[c].method = "other" -> {501}
    [] request[c].method = "GET" -> {IF request[c].found THEN 200 ELSE 404}
    [] request[c].method = "POST" ->
         IF request[c].length = "ok" /\ Ended(c, 3) THEN {200, 404}
         ELSE {IF request[c].found /\ request[c].length = "ok" THEN 200 ELSE 404}

\* Mutant: the return after page_not_found() is missing.
DispatchFallsThrough(w) ==
  /\ up /\ wpc[w] = "dispatch"
  /\ \E code \in Codes(sock[w]) :
       EndService(w, IF code = 404 THEN <<404, 200>> ELSE <<code>>)
  /\ UNCHANGED <<client, backlog, accepted, client_socks, asleep>>

Dispatch(w) ==
  /\ up /\ wpc[w] = "dispatch"
  /\ \E code \in Codes(sock[w]) : EndService(w, <<code>>)
  /\ UNCHANGED <<client, backlog, accepted, client_socks, asleep>>

WorkerStep(w) == Fetch(w) \/ RequestLine(w) \/ ReadHeaders(w) \/ ReadBody(w) \/ Dispatch(w)

ServerStep == Accept \/ AddClient

Next == \/ \E c \in Clients : Connect(c) \/ SendPart(c) \/ CloseSide(c)
        \/ ServerStep \/ AcceptFails
        \/ \E w \in Workers : WorkerStep(w) \/ Spurious(w)

\* The server's threads run; the clients need not do anything.
Fairness == WF_vars(ServerStep) /\ \A w \in Workers : WF_vars(WorkerStep(w))

Spec == Init /\ [][Next]_vars /\ Fairness

-----------------------------------------------------------------------------
(* Properties.                                                             *)

\* A connection is never lost and never in two hands: it is in the backlog,
\* with the acceptor, in the queue, with one worker, or closed.
OneOwner == \A c \in Clients : Cardinality(Places(c)) <= 1
                                 /\ (Places(c) = {} => sent[c] = 0 /\ c \notin eof)

\* A client gets at most one answer, and the server closes a connection
\* without one only if no well-formed request line came.
AnsweredOnce ==
  \A c \in Clients :
    /\ Len(answers[c]) <= 1
    /\ c \in closed => (answers[c] = <<>> <=> ~Arrived(c, 1) \/ ~request[c].line)

\* A worker that waits for a part of a request that has not come.
Held(w) == \/ wpc[w] = "line" /\ sent[sock[w]] < 1
           \/ wpc[w] = "headers" /\ sent[sock[w]] < 2
           \/ wpc[w] = "body" /\ request[sock[w]].length = "ok" /\ sent[sock[w]] < 3

\* A client whose request has come whole is answered in the end, whatever the
\* others do, as long as they do not hold every worker for ever.
Served ==
  \/ <>[](\A w \in Workers : Held(w))
  \/ \A c \in Clients :
       Places(c) # {} /\ sent[c] = Parts(c) ~> c \in closed \/ ~up

-----------------------------------------------------------------------------
(* The inductive invariant behind OneOwner and AnsweredOnce.               *)

\* The clients in a queue, and a queue that holds each once.
In(q) == {q[k] : k \in 1..Len(q)}
Distinct(q) == \A j, k \in 1..Len(q) : q[j] = q[k] => j = k

\* The hands a socket goes through, backlog, acceptor, queue, worker and
\* closed, do not share one, and none has the same socket twice.
Apart ==
  LET served == {sock[w] : w \in Workers} IN
  /\ Distinct(backlog) /\ Distinct(client_socks)
  /\ \A v, w \in Workers : sock[v] = sock[w] /\ sock[v] # Nobody => v = w
  /\ \A c \in In(backlog) : c # accepted /\ c \notin In(client_socks) \cup served \cup closed
  /\ \A c \in In(client_socks) : c # accepted /\ c \notin served \cup closed
  /\ accepted # Nobody => accepted \notin served \cup closed
  /\ \A w \in Workers : sock[w] \notin closed

\* The server has not seen the connection.
Unseen(c) == /\ c \notin In(backlog) \cup In(client_socks) \cup closed /\ c # accepted
             /\ \A w \in Workers : sock[w] # c

\* A worker past the request line has one that is well formed, and answers
\* are given only with the end of the service.
ServeInv ==
  /\ \A w \in Workers : wpc[w] \in {"headers", "body", "dispatch"}
                           => Arrived(sock[w], 1) /\ request[sock[w]].line
  /\ \A c \in Clients : (c \notin closed => answers[c] = <<>>)
                        /\ (Unseen(c) => sent[c] = 0 /\ c \notin eof)

HInv == TypeOK /\ Apart /\ ServeInv /\ AnsweredOnce
=============================================================================
