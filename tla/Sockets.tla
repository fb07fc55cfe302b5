------------------------------ MODULE Sockets -------------------------------
(***************************************************************************)
(* tcp_socket of the TCP library, src/Lab3/src/tcp_server/tcp_socket.cpp,  *)
(* on the kernel's descriptor table.  A tcp_socket is its fd_ (-1 when     *)
(* closed); the kernel, external, says what an open descriptor denotes and *)
(* gives out the lowest free number.  What peers send is one unit at a     *)
(* time, what is sent to them always fits.                                 *)
(***************************************************************************)
EXTENDS Integers, FiniteSets

CONSTANTS
  MaxConns,     \* bound: connections peers open
  MaxSteps,     \* bound: connections, units and closes of all peers
  Active        \* the connections whose peer sends and closes

ASSUME SocketsAssumption ==
  MaxConns \in Nat /\ MaxSteps \in Nat /\ Active \subseteq 1..MaxConns

Conns  == 1..MaxConns
Server == 0                  \* the listening tcp_socket, owned by the tcp_server
Socks  == {Server} \cup Conns
NoFd   == -1
Closed == -1                 \* what a free descriptor denotes
Stray  == -2                 \* a fresh socket, neither bound nor connected
Fds    == 1..(MaxConns + 2)

VARIABLES
  kfd,          \* what each descriptor denotes: a connection, Server, Stray or Closed
  sockfd,       \* fd_ of each tcp_socket
  arrived,      \* connections opened by peers, accepted in that order
  accepted,
  steps,        \* what the peers did so far
  unread,       \* those not received yet
  eof,          \* connections closed by their peer
  reused        \* history: the uses the library still had for a number when the
                \* kernel gave it out

kernelVars == <<kfd, arrived, accepted, steps, unread, eof, reused>>
sockVars   == <<kernelVars, sockfd>>

\* How the library may still use a number that is closed: a second thread is about
\* to unregister and close it, tracked_fds_ has an entry for it, or the answer of
\* select() reports it.
Uses == {"closing", "tracked", "reported"}

SocketsTypeOK ==
  /\ kfd \in [Fds -> Socks \cup {Closed, Stray}]
  /\ sockfd \in [Socks -> Fds \cup {NoFd}]
  /\ arrived \in 0..MaxConns /\ accepted \in 0..arrived
  /\ steps \in 0..MaxSteps /\ unread \in [Conns -> Nat]
  /\ eof \subseteq Conns /\ reused \subseteq Uses

SocketsInit ==
  /\ kfd = [f \in Fds |-> Closed] /\ sockfd = [s \in Socks |-> NoFd]
  /\ arrived = 0 /\ accepted = 0
  /\ steps = 0 /\ unread = [c \in Conns |-> 0] /\ eof = {} /\ reused = {}

Denotes(f) == IF f = NoFd THEN Closed ELSE kfd[f]

\* The number the next socket() or accept() returns: the lowest that is free, as
\* a set that is empty when Fds, the bound, is used up.
NewFds ==
  LET free == {f \in Fds : kfd[f] = Closed} IN
  {f \in free : \A g \in free : f <= g}

\* What select() reports, and what lets a call return at once.
Readable(x) ==
  \/ x = Server /\ accepted < arrived
  \/ x \in Conns /\ (unread[x] > 0 \/ x \in eof)
  \/ x = Stray
Ready(f, dir) == IF dir = "rd" THEN Readable(kfd[f]) ELSE kfd[f] # Server

-----------------------------------------------------------------------------
(* The operations of tcp_socket.                                           *)

\* bind() and listen() of the server's socket: ensure_fd() makes a descriptor, with
\* a number the library has these uses for.
Listen(f, uses) ==
  /\ kfd' = [kfd EXCEPT ![f] = Server]
  /\ sockfd' = [sockfd EXCEPT ![Server] = f]
  /\ reused' = reused \cup uses
  /\ UNCHANGED <<arrived, accepted, steps, unread, eof>>

\* accept() of the connection that arrived first.
AcceptNext(f, uses) ==
  /\ Denotes(sockfd[Server]) = Server /\ accepted < arrived
  /\ accepted' = accepted + 1
  /\ kfd' = [kfd EXCEPT ![f] = accepted + 1]
  /\ sockfd' = [sockfd EXCEPT ![accepted + 1] = f]
  /\ reused' = reused \cup uses
  /\ UNCHANGED <<arrived, steps, unread, eof>>

\* accept() on a socket that was closed: ensure_fd() makes one that does not listen.
AcceptClosed(f, uses) ==
  /\ Denotes(sockfd[Server]) # Server
  /\ IF sockfd[Server] = NoFd
     THEN /\ kfd' = [kfd EXCEPT ![f] = Stray]
          /\ sockfd' = [sockfd EXCEPT ![Server] = f]
          /\ reused' = reused \cup uses
     ELSE UNCHANGED <<kfd, sockfd, reused>>
  /\ UNCHANGED <<arrived, accepted, steps, unread, eof>>

\* recv() on fd_: what descriptor fd_ denotes, whoever it belongs to.
RecvBlocks(c) == LET x == Denotes(sockfd[c]) IN x # Closed /\ ~Readable(x)
RecvSucceeds(c) == LET x == Denotes(sockfd[c]) IN x \in Conns /\ unread[x] > 0
Recv(c) ==
  /\ unread' = IF RecvSucceeds(c) THEN [unread EXCEPT ![Denotes(sockfd[c])] = 0] ELSE unread
  /\ UNCHANGED <<kfd, arrived, accepted, steps, eof, reused>>

\* send(): may fail once the peer has closed, and fails on a closed descriptor.
SendResults(c) ==
  LET x == Denotes(sockfd[c]) IN
  IF x \in Conns THEN IF x \in eof THEN BOOLEAN ELSE {TRUE} ELSE {FALSE}

\* ::close(f), which ignores a descriptor that is not open.
KernelClose(f) ==
  /\ kfd' = IF f = NoFd THEN kfd ELSE [kfd EXCEPT ![f] = Closed]
  /\ UNCHANGED <<arrived, accepted, steps, unread, eof, reused>>

-----------------------------------------------------------------------------
(* The peers.                                                              *)

PeerConnect ==
  /\ steps < MaxSteps /\ arrived < MaxConns /\ Denotes(sockfd[Server]) = Server
  /\ arrived' = arrived + 1 /\ steps' = steps + 1
  /\ UNCHANGED <<kfd, sockfd, accepted, unread, eof, reused>>

PeerSend(c) ==
  /\ steps < MaxSteps /\ c \in Active /\ c <= arrived /\ c \notin eof
  /\ steps' = steps + 1 /\ unread' = [unread EXCEPT ![c] = @ + 1]
  /\ UNCHANGED <<kfd, sockfd, arrived, accepted, eof, reused>>

PeerClose(c) ==
  /\ steps < MaxSteps /\ c \in Active /\ c <= arrived /\ c \notin eof
  /\ steps' = steps + 1 /\ eof' = eof \cup {c}
  /\ UNCHANGED <<kfd, sockfd, arrived, accepted, unread, reused>>
=============================================================================
