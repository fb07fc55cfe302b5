-------------------------- MODULE HttpServerProofs --------------------------
(***************************************************************************)
(* The sockets of the HTTP server of Lab 2: for any number of clients and  *)
(* workers, whatever the clients ask, send and close, a connection is in   *)
(* one hand at a time and is answered at most once.  HInv is inductive;    *)
(* the lemmas on queues keep the sequences out of the proofs of actions.   *)
(***************************************************************************)
EXTENDS HttpServer, SequenceTheorems, FiniteSetTheorems, TLAPS

(* What push_back() does to the members of a queue. *)
LEMMA AppendIn ==
  ASSUME NEW S, NEW q \in Seq(S), NEW c \in S
  PROVE  /\ Append(q, c) \in Seq(S)
         /\ In(Append(q, c)) = In(q) \cup {c}
         /\ Distinct(q) /\ c \notin In(q) => Distinct(Append(q, c))
<1> DEFINE a == Append(q, c)
<1>1. /\ Len(q) \in Nat /\ a \in Seq(S) /\ Len(a) = Len(q) + 1
      /\ \A k \in 1..Len(q) : a[k] = q[k]
      /\ a[Len(q) + 1] = c
  BY AppendProperties
<1> HIDE DEF a
<1>2. \A k \in 1..Len(a) : k \in 1..Len(q) \/ k = Len(q) + 1
  BY <1>1
<1>3. In(a) = In(q) \cup {c}
  BY <1>1, <1>2 DEF In
<1>4. ASSUME Distinct(q), c \notin In(q), NEW j \in 1..Len(a), NEW k \in 1..Len(a), a[j] = a[k]
      PROVE  j = k
  BY <1>1, <1>2, <1>4 DEF In, Distinct
<1> QED
  BY <1>1, <1>3, <1>4 DEF a, Distinct

(* What front() and pop() do to them. *)
LEMMA TailIn ==
  ASSUME NEW S, NEW q \in Seq(S), q # <<>>
  PROVE  /\ Tail(q) \in Seq(S) /\ Head(q) \in S
         /\ In(q) = In(Tail(q)) \cup {Head(q)}
         /\ Distinct(q) => Distinct(Tail(q)) /\ Head(q) \notin In(Tail(q))
<1> DEFINE t == Tail(q)
<1>1. /\ Len(q) \in Nat /\ Len(q) > 0 /\ t \in Seq(S) /\ Len(t) = Len(q) - 1
      /\ \A k \in 1..Len(t) : t[k] = q[k + 1]
      /\ Head(q) = q[1] /\ Head(q) \in S
  BY HeadTailProperties, EmptySeq
<1> HIDE DEF t
<1>2. \A k \in 1..Len(q) : k = 1 \/ (k - 1 \in 1..Len(t) /\ t[k - 1] = q[k])
  BY <1>1
<1>3. \A k \in 1..Len(t) : k + 1 \in 1..Len(q)
  BY <1>1
<1>4. In(q) = In(t) \cup {Head(q)}
  <2>1. ASSUME NEW x \in In(q) PROVE x \in In(t) \cup {Head(q)}
    BY <1>1, <1>2 DEF In
  <2>2. ASSUME NEW x \in In(t) PROVE x \in In(q)
    BY <1>1, <1>3 DEF In
  <2>3. Head(q) \in In(q)
    BY <1>1 DEF In
  <2> QED
    BY <2>1, <2>2, <2>3
<1>5. ASSUME Distinct(q), NEW j \in 1..Len(t), NEW k \in 1..Len(t), t[j] = t[k]
      PROVE  j = k
  <2>1. j + 1 \in 1..Len(q) /\ k + 1 \in 1..Len(q) /\ q[j + 1] = q[k + 1]
    BY <1>1, <1>3, <1>5
  <2> QED
    BY <1>5, <2>1 DEF Distinct
<1>6. ASSUME Distinct(q), NEW k \in 1..Len(t), t[k] = Head(q)
      PROVE  FALSE
  <2>1. k + 1 \in 1..Len(q) /\ 1 \in 1..Len(q) /\ q[k + 1] = q[1]
    BY <1>1, <1>3, <1>6
  <2>2. k + 1 = 1
    BY <1>6, <2>1 DEF Distinct
  <2> QED
    BY <2>2
<1>7. Distinct(q) => Head(q) \notin In(t)
  BY <1>6 DEF In
<1>8. Distinct(q) => Distinct(t)
  BY <1>5 DEF Distinct
<1> QED
  BY <1>1, <1>4, <1>7, <1>8 DEF t

(* A connection with no place is one the server has not seen. *)
LEMMA NoPlace ==
  ASSUME NEW c \in Clients
  PROVE  Places(c) = {} <=> Unseen(c)
<1>1. Places(c) = {} <=>
        /\ {k \in 1..Len(backlog) : backlog[k] = c} = {} /\ {accepted} \cap {c} = {}
        /\ {k \in 1..Len(client_socks) : client_socks[k] = c} = {}
        /\ {v \in Workers : sock[v] = c} = {} /\ closed \cap {c} = {}
  BY DEF Places
<1> QED
  BY <1>1 DEF Unseen, In

(* HInv leaves a connection at most one place. *)
LEMMA OnePlace ==
  ASSUME HInv, NEW c \in Clients
  PROVE  \A x, y \in Places(c) : x = y
<1> DEFINE B == {k \in 1..Len(backlog) : backlog[k] = c}
           Q == {k \in 1..Len(client_socks) : client_socks[k] = c}
           W == {v \in Workers : sock[v] = c}
<1>1. \A j, k \in B : j = k
  BY DEF HInv, Apart, Distinct
<1>2. \A j, k \in Q : j = k
  BY DEF HInv, Apart, Distinct
<1>3. \A j, k \in W : j = k
  BY NobodyAssumption DEF HInv, Apart
<1>4. /\ B # {} => Q = {} /\ W = {} /\ accepted # c /\ c \notin closed
      /\ Q # {} => W = {} /\ accepted # c /\ c \notin closed
      /\ W # {} => accepted # c /\ c \notin closed
      /\ accepted = c => c \notin closed
  BY NobodyAssumption DEF HInv, Apart, In
<1>5. Places(c) = {<<"backlog", i>> : i \in B} \cup {<<"accepted", 0>> : a \in {accepted} \cap {c}}
                    \cup {<<"queue", i>> : i \in Q} \cup {<<"worker", w>> : w \in W}
                    \cup {<<"closed", 0>> : a \in closed \cap {c}}
  BY DEF Places
<1> HIDE DEF B, Q, W
<1>6. CASE B # {}
  <2>1. Places(c) = {<<"backlog", i>> : i \in B}
    BY <1>4, <1>5, <1>6
  <2> QED
    BY <1>1, <2>1
<1>7. CASE Q # {}
  <2>1. Places(c) = {<<"queue", i>> : i \in Q}
    BY <1>4, <1>5, <1>7
  <2> QED
    BY <1>2, <2>1
<1>8. CASE W # {}
  <2>1. Places(c) = {<<"worker", w>> : w \in W}
    BY <1>4, <1>5, <1>8
  <2> QED
    BY <1>3, <2>1
<1>9. CASE B = {} /\ Q = {} /\ W = {}
  <2>1. Places(c) = {<<"accepted", 0>> : a \in {accepted} \cap {c}}
                      \cup {<<"closed", 0>> : a \in closed \cap {c}}
    BY <1>5, <1>9
  <2> QED
    BY <1>4, <2>1
<1> QED
  BY <1>6, <1>7, <1>8, <1>9

(* HInv implies OneOwner. *)
LEMMA OneOwnerFollows == HInv => OneOwner
<1> SUFFICES ASSUME HInv, NEW c \in Clients
             PROVE  Cardinality(Places(c)) <= 1 /\ (Places(c) = {} => sent[c] = 0 /\ c \notin eof)
  BY DEF OneOwner
<1>1. CASE Places(c) = {}
  <2>1. Unseen(c)
    BY <1>1, NoPlace
  <2>2. Cardinality(Places(c)) = 0
    BY <1>1, FS_EmptySet
  <2> QED
    BY <2>1, <2>2 DEF HInv, ServeInv
<1>2. CASE Places(c) # {}
  <2>1. PICK x : x \in Places(c)
    BY <1>2
  <2>2. Places(c) = {x}
    BY <2>1, OnePlace
  <2>3. Cardinality(Places(c)) = 1
    BY <2>2, FS_Singleton
  <2> QED
    BY <1>2, <2>3
<1> QED
  BY <1>1, <1>2

-----------------------------------------------------------------------------
(* HInv is inductive: the initial state, then one lemma per action.        *)

(* Who sleeps, and whether the process is there, touches nothing else. *)
LEMMA AsideInv ==
  ASSUME HInv, asleep' \subseteq Workers, up' \in BOOLEAN,
         UNCHANGED <<request, sent, eof, backlog, accepted, client_socks, wpc, sock, answers, closed>>
  PROVE  HInv'
<1>1. TypeOK'
  BY DEF HInv, TypeOK
<1>2. Apart' /\ ServeInv' /\ AnsweredOnce'
  BY DEF HInv, Apart, ServeInv, Unseen, AnsweredOnce, Arrived
<1> QED
  BY <1>1, <1>2 DEF HInv

(* Nothing has been connected, accepted or answered yet. *)
LEMMA InitHInv == Init => HInv
<1> SUFFICES ASSUME Init PROVE HInv
  OBVIOUS
<1>1. TypeOK
  BY DEF Init, TypeOK
<1>2. In(backlog) = {} /\ In(client_socks) = {}
  BY DEF Init, In
<1>3. Apart
  BY <1>2 DEF Init, Apart, Distinct
<1>4. ServeInv /\ AnsweredOnce
  BY DEF Init, ServeInv, AnsweredOnce
<1> QED
  BY <1>1, <1>3, <1>4 DEF HInv

(* A connection enters the backlog from nowhere. *)
LEMMA ConnectInv ==
  ASSUME HInv, NEW c \in Clients, Connect(c)
  PROVE  HInv'
<1> USE DEF HInv
<1>1. Unseen(c)
  BY NoPlace DEF Connect
<1>2. /\ backlog' \in Seq(Clients) /\ In(backlog') = In(backlog) \cup {c}
      /\ Distinct(backlog')
  BY <1>1, AppendIn DEF Connect, TypeOK, Apart, Unseen
<1>3. TypeOK'
  BY <1>2 DEF Connect, TypeOK, client
<1>4. Apart'
  BY <1>1, <1>2 DEF Connect, Apart, Unseen, client
<1>5. ServeInv'
  BY <1>2 DEF Connect, ServeInv, Unseen, Arrived, client
<1>6. AnsweredOnce'
  BY DEF Connect, AnsweredOnce, Arrived, client
<1> QED
  BY <1>3, <1>4, <1>5, <1>6

(* What the client sends or closes changes neither the hands nor the answers. *)
LEMMA ClientInv ==
  ASSUME HInv, NEW c \in Clients, SendPart(c) \/ CloseSide(c)
  PROVE  HInv'
<1> USE DEF HInv
<1>1. ~Unseen(c) /\ c \notin closed
  BY NoPlace DEF SendPart, CloseSide
<1>2. sent[c] \in 0..3 /\ Parts(c) \in {2, 3}
  BY DEF TypeOK, Parts
<1>3. TypeOK'
  BY <1>2 DEF SendPart, CloseSide, TypeOK
<1>4. Apart'
  BY DEF SendPart, CloseSide, Apart
<1>5. \A d \in Clients : sent'[d] >= sent[d] /\ (d # c => sent'[d] = sent[d])
  <2>1. sent \in [Clients -> 0..3] /\ (sent' = [sent EXCEPT ![c] = @ + 1] \/ sent' = sent)
    BY DEF SendPart, CloseSide, TypeOK
  <2> QED
    BY <2>1
<1>6. ServeInv'
  <2>1. \A d \in Clients : Unseen(d)' => Unseen(d) /\ d # c
    BY <1>1 DEF SendPart, CloseSide, Unseen
  <2>2. \A d \in Clients : sent[d] \in Nat /\ sent'[d] \in Nat
    <3>1. sent \in [Clients -> 0..3] /\ sent' \in [Clients -> 0..3]
      BY <1>3 DEF TypeOK
    <3> QED
      BY <3>1
  <2>3. \A w \in Workers : wpc[w] # "fetch" => sock[w] \in Clients
    BY DEF TypeOK
  <2> QED
    BY <1>5, <2>1, <2>2, <2>3 DEF SendPart, CloseSide, ServeInv, Arrived
<1>7. AnsweredOnce'
  BY <1>1, <1>5 DEF SendPart, CloseSide, AnsweredOnce, Arrived
<1> QED
  BY <1>3, <1>4, <1>6, <1>7

(* accept() moves the first of the backlog to the acceptor. *)
LEMMA AcceptInv ==
  ASSUME HInv, Accept
  PROVE  HInv'
<1> USE DEF HInv
<1>1. /\ backlog' \in Seq(Clients) /\ accepted' \in Clients
      /\ In(backlog) = In(backlog') \cup {accepted'}
      /\ Distinct(backlog') /\ accepted' \notin In(backlog')
  BY TailIn DEF Accept, TypeOK, Apart
<1>2. TypeOK'
  BY <1>1 DEF Accept, TypeOK, client
<1>3. Apart'
  BY <1>1 DEF Accept, Apart, client
<1>4. ServeInv'
  BY <1>1, NobodyAssumption DEF Accept, ServeInv, Unseen, Arrived, client
<1>5. AnsweredOnce'
  BY DEF Accept, AnsweredOnce, Arrived, client
<1> QED
  BY <1>2, <1>3, <1>4, <1>5

(* add_client() moves it to the end of the queue. *)
LEMMA AddClientInv ==
  ASSUME HInv, AddClient
  PROVE  HInv'
<1> USE DEF HInv
<1>1. /\ client_socks' \in Seq(Clients) /\ accepted \in Clients
      /\ In(client_socks') = In(client_socks) \cup {accepted}
      /\ Distinct(client_socks')
  BY AppendIn DEF AddClient, TypeOK, Apart
<1>2. asleep' \subseteq Workers
  BY DEF AddClient, TypeOK
<1>3. TypeOK'
  BY <1>1, <1>2 DEF AddClient, TypeOK, client
<1>4. \A d \in In(backlog) : d \in Clients
  BY DEF TypeOK, In
<1>5. \A d \in In(client_socks) : d \in Clients
  BY DEF TypeOK, In
<1>6. Apart'
  BY <1>1, <1>4, <1>5, NobodyAssumption DEF AddClient, Apart, client
<1>7. ServeInv'
  BY <1>1, NobodyAssumption DEF AddClient, ServeInv, Unseen, Arrived, client
<1>8. AnsweredOnce'
  BY DEF AddClient, AnsweredOnce, Arrived, client
<1> QED
  BY <1>3, <1>6, <1>7, <1>8

(* A worker takes the first of the queue, or goes to sleep. *)
LEMMA FetchInv ==
  ASSUME HInv, NEW w \in Workers, Fetch(w)
  PROVE  HInv'
<1> USE DEF HInv
<1>1. CASE client_socks = <<>>
  <2>1. UNCHANGED <<request, sent, eof, backlog, accepted, client_socks, wpc, sock, answers, closed, up>>
        /\ asleep' = asleep \cup {w}
    BY <1>1 DEF Fetch, client
  <2> QED
    BY <2>1 DEF TypeOK, Apart, ServeInv, Unseen, AnsweredOnce, Arrived
<1>2. CASE client_socks # <<>>
  <2> DEFINE h == Head(client_socks)
  <2>1. /\ client_socks' \in Seq(Clients) /\ h \in Clients
        /\ In(client_socks) = In(client_socks') \cup {h}
        /\ Distinct(client_socks') /\ h \notin In(client_socks')
    <3>1. /\ client_socks \in Seq(Clients) /\ Distinct(client_socks)
          /\ client_socks' = Tail(client_socks)
      BY <1>2 DEF Fetch, TypeOK, Apart
    <3> QED
      BY <1>2, <3>1, TailIn
  <2>2. /\ sock' = [sock EXCEPT ![w] = h] /\ wpc' = [wpc EXCEPT ![w] = "line"]
        /\ UNCHANGED <<request, sent, eof, backlog, accepted, asleep, answers, closed, up>>
        /\ wpc[w] = "fetch" /\ sock[w] = Nobody
    BY <1>2 DEF Fetch, client, TypeOK
  <2> HIDE DEF h
  <2>3. TypeOK'
    BY <2>1, <2>2 DEF TypeOK
  <2>4. \A v \in Workers : sock'[v] = IF v = w THEN h ELSE sock[v]
    BY <2>2 DEF TypeOK
  <2>5. Apart'
    BY <2>1, <2>2, <2>4 DEF Apart
  <2>6. \A d \in Clients : Unseen(d)' => Unseen(d)
    BY <2>1, <2>2, <2>4, NobodyAssumption DEF Unseen
  <2>7. \A v \in Workers : wpc'[v] = IF v = w THEN "line" ELSE wpc[v]
    BY <2>2 DEF TypeOK
  <2>8. ServeInv'
    BY <2>2, <2>4, <2>6, <2>7 DEF ServeInv, Arrived
  <2>9. AnsweredOnce'
    BY <2>2 DEF AnsweredOnce, Arrived
  <2> QED
    BY <2>3, <2>5, <2>8, <2>9
<1> QED
  BY <1>1, <1>2

(* The end of serve_client(): the socket goes from the worker to closed, with
   no answer exactly when no well-formed request line came. *)
LEMMA EndServiceInv ==
  ASSUME HInv, NEW w \in Workers, wpc[w] # "fetch",
         NEW codes \in Seq({200, 404, 501}), Len(codes) <= 1,
         codes = <<>> <=> ~Arrived(sock[w], 1) \/ ~request[sock[w]].line,
         EndService(w, codes), UNCHANGED <<client, backlog, accepted, client_socks, asleep>>
  PROVE  HInv'
<1> USE DEF HInv
<1> DEFINE c == sock[w]
<1>1. c \in Clients /\ c \notin closed /\ c # Nobody
  BY NobodyAssumption DEF TypeOK, Apart
<1>2. answers[c] = <<>>
  BY <1>1 DEF ServeInv
<1>3. answers'[c] = codes
  BY <1>1, <1>2, ConcatEmptySeq DEF EndService, TypeOK
<1>4. \A d \in Clients : d # c => answers'[d] = answers[d]
  BY <1>1 DEF EndService, TypeOK
<1>5. /\ closed' = closed \cup {c} /\ up' = up
      /\ UNCHANGED <<request, sent, eof, backlog, accepted, client_socks, asleep>>
      /\ answers' \in [Clients -> Seq({200, 404, 501})]
      /\ wpc' = [wpc EXCEPT ![w] = "fetch"] /\ sock' = [sock EXCEPT ![w] = Nobody]
  <2>1. \A d \in Clients : answers'[d] \in Seq({200, 404, 501})
    BY <1>3, <1>4, ZenonT(30) DEF TypeOK
  <2>2. answers' \in [Clients -> Seq({200, 404, 501})]
    BY <2>1 DEF EndService, TypeOK
  <2> QED
    BY <2>2 DEF EndService, client
<1>6. /\ \A v \in Workers : sock'[v] = IF v = w THEN Nobody ELSE sock[v]
      /\ \A v \in Workers : wpc'[v] = IF v = w THEN "fetch" ELSE wpc[v]
  BY <1>5 DEF TypeOK
<1>7. TypeOK'
  BY <1>1, <1>5, <1>6 DEF TypeOK
<1>8. (\A d \in In(backlog) : d \in Clients) /\ (\A d \in In(client_socks) : d \in Clients)
  BY DEF TypeOK, In
<1>9. closed \subseteq Clients
  BY DEF TypeOK
<1>10. Apart'
  BY <1>1, <1>5, <1>6, <1>8, <1>9, NobodyAssumption DEF Apart
<1>11. \A d \in Clients : Unseen(d)' => Unseen(d)
  BY <1>5, <1>6 DEF Unseen
<1>12. ServeInv'
  BY <1>4, <1>5, <1>6, <1>11 DEF ServeInv, Arrived
<1>13. AnsweredOnce'
  BY <1>1, <1>3, <1>4, <1>5 DEF AnsweredOnce, Arrived
<1> QED
  BY <1>7, <1>10, <1>12, <1>13

(* A worker that only goes to its next step keeps the socket it has. *)
LEMMA AdvanceInv ==
  ASSUME HInv, NEW w \in Workers, NEW p \in {"headers", "body", "dispatch"},
         wpc[w] # "fetch", Arrived(sock[w], 1), request[sock[w]].line,
         wpc' = [wpc EXCEPT ![w] = p],
         UNCHANGED <<client, backlog, accepted, client_socks, asleep, sock, answers, closed, up>>
  PROVE  HInv'
<1> USE DEF HInv
<1>1. \A v \in Workers : wpc'[v] = IF v = w THEN p ELSE wpc[v]
  BY DEF TypeOK
<1>2. TypeOK'
  BY <1>1 DEF TypeOK, client
<1>3. Apart' /\ AnsweredOnce'
  BY DEF Apart, AnsweredOnce, Arrived, client
<1>4. ServeInv'
  BY <1>1 DEF ServeInv, Unseen, Arrived, client
<1> QED
  BY <1>2, <1>3, <1>4

(* The first line: no line, a bad one, another version, or on to the headers. *)
LEMMA RequestLineInv ==
  ASSUME HInv, NEW w \in Workers, RequestLine(w)
  PROVE  HInv'
<1> DEFINE c == sock[w]
<1>1. wpc[w] = "line" /\ UNCHANGED <<client, backlog, accepted, client_socks, asleep>>
      /\ c \in Clients /\ sent[c] \in Nat
  <2>1. sent \in [Clients -> 0..3] /\ c \in Clients
    BY DEF RequestLine, HInv, TypeOK
  <2>2. sent[c] \in Nat
    BY <2>1
  <2> QED
    BY <2>1, <2>2 DEF RequestLine
<1>2. Arrived(c, 1) <=> ~Ended(c, 1)
  BY <1>1 DEF RequestLine, Arrived, Ended
<1>3. <<>> \in Seq({200, 404, 501}) /\ Len(<<>>) <= 1
  OBVIOUS
<1>4. <<501>> \in Seq({200, 404, 501}) /\ Len(<<501>>) <= 1 /\ <<501>> # <<>>
  OBVIOUS
<1>5. CASE Ended(c, 1) \/ ~request[c].line
  <2>1. EndService(w, <<>>)
    BY <1>2, <1>5 DEF RequestLine
  <2> QED
    BY <1>1, <1>2, <1>3, <1>5, <2>1, EndServiceInv, ZenonT(30)
<1>6. CASE ~Ended(c, 1) /\ request[c].line /\ ~request[c].version
  <2>1. EndService(w, <<501>>)
    BY <1>2, <1>6 DEF RequestLine
  <2> QED
    BY <1>1, <1>2, <1>4, <1>6, <2>1, EndServiceInv, ZenonT(30)
<1>7. CASE ~Ended(c, 1) /\ request[c].line /\ request[c].version
  <2>1. wpc' = [wpc EXCEPT ![w] = "headers"] /\ UNCHANGED <<sock, answers, closed, up>>
    BY <1>2, <1>7 DEF RequestLine
  <2>2. UNCHANGED <<client, backlog, accepted, client_socks, asleep, sock, answers, closed, up>>
    BY <1>1, <2>1
  <2> QED
    BY <1>1, <1>2, <1>7, <2>1, <2>2, AdvanceInv
<1> QED
  BY <1>5, <1>6, <1>7

(* The headers and the body only move the worker on; a Content-Length that is
   not a number ends the process. *)
LEMMA ReadInv ==
  ASSUME HInv, NEW w \in Workers, ReadHeaders(w) \/ ReadBody(w)
  PROVE  HInv'
<1>1. wpc[w] \in {"headers", "body"} /\ Arrived(sock[w], 1) /\ request[sock[w]].line
  BY DEF ReadHeaders, ReadBody, HInv, ServeInv
<1>2. CASE ReadHeaders(w)
  BY <1>1, <1>2, AdvanceInv DEF ReadHeaders
<1>3. CASE ReadBody(w) /\ wpc' = wpc
  <2>1. /\ UNCHANGED <<request, sent, eof, backlog, accepted, client_socks, wpc, sock, answers, closed>>
        /\ UNCHANGED asleep
    BY <1>3 DEF ReadBody, client
  <2>2. up' \in BOOLEAN
    BY <1>3 DEF ReadBody, HInv, TypeOK
  <2>3. asleep' \subseteq Workers
    BY <2>1 DEF HInv, TypeOK
  <2> QED
    BY <2>1, <2>2, <2>3, AsideInv
<1>4. CASE ReadBody(w) /\ wpc' # wpc
  <2>1. /\ wpc' = [wpc EXCEPT ![w] = "dispatch"]
        /\ UNCHANGED <<client, backlog, accepted, client_socks, asleep, sock, answers, closed, up>>
    BY <1>4 DEF ReadBody
  <2> QED
    BY <1>1, <2>1, AdvanceInv
<1> QED
  BY <1>2, <1>3, <1>4

(* The handlers send one status code. *)
LEMMA DispatchInv ==
  ASSUME HInv, NEW w \in Workers, Dispatch(w)
  PROVE  HInv'
<1>1. /\ wpc[w] = "dispatch" /\ UNCHANGED <<client, backlog, accepted, client_socks, asleep>>
      /\ Arrived(sock[w], 1) /\ request[sock[w]].line
      /\ sock[w] \in Clients /\ request[sock[w]] \in RequestType
  BY HttpAssumption DEF Dispatch, HInv, ServeInv, TypeOK
<1>2. PICK code \in Codes(sock[w]) : EndService(w, <<code>>)
  BY DEF Dispatch
<1>3. code \in {200, 404, 501}
  BY <1>1 DEF Codes, RequestType
<1>4. <<code>> \in Seq({200, 404, 501}) /\ Len(<<code>>) <= 1 /\ <<code>> # <<>>
  BY <1>3
<1> QED
  BY <1>1, <1>2, <1>4, EndServiceInv

(* Every step of the server and of its clients keeps HInv. *)
LEMMA NextHInv == HInv /\ [Next]_vars => HInv'
<1> SUFFICES ASSUME HInv, [Next]_vars PROVE HInv'
  OBVIOUS
<1>1. CASE \E c \in Clients : Connect(c) \/ SendPart(c) \/ CloseSide(c)
  BY <1>1, ConnectInv, ClientInv
<1>2. CASE Accept
  BY <1>2, AcceptInv
<1>3. CASE AddClient
  BY <1>3, AddClientInv
<1>4. CASE AcceptFails
  <2>1. asleep' \subseteq Workers
    BY <1>4 DEF AcceptFails, HInv, TypeOK
  <2> QED
    BY <1>4, <2>1, AsideInv DEF AcceptFails, client
<1>5. CASE \E w \in Workers : WorkerStep(w)
  BY <1>5, FetchInv, RequestLineInv, ReadInv, DispatchInv DEF WorkerStep
<1>6. CASE \E w \in Workers : Spurious(w)
  BY <1>6 DEF Spurious, HInv, TypeOK, Apart, ServeInv, Unseen, AnsweredOnce, Arrived, client
<1>7. CASE UNCHANGED vars
  BY <1>7 DEF vars, HInv, TypeOK, Apart, ServeInv, Unseen, AnsweredOnce, Arrived
<1> QED
  BY <1>1, <1>2, <1>3, <1>4, <1>5, <1>6, <1>7 DEF Next, ServerStep

-----------------------------------------------------------------------------
(* The theorems.                                                           *)

(* In every reachable state of the server the queues, the acceptor and the
   workers hold different sockets, none of them closed, and answers are sent
   only with the end of serve_client(). *)
THEOREM SocketsInductive == Spec => []HInv
BY InitHInv, NextHInv, PTL DEF Spec

(* A connection that add_client() and the workers pass on is never lost and
   never served by two threads. *)
THEOREM SocketHasOneOwner == Spec => []OneOwner
BY SocketsInductive, OneOwnerFollows, PTL

(* serve_client() answers a connection at most once, and closes it unanswered
   only if no well-formed request line came. *)
THEOREM AnswerIsOnce == Spec => []AnsweredOnce
<1>1. HInv => AnsweredOnce
  BY DEF HInv
<1> QED
  BY <1>1, SocketsInductive, PTL
=============================================================================
