--------------------------- MODULE TcpServerProofs ---------------------------
(***************************************************************************)
(* The TCP library for any number of connections, workers and steps of the *)
(* peers, whichever free numbers the kernel gives out: TcpInv is inductive, *)
(* each part of it under what has not been reused.  The first part says    *)
(* what each operation does to the sets and functions TcpInv is stated     *)
(* with; the second has one lemma per action.                              *)
(***************************************************************************)
EXTENDS TcpServer, SequenceTheorems, FiniteSetTheorems, WellFoundedInduction, TLAPS

(* The kinds of numbers do not meet. *)
LEMMA Kinds ==
  /\ Conns \subseteq Socks /\ Server \in Socks /\ Server \notin Conns
  /\ NoFd \notin Fds /\ NoCb \notin Socks /\ Closed \notin Conns /\ Stray \notin Conns
  /\ Socks \subseteq Nat /\ Fds \subseteq Nat /\ MaxConns \in Nat
BY SocketsAssumption DEF Conns, Socks, Server, NoFd, NoCb, Closed, Stray, Fds

-----------------------------------------------------------------------------
(* tracked_fds_.                                                           *)

Infos == [cb : [Dirs -> Socks \cup {NoCb}], exec : [Dirs -> BOOLEAN], marked : BOOLEAN]
TrackedOK == DOMAIN tracked \subseteq Fds /\ \A f \in DOMAIN tracked : tracked[f] \in Infos

(* The entry of a descriptor, also of one that has none. *)
LEMMA InfoType ==
  ASSUME TrackedOK, NEW f \in Fds
  PROVE  /\ NoInfo \in Infos /\ Info(f) \in Infos
         /\ Info(f).cb = Cb[f] /\ Info(f).exec = Exec[f] /\ Info(f).marked = Marked[f]
<1>1. NoInfo \in Infos BY Kinds DEF NoInfo, Infos
<1> QED BY <1>1 DEF Info, TrackedOK, Cb, Exec, Marked

(* The types of the functions read off it. *)
LEMMA ViewType ==
  ASSUME TrackedOK
  PROVE  /\ Cb \in [Fds -> [Dirs -> Socks \cup {NoCb}]]
         /\ Exec \in [Fds -> [Dirs -> BOOLEAN]] /\ Marked \in [Fds -> BOOLEAN]
<1>1. ASSUME NEW f \in Fds
      PROVE  Info(f).cb \in [Dirs -> Socks \cup {NoCb}] /\ Info(f).exec \in [Dirs -> BOOLEAN]
             /\ Info(f).marked \in BOOLEAN
  BY <1>1, InfoType DEF Infos
<1> QED BY <1>1 DEF Cb, Exec, Marked

(* Writing one entry. *)
LEMMA SetEntry ==
  ASSUME TrackedOK, NEW f \in Fds, NEW i \in Infos, tracked' = With(f, i)
  PROVE  /\ TrackedOK'
         /\ Cb' = [Cb EXCEPT ![f] = i.cb] /\ Exec' = [Exec EXCEPT ![f] = i.exec]
         /\ Marked' = [Marked EXCEPT ![f] = i.marked]
<1>1. TrackedOK' BY DEF With, TrackedOK
<1>2. DOMAIN tracked' = DOMAIN tracked \cup {f} /\ tracked'[f] = i
      /\ \A g \in DOMAIN tracked : g # f => tracked'[g] = tracked[g]
  BY DEF With
<1>3. \A g \in Fds : (IF g \in DOMAIN tracked' THEN tracked'[g] ELSE NoInfo) = IF g = f THEN i ELSE Info(g)
  BY <1>2 DEF Info
<1> QED BY <1>1, <1>3 DEF Cb, Exec, Marked, Info

(* Erasing one entry. *)
LEMMA EraseEntry ==
  ASSUME TrackedOK, NEW f \in Fds, tracked' = Without({f})
  PROVE  /\ TrackedOK'
         /\ Cb' = [Cb EXCEPT ![f] = NoInfo.cb] /\ Exec' = [Exec EXCEPT ![f] = NoInfo.exec]
         /\ Marked' = [Marked EXCEPT ![f] = NoInfo.marked]
<1>1. TrackedOK' BY DEF Without, TrackedOK
<1>2. DOMAIN tracked' = DOMAIN tracked \ {f}
      /\ \A g \in DOMAIN tracked' : tracked'[g] = tracked[g]
  BY DEF Without
<1>3. \A g \in Fds : (IF g \in DOMAIN tracked' THEN tracked'[g] ELSE NoInfo)
                       = IF g = f THEN NoInfo ELSE Info(g)
  BY <1>2 DEF Info
<1> QED BY <1>1, <1>3 DEF Cb, Exec, Marked, Info

(* Every other step. *)
LEMMA SameEntries ==
  ASSUME UNCHANGED tracked
  PROVE  Cb' = Cb /\ Exec' = Exec /\ Marked' = Marked /\ (TrackedOK => TrackedOK')
BY DEF Cb, Exec, Marked, Info, TrackedOK

(* set_rd_callback, set_wr_callback *)
LEMMA SetCallbackView ==
  ASSUME TrackedOK, NEW f \in Fds, NEW d \in Dirs, NEW cb \in Socks \cup {NoCb}, SetCallback(f, d, cb)
  PROVE  TrackedOK' /\ Cb' = [Cb EXCEPT ![f][d] = cb] /\ Exec' = Exec /\ Marked' = Marked /\ pipe' = TRUE
<1> DEFINE i == [Info(f) EXCEPT !.cb[d] = cb]
<1>1. /\ i \in Infos /\ i.cb = [Info(f).cb EXCEPT ![d] = cb]
      /\ i.exec = Info(f).exec /\ i.marked = Info(f).marked
  BY InfoType DEF Infos
<1>2. tracked' = With(f, i) /\ pipe' = TRUE BY DEF SetCallback, Notify
<1> HIDE DEF i
<1>3. TrackedOK' /\ Cb' = [Cb EXCEPT ![f] = i.cb] /\ Exec' = [Exec EXCEPT ![f] = i.exec]
      /\ Marked' = [Marked EXCEPT ![f] = i.marked]
  BY <1>1, <1>2, SetEntry
<1>4. i.cb = [Cb[f] EXCEPT ![d] = cb] /\ i.exec = Exec[f] /\ i.marked = Marked[f]
  BY <1>1, InfoType
<1> QED BY <1>2, <1>3, <1>4, ViewType

(* register_fd: the server's callback, whatever the entry was *)
LEMMA RegisterView ==
  ASSUME TrackedOK, NEW f \in Fds, RegisterFd(f, Server)
  PROVE  /\ TrackedOK' /\ Exec' = Exec /\ pipe' = TRUE
         /\ \A g \in Fds : g # f => Cb'[g] = Cb[g] /\ Marked'[g] = Marked[g]
         /\ \A d \in Dirs : Cb'[f][d] \in {Server, NoCb}
<1> DEFINE b == [rd |-> Server, wr |-> NoCb]
           i == [Info(f) EXCEPT !.cb = b, !.marked = FALSE]
<1>1. b \in [Dirs -> {Server, NoCb}] /\ b \in [Dirs -> Socks \cup {NoCb}] BY Kinds DEF Dirs
<1> HIDE DEF b
<1>2. i \in Infos /\ i.cb = b /\ i.exec = Info(f).exec BY <1>1, InfoType DEF Infos
<1>3. tracked' = With(f, i) /\ pipe' = TRUE BY DEF RegisterFd, Notify, b
<1> HIDE DEF i
<1>4. TrackedOK' /\ Cb' = [Cb EXCEPT ![f] = i.cb] /\ Exec' = [Exec EXCEPT ![f] = i.exec]
      /\ Marked' = [Marked EXCEPT ![f] = i.marked]
  BY <1>2, <1>3, SetEntry
<1> QED BY <1>1, <1>2, <1>3, <1>4, InfoType, ViewType

(* An entry changes so that no callback is added. *)
Weaker(f) ==
  /\ \A g \in Fds : g # f => Cb'[g] = Cb[g] /\ Exec'[g] = Exec[g] /\ Marked'[g] = Marked[g]
  /\ \A d \in Dirs : Cb'[f][d] \in {Cb[f][d], NoCb}

(* unregister_fd: is_executing flags stay, an entry without them goes. *)
LEMMA UnregisterView ==
  ASSUME TrackedOK, NEW f \in Fds \cup {NoFd}, Unregister(f)
  PROVE  TrackedOK' /\ Exec' = Exec /\ Weaker(f) /\ pipe' \in {pipe, TRUE}
<1>1. CASE f \notin DOMAIN tracked
  <2>1. UNCHANGED <<tracked, pipe>> BY <1>1 DEF Unregister
  <2> QED BY <2>1, SameEntries DEF Weaker
<1>2. CASE f \in DOMAIN tracked /\ Busy(tracked[f])
  <2> DEFINE i == [tracked[f] EXCEPT !.marked = TRUE]
  <2>1. f \in Fds /\ tracked[f] \in Infos /\ tracked[f] = Info(f) BY <1>2 DEF TrackedOK, Info
  <2>2. i \in Infos /\ i.cb = Info(f).cb /\ i.exec = Info(f).exec BY <2>1 DEF Infos
  <2>3. tracked' = With(f, i) /\ pipe' = TRUE BY <1>2 DEF Unregister, Notify
  <2> HIDE DEF i
  <2>4. TrackedOK' /\ Cb' = [Cb EXCEPT ![f] = i.cb] /\ Exec' = [Exec EXCEPT ![f] = i.exec]
        /\ Marked' = [Marked EXCEPT ![f] = i.marked]
    BY <2>1, <2>2, <2>3, SetEntry
  <2> QED BY <2>1, <2>2, <2>3, <2>4, InfoType, ViewType DEF Weaker
<1>3. CASE f \in DOMAIN tracked /\ ~Busy(tracked[f])
  <2>1. f \in Fds /\ tracked[f] \in Infos /\ tracked[f] = Info(f) BY <1>3 DEF TrackedOK, Info
  <2>2. tracked' = Without({f}) /\ pipe' = TRUE BY <1>3 DEF Unregister, Notify
  <2>3. TrackedOK' /\ Cb' = [Cb EXCEPT ![f] = NoInfo.cb] /\ Exec' = [Exec EXCEPT ![f] = NoInfo.exec]
        /\ Marked' = [Marked EXCEPT ![f] = NoInfo.marked]
    BY <2>1, <2>2, EraseEntry
  <2>4. Exec[f] \in [Dirs -> BOOLEAN] /\ \A d \in Dirs : ~Exec[f][d]
    BY <1>3, <2>1, InfoType, ViewType DEF Busy
  <2>5. NoInfo.exec = [d \in Dirs |-> FALSE] /\ NoInfo.cb = [d \in Dirs |-> NoCb] BY DEF NoInfo
  <2>6. Exec[f] = NoInfo.exec BY <2>4, <2>5
  <2> QED BY <2>1, <2>2, <2>3, <2>5, <2>6, ViewType DEF Weaker
<1> QED BY <1>1, <1>2, <1>3

(* The end of a callback: its flag is reset, and a marked entry may go. *)
LEMMA EpilogueView ==
  ASSUME TrackedOK, NEW f \in Fds, NEW d \in Dirs, Epilogue(f, d)
  PROVE  /\ TrackedOK' /\ Exec' = [Exec EXCEPT ![f][d] = FALSE] /\ Weaker(f) /\ pipe' \in {pipe, TRUE}
         /\ ~Marked[f] => Cb' = Cb /\ Marked' = Marked
<1>1. CASE f \notin DOMAIN tracked
  <2>1. UNCHANGED <<tracked, pipe>> BY <1>1 DEF Epilogue
  <2>2. ~Exec[f][d] BY <1>1, InfoType DEF Info, NoInfo
  <2>3. Exec' = [Exec EXCEPT ![f][d] = FALSE] BY <2>1, <2>2, SameEntries, ViewType
  <2> QED BY <2>1, <2>3, SameEntries DEF Weaker
<1>2. CASE f \in DOMAIN tracked
  <2> DEFINE i == [tracked[f] EXCEPT !.exec[d] = FALSE]
  <2>1. tracked[f] \in Infos /\ tracked[f] = Info(f) BY <1>2 DEF TrackedOK, Info
  <2>2. /\ i \in Infos /\ i.cb = Info(f).cb /\ i.exec = [Info(f).exec EXCEPT ![d] = FALSE]
        /\ i.marked = Info(f).marked
    BY <2>1 DEF Infos
  <2>3. /\ tracked' = IF i.marked /\ ~i.exec[Other(d)] THEN Without({f}) ELSE With(f, i)
        /\ pipe' = TRUE
    BY <1>2 DEF Epilogue, Notify
  <2> HIDE DEF i
  <2>4. i.exec = [Exec[f] EXCEPT ![d] = FALSE] /\ i.cb = Cb[f] /\ i.marked = Marked[f]
    BY <2>2, InfoType
  <2>5. CASE i.marked /\ ~i.exec[Other(d)]
    <3>1. TrackedOK' /\ Cb' = [Cb EXCEPT ![f] = NoInfo.cb] /\ Exec' = [Exec EXCEPT ![f] = NoInfo.exec]
          /\ Marked' = [Marked EXCEPT ![f] = NoInfo.marked]
      BY <2>3, <2>5, EraseEntry
    <3>2. \A e \in Dirs : ~i.exec[e] BY <2>4, <2>5, ViewType DEF Other, Dirs
    <3>3. NoInfo.exec = [e \in Dirs |-> FALSE] /\ NoInfo.cb = [e \in Dirs |-> NoCb] BY DEF NoInfo
    <3>5. i.exec \in [Dirs -> BOOLEAN] BY <2>2 DEF Infos
    <3>4. i.exec = NoInfo.exec BY <3>2, <3>3, <3>5
    <3> QED BY <2>3, <2>4, <2>5, <3>1, <3>3, <3>4, ViewType DEF Weaker
  <2>6. CASE ~(i.marked /\ ~i.exec[Other(d)])
    <3>1. TrackedOK' /\ Cb' = [Cb EXCEPT ![f] = i.cb] /\ Exec' = [Exec EXCEPT ![f] = i.exec]
          /\ Marked' = [Marked EXCEPT ![f] = i.marked]
      BY <2>2, <2>3, <2>6, SetEntry
    <3> QED BY <2>3, <2>4, <3>1, ViewType DEF Weaker
  <2> QED BY <2>5, <2>6
<1> QED BY <1>1, <1>2

(* What dispatch_select() picks is not running and has a callback; it is     *)
(* queued with that callback, each once, and its flag is set.              *)
Dispatched(chosen, q) ==
  /\ chosen \subseteq poll.ready
  /\ \A f \in Fds, d \in Dirs : <<f, d>> \in chosen => Cb[f][d] # NoCb /\ ~Exec[f][d]
  /\ Exec' = [f \in Fds |-> [d \in Dirs |-> Exec[f][d] \/ <<f, d>> \in chosen]]
  /\ \A f \in Fds, d \in Dirs : Cb'[f][d] \in {Cb[f][d], NoCb}
  /\ \A f \in Fds : ~Marked[f] => Cb'[f] = Cb[f] /\ ~Marked'[f]
  /\ \A f \in Fds, d \in Dirs : <<f, d>> \in chosen => Cb'[f] = Cb[f]
  /\ q \in Seq(Tasks) /\ tasks' = tasks \o q
  /\ \A i \in 1..Len(q) : <<q[i].fd, q[i].dir>> \in chosen /\ q[i].cb = Cb[q[i].fd][q[i].dir]
  /\ \A i, j \in 1..Len(q) : q[i].fd = q[j].fd /\ q[i].dir = q[j].dir => i = j
  /\ poll' = PollTop /\ pipe' \in BOOLEAN

(* The queue dispatch_select() makes of a set of descriptors and directions. *)
LEMMA QueueingFacts ==
  ASSUME TrackedOK, NEW chosen \in SUBSET (Fds \X Dirs), NEW q \in Queueings(chosen),
         \A p \in chosen : p[1] \in DOMAIN tracked /\ tracked[p[1]].cb[p[2]] # NoCb
  PROVE  /\ q \in Seq(Tasks)
         /\ \A i \in 1..Len(q) : <<q[i].fd, q[i].dir>> \in chosen /\ q[i].cb = Cb[q[i].fd][q[i].dir]
         /\ \A i, j \in 1..Len(q) : q[i].fd = q[j].fd /\ q[i].dir = q[j].dir => i = j
<1> DEFINE task(p) == [fd |-> p[1], dir |-> p[2], cb |-> tracked[p[1]].cb[p[2]]]
           S == {task(p) : p \in chosen}
           n == Cardinality(S)
<1>1. n \in Nat
  <2>1. IsFiniteSet(Fds) /\ IsFiniteSet(Dirs)
    <3>1. MaxConns + 2 \in Int BY Kinds
    <3>2. IsFiniteSet(Fds) BY <3>1, FS_Interval DEF Fds
    <3>3. IsFiniteSet({}) /\ IsFiniteSet({"rd"}) /\ IsFiniteSet({"rd", "wr"})
      <4>1. IsFiniteSet({} \cup {"rd"}) BY FS_EmptySet, FS_AddElement
      <4>2. {} \cup {"rd"} = {"rd"} /\ {"rd"} \cup {"wr"} = {"rd", "wr"} OBVIOUS
      <4>3. IsFiniteSet({"rd"} \cup {"wr"}) BY <4>1, <4>2, FS_AddElement
      <4> QED BY <4>1, <4>2, <4>3, FS_EmptySet
    <3> QED BY <3>2, <3>3 DEF Dirs
  <2>2. IsFiniteSet(Fds \X Dirs) BY <2>1, FS_Product
  <2>3. IsFiniteSet(chosen) BY <2>2, FS_Subset
  <2>4. IsFiniteSet(S)
    <3> DEFINE g == [p \in chosen |-> task(p)]
    <3>1. g \in [chosen -> S] /\ \A k \in S : \E p \in chosen : g[p] = k OBVIOUS
    <3>2. g \in Surjection(chosen, S) BY <3>1 DEF Surjection
    <3> QED BY <2>3, <3>2, FS_Surjection
  <2> QED BY <2>4, FS_CardinalityType
<1>2. q \in [1..n -> S] /\ \A i, j \in 1..n : i # j => q[i] # q[j]
  BY DEF Queueings, SetToSeqs
<1>3. ASSUME NEW p \in chosen
      PROVE  /\ task(p) \in Tasks /\ <<task(p).fd, task(p).dir>> = p
             /\ task(p).cb = Cb[task(p).fd][task(p).dir]
  <2>1. p[1] \in Fds /\ p[2] \in Dirs /\ p = <<p[1], p[2]>> OBVIOUS
  <2>2. Info(p[1]) = tracked[p[1]] BY <1>3 DEF Info
  <2>3. tracked[p[1]].cb[p[2]] = Cb[p[1]][p[2]] BY <2>1, <2>2, InfoType
  <2>4. Cb[p[1]][p[2]] \in Socks BY <1>3, <2>1, <2>3, ViewType
  <2> QED BY <2>1, <2>3, <2>4 DEF Tasks
<1> HIDE DEF n
<1>4. Len(q) = n /\ q \in Seq(Tasks)
  <2>1. S \subseteq Tasks BY <1>3
  <2> QED BY <1>1, <1>2, <2>1
<1>5. ASSUME NEW i \in 1..Len(q)
      PROVE  q[i] \in Tasks /\ <<q[i].fd, q[i].dir>> \in chosen /\ q[i].cb = Cb[q[i].fd][q[i].dir]
  <2>1. PICK p \in chosen : q[i] = task(p) BY <1>2, <1>4
  <2> QED BY <2>1, <1>3
<1>6. ASSUME NEW i \in 1..Len(q), NEW j \in 1..Len(q), q[i].fd = q[j].fd, q[i].dir = q[j].dir
      PROVE  i = j
  <2>1. q[i].cb = q[j].cb BY <1>5, <1>6
  <2>2. \A k \in Tasks : k = [fd |-> k.fd, dir |-> k.dir, cb |-> k.cb] BY DEF Tasks
  <2>3. q[i] = q[j] BY <1>5, <1>6, <2>1, <2>2
  <2> QED BY <1>2, <1>4, <2>3
<1> QED BY <1>4, <1>5, <1>6

(* dispatch_select() *)
LEMMA DispatchView ==
  ASSUME TrackedOK, pipe \in BOOLEAN, poll.notified \in BOOLEAN,
         poll.ready \subseteq Fds \X Dirs, Dispatch
  PROVE  TrackedOK' /\ \E chosen, q : Dispatched(chosen, q)
<1> DEFINE chosen == {p \in poll.ready : /\ p[1] \in DOMAIN tracked
                                         /\ tracked[p[1]].cb[p[2]] # NoCb
                                         /\ ~tracked[p[1]].exec[p[2]]}
           running == [f \in DOMAIN tracked |->
                        [tracked[f] EXCEPT !.exec = [d \in Dirs |-> @[d] \/ <<f, d>> \in chosen]]]
           gone == {f \in DOMAIN tracked : running[f].marked /\ ~Busy(running[f])}
<1>1. /\ \E q \in Queueings(chosen) : tasks' = tasks \o q
      /\ tracked' = [f \in DOMAIN tracked \ gone |-> running[f]]
      /\ pipe' \in BOOLEAN /\ poll' = PollTop
  BY DEF Dispatch, ClearPipe
<1>2. PICK q \in Queueings(chosen) : tasks' = tasks \o q BY <1>1
<1>3. chosen \in SUBSET (Fds \X Dirs) /\ chosen \subseteq poll.ready
      /\ \A p \in chosen : /\ p[1] \in DOMAIN tracked /\ tracked[p[1]].cb[p[2]] # NoCb
                           /\ ~tracked[p[1]].exec[p[2]]
  OBVIOUS
<1>4. \A f \in DOMAIN tracked :
        /\ tracked[f] \in Infos /\ f \in Fds /\ Info(f) = tracked[f]
        /\ running[f] \in Infos /\ running[f].cb = tracked[f].cb /\ running[f].marked = tracked[f].marked
        /\ running[f].exec = [d \in Dirs |-> tracked[f].exec[d] \/ <<f, d>> \in chosen]
  BY DEF TrackedOK, Infos, Info
<1>0. \A f \in DOMAIN tracked :
        tracked[f].cb = Cb[f] /\ tracked[f].exec = Exec[f] /\ tracked[f].marked = Marked[f]
  BY <1>4, InfoType
<1> HIDE DEF chosen, running
<1>5. TrackedOK' BY <1>1, <1>4 DEF TrackedOK
<1> DEFINE new(f) == IF f \in DOMAIN tracked \ gone THEN running[f] ELSE NoInfo
<1>6. \A f \in Fds : Cb'[f] = new(f).cb /\ Exec'[f] = new(f).exec /\ Marked'[f] = new(f).marked
  BY <1>1 DEF Cb, Exec, Marked, Info
<1>7. NoInfo.cb = [d \in Dirs |-> NoCb] /\ NoInfo.exec = [d \in Dirs |-> FALSE] /\ NoInfo.marked = FALSE
  BY DEF NoInfo
<1>8. ASSUME NEW f \in Fds, f \notin DOMAIN tracked
      PROVE  Cb[f] = NoInfo.cb /\ Exec[f] = NoInfo.exec /\ Marked[f] = FALSE /\ new(f) = NoInfo
             /\ \A d \in Dirs : <<f, d>> \notin chosen
  BY <1>3, <1>7, <1>8, InfoType DEF Info
<1>9. ASSUME NEW f \in gone
      PROVE  /\ f \in Fds /\ new(f) = NoInfo /\ Marked[f] = TRUE
             /\ \A d \in Dirs : ~Exec[f][d] /\ <<f, d>> \notin chosen
  <2>1. f \in DOMAIN tracked /\ running[f].marked /\ \A d \in Dirs : ~running[f].exec[d]
    BY DEF Busy
  <2>2. running[f].exec = [d \in Dirs |-> Exec[f][d] \/ <<f, d>> \in chosen] BY <2>1, <1>0, <1>4, SMTT(15)
  <2>3. Marked[f] = TRUE BY <2>1, <1>0, <1>4
  <2> QED BY <2>1, <2>2, <2>3, <1>4
<1>10. ASSUME NEW f \in DOMAIN tracked \ gone
       PROVE  /\ f \in Fds /\ new(f).cb = Cb[f] /\ new(f).marked = Marked[f]
              /\ new(f).exec = [d \in Dirs |-> Exec[f][d] \/ <<f, d>> \in chosen]
  BY <1>0, <1>4, <1>10
<1> HIDE DEF gone, new
<1>11. ASSUME NEW f \in Fds
       PROVE  /\ Exec'[f] = [d \in Dirs |-> Exec[f][d] \/ <<f, d>> \in chosen]
              /\ \A d \in Dirs : Cb'[f][d] \in {Cb[f][d], NoCb}
              /\ ~Marked[f] => Cb'[f] = Cb[f] /\ ~Marked'[f]
              /\ \A d \in Dirs : <<f, d>> \in chosen => Cb'[f] = Cb[f]
  <2>1. CASE f \notin DOMAIN tracked
    <3>1. [d \in Dirs |-> Exec[f][d] \/ <<f, d>> \in chosen] = [d \in Dirs |-> FALSE]
      BY <1>7, <1>8, <2>1
    <3> QED BY <1>6, <1>7, <1>8, <2>1, <3>1
  <2>2. CASE f \in gone
    <3>1. [d \in Dirs |-> Exec[f][d] \/ <<f, d>> \in chosen] = [d \in Dirs |-> FALSE]
      BY <1>9, <2>2
    <3>2. Cb'[f] = NoInfo.cb /\ Exec'[f] = NoInfo.exec BY <1>6, <1>9, <2>2
    <3>3. Exec'[f] = [d \in Dirs |-> Exec[f][d] \/ <<f, d>> \in chosen] BY <1>7, <3>1, <3>2, Zenon
    <3>4. \A d \in Dirs : Cb'[f][d] = NoCb BY <1>7, <3>2
    <3>5. Marked[f] = TRUE /\ \A d \in Dirs : <<f, d>> \notin chosen BY <1>9, <2>2
    <3> QED BY <3>3, <3>4, <3>5
  <2>3. CASE f \in DOMAIN tracked \ gone BY <1>6, <1>10, <2>3
  <2> QED BY <2>1, <2>2, <2>3
<1>12. Exec' = [f \in Fds |-> [d \in Dirs |-> Exec[f][d] \/ <<f, d>> \in chosen]]
  BY <1>11, <1>5, ViewType DEF Exec
<1>13. ASSUME NEW f \in Fds, NEW d \in Dirs, <<f, d>> \in chosen
       PROVE  Cb[f][d] # NoCb /\ ~Exec[f][d]
  BY <1>0, <1>3, <1>4, <1>13
<1>14. /\ q \in Seq(Tasks)
       /\ \A i \in 1..Len(q) : <<q[i].fd, q[i].dir>> \in chosen /\ q[i].cb = Cb[q[i].fd][q[i].dir]
       /\ \A i, j \in 1..Len(q) : q[i].fd = q[j].fd /\ q[i].dir = q[j].dir => i = j
  BY <1>3, QueueingFacts
<1>15. Dispatched(chosen, q)
  BY <1>1, <1>2, <1>3, <1>11, <1>12, <1>13, <1>14 DEF Dispatched
<1> QED BY <1>5, <1>15

-----------------------------------------------------------------------------
(* The threads.                                                            *)

Recs == [pc : Places, task : Tasks \cup {NoTask}, s : Socks, fd : Fds \cup {NoFd}, i : Nat \ {0}]

(* What TypeOK says of the state the invariant is about. *)
LEMMA Types ==
  ASSUME TypeOK
  PROVE  /\ TrackedOK /\ th \in [Threads -> Recs] /\ accepted \in Nat /\ accepted <= MaxConns
         /\ kfd \in [Fds -> Socks \cup {Closed, Stray}] /\ sockfd \in [Socks -> Fds \cup {NoFd}]
         /\ tasks \in Seq(Tasks) /\ clients \in Seq(Conns)
         /\ Open \subseteq Conns /\ HasInput \subseteq Conns /\ Waiting \in [Dirs -> SUBSET Conns]
         /\ connected \subseteq Conns
         /\ poll.asked \subseteq Fds \X Dirs /\ poll.ready \subseteq Fds \X Dirs
         /\ Cb \in [Fds -> [Dirs -> Socks \cup {NoCb}]]
         /\ Exec \in [Fds -> [Dirs -> BOOLEAN]] /\ Marked \in [Fds -> BOOLEAN]
<1>1. TrackedOK BY DEF TypeOK, ReactorTypeOK, TrackedOK, Infos
<1>2. accepted \in Nat /\ accepted <= MaxConns BY Kinds DEF TypeOK, SocketsTypeOK
<1>3. kfd \in [Fds -> Socks \cup {Closed, Stray}] /\ sockfd \in [Socks -> Fds \cup {NoFd}]
  BY DEF TypeOK, SocketsTypeOK
<1>4. Open \subseteq Conns /\ HasInput \subseteq Conns /\ Waiting \in [Dirs -> SUBSET Conns]
  BY DEF Open, HasInput, Waiting
<1>5. poll.asked \subseteq Fds \X Dirs /\ poll.ready \subseteq Fds \X Dirs /\ tasks \in Seq(Tasks)
  BY DEF TypeOK, ReactorTypeOK
<1>6. th \in [Threads -> Recs] /\ clients \in Seq(Conns) /\ connected \subseteq Conns
  BY DEF TypeOK, Recs
<1> QED BY <1>1, <1>2, <1>3, <1>4, <1>5, <1>6, ViewType

(* Thread t is given these values. *)
Becomes(t, l, k, c, n) ==
  /\ th' \in [Threads -> Recs] /\ \A u \in Threads : u # t => th'[u] = th[u]
  /\ th'[t].pc = l /\ th'[t].task = k /\ th'[t].s = c /\ th'[t].i = n

(* The assignments to th. *)
LEMMA Updates ==
  ASSUME th \in [Threads -> Recs], NEW t \in Threads, NEW l \in Places,
         NEW k \in Tasks \cup {NoTask}, NEW c \in Socks, NEW n \in Nat \ {0}
  PROVE  /\ th' = [th EXCEPT ![t].pc = l] => Becomes(t, l, th[t].task, th[t].s, th[t].i)
         /\ th' = [th EXCEPT ![t].pc = l, ![t].s = c] => Becomes(t, l, th[t].task, c, th[t].i)
         /\ th' = [th EXCEPT ![t].s = c, ![t].pc = l] => Becomes(t, l, th[t].task, c, th[t].i)
         /\ th' = [th EXCEPT ![t].pc = l, ![t].i = n] => Becomes(t, l, th[t].task, th[t].s, n)
         /\ th' = [th EXCEPT ![t].pc = l, ![t].s = c, ![t].i = n] => Becomes(t, l, th[t].task, c, n)
         /\ th' = [th EXCEPT ![t].task = k, ![t].pc = l] => Becomes(t, l, k, th[t].s, th[t].i)
         /\ th' = [th EXCEPT ![t].pc = l, ![t].task = k, ![t].s = c] => Becomes(t, l, k, c, th[t].i)
<1>1. ASSUME th' = [th EXCEPT ![t].pc = l] PROVE Becomes(t, l, th[t].task, th[t].s, th[t].i)
  BY <1>1 DEF Becomes, Recs
<1>2. ASSUME th' = [th EXCEPT ![t].pc = l, ![t].s = c] PROVE Becomes(t, l, th[t].task, c, th[t].i)
  BY <1>2 DEF Becomes, Recs
<1>3. ASSUME th' = [th EXCEPT ![t].s = c, ![t].pc = l] PROVE Becomes(t, l, th[t].task, c, th[t].i)
  BY <1>3 DEF Becomes, Recs
<1>4. ASSUME th' = [th EXCEPT ![t].pc = l, ![t].i = n] PROVE Becomes(t, l, th[t].task, th[t].s, n)
  BY <1>4 DEF Becomes, Recs
<1>5. ASSUME th' = [th EXCEPT ![t].pc = l, ![t].s = c, ![t].i = n] PROVE Becomes(t, l, th[t].task, c, n)
  <2>1. th[t] \in Recs /\ th'[t] = [th[t] EXCEPT !.pc = l, !.s = c, !.i = n]
    BY <1>5
  <2>2. /\ th'[t] = [pc |-> l, task |-> th[t].task, s |-> c, fd |-> th[t].fd, i |-> n]
        /\ th[t].fd \in Fds \cup {NoFd} /\ th[t].task \in Tasks \cup {NoTask}
    BY <2>1 DEF Recs
  <2>3. th'[t] \in Recs
    BY <2>2 DEF Recs
  <2>4. th' \in [Threads -> Recs] /\ \A u \in Threads : u # t => th'[u] = th[u]
    BY <1>5, <2>3
  <2> QED
    BY <2>2, <2>4 DEF Becomes
<1>6. ASSUME th' = [th EXCEPT ![t].task = k, ![t].pc = l] PROVE Becomes(t, l, k, th[t].s, th[t].i)
  BY <1>6 DEF Becomes, Recs
<1>7. ASSUME th' = [th EXCEPT ![t].pc = l, ![t].task = k, ![t].s = c] PROVE Becomes(t, l, k, c, th[t].i)
  <2>1. th[t] \in Recs /\ th'[t] = [th[t] EXCEPT !.pc = l, !.task = k, !.s = c]
    BY <1>7
  <2>2. /\ th'[t] = [pc |-> l, task |-> k, s |-> c, fd |-> th[t].fd, i |-> th[t].i]
        /\ th[t].fd \in Fds \cup {NoFd} /\ th[t].i \in Nat \ {0}
    BY <2>1 DEF Recs
  <2>3. th'[t] \in Recs
    BY <2>2 DEF Recs
  <2>4. th' \in [Threads -> Recs] /\ \A u \in Threads : u # t => th'[u] = th[u]
    BY <1>7, <2>3
  <2> QED
    BY <2>2, <2>4 DEF Becomes
<1> QED BY <1>1, <1>2, <1>3, <1>4, <1>5, <1>6, <1>7

(* Those that read an fd_. *)
LEMMA FdUpdates ==
  ASSUME th \in [Threads -> Recs], NEW t \in Threads, NEW l \in Places,
         NEW c \in Socks, NEW f \in Fds \cup {NoFd}
  PROVE  /\ th' = [th EXCEPT ![t].pc = l, ![t].fd = f]
              => Becomes(t, l, th[t].task, th[t].s, th[t].i) /\ th'[t].fd = f
         /\ th' = [th EXCEPT ![t].pc = l, ![t].s = c, ![t].fd = f]
              => Becomes(t, l, th[t].task, c, th[t].i) /\ th'[t].fd = f
<1>1. ASSUME th' = [th EXCEPT ![t].pc = l, ![t].fd = f]
      PROVE  Becomes(t, l, th[t].task, th[t].s, th[t].i) /\ th'[t].fd = f
  BY <1>1 DEF Becomes, Recs
<1>2. ASSUME th' = [th EXCEPT ![t].pc = l, ![t].s = c, ![t].fd = f]
      PROVE  Becomes(t, l, th[t].task, c, th[t].i) /\ th'[t].fd = f
  <2>1. th[t] \in Recs /\ th'[t] = [th[t] EXCEPT !.pc = l, !.s = c, !.fd = f]
    BY <1>2
  <2>2. /\ th'[t] = [pc |-> l, task |-> th[t].task, s |-> c, fd |-> f, i |-> th[t].i]
        /\ th[t].task \in Tasks \cup {NoTask} /\ th[t].i \in Nat \ {0}
    BY <2>1 DEF Recs
  <2>3. th'[t] \in Recs
    BY <2>2 DEF Recs
  <2>4. th' \in [Threads -> Recs] /\ \A u \in Threads : u # t => th'[u] = th[u]
    BY <1>2, <2>3
  <2> QED
    BY <2>2, <2>4 DEF Becomes
<1> QED BY <1>1, <1>2

(* What a thread holds. *)
LEMMA ThreadFields ==
  ASSUME TypeOK, NEW t \in Threads
  PROVE  /\ th[t].task \in Tasks \cup {NoTask} /\ th[t].s \in Socks /\ th[t].i \in Nat \ {0}
         /\ th[t].pc \in Places /\ th[t].fd \in Fds \cup {NoFd}
BY Types DEF Recs

(* The client c that a thread disconnects from place l on is the one it was *)
(* at, or the server's own socket; for the next step it has read its fd_.   *)
Follows(t, l, c) ==
  /\ l = "disconnect" => c \in connected
  /\ l \in {"clear", "unregister", "close"} =>
       \/ c = Server
       \/ c = th[t].s /\ th[t].pc \in {"disconnect", "clear", "unregister"}
  /\ l \in {"unregister", "close"} => th'[t].fd = sockfd[c]

(* Thread t goes on with its task, and not to a read or write. *)
Goes(t, l, c, n) ==
  /\ th[t].pc # "idle" /\ l \in Places \ {"idle", "do"} /\ c \in Socks /\ n \in Nat \ {0}
  /\ t \in Workers /\ l \in {"answer", "read_again"} => th[t].task.cb \in Conns
  /\ l \in {"new_client", "bind", "append"} => c \in Conns
  /\ Becomes(t, l, th[t].task, c, n) /\ Follows(t, l, c)

SameTasks == /\ Running' = Running /\ Doing' \subseteq Doing
             /\ \A w \in Workers : th'[w].task = th[w].task

(* It keeps its task then, and so do the others. *)
LEMMA ThreadGoes ==
  ASSUME TypeOK, ThreadInv, NEW t \in Threads, NEW l, NEW c, NEW n, Goes(t, l, c, n)
  PROVE  th' \in [Threads -> Recs] /\ ThreadInv' /\ SameTasks
<1>3. th' \in [Threads -> Recs] /\ \A u \in Threads : u # t => th'[u] = th[u]
  BY DEF Goes, Becomes
<1>4. th'[t].pc = l /\ th'[t].task = th[t].task BY DEF Goes, Becomes
<1>5. SameTasks
  BY <1>3, <1>4 DEF SameTasks, Running, Doing, At, Threads, Goes
<1>6. \A w \in Running' : th'[w].task \in Tasks BY <1>5 DEF ThreadInv, SameTasks, Running
<1>7. ASSUME NEW w \in Workers, th'[w].pc \in {"do", "answer", "read_again"}
      PROVE  th'[w].task.cb \in Conns
  <2>1. CASE w = t BY <1>4, <1>7, <2>1 DEF Goes
  <2>2. CASE w # t BY <1>3, <1>7, <2>2 DEF ThreadInv, Me, Threads
  <2> QED BY <2>1, <2>2
<1>9. ASSUME NEW w \in Workers, th'[w].pc \in {"new_client", "bind", "append"}
      PROVE  th'[w].s \in Conns
  <2>1. CASE w = t BY <1>4, <1>9, <2>1 DEF Goes, Becomes
  <2>2. CASE w # t BY <1>3, <1>9, <2>2 DEF ThreadInv, Threads
  <2> QED BY <2>1, <2>2
<1>8. ThreadInv' BY <1>6, <1>7, <1>9 DEF ThreadInv, Me
<1> QED BY <1>3, <1>5, <1>8

(* No thread. *)
LEMMA ThreadsRest ==
  ASSUME ThreadInv, UNCHANGED th
  PROVE  ThreadInv' /\ SameTasks
BY DEF ThreadInv, SameTasks, Running, Doing, At, Me

-----------------------------------------------------------------------------
(* What keeps each part of the invariant.                                  *)

(* The sets and functions that depend on variables which do not change. *)
LEMMA SameSets ==
  /\ UNCHANGED <<kfd, sockfd>> => Open' = Open
  /\ UNCHANGED <<unread, eof>> => HasInput' = HasInput
  /\ UNCHANGED <<reads, writes>> => Waiting' = Waiting
  /\ UNCHANGED tracked => Cb' = Cb /\ Exec' = Exec /\ Marked' = Marked
<1>1. UNCHANGED <<kfd, sockfd>> => Open' = Open BY DEF Open, Denotes
<1>2. UNCHANGED <<unread, eof>> => HasInput' = HasInput BY DEF HasInput
<1>3. UNCHANGED <<reads, writes>> => Waiting' = Waiting BY DEF Waiting, Pending
<1> QED BY <1>1, <1>2, <1>3, SameEntries

(* The parts of TcpInv. *)
LEMMA Parts ==
  /\ TcpInv => /\ TypeOK /\ ThreadInv /\ SockInv /\ AcceptedInv /\ DisconnectInv
               /\ TrackInv /\ TaskInv /\ ExecInv /\ PollInv
               /\ (NotClosing => OwnInv) /\ (NotKept => KnownInv) /\ (Fresh => InputInv)
  /\ (Fresh => NotKept) /\ (NotKept => NotClosing)
BY DEF TcpInv, BaseInv, NotClosing, NotKept, Fresh

(* The history only grows. *)
LEMMA History ==
  ASSUME reused \subseteq reused'
  PROVE  (NotClosing' => NotClosing) /\ (NotKept' => NotKept) /\ (Fresh' => Fresh)
BY DEF NotClosing, NotKept, Fresh

(* A socket with requests or a connected one has a number, and was accepted. *)
LEMMA HasFd ==
  ASSUME TypeOK, SockInv, AcceptedInv, NEW c
  PROVE  /\ c \in connected => /\ c \in Conns /\ c \in Socks /\ sockfd[c] \in Fds
                               /\ sockfd[c] # NoFd /\ c <= accepted
         /\ \A d \in Dirs : c \in Waiting[d] => /\ c \in Conns /\ c \in Socks /\ sockfd[c] \in Fds
                                                /\ sockfd[c] # NoFd /\ c <= accepted
<1>1. ASSUME c \in Conns, sockfd[c] # NoFd PROVE c \in Socks /\ sockfd[c] \in Fds /\ c <= accepted
  <2>1. c \in Socks /\ c \in Nat /\ accepted \in Nat BY <1>1, Types, Kinds
  <2>2. sockfd[c] \in Fds BY <1>1, <2>1, Types
  <2>3. ~(c > accepted) BY <1>1 DEF AcceptedInv
  <2> QED BY <2>1, <2>2, <2>3
<1>2. \A d \in Dirs : Waiting[d] \subseteq Conns BY Types
<1> QED BY <1>1, <1>2, Types DEF SockInv

(* An open socket has a number, which belongs to it alone. *)
LEMMA OpenHasFd ==
  ASSUME TypeOK, NEW c \in Open
  PROVE  /\ c \in Conns /\ c \in Socks /\ sockfd[c] \in Fds /\ sockfd[c] # NoFd /\ kfd[sockfd[c]] = c
         /\ \A x \in Open : sockfd[x] = sockfd[c] => x = c
<1>1. \A x \in Open : /\ x \in Conns /\ x \in Socks /\ sockfd[x] \in Fds /\ sockfd[x] # NoFd
                      /\ kfd[sockfd[x]] = x
  <2>1. ASSUME NEW x \in Open
        PROVE  /\ x \in Conns /\ x \in Socks /\ sockfd[x] \in Fds /\ sockfd[x] # NoFd
               /\ kfd[sockfd[x]] = x
    <3>1. x \in Conns /\ x \in Socks /\ x # Closed BY Kinds DEF Open
    <3>2. sockfd[x] \in Fds \cup {NoFd} BY <3>1, Types
    <3> QED BY <3>1, <3>2 DEF Open, Denotes
  <2> QED BY <2>1
<1> QED BY <1>1

(* No number denotes a new connection, no client gets a number or is connected, *)
(* those that stay connected keep their requests, input only comes, and no callback *)
(* starts or ends.                                                         *)
Settled ==
  /\ accepted' = accepted /\ connected' \subseteq connected /\ reused \subseteq reused'
  /\ \A c \in Conns : sockfd'[c] \in {sockfd[c], NoFd}
  /\ \A f \in Fds : kfd'[f] \in Conns => kfd'[f] = kfd[f]
  /\ \A d \in Dirs : Waiting'[d] \subseteq Waiting[d] \cup connected'
  /\ \A d \in Dirs : \A x \in connected' : x \in Waiting[d] => x \in Waiting'[d]
  /\ HasInput \subseteq HasInput' /\ poll' = poll /\ tasks' = tasks /\ Exec' = Exec

(* What a thread may go to, when the client it disconnects lost what it is to. *)
Leaves(l, c) ==
  /\ l \in {"clear", "unregister", "close", "reset"} => c \notin connected'
  /\ l \in {"unregister", "close", "reset"} => \A d \in Dirs : c \notin Waiting'[d]

(* Where the threads are. *)
LEMMA PlacesStay ==
  ASSUME TypeOK, AcceptedInv, DisconnectInv, Settled,
         NEW t \in Threads, NEW l, NEW c, NEW n, Goes(t, l, c, n), c <= accepted, Leaves(l, c),
         \A i \in 1..Len(clients') : clients'[i] <= accepted
  PROVE  AcceptedInv' /\ DisconnectInv'
<1>1. th'[t].pc = l /\ th'[t].s = c /\ \A u \in Threads : u # t => th'[u] = th[u]
  BY DEF Goes, Becomes
<1>2. \A x \in Conns : x \in Socks BY Kinds
<1>3. AcceptedInv' BY <1>1, <1>2 DEF AcceptedInv, Settled
<1>4. ASSUME NEW u \in Threads, u # t
      PROVE  /\ th[u].pc \in {"clear", "unregister", "close", "reset"} => th[u].s \notin connected'
             /\ th[u].pc \in {"unregister", "close", "reset"} => \A d \in Dirs : th[u].s \notin Waiting'[d]
  BY DEF DisconnectInv, Settled
<1>5. DisconnectInv' BY <1>1, <1>4 DEF DisconnectInv, Leaves
<1> QED BY <1>3, <1>5

(* The queue and the running callbacks. *)
LEMMA TasksStay ==
  ASSUME TypeOK, TaskInv, ThreadInv, Settled, SameTasks
  PROVE  TaskInv'
<1>1. ASSUME NEW k, k.dir \in Dirs, TaskServed(k)
      PROVE  k.cb \in Conns => /\ k.cb <= accepted' /\ sockfd'[k.cb] \in {k.fd, NoFd}
                               /\ k.cb \in connected' => k.cb \in Waiting'[k.dir]
  BY <1>1 DEF TaskServed, Serves, Settled
<1>2. ASSUME NEW i \in 1..Len(tasks) PROVE tasks[i].dir \in Dirs /\ TaskServed(tasks[i])
  <2>1. tasks[i] \in Tasks BY Types
  <2> QED BY <2>1 DEF Tasks, TaskInv
<1>3. ASSUME NEW w \in Doing' PROVE th[w].task.dir \in Dirs /\ TaskServed(th[w].task) /\ th'[w].task = th[w].task
  <2>1. w \in Doing /\ w \in Running /\ w \in Workers BY DEF SameTasks, Doing, Running, At
  <2> QED BY <2>1 DEF ThreadInv, Tasks, TaskInv, SameTasks
<1>4. tasks' = tasks BY DEF Settled
<1> QED BY <1>1, <1>2, <1>3, <1>4 DEF TaskInv, TaskServed, Serves

(* The is_executing flags, and what select() is asked about. *)
LEMMA ExecStays ==
  ASSUME ExecInv, PollInv, SameTasks, tasks' = tasks, poll' = poll, Exec' = Exec
  PROVE  ExecInv' /\ PollInv'
BY DEF ExecInv, PollInv, SameTasks, Running

(* Numbers and what they denote. *)
LEMMA SockStays ==
  ASSUME TypeOK, SockInv, Settled, UNCHANGED sockfd, \A f \in Fds : kfd'[f] \in {kfd[f], Closed}
  PROVE  SockInv'
<1>1. sockfd[Server] \in Fds \cup {NoFd} /\ Closed \notin Conns BY Types, Kinds
<1>2. Denotes(sockfd[Server])' \notin Conns BY <1>1 DEF SockInv, Denotes
<1>3. \A d \in Dirs : \A c \in Waiting'[d] : sockfd[c] # NoFd BY DEF SockInv, Settled
<1>4. \A c \in connected' : sockfd[c] # NoFd BY DEF SockInv, Settled
<1> QED BY <1>2, <1>3, <1>4 DEF SockInv

(* The callbacks in tracked_fds_. *)
LEMMA TrackStays ==
  ASSUME TrackInv, Settled, \A f \in Fds, d \in Dirs : Cb'[f][d] \in {Cb[f][d], NoCb, Server}
  PROVE  TrackInv'
<1>1. NoCb \notin Conns /\ Server \notin Conns BY Kinds
<1>2. ASSUME NEW f \in Fds, NEW d \in Dirs, Cb'[f][d] \in Conns
      PROVE  /\ Cb'[f][d] <= accepted' /\ sockfd'[Cb'[f][d]] \in {f, NoFd}
             /\ Cb'[f][d] \in connected' => Cb'[f][d] \in Waiting'[d]
  <2>1. Cb'[f][d] = Cb[f][d] BY <1>1, <1>2
  <2>2. Serves(Cb[f][d], f, d) BY <1>2, <2>1 DEF TrackInv
  <2> QED BY <1>2, <2>1, <2>2 DEF Serves, Settled
<1> QED BY <1>2 DEF TrackInv, Serves

(* What number f denotes in the next state. *)
WillDenote(f) == IF f = NoFd THEN Closed ELSE kfd'[f]

(* A number that denotes no other client's connection does not come to do so. *)
LEMMA HarmlessStays ==
  ASSUME Settled, NEW s, NEW f \in Fds \cup {NoFd}, Harmless(f, s)
  PROVE  WillDenote(f) \notin Conns \ {s}
BY Kinds DEF Harmless, Denotes, WillDenote, Settled

(* What the threads are about to unregister and close. *)
LEMMA SparesStay ==
  ASSUME TypeOK, TypeOK', SockInv, SockInv', OwnInv, Settled,
         NEW t \in Threads, NEW l, NEW c, NEW n, Goes(t, l, c, n)
  PROVE  \A u \in Threads : Spares(u)'
<1>1. th'[t].pc = l /\ th'[t].s = c /\ \A u \in Threads : u # t => th'[u] = th[u]
  BY DEF Goes, Becomes
<1>2. ASSUME NEW s \in Socks, Harmless(sockfd[s], s) PROVE WillDenote(sockfd'[s]) \notin Conns \ {s}
  <2>1. CASE s = Server BY <2>1 DEF SockInv, Denotes, WillDenote
  <2>2. CASE s \in Conns
    <3>1. sockfd[s] \in Fds \cup {NoFd} /\ sockfd'[s] \in {sockfd[s], NoFd} BY <2>2, Types DEF Settled
    <3>2. WillDenote(NoFd) \notin Conns BY Kinds DEF WillDenote
    <3> QED BY <1>2, <3>1, <3>2, HarmlessStays
  <2> QED BY <2>1, <2>2 DEF Socks
<1>3. ASSUME NEW u \in Threads, u # t PROVE Spares(u)'
  <2>1. Spares(u) /\ th'[u] = th[u] /\ th[u].s \in Socks /\ th[u].fd \in Fds \cup {NoFd}
    BY <1>1, <1>3, ThreadFields DEF OwnInv
  <2>2. sockfd[th[u].s] \in Fds \cup {NoFd} BY <2>1, Types
  <2>3. CASE th[u].pc \in {"disconnect", "clear"}
    BY <1>2, <2>1, <2>3 DEF Spares, Harmless, Denotes, WillDenote
  <2>4. CASE th[u].pc \in {"unregister", "close"}
    <3>1. Harmless(sockfd[th[u].s], th[u].s) /\ Harmless(th[u].fd, th[u].s)
      BY <2>1, <2>4 DEF Spares, FdRead
    <3>2. WillDenote(th[u].fd) \notin Conns \ {th[u].s} BY <2>1, <3>1, HarmlessStays
    <3>3. WillDenote(sockfd'[th[u].s]) \notin Conns \ {th[u].s} BY <1>2, <2>1, <3>1
    <3> QED BY <2>1, <2>4, <3>2, <3>3 DEF Spares, Harmless, FdRead, Denotes, WillDenote
  <2>5. CASE th[u].pc \notin {"disconnect", "clear", "unregister", "close"}
    BY <2>1, <2>5 DEF Spares
  <2> QED BY <2>3, <2>4, <2>5
<1>4. Spares(t)'
  <2>1. CASE l \notin {"disconnect", "clear", "unregister", "close"} BY <1>1, <2>1 DEF Spares
  <2>2. CASE l \in {"disconnect", "clear", "unregister", "close"}
    <3>1. c \in Socks /\ sockfd[c] \in Fds \cup {NoFd} BY Types DEF Goes
    <3>2. Harmless(sockfd[c], c)
      <4>1. CASE c = Server BY <4>1 DEF SockInv, Harmless
      <4>2. CASE c \in connected BY <4>2 DEF OwnInv, Open, Harmless
      <4>3. CASE c = th[t].s /\ th[t].pc \in {"disconnect", "clear", "unregister"}
        <5>1. Spares(t) BY DEF OwnInv
        <5> QED BY <4>3, <5>1 DEF Spares, FdRead
      <4> QED BY <2>2, <4>1, <4>2, <4>3 DEF Goes, Follows
    <3>3. WillDenote(sockfd'[c]) \notin Conns \ {c} BY <1>2, <3>1, <3>2
    <3>4. WillDenote(sockfd[c]) \notin Conns \ {c} BY <3>1, <3>2, HarmlessStays
    <3>5. l \in {"unregister", "close"} => th'[t].fd = sockfd[c] BY DEF Goes, Follows
    <3> QED BY <1>1, <3>3, <3>4, <3>5 DEF Spares, Harmless, FdRead, Denotes, WillDenote
  <2> QED BY <2>1, <2>2
<1> QED BY <1>3, <1>4

(* What was reported and not read yet. *)
LEMMA InputStays ==
  ASSUME TypeOK, TypeOK', Settled, SameTasks, InputInv
  PROVE  InputInv'
<1>1. ASSUME NEW x \in Open' PROVE x \in Open /\ sockfd'[x] = sockfd[x]
  <2>1. x \in Conns /\ x \in Socks /\ x # Closed /\ WillDenote(sockfd'[x]) = x
    BY Kinds DEF Open, Denotes, WillDenote
  <2>2. sockfd'[x] # NoFd BY <2>1 DEF WillDenote
  <2>3. sockfd'[x] = sockfd[x] /\ sockfd[x] \in Fds BY <2>1, <2>2, Types DEF Settled
  <2>4. kfd'[sockfd[x]] = x BY <2>1, <2>2, <2>3 DEF WillDenote
  <2>5. kfd[sockfd[x]] = x BY <2>1, <2>3, <2>4 DEF Settled
  <2> QED BY <2>1, <2>2, <2>3, <2>5 DEF Open, Denotes
<1>2. ASSUME NEW f, Fed(f) PROVE Fed(f)' BY <1>1, <1>2 DEF Fed, Settled
<1>3. UNCHANGED <<poll, tasks>> BY DEF Settled
<1>4. \A w \in Doing' : w \in Doing /\ th'[w].task = th[w].task BY DEF SameTasks, Doing
<1>5. \A f : Fed(f) => (\A c \in Open' : sockfd'[c] = f => c \in HasInput') BY <1>2 DEF Fed
<1> QED BY <1>3, <1>4, <1>5 DEF InputInv, Fed

(* The entries of the clients that stay connected. *)
LEMMA KnownStays ==
  ASSUME KnownInv, Settled,
         \A x \in connected' : /\ sockfd'[x] = sockfd[x] /\ (Marked'[sockfd[x]] => Marked[sockfd[x]])
                               /\ \A d \in Dirs : x \in Waiting'[d] =>
                                    \/ Cb'[sockfd[x]][d] = x
                                    \/ x \in Waiting[d] /\ Cb'[sockfd[x]][d] = Cb[sockfd[x]][d]
  PROVE  KnownInv'
<1>1. ASSUME NEW x \in connected'
      PROVE  ~Marked'[sockfd'[x]] /\ \A d \in Dirs : x \in Waiting'[d] => Cb'[sockfd'[x]][d] = x
  <2>1. x \in connected BY DEF Settled
  <2> QED BY <2>1 DEF KnownInv
<1> QED BY <1>1 DEF KnownInv

(* Together: a step of a thread that settles. *)
LEMMA Settles ==
  ASSUME TcpInv, TypeOK', NEW t \in Threads, NEW l, NEW c, NEW n, Goes(t, l, c, n), c <= accepted,
         Leaves(l, c), Settled, \A i \in 1..Len(clients') : clients'[i] <= accepted,
         SockInv', TrackInv',
         NotClosing' => connected' \subseteq Open' /\ \A d \in Dirs : Waiting'[d] \subseteq Open',
         NotKept' => KnownInv'
  PROVE  TcpInv'
<1>1. TypeOK /\ ThreadInv /\ SockInv /\ AcceptedInv /\ DisconnectInv /\ TrackInv /\ TaskInv /\ ExecInv /\ PollInv
  BY Parts
<1>2. th' \in [Threads -> Recs] /\ ThreadInv' /\ SameTasks BY <1>1, ThreadGoes
<1>3. AcceptedInv' /\ DisconnectInv' BY <1>1, PlacesStay
<1>4. TaskInv' BY <1>1, <1>2, TasksStay
<1>5. ExecInv' /\ PollInv' BY <1>1, <1>2, ExecStays DEF Settled
<1>6. BaseInv' BY <1>2, <1>3, <1>4, <1>5 DEF BaseInv
<1>7. (NotClosing' => NotClosing) /\ (Fresh' => Fresh) BY History DEF Settled
<1>8. ASSUME NotClosing' PROVE OwnInv'
  <2>1. OwnInv BY <1>7, <1>8, Parts
  <2>2. \A u \in Threads : Spares(u)' BY <1>1, <2>1, SparesStay
  <2> QED BY <1>8, <2>2 DEF OwnInv
<1>9. ASSUME Fresh' PROVE InputInv'
  <2>1. InputInv BY <1>7, <1>9, Parts
  <2> QED BY <1>1, <1>2, <2>1, InputStays
<1> QED BY <1>6, <1>8, <1>9 DEF TcpInv

-----------------------------------------------------------------------------
(* TcpInv is inductive.  First the steps that change only where a thread is  *)
(* and the server's own members.                                           *)

Others == /\ bound' \subseteq Conns /\ mutex' \in Threads \cup {Nobody}
          /\ is_running' \in BOOLEAN /\ new_cb' \in BOOLEAN /\ clients' \in Seq(Conns)
          /\ pipe' \in BOOLEAN /\ poll_stop' \in BOOLEAN

(* The types of what such a step changes. *)
LEMMA MoveTypes ==
  ASSUME TypeOK, UNCHANGED <<sockVars, tracked, poll, tasks, connected, reads, writes>>, Others,
         th' \in [Threads -> Recs]
  PROVE  TypeOK'
<1>1. SocketsTypeOK' BY DEF TypeOK, SocketsTypeOK, sockVars, kernelVars
<1>2. ReactorTypeOK' BY DEF TypeOK, ReactorTypeOK, Others
<1> QED BY <1>1, <1>2 DEF TypeOK, Others, Recs

(* What they keep. *)
LEMMA Moves ==
  ASSUME TcpInv, NEW t \in Threads, NEW l, NEW c, NEW n, Goes(t, l, c, n), c <= accepted,
         l \notin {"clear", "close", "reset"}, l = "unregister" => c = Server,
         UNCHANGED <<sockVars, tracked, poll, tasks, connected, reads, writes>>, Others,
         \A i \in 1..Len(clients') : clients'[i] <= accepted
  PROVE  TcpInv'
<1>1. TypeOK /\ ThreadInv /\ SockInv /\ AcceptedInv /\ TrackInv BY Parts
<1>2. th' \in [Threads -> Recs] BY <1>1, ThreadGoes
<1>3. TypeOK' BY <1>1, <1>2, MoveTypes
<1>4. /\ Open' = Open /\ HasInput' = HasInput /\ Waiting' = Waiting
      /\ Cb' = Cb /\ Exec' = Exec /\ Marked' = Marked
      /\ UNCHANGED <<kfd, sockfd, accepted, connected, reused, poll, tasks>>
  BY SameSets DEF sockVars, kernelVars
<1>5. Settled BY <1>4 DEF Settled
<1>6. Server \notin connected /\ \A d \in Dirs : Server \notin Waiting[d] BY <1>1, Types, Kinds
<1>7. Leaves(l, c) BY <1>4, <1>6 DEF Leaves
<1>8. SockInv' BY <1>1, <1>4, <1>5, SockStays
<1>9. TrackInv' BY <1>1, <1>4, <1>5, TrackStays
<1>10. NotClosing' => connected' \subseteq Open' /\ \A d \in Dirs : Waiting'[d] \subseteq Open'
  <2>1. NotClosing' => OwnInv BY <1>4, Parts DEF NotClosing
  <2> QED BY <1>4, <2>1 DEF OwnInv
<1>11. NotKept' => KnownInv'
  <2>1. NotKept' => KnownInv BY <1>4, Parts DEF NotKept
  <2> QED BY <1>4, <1>5, <2>1, KnownStays
<1> QED BY <1>3, <1>5, <1>7, <1>8, <1>9, <1>10, <1>11, Settles

Plain == Places \ {"idle", "do", "answer", "read_again", "clear", "unregister", "close", "reset",
                   "new_client", "bind", "append"}

(* They are these. *)
LEMMA PlainPlaces ==
  {"epilogue", "next", "disconnect", "lock", "erase", "wait", "lock_all", "stop", "unset", "stopped",
   "set_cb", "set_running", "serving", "join_poll", "join_pool", "hung", "done"} \subseteq Plain
BY DEF Plain, Places

(* Steps that change a thread and the server's own members. *)
Moving ==
  /\ UNCHANGED <<sockVars, tracked, poll, tasks, connected, reads, writes>> /\ Others
  /\ \A i \in 1..Len(clients') : clients'[i] <= accepted

(* To such a place, with another socket. *)
LEMMA MovesPlain ==
  ASSUME TcpInv, NEW t \in Threads, NEW l \in Plain, NEW c \in Socks, NEW n \in Nat \ {0}, c <= accepted,
         th[t].pc # "idle", Becomes(t, l, th[t].task, c, n), Moving, l = "disconnect" => c \in connected
  PROVE  TcpInv'
<1>1. Goes(t, l, c, n) BY DEF Goes, Plain, Follows
<1> QED BY <1>1, Moves DEF Plain, Moving

(* To such a place and no more. *)
LEMMA Gotos ==
  ASSUME TcpInv, NEW t \in Threads, NEW l \in Plain, l # "disconnect", Goto(t, l), th[t].pc # "idle", Moving
  PROVE  TcpInv'
<1>1. TypeOK /\ th \in [Threads -> Recs] /\ th[t].s <= accepted /\ th[t].s \in Socks /\ th[t].i \in Nat \ {0}
      /\ th[t].task \in Tasks \cup {NoTask} /\ l \in Places
  BY Types, ThreadFields, Parts DEF AcceptedInv, Plain
<1>2. Becomes(t, l, th[t].task, th[t].s, th[t].i)
  BY <1>1, Updates DEF Goto
<1> QED BY <1>1, <1>2, MovesPlain

(* The server's members, when they do not change. *)
LEMMA OtherTypes ==
  ASSUME TcpInv
  PROVE  /\ TypeOK /\ bound \subseteq Conns /\ mutex \in Threads \cup {Nobody}
         /\ is_running \in BOOLEAN /\ new_cb \in BOOLEAN /\ clients \in Seq(Conns)
         /\ pipe \in BOOLEAN /\ poll_stop \in BOOLEAN
         /\ (\A i \in 1..Len(clients) : clients[i] <= accepted) /\ accepted \in Nat
         /\ th \in [Threads -> Recs] /\ Server \in Socks /\ Server <= accepted
<1>1. TypeOK /\ AcceptedInv BY Parts
<1>2. bound \subseteq Conns /\ mutex \in Threads \cup {Nobody} /\ is_running \in BOOLEAN
      /\ new_cb \in BOOLEAN
  BY <1>1 DEF TypeOK
<1>3. pipe \in BOOLEAN /\ poll_stop \in BOOLEAN BY <1>1 DEF TypeOK, ReactorTypeOK
<1>4. clients \in Seq(Conns) /\ accepted \in Nat /\ th \in [Threads -> Recs] BY <1>1, Types
<1>5. Server \in Socks /\ Server <= accepted BY <1>4, Kinds DEF Server
<1>6. \A i \in 1..Len(clients) : clients[i] <= accepted BY <1>1 DEF AcceptedInv
<1> QED BY <1>1, <1>2, <1>3, <1>4, <1>5, <1>6

(* Nothing but a thread changes. *)
LEMMA OnlyMoves ==
  ASSUME TcpInv, UNCHANGED <<sockVars, reactorVars, clientVars, serverVars>>
  PROVE  Moving
BY OtherTypes DEF Moving, Others, clientVars, serverVars, reactorVars

(* do_read(), do_write() without a request *)
LEMMA DoNothingStep ==
  ASSUME TcpInv, NEW w \in Workers, DoNothing(w)
  PROVE  TcpInv'
<1>1. w \in Threads /\ th[w].pc = "do" BY DEF Threads, DoNothing, At
<1>2. Moving BY OnlyMoves DEF DoNothing
<1>4. CASE Goto(w, "epilogue") BY <1>1, <1>2, <1>4, Gotos, PlainPlaces
<1> DEFINE c == Me(w)  l == Disconnecting(w, Me(w))
<1>5. CASE th' = [th EXCEPT ![w].pc = l, ![w].s = c]
  <2>1. w \in Doing BY <1>1 DEF Doing, At
  <2>0. TaskInv /\ ThreadInv BY Parts
  <2>2. c \in Conns /\ c \in Socks BY <1>1, <2>0, Kinds DEF ThreadInv
  <2>6. c <= accepted BY <2>0, <2>1, <2>2 DEF TaskInv, TaskServed, Serves, Me
  <2>3. l \in Plain /\ l \in Places BY PlainPlaces DEF Disconnecting, Returned, Plain
  <2>7. TypeOK /\ th \in [Threads -> Recs] BY OtherTypes
  <2>8. th[w].task \in Tasks \cup {NoTask} /\ th[w].i \in Nat \ {0} BY <1>1, <2>7, ThreadFields
  <2>9. l = "disconnect" => c \in connected BY DEF Disconnecting, Returned
  <2> HIDE DEF c, l
  <2>4. Becomes(w, l, th[w].task, c, th[w].i)
    BY <1>1, <1>5, <2>2, <2>3, <2>7, <2>8, Updates
  <2> QED BY <1>1, <1>2, <2>2, <2>3, <2>4, <2>6, <2>8, <2>9, MovesPlain
<1> QED BY <1>4, <1>5 DEF DoNothing

(* on_disconnection_ becomes the server's. *)
LEMMA BindStep ==
  ASSUME TcpInv, NEW w \in Workers, Bind(w)
  PROVE  TcpInv'
<1>1. w \in Threads /\ th[w].pc = "bind" BY DEF Threads, Bind, At
<1>2. th[w].s \in Conns BY <1>1, Parts DEF ThreadInv
<1>3. Others /\ \A i \in 1..Len(clients') : clients'[i] <= accepted
  BY <1>2, OtherTypes DEF Others, Bind, serverVars, reactorVars
<1>4. UNCHANGED <<sockVars, tracked, poll, tasks, connected, reads, writes>> BY DEF Bind, reactorVars
<1>5. TypeOK /\ th \in [Threads -> Recs] BY OtherTypes
<1>6. th[w].task \in Tasks \cup {NoTask} /\ th[w].i \in Nat \ {0} /\ th[w].s \in Socks
  BY <1>1, <1>5, ThreadFields
<1>10. "append" \in Places BY DEF Places
<1>7. Becomes(w, "append", th[w].task, th[w].s, th[w].i) BY <1>1, <1>5, <1>6, <1>10, Updates DEF Bind, Goto
<1>8. Goes(w, "append", th[w].s, th[w].i) BY <1>1, <1>2, <1>6, <1>7, <1>10 DEF Goes, Follows
<1>9. th[w].s <= accepted BY <1>1, Parts DEF AcceptedInv
<1> QED BY <1>1, <1>3, <1>4, <1>8, <1>9, Moves

(* emplace_back() *)
LEMMA AppendClientStep ==
  ASSUME TcpInv, NEW w \in Workers, AppendClient(w)
  PROVE  TcpInv'
<1>1. w \in Threads /\ th[w].pc = "append" /\ Goto(w, "epilogue") BY DEF Threads, AppendClient, At
<1>5. th[w].s \in Conns /\ th[w].s <= accepted BY <1>1, Parts DEF ThreadInv, AcceptedInv
<1>2. clients' = clients \/ clients' = Append(clients, th[w].s) BY DEF AppendClient
<1>3. clients' \in Seq(Conns) /\ \A i \in 1..Len(clients') : clients'[i] <= accepted
  BY <1>2, <1>5, OtherTypes, SMTT(15)
<1>4. Moving BY <1>3, OtherTypes DEF Moving, Others, AppendClient, clientVars, reactorVars
<1> QED BY <1>1, <1>4, Gotos, PlainPlaces

(* wait_on_removal_cond() and the tests after it *)
LEMMA WaitStep ==
  ASSUME TcpInv, NEW t \in Threads, Wait(t)
  PROVE  TcpInv'
<1>1. PICK l \in {"lock", "next", "epilogue"} : Goto(t, l) BY DEF Wait, Returned
<1>2. Moving BY OnlyMoves DEF Wait
<1>3. th[t].pc = "wait" BY DEF Wait, At
<1> QED BY <1>1, <1>2, <1>3, Gotos, PlainPlaces

(* clients_mutex_ in on_client_disconnect() *)
LEMMA LockStep ==
  ASSUME TcpInv, NEW t \in Threads, Lock(t)
  PROVE  TcpInv'
<1>1. Moving BY OtherTypes DEF Moving, Others, Lock, clientVars, reactorVars
<1>2. th[t].pc = "lock" /\ Goto(t, "erase") BY DEF Lock, At
<1> QED BY <1>1, <1>2, Gotos, PlainPlaces

(* The lowest of some positions. *)
LEMMA MinIn ==
  ASSUME NEW I \in SUBSET Nat, I # {}
  PROVE  Min(I) \in I
<1>1. PICK x \in I : \A y \in I : ~(<<y, x>> \in OpToRel(<, Nat))
  BY NatLessThanWellFounded, WFMin
<1>2. \A y \in I : ~(y < x)
  <2>1. ASSUME NEW y \in I, y < x PROVE FALSE
    <3>1. <<y, x>> \in OpToRel(<, Nat) BY <2>1 DEF OpToRel
    <3> QED BY <1>1, <3>1
  <2> QED BY <2>1
<1>3. \A y \in I : x <= y BY <1>2
<1> QED BY <1>3 DEF Min

(* std::find and erase: what is left was in the list. *)
LEMMA ErasedClients ==
  ASSUME NEW S, NEW q \in Seq(S), NEW e
  PROVE  /\ RemoveFirst(q, e) \in Seq(S)
         /\ \A i \in 1..Len(RemoveFirst(q, e)) : \E j \in 1..Len(q) : RemoveFirst(q, e)[i] = q[j]
<1>1. CASE ~\E i \in 1..Len(q) : q[i] = e BY <1>1 DEF RemoveFirst
<1>2. CASE \E i \in 1..Len(q) : q[i] = e
  <2> DEFINE I == {i \in 1..Len(q) : q[i] = e}
             m == Min(I)
             a == SubSeq(q, 1, m - 1)
             b == SubSeq(q, m + 1, Len(q))
  <2>1. I \in SUBSET Nat /\ I # {} /\ Len(q) \in Nat BY <1>2
  <2>2. m \in I BY <2>1, MinIn
  <2>3. m \in 1..Len(q) BY <2>2
  <2>4. RemoveFirst(q, e) = a \o b BY <1>2, <2>1 DEF RemoveFirst, RemoveAt, SelectInSeq
  <2> HIDE DEF m
  <2>5. a \in Seq(S) /\ Len(a) = m - 1 /\ \A i \in 1..Len(a) : a[i] = q[i] BY <2>1, <2>3
  <2>6. b \in Seq(S) /\ Len(b) = Len(q) - m /\ \A i \in 1..Len(b) : b[i] = q[m + i] BY <2>1, <2>3
  <2> HIDE DEF a, b
  <2>7. a \o b \in Seq(S) /\ Len(a \o b) = Len(a) + Len(b)
        /\ \A i \in 1..Len(a) + Len(b) : (a \o b)[i] = IF i <= Len(a) THEN a[i] ELSE b[i - Len(a)]
    BY <2>5, <2>6, ConcatProperties
  <2>8. ASSUME NEW i \in 1..Len(a \o b) PROVE \E j \in 1..Len(q) : (a \o b)[i] = q[j]
    <3>1. CASE i <= Len(a) BY <2>1, <2>3, <2>5, <2>6, <2>7, <3>1
    <3>2. CASE ~(i <= Len(a))
      <4>1. i - Len(a) \in 1..Len(b) BY <2>1, <2>3, <2>5, <2>6, <2>7, <3>2
      <4>2. (a \o b)[i] = q[m + (i - Len(a))] BY <2>6, <2>7, <3>2, <4>1
      <4>3. m + (i - Len(a)) \in 1..Len(q) BY <2>1, <2>3, <2>5, <2>6, <4>1
      <4> QED BY <4>2, <4>3
    <3> QED BY <3>1, <3>2
  <2> QED BY <2>4, <2>7, <2>8
<1> QED BY <1>1, <1>2

(* clients_.erase() *)
LEMMA EraseClientStep ==
  ASSUME TcpInv, NEW t \in Threads, EraseClient(t)
  PROVE  TcpInv'
<1>1. clients' = RemoveFirst(clients, th[t].s) /\ th[t].pc = "erase" /\ Goto(t, "epilogue")
  BY DEF EraseClient, At
<1>2. clients' \in Seq(Conns) /\ \A i \in 1..Len(clients') : clients'[i] <= accepted
  BY <1>1, OtherTypes, ErasedClients
<1>3. Moving BY <1>2, OtherTypes DEF Moving, Others, EraseClient, clientVars, reactorVars
<1> QED BY <1>1, <1>3, Gotos, PlainPlaces

(* What a thread holds, again. *)
LEMMA Fields ==
  ASSUME TcpInv, NEW t \in Threads
  PROVE  /\ th \in [Threads -> Recs] /\ th[t].task \in Tasks \cup {NoTask} /\ th[t].i \in Nat \ {0}
         /\ th[t].s \in Socks /\ th[t].s <= accepted
<1>1. TypeOK /\ AcceptedInv BY Parts
<1> QED BY <1>1, Types, ThreadFields DEF AcceptedInv

(* stop() *)
LEMMA StopCallStep ==
  ASSUME TcpInv, NEW t \in Threads, Stop(t)
  PROVE  TcpInv'
<1>1. PICK l \in {"unset", "stopped", "epilogue"} : Goto(t, l) BY DEF Stop, Stopped
<1>2. Moving BY OnlyMoves DEF Stop
<1>3. th[t].pc = "stop" BY DEF Stop, At
<1> QED BY <1>1, <1>2, <1>3, Gotos, PlainPlaces

(* is_running_ = false *)
LEMMA UnsetRunningStep ==
  ASSUME TcpInv, NEW t \in Threads, UnsetRunning(t)
  PROVE  TcpInv'
<1>1. /\ th[t].pc = "unset"
      /\ th' = [th EXCEPT ![t].pc = "unregister", ![t].s = Server, ![t].fd = sockfd[Server]]
  BY DEF UnsetRunning, At
<1>2. Moving BY OtherTypes DEF Moving, Others, UnsetRunning, clientVars, reactorVars
<1>3. "unregister" \in Places BY DEF Places
<1>4. Server \in Socks /\ Server <= accepted BY OtherTypes
<1>7. sockfd[Server] \in Fds \cup {NoFd} BY <1>4, Parts, Types
<1>5. Becomes(t, "unregister", th[t].task, Server, th[t].i) /\ th'[t].fd = sockfd[Server]
  <2> DEFINE f == sockfd[Server]  l == "unregister"
  <2>1. /\ f \in Fds \cup {NoFd} /\ l \in Places
        /\ th' = [th EXCEPT ![t].pc = l, ![t].s = Server, ![t].fd = f]
    BY <1>1, <1>3, <1>7
  <2>3. th \in [Threads -> Recs] BY Fields
  <2> HIDE DEF f, l
  <2>2. Becomes(t, l, th[t].task, Server, th[t].i) /\ th'[t].fd = f
    BY <1>4, <2>1, <2>3, FdUpdates, ZenonT(20)
  <2> QED BY <2>2 DEF f, l
<1>6. Goes(t, "unregister", Server, th[t].i) BY <1>1, <1>3, <1>4, <1>5, Fields DEF Goes, Follows
<1> QED BY <1>2, <1>4, <1>6, Moves DEF Moving

(* clients_mutex_ in stop() *)
LEMMA LockAllStep ==
  ASSUME TcpInv, NEW t \in Threads, LockAll(t)
  PROVE  TcpInv'
<1>1. th[t].pc = "lock_all" /\ th' = [th EXCEPT ![t].pc = "next", ![t].i = 1] BY DEF LockAll, At
<1>2. Moving BY OtherTypes DEF Moving, Others, LockAll, clientVars, reactorVars
<1>3. "next" \in Places /\ "next" \in Plain BY PlainPlaces DEF Plain
<1> DEFINE n == 1
<1>5. n \in Nat \ {0} OBVIOUS
<1> HIDE DEF n
<1>4. Becomes(t, "next", th[t].task, th[t].s, n)
  <2>1. th' = [th EXCEPT ![t].pc = "next", ![t].i = n] BY <1>1 DEF n
  <2> QED BY <1>3, <1>5, <2>1, Fields, Updates
<1> QED BY <1>1, <1>2, <1>3, <1>4, <1>5, Fields, MovesPlain

(* The loop over clients_ *)
LEMMA NextClientStep ==
  ASSUME TcpInv, NEW t \in Threads, NextClient(t)
  PROVE  TcpInv'
<1> DEFINE c == clients[th[t].i]  l == Disconnecting(t, c)  n == th[t].i + 1
<1>1. th[t].pc = "next" /\ th[t].i <= Len(clients)
      /\ th' = [th EXCEPT ![t].pc = l, ![t].s = c, ![t].i = n]
  BY DEF NextClient, At
<1>2. Moving BY OnlyMoves DEF NextClient
<1>3. l \in Places /\ l \in Plain BY PlainPlaces DEF Plain, Disconnecting, Returned
<1>4. th[t].i \in 1..Len(clients) /\ n \in Nat \ {0} BY <1>1, Fields, OtherTypes
<1>5. c \in Conns /\ c \in Socks /\ c <= accepted
  <2>1. clients \in Seq(Conns) /\ \A i \in 1..Len(clients) : clients[i] <= accepted BY OtherTypes
  <2> DEFINE k == th[t].i
  <2>2. k \in 1..Len(clients) BY <1>4
  <2> HIDE DEF k
  <2>3. clients[k] \in Conns /\ clients[k] <= accepted BY <2>1, <2>2
  <2>4. clients[k] \in Socks BY <2>3, Kinds
  <2> QED BY <2>3, <2>4 DEF k
<1>7. l = "disconnect" => c \in connected BY DEF Disconnecting, Returned
<1> HIDE DEF c, l, n
<1>6. Becomes(t, l, th[t].task, c, n) BY <1>1, <1>3, <1>4, <1>5, Fields, Updates
<1> QED BY <1>1, <1>2, <1>3, <1>4, <1>5, <1>6, <1>7, MovesPlain

(* clients_.clear() *)
LEMMA ClearClientsStep ==
  ASSUME TcpInv, NEW t \in Threads, ClearClients(t)
  PROVE  TcpInv'
<1> DEFINE l == Stopped(t)
<1>1. th[t].pc = "next" /\ th' = [th EXCEPT ![t].pc = l, ![t].s = Server, ![t].i = 1]
  BY DEF ClearClients, At
<1>2. Moving BY OtherTypes DEF Moving, Others, ClearClients, clientVars, reactorVars
<1>3. l \in Places /\ l \in Plain /\ l # "disconnect" BY PlainPlaces DEF Plain, Stopped
<1>4. Server \in Socks /\ Server <= accepted BY OtherTypes
<1> DEFINE n == 1
<1>6. n \in Nat \ {0} /\ th' = [th EXCEPT ![t].pc = l, ![t].s = Server, ![t].i = n] BY <1>1
<1> HIDE DEF l, n
<1>5. Becomes(t, l, th[t].task, Server, n) BY <1>3, <1>4, <1>6, Fields, Updates
<1> QED BY <1>1, <1>2, <1>3, <1>4, <1>5, <1>6, MovesPlain

(* The owner outside start() and stop() *)
LEMMA OwnerSteps ==
  ASSUME TcpInv, SetNewCb \/ SetRunning \/ CallStop \/ EndReactor \/ JoinPoll \/ JoinPool
  PROVE  TcpInv'
<1>1. Owner \in Threads BY DEF Threads
<1>2. \E l \in {"set_running", "serving", "stop", "join_poll", "join_pool", "hung", "done"} : Goto(Owner, l)
  BY DEF SetNewCb, SetRunning, CallStop, EndReactor, JoinPoll, JoinPool
<1>3. th[Owner].pc # "idle"
  BY DEF SetNewCb, SetRunning, CallStop, EndReactor, JoinPoll, JoinPool, At
<1>4. CASE SetNewCb \/ SetRunning
  <2>1. Moving
    BY <1>4, OtherTypes DEF Moving, Others, SetNewCb, SetRunning, clientVars, reactorVars
  <2> QED BY <1>1, <1>2, <1>3, <2>1, Gotos, PlainPlaces
<1>5. CASE CallStop \/ JoinPoll \/ JoinPool
  <2>1. Moving BY <1>5, OnlyMoves DEF CallStop, JoinPoll, JoinPool
  <2> QED BY <1>1, <1>2, <1>3, <2>1, Gotos, PlainPlaces
<1>6. CASE EndReactor
  <2>1. poll_stop' = TRUE /\ pipe' \in BOOLEAN BY <1>6, OtherTypes DEF EndReactor, SetPollStop
  <2>2. Moving
    BY <1>6, <2>1, OtherTypes DEF Moving, Others, EndReactor, clientVars, serverVars
  <2> QED BY <1>1, <1>2, <1>3, <2>2, Gotos, PlainPlaces
<1> QED BY <1>4, <1>5, <1>6


-----------------------------------------------------------------------------
(* Requests are made and carried out.                                      *)

(* The next state has its types if its parts have. *)
LEMMA NextTypes ==
  ASSUME SocketsTypeOK', TrackedOK', tasks' \in Seq(Tasks), Others, connected' \subseteq Conns,
         poll' \in [pc : {"top", "select", "dispatch", "exited"}, asked : SUBSET (Fds \X Dirs),
                    ready : SUBSET (Fds \X Dirs), notified : BOOLEAN],
         reads' \in [Conns -> Nat], writes' \in [Conns -> Seq({"result", "error"})],
         th' \in [Threads -> Recs]
  PROVE  TypeOK'
<1>1. ReactorTypeOK' BY DEF ReactorTypeOK, TrackedOK, Infos, Others
<1> QED BY <1>1 DEF TypeOK, Others, Recs

(* The parts, when they do not change. *)
LEMMA PartTypes ==
  ASSUME TypeOK
  PROVE  /\ SocketsTypeOK /\ (UNCHANGED sockVars => SocketsTypeOK')
         /\ tasks \in Seq(Tasks) /\ connected \subseteq Conns
         /\ poll \in [pc : {"top", "select", "dispatch", "exited"}, asked : SUBSET (Fds \X Dirs),
                      ready : SUBSET (Fds \X Dirs), notified : BOOLEAN]
         /\ reads \in [Conns -> Nat] /\ writes \in [Conns -> Seq({"result", "error"})]
<1>1. SocketsTypeOK /\ (UNCHANGED sockVars => SocketsTypeOK')
  BY DEF TypeOK, SocketsTypeOK, sockVars, kernelVars
<1> QED BY <1>1 DEF TypeOK, ReactorTypeOK

(* read_requests_ and write_requests_ grow and shrink. *)
LEMMA WaitingView ==
  ASSUME TypeOK, NEW c \in Conns, NEW x \in {"result", "error"}
  PROVE  /\ reads' = [reads EXCEPT ![c] = @ + 1] /\ writes' = writes
              => Waiting' = [Waiting EXCEPT !["rd"] = @ \cup {c}] /\ reads' \in [Conns -> Nat]
         /\ writes' = [writes EXCEPT ![c] = Append(@, x)] /\ reads' = reads
              => /\ Waiting' = [Waiting EXCEPT !["wr"] = @ \cup {c}]
                 /\ writes' \in [Conns -> Seq({"result", "error"})]
         /\ reads' = [reads EXCEPT ![c] = @ - 1] /\ writes' = writes /\ reads[c] > 0
              => /\ Waiting' = IF reads[c] = 1 THEN [Waiting EXCEPT !["rd"] = @ \ {c}] ELSE Waiting
                 /\ reads' \in [Conns -> Nat]
         /\ writes' = [writes EXCEPT ![c] = Tail(@)] /\ reads' = reads /\ writes[c] # <<>>
              => /\ Waiting' = IF Len(writes[c]) = 1 THEN [Waiting EXCEPT !["wr"] = @ \ {c}] ELSE Waiting
                 /\ writes' \in [Conns -> Seq({"result", "error"})]
         /\ c \in Waiting["rd"] <=> reads[c] > 0
         /\ c \in Waiting["wr"] <=> writes[c] # <<>>
<1>1. reads \in [Conns -> Nat] /\ writes \in [Conns -> Seq({"result", "error"})] BY PartTypes
<1>2. /\ Waiting = [d \in Dirs |-> IF d = "rd" THEN {e \in Conns : reads[e] > 0} ELSE {e \in Conns : writes[e] # <<>>}]
      /\ Waiting' = [d \in Dirs |-> IF d = "rd" THEN {e \in Conns : reads'[e] > 0} ELSE {e \in Conns : writes'[e] # <<>>}]
  BY DEF Waiting, Pending, Dirs
<1>3. ASSUME reads' = [reads EXCEPT ![c] = @ + 1], writes' = writes
      PROVE  Waiting' = [Waiting EXCEPT !["rd"] = @ \cup {c}] /\ reads' \in [Conns -> Nat]
  <2>1. {e \in Conns : reads'[e] > 0} = {e \in Conns : reads[e] > 0} \cup {c} BY <1>1, <1>3
  <2>2. reads' \in [Conns -> Nat] BY <1>1, <1>3
  <2> QED BY <1>2, <1>3, <2>1, <2>2 DEF Dirs
<1>4. ASSUME writes' = [writes EXCEPT ![c] = Append(@, x)], reads' = reads
      PROVE  /\ Waiting' = [Waiting EXCEPT !["wr"] = @ \cup {c}]
             /\ writes' \in [Conns -> Seq({"result", "error"})]
  <2>0. Append(writes[c], x) \in Seq({"result", "error"}) /\ Append(writes[c], x) # <<>> BY <1>1
  <2>1. {e \in Conns : writes'[e] # <<>>} = {e \in Conns : writes[e] # <<>>} \cup {c} BY <1>1, <1>4, <2>0
  <2> QED BY <1>1, <1>2, <1>4, <2>0, <2>1 DEF Dirs
<1>5. ASSUME reads' = [reads EXCEPT ![c] = @ - 1], writes' = writes, reads[c] > 0
      PROVE  /\ Waiting' = IF reads[c] = 1 THEN [Waiting EXCEPT !["rd"] = @ \ {c}] ELSE Waiting
             /\ reads' \in [Conns -> Nat]
  <2>0. reads[c] - 1 \in Nat /\ (reads[c] - 1 > 0 <=> reads[c] # 1) BY <1>1, <1>5
  <2>1. {e \in Conns : reads'[e] > 0} = IF reads[c] = 1 THEN {e \in Conns : reads[e] > 0} \ {c}
                                        ELSE {e \in Conns : reads[e] > 0}
    BY <1>1, <1>5, <2>0
  <2> QED BY <1>1, <1>2, <1>5, <2>0, <2>1 DEF Dirs
<1>6. ASSUME writes' = [writes EXCEPT ![c] = Tail(@)], reads' = reads, writes[c] # <<>>
      PROVE  /\ Waiting' = IF Len(writes[c]) = 1 THEN [Waiting EXCEPT !["wr"] = @ \ {c}] ELSE Waiting
             /\ writes' \in [Conns -> Seq({"result", "error"})]
  <2>0. Tail(writes[c]) \in Seq({"result", "error"}) /\ (Tail(writes[c]) # <<>> <=> Len(writes[c]) # 1)
    <3>1. writes[c] \in Seq({"result", "error"}) /\ writes[c] # <<>> BY <1>1, <1>6
    <3>2. Tail(writes[c]) \in Seq({"result", "error"}) /\ Len(Tail(writes[c])) = Len(writes[c]) - 1
      BY <3>1, HeadTailProperties
    <3>3. Tail(writes[c]) = <<>> <=> Len(Tail(writes[c])) = 0 BY <3>2, EmptySeq
    <3> QED BY <3>1, <3>2, <3>3, LenProperties
  <2>1. {e \in Conns : writes'[e] # <<>>} = IF Len(writes[c]) = 1 THEN {e \in Conns : writes[e] # <<>>} \ {c}
                                            ELSE {e \in Conns : writes[e] # <<>>}
    BY <1>1, <1>6, <2>0
  <2> QED BY <1>1, <1>2, <1>6, <2>0, <2>1 DEF Dirs
<1>7. (c \in Waiting["rd"] <=> reads[c] > 0) /\ (c \in Waiting["wr"] <=> writes[c] # <<>>)
  BY <1>2 DEF Dirs
<1> QED BY <1>3, <1>4, <1>5, <1>6, <1>7

(* A connected client asks to be read or written. *)
LEMMA Asks ==
  ASSUME TcpInv, TypeOK', NEW t \in Threads, NEW l, NEW s, NEW n, Goes(t, l, s, n), s <= accepted,
         l \notin {"clear", "unregister", "close", "reset"},
         NEW c \in connected, NEW d \in Dirs, SetCallback(sockfd[c], d, c),
         Waiting' = [Waiting EXCEPT ![d] = @ \cup {c}],
         UNCHANGED <<sockVars, poll, tasks, connected, clients>>
  PROVE  TcpInv'
<1>1. TypeOK /\ SockInv /\ AcceptedInv /\ TrackInv BY Parts
<1>2. /\ Open' = Open /\ HasInput' = HasInput
      /\ UNCHANGED <<kfd, sockfd, accepted, connected, reused, poll, tasks>>
  BY SameSets DEF sockVars, kernelVars
<1>3. c \in Conns /\ c \in Socks /\ sockfd[c] \in Fds /\ sockfd[c] # NoFd /\ c <= accepted
  BY <1>1, HasFd
<1> DEFINE f == sockfd[c]
<1>4. Cb' = [Cb EXCEPT ![f][d] = c] /\ Exec' = Exec /\ Marked' = Marked
  BY <1>1, <1>3, Types, SetCallbackView
<1>5. \A g \in Fds, e \in Dirs : Cb'[g][e] = IF g = f /\ e = d THEN c ELSE Cb[g][e]
  BY <1>1, <1>3, <1>4, Types
<1>6. \A e \in Dirs : Waiting'[e] = IF e = d THEN Waiting[e] \cup {c} ELSE Waiting[e] BY <1>1, Types
<1>7. Settled BY <1>2, <1>4, <1>6 DEF Settled
<1>8. Leaves(l, s) BY DEF Leaves
<1>9. SockInv' BY <1>1, <1>2, <1>7, SockStays
<1>10. TrackInv'
  <2>1. ASSUME NEW g \in Fds, NEW e \in Dirs, Cb'[g][e] \in Conns
        PROVE  /\ Cb'[g][e] <= accepted /\ sockfd[Cb'[g][e]] \in {g, NoFd}
               /\ Cb'[g][e] \in connected => Cb'[g][e] \in Waiting'[e]
    <3>1. CASE g = f /\ e = d BY <1>3, <1>5, <1>6, <3>1
    <3>2. CASE ~(g = f /\ e = d)
      <4>1. Cb'[g][e] = Cb[g][e] BY <1>5, <3>2
      <4>2. Serves(Cb[g][e], g, e) BY <1>1, <2>1, <4>1 DEF TrackInv
      <4> QED BY <1>6, <4>1, <4>2 DEF Serves
    <3> QED BY <3>1, <3>2
  <2> QED BY <1>2, <2>1 DEF TrackInv, Serves
<1>11. NotClosing' => connected' \subseteq Open' /\ \A e \in Dirs : Waiting'[e] \subseteq Open'
  <2>1. NotClosing' => OwnInv BY <1>2, Parts DEF NotClosing
  <2> QED BY <1>2, <1>6, <2>1 DEF OwnInv
<1>12. ASSUME NotKept' PROVE KnownInv'
  <2>1. KnownInv /\ OwnInv BY <1>2, <1>12, Parts DEF NotKept
  <2>2. ASSUME NEW x \in connected
        PROVE  ~Marked[sockfd[x]] /\ \A e \in Dirs : x \in Waiting'[e] => Cb'[sockfd[x]][e] = x
    <3>1. x \in Open /\ c \in Open BY <2>1 DEF OwnInv
    <3>2. sockfd[x] \in Fds /\ (sockfd[x] = f => x = c) BY <1>1, <3>1, OpenHasFd
    <3>3. ASSUME NEW e \in Dirs, x \in Waiting'[e] PROVE Cb'[sockfd[x]][e] = x
      <4>1. CASE sockfd[x] = f /\ e = d BY <1>5, <3>2, <4>1
      <4>2. CASE ~(sockfd[x] = f /\ e = d)
        <5>1. x \in Waiting[e] BY <1>6, <3>2, <3>3, <4>2
        <5> QED BY <1>5, <2>1, <3>2, <4>2, <5>1 DEF KnownInv
      <4> QED BY <4>1, <4>2
    <3> QED BY <2>1, <3>3 DEF KnownInv
  <2> QED BY <1>2, <1>4, <2>2 DEF KnownInv
<1>13. \A i \in 1..Len(clients') : clients'[i] <= accepted BY OtherTypes
<1> QED BY <1>7, <1>8, <1>9, <1>10, <1>11, <1>12, <1>13, Settles

(* A callback reads or writes for its client c; the last request takes the *)
(* callback with it, and the input that was there may be gone.             *)
LEMMA Does ==
  ASSUME TcpInv, TypeOK', NEW w \in Workers, NEW l, NEW n, NEW c, NEW d, th[w].pc = "do",
         c = th[w].task.cb, d = th[w].task.dir, Goes(w, l, c, n),
         l \notin {"clear", "unregister", "close", "reset"}, c \in Waiting[d],
         UNCHANGED <<kfd, sockfd, accepted, poll, tasks, connected, clients, reused>>,
         NotClosing => HasInput \ {c} \subseteq HasInput', d # "rd" => HasInput \subseteq HasInput',
         \/ Waiting' = Waiting /\ UNCHANGED tracked
         \/ Waiting' = [Waiting EXCEPT ![d] = @ \ {c}] /\ SetCallback(sockfd[c], d, NoCb)
  PROVE  TcpInv'
<1>1. TypeOK /\ ThreadInv /\ SockInv /\ AcceptedInv /\ DisconnectInv /\ TrackInv /\ ExecInv /\ TaskInv /\ PollInv
  BY Parts
<1>2. w \in Threads /\ w \in Running /\ w \in Doing BY DEF Threads, Running, Doing, At
<1>3. th' \in [Threads -> Recs] /\ ThreadInv' /\ SameTasks /\ w \notin Doing'
  <2>1. th' \in [Threads -> Recs] /\ ThreadInv' /\ SameTasks BY <1>1, <1>2, ThreadGoes
  <2>2. w \notin Doing' BY DEF Goes, Becomes, Doing, At
  <2> QED BY <2>1, <2>2
<1>4. Open' = Open BY SameSets
<1>5. th[w].task \in Tasks /\ d \in Dirs /\ TaskServed(th[w].task) /\ th[w].task.fd \in Fds
  BY <1>1, <1>2 DEF ThreadInv, TaskInv, Tasks
<1> DEFINE f == sockfd[c]
<1>6. c \in Conns /\ c <= accepted /\ f \in Fds /\ f # NoFd BY <1>1, <1>5, HasFd
<1>7. f = th[w].task.fd /\ Exec[f][d] BY <1>1, <1>2, <1>5, <1>6 DEF TaskServed, Serves, ExecInv
<1>8. Exec' = Exec /\ Marked' = Marked
      /\ \A g \in Fds, e \in Dirs : ~(g = f /\ e = d) => Cb'[g][e] = Cb[g][e]
  <2>1. CASE UNCHANGED tracked BY <2>1, SameEntries
  <2>2. CASE SetCallback(f, d, NoCb)
    <3>2. TrackedOK /\ f \in Fds /\ d \in Dirs /\ NoCb \in Socks \cup {NoCb} BY <1>1, <1>5, <1>6, Types
    <3>1. Cb' = [Cb EXCEPT ![f][d] = NoCb]
      <4> HIDE DEF f
      <4> QED BY <2>2, <3>2, SetCallbackView, ZenonT(30)
    <3>3. Exec' = Exec /\ Marked' = Marked
      <4> HIDE DEF f
      <4> QED BY <2>2, <3>2, SetCallbackView
    <3> QED BY <1>1, <1>6, <3>1, <3>3, Types
  <2> QED BY <2>1, <2>2
<1>9. /\ \A e \in Dirs : Waiting'[e] \subseteq Waiting[e]
      /\ \A e \in Dirs, x \in Conns : ~(x = c /\ e = d) => (x \in Waiting'[e] <=> x \in Waiting[e])
      /\ \/ Cb'[f][d] = Cb[f][d] /\ Waiting' = Waiting
         \/ Cb'[f][d] = NoCb /\ c \notin Waiting'[d]
  <2>1. CASE Waiting' = Waiting /\ UNCHANGED tracked BY <2>1, SameEntries
  <2>2. CASE Waiting' = [Waiting EXCEPT ![d] = @ \ {c}] /\ SetCallback(f, d, NoCb)
    <3>4. TrackedOK /\ f \in Fds /\ d \in Dirs /\ NoCb \in Socks \cup {NoCb} BY <1>1, <1>5, <1>6, Types
    <3>1. Cb' = [Cb EXCEPT ![f][d] = NoCb]
      <4> HIDE DEF f
      <4> QED BY <2>2, <3>4, SetCallbackView
    <3>2. \A e \in Dirs : Waiting'[e] = IF e = d THEN Waiting[e] \ {c} ELSE Waiting[e] BY <1>1, <2>2, Types
    <3>3. Cb'[f][d] = NoCb BY <1>1, <1>5, <1>6, <3>1, Types
    <3> QED BY <1>5, <3>2, <3>3
  <2> QED BY <2>1, <2>2
<1>10. SockInv'
  <2>1. \A e \in Dirs : \A x \in Waiting'[e] : sockfd[x] # NoFd BY <1>1, <1>9 DEF SockInv
  <2> QED BY <1>1, <2>1 DEF SockInv, Denotes
<1>11. AcceptedInv' /\ DisconnectInv'
  <2>1. th'[w].pc = l /\ th'[w].s = c /\ \A u \in Threads : u # w => th'[u] = th[u] BY DEF Goes, Becomes
  <2>2. AcceptedInv' BY <1>1, <1>6, <2>1 DEF AcceptedInv
  <2>3. DisconnectInv' BY <1>1, <1>9, <2>1 DEF DisconnectInv
  <2> QED BY <2>2, <2>3
<1>12. TrackInv'
  <2>1. ASSUME NEW g \in Fds, NEW e \in Dirs, Cb'[g][e] \in Conns
        PROVE  /\ Cb'[g][e] <= accepted /\ sockfd[Cb'[g][e]] \in {g, NoFd}
               /\ Cb'[g][e] \in connected => Cb'[g][e] \in Waiting'[e]
    <3>1. Cb'[g][e] = Cb[g][e] BY <1>8, <1>9, <2>1, Kinds
    <3>2. Serves(Cb[g][e], g, e) BY <1>1, <2>1, <3>1 DEF TrackInv
    <3>3. CASE Cb[g][e] = c /\ e = d
      <4>1. g = f BY <1>6, <3>2, <3>3 DEF Serves
      <4>2. Cb'[f][d] # NoCb BY <2>1, <3>3, <4>1, Kinds
      <4> QED BY <1>9, <3>1, <3>2, <3>3, <4>2 DEF Serves
    <3>4. CASE ~(Cb[g][e] = c /\ e = d) BY <1>9, <2>1, <3>1, <3>2, <3>4 DEF Serves
    <3> QED BY <3>3, <3>4
  <2> QED BY <2>1 DEF TrackInv, Serves
<1>13. ExecInv' /\ PollInv' BY <1>1, <1>3, <1>8, ExecStays
<1>14. ASSUME NEW k \in Tasks, TaskServed(k), ~(k.fd = f /\ k.dir = d)
       PROVE  k.cb \in Conns => /\ k.cb <= accepted /\ sockfd[k.cb] \in {k.fd, NoFd}
                                /\ k.cb \in connected => k.cb \in Waiting'[k.dir]
  <2>1. k.fd \in Fds /\ k.dir \in Dirs BY DEF Tasks
  <2>2. k.cb \in Conns => ~(k.cb = c /\ k.dir = d) BY <1>6, <1>14 DEF TaskServed, Serves
  <2> QED BY <1>9, <1>14, <2>1, <2>2 DEF TaskServed, Serves
<1>15. ASSUME NEW i \in 1..Len(tasks)
       PROVE  tasks[i] \in Tasks /\ TaskServed(tasks[i]) /\ ~(tasks[i].fd = f /\ tasks[i].dir = d)
  <2>1. tasks[i] \in Tasks /\ TaskServed(tasks[i]) BY <1>1, Types DEF TaskInv
  <2>2. ~(tasks[i].fd = f /\ tasks[i].dir = d) BY <1>1, <1>2, <1>7 DEF ExecInv
  <2> QED BY <2>1, <2>2
<1>16. ASSUME NEW v \in Doing'
       PROVE  /\ v \in Doing /\ th'[v].task = th[v].task /\ th[v].task \in Tasks /\ TaskServed(th[v].task)
              /\ ~(th[v].task.fd = f /\ th[v].task.dir = d)
  <2>1. v \in Doing /\ v # w /\ v \in Running /\ v \in Workers /\ th'[v].task = th[v].task
    BY <1>3 DEF SameTasks, Doing, Running, At
  <2>2. th[v].task \in Tasks /\ TaskServed(th[v].task) BY <1>1, <2>1 DEF ThreadInv, TaskInv
  <2>3. ~(th[v].task.fd = f /\ th[v].task.dir = d) BY <1>1, <1>2, <1>7, <2>1 DEF ExecInv
  <2> QED BY <2>1, <2>2, <2>3
<1>17. TaskInv'
  <2>1. \A i \in 1..Len(tasks) : TaskServed(tasks[i])' BY <1>14, <1>15 DEF TaskServed, Serves
  <2>2. \A v \in Doing' : TaskServed(th[v].task)' BY <1>14, <1>16 DEF TaskServed, Serves
  <2> QED BY <2>1, <2>2 DEF TaskInv
<1>18. ASSUME NotClosing' PROVE OwnInv'
  <2>1. OwnInv BY <1>18, Parts DEF NotClosing
  <2>2. th'[w].pc = l /\ th'[w].s = c /\ \A u \in Threads : u # w => th'[u] = th[u] BY DEF Goes, Becomes
  <2>3. ASSUME NEW u \in Threads PROVE Spares(u)'
    <3>1. CASE u # w BY <2>1, <2>2, <3>1 DEF OwnInv, Spares, Harmless, FdRead, Denotes
    <3>2. CASE u = w
      <4>1. l = "disconnect" => Harmless(f, c) BY <2>1 DEF OwnInv, Open, Harmless, Goes, Follows
      <4> QED BY <2>2, <3>2, <4>1 DEF Spares, Harmless, Denotes
    <3> QED BY <3>1, <3>2
  <2>4. \A e \in Dirs : Waiting'[e] \subseteq Open BY <1>9, <2>1 DEF OwnInv
  <2> QED BY <1>4, <2>1, <2>3, <2>4 DEF OwnInv
<1>19. ASSUME NotKept' PROVE KnownInv'
  <2>1. KnownInv /\ OwnInv BY <1>19, Parts DEF NotKept
  <2>2. ASSUME NEW x \in connected, NEW e \in Dirs, x \in Waiting'[e] PROVE Cb'[sockfd[x]][e] = x
    <3>1. x \in Waiting[e] /\ Cb[sockfd[x]][e] = x BY <1>9, <2>1, <2>2 DEF KnownInv
    <3>2. x \in Open /\ c \in Open BY <1>5, <2>1 DEF OwnInv
    <3>3. sockfd[x] \in Fds /\ (sockfd[x] = f => x = c) BY <1>1, <3>2, OpenHasFd
    <3>4. CASE sockfd[x] = f /\ e = d BY <1>9, <2>2, <3>1, <3>3, <3>4
    <3>5. CASE ~(sockfd[x] = f /\ e = d) BY <1>8, <3>1, <3>3, <3>5
    <3> QED BY <3>4, <3>5
  <2> QED BY <1>8, <2>1, <2>2 DEF KnownInv
<1>20. ASSUME Fresh' PROVE InputInv'
  <2>1. InputInv /\ NotClosing BY <1>20, Parts DEF Fresh
  <2>2. ASSUME NEW g, NEW e, Fed(g), e = "rd", ~(g = f /\ e = d)
        PROVE  \A x \in Open : sockfd[x] = g => x \in HasInput'
    BY <2>1, <2>2 DEF Fed
  <2>3. \A i \in 1..Len(tasks) : tasks[i].dir = "rd" => Fed(tasks[i].fd)'
    BY <1>4, <1>15, <2>1, <2>2 DEF InputInv, Fed
  <2>4. \A v \in Doing' : th'[v].task.dir = "rd" => Fed(th[v].task.fd)'
    BY <1>4, <1>16, <2>1, <2>2 DEF InputInv, Fed
  <2>5. \A p \in poll.ready : p[2] = "rd" => Fed(p[1])'
    BY <1>1, <1>4, <1>7, <2>1, <2>2 DEF InputInv, Fed, PollInv
  <2> QED BY <2>3, <2>4, <2>5, <1>16 DEF InputInv, Fed
<1> QED BY <1>3, <1>10, <1>11, <1>12, <1>13, <1>17, <1>18, <1>19, <1>20 DEF TcpInv, BaseInv

(* do_read() *)
LEMMA DoReadStep ==
  ASSUME TcpInv, NEW w \in Workers, DoRead(w)
  PROVE  TcpInv'
<1> DEFINE c == Me(w)
           l == IF RecvSucceeds(c) THEN "answer" ELSE Disconnecting(w, c)
<1>1. /\ th[w].pc = "do" /\ th[w].task.dir = "rd" /\ reads[c] > 0 /\ Recv(c)
      /\ reads' = [reads EXCEPT ![c] = @ - 1] /\ writes' = writes
      /\ IF reads[c] = 1 THEN SetCallback(sockfd[c], "rd", NoCb) ELSE UNCHANGED <<tracked, pipe>>
      /\ th' = [th EXCEPT ![w].pc = l, ![w].s = c]
      /\ UNCHANGED <<sockfd, poll, tasks, poll_stop, connected, bound, serverVars>>
  BY DEF DoRead, At
<1>2. w \in Threads BY DEF Threads
<1>3. TypeOK /\ SockInv /\ AcceptedInv /\ ThreadInv BY Parts
<1>4. c \in Conns BY <1>1, <1>3 DEF ThreadInv
<1>5. c \in Waiting["rd"] /\ reads' \in [Conns -> Nat]
      /\ Waiting' = IF reads[c] = 1 THEN [Waiting EXCEPT !["rd"] = @ \ {c}] ELSE Waiting
  BY <1>1, <1>3, <1>4, WaitingView
<1>7. c \in Socks /\ c <= accepted /\ sockfd[c] \in Fds BY <1>3, <1>5, HasFd DEF Dirs
<1>9. /\ unread' \in [Conns -> Nat] /\ UNCHANGED <<kfd, arrived, accepted, steps, eof, reused>>
      /\ \A x \in Conns : x # Denotes(sockfd[c]) => unread'[x] = unread[x]
  BY <1>1, <1>3 DEF Recv, TypeOK, SocketsTypeOK
<1>10. NotClosing => HasInput \ {c} \subseteq HasInput'
  <2>1. NotClosing => Denotes(sockfd[c]) = c BY <1>5, Parts DEF OwnInv, Open, Dirs
  <2> QED BY <1>9, <2>1 DEF HasInput
<1>11. SocketsTypeOK' BY <1>1, <1>3, <1>9 DEF TypeOK, SocketsTypeOK
<1>12. l \in Places /\ l \in {"answer", "disconnect", "next", "epilogue"}
      /\ (l = "disconnect" => c \in connected)
  BY DEF Places, Disconnecting, Returned
<1>13. Becomes(w, l, th[w].task, c, th[w].i) /\ Goes(w, l, c, th[w].i)
  <2> HIDE DEF c, l
  <2>1. Becomes(w, l, th[w].task, c, th[w].i) BY <1>1, <1>2, <1>7, <1>12, Fields, Updates
  <2>2. th[w].task.cb \in Conns BY <1>4 DEF c, Me
  <2> QED BY <1>1, <1>2, <1>7, <1>12, <2>1, <2>2, Fields DEF Goes, Follows
<1>14. TrackedOK' /\ pipe' \in BOOLEAN
  <2>1. CASE reads[c] = 1
    <3>1. SetCallback(sockfd[c], "rd", NoCb) /\ "rd" \in Dirs /\ NoCb \in Socks \cup {NoCb}
      BY <1>1, <2>1 DEF Dirs
    <3> HIDE DEF c
    <3>2. TrackedOK' /\ pipe' = TRUE BY <1>3, <1>7, <3>1, Types, SetCallbackView
    <3> QED BY <3>2
  <2>2. CASE reads[c] # 1
    <3>1. UNCHANGED <<tracked, pipe>> BY <1>1, <2>2
    <3> QED BY <1>3, <3>1, OtherTypes, SameEntries, Types
  <2> QED BY <2>1, <2>2
<1>15. Others BY <1>1, <1>14, OtherTypes DEF Others, serverVars
<1>16. TypeOK' BY <1>1, <1>3, <1>5, <1>11, <1>13, <1>14, <1>15, PartTypes, NextTypes DEF Becomes
<1>17. \/ Waiting' = Waiting /\ UNCHANGED tracked
       \/ Waiting' = [Waiting EXCEPT !["rd"] = @ \ {c}] /\ SetCallback(sockfd[c], "rd", NoCb)
  BY <1>1, <1>5
<1>18. c = th[w].task.cb BY DEF Me
<1> HIDE DEF c, l
<1> QED BY <1>1, <1>5, <1>9, <1>10, <1>12, <1>13, <1>16, <1>17, <1>18, Does DEF serverVars

(* do_write() *)
LEMMA DoWriteStep ==
  ASSUME TcpInv, NEW w \in Workers, DoWrite(w)
  PROVE  TcpInv'
<1> DEFINE c == Me(w)
<1>1. /\ th[w].pc = "do" /\ th[w].task.dir = "wr" /\ writes[c] # <<>>
      /\ writes' = [writes EXCEPT ![c] = Tail(@)] /\ reads' = reads
      /\ IF Len(writes[c]) = 1 THEN SetCallback(sockfd[c], "wr", NoCb) ELSE UNCHANGED <<tracked, pipe>>
      /\ UNCHANGED <<sockVars, poll, tasks, poll_stop, connected, bound, serverVars>>
  BY DEF DoWrite, At
<1>2. PICK l \in {"epilogue", Disconnecting(w, c)} : th' = [th EXCEPT ![w].s = c, ![w].pc = l]
  BY DEF DoWrite
<1>3. TypeOK /\ SockInv /\ AcceptedInv /\ ThreadInv /\ w \in Threads BY Parts DEF Threads
<1>4. c \in Conns BY <1>1, <1>3 DEF ThreadInv
<1>5. c \in Waiting["wr"] /\ writes' \in [Conns -> Seq({"result", "error"})]
      /\ Waiting' = IF Len(writes[c]) = 1 THEN [Waiting EXCEPT !["wr"] = @ \ {c}] ELSE Waiting
  BY <1>1, <1>3, <1>4, WaitingView
<1>7. c \in Socks /\ c <= accepted /\ sockfd[c] \in Fds BY <1>3, <1>5, HasFd DEF Dirs
<1>8. HasInput' = HasInput /\ UNCHANGED <<kfd, sockfd, accepted, reused>> BY <1>1, SameSets DEF sockVars, kernelVars
<1>12. l \in Places /\ l \in {"disconnect", "next", "epilogue"}
      /\ (l = "disconnect" => c \in connected)
  BY <1>2 DEF Places, Disconnecting, Returned
<1>13. Becomes(w, l, th[w].task, c, th[w].i) /\ Goes(w, l, c, th[w].i)
  <2> HIDE DEF c
  <2>1. Becomes(w, l, th[w].task, c, th[w].i) BY <1>2, <1>3, <1>7, <1>12, Fields, Updates
  <2> QED BY <1>1, <1>3, <1>7, <1>12, <2>1, Fields DEF Goes, Follows
<1>14. TrackedOK' /\ pipe' \in BOOLEAN
  <2>1. CASE Len(writes[c]) = 1
    <3>1. SetCallback(sockfd[c], "wr", NoCb) /\ "wr" \in Dirs /\ NoCb \in Socks \cup {NoCb}
      BY <1>1, <2>1 DEF Dirs
    <3> HIDE DEF c
    <3>2. TrackedOK' /\ pipe' = TRUE BY <1>3, <1>7, <3>1, Types, SetCallbackView
    <3> QED BY <3>2
  <2>2. CASE Len(writes[c]) # 1
    <3>1. UNCHANGED <<tracked, pipe>> BY <1>1, <2>2
    <3> QED BY <1>3, <3>1, OtherTypes, SameEntries, Types
  <2> QED BY <2>1, <2>2
<1>15. Others BY <1>1, <1>14, OtherTypes DEF Others, serverVars
<1>16. TypeOK' BY <1>1, <1>3, <1>5, <1>13, <1>14, <1>15, PartTypes, NextTypes DEF Becomes
<1>17. \/ Waiting' = Waiting /\ UNCHANGED tracked
       \/ Waiting' = [Waiting EXCEPT !["wr"] = @ \ {c}] /\ SetCallback(sockfd[c], "wr", NoCb)
  BY <1>1, <1>5
<1>18. c = th[w].task.cb BY DEF Me
<1> HIDE DEF c
<1> QED BY <1>1, <1>5, <1>8, <1>12, <1>13, <1>16, <1>17, <1>18, Does DEF serverVars

(* async_read() and async_write(), of a client that may be disconnected *)
LEMMA AsyncSteps ==
  ASSUME TcpInv, NEW t \in Threads, NEW l, NEW c \in Conns, NEW x \in {"result", "error"},
         Goto(t, l), Goes(t, l, th[t].s, th[t].i),
         l \notin {"clear", "unregister", "close", "reset"},
         AsyncRead(c) \/ AsyncWrite(c, x),
         UNCHANGED <<sockVars, poll, tasks, poll_stop, serverVars>>
  PROVE  TcpInv'
<1>1. TypeOK /\ SockInv /\ AcceptedInv BY Parts
<1>2. UNCHANGED <<connected, bound>> BY DEF AsyncRead, AsyncWrite
<1>3. th[t].s <= accepted /\ th' \in [Threads -> Recs] BY Fields DEF Goes, Becomes
<1>4. CASE c \notin connected
  <2>1. UNCHANGED <<tracked, pipe, reads, writes>> BY <1>4 DEF AsyncRead, AsyncWrite
  <2>2. Moving BY <1>2, <2>1, OtherTypes DEF Moving, Others, serverVars
  <2> QED BY <1>3, <2>2, Moves DEF Moving
<1>5. CASE c \in connected
  <2>1. sockfd[c] \in Fds /\ c \in Socks \cup {NoCb} BY <1>1, <1>5, HasFd
  <2>2. PICK d \in Dirs : /\ SetCallback(sockfd[c], d, c) /\ Waiting' = [Waiting EXCEPT ![d] = @ \cup {c}]
                          /\ reads' \in [Conns -> Nat] /\ writes' \in [Conns -> Seq({"result", "error"})]
    <3>1. reads \in [Conns -> Nat] /\ writes \in [Conns -> Seq({"result", "error"})] BY <1>1, PartTypes
    <3>2. CASE AsyncRead(c)
      <4>1. SetCallback(sockfd[c], "rd", c) /\ reads' = [reads EXCEPT ![c] = @ + 1] /\ writes' = writes
        BY <1>5, <3>2 DEF AsyncRead
      <4>2. Waiting' = [Waiting EXCEPT !["rd"] = @ \cup {c}] /\ reads' \in [Conns -> Nat]
        BY <1>1, <4>1, WaitingView
      <4> QED BY <3>1, <4>1, <4>2 DEF Dirs
    <3>3. CASE AsyncWrite(c, x)
      <4>1. SetCallback(sockfd[c], "wr", c) /\ writes' = [writes EXCEPT ![c] = Append(@, x)] /\ reads' = reads
        BY <1>5, <3>3 DEF AsyncWrite
      <4>2. Waiting' = [Waiting EXCEPT !["wr"] = @ \cup {c}] /\ writes' \in [Conns -> Seq({"result", "error"})]
        BY <1>1, <4>1, WaitingView
      <4> QED BY <3>1, <4>1, <4>2 DEF Dirs
    <3> QED BY <3>2, <3>3
  <2>3. TrackedOK BY <1>1, Types
  <2>4. TrackedOK' /\ pipe' = TRUE BY <2>1, <2>2, <2>3, SetCallbackView
  <2>5. Others BY <1>2, <2>4, OtherTypes DEF Others, serverVars
  <2>6. SocketsTypeOK' BY <1>1, PartTypes
  <2>7. TypeOK' BY <1>1, <1>2, <1>3, <2>2, <2>4, <2>5, <2>6, PartTypes, NextTypes
  <2>8. UNCHANGED <<sockVars, poll, tasks, connected, clients>> BY <1>2 DEF serverVars
  <2> QED BY <1>3, <1>5, <2>2, <2>7, <2>8, Asks
<1> QED BY <1>4, <1>5

(* A thread goes on to place l. *)
LEMMA GotoGoes ==
  ASSUME TcpInv, NEW t \in Threads, NEW l \in Places, Goto(t, l), th[t].pc # "idle",
         l \notin {"idle", "do", "disconnect", "clear", "unregister", "close"},
         t \in Workers /\ l \in {"answer", "read_again"} => th[t].task.cb \in Conns,
         l \in {"new_client", "bind", "append"} => th[t].s \in Conns
  PROVE  Goes(t, l, th[t].s, th[t].i)
<1>1. Becomes(t, l, th[t].task, th[t].s, th[t].i) BY Fields, Updates DEF Goto
<1> QED BY <1>1, Fields DEF Goes, Follows

(* The callback of a client's request *)
LEMMA AnswerStep ==
  ASSUME TcpInv, NEW w \in Workers, Answer(w)
  PROVE  TcpInv'
<1>1. w \in Threads /\ th[w].pc = "answer" BY DEF Threads, Answer, At
<1>2. Me(w) \in Conns /\ th[w].task.cb \in Conns BY <1>1, Parts DEF ThreadInv, Me
<1>3. PICK x \in {"result", "error"}, l \in {"read_again", "epilogue"} : AsyncWrite(Me(w), x) /\ Goto(w, l)
  BY DEF Answer
<1>4. Goes(w, l, th[w].s, th[w].i) BY <1>1, <1>2, <1>3, GotoGoes DEF Places
<1>5. UNCHANGED <<sockVars, poll, tasks, poll_stop, serverVars>> BY DEF Answer
<1> QED BY <1>1, <1>2, <1>3, <1>4, <1>5, AsyncSteps

(* and its next read *)
LEMMA ReadAgainStep ==
  ASSUME TcpInv, NEW w \in Workers, ReadAgain(w)
  PROVE  TcpInv'
<1>1. w \in Threads /\ th[w].pc = "read_again" BY DEF Threads, ReadAgain, At
<1>2. Me(w) \in Conns /\ th[w].task.cb \in Conns BY <1>1, Parts DEF ThreadInv, Me
<1>3. AsyncRead(Me(w)) /\ Goto(w, "epilogue") BY DEF ReadAgain
<1>4. Goes(w, "epilogue", th[w].s, th[w].i) BY <1>1, <1>3, GotoGoes DEF Places
<1>5. UNCHANGED <<sockVars, poll, tasks, poll_stop, serverVars>> BY DEF ReadAgain
<1> QED BY <1>1, <1>2, <1>3, <1>4, <1>5, AsyncSteps

(* on_new_connection_cb_ *)
LEMMA NewClientStep ==
  ASSUME TcpInv, NEW w \in Workers, NewClient(w)
  PROVE  TcpInv'
<1>1. w \in Threads /\ th[w].pc = "new_client" BY DEF Threads, NewClient, At
<1>2. th[w].s \in Conns BY <1>1, Parts DEF ThreadInv
<1>3. Goto(w, "bind") /\ UNCHANGED <<sockVars, poll, tasks, poll_stop, serverVars>> BY DEF NewClient
<1>4. Goes(w, "bind", th[w].s, th[w].i) BY <1>1, <1>2, <1>3, GotoGoes DEF Places
<1>5. CASE new_cb
  <2>1. AsyncRead(th[w].s) BY <1>5 DEF NewClient
  <2> QED BY <1>1, <1>2, <1>3, <1>4, <2>1, AsyncSteps
<1>6. CASE ~new_cb
  <2>1. UNCHANGED <<tracked, pipe, connected, reads, writes, bound>> BY <1>6 DEF NewClient, clientVars
  <2>2. Moving BY <1>3, <2>1, OtherTypes DEF Moving, Others, serverVars
  <2> QED BY <1>1, <1>4, <2>2, Fields, Moves DEF Moving
<1> QED BY <1>5, <1>6

-----------------------------------------------------------------------------
(* disconnect().                                                           *)

(* A thread reads the fd_ of its client on the way. *)
ReadsFd(t, l) == th' = [th EXCEPT ![t].pc = l, ![t].fd = sockfd[th[t].s]]

(* A thread goes on disconnecting its client. *)
LEMMA DisconnectGoes ==
  ASSUME TcpInv, NEW t \in Threads
  PROVE  /\ Goto(t, "clear") /\ th[t].pc = "disconnect" => Goes(t, "clear", th[t].s, th[t].i)
         /\ \A l \in {"unregister", "close"} :
              ReadsFd(t, l) /\ th[t].pc \in {"clear", "unregister"} => Goes(t, l, th[t].s, th[t].i)
         /\ th' = [th EXCEPT ![t].pc = "reset", ![t].fd = NoFd] /\ th[t].pc = "close"
              => Goes(t, "reset", th[t].s, th[t].i)
<1> DEFINE f == sockfd[th[t].s]
<1>1. TypeOK BY Parts
<1>2. f \in Fds \cup {NoFd} BY <1>1, Fields, Types
<1>3. ASSUME Goto(t, "clear"), th[t].pc = "disconnect" PROVE Goes(t, "clear", th[t].s, th[t].i)
  <2> DEFINE l == "clear"
  <2>1. l \in Places /\ Goto(t, l) BY <1>3 DEF Places
  <2> HIDE DEF l
  <2>2. Becomes(t, l, th[t].task, th[t].s, th[t].i) BY <2>1, Fields, Updates DEF Goto
  <2> QED BY <1>3, <2>1, <2>2, Fields DEF Goes, Follows, l
<1>4. ASSUME NEW l \in {"unregister", "close"}, ReadsFd(t, l),
             th[t].pc \in {"clear", "unregister"}
      PROVE  Goes(t, l, th[t].s, th[t].i)
  <2>1. l \in Places BY DEF Places
  <2>2. f \in Fds \cup {NoFd} /\ th' = [th EXCEPT ![t].pc = l, ![t].fd = f] BY <1>2, <1>4 DEF ReadsFd
  <2> HIDE DEF f
  <2>3. Becomes(t, l, th[t].task, th[t].s, th[t].i) /\ th'[t].fd = f
    BY <2>1, <2>2, Fields, FdUpdates
  <2> QED BY <1>4, <2>1, <2>3, Fields DEF Goes, Follows, f
<1>5. ASSUME th' = [th EXCEPT ![t].pc = "reset", ![t].fd = NoFd], th[t].pc = "close"
      PROVE  Goes(t, "reset", th[t].s, th[t].i)
  <2> DEFINE l == "reset"  g == NoFd
  <2>1. l \in Places /\ g \in Fds \cup {NoFd} /\ th' = [th EXCEPT ![t].pc = l, ![t].fd = g]
    BY <1>5 DEF Places
  <2> HIDE DEF l, g
  <2>2. Becomes(t, l, th[t].task, th[t].s, th[t].i) BY <2>1, Fields, FdUpdates
  <2> QED BY <1>5, <2>1, <2>2, Fields DEF Goes, Follows, l
<1> QED BY <1>3, <1>4, <1>5

(* is_connected_ = false *)
LEMMA DisconnectFlagStep ==
  ASSUME TcpInv, NEW t \in Threads, Disconnect(t)
  PROVE  TcpInv'
<1> DEFINE c == th[t].s
<1>1. /\ th[t].pc = "disconnect" /\ connected' = connected \ {c} /\ Goto(t, "clear")
      /\ UNCHANGED <<sockVars, reactorVars, reads, writes, bound, serverVars>>
  BY DEF Disconnect, At
<1>2. TypeOK /\ SockInv BY Parts
<1>3. Goes(t, "clear", c, th[t].i) BY <1>1, DisconnectGoes
<1>4. /\ Open' = Open /\ HasInput' = HasInput /\ Waiting' = Waiting
      /\ Cb' = Cb /\ Exec' = Exec /\ Marked' = Marked
      /\ UNCHANGED <<kfd, sockfd, accepted, reused, poll, tasks, clients>>
  BY <1>1, SameSets DEF sockVars, kernelVars, reactorVars, serverVars
<1>5. Settled BY <1>1, <1>4 DEF Settled
<1>6. TypeOK'
  <2>1. th' \in [Threads -> Recs] BY <1>3 DEF Goes, Becomes
  <2>2. Others BY <1>1, OtherTypes DEF Others, serverVars, reactorVars
  <2>3. TrackedOK' BY <1>1, <1>2, Types, SameEntries DEF reactorVars
  <2>4. SocketsTypeOK' BY <1>1, <1>2, PartTypes
  <2> QED BY <1>1, <1>2, <2>1, <2>2, <2>3, <2>4, PartTypes, NextTypes DEF reactorVars
<1>7. Leaves("clear", c) /\ c <= accepted BY <1>1, Fields DEF Leaves
<1>8. SockInv' BY <1>2, <1>4, <1>5, SockStays
<1>9. TrackInv' BY <1>4, <1>5, TrackStays, Parts
<1>10. NotClosing' => connected' \subseteq Open' /\ \A d \in Dirs : Waiting'[d] \subseteq Open'
  BY <1>1, <1>4, Parts DEF NotClosing, OwnInv
<1>11. NotKept' => KnownInv'
  <2>1. NotKept' => KnownInv BY <1>4, Parts DEF NotKept
  <2> QED BY <1>4, <1>5, <2>1, KnownStays
<1>12. \A i \in 1..Len(clients') : clients'[i] <= accepted BY <1>4, OtherTypes
<1> HIDE DEF c
<1> QED BY <1>3, <1>5, <1>6, <1>7, <1>8, <1>9, <1>10, <1>11, <1>12, Settles

(* The queues of requests are emptied. *)
LEMMA ClearReqsStep ==
  ASSUME TcpInv, NEW t \in Threads, ClearReqs(t)
  PROVE  TcpInv'
<1> DEFINE c == th[t].s
<1>1. /\ th[t].pc = "clear" /\ th' = [th EXCEPT ![t].pc = "unregister", ![t].fd = sockfd[c]]
      /\ reads' = [reads EXCEPT ![c] = 0] /\ writes' = [writes EXCEPT ![c] = <<>>]
      /\ UNCHANGED <<sockVars, reactorVars, connected, bound, serverVars>>
  BY DEF ClearReqs, At
<1>2. TypeOK /\ SockInv /\ DisconnectInv BY Parts
<1>3. Goes(t, "unregister", c, th[t].i)
  <2>1. ReadsFd(t, "unregister") BY <1>1 DEF ReadsFd
  <2> QED BY <1>1, <2>1, DisconnectGoes
<1>4. /\ Open' = Open /\ HasInput' = HasInput
      /\ Cb' = Cb /\ Exec' = Exec /\ Marked' = Marked
      /\ UNCHANGED <<kfd, sockfd, accepted, reused, poll, tasks, connected, clients>>
  BY <1>1, SameSets DEF sockVars, kernelVars, reactorVars, serverVars
<1>6. reads' \in [Conns -> Nat] /\ writes' \in [Conns -> Seq({"result", "error"})]
      /\ \A d \in Dirs : Waiting'[d] = Waiting[d] \ {c}
  <2>1. reads \in [Conns -> Nat] /\ writes \in [Conns -> Seq({"result", "error"})] BY <1>2, PartTypes
  <2>2. \A x \in Conns : /\ reads'[x] = IF x = c THEN 0 ELSE reads[x]
                         /\ writes'[x] = IF x = c THEN <<>> ELSE writes[x]
    BY <1>1, <2>1
  <2>3. <<>> \in Seq({"result", "error"}) OBVIOUS
  <2>4. reads' \in [Conns -> Nat] /\ writes' \in [Conns -> Seq({"result", "error"})]
    BY <1>1, <2>1, <2>3
  <2>5. ASSUME NEW d \in Dirs PROVE Waiting'[d] = Waiting[d] \ {c}
    BY <2>1, <2>2 DEF Waiting, Pending
  <2> QED BY <2>4, <2>5
<1>7. TypeOK'
  <2>1. th' \in [Threads -> Recs] BY <1>3 DEF Goes, Becomes
  <2>2. Others BY <1>1, OtherTypes DEF Others, serverVars, reactorVars
  <2>3. TrackedOK' BY <1>1, <1>2, Types, SameEntries DEF reactorVars
  <2>4. SocketsTypeOK' BY <1>1, <1>2, PartTypes
  <2> QED BY <1>1, <1>2, <1>6, <2>1, <2>2, <2>3, <2>4, PartTypes, NextTypes DEF reactorVars
<1>8. c \notin connected /\ c <= accepted BY <1>1, <1>2, Fields DEF DisconnectInv
<1>5. Settled BY <1>4, <1>6, <1>8 DEF Settled
<1>9. Leaves("unregister", c) BY <1>4, <1>6, <1>8 DEF Leaves
<1>10. SockInv' BY <1>2, <1>4, <1>5, SockStays
<1>11. TrackInv' BY <1>4, <1>5, TrackStays, Parts
<1>12. NotClosing' => connected' \subseteq Open' /\ \A d \in Dirs : Waiting'[d] \subseteq Open'
  BY <1>4, <1>6, Parts DEF NotClosing, OwnInv
<1>13. NotKept' => KnownInv'
  <2>1. NotKept' => KnownInv BY <1>4, Parts DEF NotKept
  <2>2. \A x \in connected', d \in Dirs : x \in Waiting'[d] => x \in Waiting[d] BY <1>6
  <2> QED BY <1>4, <1>5, <2>1, <2>2, KnownStays
<1>14. \A i \in 1..Len(clients') : clients'[i] <= accepted BY <1>4, OtherTypes
<1> HIDE DEF c
<1> QED BY <1>3, <1>5, <1>7, <1>8, <1>9, <1>10, <1>11, <1>12, <1>13, <1>14, Settles

(* What a thread is about to unregister or close is nobody else's. *)
LEMMA SparesOthers ==
  ASSUME TcpInv, NotClosing, NEW t \in Threads, th[t].pc \in {"unregister", "close"}, NEW f \in FdRead(t)
  PROVE  \A x \in connected : sockfd[x] # f /\ x \in Open
<1>1. TypeOK /\ DisconnectInv /\ OwnInv BY Parts
<1>2. ASSUME NEW x \in connected PROVE sockfd[x] # f /\ x \in Open
  <2>1. x \in Open /\ x # th[t].s BY <1>1 DEF OwnInv, DisconnectInv
  <2>2. Harmless(f, th[t].s) BY <1>1 DEF OwnInv, Spares
  <2> QED BY <2>1, <2>2, <1>1, OpenHasFd DEF Harmless, Denotes
<1> QED BY <1>2

(* unregister_fd() *)
LEMMA UnregisterFdStep ==
  ASSUME TcpInv, NEW t \in Threads, UnregisterFd(t)
  PROVE  TcpInv'
<1> DEFINE c == th[t].s
<1>1. /\ th[t].pc = "unregister" /\ th' = [th EXCEPT ![t].pc = "close", ![t].fd = sockfd[c]]
      /\ UNCHANGED <<sockVars, poll, tasks, poll_stop, clientVars, serverVars>>
  BY DEF UnregisterFd, At
<1>0. PICK f \in FdRead(t) : Unregister(f) BY DEF UnregisterFd
<1>2. TypeOK /\ SockInv /\ DisconnectInv BY Parts
<1>3. Goes(t, "close", c, th[t].i)
  <2>1. ReadsFd(t, "close") BY <1>1 DEF ReadsFd
  <2> QED BY <1>1, <2>1, DisconnectGoes
<1>4. /\ Open' = Open /\ HasInput' = HasInput /\ Waiting' = Waiting
      /\ UNCHANGED <<kfd, sockfd, accepted, reused, poll, tasks, connected, clients>>
  BY <1>1, SameSets DEF sockVars, kernelVars, clientVars, serverVars
<1>6. c \in Socks /\ c \notin connected /\ c <= accepted /\ \A d \in Dirs : c \notin Waiting[d]
  BY <1>1, <1>2, Fields DEF DisconnectInv
<1>7. f \in Fds \cup {NoFd} BY <1>2, <1>6, Types, ThreadFields DEF FdRead
<1>8. TrackedOK' /\ Exec' = Exec /\ Weaker(f) /\ pipe' \in {pipe, TRUE}
  <2>1. TrackedOK BY <1>2, Types
  <2> QED BY <1>0, <1>7, <2>1, UnregisterView
<1>9. TypeOK'
  <2>1. th' \in [Threads -> Recs] BY <1>3 DEF Goes, Becomes
  <2>2. Others BY <1>1, <1>8, OtherTypes DEF Others, serverVars, clientVars
  <2>4. SocketsTypeOK' BY <1>1, <1>2, PartTypes
  <2> QED BY <1>1, <1>2, <1>8, <2>1, <2>2, <2>4, PartTypes, NextTypes DEF clientVars
<1>10. Settled BY <1>4, <1>8 DEF Settled
<1>11. Leaves("close", c) BY <1>4, <1>6 DEF Leaves
<1>12. SockInv' BY <1>2, <1>4, <1>10, SockStays
<1>13. TrackInv'
  <2>1. \A g \in Fds, d \in Dirs : Cb'[g][d] \in {Cb[g][d], NoCb} BY <1>8 DEF Weaker
  <2> QED BY <1>10, <2>1, TrackStays, Parts
<1>14. NotClosing' => connected' \subseteq Open' /\ \A d \in Dirs : Waiting'[d] \subseteq Open'
  BY <1>4, Parts DEF NotClosing, OwnInv
<1>15. ASSUME NotKept' PROVE KnownInv'
  <2>1. KnownInv /\ NotClosing BY <1>4, <1>15, Parts DEF NotKept
  <2>2. ASSUME NEW x \in connected
        PROVE  Cb'[sockfd[x]] = Cb[sockfd[x]] /\ Marked'[sockfd[x]] = Marked[sockfd[x]]
    <3>1. sockfd[x] # f /\ sockfd[x] \in Fds BY <1>1, <1>2, <2>1, SparesOthers, OpenHasFd
    <3> QED BY <1>8, <3>1 DEF Weaker
  <2> QED BY <1>4, <1>10, <2>1, <2>2, KnownStays
<1>16. \A i \in 1..Len(clients') : clients'[i] <= accepted BY <1>4, OtherTypes
<1> HIDE DEF c
<1> QED BY <1>3, <1>6, <1>9, <1>10, <1>11, <1>12, <1>13, <1>14, <1>15, <1>16, Settles

(* ::close() *)
LEMMA CloseFdStep ==
  ASSUME TcpInv, NEW t \in Threads, CloseFd(t)
  PROVE  TcpInv'
<1> DEFINE c == th[t].s
<1>1. /\ th[t].pc = "close" /\ th' = [th EXCEPT ![t].pc = "reset", ![t].fd = NoFd]
      /\ UNCHANGED <<sockfd, reactorVars, clientVars, serverVars>>
  BY DEF CloseFd, At
<1>0. PICK f \in FdRead(t) : KernelClose(f) BY DEF CloseFd
<1>2. TypeOK /\ SockInv /\ DisconnectInv BY Parts
<1>3. Goes(t, "reset", c, th[t].i) BY <1>1, DisconnectGoes
<1>6. c \in Socks /\ c \notin connected /\ c <= accepted /\ \A d \in Dirs : c \notin Waiting[d]
  BY <1>1, <1>2, Fields DEF DisconnectInv
<1>7. f \in Fds \cup {NoFd} BY <1>2, <1>6, Types, ThreadFields DEF FdRead
<1>8. SocketsTypeOK' /\ UNCHANGED <<accepted, unread, eof, reused>>
      /\ \A g \in Fds : kfd'[g] = IF g = f THEN Closed ELSE kfd[g]
  BY <1>0, <1>1, <1>2, <1>7, Kinds DEF KernelClose, TypeOK, SocketsTypeOK
<1>4. /\ HasInput' = HasInput /\ Waiting' = Waiting
      /\ Cb' = Cb /\ Exec' = Exec /\ Marked' = Marked
      /\ UNCHANGED <<sockfd, accepted, reused, poll, tasks, connected, clients>>
  BY <1>1, <1>8, SameSets DEF reactorVars, clientVars, serverVars
<1>9. TypeOK'
  <2>1. th' \in [Threads -> Recs] BY <1>3 DEF Goes, Becomes
  <2>2. Others BY <1>1, OtherTypes DEF Others, serverVars, reactorVars, clientVars
  <2>3. TrackedOK' BY <1>1, <1>2, Types, SameEntries DEF reactorVars
  <2> QED BY <1>1, <1>2, <1>8, <2>1, <2>2, <2>3, PartTypes, NextTypes DEF reactorVars, clientVars
<1>10. Settled BY <1>4, <1>8, Kinds DEF Settled
<1>11. Leaves("reset", c) BY <1>4, <1>6 DEF Leaves
<1>12. SockInv' BY <1>2, <1>4, <1>8, <1>10, SockStays
<1>13. TrackInv' BY <1>4, <1>10, TrackStays, Parts
<1>14. ASSUME NotClosing' PROVE connected' \subseteq Open' /\ \A d \in Dirs : Waiting'[d] \subseteq Open'
  <2>1. OwnInv /\ NotClosing BY <1>4, <1>14, Parts DEF NotClosing
  <2>2. ASSUME NEW x \in Open, x # c PROVE x \in Open'
    <3>1. x \in Conns /\ sockfd[x] \in Fds /\ kfd[sockfd[x]] = x /\ sockfd[x] # NoFd BY <1>2, OpenHasFd
    <3>2. Harmless(f, c) BY <1>1, <2>1 DEF OwnInv, Spares
    <3>3. sockfd[x] # f BY <2>2, <3>1, <3>2 DEF Harmless, Denotes
    <3> QED BY <1>4, <1>8, <3>1, <3>3 DEF Open, Denotes
  <2> QED BY <1>4, <1>6, <2>1, <2>2 DEF OwnInv
<1>15. NotKept' => KnownInv'
  <2>1. NotKept' => KnownInv BY <1>4, Parts DEF NotKept
  <2> QED BY <1>4, <1>10, <2>1, KnownStays
<1>16. \A i \in 1..Len(clients') : clients'[i] <= accepted BY <1>4, OtherTypes
<1> HIDE DEF c
<1> QED BY <1>3, <1>6, <1>9, <1>10, <1>11, <1>12, <1>13, <1>14, <1>15, <1>16, Settles

(* fd_ = -1 *)
LEMMA ResetFdStep ==
  ASSUME TcpInv, NEW t \in Threads, ResetFd(t)
  PROVE  TcpInv'
<1> DEFINE c == th[t].s
<1>1. /\ th[t].pc = "reset" /\ sockfd' = [sockfd EXCEPT ![c] = NoFd]
      /\ UNCHANGED <<kernelVars, reactorVars, clientVars, serverVars>>
  BY DEF ResetFd, At
<1>0. PICK l \in {"lock_all", "wait"} : Goto(t, l) BY DEF ResetFd
<1>2. TypeOK /\ SockInv /\ DisconnectInv BY Parts
<1>3. Goes(t, l, c, th[t].i) BY <1>0, <1>1, GotoGoes DEF Places
<1>6. c \in Socks /\ c \notin connected /\ c <= accepted /\ \A d \in Dirs : c \notin Waiting[d]
  BY <1>1, <1>2, Fields DEF DisconnectInv
<1>4. /\ HasInput' = HasInput /\ Waiting' = Waiting
      /\ Cb' = Cb /\ Exec' = Exec /\ Marked' = Marked
      /\ UNCHANGED <<kfd, accepted, reused, poll, tasks, connected, clients>>
  BY <1>1, SameSets DEF kernelVars, reactorVars, clientVars, serverVars
<1>7. sockfd' \in [Socks -> Fds \cup {NoFd}]
      /\ \A x \in Socks : sockfd'[x] = IF x = c THEN NoFd ELSE sockfd[x]
  BY <1>1, <1>2, <1>6, Types
<1>8. SocketsTypeOK' BY <1>1, <1>2, <1>7 DEF TypeOK, SocketsTypeOK, kernelVars
<1>9. TypeOK'
  <2>1. th' \in [Threads -> Recs] BY <1>3 DEF Goes, Becomes
  <2>2. Others BY <1>1, OtherTypes DEF Others, serverVars, reactorVars, clientVars
  <2>3. TrackedOK' BY <1>1, <1>2, Types, SameEntries DEF reactorVars
  <2> QED BY <1>1, <1>2, <1>8, <2>1, <2>2, <2>3, PartTypes, NextTypes DEF reactorVars, clientVars
<1>10. Settled BY <1>4, <1>7, Kinds DEF Settled
<1>11. Leaves(l, c) BY DEF Leaves
<1>12. SockInv'
  <2>1. \A x \in connected : sockfd'[x] # NoFd
    <3>1. \A x \in connected : x \in Socks /\ x # c BY <1>2, <1>6, Types, Kinds
    <3> QED BY <1>2, <1>7, <3>1 DEF SockInv
  <2>2. \A d \in Dirs : \A x \in Waiting[d] : sockfd'[x] # NoFd
    <3>1. \A d \in Dirs : \A x \in Waiting[d] : x \in Socks /\ x # c BY <1>2, <1>6, Types, Kinds
    <3> QED BY <1>2, <1>7, <3>1 DEF SockInv
  <2>3. Denotes(sockfd[Server])' \notin Conns BY <1>2, <1>4, <1>7, Kinds DEF SockInv, Denotes
  <2> QED BY <1>4, <2>1, <2>2, <2>3 DEF SockInv
<1>13. TrackInv' BY <1>4, <1>10, TrackStays, Parts
<1>14. ASSUME NotClosing' PROVE connected' \subseteq Open' /\ \A d \in Dirs : Waiting'[d] \subseteq Open'
  <2>1. OwnInv BY <1>4, <1>14, Parts DEF NotClosing
  <2>2. ASSUME NEW x \in Open, x # c PROVE x \in Open'
    BY <1>2, <1>4, <1>7, <2>2, OpenHasFd DEF Open, Denotes
  <2> QED BY <1>4, <1>6, <2>1, <2>2 DEF OwnInv
<1>15. NotKept' => KnownInv'
  <2>1. NotKept' => KnownInv BY <1>4, Parts DEF NotKept
  <2>2. \A x \in connected : sockfd'[x] = sockfd[x] BY <1>2, <1>6, <1>7, Types, Kinds
  <2> QED BY <1>4, <1>10, <2>1, <2>2, KnownStays
<1>16. \A i \in 1..Len(clients') : clients'[i] <= accepted BY <1>4, OtherTypes
<1> HIDE DEF c
<1> QED BY <1>3, <1>6, <1>9, <1>10, <1>11, <1>12, <1>13, <1>14, <1>15, <1>16, Settles

-----------------------------------------------------------------------------
(* Callbacks start and end.                                                *)

(* TaskServed and Fed in the next state. *)
StaysServed(k) ==
  k.cb \in Conns => /\ k.cb <= accepted' /\ sockfd'[k.cb] \in {k.fd, NoFd}
                    /\ k.cb \in connected' => k.cb \in Waiting'[k.dir]
StaysFed(f) == \A c \in Open' : sockfd'[c] = f => c \in HasInput'

(* No thread comes to disconnect, and no socket changes. *)
LEMMA OwnSame ==
  ASSUME OwnInv, UNCHANGED <<kfd, sockfd, connected>>, Open' = Open, Waiting' = Waiting,
         \A u \in Threads : th'[u] = th[u] \/ th'[u].pc \in {"idle", "accept", "do"}
  PROVE  OwnInv'
<1>1. ASSUME NEW u \in Threads PROVE Spares(u)'
  <2>1. CASE th'[u] = th[u] BY <2>1 DEF OwnInv, Spares, Harmless, FdRead, Denotes
  <2>2. CASE th'[u].pc \in {"idle", "accept", "do"} BY <2>2 DEF Spares
  <2> QED BY <2>1, <2>2
<1> QED BY <1>1 DEF OwnInv

(* A worker takes a callback from the queue. *)
LEMMA TakeStep ==
  ASSUME TcpInv, NEW w \in Workers, Take(w)
  PROVE  TcpInv'
<1> DEFINE k == Head(tasks)
           l == IF k.cb = Server THEN "accept" ELSE "do"
<1>1. /\ th[w].pc = "idle" /\ tasks # <<>> /\ tasks' = Tail(tasks)
      /\ th' = [th EXCEPT ![w].task = k, ![w].pc = l]
      /\ UNCHANGED <<sockVars, tracked, poll, pipe, poll_stop, clientVars, serverVars>>
  BY DEF Take, At
<1>2. TypeOK /\ ThreadInv /\ SockInv /\ AcceptedInv /\ DisconnectInv /\ TrackInv /\ ExecInv /\ TaskInv /\ PollInv
  BY Parts
<1>3. w \in Threads /\ tasks \in Seq(Tasks) BY <1>2, Types DEF Threads
<1>4. /\ k \in Tasks /\ k = tasks[1] /\ Len(tasks) \in Nat /\ 1 \in 1..Len(tasks)
      /\ tasks' \in Seq(Tasks) /\ Len(tasks') = Len(tasks) - 1
      /\ \A i \in 1..Len(tasks') : i + 1 \in 1..Len(tasks) /\ tasks'[i] = tasks[i + 1]
  <2>1. Len(tasks) \in Nat /\ Len(tasks) # 0 BY <1>1, <1>3, EmptySeq, LenProperties
  <2>2. tasks' \in Seq(Tasks) /\ Len(tasks') = Len(tasks) - 1
        /\ \A i \in 1..Len(tasks') : tasks'[i] = tasks[i + 1]
    BY <1>1, <1>3, HeadTailProperties
  <2>3. k \in Tasks /\ k = tasks[1] BY <1>1, <1>3, <2>1, HeadTailProperties
  <2> QED BY <2>1, <2>2, <2>3
<1>5. l \in Places /\ l \in {"accept", "do"} BY DEF Places
<1>6. Becomes(w, l, k, th[w].s, th[w].i)
  <2> HIDE DEF k, l
  <2> QED BY <1>1, <1>3, <1>4, <1>5, Fields, Updates
<1>7. /\ th' \in [Threads -> Recs] /\ \A u \in Threads : u # w => th'[u] = th[u]
      /\ th'[w].pc = l /\ th'[w].task = k /\ th'[w].s = th[w].s
  BY <1>6 DEF Becomes
<1>8. \A u \in Workers : u \in Threads BY DEF Threads
<1>9. /\ Running' = Running \cup {w} /\ w \notin Running /\ w \notin Doing
      /\ Doing' = IF l = "do" THEN Doing \cup {w} ELSE Doing
  BY <1>1, <1>5, <1>7, <1>8 DEF Running, Doing, At
<1>10. /\ Open' = Open /\ HasInput' = HasInput /\ Waiting' = Waiting
       /\ Cb' = Cb /\ Exec' = Exec /\ Marked' = Marked
       /\ UNCHANGED <<kfd, sockfd, accepted, reused, connected, clients, poll>>
  BY <1>1, SameSets DEF sockVars, kernelVars, clientVars, serverVars
<1>11. TypeOK'
  <2>1. Others BY <1>1, OtherTypes DEF Others, serverVars, clientVars
  <2>2. TrackedOK' BY <1>1, <1>2, Types, SameEntries
  <2>3. SocketsTypeOK' BY <1>1, <1>2, PartTypes
  <2> QED BY <1>1, <1>2, <1>4, <1>7, <2>1, <2>2, <2>3, PartTypes, NextTypes DEF clientVars
<1>12. ThreadInv'
  <2>1. \A u \in Running' : th'[u].task \in Tasks BY <1>2, <1>4, <1>7, <1>8, <1>9 DEF ThreadInv, Running
  <2>2. k.cb = Server \/ k.cb \in Conns BY <1>4 DEF Tasks, Socks
  <2>3. ASSUME NEW u \in Workers, th'[u].pc \in {"do", "answer", "read_again"} PROVE th'[u].task.cb \in Conns
    <3>1. CASE u = w BY <1>7, <2>2, <2>3, <3>1
    <3>2. CASE u # w BY <1>2, <1>7, <1>8, <2>3, <3>2 DEF ThreadInv, Me
    <3> QED BY <3>1, <3>2
  <2>4. ASSUME NEW u \in Workers, th'[u].pc \in {"new_client", "bind", "append"} PROVE th'[u].s \in Conns
    <3>1. CASE u = w BY <1>5, <1>7, <2>4, <3>1
    <3>2. CASE u # w BY <1>2, <1>7, <1>8, <2>4, <3>2 DEF ThreadInv
    <3> QED BY <3>1, <3>2
  <2> QED BY <2>1, <2>3, <2>4 DEF ThreadInv, Me
<1> HIDE DEF k, l
<1>13. SockInv' BY <1>2, <1>10 DEF SockInv, Denotes
<1>14. AcceptedInv' BY <1>2, <1>3, <1>7, <1>10 DEF AcceptedInv
<1>15. DisconnectInv' BY <1>2, <1>5, <1>7, <1>10 DEF DisconnectInv
<1>16. TrackInv' BY <1>2, <1>10 DEF TrackInv, Serves
<1>17. ExecInv'
  <2>1. \A i \in 1..Len(tasks') : Exec[tasks'[i].fd][tasks'[i].dir] BY <1>2, <1>4 DEF ExecInv
  <2>2. ASSUME NEW u \in Running' PROVE Exec[th'[u].task.fd][th'[u].task.dir]
    <3>1. CASE u = w BY <1>2, <1>4, <1>7, <3>1 DEF ExecInv
    <3>2. CASE u # w
      <4>1. u \in Running /\ th'[u] = th[u] BY <1>7, <1>8, <1>9, <3>2 DEF Running
      <4> QED BY <1>2, <4>1 DEF ExecInv
    <3> QED BY <3>1, <3>2
  <2>3. ASSUME NEW i \in 1..Len(tasks'), NEW j \in 1..Len(tasks'), tasks'[i].fd = tasks'[j].fd, tasks'[i].dir = tasks'[j].dir
        PROVE  i = j
    <3>1. i + 1 = j + 1 BY <1>2, <1>4, <2>3 DEF ExecInv
    <3>2. i \in Nat /\ j \in Nat BY <1>4
    <3> QED BY <3>1, <3>2
  <2>4. ASSUME NEW u \in Running, NEW i \in 1..Len(tasks')
        PROVE  ~(tasks'[i].fd = th[u].task.fd /\ tasks'[i].dir = th[u].task.dir)
    BY <1>2, <1>4 DEF ExecInv
  <2>5. ASSUME NEW i \in 1..Len(tasks') PROVE ~(tasks'[i].fd = k.fd /\ tasks'[i].dir = k.dir)
    <3>1. i + 1 \in 1..Len(tasks) /\ i + 1 # 1 /\ tasks'[i] = tasks[i + 1] BY <1>4
    <3> QED BY <1>2, <1>4, <3>1 DEF ExecInv
  <2>6. ASSUME NEW u \in Running PROVE ~(k.fd = th[u].task.fd /\ k.dir = th[u].task.dir)
    BY <1>2, <1>4 DEF ExecInv
  <2>7. \A u \in Running : u # w /\ u \in Threads /\ th'[u] = th[u] BY <1>7, <1>8, <1>9 DEF Running
  <2>8. \A u, v \in Running' :
          th'[u].task.fd = th'[v].task.fd /\ th'[u].task.dir = th'[v].task.dir => u = v
    BY <1>2, <1>7, <1>9, <2>6, <2>7 DEF ExecInv
  <2>9. \A i \in 1..Len(tasks'), u \in Running' :
          ~(tasks'[i].fd = th'[u].task.fd /\ tasks'[i].dir = th'[u].task.dir)
    BY <1>7, <1>9, <2>4, <2>5, <2>7
  <2> QED BY <1>10, <2>1, <2>2, <2>3, <2>8, <2>9 DEF ExecInv
<1>18. \A j : TaskServed(j) => StaysServed(j) BY <1>10 DEF TaskServed, Serves, StaysServed
<1>19. TaskInv'
  <2>1. \A i \in 1..Len(tasks') : StaysServed(tasks'[i]) BY <1>2, <1>4, <1>18 DEF TaskInv
  <2>2. ASSUME NEW u \in Doing' PROVE StaysServed(th'[u].task)
    <3>1. CASE u = w BY <1>2, <1>4, <1>7, <1>18, <3>1 DEF TaskInv
    <3>2. CASE u # w
      <4>1. u \in Doing /\ th'[u] = th[u] BY <1>7, <1>8, <1>9, <3>2 DEF Doing
      <4> QED BY <1>2, <1>18, <4>1 DEF TaskInv
    <3> QED BY <3>1, <3>2
  <2> QED BY <2>1, <2>2 DEF TaskInv, TaskServed, Serves, StaysServed
<1>20. PollInv' BY <1>2, <1>10 DEF PollInv
<1>21. NotClosing' => OwnInv'
  <2>1. NotClosing' => OwnInv BY <1>10, Parts DEF NotClosing
  <2>2. \A u \in Threads : th'[u] = th[u] \/ th'[u].pc \in {"idle", "accept", "do"} BY <1>5, <1>7
  <2> QED BY <1>10, <2>1, <2>2, OwnSame
<1>22. NotKept' => KnownInv' BY <1>10, Parts DEF NotKept, KnownInv
<1>23. ASSUME Fresh' PROVE InputInv'
  <2>1. InputInv BY <1>10, <1>23, Parts DEF Fresh
  <2>2. \A g : Fed(g) => StaysFed(g) BY <1>10 DEF Fed, StaysFed
  <2>3. \A i \in 1..Len(tasks') : tasks'[i].dir = "rd" => StaysFed(tasks'[i].fd)
    BY <1>4, <2>1, <2>2 DEF InputInv
  <2>4. ASSUME NEW u \in Doing', th'[u].task.dir = "rd" PROVE StaysFed(th'[u].task.fd)
    <3>1. CASE u = w BY <1>4, <1>7, <2>1, <2>2, <2>4, <3>1 DEF InputInv
    <3>2. CASE u # w
      <4>1. u \in Doing /\ th'[u] = th[u] BY <1>7, <1>8, <1>9, <3>2 DEF Doing
      <4> QED BY <2>1, <2>2, <2>4, <4>1 DEF InputInv
    <3> QED BY <3>1, <3>2
  <2>5. \A p \in poll.ready : p[2] = "rd" => StaysFed(p[1]) BY <2>1, <2>2 DEF InputInv
  <2> QED BY <1>10, <2>3, <2>4, <2>5 DEF InputInv, Fed, StaysFed
<1> QED BY <1>11, <1>12, <1>13, <1>14, <1>15, <1>16, <1>17, <1>19, <1>20, <1>21, <1>22, <1>23
        DEF TcpInv, BaseInv

(* The callback has returned. *)
LEMMA EndCallbackStep ==
  ASSUME TcpInv, NEW w \in Workers, EndCallback(w)
  PROVE  TcpInv'
<1> DEFINE f == th[w].task.fd
           d == th[w].task.dir
<1>1. /\ th[w].pc = "epilogue" /\ Epilogue(f, d)
      /\ th' = [th EXCEPT ![w].pc = "idle", ![w].task = NoTask, ![w].s = Server]
      /\ UNCHANGED <<sockVars, poll, tasks, poll_stop, clientVars, serverVars>>
  BY DEF EndCallback, At
<1>2. TypeOK /\ ThreadInv /\ SockInv /\ AcceptedInv /\ DisconnectInv /\ TrackInv /\ ExecInv /\ TaskInv /\ PollInv
  BY Parts
<1>3. w \in Threads /\ w \in Running BY <1>1 DEF Threads, Running, At
<1>4. f \in Fds /\ d \in Dirs BY <1>2, <1>3 DEF ThreadInv, Tasks
<1>5. "idle" \in Places /\ NoTask \in Tasks \cup {NoTask} /\ Server \in Socks /\ Server <= accepted
  BY OtherTypes DEF Places
<1>6. Becomes(w, "idle", NoTask, Server, th[w].i) BY <1>1, <1>3, <1>5, Fields, Updates
<1>7. /\ th' \in [Threads -> Recs] /\ \A u \in Threads : u # w => th'[u] = th[u]
      /\ th'[w].pc = "idle" /\ th'[w].s = Server
  BY <1>6 DEF Becomes
<1>8. \A u \in Workers : u \in Threads BY DEF Threads
<1>9. /\ Running' = Running \ {w} /\ Doing' \subseteq Doing \ {w}
      /\ \A u \in Running' : u # w /\ u \in Running /\ th'[u] = th[u]
      /\ \A u \in Doing' : u # w /\ u \in Doing /\ u \in Running /\ th'[u] = th[u]
  BY <1>7, <1>8 DEF Running, Doing, At
<1>10. /\ Open' = Open /\ HasInput' = HasInput /\ Waiting' = Waiting
       /\ UNCHANGED <<kfd, sockfd, accepted, reused, connected, clients, poll, tasks>>
  BY <1>1, SameSets DEF sockVars, kernelVars, clientVars, serverVars
<1>11. /\ TrackedOK' /\ Exec' = [Exec EXCEPT ![f][d] = FALSE] /\ Weaker(f) /\ pipe' \in {pipe, TRUE}
       /\ ~Marked[f] => Cb' = Cb /\ Marked' = Marked
  <2>1. TrackedOK /\ Epilogue(f, d) BY <1>1, <1>2, Types
  <2> HIDE DEF f, d
  <2> QED BY <1>4, <2>1, EpilogueView
<1>12. TypeOK'
  <2>1. Others BY <1>1, <1>11, OtherTypes DEF Others, serverVars, clientVars
  <2>3. SocketsTypeOK' BY <1>1, <1>2, PartTypes
  <2> QED BY <1>1, <1>2, <1>7, <1>11, <2>1, <2>3, PartTypes, NextTypes DEF clientVars
<1>13. ThreadInv'
  <2>1. \A u \in Running' : th'[u].task \in Tasks BY <1>2, <1>9 DEF ThreadInv
  <2>2. ASSUME NEW u \in Workers
        PROVE  /\ th'[u].pc \in {"do", "answer", "read_again"} => th'[u].task.cb \in Conns
               /\ th'[u].pc \in {"new_client", "bind", "append"} => th'[u].s \in Conns
    <3>1. CASE u = w BY <1>7, <3>1
    <3>2. CASE u # w BY <1>2, <1>7, <1>8, <3>2 DEF ThreadInv, Me
    <3> QED BY <3>1, <3>2
  <2> QED BY <2>1, <2>2 DEF ThreadInv, Me
<1>14. \A g \in Fds, e \in Dirs : Exec'[g][e] <=> Exec[g][e] /\ ~(g = f /\ e = d)
  BY <1>2, <1>4, <1>11, Types
<1> HIDE DEF f, d
<1>16. SockInv' BY <1>2, <1>10 DEF SockInv, Denotes
<1>17. AcceptedInv' BY <1>2, <1>5, <1>7, <1>10 DEF AcceptedInv
<1>18. DisconnectInv' BY <1>2, <1>7, <1>10 DEF DisconnectInv
<1>20. TrackInv'
  <2>1. ASSUME NEW g \in Fds, NEW e \in Dirs, Cb'[g][e] \in Conns PROVE Serves(Cb[g][e], g, e) /\ Cb'[g][e] = Cb[g][e]
    <3>1. Cb'[g][e] = Cb[g][e] BY <1>11, <2>1, Kinds DEF Weaker
    <3> QED BY <1>2, <2>1, <3>1 DEF TrackInv
  <2> QED BY <1>10, <2>1 DEF TrackInv, Serves
<1>21. ExecInv'
  <2>1. ASSUME NEW i \in 1..Len(tasks) PROVE Exec'[tasks[i].fd][tasks[i].dir]
    <3>0. tasks[i] \in Tasks BY <1>2, Types
    <3>1. tasks[i].fd \in Fds /\ tasks[i].dir \in Dirs BY <3>0 DEF Tasks
    <3>2. ~(tasks[i].fd = f /\ tasks[i].dir = d) BY <1>2, <1>3 DEF ExecInv, f, d
    <3>3. Exec[tasks[i].fd][tasks[i].dir] BY <1>2 DEF ExecInv
    <3> QED BY <1>14, <3>1, <3>2, <3>3
  <2>2. ASSUME NEW u \in Running' PROVE Exec'[th'[u].task.fd][th'[u].task.dir]
    <3>0. u # w /\ u \in Running /\ th'[u] = th[u] BY <1>9
    <3>1. th[u].task.fd \in Fds /\ th[u].task.dir \in Dirs BY <1>2, <3>0 DEF ThreadInv, Tasks
    <3>2. ~(th[u].task.fd = f /\ th[u].task.dir = d) BY <1>2, <1>3, <3>0 DEF ExecInv, f, d
    <3>3. Exec[th[u].task.fd][th[u].task.dir] BY <1>2, <3>0 DEF ExecInv
    <3> QED BY <1>14, <3>0, <3>1, <3>2, <3>3
  <2>3. \A u, v \in Running' :
          th'[u].task.fd = th'[v].task.fd /\ th'[u].task.dir = th'[v].task.dir => u = v
    BY <1>2, <1>9 DEF ExecInv
  <2>4. \A i \in 1..Len(tasks), u \in Running' :
          ~(tasks[i].fd = th'[u].task.fd /\ tasks[i].dir = th'[u].task.dir)
    BY <1>2, <1>9 DEF ExecInv
  <2>5. \A i, j \in 1..Len(tasks) : tasks[i].fd = tasks[j].fd /\ tasks[i].dir = tasks[j].dir => i = j
    BY <1>2 DEF ExecInv
  <2> QED BY <1>10, <2>1, <2>2, <2>3, <2>4, <2>5 DEF ExecInv
<1>22. \A k : TaskServed(k) => StaysServed(k) BY <1>10 DEF TaskServed, Serves, StaysServed
<1>23. TaskInv'
  <2>1. \A i \in 1..Len(tasks) : StaysServed(tasks[i]) BY <1>2, <1>22 DEF TaskInv
  <2>2. \A u \in Doing' : StaysServed(th'[u].task) BY <1>2, <1>9, <1>22 DEF TaskInv
  <2> QED BY <1>10, <2>1, <2>2 DEF TaskInv, TaskServed, Serves, StaysServed
<1>24. PollInv'
  <2>1. \A p \in poll.asked \cup poll.ready : p[1] \in Fds /\ p[2] \in Dirs BY <1>2, Types
  <2>2. \A p \in poll.asked \cup poll.ready : ~Exec'[p[1]][p[2]] BY <1>2, <1>14, <2>1 DEF PollInv
  <2> QED BY <1>2, <1>10, <2>2 DEF PollInv
<1>25. NotClosing' => OwnInv'
  <2>1. NotClosing' => OwnInv BY <1>10, Parts DEF NotClosing
  <2>2. \A u \in Threads : th'[u] = th[u] \/ th'[u].pc \in {"idle", "accept", "do"} BY <1>7
  <2> QED BY <1>10, <2>1, <2>2, OwnSame
<1>26. ASSUME NotKept' PROVE KnownInv'
  <2>1. KnownInv BY <1>10, <1>26, Parts DEF NotKept
  <2>2. ASSUME NEW x \in connected
        PROVE  Cb'[sockfd[x]] = Cb[sockfd[x]] /\ Marked'[sockfd[x]] = Marked[sockfd[x]]
    <3>1. sockfd[x] \in Fds /\ ~Marked[sockfd[x]] BY <1>2, <2>1, HasFd DEF KnownInv
    <3>2. CASE sockfd[x] = f BY <1>11, <3>1, <3>2
    <3>3. CASE sockfd[x] # f BY <1>11, <3>1, <3>3 DEF Weaker
    <3> QED BY <3>2, <3>3
  <2> QED BY <1>10, <2>1, <2>2 DEF KnownInv
<1>27. ASSUME Fresh' PROVE InputInv'
  <2>1. InputInv BY <1>10, <1>27, Parts DEF Fresh
  <2>2. \A g : Fed(g) => StaysFed(g) BY <1>10 DEF Fed, StaysFed
  <2>3. \A i \in 1..Len(tasks) : tasks[i].dir = "rd" => StaysFed(tasks[i].fd) BY <2>1, <2>2 DEF InputInv
  <2>4. \A u \in Doing' : th'[u].task.dir = "rd" => StaysFed(th'[u].task.fd)
    BY <1>9, <2>1, <2>2 DEF InputInv
  <2>5. \A p \in poll.ready : p[2] = "rd" => StaysFed(p[1]) BY <2>1, <2>2 DEF InputInv
  <2> QED BY <1>10, <2>3, <2>4, <2>5 DEF InputInv, Fed, StaysFed
<1> QED BY <1>12, <1>13, <1>16, <1>17, <1>18, <1>20, <1>21, <1>23, <1>24, <1>25, <1>26, <1>27
        DEF TcpInv, BaseInv



(* Nothing changes but the poll thread's own, and input comes. *)
LEMMA Rests ==
  ASSUME TcpInv, TypeOK', PollInv', HasInput \subseteq HasInput',
         UNCHANGED <<kfd, sockfd, accepted, reused, tracked, tasks, connected, reads, writes, clients, th>>,
         Fresh => \A p \in poll'.ready : p[2] = "rd" => StaysFed(p[1])
  PROVE  TcpInv'
<1>1. TypeOK /\ ThreadInv /\ SockInv /\ AcceptedInv /\ DisconnectInv /\ TrackInv /\ ExecInv /\ TaskInv /\ PollInv
  BY Parts
<1>2. Open' = Open /\ Waiting' = Waiting /\ Cb' = Cb /\ Exec' = Exec /\ Marked' = Marked BY SameSets
<1>3. ThreadInv' /\ SameTasks BY <1>1, ThreadsRest
<1>4. SockInv' BY <1>1, <1>2 DEF SockInv, Denotes
<1>5. AcceptedInv' BY <1>1 DEF AcceptedInv
<1>6. DisconnectInv' BY <1>1, <1>2 DEF DisconnectInv
<1>7. TrackInv' BY <1>1, <1>2 DEF TrackInv, Serves
<1>8. ExecInv' BY <1>1, <1>2, <1>3 DEF ExecInv, SameTasks
<1>9. \A k : TaskServed(k) => StaysServed(k) BY <1>2 DEF TaskServed, Serves, StaysServed
<1>10. TaskInv'
  <2>1. \A i \in 1..Len(tasks) : StaysServed(tasks[i]) BY <1>1, <1>9 DEF TaskInv
  <2>2. \A u \in Doing' : StaysServed(th[u].task) BY <1>1, <1>3, <1>9 DEF TaskInv, SameTasks
  <2> QED BY <2>1, <2>2 DEF TaskInv, TaskServed, Serves, StaysServed
<1>11. NotClosing' => OwnInv'
  <2>1. NotClosing' => OwnInv BY Parts DEF NotClosing
  <2> QED BY <1>2, <2>1, OwnSame
<1>12. NotKept' => KnownInv' BY <1>2, Parts DEF NotKept, KnownInv
<1>13. ASSUME Fresh' PROVE InputInv'
  <2>1. Fresh /\ InputInv BY <1>13, Parts DEF Fresh
  <2>2. \A f : Fed(f) => StaysFed(f) BY <1>2 DEF Fed, StaysFed
  <2>3. \A i \in 1..Len(tasks) : tasks[i].dir = "rd" => StaysFed(tasks[i].fd) BY <2>1, <2>2 DEF InputInv
  <2>4. \A u \in Doing' : th[u].task.dir = "rd" => StaysFed(th[u].task.fd)
    BY <1>3, <2>1, <2>2 DEF InputInv, SameTasks
  <2>5. \A p \in poll'.ready : p[2] = "rd" => StaysFed(p[1]) BY <2>1
  <2> QED BY <2>3, <2>4, <2>5 DEF InputInv, Fed, StaysFed
<1> QED BY <1>3, <1>4, <1>5, <1>6, <1>7, <1>8, <1>10, <1>11, <1>12, <1>13 DEF TcpInv, BaseInv

(* A peer connects, sends or closes. *)
LEMMA PeerStep ==
  ASSUME TcpInv, Peer
  PROVE  TcpInv'
<1>1. TypeOK /\ PollInv /\ MaxSteps \in Nat BY Parts, SocketsAssumption
<1>2. UNCHANGED <<reactorVars, clientVars, serverVars, th>> BY DEF Peer
<1> DEFINE Kept == /\ UNCHANGED <<kfd, sockfd, accepted, reused>> /\ SocketsTypeOK'
                   /\ HasInput \subseteq HasInput'
<1>3. Kept
  <2>1. CASE PeerConnect
    <3>1. UNCHANGED <<kfd, sockfd, accepted, reused, unread, eof>> BY <2>1 DEF PeerConnect
    <3>2. arrived' \in 0..MaxConns /\ accepted \in 0..arrived' /\ steps' \in 0..MaxSteps
      BY <1>1, <2>1, Kinds DEF PeerConnect, TypeOK, SocketsTypeOK
    <3>3. SocketsTypeOK' BY <1>1, <3>1, <3>2 DEF TypeOK, SocketsTypeOK
    <3> QED BY <3>1, <3>3 DEF HasInput
  <2>2. ASSUME NEW c \in Conns, PeerSend(c) PROVE Kept
    <3>0. steps \in 0..MaxSteps /\ unread \in [Conns -> Nat] BY <1>1 DEF TypeOK, SocketsTypeOK
    <3>1. UNCHANGED <<kfd, sockfd, arrived, accepted, eof, reused>> BY <2>2 DEF PeerSend
    <3>2. steps < MaxSteps /\ steps' = steps + 1 /\ unread' = [unread EXCEPT ![c] = @ + 1]
      BY <2>2 DEF PeerSend
    <3>3. steps' \in 0..MaxSteps /\ unread' \in [Conns -> Nat] BY <1>1, <3>0, <3>2
    <3>4. SocketsTypeOK' BY <1>1, <3>1, <3>3 DEF TypeOK, SocketsTypeOK
    <3>5. \A x \in Conns : unread[x] > 0 => unread'[x] > 0 BY <3>0, <3>2
    <3> QED BY <3>1, <3>4, <3>5 DEF HasInput
  <2>3. ASSUME NEW c \in Conns, PeerClose(c) PROVE Kept
    <3>1. /\ UNCHANGED <<kfd, sockfd, arrived, accepted, unread, reused>> /\ eof' = eof \cup {c}
          /\ steps < MaxSteps /\ steps' = steps + 1
      BY <2>3 DEF PeerClose
    <3>2. steps' \in 0..MaxSteps BY <1>1, <3>1 DEF TypeOK, SocketsTypeOK
    <3>3. SocketsTypeOK' BY <1>1, <2>3, <3>1, <3>2 DEF TypeOK, SocketsTypeOK
    <3> QED BY <3>1, <3>3 DEF HasInput
  <2> QED BY <2>1, <2>2, <2>3 DEF Peer
<1>4. UNCHANGED <<tracked, poll, tasks, connected, reads, writes, clients, th>>
  BY <1>2 DEF reactorVars, clientVars, serverVars
<1>5. TypeOK'
  <2>1. Others BY <1>2, OtherTypes DEF Others, serverVars, clientVars, reactorVars
  <2>2. TrackedOK' /\ th' \in [Threads -> Recs] BY <1>1, <1>4, Types, SameEntries
  <2> QED BY <1>1, <1>3, <1>4, <2>1, <2>2, PartTypes, NextTypes
<1>6. Open' = Open /\ Exec' = Exec BY <1>3, <1>4, SameSets
<1>7. PollInv' BY <1>1, <1>4, <1>6 DEF PollInv
<1>8. Fresh => \A p \in poll'.ready : p[2] = "rd" => StaysFed(p[1])
  <2>1. \A f : Fed(f) => StaysFed(f) BY <1>3, <1>6 DEF Fed, StaysFed
  <2> QED BY <1>4, <2>1, Parts DEF InputInv
<1> QED BY <1>3, <1>4, <1>5, <1>7, <1>8, Rests

(* poll() outside dispatch_select() *)
LEMMA SelectSteps ==
  ASSUME TcpInv, PollExit \/ InitSelectFds \/ SelectFails \/ Select,
         UNCHANGED <<sockVars, poll_stop, clientVars, serverVars, th>>
  PROVE  TcpInv'
<1>1. TypeOK /\ PollInv /\ TrackedOK BY Types, Parts
<1>2. UNCHANGED <<tracked, pipe, tasks>> BY DEF PollExit, InitSelectFds, SelectFails, Select
<1>3. UNCHANGED <<kfd, sockfd, accepted, reused, unread, eof, connected, reads, writes, clients>>
  BY DEF sockVars, kernelVars, clientVars, serverVars
<1>4. Open' = Open /\ HasInput' = HasInput /\ Exec' = Exec BY <1>2, <1>3, SameSets
<1> DEFINE Polls == [pc : {"top", "select", "dispatch", "exited"}, asked : SUBSET (Fds \X Dirs),
                     ready : SUBSET (Fds \X Dirs), notified : BOOLEAN]
<1>5. poll \in Polls /\ PollTop \in Polls BY <1>1, PartTypes DEF PollTop
<1>6. /\ poll' \in Polls /\ \A p \in poll'.asked \cup poll'.ready : ~Exec[p[1]][p[2]]
      /\ \A p \in poll'.ready : p[2] = "rd" => \A c \in Open : sockfd[c] = p[1] => c \in HasInput
  <2>1. CASE PollExit
    <3>1. poll' \in Polls /\ poll'.asked = {} /\ poll'.ready = {} BY <1>5, <2>1 DEF PollExit, PollTop
    <3> QED BY <3>1
  <2>2. CASE SelectFails
    <3>1. poll' \in Polls /\ poll'.asked = {} /\ poll'.ready = {} BY <1>5, <2>2 DEF SelectFails, PollTop
    <3> QED BY <3>1
  <2>3. CASE InitSelectFds
    <3> DEFINE asked == {p \in (DOMAIN tracked) \X Dirs :
                           tracked[p[1]].cb[p[2]] # NoCb /\ ~tracked[p[1]].exec[p[2]]}
    <3>1. poll' = [PollTop EXCEPT !.pc = "select", !.asked = asked] BY <2>3 DEF InitSelectFds
    <3>2. asked \subseteq Fds \X Dirs BY <1>1 DEF TrackedOK
    <3>3. ASSUME NEW p \in asked PROVE ~Exec[p[1]][p[2]]
      <4>1. p[1] \in DOMAIN tracked /\ p[1] \in Fds /\ ~tracked[p[1]].exec[p[2]] BY <1>1 DEF TrackedOK
      <4>2. Info(p[1]) = tracked[p[1]] BY <4>1 DEF Info
      <4>3. Info(p[1]).exec = Exec[p[1]] BY <1>1, <4>1, InfoType
      <4> QED BY <4>1, <4>2, <4>3
    <3> HIDE DEF asked
    <3>4. poll' \in Polls /\ poll'.asked = asked /\ poll'.ready = {} BY <3>1, <3>2 DEF PollTop
    <3> QED BY <3>3, <3>4
  <2>4. CASE Select
    <3> DEFINE ready == {p \in poll.asked : Ready(p[1], p[2])}
    <3>1. poll' = [poll EXCEPT !.pc = "dispatch", !.asked = {}, !.ready = ready, !.notified = pipe]
      BY <2>4 DEF Select
    <3>2. ready \subseteq poll.asked /\ ready \subseteq Fds \X Dirs /\ pipe \in BOOLEAN BY <1>1, Types, OtherTypes
    <3>3. ASSUME NEW p \in ready, p[2] = "rd", NEW c \in Open, sockfd[c] = p[1] PROVE c \in HasInput
      <4>1. Readable(kfd[p[1]]) BY <3>3 DEF Ready
      <4>2. c \in Conns /\ sockfd[c] # NoFd BY <1>1, OpenHasFd
      <4>3. kfd[p[1]] = c BY <3>3, <4>2 DEF Open, Denotes
      <4> QED BY <4>1, <4>2, <4>3, Kinds DEF Readable, HasInput
    <3> HIDE DEF ready
    <3>4. poll' \in Polls /\ poll'.asked = {} /\ poll'.ready = ready BY <1>5, <3>1, <3>2
    <3>5. \A p \in ready : ~Exec[p[1]][p[2]] BY <1>1, <3>2 DEF PollInv
    <3> QED BY <3>3, <3>4, <3>5
  <2> QED BY <2>1, <2>2, <2>3, <2>4
<1>7. PollInv' BY <1>4, <1>6 DEF PollInv
<1>8. TypeOK'
  <2>1. Others BY <1>2, OtherTypes DEF Others, serverVars, clientVars
  <2>2. TrackedOK' /\ th' \in [Threads -> Recs] BY <1>1, <1>2, Types, SameEntries
  <2>3. SocketsTypeOK' BY <1>1, PartTypes
  <2> QED BY <1>1, <1>2, <1>3, <1>6, <2>1, <2>2, <2>3, PartTypes, NextTypes
<1>9. \A p \in poll'.ready : p[2] = "rd" => StaysFed(p[1]) BY <1>3, <1>4, <1>6 DEF StaysFed
<1> QED BY <1>2, <1>3, <1>4, <1>7, <1>8, <1>9, Rests

(* dispatch_select() *)
LEMMA DispatchStep ==
  ASSUME TcpInv, Dispatch, UNCHANGED <<sockVars, poll_stop, clientVars, serverVars, th>>
  PROVE  TcpInv'
<1>1. TypeOK /\ ThreadInv /\ SockInv /\ AcceptedInv /\ DisconnectInv /\ TrackInv /\ ExecInv /\ TaskInv /\ PollInv
  BY Parts
<1>2. TrackedOK /\ pipe \in BOOLEAN /\ poll.notified \in BOOLEAN /\ poll.ready \subseteq Fds \X Dirs
  BY <1>1, Types, OtherTypes, PartTypes
<1>3. TrackedOK' /\ \E chosen, q : Dispatched(chosen, q) BY <1>2, DispatchView
<1>4. PICK chosen, q : Dispatched(chosen, q) BY <1>3
<1>5. /\ Open' = Open /\ HasInput' = HasInput /\ Waiting' = Waiting
      /\ UNCHANGED <<kfd, sockfd, accepted, reused, connected, clients, th>>
  BY SameSets DEF sockVars, kernelVars, clientVars, serverVars
<1>6. ThreadInv' /\ SameTasks BY <1>1, <1>5, ThreadsRest
<1>7. Running' = Running /\ Doing' \subseteq Doing BY <1>6 DEF SameTasks
<1>8. \A f \in Fds, d \in Dirs : Exec'[f][d] <=> Exec[f][d] \/ <<f, d>> \in chosen BY <1>4 DEF Dispatched
<1>10. q \in Seq(Tasks) /\ tasks \in Seq(Tasks) /\ tasks' = tasks \o q BY <1>1, <1>4, Types DEF Dispatched
<1> DEFINE m == Len(tasks)
<1>11. /\ tasks' \in Seq(Tasks) /\ Len(tasks') = m + Len(q) /\ m \in Nat /\ Len(q) \in Nat
       /\ \A i \in 1..m : tasks'[i] = tasks[i]
       /\ \A i \in 1..Len(tasks') : i \notin 1..m => i - m \in 1..Len(q) /\ tasks'[i] = q[i - m]
  <2>1. /\ tasks' \in Seq(Tasks) /\ Len(tasks') = m + Len(q) /\ m \in Nat /\ Len(q) \in Nat
        /\ \A i \in 1..m + Len(q) : tasks'[i] = IF i <= m THEN tasks[i] ELSE q[i - m]
    BY <1>10, ConcatProperties, LenProperties
  <2> QED BY <2>1
<1>12. TypeOK'
  <2>1. pipe' \in BOOLEAN /\ poll' = PollTop BY <1>4 DEF Dispatched
  <2>2. Others BY <2>1, OtherTypes DEF Others, serverVars, clientVars
  <2>3. SocketsTypeOK' /\ th' \in [Threads -> Recs] BY <1>1, <1>5, PartTypes, Types
  <2>4. PollTop \in [pc : {"top", "select", "dispatch", "exited"}, asked : SUBSET (Fds \X Dirs),
                     ready : SUBSET (Fds \X Dirs), notified : BOOLEAN]
    BY DEF PollTop
  <2>5. UNCHANGED <<connected, reads, writes>> BY DEF clientVars
  <2> QED BY <1>1, <1>3, <1>11, <2>1, <2>2, <2>3, <2>4, <2>5, PartTypes, NextTypes
<1> HIDE DEF m
<1>13. SockInv' BY <1>1, <1>5 DEF SockInv, Denotes
<1>14. AcceptedInv' BY <1>1, <1>5 DEF AcceptedInv
<1>15. DisconnectInv' BY <1>1, <1>5 DEF DisconnectInv
<1>16. TrackInv'
  <2>1. ASSUME NEW f \in Fds, NEW d \in Dirs, Cb'[f][d] \in Conns PROVE Serves(Cb[f][d], f, d) /\ Cb'[f][d] = Cb[f][d]
    <3>1. Cb'[f][d] = Cb[f][d] BY <1>4, <2>1, Kinds DEF Dispatched
    <3> QED BY <1>1, <2>1, <3>1 DEF TrackInv
  <2> QED BY <1>5, <2>1 DEF TrackInv, Serves
<1>17. ASSUME NEW i \in 1..Len(q)
       PROVE  /\ q[i] \in Tasks /\ q[i].fd \in Fds /\ q[i].dir \in Dirs /\ <<q[i].fd, q[i].dir>> \in chosen
              /\ ~Exec[q[i].fd][q[i].dir] /\ Exec'[q[i].fd][q[i].dir] /\ TaskServed(q[i])
  <2>1. q[i] \in Tasks BY <1>10
  <2>2. q[i].fd \in Fds /\ q[i].dir \in Dirs BY <2>1 DEF Tasks
  <2>3. <<q[i].fd, q[i].dir>> \in chosen /\ <<q[i].fd, q[i].dir>> \in poll.ready /\ q[i].cb = Cb[q[i].fd][q[i].dir]
    BY <1>4 DEF Dispatched
  <2>4. ~Exec[q[i].fd][q[i].dir] BY <1>4, <2>2, <2>3 DEF Dispatched
  <2>5. Exec'[q[i].fd][q[i].dir] BY <1>8, <2>2, <2>3
  <2>6. TaskServed(q[i]) BY <1>1, <2>2, <2>3 DEF TaskServed, TrackInv
  <2> QED BY <2>1, <2>2, <2>3, <2>4, <2>5, <2>6
<1>18. ASSUME NEW i \in 1..m
       PROVE  /\ tasks[i] \in Tasks /\ tasks[i].fd \in Fds /\ tasks[i].dir \in Dirs
              /\ Exec[tasks[i].fd][tasks[i].dir] /\ Exec'[tasks[i].fd][tasks[i].dir]
  <2>1. tasks[i] \in Tasks /\ Exec[tasks[i].fd][tasks[i].dir] BY <1>1, <1>10 DEF ExecInv, m
  <2>2. tasks[i].fd \in Fds /\ tasks[i].dir \in Dirs BY <2>1 DEF Tasks
  <2> QED BY <1>8, <2>1, <2>2
<1>19. ASSUME NEW u \in Running
       PROVE  Exec[th[u].task.fd][th[u].task.dir] /\ Exec'[th[u].task.fd][th[u].task.dir]
  <2>1. th[u].task \in Tasks /\ Exec[th[u].task.fd][th[u].task.dir] BY <1>1 DEF ExecInv, ThreadInv
  <2>2. th[u].task.fd \in Fds /\ th[u].task.dir \in Dirs BY <2>1 DEF Tasks
  <2> QED BY <1>8, <2>1, <2>2
<1>20. ExecInv'
  <2>1. \A i \in 1..Len(tasks') : Exec'[tasks'[i].fd][tasks'[i].dir] BY <1>11, <1>17, <1>18
  <2>2. ASSUME NEW i \in 1..Len(tasks'), NEW j \in 1..Len(tasks'), tasks'[i].fd = tasks'[j].fd, tasks'[i].dir = tasks'[j].dir
        PROVE  i = j
    <3>1. CASE i \in 1..m /\ j \in 1..m BY <1>1, <1>11, <2>2, <3>1 DEF ExecInv, m
    <3>2. CASE i \notin 1..m /\ j \notin 1..m
      <4>1. i - m \in 1..Len(q) /\ j - m \in 1..Len(q) /\ tasks'[i] = q[i - m] /\ tasks'[j] = q[j - m]
        BY <1>11, <3>2
      <4>2. i - m = j - m BY <1>4, <2>2, <4>1 DEF Dispatched
      <4> QED BY <1>11, <4>2
    <3>3. CASE i \in 1..m /\ j \notin 1..m
      <4>1. Exec[tasks'[i].fd][tasks'[i].dir] BY <1>11, <1>18, <3>3
      <4>2. j - m \in 1..Len(q) /\ tasks'[j] = q[j - m] BY <1>11, <3>3
      <4>3. ~Exec[tasks'[j].fd][tasks'[j].dir] BY <1>17, <4>2
      <4> QED BY <2>2, <4>1, <4>3
    <3>4. CASE i \notin 1..m /\ j \in 1..m
      <4>1. Exec[tasks'[j].fd][tasks'[j].dir] BY <1>11, <1>18, <3>4
      <4>2. i - m \in 1..Len(q) /\ tasks'[i] = q[i - m] BY <1>11, <3>4
      <4>3. ~Exec[tasks'[i].fd][tasks'[i].dir] BY <1>17, <4>2
      <4> QED BY <2>2, <4>1, <4>3
    <3> QED BY <3>1, <3>2, <3>3, <3>4
  <2>3. ASSUME NEW i \in 1..Len(tasks'), NEW u \in Running, tasks'[i].fd = th[u].task.fd, tasks'[i].dir = th[u].task.dir
        PROVE  FALSE
    <3>1. CASE i \in 1..m BY <1>1, <1>11, <2>3, <3>1 DEF ExecInv, m
    <3>2. CASE i \notin 1..m
      <4>2. i - m \in 1..Len(q) /\ tasks'[i] = q[i - m] BY <1>11, <3>2
      <4>3. ~Exec[tasks'[i].fd][tasks'[i].dir] BY <1>17, <4>2
      <4> QED BY <1>19, <2>3, <4>3
    <3> QED BY <3>1, <3>2
  <2>4. \A u, v \in Running : th[u].task.fd = th[v].task.fd /\ th[u].task.dir = th[v].task.dir => u = v
    BY <1>1 DEF ExecInv
  <2> QED BY <1>5, <1>7, <1>19, <2>1, <2>2, <2>3, <2>4 DEF ExecInv
<1>21. \A k : TaskServed(k) => StaysServed(k) BY <1>5 DEF TaskServed, Serves, StaysServed
<1>22. TaskInv'
  <2>1. ASSUME NEW i \in 1..Len(tasks') PROVE StaysServed(tasks'[i])
    <3>1. CASE i \in 1..m BY <1>1, <1>11, <1>21, <3>1 DEF TaskInv, m
    <3>2. CASE i \notin 1..m BY <1>11, <1>17, <1>21, <3>2
    <3> QED BY <3>1, <3>2
  <2>2. \A u \in Doing' : StaysServed(th'[u].task) BY <1>1, <1>5, <1>7, <1>21 DEF TaskInv
  <2> QED BY <2>1, <2>2 DEF TaskInv, TaskServed, Serves, StaysServed
<1>23. poll'.asked = {} /\ poll'.ready = {} BY <1>4 DEF Dispatched, PollTop
<1>24. PollInv' BY <1>23 DEF PollInv
<1>25. NotClosing' => OwnInv'
  <2>1. NotClosing' => OwnInv BY <1>5, Parts DEF NotClosing
  <2> QED BY <1>5, <2>1, OwnSame
<1>26. ASSUME NotKept' PROVE KnownInv'
  <2>1. KnownInv BY <1>5, <1>26, Parts DEF NotKept
  <2>2. ASSUME NEW x \in connected PROVE Cb'[sockfd[x]] = Cb[sockfd[x]] /\ ~Marked'[sockfd[x]]
    <3>1. sockfd[x] \in Fds /\ ~Marked[sockfd[x]] BY <1>1, <2>1, HasFd DEF KnownInv
    <3> QED BY <1>4, <3>1 DEF Dispatched
  <2> QED BY <1>5, <2>1, <2>2 DEF KnownInv
<1>27. ASSUME Fresh' PROVE InputInv'
  <2>1. InputInv BY <1>5, <1>27, Parts DEF Fresh
  <2>2. \A f : Fed(f) => StaysFed(f) BY <1>5 DEF Fed, StaysFed
  <2>3. ASSUME NEW i \in 1..Len(tasks'), tasks'[i].dir = "rd" PROVE StaysFed(tasks'[i].fd)
    <3>1. CASE i \in 1..m BY <1>11, <2>1, <2>2, <2>3, <3>1 DEF InputInv, m
    <3>2. CASE i \notin 1..m
      <4> DEFINE k == tasks'[i]
                 p == <<k.fd, k.dir>>
      <4>1. p \in poll.ready /\ p[1] = k.fd /\ p[2] = "rd" BY <1>4, <1>11, <1>17, <2>3, <3>2 DEF Dispatched
      <4>2. Fed(p[1]) BY <2>1, <4>1 DEF InputInv
      <4> QED BY <2>2, <4>1, <4>2
    <3> QED BY <3>1, <3>2
  <2>4. \A u \in Doing' : th'[u].task.dir = "rd" => StaysFed(th'[u].task.fd)
    BY <1>5, <1>7, <2>1, <2>2 DEF InputInv
  <2> QED BY <1>23, <2>3, <2>4 DEF InputInv, Fed, StaysFed
<1> QED BY <1>6, <1>12, <1>13, <1>14, <1>15, <1>16, <1>20, <1>22, <1>24, <1>25, <1>26, <1>27
        DEF TcpInv, BaseInv

-----------------------------------------------------------------------------
(* New descriptors.                                                        *)

(* A new number is free, and what it is still used for goes into the history. *)
LEMMA NewNumber ==
  ASSUME TypeOK, NEW f \in NewFds
  PROVE  f \in Fds /\ f # NoFd /\ kfd[f] = Closed /\ UsesOf(f) \subseteq Uses /\ reused \subseteq Uses
<1>1. f \in Fds /\ kfd[f] = Closed BY DEF NewFds
<1> QED BY <1>1, Kinds DEF UsesOf, TypeOK, SocketsTypeOK

(* The server's socket gets a number. *)
LEMMA ServerNumber ==
  ASSUME TypeOK, NEW f \in NewFds, NEW x \in {Server, Stray},
         kfd' = [kfd EXCEPT ![f] = x], sockfd' = [sockfd EXCEPT ![Server] = f],
         UNCHANGED <<arrived, accepted, steps, unread, eof>>, reused' = reused \cup UsesOf(f)
  PROVE  /\ SocketsTypeOK' /\ reused \subseteq reused' /\ Open' = Open /\ HasInput' = HasInput
         /\ \A c \in Conns : sockfd'[c] = sockfd[c]
         /\ \A g \in Fds : kfd'[g] \in Conns => kfd'[g] = kfd[g]
         /\ Denotes(sockfd[Server])' \notin Conns
<1>1. f \in Fds /\ f # NoFd /\ kfd[f] = Closed /\ UsesOf(f) \subseteq Uses /\ reused \subseteq Uses BY NewNumber
<1>2. kfd \in [Fds -> Socks \cup {Closed, Stray}] /\ sockfd \in [Socks -> Fds \cup {NoFd}] BY Types
<1>3. Server \in Socks /\ Conns \subseteq Socks /\ Server \notin Conns /\ Stray \notin Conns /\ Closed \notin Conns
  BY Kinds
<1>4. kfd' \in [Fds -> Socks \cup {Closed, Stray}] /\ sockfd' \in [Socks -> Fds \cup {NoFd}]
  BY <1>1, <1>2, <1>3
<1>5. reused' \subseteq Uses /\ reused \subseteq reused' BY <1>1
<1>6. SocketsTypeOK' BY <1>4, <1>5 DEF TypeOK, SocketsTypeOK
<1>7. (\A c \in Conns : sockfd'[c] = sockfd[c]) /\ sockfd'[Server] = f BY <1>1, <1>2, <1>3
<1>8. \A g \in Fds : kfd'[g] = IF g = f THEN x ELSE kfd[g] BY <1>1, <1>2
<1>9. \A g \in Fds : kfd'[g] \in Conns => kfd'[g] = kfd[g] BY <1>3, <1>8
<1>10. ASSUME NEW c \in Conns PROVE c \in Open' <=> c \in Open
  <2>1. sockfd'[c] = sockfd[c] /\ sockfd[c] \in Fds \cup {NoFd} BY <1>2, <1>3, <1>7
  <2> QED BY <1>1, <1>3, <1>8, <2>1 DEF Open, Denotes
<1>11. Open' = Open BY <1>10 DEF Open
<1>12. Denotes(sockfd[Server])' \notin Conns BY <1>1, <1>3, <1>7, <1>8 DEF Denotes
<1>13. HasInput' = HasInput BY SameSets
<1> QED BY <1>5, <1>6, <1>7, <1>9, <1>11, <1>12, <1>13

(* tcp_server::start() *)
LEMMA StartStep ==
  ASSUME TcpInv, Start
  PROVE  TcpInv'
<1> DEFINE c == th[Owner].s
<1>1. PICK f \in NewFds : Listen(f, UsesOf(f)) /\ RegisterFd(f, Server) BY DEF Start
<1>2. /\ th[Owner].pc = "start" /\ Goto(Owner, "set_cb") /\ Owner \in Threads
      /\ UNCHANGED <<poll, tasks, poll_stop, clientVars, serverVars>>
  BY DEF Start, At, Threads
<1>3. TypeOK /\ SockInv /\ AcceptedInv /\ TrackInv BY Parts
<1>4. Goes(Owner, "set_cb", c, th[Owner].i) BY <1>2, GotoGoes DEF Places
<1>5. UNCHANGED <<connected, reads, writes, bound, clients>> BY <1>2 DEF clientVars, serverVars
<1>6. /\ SocketsTypeOK' /\ reused \subseteq reused' /\ Open' = Open /\ HasInput' = HasInput
      /\ \A x \in Conns : sockfd'[x] = sockfd[x]
      /\ \A g \in Fds : kfd'[g] \in Conns => kfd'[g] = kfd[g]
      /\ Denotes(sockfd[Server])' \notin Conns
  BY <1>1, <1>3, ServerNumber DEF Listen
<1>7. f \in Fds /\ f # NoFd /\ kfd[f] = Closed BY <1>3, NewNumber
<1>8. /\ TrackedOK' /\ Exec' = Exec /\ pipe' = TRUE
      /\ \A g \in Fds : g # f => Cb'[g] = Cb[g] /\ Marked'[g] = Marked[g]
      /\ \A d \in Dirs : Cb'[f][d] \in {Server, NoCb}
  <2>1. TrackedOK BY <1>3, Types
  <2> QED BY <1>1, <1>7, <2>1, RegisterView
<1>9. TypeOK'
  <2>1. th' \in [Threads -> Recs] BY <1>4 DEF Goes, Becomes
  <2>2. Others BY <1>2, <1>5, <1>8, OtherTypes DEF Others, serverVars
  <2> QED BY <1>2, <1>3, <1>5, <1>6, <1>8, <2>1, <2>2, PartTypes, NextTypes
<1>10. Waiting' = Waiting /\ accepted' = accepted BY <1>1, <1>5, SameSets DEF Listen
<1>11. Settled BY <1>2, <1>5, <1>6, <1>8, <1>10 DEF Settled
<1>12. Leaves("set_cb", c) /\ c <= accepted BY <1>2, Fields DEF Leaves
<1>13. SockInv'
  <2>1. \A x \in connected : x \in Conns BY <1>3, Types
  <2>2. \A d \in Dirs : Waiting[d] \subseteq Conns BY <1>3, Types
  <2> QED BY <1>3, <1>5, <1>6, <1>10, <2>1, <2>2 DEF SockInv
<1>14. TrackInv'
  <2>1. \A g \in Fds, d \in Dirs : Cb'[g][d] \in {Cb[g][d], NoCb, Server} BY <1>8
  <2> QED BY <1>3, <1>11, <2>1, TrackStays
<1>15. NotClosing' => connected' \subseteq Open' /\ \A d \in Dirs : Waiting'[d] \subseteq Open'
  <2>1. NotClosing' => OwnInv BY <1>6, History, Parts
  <2> QED BY <1>5, <1>6, <1>10, <2>1 DEF OwnInv
<1>16. ASSUME NotKept' PROVE KnownInv'
  <2>1. KnownInv /\ OwnInv BY <1>6, <1>16, History, Parts
  <2>2. ASSUME NEW x \in connected
        PROVE  sockfd'[x] = sockfd[x] /\ Cb'[sockfd[x]] = Cb[sockfd[x]] /\ Marked'[sockfd[x]] = Marked[sockfd[x]]
    <3>1. x \in Open BY <2>1 DEF OwnInv
    <3>2. x \in Conns /\ sockfd[x] \in Fds /\ kfd[sockfd[x]] = x /\ x # Closed BY <1>3, <3>1, OpenHasFd, Kinds
    <3> QED BY <1>6, <1>7, <1>8, <3>2
  <2> QED BY <1>5, <1>10, <1>11, <2>1, <2>2, KnownStays
<1>17. \A i \in 1..Len(clients') : clients'[i] <= accepted BY <1>5, OtherTypes
<1> HIDE DEF c
<1> QED BY <1>2, <1>4, <1>9, <1>11, <1>12, <1>13, <1>14, <1>15, <1>16, <1>17, Settles

(* accept() that fails because the server's socket was closed *)
LEMMA AcceptClosedStep ==
  ASSUME TcpInv, NEW w \in Workers, NEW f \in NewFds, th[w].pc = "accept",
         AcceptClosed(f, UsesOf(f)), Goto(w, "stop"), UNCHANGED connected,
         UNCHANGED <<reactorVars, reads, writes, bound, serverVars>>
  PROVE  TcpInv'
<1> DEFINE c == th[w].s
<1>1. TypeOK /\ SockInv /\ TrackInv /\ w \in Threads BY Parts DEF Threads
<1>2. UNCHANGED <<arrived, accepted, steps, unread, eof>> BY DEF AcceptClosed
<1>3. /\ SocketsTypeOK' /\ reused \subseteq reused' /\ Open' = Open /\ HasInput' = HasInput
      /\ \A x \in Conns : sockfd'[x] = sockfd[x]
      /\ \A g \in Fds : kfd'[g] \in Conns => kfd'[g] = kfd[g]
      /\ Denotes(sockfd[Server])' \notin Conns
  <2>1. CASE sockfd[Server] = NoFd
    <3>1. /\ Stray \in {Server, Stray} /\ kfd' = [kfd EXCEPT ![f] = Stray]
          /\ sockfd' = [sockfd EXCEPT ![Server] = f] /\ reused' = reused \cup UsesOf(f)
      BY <2>1 DEF AcceptClosed
    <3> QED BY <1>1, <1>2, <3>1, ServerNumber
  <2>2. CASE sockfd[Server] # NoFd
    <3>1. UNCHANGED <<kfd, sockfd, reused>> BY <2>2 DEF AcceptClosed
    <3>2. Open' = Open /\ HasInput' = HasInput BY <1>2, <3>1, SameSets
    <3>3. SocketsTypeOK' BY <1>1, <1>2, <3>1 DEF TypeOK, SocketsTypeOK
    <3> QED BY <1>1, <3>1, <3>2, <3>3 DEF SockInv, Denotes
  <2> QED BY <2>1, <2>2
<1>4. Goes(w, "stop", c, th[w].i) BY <1>1, GotoGoes DEF Places
<1>5. /\ Waiting' = Waiting /\ Cb' = Cb /\ Exec' = Exec /\ Marked' = Marked
      /\ UNCHANGED <<poll, tasks, clients, accepted>>
  BY <1>2, SameSets DEF reactorVars, serverVars
<1>6. TypeOK'
  <2>1. th' \in [Threads -> Recs] BY <1>4 DEF Goes, Becomes
  <2>2. Others BY OtherTypes DEF Others, serverVars, reactorVars
  <2>3. TrackedOK' BY <1>1, Types, SameEntries DEF reactorVars
  <2> QED BY <1>1, <1>3, <1>5, <2>1, <2>2, <2>3, PartTypes, NextTypes
<1>7. Settled BY <1>3, <1>5 DEF Settled
<1>8. Leaves("stop", c) /\ c <= accepted BY <1>1, Fields DEF Leaves
<1>9. SockInv'
  <2>1. \A x \in connected : x \in Conns BY <1>1, Types
  <2>2. \A d \in Dirs : Waiting[d] \subseteq Conns BY <1>1, Types
  <2> QED BY <1>1, <1>3, <1>5, <2>1, <2>2 DEF SockInv
<1>10. TrackInv' BY <1>1, <1>5, <1>7, TrackStays
<1>11. NotClosing' => connected' \subseteq Open' /\ \A d \in Dirs : Waiting'[d] \subseteq Open'
  <2>1. NotClosing' => OwnInv BY <1>3, History, Parts
  <2> QED BY <1>3, <1>5, <2>1 DEF OwnInv
<1>12. NotKept' => KnownInv'
  <2>1. NotKept' => KnownInv BY <1>3, History, Parts
  <2>2. \A x \in connected : sockfd'[x] = sockfd[x] BY <1>1, <1>3, Types
  <2> QED BY <1>5, <1>7, <2>1, <2>2, KnownStays
<1>13. \A i \in 1..Len(clients') : clients'[i] <= accepted BY <1>5, OtherTypes
<1> HIDE DEF c
<1> QED BY <1>1, <1>4, <1>6, <1>7, <1>8, <1>9, <1>10, <1>11, <1>12, <1>13, Settles

(* accept() of the next connection *)
LEMMA AcceptNextStep ==
  ASSUME TcpInv, NEW w \in Workers, NEW f \in NewFds, th[w].pc = "accept", AcceptNext(f, UsesOf(f)),
         connected' = connected \cup {accepted + 1},
         th' = [th EXCEPT ![w].pc = "new_client", ![w].s = accepted + 1],
         UNCHANGED <<reactorVars, reads, writes, bound, serverVars>>
  PROVE  TcpInv'
<1>1. TypeOK /\ ThreadInv /\ SockInv /\ AcceptedInv /\ DisconnectInv /\ TrackInv /\ ExecInv /\ TaskInv /\ PollInv
  BY Parts
<1>2. w \in Threads BY DEF Threads
<1> DEFINE c == accepted + 1
<1>3. accepted \in Nat /\ arrived \in 0..MaxConns /\ accepted < arrived /\ MaxConns \in Nat
  BY <1>1, Types, Kinds DEF AcceptNext, TypeOK, SocketsTypeOK
<1>4. c \in Conns /\ c \in Socks /\ c \in Nat /\ c > accepted /\ c <= arrived /\ c # Closed
  <2>1. c \in Conns BY <1>3 DEF Conns
  <2> QED BY <1>3, <2>1, Kinds
<1>5. /\ accepted' = c /\ kfd' = [kfd EXCEPT ![f] = c] /\ sockfd' = [sockfd EXCEPT ![c] = f]
      /\ UNCHANGED <<arrived, steps, unread, eof>> /\ connected' = connected \cup {c}
      /\ th' = [th EXCEPT ![w].pc = "new_client", ![w].s = c] /\ reused' = reused \cup UsesOf(f)
      /\ Denotes(sockfd[Server]) = Server
  BY DEF AcceptNext
<1> HIDE DEF c
<1>6. f \in Fds /\ f # NoFd /\ kfd[f] = Closed /\ UsesOf(f) \subseteq Uses /\ reused \subseteq Uses
  BY <1>1, NewNumber
<1>7. kfd \in [Fds -> Socks \cup {Closed, Stray}] /\ sockfd \in [Socks -> Fds \cup {NoFd}] BY <1>1, Types
<1>8. kfd' \in [Fds -> Socks \cup {Closed, Stray}] /\ sockfd' \in [Socks -> Fds \cup {NoFd}]
  BY <1>4, <1>5, <1>6, <1>7
<1>9. SocketsTypeOK'
  <2>1. accepted' \in 0..arrived BY <1>3, <1>4, <1>5
  <2>2. reused' \subseteq Uses BY <1>5, <1>6
  <2> QED BY <1>1, <1>5, <1>8, <2>1, <2>2 DEF TypeOK, SocketsTypeOK
<1>10. /\ sockfd'[c] = f /\ kfd'[f] = c /\ \A s \in Socks : s # c => sockfd'[s] = sockfd[s]
       /\ \A g \in Fds : g # f => kfd'[g] = kfd[g]
  BY <1>4, <1>5, <1>6, <1>7
<1>11. sockfd[c] = NoFd BY <1>1, <1>4 DEF AcceptedInv
<1>12. \A s \in Socks : s <= accepted => s # c /\ sockfd'[s] = sockfd[s]
  <2>1. \A s \in Socks : s <= accepted => s # c BY <1>3, <1>4, Kinds
  <2> QED BY <1>10, <2>1
<1>13. Open' = Open \cup {c}
  <2>1. c \in Open' BY <1>4, <1>6, <1>10 DEF Open, Denotes
  <2>2. ASSUME NEW x \in Conns, x # c PROVE x \in Open' <=> x \in Open
    <3>1. x \in Socks /\ sockfd'[x] = sockfd[x] /\ sockfd[x] \in Fds \cup {NoFd} /\ x # Closed
      BY <1>7, <1>10, <2>2, Kinds
    <3> QED BY <1>6, <1>10, <2>2, <3>1 DEF Open, Denotes
  <2>3. Open \subseteq Conns /\ Open' \subseteq Conns BY DEF Open
  <2> QED BY <1>4, <2>1, <2>2, <2>3
<1>14. HasInput' = HasInput /\ Waiting' = Waiting /\ Cb' = Cb /\ Exec' = Exec /\ Marked' = Marked
       /\ UNCHANGED <<poll, tasks, clients, tracked>>
  BY <1>5, SameSets DEF reactorVars, serverVars
<1>15. c \notin connected /\ \A d \in Dirs : c \notin Waiting[d] BY <1>1, <1>11 DEF SockInv
<1>16. Goes(w, "new_client", c, th[w].i)
  <2> DEFINE l == "new_client"
  <2>1. l \in Places /\ th' = [th EXCEPT ![w].pc = l, ![w].s = c] BY <1>5 DEF Places
  <2> HIDE DEF l
  <2>2. Becomes(w, l, th[w].task, c, th[w].i) BY <1>2, <1>4, <2>1, Fields, Updates
  <2> QED BY <1>2, <1>4, <2>1, <2>2, Fields DEF Goes, Follows, l
<1>17. th' \in [Threads -> Recs] /\ ThreadInv' /\ SameTasks BY <1>1, <1>2, <1>16, ThreadGoes
<1>18. th'[w].pc = "new_client" /\ th'[w].s = c /\ \A u \in Threads : u # w => th'[u] = th[u]
  BY <1>16 DEF Goes, Becomes
<1>19. TypeOK'
  <2>1. Others BY OtherTypes DEF Others, serverVars, reactorVars
  <2>2. TrackedOK' BY <1>1, <1>14, Types, SameEntries
  <2>3. connected' \subseteq Conns BY <1>1, <1>4, <1>5, Types
  <2>4. UNCHANGED <<reads, writes>> OBVIOUS
  <2> QED BY <1>1, <1>9, <1>14, <1>17, <2>1, <2>2, <2>3, <2>4, PartTypes, NextTypes
<1>20. SockInv'
  <2>1. ASSUME NEW x, x \in connected \/ \E d \in Dirs : x \in Waiting[d] PROVE sockfd'[x] = sockfd[x] /\ sockfd[x] # NoFd
    BY <1>1, <1>12, <2>1, HasFd
  <2>2. \A x \in connected' : sockfd'[x] # NoFd BY <1>5, <1>6, <1>10, <2>1
  <2>3. \A d \in Dirs : \A x \in Waiting'[d] : sockfd'[x] # NoFd BY <1>14, <2>1
  <2>4. Denotes(sockfd[Server])' = Server
    <3>1. Server \in Socks /\ Server # c /\ Server # Closed BY <1>4, Kinds DEF Closed, Server
    <3>2. sockfd'[Server] = sockfd[Server] /\ sockfd[Server] \in Fds \cup {NoFd} BY <1>7, <1>10, <3>1
    <3> QED BY <1>5, <1>6, <1>10, <3>1, <3>2 DEF Denotes
  <2> QED BY <2>2, <2>3, <2>4, Kinds DEF SockInv
<1>21. AcceptedInv'
  <2>1. ASSUME NEW x \in Conns, x > accepted' PROVE sockfd'[x] = NoFd
    <3>1. x \in Nat /\ x \in Socks BY Kinds
    <3>2. x # c /\ x > accepted BY <1>3, <1>4, <1>5, <2>1, <3>1
    <3> QED BY <1>1, <1>10, <3>1, <3>2 DEF AcceptedInv
  <2>2. ASSUME NEW u \in Threads PROVE th'[u].s <= accepted'
    <3>1. th[u].s <= accepted /\ th[u].s \in Nat BY Fields, Kinds
    <3>2. c <= c /\ th[u].s <= c BY <1>3, <1>4, <3>1
    <3> QED BY <1>5, <1>18, <3>2
  <2>3. ASSUME NEW i \in 1..Len(clients') PROVE clients'[i] <= accepted'
    <3>1. clients[i] <= accepted BY <1>1, <1>14 DEF AcceptedInv
    <3>2. clients[i] \in Conns BY <1>1, <1>14, Types
    <3> QED BY <1>3, <1>4, <1>5, <1>14, <3>1, <3>2, Kinds
  <2> QED BY <2>1, <2>2, <2>3 DEF AcceptedInv
<1>22. DisconnectInv'
  <2>1. ASSUME NEW u \in Threads, u # w
        PROVE  /\ th'[u].pc \in {"clear", "unregister", "close", "reset"} => th'[u].s \notin connected'
               /\ th'[u].pc \in {"unregister", "close", "reset"} => \A d \in Dirs : th'[u].s \notin Waiting'[d]
    <3>1. th[u].s # c BY <1>12, Fields
    <3> QED BY <1>1, <1>5, <1>14, <1>18, <2>1, <3>1 DEF DisconnectInv
  <2> QED BY <1>18, <2>1 DEF DisconnectInv
<1>23. ASSUME NEW x \in Conns, NEW g, NEW d \in Dirs, Serves(x, g, d)
       PROVE  x <= accepted' /\ sockfd'[x] \in {g, NoFd} /\ (x \in connected' => x \in Waiting'[d])
  <2>1. x <= accepted /\ x \in Socks /\ x \in Nat BY <1>23, Kinds DEF Serves
  <2>2. x # c /\ sockfd'[x] = sockfd[x] /\ x <= c BY <1>3, <1>4, <1>12, <2>1
  <2> QED BY <1>5, <1>14, <1>23, <2>2 DEF Serves
<1>24. TrackInv' BY <1>1, <1>14, <1>23 DEF TrackInv, Serves
<1>25. ExecInv' /\ PollInv' BY <1>1, <1>14, <1>17, ExecStays
<1>26. TaskInv'
  <2>1. ASSUME NEW k \in Tasks, TaskServed(k) PROVE StaysServed(k)
    <3>1. k.dir \in Dirs BY DEF Tasks
    <3> QED BY <1>23, <2>1, <3>1 DEF TaskServed, StaysServed
  <2>2. \A i \in 1..Len(tasks) : StaysServed(tasks[i]) BY <1>1, <2>1, Types DEF TaskInv
  <2>3. ASSUME NEW u \in Doing' PROVE StaysServed(th'[u].task)
    <3>1. u \in Doing /\ u \in Running /\ u \in Workers /\ th'[u].task = th[u].task
      BY <1>17 DEF SameTasks, Doing, Running, At
    <3> QED BY <1>1, <2>1, <3>1 DEF TaskInv, ThreadInv
  <2> QED BY <1>14, <2>2, <2>3 DEF TaskInv, TaskServed, Serves, StaysServed
<1>27. reused \subseteq reused' BY <1>5
<1>28. ASSUME NotClosing' PROVE OwnInv'
  <2>1. OwnInv BY <1>27, <1>28, History, Parts
  <2>2. ~Closes(f) BY <1>5, <1>28 DEF NotClosing, UsesOf, Uses
  <2>3. ASSUME NEW s, NEW g \in Fds \cup {NoFd}, g # f, Harmless(g, s) PROVE WillDenote(g) \notin Conns \ {s}
    BY <1>10, <2>3 DEF Harmless, Denotes, WillDenote
  <2>4. ASSUME NEW u \in Threads, u # w PROVE Spares(u)'
    <3>1. Spares(u) /\ th'[u] = th[u] BY <1>18, <2>1, <2>4 DEF OwnInv
    <3>2. th[u].s \in Socks /\ th[u].fd \in Fds \cup {NoFd} /\ sockfd'[th[u].s] = sockfd[th[u].s]
          /\ sockfd[th[u].s] \in Fds \cup {NoFd}
      BY <1>1, <1>7, <1>12, Fields, ThreadFields
    <3>3. CASE th[u].pc \in {"disconnect", "clear"}
      <4>1. sockfd[th[u].s] # f /\ Harmless(sockfd[th[u].s], th[u].s) BY <2>2, <3>1, <3>3 DEF Closes, Spares
      <4> QED BY <2>3, <3>1, <3>2, <3>3, <4>1 DEF Spares, Harmless, Denotes, WillDenote
    <3>4. CASE th[u].pc \in {"unregister", "close"}
      <4>1. /\ sockfd[th[u].s] # f /\ Harmless(sockfd[th[u].s], th[u].s)
            /\ th[u].fd # f /\ Harmless(th[u].fd, th[u].s)
        BY <2>2, <3>1, <3>4 DEF Closes, Spares, FdRead
      <4>2. WillDenote(sockfd[th[u].s]) \notin Conns \ {th[u].s} /\ WillDenote(th[u].fd) \notin Conns \ {th[u].s}
        BY <2>3, <3>2, <4>1
      <4> QED BY <3>1, <3>2, <3>4, <4>2 DEF Spares, Harmless, FdRead, Denotes, WillDenote
    <3>5. CASE th[u].pc \notin {"disconnect", "clear", "unregister", "close"} BY <3>1, <3>5 DEF Spares
    <3> QED BY <3>3, <3>4, <3>5
  <2>5. Spares(w)' BY <1>18 DEF Spares
  <2> QED BY <1>5, <1>13, <1>14, <2>1, <2>4, <2>5 DEF OwnInv
<1>29. ASSUME NEW d \in Dirs, f \notin DOMAIN tracked PROVE ~Exec[f][d] /\ ~Marked[f]
  <2>1. TrackedOK /\ Info(f) = NoInfo BY <1>1, <1>29, Types DEF Info
  <2>2. NoInfo.exec = Exec[f] /\ NoInfo.marked = Marked[f] BY <1>6, <2>1, InfoType
  <2> QED BY <2>2 DEF NoInfo
<1>30. ASSUME NotKept' PROVE KnownInv'
  <2>1. KnownInv BY <1>27, <1>30, History, Parts
  <2>2. f \notin DOMAIN tracked BY <1>5, <1>30 DEF NotKept, UsesOf, Uses
  <2>3. ~Marked[f] BY <1>29, <2>2 DEF Dirs
  <2>4. \A x \in connected : sockfd'[x] = sockfd[x] BY <1>1, <1>12, HasFd
  <2> QED BY <1>5, <1>10, <1>14, <1>15, <2>1, <2>3, <2>4 DEF KnownInv
<1>31. ASSUME Fresh' PROVE InputInv'
  <2>1. InputInv BY <1>27, <1>31, History, Parts
  <2>2. f \notin DOMAIN tracked /\ ~Reports(f) BY <1>5, <1>31 DEF Fresh, UsesOf, Uses
  <2>3. ASSUME NEW g, g # f, Fed(g) PROVE StaysFed(g)
    <3>1. ASSUME NEW x \in Open', sockfd'[x] = g PROVE x \in HasInput
      <4>1. x # c /\ x \in Open /\ x \in Socks BY <1>1, <1>10, <1>13, <2>3, <3>1, OpenHasFd
      <4> QED BY <1>10, <2>3, <3>1, <4>1 DEF Fed
    <3> QED BY <1>14, <3>1 DEF StaysFed
  <2>4. ASSUME NEW k \in Tasks, Exec[k.fd][k.dir] PROVE k.fd # f
    <3>1. k.dir \in Dirs BY DEF Tasks
    <3> QED BY <1>29, <2>2, <2>4, <3>1
  <2>5. ASSUME NEW i \in 1..Len(tasks), tasks[i].dir = "rd" PROVE StaysFed(tasks[i].fd)
    <3>1. tasks[i] \in Tasks /\ Exec[tasks[i].fd][tasks[i].dir] BY <1>1, Types DEF ExecInv
    <3> QED BY <2>1, <2>3, <2>4, <2>5, <3>1 DEF InputInv
  <2>6. ASSUME NEW u \in Doing', th'[u].task.dir = "rd" PROVE StaysFed(th'[u].task.fd)
    <3>1. u \in Doing /\ u \in Running /\ u \in Workers /\ th'[u].task = th[u].task
      BY <1>17 DEF SameTasks, Doing, Running, At
    <3>2. th[u].task \in Tasks /\ Exec[th[u].task.fd][th[u].task.dir] BY <1>1, <3>1 DEF ThreadInv, ExecInv
    <3> QED BY <2>1, <2>3, <2>4, <2>6, <3>1, <3>2 DEF InputInv
  <2>7. \A p \in poll.ready : p[2] = "rd" => StaysFed(p[1]) BY <2>1, <2>2, <2>3 DEF InputInv, Reports
  <2> QED BY <1>14, <2>5, <2>6, <2>7 DEF InputInv, Fed, StaysFed
<1> QED BY <1>17, <1>19, <1>20, <1>21, <1>22, <1>24, <1>25, <1>26, <1>28, <1>30, <1>31 DEF TcpInv, BaseInv

(* tcp_server::on_read_available() *)
LEMMA AcceptStep ==
  ASSUME TcpInv, NEW w \in Workers, Accept(w)
  PROVE  TcpInv'
<1>1. th[w].pc = "accept" /\ w \in Threads /\ UNCHANGED <<reactorVars, reads, writes, bound, serverVars>>
  BY DEF Accept, At, Threads
<1>2. CASE \E f \in NewFds : AcceptNext(f, UsesOf(f))
             /\ connected' = connected \cup {accepted + 1}
             /\ th' = [th EXCEPT ![w].pc = "new_client", ![w].s = accepted + 1]
  BY <1>1, <1>2, AcceptNextStep
<1>3. CASE Goto(w, "stop") /\ UNCHANGED <<sockVars, connected>>
  <2>1. Moving BY <1>1, <1>3, OtherTypes DEF Moving, Others, serverVars, reactorVars
  <2> QED BY <1>1, <1>3, <2>1, Gotos, PlainPlaces
<1>4. CASE \E f \in NewFds : AcceptClosed(f, UsesOf(f)) /\ Goto(w, "stop") /\ UNCHANGED connected
  BY <1>1, <1>4, AcceptClosedStep
<1> QED BY <1>2, <1>3, <1>4 DEF Accept

-----------------------------------------------------------------------------
(* The initial state and the theorems.                                     *)

(* TcpInv holds at first. *)
LEMMA InitHolds ==
  ASSUME Init
  PROVE  TcpInv
<1>1. SocketsTypeOK /\ accepted = 0 /\ reused = {} /\ \A s \in Socks : sockfd[s] = NoFd
  BY Kinds, SocketsAssumption DEF Init, SocketsInit, SocketsTypeOK
<1>2. /\ tracked = <<>> /\ poll = PollTop /\ pipe = FALSE /\ tasks = <<>> /\ poll_stop = FALSE
  BY DEF Init, ReactorInit
<1>3. DOMAIN tracked = {} BY <1>2
<1>4. ReactorTypeOK
  <2>1. poll \in [pc : {"top", "select", "dispatch", "exited"}, asked : SUBSET (Fds \X Dirs),
                  ready : SUBSET (Fds \X Dirs), notified : BOOLEAN]
    BY <1>2 DEF PollTop
  <2>2. tasks \in Seq(Tasks) BY <1>2
  <2> QED BY <1>2, <1>3, <2>1, <2>2 DEF ReactorTypeOK
<1>5. \A t \in Threads : th[t].pc \in {"start", "idle"} /\ th[t].task = NoTask /\ th[t].s = Server /\ th[t].i = 1
  BY DEF Init
<1>6. th \in [Threads -> Recs] BY Kinds DEF Init, Recs, Places
<1>7. /\ connected = {} /\ bound = {} /\ reads = [c \in Conns |-> 0] /\ writes = [c \in Conns |-> <<>>]
      /\ clients = <<>> /\ mutex = Nobody /\ is_running = FALSE /\ new_cb = FALSE
  BY DEF Init
<1>8. TypeOK
  <2>1. <<>> \in Seq(Conns) /\ <<>> \in Seq({"result", "error"}) OBVIOUS
  <2> QED BY <1>1, <1>4, <1>6, <1>7, <2>1 DEF TypeOK, Recs
<1>9. \A w \in Workers : w \in Threads /\ w # Owner BY TcpServerAssumption DEF Threads
<1>10. Running = {} /\ Doing = {} BY <1>9 DEF Running, Doing, At, Init
<1>11. ThreadInv BY <1>5, <1>9, <1>10 DEF ThreadInv
<1>12. \A d \in Dirs : Waiting[d] = {} BY <1>7 DEF Waiting, Pending
<1>13. SockInv BY <1>1, <1>7, <1>12, Kinds DEF SockInv, Denotes
<1>14. AcceptedInv
  <2>1. \A c \in Conns : c \in Socks BY Kinds
  <2> QED BY <1>1, <1>5, <1>7, <2>1 DEF AcceptedInv, Server
<1>15. DisconnectInv BY <1>5 DEF DisconnectInv
<1>16. \A f \in Fds, d \in Dirs : Cb[f][d] = NoCb /\ ~Exec[f][d] BY <1>3 DEF Cb, Exec, Info, NoInfo
<1>17. TrackInv BY <1>7, <1>16, Kinds DEF TrackInv
<1>18. ExecInv /\ TaskInv
  <2>1. \A i \in 1..Len(tasks) : FALSE BY <1>2
  <2> QED BY <1>10, <2>1 DEF ExecInv, TaskInv
<1>19. PollInv BY <1>2 DEF PollInv, PollTop
<1>20. OwnInv BY <1>5, <1>7, <1>12 DEF OwnInv, Spares
<1>21. KnownInv BY <1>7 DEF KnownInv
<1>22. InputInv
  <2>1. \A i \in 1..Len(tasks) : FALSE BY <1>2
  <2>2. poll.ready = {} BY <1>2 DEF PollTop
  <2> QED BY <1>10, <2>1, <2>2 DEF InputInv
<1> QED BY <1>8, <1>11, <1>13, <1>14, <1>15, <1>17, <1>18, <1>19, <1>20, <1>21, <1>22 DEF TcpInv, BaseInv

(* Every step keeps it. *)
LEMMA NextKeeps ==
  ASSUME TcpInv, [Next]_vars
  PROVE  TcpInv'
<1>1. CASE PollThread
  <2>1. UNCHANGED <<sockVars, poll_stop, clientVars, serverVars, th>> BY <1>1 DEF PollThread, Poll
  <2>2. CASE Dispatch BY <2>1, <2>2, DispatchStep
  <2>3. CASE PollExit \/ InitSelectFds \/ SelectFails \/ Select BY <2>1, <2>3, SelectSteps
  <2> QED BY <1>1, <2>2, <2>3 DEF PollThread, Poll
<1>2. ASSUME NEW t \in Threads, DisconnectStep(t) \/ StopStep(t) PROVE TcpInv'
  <2>1. CASE DisconnectStep(t)
    BY <2>1, DisconnectFlagStep, ClearReqsStep, UnregisterFdStep, CloseFdStep, ResetFdStep, WaitStep, LockStep,
       EraseClientStep DEF DisconnectStep
  <2>2. CASE StopStep(t)
    BY <2>2, StopCallStep, UnsetRunningStep, LockAllStep, NextClientStep, ClearClientsStep DEF StopStep
  <2> QED BY <1>2, <2>1, <2>2
<1>3. CASE OwnerStep
  <2>1. Owner \in Threads BY DEF Threads
  <2> QED BY <1>2, <1>3, <2>1, StartStep, OwnerSteps DEF OwnerStep
<1>4. CASE CallStop \/ EndReactor BY <1>4, OwnerSteps
<1>5. CASE Peer BY <1>5, PeerStep
<1>6. ASSUME NEW w \in Workers, Worker(w) PROVE TcpInv'
  <2>1. w \in Threads BY DEF Threads
  <2>2. CASE DisconnectStep(w) \/ StopStep(w) BY <1>2, <2>1, <2>2
  <2>3. CASE Take(w) \/ EndCallback(w) \/ Accept(w) BY <2>3, TakeStep, EndCallbackStep, AcceptStep
  <2>4. CASE DoNothing(w) \/ DoRead(w) \/ DoWrite(w) BY <2>4, DoNothingStep, DoReadStep, DoWriteStep
  <2>5. CASE Answer(w) \/ ReadAgain(w) \/ NewClient(w) \/ Bind(w) \/ AppendClient(w)
    BY <2>5, AnswerStep, ReadAgainStep, NewClientStep, BindStep, AppendClientStep
  <2> QED BY <1>6, <2>2, <2>3, <2>4, <2>5 DEF Worker
<1>7. CASE UNCHANGED vars
  <2>1. UNCHANGED <<sockVars, reactorVars, clientVars, serverVars, th>> BY <1>7 DEF vars
  <2>2. UNCHANGED <<kfd, sockfd, accepted, reused, tracked, tasks, connected, reads, writes, clients, th, unread, eof, poll>>
    BY <2>1 DEF sockVars, kernelVars, reactorVars, clientVars, serverVars
  <2>3. TypeOK /\ PollInv BY Parts
  <2>4. Open' = Open /\ HasInput' = HasInput /\ Exec' = Exec BY <2>2, SameSets
  <2>5. PollInv' BY <2>2, <2>3, <2>4 DEF PollInv
  <2>6. Others BY <2>1, OtherTypes DEF Others, serverVars, clientVars, reactorVars
  <2>7. th' \in [Threads -> Recs] BY <2>2, <2>3, Types
  <2>8. TypeOK' BY <2>1, <2>2, <2>3, <2>6, <2>7, MoveTypes
  <2>9. Fresh => \A p \in poll'.ready : p[2] = "rd" => StaysFed(p[1])
    <3>1. \A f : Fed(f) => StaysFed(f) BY <2>2, <2>4 DEF Fed, StaysFed
    <3> QED BY <2>2, <3>1, Parts DEF InputInv
  <2> QED BY <2>2, <2>4, <2>5, <2>8, <2>9, Rests
<1> QED BY <1>1, <1>3, <1>4, <1>5, <1>6, <1>7 DEF Next

(* The sockets, requests, callbacks and threads of the TCP library stay      *)
(* consistent in every reachable state, whatever the number of connections,  *)
(* workers and steps of the peers: the first part of TcpInv whichever numbers *)
(* the kernel gives out, the others until one is reused that the library uses. *)
THEOREM TcpInductive == Spec => []TcpInv
<1>1. Init => TcpInv BY InitHolds
<1>2. TcpInv /\ [Next]_vars => TcpInv' BY NextKeeps
<1> QED BY <1>1, <1>2, PTL DEF Spec

(* Until the kernel gives out a number that another disconnect() is still to *)
(* close, a request is pending only on a descriptor that is open and is its  *)
(* client's own, although disconnect() runs in several threads and closes    *)
(* before fd_ is reset, and although numbers are reused in every other way.  *)
THEOREM RequestsOwnTheirFd == Spec => []OwnDescriptor
<1>1. TcpInv => OwnDescriptor
  <2> SUFFICES ASSUME TcpInv, NotClosing, NEW c \in Conns, NEW d \in Dirs, Pending(c, d)
               PROVE  Denotes(sockfd[c]) = c
    BY DEF OwnDescriptor, RequestOnOwnConnection, NotClosing
  <2>1. c \in Waiting[d] BY DEF Waiting
  <2>2. c \in Open BY <2>1, Parts DEF OwnInv
  <2> QED BY <2>2 DEF Open
<1> QED BY <1>1, TcpInductive, PTL

(* Until the kernel gives out a number that is still to be closed or that    *)
(* tracked_fds_ still has, the reactor has the callback of every pending     *)
(* request of a connected client: no unregistration, end of a callback or    *)
(* erasure in dispatch_select() loses it.                                  *)
THEOREM ReactorKnowsRequests == Spec => []NotForgotten
<1>1. TcpInv => NotForgotten
  <2> SUFFICES ASSUME TcpInv, NotKept, NEW c \in connected, NEW d \in Dirs, Pending(c, d)
               PROVE  sockfd[c] \in DOMAIN tracked /\ tracked[sockfd[c]].cb[d] = c
    BY DEF NotForgotten, ReactorHasRequests, NotKept
  <2>1. TypeOK /\ SockInv /\ AcceptedInv /\ KnownInv /\ TrackedOK BY Types, Parts
  <2>2. c \in Conns /\ sockfd[c] \in Fds BY <2>1, HasFd
  <2>3. c \in Waiting[d] BY <2>2 DEF Waiting
  <2>4. Cb[sockfd[c]][d] = c BY <2>1, <2>3 DEF KnownInv
  <2>5. Info(sockfd[c]).cb = Cb[sockfd[c]] BY <2>1, <2>2, InfoType
  <2>6. c # NoCb /\ NoInfo.cb[d] = NoCb BY <2>2, Kinds DEF NoInfo
  <2>7. sockfd[c] \in DOMAIN tracked BY <2>4, <2>5, <2>6 DEF Info
  <2> QED BY <2>4, <2>5, <2>7 DEF Info
<1> QED BY <1>1, TcpInductive, PTL

(* Until the kernel gives out a number that the library still uses, no       *)
(* callback blocks its worker in recv(): what select() reported readable is  *)
(* still so when it is read.                                               *)
THEOREM WorkersNeverBlock == Spec => []NeverBlocks
<1>1. TcpInv => NeverBlocks
  <2> SUFFICES ASSUME TcpInv, Fresh, NEW w \in Workers, NEW c \in Conns, Blocked(w, c) PROVE FALSE
    BY DEF NeverBlocks, HandlersDoNotBlock, Fresh
  <2>1. TypeOK /\ TaskInv /\ OwnInv /\ InputInv BY Parts
  <2>2. w \in Doing /\ th[w].task.cb = c /\ th[w].task.dir = "rd" /\ reads[c] > 0 /\ RecvBlocks(c)
    BY DEF Blocked, Doing, Me
  <2>3. c \in Waiting["rd"] BY <2>2 DEF Waiting, Pending, Dirs
  <2>4. c \in Open BY <2>1, <2>3 DEF OwnInv, Dirs
  <2>5. sockfd[c] # NoFd /\ Denotes(sockfd[c]) = c BY <2>1, <2>4, OpenHasFd DEF Open
  <2>6. sockfd[c] = th[w].task.fd BY <2>1, <2>2, <2>5 DEF TaskInv, TaskServed, Serves
  <2>7. c \in HasInput BY <2>1, <2>2, <2>4, <2>6 DEF InputInv, Fed
  <2> QED BY <2>2, <2>5, <2>7 DEF RecvBlocks, Readable, HasInput
<1> QED BY <1>1, TcpInductive, PTL

(* Whichever numbers the kernel gives out, a callback of a connected client  *)
(* finds a request, so that do_read() and do_write() never return a          *)
(* result.success that was not written.                                    *)
THEOREM CallbackFindsRequest == Spec => []FindsRequest
<1>1. TcpInv => FindsRequest
  <2> SUFFICES ASSUME TcpInv, NEW w \in Workers, At(w, "do"), Me(w) \in connected
               PROVE  Pending(Me(w), th[w].task.dir)
    BY DEF FindsRequest
  <2>1. TypeOK /\ ThreadInv /\ TaskInv BY Parts
  <2> DEFINE k == th[w].task
  <2>2. w \in Doing /\ w \in Running BY DEF Doing, Running, At
  <2>3. k.dir \in Dirs /\ TaskServed(k) /\ k.cb = Me(w) BY <2>1, <2>2 DEF ThreadInv, TaskInv, Tasks, Me
  <2>4. Me(w) \in Conns BY <2>1, Types
  <2>5. Me(w) \in Waiting[k.dir] BY <2>3, <2>4 DEF TaskServed, Serves
  <2> QED BY <2>3, <2>5 DEF Waiting
<1> QED BY <1>1, TcpInductive, PTL
==============================================================================
