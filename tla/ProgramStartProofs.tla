------------------------- MODULE ProgramStartProofs -------------------------
(***************************************************************************)
(* A server of Lab 3 that starts runs with what its options and its file   *)
(* ask for, and nothing starts from a file that is wrong anywhere, for     *)
(* every file and every command line.  The lemmas follow the loop of       *)
(* get_conf(): what one more line changes in what the file says (Longer),  *)
(* and that the configuration changes alike (LineRead); then one lemma per *)
(* step of main().                                                         *)
(***************************************************************************)
EXTENDS ProgramStart, SequenceTheorems, FiniteSetTheorems, WellFoundedInduction, TLAPS

(* A nonempty set of positions has a greatest element. *)
LEMMA GreatestOf ==
  ASSUME NEW N \in Nat, NEW S, S \subseteq 1..N, S # {}
  PROVE  Max(S) \in S /\ \A y \in S : Max(S) >= y
<1> DEFINE T == {N - y : y \in S}
<1>1. T \subseteq Nat /\ T # {}
  <2>1. \A y \in S : N - y \in Nat
    OBVIOUS
  <2>2. PICK y : y \in S
    OBVIOUS
  <2>3. N - y \in T
    BY <2>2
  <2> QED
    BY <2>1, <2>3
<1>2. PICK t \in T : \A u \in T : ~(<<u, t>> \in OpToRel(<, Nat))
  <2> HIDE DEF T
  <2> QED
    BY <1>1, NatLessThanWellFounded, WFMin
<1>3. \A u \in T : ~(u < t)
  <2> HIDE DEF T
  <2> QED
    BY <1>1, <1>2 DEF OpToRel
<1>4. PICK x \in S : t = N - x
  OBVIOUS
<1>5. \A y \in S : x >= y
  <2> SUFFICES ASSUME NEW y \in S PROVE x >= y
    OBVIOUS
  <2>1. N - y \in T
    OBVIOUS
  <2>2. ~(N - y < N - x)
    BY <1>3, <1>4, <2>1
  <2> QED
    BY <2>2
<1> QED
  BY <1>5 DEF Max

(* One more line. *)
LEMMA OneMore ==
  ASSUME NEW f \in Seq(FileLines), NEW l \in FileLines, NEW h, h = Append(f, l)
  PROVE  /\ h \in Seq(FileLines) /\ Len(f) \in Nat /\ Len(h) = Len(f) + 1
         /\ h[Len(f) + 1] = l /\ \A i \in 1..Len(f) : h[i] = f[i]
<1>1. Len(f) \in Nat
  BY LenProperties
<1> QED
  BY <1>1, AppendProperties

\* What one more line l changes in what the file says of a field.
Longer(h, f, l, op) ==
  IF IsOption(l) /\ l.op = op
  THEN /\ Gives(h, op) = Gives(f, op) \cup {Len(f) + 1}
       /\ Latest(h, op) = l.value
  ELSE /\ Gives(h, op) = Gives(f, op)
       /\ Gives(f, op) # {} => Latest(h, op) = Latest(f, op)

(* The line counts for its field and for no other. *)
LEMMA LineCounts ==
  ASSUME NEW f \in Seq(FileLines), NEW l \in FileLines, NEW h, h = Append(f, l), NEW op
  PROVE  Longer(h, f, l, op)
<1>1. /\ h \in Seq(FileLines) /\ Len(f) \in Nat /\ Len(h) = Len(f) + 1
      /\ h[Len(f) + 1] = l /\ \A i \in 1..Len(f) : h[i] = f[i]
  BY OneMore
<1>2. PICK N \in Nat : N = Len(f)
  BY <1>1
<1>3. PICK G, H : G = Gives(f, op) /\ H = Gives(h, op)
  OBVIOUS
<1>4. G \subseteq 1..N /\ H \subseteq 1..(N + 1)
  BY <1>1, <1>2, <1>3 DEF Gives
<1>5. \A i \in 1..N : i \in H <=> i \in G
  BY <1>1, <1>2, <1>3 DEF Gives
<1>6. N + 1 \in H <=> IsOption(l) /\ l.op = op
  BY <1>1, <1>2, <1>3 DEF Gives
<1>7. \A i \in H : i \in 1..N \/ i = N + 1
  BY <1>4
<1>8. CASE IsOption(l) /\ l.op = op
  <2>1. H = G \cup {N + 1}
    <3>1. N + 1 \in H
      BY <1>6, <1>8
    <3>2. \A i \in H : i \in G \cup {N + 1}
      BY <1>5, <1>7
    <3>3. \A i \in G : i \in H
      BY <1>4, <1>5
    <3> QED
      BY <3>1, <3>2, <3>3
  <2>2. Max(H) \in H /\ \A y \in H : Max(H) >= y
    <3>1. PICK M \in Nat : M = N + 1
      OBVIOUS
    <3>2. H \subseteq 1..M /\ H # {}
      BY <1>4, <2>1, <3>1
    <3> QED
      BY <3>2, GreatestOf
  <2>3. Max(H) = N + 1
    <3>1. Max(H) \in 1..(N + 1) /\ Max(H) >= N + 1
      BY <1>4, <2>1, <2>2
    <3> QED
      BY <3>1
  <2> QED
    BY <1>1, <1>2, <1>3, <1>8, <2>1, <2>3 DEF Longer, Latest
<1>9. CASE ~(IsOption(l) /\ l.op = op)
  <2>1. H = G
    <3>1. N + 1 \notin H
      BY <1>6, <1>9
    <3>2. \A i \in H : i \in G
      BY <1>5, <1>7, <3>1
    <3>3. \A i \in G : i \in H
      BY <1>4, <1>5
    <3> QED
      BY <3>2, <3>3
  <2>2. ASSUME G # {} PROVE h[Max(H)] = f[Max(G)]
    <3>1. Max(G) \in G
      BY <1>4, <2>2, GreatestOf
    <3> QED
      BY <1>1, <1>2, <1>4, <2>1, <3>1
  <2> QED
    BY <1>3, <1>9, <2>1, <2>2 DEF Longer, Latest
<1> QED
  BY <1>8, <1>9

(* The lines that are good stay good. *)
LEMMA GoodStay ==
  ASSUME NEW f \in Seq(FileLines), NEW l \in FileLines, NEW h, h = Append(f, l),
         \A i \in 1..Len(f) : GoodLine(f, i), GoodLine(h, Len(f) + 1)
  PROVE  \A i \in 1..Len(h) : GoodLine(h, i)
<1>1. /\ h \in Seq(FileLines) /\ Len(f) \in Nat /\ Len(h) = Len(f) + 1
      /\ h[Len(f) + 1] = l /\ \A i \in 1..Len(f) : h[i] = f[i]
  BY OneMore
<1>2. ASSUME NEW i \in 1..Len(f) PROVE GoodLine(h, i)
  <2>1. h[i] = f[i] /\ \A j \in 1..(i - 1) : h[j] = f[j]
    BY <1>1
  <2>2. GoodLine(f, i)
    OBVIOUS
  <2> QED
    BY <2>1, <2>2 DEF GoodLine
<1>3. \A i \in 1..Len(h) : i \in 1..Len(f) \/ i = Len(f) + 1
  BY <1>1
<1> QED
  BY <1>2, <1>3

(* The place of a line among those that name a participant. *)
LEMMA Places ==
  ASSUME NEW f \in Seq(FileLines)
  PROVE  /\ IsFiniteSet(Gives(f, "participant_info")) /\ Cardinality(Gives(f, "participant_info")) \in Nat
         /\ \A i \in Gives(f, "participant_info") : Place(f, i) \in 1..Cardinality(Gives(f, "participant_info"))
<1>1. Len(f) \in Nat
  BY LenProperties
<1>2. PICK G : G = Gives(f, "participant_info")
  OBVIOUS
<1>3. G \subseteq 1..Len(f)
  BY <1>2 DEF Gives
<1>4. IsFiniteSet(G) /\ Cardinality(G) \in Nat
  <2>1. IsFiniteSet(1..Len(f))
    BY <1>1, FS_Interval
  <2>2. IsFiniteSet(G)
    BY <1>3, <2>1, FS_Subset
  <2> QED
    BY <2>2, FS_CardinalityType
<1>5. ASSUME NEW i \in G PROVE Place(f, i) \in 1..Cardinality(G)
  <2>1. PICK S : S = {j \in G : j <= i}
    OBVIOUS
  <2>2. S \in SUBSET G /\ i \in S
    BY <1>1, <1>3, <2>1
  <2>3. IsFiniteSet(S) /\ Cardinality(S) <= Cardinality(G)
    BY <1>4, <2>2, FS_Subset
  <2>4. Cardinality(S) \in Nat /\ Cardinality(S) # 0
    BY <2>2, <2>3, FS_CardinalityType, FS_EmptySet
  <2>5. Place(f, i) = Cardinality(S)
    BY <1>2, <2>1 DEF Place
  <2> QED
    BY <1>4, <2>3, <2>4, <2>5
<1> QED
  BY <1>2, <1>4, <1>5

\* The addresses and ports that the lines name.
LineIps   == {l.value.ip : l \in FileLines}
LinePorts == {Port(l.value.port) : l \in FileLines}

(* One more participant. *)
LEMMA PeersLonger ==
  ASSUME NEW f \in Seq(FileLines), NEW l \in FileLines, NEW h, h = Append(f, l),
         IsOption(l), l.op = "participant_info", NEW c, PeersAsGiven(f, c),
         c.participant_addrs \in Seq(LineIps), c.participant_ports \in Seq(LinePorts),
         NEW d, d.participant_addrs = Append(c.participant_addrs, l.value.ip),
         d.participant_ports = Append(c.participant_ports, Port(l.value.port))
  PROVE  /\ PeersAsGiven(h, d)
         /\ d.participant_addrs \in Seq(LineIps) /\ d.participant_ports \in Seq(LinePorts)
<1>1. /\ h \in Seq(FileLines) /\ Len(f) \in Nat /\ Len(h) = Len(f) + 1
      /\ h[Len(f) + 1] = l /\ \A i \in 1..Len(f) : h[i] = f[i]
  BY OneMore
<1>2. PICK G, H, n : G = Gives(f, "participant_info") /\ H = Gives(h, "participant_info") /\ n = Cardinality(G)
  OBVIOUS
<1>3. H = G \cup {Len(f) + 1}
  <2>1. Longer(h, f, l, "participant_info")
    BY LineCounts
  <2> QED
    BY <1>2, <2>1 DEF Longer
<1>4. IsFiniteSet(G) /\ n \in Nat /\ \A i \in G : Place(f, i) \in 1..n
  BY <1>2, Places
<1>5. G \subseteq 1..Len(f)
  BY <1>2 DEF Gives
<1>6. Cardinality(H) = n + 1
  <2>1. Len(f) + 1 \notin G
    BY <1>1, <1>5
  <2> QED
    BY <1>2, <1>3, <1>4, <2>1, FS_AddElement
<1>7. PICK A, B : A = c.participant_addrs /\ B = c.participant_ports
  OBVIOUS
<1>8. PICK x \in LineIps, y \in LinePorts : x = l.value.ip /\ y = Port(l.value.port)
  BY DEF LineIps, LinePorts
<1>9. A \in Seq(LineIps) /\ B \in Seq(LinePorts) /\ Len(A) = n /\ Len(B) = n
  BY <1>2, <1>7 DEF PeersAsGiven
<1>10. /\ Append(A, x) \in Seq(LineIps) /\ Len(Append(A, x)) = n + 1
       /\ Append(A, x)[n + 1] = x /\ \A i \in 1..n : Append(A, x)[i] = A[i]
  BY <1>9, AppendProperties
<1>11. /\ Append(B, y) \in Seq(LinePorts) /\ Len(Append(B, y)) = n + 1
       /\ Append(B, y)[n + 1] = y /\ \A i \in 1..n : Append(B, y)[i] = B[i]
  BY <1>9, AppendProperties
<1>12. d.participant_addrs = Append(A, x) /\ d.participant_ports = Append(B, y)
  BY <1>7, <1>8
<1>13. ASSUME NEW i \in G
       PROVE  d.participant_addrs[Place(h, i)] = h[i].value.ip /\ d.participant_ports[Place(h, i)] = Port(h[i].value.port)
  <2>1. {j \in H : j <= i} = {j \in G : j <= i}
    BY <1>1, <1>3, <1>5
  <2>2. Place(h, i) = Place(f, i)
    BY <1>2, <2>1 DEF Place
  <2>3. A[Place(f, i)] = f[i].value.ip /\ B[Place(f, i)] = Port(f[i].value.port)
    BY <1>2, <1>7 DEF PeersAsGiven
  <2>4. h[i] = f[i] /\ Place(f, i) \in 1..n
    BY <1>1, <1>4, <1>5
  <2> QED
    BY <1>10, <1>11, <1>12, <2>2, <2>3, <2>4
<1>14. d.participant_addrs[Place(h, Len(f) + 1)] = l.value.ip /\ d.participant_ports[Place(h, Len(f) + 1)] = Port(l.value.port)
  <2>0. \A j \in H : j <= Len(f) + 1
    BY <1>1, <1>3, <1>5
  <2>1. {j \in H : j <= Len(f) + 1} = H
    BY <2>0
  <2>2. Place(h, Len(f) + 1) = n + 1
    BY <1>2, <1>6, <2>1 DEF Place
  <2> QED
    BY <1>8, <1>10, <1>11, <1>12, <2>2
<1>15. ASSUME NEW i \in H
       PROVE  d.participant_addrs[Place(h, i)] = h[i].value.ip /\ d.participant_ports[Place(h, i)] = Port(h[i].value.port)
  <2>1. i \in G \/ i = Len(f) + 1
    BY <1>3
  <2> QED
    BY <1>1, <1>13, <1>14, <2>1
<1> QED
  BY <1>2, <1>6, <1>10, <1>11, <1>12, <1>15 DEF PeersAsGiven

\* h says of a field what f says.
Same(h, f, op) == Gives(h, op) = Gives(f, op) /\ (Gives(f, op) # {} => Latest(h, op) = Latest(f, op))

(* A line says nothing of the fields that are not its own. *)
LEMMA SameElsewhere ==
  ASSUME NEW f \in Seq(FileLines), NEW l \in FileLines, NEW h, h = Append(f, l), NEW op,
         ~(IsOption(l) /\ l.op = op)
  PROVE  Same(h, f, op)
<1>1. Longer(h, f, l, op)
  BY LineCounts
<1> QED
  BY <1>1 DEF Longer, Same

(* And of its own what it says. *)
LEMMA SaidHere ==
  ASSUME NEW f \in Seq(FileLines), NEW l \in FileLines, NEW h, h = Append(f, l), IsOption(l)
  PROVE  Gives(h, l.op) # {} /\ Latest(h, l.op) = l.value
<1>1. Longer(h, f, l, l.op)
  BY LineCounts
<1> QED
  BY <1>1 DEF Longer

(* What such a line leaves as it was. *)
LEMMA OwnStays ==
  ASSUME NEW f, NEW h, NEW c, NEW d, Same(h, f, OwnField(c.mode)), AddrAsGiven(f, c), PortAsGiven(f, c),
         d.mode = c.mode, d.addr = c.addr, d.port = c.port
  PROVE  AddrAsGiven(h, d) /\ PortAsGiven(h, d)
<1>1. PICK o : o = OwnField(c.mode)
  OBVIOUS
<1>2. OwnField(d.mode) = o
  BY <1>1
<1> QED
  BY <1>1, <1>2 DEF Same, AddrAsGiven, PortAsGiven

LEMMA PeersStay ==
  ASSUME NEW f \in Seq(FileLines), NEW l \in FileLines, NEW h, h = Append(f, l), NEW c, NEW d,
         Same(h, f, "participant_info"), PeersAsGiven(f, c),
         d.participant_addrs = c.participant_addrs, d.participant_ports = c.participant_ports
  PROVE  PeersAsGiven(h, d)
<1>1. /\ h \in Seq(FileLines) /\ Len(f) \in Nat /\ Len(h) = Len(f) + 1
      /\ h[Len(f) + 1] = l /\ \A i \in 1..Len(f) : h[i] = f[i]
  BY OneMore
<1>2. PICK G : G = Gives(f, "participant_info") /\ G = Gives(h, "participant_info")
  BY DEF Same
<1>3. G \subseteq 1..Len(f)
  BY <1>2 DEF Gives
<1>4. \A i \in G : h[i] = f[i] /\ Place(h, i) = Place(f, i)
  BY <1>1, <1>2, <1>3 DEF Place
<1> QED
  BY <1>2, <1>4 DEF PeersAsGiven

LEMMA CoordinatorStays ==
  ASSUME NEW f, NEW h, NEW c, NEW d, Same(h, f, "coordinator_info"), CoordinatorAsGiven(f, c),
         d.coordinator_addr = c.coordinator_addr, d.coordinator_port = c.coordinator_port
  PROVE  CoordinatorAsGiven(h, d)
BY DEF Same, CoordinatorAsGiven

\* The members of the two configurations.
CoordinatorShape(c) ==
  /\ c = [mode |-> "coordinator", addr |-> c.addr, port |-> c.port, num_workers |-> c.num_workers,
          participant_addrs |-> c.participant_addrs, participant_ports |-> c.participant_ports]
  /\ c.participant_addrs \in Seq(LineIps) /\ c.participant_ports \in Seq(LinePorts)
ParticipantShape(c) ==
  c = [mode |-> "participant", addr |-> c.addr, port |-> c.port, num_workers |-> c.num_workers,
       coordinator_addr |-> c.coordinator_addr, coordinator_port |-> c.coordinator_port,
       storage_path |-> c.storage_path]
Shaped(c) == c = NoConf \/ CoordinatorShape(c) \/ ParticipantShape(c)

(* The mode tells them apart. *)
LEMMA ShapeByMode ==
  ASSUME NEW c, Shaped(c)
  PROVE  /\ c.mode \in {"none", "coordinator", "participant"}
         /\ c.mode = "none" <=> c = NoConf
         /\ c.mode = "coordinator" => CoordinatorShape(c)
         /\ c.mode = "participant" => ParticipantShape(c)
<1>1. ASSUME c = NoConf PROVE c.mode = "none"
  BY <1>1 DEF NoConf
<1>2. ASSUME CoordinatorShape(c) PROVE c.mode = "coordinator"
  BY <1>2 DEF CoordinatorShape
<1>3. ASSUME ParticipantShape(c) PROVE c.mode = "participant"
  BY <1>3 DEF ParticipantShape
<1> QED
  BY <1>1, <1>2, <1>3 DEF Shaped

(* A new configuration. *)
LEMMA NewCoordinator ==
  ASSUME NEW g, NEW c, c = NewConf("coordinator", g)
  PROVE  CoordinatorShape(c) /\ c.mode = "coordinator" /\ c.addr = NotSet /\ c.participant_addrs = <<>> /\ c.participant_ports = <<>>
<1>1. c = [mode |-> "coordinator", addr |-> NotSet, port |-> g, num_workers |-> 2,
           participant_addrs |-> <<>>, participant_ports |-> <<>>]
  BY DEF NewConf, CoordinatorConf
<1>2. /\ c.mode = "coordinator" /\ c.addr = NotSet /\ c.port = g /\ c.num_workers = 2
      /\ c.participant_addrs = <<>> /\ c.participant_ports = <<>>
  BY <1>1
<1>3. <<>> \in Seq(LineIps) /\ <<>> \in Seq(LinePorts)
  OBVIOUS
<1> QED
  BY <1>1, <1>2, <1>3, Zenon DEF CoordinatorShape

LEMMA NewParticipant ==
  ASSUME NEW g, NEW c, c = NewConf("participant", g)
  PROVE  /\ ParticipantShape(c) /\ c.mode = "participant" /\ c.addr = NotSet
         /\ c.coordinator_addr = DefaultCoordinator /\ c.coordinator_port = 8080 /\ c.storage_path = DefaultPath
<1>1. c = [mode |-> "participant", addr |-> NotSet, port |-> g, num_workers |-> 2,
           coordinator_addr |-> DefaultCoordinator, coordinator_port |-> 8080, storage_path |-> DefaultPath]
  BY DEF NewConf, ParticipantConf
<1>2. /\ c.mode = "participant" /\ c.addr = NotSet /\ c.port = g /\ c.num_workers = 2
      /\ c.coordinator_addr = DefaultCoordinator /\ c.coordinator_port = 8080 /\ c.storage_path = DefaultPath
  BY <1>1
<1> QED
  BY <1>1, <1>2 DEF ParticipantShape

-----------------------------------------------------------------------------
(* get_conf(): the lines.                                                  *)

(* A line for the server's own address. *)
LEMMA OwnSaid ==
  ASSUME NEW h, NEW d, NEW v, Gives(h, OwnField(d.mode)) # {}, Latest(h, OwnField(d.mode)) = v,
         d.addr = v.ip, d.port = Port(v.port)
  PROVE  AddrAsGiven(h, d) /\ PortAsGiven(h, d)
BY DEF AddrAsGiven, PortAsGiven

(* A comment changes nothing. *)
LEMMA CommentRead ==
  ASSUME NEW f \in Seq(FileLines), NEW l \in FileLines, NEW h, h = Append(f, l), l = Comment,
         NEW c, FileRead(f, c), Shaped(c)
  PROVE  FileRead(h, c)
<1>1. /\ h \in Seq(FileLines) /\ Len(f) \in Nat /\ Len(h) = Len(f) + 1
      /\ h[Len(f) + 1] = l /\ \A i \in 1..Len(f) : h[i] = f[i]
  BY OneMore
<1>2. ASSUME NEW op PROVE Same(h, f, op)
  BY SameElsewhere DEF IsOption
<1>3. \A i \in 1..Len(h) : GoodLine(h, i)
  <2>1. GoodLine(h, Len(f) + 1)
    BY <1>1 DEF GoodLine
  <2>2. \A i \in 1..Len(f) : GoodLine(f, i)
    BY DEF FileRead
  <2> QED
    BY <2>1, <2>2, GoodStay
<1>4. (\A i \in 1..Len(f) : f[i] = Comment) <=> (\A i \in 1..Len(h) : h[i] = Comment)
  BY <1>1
<1>5. ASSUME c # NoConf
      PROVE  /\ OthersAsGiven(h, c) /\ AddrAsGiven(h, c) /\ PortAsGiven(h, c)
             /\ Gives(h, "mode") # {} /\ Latest(h, "mode") = c.mode
  <2>1. /\ OthersAsGiven(f, c) /\ AddrAsGiven(f, c) /\ PortAsGiven(f, c)
        /\ Gives(f, "mode") # {} /\ Latest(f, "mode") = c.mode
    BY <1>5 DEF FileRead
  <2>2. AddrAsGiven(h, c) /\ PortAsGiven(h, c)
    BY <1>2, <2>1, OwnStays
  <2>3. Gives(h, "mode") # {} /\ Latest(h, "mode") = c.mode
    BY <1>2, <2>1 DEF Same
  <2>4. ASSUME c.mode = "coordinator" PROVE PeersAsGiven(h, c) /\ Gives(h, "storage_path") = {}
    <3>1. PeersAsGiven(f, c) /\ Gives(f, "storage_path") = {}
      BY <2>1, <2>4 DEF OthersAsGiven
    <3>2. PeersAsGiven(h, c)
      BY <1>2, <3>1, PeersStay
    <3> QED
      BY <1>2, <3>1, <3>2 DEF Same
  <2>5. ASSUME c.mode = "participant"
        PROVE  CoordinatorAsGiven(h, c) /\ c.storage_path = Given(h, "storage_path", DefaultPath)
    <3>1. CoordinatorAsGiven(f, c) /\ c.storage_path = Given(f, "storage_path", DefaultPath)
      BY <2>1, <2>5 DEF OthersAsGiven
    <3>2. CoordinatorAsGiven(h, c)
      BY <1>2, <3>1, CoordinatorStays
    <3> QED
      BY <1>2, <3>1, <3>2 DEF Same, Given
  <2> QED
    BY <2>1, <2>2, <2>3, <2>4, <2>5 DEF OthersAsGiven
<1> QED
  BY <1>3, <1>4, <1>5 DEF FileRead

(* The mode makes a configuration with its defaults. *)
LEMMA ModeRead ==
  ASSUME NEW f \in Seq(FileLines), NEW l \in FileLines, NEW h, h = Append(f, l), IsOption(l),
         l.op = "mode", NEW m \in {"coordinator", "participant"}, l.value = m, m # Malformed,
         FileRead(f, NoConf), NEW g, NEW d, d = NewConf(m, g)
  PROVE  FileRead(h, d) /\ Shaped(d)
<1>1. /\ h \in Seq(FileLines) /\ Len(f) \in Nat /\ Len(h) = Len(f) + 1
      /\ h[Len(f) + 1] = l /\ \A i \in 1..Len(f) : h[i] = f[i]
  BY OneMore
<1>2. \A i \in 1..Len(f) : f[i] = Comment
  BY DEF FileRead
<1>3. l # Comment /\ l # Unsplit
  BY DEF IsOption
<1>4. \A i \in 1..Len(h) : GoodLine(h, i)
  <2>1. GoodLine(h, Len(f) + 1)
    <3>1. \A j \in 1..(Len(f) + 1 - 1) : h[j] = Comment
      BY <1>1, <1>2
    <3> QED
      BY <1>1, <1>3, <3>1 DEF GoodLine
  <2>2. \A i \in 1..Len(f) : GoodLine(f, i)
    BY DEF FileRead
  <2> QED
    BY <2>1, <2>2, GoodStay
<1>5. ~\A i \in 1..Len(h) : h[i] = Comment
  BY <1>1, <1>3
<1>6. Gives(h, "mode") # {} /\ Latest(h, "mode") = m
  BY SaidHere
<1>7. ASSUME NEW op \in Fields PROVE Gives(h, op) = {}
  <2>1. Same(h, f, op)
    BY SameElsewhere DEF Fields
  <2>2. Gives(f, op) = {}
    BY <1>2 DEF Gives, IsOption
  <2> QED
    BY <2>1, <2>2 DEF Same
<1>8. /\ Gives(h, "coordinator_info") = {} /\ Gives(h, "participant_info") = {}
      /\ Gives(h, "storage_path") = {}
  BY <1>7 DEF Fields
<1>9. CASE m = "coordinator"
  <2>1. CoordinatorShape(d) /\ d.mode = "coordinator" /\ d.addr = NotSet /\ d.participant_addrs = <<>> /\ d.participant_ports = <<>>
    BY <1>9, NewCoordinator
  <2>2. AddrAsGiven(h, d) /\ PortAsGiven(h, d)
    BY <1>8, <2>1 DEF AddrAsGiven, PortAsGiven, OwnField
  <2>3. PeersAsGiven(h, d)
    <3>1. Len(<<>>) = 0 /\ Cardinality({}) = 0
      BY FS_EmptySet
    <3> QED
      BY <1>8, <2>1, <3>1 DEF PeersAsGiven
  <2>4. OthersAsGiven(h, d) /\ d # NoConf /\ Shaped(d)
    BY <1>8, <2>1, <2>3 DEF OthersAsGiven, NoConf, Shaped
  <2> QED
    BY <1>4, <1>5, <1>6, <1>9, <2>1, <2>2, <2>4 DEF FileRead
<1>10. CASE m = "participant"
  <2>1. /\ ParticipantShape(d) /\ d.mode = "participant" /\ d.addr = NotSet
        /\ d.coordinator_addr = DefaultCoordinator /\ d.coordinator_port = 8080 /\ d.storage_path = DefaultPath
    BY <1>10, NewParticipant
  <2>2. AddrAsGiven(h, d) /\ PortAsGiven(h, d)
    BY <1>8, <2>1 DEF AddrAsGiven, PortAsGiven, OwnField
  <2>3. OthersAsGiven(h, d) /\ d # NoConf /\ Shaped(d)
    BY <1>8, <2>1 DEF OthersAsGiven, CoordinatorAsGiven, Given, NoConf, Shaped
  <2> QED
    BY <1>4, <1>5, <1>6, <1>10, <2>1, <2>2, <2>3 DEF FileRead
<1> QED
  BY <1>9, <1>10

\* What a setter may leave of c in d, and what it may change there.
OwnKept(c, d)         == d.mode = c.mode /\ d.addr = c.addr /\ d.port = c.port
PeersKept(c, d)       == d.participant_addrs = c.participant_addrs /\ d.participant_ports = c.participant_ports
CoordinatorKept(c, d) == d.coordinator_addr = c.coordinator_addr /\ d.coordinator_port = c.coordinator_port
PathIs(d, v)          == d.storage_path = v
OwnSet(c, d, v)         == d.mode = c.mode /\ d.addr = v.ip /\ d.port = Port(v.port)
CoordinatorSet(c, d, v) == d.coordinator_addr = v.ip /\ d.coordinator_port = Port(v.port)
PeerAdded(c, d, v) ==
  /\ d.participant_addrs = Append(c.participant_addrs, v.ip)
  /\ d.participant_ports = Append(c.participant_ports, Port(v.port))
  /\ d.participant_addrs \in Seq(LineIps) /\ d.participant_ports \in Seq(LinePorts) => CoordinatorShape(d)

(* The setters on the configuration of a coordinator. *)
LEMMA CoordinatorSetters ==
  ASSUME NEW c, CoordinatorShape(c), NEW v
  PROVE  /\ LET d == coordinator_info(c, v)
            IN  CoordinatorShape(d) /\ OwnSet(c, d, v) /\ PeersKept(c, d)
         /\ LET d == participant_info(c, v)
            IN  OwnKept(c, d) /\ PeerAdded(c, d, v)
         /\ LET d == num_workers(c, v)
            IN  CoordinatorShape(d) /\ OwnKept(c, d) /\ PeersKept(c, d)
<1>1. PICK a, p, w, A, B :
        /\ c = [mode |-> "coordinator", addr |-> a, port |-> p, num_workers |-> w,
                participant_addrs |-> A, participant_ports |-> B]
        /\ A \in Seq(LineIps) /\ B \in Seq(LinePorts)
  BY DEF CoordinatorShape
<1>2. /\ c.mode = "coordinator" /\ c.addr = a /\ c.port = p /\ c.num_workers = w
      /\ c.participant_addrs = A /\ c.participant_ports = B
  BY <1>1
<1>3. PICK i, q : i = v.ip /\ q = Port(v.port)
  OBVIOUS
<1>4. PICK X, Y : X = Append(A, i) /\ Y = Append(B, q)
  OBVIOUS
<1>5. coordinator_info(c, v) = [mode |-> "coordinator", addr |-> i, port |-> q, num_workers |-> w,
                                participant_addrs |-> A, participant_ports |-> B]
  BY <1>1, <1>2, <1>3 DEF coordinator_info
<1>6. participant_info(c, v) = [mode |-> "coordinator", addr |-> a, port |-> p, num_workers |-> w,
                                participant_addrs |-> X, participant_ports |-> Y]
  BY <1>1, <1>2, <1>3, <1>4 DEF participant_info
<1>7. num_workers(c, v) = [mode |-> "coordinator", addr |-> a, port |-> p, num_workers |-> v,
                           participant_addrs |-> A, participant_ports |-> B]
  BY <1>1, <1>2 DEF num_workers
<1>8. PICK d : d = coordinator_info(c, v)
  OBVIOUS
<1>9. CoordinatorShape(d) /\ d.mode = c.mode /\ PeersKept(c, d) /\ d.addr = v.ip /\ d.port = Port(v.port)
  BY <1>1, <1>2, <1>3, <1>5, <1>8 DEF CoordinatorShape, PeersKept
<1>10. PICK e : e = participant_info(c, v)
  OBVIOUS
<1>11. /\ e.participant_addrs \in Seq(LineIps) /\ e.participant_ports \in Seq(LinePorts) => CoordinatorShape(e)
       /\ OwnKept(c, e) /\ e.participant_addrs = X /\ e.participant_ports = Y
  BY <1>2, <1>6, <1>10 DEF CoordinatorShape, OwnKept
<1>12. PICK u : u = num_workers(c, v)
  OBVIOUS
<1>13. CoordinatorShape(u) /\ OwnKept(c, u) /\ PeersKept(c, u)
  BY <1>1, <1>2, <1>7, <1>12 DEF CoordinatorShape, OwnKept, PeersKept
<1>14. OwnSet(c, d, v) /\ PeerAdded(c, e, v)
  BY <1>2, <1>3, <1>4, <1>9, <1>11 DEF OwnSet, PeerAdded
<1> QED
  BY <1>8, <1>9, <1>10, <1>11, <1>12, <1>13, <1>14

(* The setters on the configuration of a participant. *)
LEMMA ParticipantSetters ==
  ASSUME NEW c, ParticipantShape(c), NEW v
  PROVE  /\ LET d == coordinator_info(c, v)
            IN  ParticipantShape(d) /\ OwnKept(c, d) /\ CoordinatorSet(c, d, v) /\ PathIs(d, c.storage_path)
         /\ LET d == participant_info(c, v)
            IN  ParticipantShape(d) /\ OwnSet(c, d, v) /\ CoordinatorKept(c, d) /\ PathIs(d, c.storage_path)
         /\ LET d == num_workers(c, v)
            IN  ParticipantShape(d) /\ OwnKept(c, d) /\ CoordinatorKept(c, d) /\ PathIs(d, c.storage_path)
         /\ LET d == storage_path(c, v)
            IN  ParticipantShape(d) /\ OwnKept(c, d) /\ CoordinatorKept(c, d) /\ PathIs(d, v)
<1>1. PICK a, p, w, A, B, s :
        c = [mode |-> "participant", addr |-> a, port |-> p, num_workers |-> w,
             coordinator_addr |-> A, coordinator_port |-> B, storage_path |-> s]
  BY DEF ParticipantShape
<1>2. /\ c.mode = "participant" /\ c.addr = a /\ c.port = p /\ c.num_workers = w
      /\ c.coordinator_addr = A /\ c.coordinator_port = B /\ c.storage_path = s
  BY <1>1
<1>3. PICK i, q : i = v.ip /\ q = Port(v.port)
  OBVIOUS
<1>4. coordinator_info(c, v) = [mode |-> "participant", addr |-> a, port |-> p, num_workers |-> w,
                                coordinator_addr |-> i, coordinator_port |-> q, storage_path |-> s]
  BY <1>1, <1>2, <1>3 DEF coordinator_info
<1>5. participant_info(c, v) = [mode |-> "participant", addr |-> i, port |-> q, num_workers |-> w,
                                coordinator_addr |-> A, coordinator_port |-> B, storage_path |-> s]
  BY <1>1, <1>2, <1>3 DEF participant_info
<1>6. num_workers(c, v) = [mode |-> "participant", addr |-> a, port |-> p, num_workers |-> v,
                           coordinator_addr |-> A, coordinator_port |-> B, storage_path |-> s]
  BY <1>1 DEF num_workers
<1>7. storage_path(c, v) = [mode |-> "participant", addr |-> a, port |-> p, num_workers |-> w,
                            coordinator_addr |-> A, coordinator_port |-> B, storage_path |-> v]
  BY <1>1 DEF storage_path
<1>8. PICK d1, d2, d3, d4 : /\ d1 = coordinator_info(c, v) /\ d2 = participant_info(c, v)
                            /\ d3 = num_workers(c, v) /\ d4 = storage_path(c, v)
  OBVIOUS
<1>9. /\ ParticipantShape(d1) /\ OwnKept(c, d1) /\ d1.storage_path = s
      /\ d1.coordinator_addr = i /\ d1.coordinator_port = q
  BY <1>2, <1>4, <1>8 DEF ParticipantShape, OwnKept
<1>10. /\ ParticipantShape(d2) /\ d2.mode = c.mode /\ d2.addr = i /\ d2.port = q
       /\ CoordinatorKept(c, d2) /\ d2.storage_path = s
  BY <1>2, <1>5, <1>8 DEF ParticipantShape, CoordinatorKept
<1>11. ParticipantShape(d3) /\ OwnKept(c, d3) /\ CoordinatorKept(c, d3) /\ d3.storage_path = s
  BY <1>2, <1>6, <1>8 DEF ParticipantShape, OwnKept, CoordinatorKept
<1>12. ParticipantShape(d4) /\ OwnKept(c, d4) /\ CoordinatorKept(c, d4) /\ d4.storage_path = v
  BY <1>2, <1>7, <1>8 DEF ParticipantShape, OwnKept, CoordinatorKept
<1>13. /\ CoordinatorSet(c, d1, v) /\ PathIs(d1, c.storage_path)
       /\ OwnSet(c, d2, v) /\ PathIs(d2, c.storage_path) /\ PathIs(d3, c.storage_path) /\ PathIs(d4, v)
  BY <1>2, <1>3, <1>9, <1>10, <1>11, <1>12 DEF CoordinatorSet, OwnSet, PathIs
<1> QED
  BY <1>8, <1>9, <1>10, <1>11, <1>12, <1>13

\* d is c with one more line, and still what the file says.
Carried(h, c, d) ==
  OthersAsGiven(h, d) /\ AddrAsGiven(h, d) /\ PortAsGiven(h, d) /\ d.mode = c.mode /\ Shaped(d)

(* A field of a coordinator. *)
LEMMA CoordinatorRead ==
  ASSUME NEW f \in Seq(FileLines), NEW l \in FileLines, NEW h, h = Append(f, l), IsOption(l),
         l.op \in Fields, l.op # "storage_path", NEW c, CoordinatorShape(c), c.mode = "coordinator",
         OthersAsGiven(f, c), AddrAsGiven(f, c), PortAsGiven(f, c), NEW g, NEW d, d = Read(c, l, g)
  PROVE  Carried(h, c, d)
<1>1. PICK v : v = l.value
  OBVIOUS
<1>2. PeersAsGiven(f, c) /\ Gives(f, "storage_path") = {} /\ l # Comment /\ OwnField(c.mode) = "coordinator_info"
  BY DEF OthersAsGiven, IsOption, OwnField
<1>3. Gives(h, "storage_path") = {}
  <2>1. Same(h, f, "storage_path")
    BY SameElsewhere
  <2> QED
    BY <1>2, <2>1 DEF Same
<1>4. CASE l.op = "coordinator_info"
  <2>1. d = coordinator_info(c, v)
    BY <1>1, <1>2, <1>4 DEF Read
  <2>2. CoordinatorShape(d) /\ PeersKept(c, d) /\ d.mode = c.mode /\ d.addr = v.ip /\ d.port = Port(v.port)
    <3>1. CoordinatorShape(d) /\ OwnSet(c, d, v) /\ PeersKept(c, d)
      BY <2>1, CoordinatorSetters
    <3> QED
      BY <3>1 DEF OwnSet
  <2>3. Gives(h, "coordinator_info") # {} /\ Latest(h, "coordinator_info") = v
    BY <1>1, <1>4, SaidHere
  <2>4. AddrAsGiven(h, d) /\ PortAsGiven(h, d)
    BY <1>2, <2>2, <2>3, OwnSaid
  <2>5. Same(h, f, "participant_info")
    BY <1>4, SameElsewhere
  <2>6. PeersAsGiven(h, d)
    BY <1>2, <2>2, <2>5, PeersStay DEF PeersKept
  <2> QED
    BY <1>3, <2>2, <2>4, <2>6 DEF OthersAsGiven, Carried, Shaped
<1>5. CASE l.op = "participant_info"
  <2>1. d = participant_info(c, v)
    BY <1>1, <1>2, <1>5 DEF Read
  <2>2. /\ d.participant_addrs \in Seq(LineIps) /\ d.participant_ports \in Seq(LinePorts) => CoordinatorShape(d)
        /\ OwnKept(c, d)
        /\ d.participant_addrs = Append(c.participant_addrs, v.ip)
        /\ d.participant_ports = Append(c.participant_ports, Port(v.port))
    <3>1. OwnKept(c, d) /\ PeerAdded(c, d, v)
      BY <2>1, CoordinatorSetters
    <3> QED
      BY <3>1 DEF PeerAdded
  <2>3. c.participant_addrs \in Seq(LineIps) /\ c.participant_ports \in Seq(LinePorts)
    BY DEF CoordinatorShape
  <2>4. /\ PeersAsGiven(h, d)
        /\ d.participant_addrs \in Seq(LineIps) /\ d.participant_ports \in Seq(LinePorts)
    BY <1>1, <1>2, <1>5, <2>2, <2>3, PeersLonger
  <2>5. Same(h, f, "coordinator_info")
    BY <1>5, SameElsewhere
  <2>6. AddrAsGiven(h, d) /\ PortAsGiven(h, d)
    BY <1>2, <2>2, <2>5, OwnStays DEF OwnKept
  <2> QED
    BY <1>3, <2>2, <2>4, <2>6 DEF OthersAsGiven, OwnKept, Carried, Shaped
<1>6. CASE l.op = "num_workers"
  <2>1. d = num_workers(c, v)
    BY <1>1, <1>2, <1>6 DEF Read
  <2>2. CoordinatorShape(d) /\ OwnKept(c, d) /\ PeersKept(c, d)
    BY <2>1, CoordinatorSetters
  <2>3. Same(h, f, "participant_info") /\ Same(h, f, "coordinator_info")
    BY <1>6, SameElsewhere
  <2>4. AddrAsGiven(h, d) /\ PortAsGiven(h, d)
    BY <1>2, <2>2, <2>3, OwnStays DEF OwnKept
  <2>5. PeersAsGiven(h, d)
    BY <1>2, <2>2, <2>3, PeersStay DEF PeersKept
  <2> QED
    BY <1>3, <2>2, <2>4, <2>5 DEF OthersAsGiven, OwnKept, Carried, Shaped
<1> QED
  BY <1>4, <1>5, <1>6 DEF Fields

(* A field of a participant. *)
LEMMA ParticipantRead ==
  ASSUME NEW f \in Seq(FileLines), NEW l \in FileLines, NEW h, h = Append(f, l), IsOption(l),
         l.op \in Fields, NEW c, ParticipantShape(c), c.mode = "participant",
         OthersAsGiven(f, c), AddrAsGiven(f, c), PortAsGiven(f, c), NEW g, NEW d, d = Read(c, l, g)
  PROVE  Carried(h, c, d)
<1>1. PICK v : v = l.value
  OBVIOUS
<1>2. /\ CoordinatorAsGiven(f, c) /\ c.storage_path = Given(f, "storage_path", DefaultPath)
      /\ l # Comment /\ OwnField(c.mode) = "participant_info"
  BY DEF OthersAsGiven, IsOption, OwnField
<1>3. ASSUME Same(h, f, "coordinator_info"), CoordinatorKept(c, d) PROVE CoordinatorAsGiven(h, d)
  BY <1>2, <1>3, CoordinatorStays DEF CoordinatorKept
<1>4. ASSUME Same(h, f, "storage_path"), d.storage_path = c.storage_path
      PROVE  d.storage_path = Given(h, "storage_path", DefaultPath)
  BY <1>2, <1>4 DEF Same, Given
<1>5. ASSUME Same(h, f, "participant_info"), OwnKept(c, d) PROVE AddrAsGiven(h, d) /\ PortAsGiven(h, d)
  BY <1>2, <1>5, OwnStays DEF OwnKept
<1>6. CASE l.op = "coordinator_info"
  <2>1. d = coordinator_info(c, v)
    BY <1>1, <1>2, <1>6 DEF Read
  <2>2. /\ ParticipantShape(d) /\ OwnKept(c, d) /\ d.storage_path = c.storage_path
        /\ d.coordinator_addr = v.ip /\ d.coordinator_port = Port(v.port)
    <3>1. ParticipantShape(d) /\ OwnKept(c, d) /\ CoordinatorSet(c, d, v) /\ PathIs(d, c.storage_path)
      BY <2>1, ParticipantSetters
    <3> QED
      BY <3>1 DEF CoordinatorSet, PathIs
  <2>3. Gives(h, "coordinator_info") # {} /\ Latest(h, "coordinator_info") = v
    BY <1>1, <1>6, SaidHere
  <2>4. CoordinatorAsGiven(h, d)
    BY <2>2, <2>3 DEF CoordinatorAsGiven
  <2>5. Same(h, f, "participant_info") /\ Same(h, f, "storage_path")
    BY <1>6, SameElsewhere
  <2> QED
    BY <1>4, <1>5, <2>2, <2>4, <2>5 DEF OthersAsGiven, OwnKept, Carried, Shaped
<1>7. CASE l.op = "participant_info"
  <2>1. d = participant_info(c, v)
    BY <1>1, <1>2, <1>7 DEF Read
  <2>2. /\ ParticipantShape(d) /\ d.mode = c.mode /\ d.addr = v.ip /\ d.port = Port(v.port)
        /\ CoordinatorKept(c, d) /\ d.storage_path = c.storage_path
    <3>1. ParticipantShape(d) /\ OwnSet(c, d, v) /\ CoordinatorKept(c, d) /\ PathIs(d, c.storage_path)
      BY <2>1, ParticipantSetters
    <3> QED
      BY <3>1 DEF OwnSet, PathIs
  <2>3. Gives(h, "participant_info") # {} /\ Latest(h, "participant_info") = v
    BY <1>1, <1>7, SaidHere
  <2>4. AddrAsGiven(h, d) /\ PortAsGiven(h, d)
    BY <1>2, <2>2, <2>3, OwnSaid
  <2>5. Same(h, f, "coordinator_info") /\ Same(h, f, "storage_path")
    BY <1>7, SameElsewhere
  <2> QED
    BY <1>3, <1>4, <2>2, <2>4, <2>5 DEF OthersAsGiven, Carried, Shaped
<1>8. CASE l.op = "num_workers"
  <2>1. d = num_workers(c, v)
    BY <1>1, <1>2, <1>8 DEF Read
  <2>2. ParticipantShape(d) /\ OwnKept(c, d) /\ CoordinatorKept(c, d) /\ d.storage_path = c.storage_path
    <3>1. ParticipantShape(d) /\ OwnKept(c, d) /\ CoordinatorKept(c, d) /\ PathIs(d, c.storage_path)
      BY <2>1, ParticipantSetters
    <3> QED
      BY <3>1 DEF PathIs
  <2>3. Same(h, f, "coordinator_info") /\ Same(h, f, "storage_path") /\ Same(h, f, "participant_info")
    BY <1>8, SameElsewhere
  <2> QED
    BY <1>3, <1>4, <1>5, <2>2, <2>3 DEF OthersAsGiven, OwnKept, Carried, Shaped
<1>9. CASE l.op = "storage_path"
  <2>1. d = storage_path(c, v)
    BY <1>1, <1>2, <1>9 DEF Read
  <2>2. ParticipantShape(d) /\ OwnKept(c, d) /\ CoordinatorKept(c, d) /\ d.storage_path = v
    <3>1. ParticipantShape(d) /\ OwnKept(c, d) /\ CoordinatorKept(c, d) /\ PathIs(d, v)
      BY <2>1, ParticipantSetters
    <3> QED
      BY <3>1 DEF PathIs
  <2>3. Gives(h, "storage_path") # {} /\ Latest(h, "storage_path") = v
    BY <1>1, <1>9, SaidHere
  <2>4. Same(h, f, "coordinator_info") /\ Same(h, f, "participant_info")
    BY <1>9, SameElsewhere
  <2>5. d.storage_path = Given(h, "storage_path", DefaultPath)
    BY <2>2, <2>3 DEF Given
  <2> QED
    BY <1>3, <1>5, <2>2, <2>4, <2>5 DEF OthersAsGiven, OwnKept, Carried, Shaped
<1> QED
  BY <1>6, <1>7, <1>8, <1>9 DEF Fields

(* A line that is not refused: the configuration is what the file says. *)
LEMMA LineRead ==
  ASSUME NEW f \in Seq(FileLines), NEW l \in FileLines, NEW h, h = Append(f, l), NEW c, FileRead(f, c),
         Shaped(c), ~Refused(c, l), NEW g, NEW d, d = Read(c, l, g)
  PROVE  FileRead(h, d) /\ Shaped(d)
<1>1. CASE l = Comment
  <2>1. d = c
    BY <1>1 DEF Read
  <2> QED
    BY <1>1, <2>1, CommentRead
<1>2. ASSUME l # Comment PROVE IsOption(l)
  BY <1>2 DEF Refused, IsOption
<1>3. CASE l # Comment /\ c = NoConf
  <2>1. IsOption(l) /\ l.op = "mode" /\ l.value \in {"coordinator", "participant"}
    BY <1>2, <1>3 DEF Refused
  <2>2. d = NewConf(l.value, g)
    BY <1>3, <2>1 DEF Read
  <2>3. l.value # Malformed
    <3>1. Malformed \notin {"coordinator", "participant"}
      BY ValuesAssumption
    <3> QED
      BY <2>1, <3>1
  <2> QED
    BY <1>3, <2>1, <2>2, <2>3, ModeRead
<1>4. CASE l # Comment /\ c # NoConf
  <2>1. IsOption(l) /\ l.op \in Fields /\ l.value # Malformed /\ ~(l.op = "storage_path" /\ c.mode = "coordinator")
    BY <1>2, <1>4 DEF Refused
  <2>2. /\ OthersAsGiven(f, c) /\ AddrAsGiven(f, c) /\ PortAsGiven(f, c)
        /\ Gives(f, "mode") # {} /\ Latest(f, "mode") = c.mode
        /\ \A i \in 1..Len(f) : GoodLine(f, i)
        /\ ~\A i \in 1..Len(f) : f[i] = Comment
    BY <1>4 DEF FileRead
  <2>3. /\ h \in Seq(FileLines) /\ Len(f) \in Nat /\ Len(h) = Len(f) + 1
        /\ h[Len(f) + 1] = l /\ \A i \in 1..Len(f) : h[i] = f[i]
    BY OneMore
  <2>4. \A i \in 1..Len(h) : GoodLine(h, i)
    <3>1. ~\A j \in 1..(Len(f) + 1 - 1) : h[j] = Comment
      BY <2>2, <2>3
    <3>2. l.op # "mode" /\ l # Unsplit
      BY <2>1 DEF Fields, IsOption
    <3>3. GoodLine(h, Len(f) + 1)
      BY <2>1, <2>3, <3>1, <3>2 DEF GoodLine
    <3> QED
      BY <2>2, <3>3, GoodStay
  <2>5. ~\A i \in 1..Len(h) : h[i] = Comment
    BY <1>4, <2>3
  <2>6. Same(h, f, "mode")
    BY <2>1, SameElsewhere DEF Fields
  <2>7. Gives(h, "mode") # {} /\ Latest(h, "mode") = c.mode
    BY <2>2, <2>6 DEF Same
  <2>8. CASE c.mode = "coordinator"
    <3>1. CoordinatorShape(c)
      BY <2>8, ShapeByMode
    <3>2. Carried(h, c, d)
      <4>1. IsOption(l) /\ l.op \in Fields /\ l.op # "storage_path"
        BY <2>1, <2>8
      <4>2. OthersAsGiven(f, c) /\ AddrAsGiven(f, c) /\ PortAsGiven(f, c)
        BY <2>2
      <4> QED
        BY <2>8, <3>1, <4>1, <4>2, CoordinatorRead
    <3>3. d # NoConf
      BY <2>8, <3>2 DEF NoConf, Carried
    <3> QED
      BY <2>4, <2>5, <2>7, <3>2, <3>3 DEF FileRead, Carried
  <2>9. CASE c.mode = "participant"
    <3>1. ParticipantShape(c)
      BY <2>9, ShapeByMode
    <3>2. Carried(h, c, d)
      <4>1. IsOption(l) /\ l.op \in Fields
        BY <2>1
      <4>2. OthersAsGiven(f, c) /\ AddrAsGiven(f, c) /\ PortAsGiven(f, c)
        BY <2>2
      <4> QED
        BY <2>9, <3>1, <4>1, <4>2, ParticipantRead
    <3>3. d # NoConf
      BY <2>9, <3>2 DEF NoConf, Carried
    <3> QED
      BY <2>4, <2>5, <2>7, <3>2, <3>3 DEF FileRead, Carried
  <2> QED
    BY <2>2, <2>8, <2>9 DEF OthersAsGiven
<1> QED
  BY <1>1, <1>3, <1>4

-----------------------------------------------------------------------------
(* main(): the steps.                                                      *)

\* d says of its peers and its database what c says.
OthersKept(c, d) ==
  /\ d.mode = c.mode
  /\ c.mode = "coordinator" => PeersKept(c, d)
  /\ c.mode = "participant" => CoordinatorKept(c, d) /\ PathIs(d, c.storage_path)

(* It is as good a configuration for the same file. *)
LEMMA OthersStay ==
  ASSUME NEW f, NEW c, NEW d, OthersAsGiven(f, c), OthersKept(c, d)
  PROVE  OthersAsGiven(f, d)
BY DEF OthersAsGiven, OthersKept, PeersKept, CoordinatorKept, PathIs, PeersAsGiven, CoordinatorAsGiven

LEMMA OwnStaysToo ==
  ASSUME NEW f, NEW c, NEW d, OwnKept(c, d)
  PROVE  /\ AddrAsGiven(f, c) => AddrAsGiven(f, d)
         /\ PortAsGiven(f, c) => PortAsGiven(f, d)
<1>1. OwnField(d.mode) = OwnField(c.mode) /\ d.addr = c.addr /\ d.port = c.port
  BY DEF OwnKept
<1> QED
  BY <1>1 DEF AddrAsGiven, PortAsGiven

(* A moved configuration. *)
LEMMA MovedKeeps ==
  ASSUME NEW c, Shaped(c), c.mode \in {"coordinator", "participant"}, NEW d, d = Moved(c)
  PROVE  Shaped(d) /\ OwnKept(c, d) /\ OthersKept(c, d)
<1>1. d = num_workers(c, 2)
  BY DEF Moved, num_workers
<1>2. CASE c.mode = "coordinator"
  <2>1. CoordinatorShape(c)
    BY <1>2, ShapeByMode
  <2>2. CoordinatorShape(d) /\ OwnKept(c, d) /\ PeersKept(c, d)
    BY <1>1, <2>1, CoordinatorSetters
  <2> QED
    BY <1>2, <2>2 DEF Shaped, OthersKept, OwnKept
<1>3. CASE c.mode = "participant"
  <2>1. ParticipantShape(c)
    BY <1>3, ShapeByMode
  <2>2. ParticipantShape(d) /\ OwnKept(c, d) /\ CoordinatorKept(c, d) /\ PathIs(d, c.storage_path)
    BY <1>1, <2>1, ParticipantSetters
  <2> QED
    BY <1>3, <2>2 DEF Shaped, OthersKept, OwnKept
<1> QED
  BY <1>2, <1>3

(* The options -a and -p. *)
LEMMA OwnOverridden ==
  ASSUME NEW c, Shaped(c), c.mode \in {"coordinator", "participant"}, NEW a, NEW p,
         NEW d, d = [c EXCEPT !.addr = a, !.port = p]
  PROVE  Shaped(d) /\ d.addr = a /\ d.port = p /\ OthersKept(c, d)
<1>1. CASE c.mode = "coordinator"
  <2>1. CoordinatorShape(c)
    BY <1>1, ShapeByMode
  <2>2. PICK w, A, B, x, q :
          /\ c = [mode |-> "coordinator", addr |-> x, port |-> q, num_workers |-> w,
                  participant_addrs |-> A, participant_ports |-> B]
          /\ A \in Seq(LineIps) /\ B \in Seq(LinePorts)
    BY <2>1 DEF CoordinatorShape
  <2>3. d = [mode |-> "coordinator", addr |-> a, port |-> p, num_workers |-> w,
             participant_addrs |-> A, participant_ports |-> B]
    BY <2>2
  <2>4. CoordinatorShape(d) /\ d.addr = a /\ d.port = p
    BY <2>2, <2>3 DEF CoordinatorShape
  <2>5. OthersKept(c, d)
    BY <2>2, <2>3 DEF OthersKept, PeersKept
  <2> QED
    BY <2>4, <2>5 DEF Shaped
<1>2. CASE c.mode = "participant"
  <2>1. ParticipantShape(c)
    BY <1>2, ShapeByMode
  <2>2. PICK w, A, B, s, x, q :
          c = [mode |-> "participant", addr |-> x, port |-> q, num_workers |-> w,
               coordinator_addr |-> A, coordinator_port |-> B, storage_path |-> s]
    BY <2>1 DEF ParticipantShape
  <2>3. d = [mode |-> "participant", addr |-> a, port |-> p, num_workers |-> w,
             coordinator_addr |-> A, coordinator_port |-> B, storage_path |-> s]
    BY <2>2
  <2>4. ParticipantShape(d) /\ d.addr = a /\ d.port = p
    <3>1. PICK e : e = [mode |-> "participant", addr |-> a, port |-> p, num_workers |-> w,
                        coordinator_addr |-> A, coordinator_port |-> B, storage_path |-> s]
      OBVIOUS
    <3>2. ParticipantShape(e) /\ e.addr = a /\ e.port = p
      BY <3>1 DEF ParticipantShape
    <3> QED
      BY <2>3, <3>1, <3>2
  <2>5. OthersKept(c, d)
    BY <2>2, <2>3 DEF OthersKept, CoordinatorKept, PathIs
  <2> QED
    BY <2>4, <2>5 DEF Shaped
<1> QED
  BY <1>1, <1>2

(* What a move does, member by member. *)
LEMMA MovedCoordinator ==
  ASSUME NEW a, NEW p, NEW w, NEW A, NEW B,
         NEW e, e = [mode |-> "coordinator", addr |-> a, port |-> p, num_workers |-> w,
                     participant_addrs |-> A, participant_ports |-> B],
         NEW d, d = Moved(e)
  PROVE  d = [mode |-> "coordinator", addr |-> a, port |-> p, num_workers |-> 2,
              participant_addrs |-> A, participant_ports |-> B]
BY DEF Moved

LEMMA MovedParticipant ==
  ASSUME NEW a, NEW p, NEW w, NEW A, NEW B, NEW s,
         NEW e, e = [mode |-> "participant", addr |-> a, port |-> p, num_workers |-> w,
                     coordinator_addr |-> A, coordinator_port |-> B, storage_path |-> s],
         NEW d, d = Moved(e)
  PROVE  d = [mode |-> "participant", addr |-> a, port |-> p, num_workers |-> 2,
              coordinator_addr |-> A, coordinator_port |-> B, storage_path |-> s]
BY DEF Moved

\* The peers of c, replaced by those of an option.
PeersPut(c, e, A, B)       == e = [c EXCEPT !.participant_addrs = A, !.participant_ports = B]
CoordinatorPut(c, e, A, B) == e = [c EXCEPT !.coordinator_addr = A, !.coordinator_port = B]

(* The option -P, and the configuration moved into the coordinator. *)
LEMMA PeersOverridden ==
  ASSUME NEW c, CoordinatorShape(c), NEW A, NEW B,
         NEW e, PeersPut(c, e, A, B),
         NEW d, d = Moved(e)
  PROVE  OwnKept(c, d) /\ d.participant_addrs = A /\ d.participant_ports = B
<1>1. PICK a, p, w, x, y :
        c = [mode |-> "coordinator", addr |-> a, port |-> p, num_workers |-> w,
             participant_addrs |-> x, participant_ports |-> y]
  BY DEF CoordinatorShape
<1>2. e = [mode |-> "coordinator", addr |-> a, port |-> p, num_workers |-> w,
           participant_addrs |-> A, participant_ports |-> B]
  BY <1>1 DEF PeersPut
<1>3. d = Moved(e)
  OBVIOUS
<1>4. d = [mode |-> "coordinator", addr |-> a, port |-> p, num_workers |-> 2,
           participant_addrs |-> A, participant_ports |-> B]
  BY ONLY <1>2, <1>3, MovedCoordinator
<1> QED
  BY <1>1, <1>4 DEF OwnKept

(* The option -C, and the configuration moved into the participant. *)
LEMMA CoordinatorOverridden ==
  ASSUME NEW c, ParticipantShape(c), NEW A, NEW B,
         NEW e, CoordinatorPut(c, e, A, B),
         NEW d, d = Moved(e)
  PROVE  OwnKept(c, d) /\ d.coordinator_addr = A /\ d.coordinator_port = B /\ PathIs(d, c.storage_path)
<1>1. PICK a, p, w, x, y, s :
        c = [mode |-> "participant", addr |-> a, port |-> p, num_workers |-> w,
             coordinator_addr |-> x, coordinator_port |-> y, storage_path |-> s]
  BY DEF ParticipantShape
<1>2. e = [mode |-> "participant", addr |-> a, port |-> p, num_workers |-> w,
           coordinator_addr |-> A, coordinator_port |-> B, storage_path |-> s]
  BY <1>1 DEF CoordinatorPut
<1>3. d = Moved(e)
  OBVIOUS
<1>4. d = [mode |-> "participant", addr |-> a, port |-> p, num_workers |-> 2,
           coordinator_addr |-> A, coordinator_port |-> B, storage_path |-> s]
  BY ONLY <1>2, <1>3, MovedParticipant
<1> QED
  BY <1>1, <1>4 DEF OwnKept, PathIs

\* The mode of c is the one that the file f or the options o ask for.
ModeAsked(f, o, c) ==
  /\ c.mode = "coordinator" <=> Given(f, "mode", o.mode) = "coordinator"
  /\ o.mode = "coordinator" => c.mode = "coordinator"

\* So are its own address and port.
OwnAsked(f, o, c) ==
  /\ IF o.ip # NotSet THEN c.addr = o.ip ELSE AddrAsGiven(f, c)
  /\ IF o.port # 0 THEN c.port = o.port ELSE PortAsGiven(f, c)

\* The option for the peers of c.
PeersOf(o, c) == IF c.mode = "coordinator" THEN o.participants ELSE o.coordinator

\* So are its peers and its database.
PeersAsked(f, o, c) ==
  /\ c.mode = "coordinator" =>
       IF o.participants = <<>> THEN PeersAsGiven(f, c)
       ELSE /\ Len(c.participant_addrs) = Len(o.participants)
            /\ Len(c.participant_ports) = Len(o.participants)
            /\ \A i \in 1..Len(o.participants) :
                  /\ c.participant_addrs[i] = o.participants[i].ip
                  /\ c.participant_ports[i] = Port(o.participants[i].port)
  /\ c.mode # "coordinator" =>
       /\ IF o.coordinator = <<>> THEN CoordinatorAsGiven(f, c)
          ELSE /\ c.coordinator_addr = o.coordinator[1].ip
               /\ c.coordinator_port = Port(o.coordinator[1].port)
       /\ c.storage_path = Given(f, "storage_path", DefaultPath)

\* Nothing in the file or the options is wrong.
NothingWrong(f, o, c) ==
  /\ \A i \in 1..Len(f) : GoodLine(f, i)
  /\ o.mode = "coordinator" => Given(f, "mode", "coordinator") = "coordinator"
  /\ ~\E i \in 1..Len(PeersOf(o, c)) : PeersOf(o, c)[i] = Malformed
  /\ c.mode = "coordinator" => c.participant_addrs # <<>> /\ Gives(f, "storage_path") = {}

\* What ChooseMode leaves for the options to override.
AllAsGiven(f, c) == OthersAsGiven(f, c) /\ AddrAsGiven(f, c) /\ PortAsGiven(f, c) /\ Shaped(c)

(* No file, or one with comments only. *)
LEMMA NothingSaid ==
  ASSUME NEW f, FileRead(f, NoConf), NEW m \in {"coordinator", "participant"}, NEW g,
         NEW d, d = NewConf(m, g)
  PROVE  AllAsGiven(f, d) /\ d.mode = m /\ Gives(f, "mode") = {}
<1>1. \A i \in 1..Len(f) : f[i] = Comment
  BY DEF FileRead
<1>2. ASSUME NEW op PROVE Gives(f, op) = {}
  BY <1>1 DEF Gives, IsOption
<1>3. /\ Gives(f, "coordinator_info") = {} /\ Gives(f, "participant_info") = {}
      /\ Gives(f, "storage_path") = {} /\ Gives(f, "mode") = {}
  BY <1>2
<1>4. CASE m = "coordinator"
  <2>1. CoordinatorShape(d) /\ d.mode = "coordinator" /\ d.addr = NotSet /\ d.participant_addrs = <<>> /\ d.participant_ports = <<>>
    BY <1>4, NewCoordinator
  <2>2. AddrAsGiven(f, d) /\ PortAsGiven(f, d)
    BY <1>3, <2>1 DEF AddrAsGiven, PortAsGiven, OwnField
  <2>3. PeersAsGiven(f, d)
    <3>1. Len(<<>>) = 0 /\ Cardinality({}) = 0
      BY FS_EmptySet
    <3> QED
      BY <1>3, <2>1, <3>1 DEF PeersAsGiven
  <2>4. OthersAsGiven(f, d) /\ Shaped(d)
    BY <1>3, <2>1, <2>3 DEF OthersAsGiven, Shaped
  <2> QED
    BY <1>3, <1>4, <2>1, <2>2, <2>4 DEF AllAsGiven
<1>5. CASE m = "participant"
  <2>1. /\ ParticipantShape(d) /\ d.mode = "participant" /\ d.addr = NotSet
        /\ d.coordinator_addr = DefaultCoordinator /\ d.coordinator_port = 8080 /\ d.storage_path = DefaultPath
    BY <1>5, NewParticipant
  <2>2. AddrAsGiven(f, d) /\ PortAsGiven(f, d)
    BY <1>3, <2>1 DEF AddrAsGiven, PortAsGiven, OwnField
  <2>3. OthersAsGiven(f, d) /\ Shaped(d)
    BY <1>3, <2>1 DEF OthersAsGiven, CoordinatorAsGiven, Given, Shaped
  <2> QED
    BY <1>3, <1>5, <2>1, <2>2, <2>3 DEF AllAsGiven
<1> QED
  BY <1>4, <1>5

(* The local configuration of main(). *)
LEMMA ModeChosen ==
  ASSUME NEW f, NEW o, NEW c, FileRead(f, c), Shaped(c), NEW m,
         m = IF o.mode = "coordinator" \/ c.mode = "coordinator" THEN "coordinator" ELSE "participant",
         c.mode \in {"none", m}, NEW g,
         NEW d, d = IF c = NoConf THEN NewConf(m, g) ELSE Moved(c)
  PROVE  AllAsGiven(f, d) /\ ModeAsked(f, o, d)
<1>1. m \in {"coordinator", "participant"}
  OBVIOUS
<1>2. CASE c = NoConf
  <2>1. d = NewConf(m, g) /\ FileRead(f, NoConf)
    BY <1>2
  <2>2. AllAsGiven(f, d) /\ d.mode = m /\ Gives(f, "mode") = {}
    BY <1>1, <2>1, NothingSaid
  <2>3. c.mode = "none"
    BY <1>2 DEF NoConf
  <2> QED
    BY <2>2, <2>3 DEF ModeAsked, Given
<1>3. CASE c # NoConf
  <2>1. /\ OthersAsGiven(f, c) /\ AddrAsGiven(f, c) /\ PortAsGiven(f, c)
        /\ Gives(f, "mode") # {} /\ Latest(f, "mode") = c.mode
    BY <1>3 DEF FileRead
  <2>2. c.mode \in {"coordinator", "participant"} /\ d = Moved(c)
    BY <1>3, <2>1 DEF OthersAsGiven
  <2>3. Shaped(d) /\ OwnKept(c, d) /\ OthersKept(c, d)
    BY <2>2, MovedKeeps
  <2>4. OthersAsGiven(f, d) /\ AddrAsGiven(f, d) /\ PortAsGiven(f, d)
    BY <2>1, <2>3, OthersStay, OwnStaysToo
  <2>5. d.mode = c.mode /\ c.mode = m
    BY <2>2, <2>3 DEF OwnKept
  <2>6. Given(f, "mode", o.mode) = c.mode
    BY <2>1 DEF Given
  <2>7. ModeAsked(f, o, d)
    BY <2>2, <2>5, <2>6 DEF ModeAsked
  <2> QED
    BY <2>3, <2>4, <2>7 DEF AllAsGiven
<1> QED
  BY <1>2, <1>3

(* The options -a and -p. *)
LEMMA OwnChosen ==
  ASSUME NEW f, NEW o, NEW c, AllAsGiven(f, c), ModeAsked(f, o, c),
         NEW d, d = [c EXCEPT !.addr = IF o.ip # NotSet THEN o.ip ELSE @,
                              !.port = IF o.port # 0 THEN o.port ELSE @]
  PROVE  OthersAsGiven(f, d) /\ OwnAsked(f, o, d) /\ ModeAsked(f, o, d) /\ Shaped(d)
<1>1. PICK a, p : /\ a = (IF o.ip # NotSet THEN o.ip ELSE c.addr)
                  /\ p = (IF o.port # 0 THEN o.port ELSE c.port)
  OBVIOUS
<1>2. Shaped(c) /\ c.mode \in {"coordinator", "participant"} /\ OthersAsGiven(f, c)
  BY DEF AllAsGiven, OthersAsGiven
<1>3. d = [c EXCEPT !.addr = a, !.port = p]
  BY <1>1
<1>4. Shaped(d) /\ d.addr = a /\ d.port = p /\ OthersKept(c, d)
  BY <1>2, <1>3, OwnOverridden
<1>5. OthersAsGiven(f, d)
  BY <1>2, <1>4, OthersStay
<1>6. d.mode = c.mode
  BY <1>4 DEF OthersKept
<1>7. OwnField(d.mode) = OwnField(c.mode)
  BY <1>6
<1>8. o.ip = NotSet => AddrAsGiven(f, d)
  BY <1>1, <1>4, <1>7 DEF AllAsGiven, AddrAsGiven
<1>9. o.port = 0 => PortAsGiven(f, d)
  BY <1>1, <1>4, <1>7 DEF AllAsGiven, PortAsGiven
<1>10. OwnAsked(f, o, d)
  BY <1>1, <1>4, <1>8, <1>9 DEF OwnAsked
<1>11. ModeAsked(f, o, d)
  BY <1>6 DEF ModeAsked
<1> QED
  BY <1>4, <1>5, <1>10, <1>11

\* Nobody to talk to, for the configuration c.
NoPeersOf(c) == IF c.mode = "coordinator" THEN c.participant_addrs = <<>> ELSE c.coordinator_addr = NotSet

(* A mode and an own address that stay are still the ones asked for. *)
LEMMA KeptAsAsked ==
  ASSUME NEW f, NEW o, NEW c, NEW d, OwnKept(c, d), ModeAsked(f, o, c), OwnAsked(f, o, c)
  PROVE  ModeAsked(f, o, d) /\ OwnAsked(f, o, d)
<1>1. d.mode = c.mode /\ d.addr = c.addr /\ d.port = c.port
  BY DEF OwnKept
<1>2. ModeAsked(f, o, d)
  BY <1>1 DEF ModeAsked
<1>3. (AddrAsGiven(f, c) => AddrAsGiven(f, d)) /\ (PortAsGiven(f, c) => PortAsGiven(f, d))
  BY OwnStaysToo
<1> QED
  BY <1>1, <1>2, <1>3 DEF OwnAsked

(* An address list that is not empty, as -P or -C gives it. *)
LEMMA EntriesGiven ==
  ASSUME NEW P \in Seq(Entries), P # <<>>, NEW A, A = Ips(P), NEW B, B = Ports(P)
  PROVE  /\ Len(P) \in Nat /\ 1 \in 1..Len(P) /\ A # <<>>
         /\ Len(A) = Len(P) /\ Len(B) = Len(P)
         /\ \A i \in 1..Len(P) : A[i] = P[i].ip /\ B[i] = Port(P[i].port)
<1>1. Len(P) \in Nat
  BY LenProperties
<1>2. Len(P) # 0
  BY EmptySeq
<1>3. PICK N \in Nat : N = Len(P)
  BY <1>1
<1>4. A = [i \in 1..N |-> P[i].ip] /\ B = [i \in 1..N |-> Port(P[i].port)]
  BY <1>3 DEF Ips, Ports
<1>5. Len(A) = N /\ Len(B) = N
  BY <1>4
<1>6. \A i \in 1..N : A[i] = P[i].ip /\ B[i] = Port(P[i].port)
  BY <1>4
<1>7. A # <<>>
  BY <1>2, <1>3, <1>5
<1> QED
  BY <1>1, <1>2, <1>3, <1>5, <1>6, <1>7

(* The file and the options have been checked by the time the server starts. *)
LEMMA CheckedByThen ==
  ASSUME NEW f, NEW o, NEW c, \A i \in 1..Len(f) : GoodLine(f, i), OthersAsGiven(f, c), ModeAsked(f, o, c),
         NEW P, P = PeersOf(o, c), parse_addrs(P), NEW d, d.mode = c.mode,
         c.mode = "coordinator" => d.participant_addrs # <<>>
  PROVE  NothingWrong(f, o, d)
<1>1. o.mode = "coordinator" => Given(f, "mode", "coordinator") = "coordinator"
  BY DEF ModeAsked
<1>2. PeersOf(o, d) = P
  BY DEF PeersOf
<1>3. ~\E i \in 1..Len(P) : P[i] = Malformed
  BY DEF parse_addrs
<1>4. d.mode = "coordinator" => Gives(f, "storage_path") = {}
  BY DEF OthersAsGiven
<1> QED
  BY <1>1, <1>2, <1>3, <1>4 DEF NothingWrong

(* The options -P and -C. *)
LEMMA PeersChosen ==
  ASSUME NEW f, NEW o, o.participants \in Seq(Entries), o.coordinator \in Seq(Entries),
         NEW c, OthersAsGiven(f, c), OwnAsked(f, o, c), ModeAsked(f, o, c), Shaped(c),
         NEW P, P = PeersOf(o, c), ~(NoPeersOf(c) /\ P = <<>>),
         NEW d, d = Moved(IF P = <<>> THEN c
                          ELSE IF c.mode = "coordinator"
                          THEN [c EXCEPT !.participant_addrs = Ips(P), !.participant_ports = Ports(P)]
                          ELSE [c EXCEPT !.coordinator_addr = Ips(P)[1], !.coordinator_port = Ports(P)[1]])
  PROVE  /\ OwnKept(c, d) /\ PeersAsked(f, o, d)
         /\ c.mode = "coordinator" => d.participant_addrs # <<>>
<1>1. c.mode \in {"coordinator", "participant"} /\ P \in Seq(Entries)
  BY DEF OthersAsGiven, PeersOf
<1>2. CASE P = <<>>
  <2>1. d = Moved(c)
    BY <1>2
  <2>2. OwnKept(c, d) /\ OthersKept(c, d)
    BY <1>1, <2>1, MovedKeeps
  <2>3. OthersAsGiven(f, d) /\ d.mode = c.mode
    BY <2>2, OthersStay DEF OwnKept
  <2>4. CASE c.mode = "coordinator"
    <3>1. o.participants = <<>> /\ c.participant_addrs # <<>>
      BY <1>2, <2>4 DEF PeersOf, NoPeersOf
    <3>2. d.participant_addrs = c.participant_addrs /\ PeersAsGiven(f, d)
      BY <2>2, <2>3, <2>4 DEF OthersKept, PeersKept, OthersAsGiven
    <3> QED
      BY <2>2, <2>3, <2>4, <3>1, <3>2 DEF PeersAsked
  <2>5. CASE c.mode = "participant"
    <3>1. o.coordinator = <<>>
      BY <1>2, <2>5 DEF PeersOf
    <3>2. CoordinatorAsGiven(f, d) /\ d.storage_path = Given(f, "storage_path", DefaultPath)
      BY <2>3, <2>5 DEF OthersAsGiven
    <3> QED
      BY <2>2, <2>3, <2>5, <3>1, <3>2 DEF PeersAsked
  <2> QED
    BY <1>1, <2>4, <2>5
<1>3. CASE P # <<>>
  <2>1. PICK A, B : A = Ips(P) /\ B = Ports(P)
    OBVIOUS
  <2>2. /\ Len(P) \in Nat /\ 1 \in 1..Len(P) /\ A # <<>>
        /\ Len(A) = Len(P) /\ Len(B) = Len(P)
        /\ \A i \in 1..Len(P) : A[i] = P[i].ip /\ B[i] = Port(P[i].port)
    BY <1>1, <1>3, <2>1, EntriesGiven
  <2>3. CASE c.mode = "coordinator"
    <3>1. PICK e : PeersPut(c, e, A, B) /\ d = Moved(e)
      BY <1>3, <2>1, <2>3 DEF PeersPut
    <3>2. CoordinatorShape(c)
      BY <2>3, ShapeByMode
    <3>3. OwnKept(c, d) /\ d.participant_addrs = A /\ d.participant_ports = B
      BY <3>1, <3>2, PeersOverridden
    <3>4. o.participants = P /\ d.mode = "coordinator"
      BY <2>3, <3>3 DEF PeersOf, OwnKept
    <3> QED
      BY <1>3, <2>2, <2>3, <3>3, <3>4 DEF PeersAsked
  <2>4. CASE c.mode = "participant"
    <3>1. PICK a, b : a = A[1] /\ b = B[1]
      OBVIOUS
    <3>2. PICK e : CoordinatorPut(c, e, a, b) /\ d = Moved(e)
      BY <1>3, <2>1, <2>4, <3>1 DEF CoordinatorPut
    <3>3. ParticipantShape(c)
      BY <2>4, ShapeByMode
    <3>4. OwnKept(c, d) /\ d.coordinator_addr = a /\ d.coordinator_port = b /\ PathIs(d, c.storage_path)
      BY <3>2, <3>3, CoordinatorOverridden
    <3>5. a = P[1].ip /\ b = Port(P[1].port)
      BY <2>2, <3>1
    <3>6. o.coordinator = P /\ d.mode = "participant" /\ d.storage_path = Given(f, "storage_path", DefaultPath)
      BY <2>4, <3>4 DEF PeersOf, OwnKept, PathIs, OthersAsGiven
    <3> QED
      BY <1>3, <2>4, <3>4, <3>5, <3>6 DEF PeersAsked
  <2> QED
    BY <1>1, <2>3, <2>4
<1> QED
  BY <1>2, <1>3

-----------------------------------------------------------------------------
(* The invariant of main().                                                *)

\* The program is at p, has read the lines f into c under the options o, and
\* its local configuration is d: StartInv with the members of c and d.
Reached(p, f, o, c, d) ==
  /\ f \in Seq(FileLines) /\ o \in Options /\ Shaped(c)
  /\ p # "threw" => FileRead(f, c)
  /\ p = "override" => AllAsGiven(f, d) /\ ModeAsked(f, o, d)
  /\ p = "peers" => OthersAsGiven(f, d) /\ OwnAsked(f, o, d) /\ ModeAsked(f, o, d) /\ Shaped(d)
  /\ p = "started" => ModeAsked(f, o, d) /\ OwnAsked(f, o, d) /\ PeersAsked(f, o, d) /\ NothingWrong(f, o, d)

MainInv == Reached(pc, file, opt, conf, mine)

(* Nothing has been read. *)
LEMMA ReachedFirst == Init => MainInv
<1> SUFFICES ASSUME Init PROVE MainInv
  OBVIOUS
<1>1. pc = "flags" /\ file = <<>> /\ conf = NoConf /\ opt \in Options
  BY DEF Init
<1>2. file \in Seq(FileLines) /\ Len(file) = 0
  BY <1>1
<1>3. \A i \in 1..Len(file) : GoodLine(file, i) /\ file[i] = Comment
  BY <1>2
<1>4. FileRead(file, conf) /\ Shaped(conf)
  BY <1>1, <1>3 DEF FileRead, Shaped
<1> QED
  BY <1>1, <1>2, <1>4 DEF MainInv, Reached

(* The steps that only move on: nothing is read or chosen by them. *)
LEMMA MovesOn ==
  ASSUME MainInv, pc # "threw", pc' \notin {"override", "peers", "started"}, UNCHANGED <<opt, file, conf>>
  PROVE  MainInv'
<1>1. file' = file /\ opt' = opt /\ conf' = conf
  OBVIOUS
<1>2. Reached(pc, file, opt, conf, mine)
  BY DEF MainInv
<1>3. Reached(pc', file, opt, conf, mine')
  BY <1>2 DEF Reached
<1> QED
  BY <1>1, <1>3 DEF MainInv

LEMMA ParseFlagsReaches == ASSUME MainInv, ParseFlags PROVE MainInv'
<1>1. pc # "threw" /\ pc' \notin {"override", "peers", "started"} /\ UNCHANGED <<opt, file, conf>>
  BY DEF ParseFlags
<1> QED
  BY <1>1, MovesOn

LEMMA OpenFileReaches == ASSUME MainInv, OpenFile PROVE MainInv'
<1>1. pc # "threw" /\ pc' \notin {"override", "peers", "started"} /\ UNCHANGED <<opt, file, conf>>
  BY DEF OpenFile
<1> QED
  BY <1>1, MovesOn

LEMMA EndOfFileReaches == ASSUME MainInv, EndOfFile PROVE MainInv'
<1>1. pc # "threw" /\ pc' \notin {"override", "peers", "started"} /\ UNCHANGED <<opt, file, conf>>
  BY DEF EndOfFile
<1> QED
  BY <1>1, MovesOn

LEMMA BadPeersReaches == ASSUME MainInv, BadPeers PROVE MainInv'
<1>1. pc # "threw" /\ pc' \notin {"override", "peers", "started"} /\ UNCHANGED <<opt, file, conf>>
  BY DEF BadPeers
<1> QED
  BY <1>1, MovesOn

(* A line of the file. *)
LEMMA ReadLineReaches == ASSUME MainInv, NEW l \in FileLines, ReadLine(l) PROVE MainInv'
<1>1. /\ pc = "line" /\ file' = Append(file, l) /\ opt' = opt
      /\ \/ pc' = "threw" /\ conf' = conf
         \/ ~Refused(conf, l) /\ (\E g \in Garbage : conf' = Read(conf, l, g)) /\ pc' = pc
  BY DEF ReadLine
<1>2. file \in Seq(FileLines) /\ opt \in Options /\ Shaped(conf) /\ FileRead(file, conf)
  BY <1>1 DEF MainInv, Reached
<1>3. file' \in Seq(FileLines)
  BY <1>1, <1>2, OneMore
<1>4. CASE pc' = "threw" /\ conf' = conf
  BY <1>1, <1>2, <1>3, <1>4 DEF MainInv, Reached
<1>5. CASE ~Refused(conf, l) /\ (\E g \in Garbage : conf' = Read(conf, l, g)) /\ pc' = pc
  <2>1. PICK g \in Garbage : conf' = Read(conf, l, g)
    BY <1>5
  <2>2. FileRead(file', conf') /\ Shaped(conf')
    BY <1>1, <1>2, <1>5, <2>1, LineRead
  <2> QED
    BY <1>1, <1>2, <1>3, <1>5, <2>2 DEF MainInv, Reached
<1> QED
  BY <1>1, <1>4, <1>5

(* The mode. *)
LEMMA ChooseModeReaches == ASSUME MainInv, ChooseMode PROVE MainInv'
<1>1. PICK m : m = IF opt.mode = "coordinator" \/ conf.mode = "coordinator" THEN "coordinator" ELSE "participant"
  OBVIOUS
<1>2. /\ pc = "mode" /\ opt' = opt /\ file' = file /\ conf' = conf
      /\ IF conf.mode \notin {"none", m}
         THEN pc' = "threw"
         ELSE \E g \in Garbage : /\ mine' = IF conf = NoConf THEN NewConf(m, g) ELSE Moved(conf)
                                 /\ pc' = "override"
  BY <1>1 DEF ChooseMode
<1>3. file \in Seq(FileLines) /\ opt \in Options /\ Shaped(conf) /\ FileRead(file, conf)
  BY <1>2 DEF MainInv, Reached
<1>4. CASE conf.mode \notin {"none", m}
  BY <1>2, <1>3, <1>4 DEF MainInv, Reached
<1>5. CASE conf.mode \in {"none", m}
  <2>1. PICK g \in Garbage : mine' = IF conf = NoConf THEN NewConf(m, g) ELSE Moved(conf)
    BY <1>2, <1>5
  <2>2. AllAsGiven(file, mine') /\ ModeAsked(file, opt, mine')
    BY <1>1, <1>3, <1>5, <2>1, ModeChosen
  <2>3. pc' = "override"
    BY <1>2, <1>5
  <2> QED
    BY <1>2, <1>3, <2>2, <2>3 DEF MainInv, Reached
<1> QED
  BY <1>4, <1>5

(* The options for the server's own address. *)
LEMMA OverrideOwnReaches == ASSUME MainInv, OverrideOwn PROVE MainInv'
<1>1. /\ pc = "override" /\ pc' = "peers" /\ opt' = opt /\ file' = file /\ conf' = conf
      /\ mine' = [mine EXCEPT !.addr = IF opt.ip # NotSet THEN opt.ip ELSE @,
                              !.port = IF opt.port # 0 THEN opt.port ELSE @]
  BY DEF OverrideOwn
<1>2. /\ file \in Seq(FileLines) /\ opt \in Options /\ Shaped(conf) /\ FileRead(file, conf)
      /\ AllAsGiven(file, mine) /\ ModeAsked(file, opt, mine)
  BY <1>1 DEF MainInv, Reached
<1>3. OthersAsGiven(file, mine') /\ OwnAsked(file, opt, mine') /\ ModeAsked(file, opt, mine') /\ Shaped(mine')
  BY <1>1, <1>2, OwnChosen
<1> QED
  BY <1>1, <1>2, <1>3 DEF MainInv, Reached

(* The options for its peers, and the start. *)
LEMMA StartReaches == ASSUME MainInv, Start PROVE MainInv'
<1>1. PICK P : P = PeerOption /\ P = PeersOf(opt, mine)
  BY DEF PeerOption, PeersOf
<1>2. /\ pc = "peers" /\ pc' = "started" /\ opt' = opt /\ file' = file /\ conf' = conf
      /\ ~(NoPeersOf(mine) /\ P = <<>>) /\ parse_addrs(P)
      /\ mine' = Moved(IF P = <<>> THEN mine
                       ELSE IF mine.mode = "coordinator"
                       THEN [mine EXCEPT !.participant_addrs = Ips(P), !.participant_ports = Ports(P)]
                       ELSE [mine EXCEPT !.coordinator_addr = Ips(P)[1], !.coordinator_port = Ports(P)[1]])
  BY <1>1 DEF Start, NoPeers, NoPeersOf
<1>3. /\ file \in Seq(FileLines) /\ opt \in Options /\ Shaped(conf) /\ FileRead(file, conf)
      /\ OthersAsGiven(file, mine) /\ OwnAsked(file, opt, mine) /\ ModeAsked(file, opt, mine) /\ Shaped(mine)
  BY <1>2 DEF MainInv, Reached
<1>4. opt.participants \in Seq(Entries) /\ opt.coordinator \in Seq(Entries)
  BY <1>3, ValuesAssumption
<1>5. /\ OwnKept(mine, mine') /\ PeersAsked(file, opt, mine')
      /\ mine.mode = "coordinator" => mine'.participant_addrs # <<>>
  BY <1>1, <1>2, <1>3, <1>4, PeersChosen
<1>6. ModeAsked(file, opt, mine') /\ OwnAsked(file, opt, mine')
  BY <1>3, <1>5, KeptAsAsked
<1>7. NothingWrong(file, opt, mine')
  <2>1. mine'.mode = mine.mode
    BY <1>5 DEF OwnKept
  <2>2. \A i \in 1..Len(file) : GoodLine(file, i)
    BY <1>3 DEF FileRead
  <2> QED
    BY <1>1, <1>2, <1>3, <1>5, <2>1, <2>2, CheckedByThen
<1> QED
  BY <1>2, <1>3, <1>5, <1>6, <1>7 DEF MainInv, Reached

(* What it says of a server that has started. *)
LEMMA ReachedStarts == MainInv => StartInv
<1> SUFFICES ASSUME MainInv PROVE StartInv
  OBVIOUS
<1>1. Reached(pc, file, opt, conf, mine)
  BY DEF MainInv
<1>2. StartedAsAsked
  BY <1>1 DEF StartedAsAsked, Reached, ModeAsked, OwnAsked, PeersAsked
<1>3. NothingWrongStarts
  BY <1>1 DEF NothingWrongStarts, Reached, NothingWrong, PeersOf, PeerOption
<1>4. pc # "threw" => FileRead(file, conf)
  BY <1>1 DEF Reached
<1>5. pc \in {"override", "peers", "started"} =>
        /\ mine.mode = "coordinator" <=> Given(file, "mode", opt.mode) = "coordinator"
        /\ opt.mode = "coordinator" => mine.mode = "coordinator"
  BY <1>1 DEF Reached, ModeAsked
<1>6. /\ pc \in {"override", "peers"} => OthersAsGiven(file, mine)
      /\ pc = "override" => AddrAsGiven(file, mine) /\ PortAsGiven(file, mine)
  BY <1>1 DEF Reached, AllAsGiven
<1>7. pc = "peers" => /\ IF opt.ip # NotSet THEN mine.addr = opt.ip ELSE AddrAsGiven(file, mine)
                      /\ IF opt.port # 0 THEN mine.port = opt.port ELSE PortAsGiven(file, mine)
  BY <1>1 DEF Reached, OwnAsked
<1> QED
  BY <1>2, <1>3, <1>4, <1>5, <1>6, <1>7 DEF StartInv

(* The loop of get_conf() keeps in the configuration what the lines read   *)
(* so far say, the last of several for a field and all of them for the     *)
(* participants, and main() carries it through the merge with the options. *)
THEOREM StartInductive == Spec => [](MainInv /\ StartInv)
<1>1. Init => MainInv
  BY ReachedFirst
<1>2. MainInv /\ [Next]_vars => MainInv'
  <2> SUFFICES ASSUME MainInv, [Next]_vars PROVE MainInv'
    OBVIOUS
  <2>1. CASE UNCHANGED vars
    BY <2>1 DEF vars, MainInv
  <2>2. CASE Next
    BY <2>2, ParseFlagsReaches, OpenFileReaches, EndOfFileReaches, ChooseModeReaches, OverrideOwnReaches,
       BadPeersReaches, StartReaches, ReadLineReaches DEF Next
  <2> QED
    BY <2>1, <2>2
<1>3. MainInv => StartInv
  BY ReachedStarts
<1> QED
  BY <1>1, <1>2, <1>3, PTL DEF Spec

(* A server that starts runs with the addresses, ports, peers and database *)
(* that its options and its file ask for, whatever file and command line   *)
(* it is given (main() of kvstore2pcsystem.cpp and get_conf()).            *)
THEOREM StartsAsAsked == Spec => []StartedAsAsked
<1>1. StartInv => StartedAsAsked
  BY DEF StartInv
<1> QED
  BY StartInductive, <1>1, PTL

(* No server starts from a file or an option that is wrong anywhere, and   *)
(* no coordinator without participants.                                    *)
THEOREM NoneStartsWrong == Spec => []NothingWrongStarts
<1>1. StartInv => NothingWrongStarts
  BY DEF StartInv
<1> QED
  BY StartInductive, <1>1, PTL
=============================================================================
