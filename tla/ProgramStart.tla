---------------------------- MODULE ProgramStart ----------------------------
(***************************************************************************)
(* How a server of Lab 3 starts: main() of kvstore2pcsystem.cpp, which     *)
(* takes its options, reads the configuration file line by line through    *)
(* configuration_manager (configuration.cpp), merges the two and makes the *)
(* coordinator or the participant.                                         *)
(*                                                                         *)
(* A line of the file is Comment, Unsplit or a field and its value.  An    *)
(* address with its port is a record whose port is the number that is      *)
(* written; Malformed is what the setters and parse_addrs() refuse.        *)
(***************************************************************************)
EXTENDS Integers, Sequences, FiniteSetsExt

CONSTANTS
  Options,    \* the command lines: what Flags made of argv
  FileLines,  \* the lines a configuration file may have
  MaxLines,   \* bound: lines of the file
  Garbage,    \* what the uninitialised member port may hold
  Comment,    \* a line that starts with ! or is empty
  Unsplit,    \* a line in which get_option() finds no separator
  Malformed   \* a value without a port, or that is no number

\* No configuration: conf_ptr is null.
NoConf == [mode |-> "none"]

\* The entries of an address list.
Entries == {Malformed} \cup [ip : STRING, port : Nat]

ASSUME StartAssumption ==
  /\ MaxLines \in Nat /\ Garbage \subseteq 0..65535 /\ Garbage # {}
  /\ \A o \in Options : o.port \in 0..65535

ASSUME ValuesAssumption ==
  /\ Malformed \notin {"coordinator", "participant"}
  /\ \A o \in Options : o.participants \in Seq(Entries) /\ o.coordinator \in Seq(Entries)

VARIABLES
  pc,     \* where main() is
  opt,    \* the options
  file,   \* the lines read so far
  conf,   \* conf_ptr, what get_conf() has made of them
  mine    \* the local conf of main(); the server's own copy once started

vars == <<pc, opt, file, conf, mine>>

\* std::uint16_t
Port(n) == n % 65536

-----------------------------------------------------------------------------
(* The configurations.                                                     *)

\* A string nobody has set, and the defaults of a participant.
NotSet             == ""
DefaultCoordinator == "127.0.0.1"
DefaultPath        == "/tmp/testdb"

CoordinatorConf(g) == [mode |-> "coordinator", addr |-> NotSet, port |-> g, num_workers |-> 2,
                       participant_addrs |-> <<>>, participant_ports |-> <<>>]

ParticipantConf(g) == [mode |-> "participant", addr |-> NotSet, port |-> g, num_workers |-> 2,
                       coordinator_addr |-> DefaultCoordinator, coordinator_port |-> 8080,
                       storage_path |-> DefaultPath]

NewConf(mode, g) == IF mode = "coordinator" THEN CoordinatorConf(g) ELSE ParticipantConf(g)

\* The move constructors and move assignments take every member but
\* num_workers along, which is the new object's.
Moved(c) == [c EXCEPT !.num_workers = 2]

-----------------------------------------------------------------------------
(* configuration_manager                                                   *)

coordinator_info(c, v) ==
  IF c.mode = "coordinator"
  THEN [c EXCEPT !.addr = v.ip, !.port = Port(v.port)]
  ELSE [c EXCEPT !.coordinator_addr = v.ip, !.coordinator_port = Port(v.port)]

participant_info(c, v) ==
  IF c.mode = "coordinator"
  THEN [c EXCEPT !.participant_addrs = Append(@, v.ip),
                 !.participant_ports = Append(@, Port(v.port))]
  ELSE [c EXCEPT !.addr = v.ip, !.port = Port(v.port)]

num_workers(c, v) == [c EXCEPT !.num_workers = v]

storage_path(c, v) == [c EXCEPT !.storage_path = v]

\* The fields the manager has a setter for.
Fields == {"coordinator_info", "participant_info", "num_workers", "storage_path"}

\* get_option() splits a line into a field and its value.
IsOption(l) == l \notin {Comment, Unsplit}

\* Mutant: a field the manager does not know is skipped.
RefusedButUnknown(c, l) ==
  \/ l = Unsplit
  \/ /\ IsOption(l)
     /\ \/ c = NoConf /\ ~(l.op = "mode" /\ l.value \in {"coordinator", "participant"})
        \/ c # NoConf /\ l.op \in Fields /\ l.value = Malformed
        \/ c # NoConf /\ l.op = "storage_path" /\ c.mode = "coordinator"

\* The lines get_conf() throws at: no option, a field before the mode, an
\* unknown field (the mode again is one), a value its setter refuses.
Refused(c, l) ==
  \/ l = Unsplit
  \/ /\ IsOption(l)
     /\ \/ c = NoConf /\ ~(l.op = "mode" /\ l.value \in {"coordinator", "participant"})
        \/ c # NoConf /\ l.op \notin Fields
        \/ c # NoConf /\ l.value = Malformed
        \/ c # NoConf /\ l.op = "storage_path" /\ c.mode = "coordinator"

\* What the other lines make of the configuration.
Read(c, l, g) ==
  IF l = Comment THEN c
  ELSE CASE l.op = "mode" /\ c = NoConf -> NewConf(l.value, g)
         [] l.op = "coordinator_info"   -> coordinator_info(c, l.value)
         [] l.op = "participant_info"   -> participant_info(c, l.value)
         [] l.op = "num_workers"        -> num_workers(c, l.value)
         [] l.op = "storage_path"       -> storage_path(c, l.value)
         [] OTHER                       -> c

-----------------------------------------------------------------------------
(* main()                                                                  *)

Init ==
  /\ pc = "flags" /\ opt \in Options
  /\ file = <<>> /\ conf = NoConf /\ mine = NoConf

\* flags.Parse() and -h
ParseFlags ==
  /\ pc = "flags"
  /\ pc' = IF ~opt.valid THEN "aborted" ELSE IF opt.help THEN "exited" ELSE "open"
  /\ UNCHANGED <<opt, file, conf, mine>>

\* config_path is empty, or names a file that opens or does not.
OpenFile ==
  /\ pc = "open"
  /\ pc' = CASE opt.config = NotSet -> "mode"
             [] opt.config = "missing" -> "threw"
             [] OTHER -> "line"
  /\ UNCHANGED <<opt, file, conf, mine>>

\* One pass of the loop of get_conf(): the line is refused, and the exception
\* ends the program, or it is taken.
ReadLine(l) ==
  /\ pc = "line" /\ Len(file) < MaxLines
  /\ file' = Append(file, l)
  /\ \/ /\ Refused(conf, l)
        /\ pc' = "threw"
        /\ UNCHANGED conf
     \/ /\ ~Refused(conf, l)
        /\ \E g \in Garbage : conf' = Read(conf, l, g)
        /\ UNCHANGED pc
  /\ UNCHANGED <<opt, mine>>

EndOfFile ==
  /\ pc = "line"
  /\ pc' = "mode"
  /\ UNCHANGED <<opt, file, conf, mine>>

\* The mode is the coordinator's when the option or the file says so; a file
\* of the other mode is an exception.
ChooseMode ==
  /\ pc = "mode"
  /\ LET mode == IF opt.mode = "coordinator" \/ conf.mode = "coordinator"
                 THEN "coordinator" ELSE "participant"
     IN IF conf.mode \notin {"none", mode}
        THEN pc' = "threw" /\ UNCHANGED mine
        ELSE \E g \in Garbage :
               /\ mine' = IF conf = NoConf THEN NewConf(mode, g) ELSE Moved(conf)
               /\ pc' = "override"
  /\ UNCHANGED <<opt, file, conf>>

\* The options -a and -p are stronger than the file.
OverrideOwn ==
  /\ pc = "override"
  /\ mine' = [mine EXCEPT !.addr = IF opt.ip # NotSet THEN opt.ip ELSE @,
                          !.port = IF opt.port # 0 THEN opt.port ELSE @]
  /\ pc' = "peers"
  /\ UNCHANGED <<opt, file, conf>>

\* parse_addrs() fails at the first entry that is no address.
parse_addrs(entries) == \A i \in 1..Len(entries) : entries[i] # Malformed

Ips(entries)   == [i \in 1..Len(entries) |-> entries[i].ip]
Ports(entries) == [i \in 1..Len(entries) |-> Port(entries[i].port)]

\* The option for the other side, -P or -C, and what the file says of it.
PeerOption == IF mine.mode = "coordinator" THEN opt.participants ELSE opt.coordinator
NoPeers == IF mine.mode = "coordinator" THEN mine.participant_addrs = <<>>
                                        ELSE mine.coordinator_addr = NotSet

\* Nobody to talk to, or an address list that does not parse: abort().
BadPeers ==
  /\ pc = "peers"
  /\ \/ NoPeers /\ PeerOption = <<>>
     \/ ~parse_addrs(PeerOption)
  /\ pc' = "aborted"
  /\ UNCHANGED <<opt, file, conf, mine>>

\* Mutant: the participants of the option come on top of those of the file.
StartAppends ==
  /\ pc = "peers"
  /\ ~(NoPeers /\ PeerOption = <<>>) /\ parse_addrs(PeerOption)
  /\ mine' = Moved(IF PeerOption = <<>> THEN mine
                   ELSE IF mine.mode = "coordinator"
                   THEN [mine EXCEPT !.participant_addrs = @ \o Ips(PeerOption),
                                     !.participant_ports = @ \o Ports(PeerOption)]
                   ELSE [mine EXCEPT !.coordinator_addr = Ips(PeerOption)[1],
                                     !.coordinator_port = Ports(PeerOption)[1]])
  /\ pc' = "started"
  /\ UNCHANGED <<opt, file, conf>>

\* The option replaces what the file says, the configuration is moved into
\* the coordinator or the participant, and that one starts.
Start ==
  /\ pc = "peers"
  /\ ~(NoPeers /\ PeerOption = <<>>) /\ parse_addrs(PeerOption)
  /\ mine' = Moved(IF PeerOption = <<>> THEN mine
                   ELSE IF mine.mode = "coordinator"
                   THEN [mine EXCEPT !.participant_addrs = Ips(PeerOption),
                                     !.participant_ports = Ports(PeerOption)]
                   ELSE [mine EXCEPT !.coordinator_addr = Ips(PeerOption)[1],
                                     !.coordinator_port = Ports(PeerOption)[1]])
  /\ pc' = "started"
  /\ UNCHANGED <<opt, file, conf>>

Next == \/ ParseFlags \/ OpenFile \/ EndOfFile \/ ChooseMode
        \/ OverrideOwn \/ BadPeers \/ Start
        \/ \E l \in FileLines : ReadLine(l)

Spec == Init /\ [][Next]_vars

-----------------------------------------------------------------------------
(* Properties.  What is asked of a server is said without the loop and the *)
(* merge: by the lines of the whole file and the options.                  *)

\* The lines of a file f that give a field, and what counts of them: the last.
Gives(f, op) == {i \in 1..Len(f) : IsOption(f[i]) /\ f[i].op = op}
Latest(f, op) == f[Max(Gives(f, op))].value
Given(f, op, default) == IF Gives(f, op) = {} THEN default ELSE Latest(f, op)

\* What it says of a server's own address and port; where it says nothing, the
\* code has no default for the port.
OwnField(mode) == IF mode = "coordinator" THEN "coordinator_info" ELSE "participant_info"
AddrAsGiven(f, c) ==
  c.addr = IF Gives(f, OwnField(c.mode)) = {} THEN NotSet ELSE Latest(f, OwnField(c.mode)).ip
PortAsGiven(f, c) ==
  Gives(f, OwnField(c.mode)) # {} => c.port = Port(Latest(f, OwnField(c.mode)).port)

\* What it says of the participants, each line of which counts: the line i is
\* for the one at i's place among them.
Place(f, i) == Cardinality({j \in Gives(f, "participant_info") : j <= i})
PeersAsGiven(f, c) ==
  /\ Len(c.participant_addrs) = Cardinality(Gives(f, "participant_info"))
  /\ Len(c.participant_ports) = Cardinality(Gives(f, "participant_info"))
  /\ \A i \in Gives(f, "participant_info") :
        /\ c.participant_addrs[Place(f, i)] = f[i].value.ip
        /\ c.participant_ports[Place(f, i)] = Port(f[i].value.port)

\* What it says of a participant's coordinator.
CoordinatorAsGiven(f, c) ==
  IF Gives(f, "coordinator_info") = {}
  THEN c.coordinator_addr = DefaultCoordinator /\ c.coordinator_port = 8080
  ELSE /\ c.coordinator_addr = Latest(f, "coordinator_info").ip
       /\ c.coordinator_port = Port(Latest(f, "coordinator_info").port)

\* A server that starts runs with what it was asked to: its own address and
\* port, the addresses it calls, each with its own port and in the order of
\* the file, and its database, an option being stronger than the file, the
\* last of several lines than the ones before, and every line counting
\* ("Override", kvstore2pcsystem.cpp:131 and 174).
StartedAsAsked ==
  pc = "started" =>
    /\ mine.mode = "coordinator" <=> Given(file, "mode", opt.mode) = "coordinator"
    /\ IF opt.ip # NotSet THEN mine.addr = opt.ip ELSE AddrAsGiven(file, mine)
    /\ IF opt.port # 0 THEN mine.port = opt.port ELSE PortAsGiven(file, mine)
    /\ mine.mode = "coordinator" =>
         IF opt.participants = <<>> THEN PeersAsGiven(file, mine)
         ELSE /\ Len(mine.participant_addrs) = Len(opt.participants)
              /\ Len(mine.participant_ports) = Len(opt.participants)
              /\ \A i \in 1..Len(opt.participants) :
                    /\ mine.participant_addrs[i] = opt.participants[i].ip
                    /\ mine.participant_ports[i] = Port(opt.participants[i].port)
    /\ mine.mode # "coordinator" =>
         /\ IF opt.coordinator = <<>> THEN CoordinatorAsGiven(file, mine)
            ELSE /\ mine.coordinator_addr = opt.coordinator[1].ip
                 /\ mine.coordinator_port = Port(opt.coordinator[1].port)
         /\ mine.storage_path = Given(file, "storage_path", DefaultPath)

\* A line that is a field with a value, after the mode and never a second mode.
GoodLine(f, i) ==
  f[i] # Comment =>
    /\ f[i] # Unsplit
    /\ f[i].op = "mode" <=> \A j \in 1..(i - 1) : f[j] = Comment
    /\ f[i].op \in Fields \cup {"mode"} /\ f[i].value # Malformed

\* Nothing starts from a file or an option that is wrong anywhere, a part of
\* which has been applied by then: a coordinator always has participants and
\* no database, every line is a field with a value, after the mode and never
\* a second mode ("first field is not mode", configuration.cpp:121).
NothingWrongStarts ==
  pc = "started" =>
    /\ \A i \in 1..Len(file) : GoodLine(file, i)
    /\ opt.mode = "coordinator" => Given(file, "mode", "coordinator") = "coordinator"
    /\ ~\E i \in 1..Len(PeerOption) : PeerOption[i] = Malformed
    /\ mine.mode = "coordinator" =>
         mine.participant_addrs # <<>> /\ Gives(file, "storage_path") = {}

\* The server runs as many workers as the file says ("Number of callback
\* workers", configuration.hpp:66).
WorkersAsAsked ==
  pc = "started" => mine.num_workers = Given(file, "num_workers", 2)

\* A server that is given no address listens on 127.0.0.1 ("specify an ip
\* address. Defaulted to 127.0.0.1", kvstore2pcsystem.cpp:70).
AddressDefault == pc = "started" => mine.addr # NotSet

-----------------------------------------------------------------------------
(* What makes the two inductive: the loop of get_conf() keeps in the       *)
(* configuration what the lines read so far say, and main() carries it on. *)

\* What the file says of the other side and of the database.
OthersAsGiven(f, c) ==
  /\ c.mode \in {"coordinator", "participant"}
  /\ c.mode = "coordinator" => PeersAsGiven(f, c) /\ Gives(f, "storage_path") = {}
  /\ c.mode = "participant" => /\ CoordinatorAsGiven(f, c)
                               /\ c.storage_path = Given(f, "storage_path", DefaultPath)

\* c is what get_conf() has made of the lines f.
FileRead(f, c) ==
  /\ \A i \in 1..Len(f) : GoodLine(f, i)
  /\ c = NoConf <=> \A i \in 1..Len(f) : f[i] = Comment
  /\ c # NoConf => /\ OthersAsGiven(f, c) /\ AddrAsGiven(f, c) /\ PortAsGiven(f, c)
                   /\ Gives(f, "mode") # {} /\ Latest(f, "mode") = c.mode

StartInv ==
  /\ pc # "threw" => FileRead(file, conf)
  /\ pc \in {"override", "peers", "started"} =>
       /\ mine.mode = "coordinator" <=> Given(file, "mode", opt.mode) = "coordinator"
       /\ opt.mode = "coordinator" => mine.mode = "coordinator"
  /\ pc \in {"override", "peers"} => OthersAsGiven(file, mine)
  /\ pc = "override" => AddrAsGiven(file, mine) /\ PortAsGiven(file, mine)
  /\ pc = "peers" => /\ IF opt.ip # NotSet THEN mine.addr = opt.ip ELSE AddrAsGiven(file, mine)
                     /\ IF opt.port # 0 THEN mine.port = opt.port ELSE PortAsGiven(file, mine)
  /\ StartedAsAsked /\ NothingWrongStarts
=============================================================================
