--------------------------- MODULE MCProgramStart ---------------------------
(* Command lines and files for ProgramStart: two addresses, a port that is *)
(* too large for 16 bits, and each way for a value or a line to be wrong.  *)
EXTENDS ProgramStart

At(ip, port) == [ip |-> ip, port |-> port]
Line(op, value) == [op |-> op, value |-> value]

Peers == {<<>>, <<At("p", 1), At("q", 2)>>, <<At("p", 1), Malformed>>}

SmallOptions ==
  [valid : {TRUE}, help : {FALSE}, mode : {"participant", "coordinator"},
   ip : {"", "o"}, port : {0, 5}, config : {"", "conf"},
   participants : Peers, coordinator : Peers]
  \cup [valid : BOOLEAN, help : BOOLEAN, mode : {"other"}, ip : {""}, port : {0},
        config : {"conf", "missing"}, participants : {<<>>}, coordinator : {<<>>}]

SmallLines ==
  {Comment, Unsplit, Line("mode", "coordinator"), Line("mode", "participant"),
   Line("mode", "other"), Line("other", "p"), Line("num_workers", 3), Line("storage_path", "d"),
   Line("coordinator_info", At("p", 3)), Line("coordinator_info", At("", 3)),
   Line("participant_info", At("p", 65540)), Line("participant_info", At("q", 2)),
   Line("participant_info", Malformed)}
=============================================================================
