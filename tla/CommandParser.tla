--------------------------- MODULE CommandParser ---------------------------
(***************************************************************************)
(* command_parser, src/Lab3/src/command_parser.cpp, and the loop over it,  *)
(* parse_db_requests of coordinator.cpp, as functions of the data.         *)
(*                                                                         *)
(* The data is a sequence of RESP tokens: an array header "*n\r\n", a bulk *)
(* string "$k\r\n...\r\n", or junk: a byte that starts neither where one   *)
(* is expected.  A token of which only some bytes have arrived is one that *)
(* has not arrived: peek_char() throws the incomplete error either way.    *)
(***************************************************************************)
EXTENDS Integers, Sequences, FiniteSetsExt

Header(n) == [kind |-> "array", num |-> n]
Bulk(s)   == [kind |-> "bulk", str |-> s]
Junk      == [kind |-> "junk"]

\* What the stream of a client consists of.
Tokens == [kind : {"array"}, num : Nat] \cup [kind : {"bulk"}, str : STRING] \cup {Junk}

Types == {"GET", "SET", "DEL"}

Incomplete    == [res |-> "incomplete"]
Syntax        == [res |-> "syntax"]
Command(c, j) == [res |-> "command", cmd |-> c, next |-> j]

\* read_get_command, read_set_command and read_del_command: how many elements
\* the array must announce, and how many strings are then read after the type.
Enough(type, num) == num >= IF type = "SET" THEN 2 ELSE 1
Strings(type, num) == Max({num - 1, IF type = "SET" THEN 2 ELSE 1})

\* The strings at the positions K: the first one that is missing or is no
\* bulk string decides.
ReadStrings(data, K) ==
  LET bad == {k \in K : k > Len(data) \/ (k <= Len(data) /\ data[k].kind # "bulk")}
  IN  IF bad = {} THEN "ok" ELSE IF Min(bad) > Len(data) THEN "incomplete" ELSE "syntax"

\* read_command() at position i
ReadCommand(data, i) ==
  LET type == data[i + 1].str
      last == i + 1 + Strings(type, data[i].num)
      read == ReadStrings(data, (i + 2)..last)
  IN  CASE i > Len(data)                       -> Incomplete
        [] i <= Len(data) /\ data[i].kind # "array" -> Syntax
        [] i = Len(data) /\ data[i].kind = "array"  -> Incomplete
        [] OTHER ->
             IF data[i + 1].kind # "bulk"        THEN Syntax
             ELSE IF type \notin Types           THEN Syntax
             ELSE IF ~Enough(type, data[i].num)  THEN Syntax
             ELSE IF read = "incomplete"         THEN Incomplete
             ELSE IF read = "syntax"             THEN Syntax
             ELSE Command([type |-> type, args |-> SubSeq(data, i + 2, last)], last + 1)

\* The loop of parse_db_requests() entered at position i: the commands, where
\* the last one ends, and the error that ended the loop.
ParseFrom(data) ==
  LET parse[i \in 1..(Len(data) + 1)] ==
        IF i = Len(data) + 1 THEN [cmds |-> <<>>, parsed |-> Len(data), error |-> "none"]
        ELSE LET r == ReadCommand(data, i)
             IN  IF r.res = "command" THEN [parse[r.next] EXCEPT !.cmds = <<r.cmd>> \o @]
                 ELSE [cmds |-> <<>>, parsed |-> i - 1, error |-> r.res]
  IN  parse

ParseDbRequests(data) == ParseFrom(data)[1]
============================================================================
