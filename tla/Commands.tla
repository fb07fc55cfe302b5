------------------------------ MODULE Commands ------------------------------
(***************************************************************************)
(* The update commands of src/Lab3/src/command.hpp and what applying one   *)
(* to a participant's leveldb does (participant.cpp, handle_set and        *)
(* handle_del).  A database is a function from keys to values; Nil stands  *)
(* for an absent key.                                                      *)
(***************************************************************************)
EXTENDS Naturals, FiniteSets

CONSTANTS Keys, Vals, Nil

ASSUME NilAssumption == Nil \notin Vals

SetCommands == [type : {"SET"}, key : Keys, value : Vals]
DelCommands == [type : {"DEL"}, keys : SUBSET Keys \ {{}}]
Cmds        == SetCommands \cup DelCommands
NoCmd       == [type |-> "NONE"]

Dbs     == [Keys -> Vals \cup {Nil}]
EmptyDb == [k \in Keys |-> Nil]

Deleted(d, keys) == [k \in Keys |-> IF k \in keys THEN Nil ELSE d[k]]

HandleSet(d, c) == [d EXCEPT ![c.key] = c.value]
HandleDel(d, c) == Deleted(d, c.keys)

Apply(d, c) == IF c.type = "SET" THEN HandleSet(d, c) ELSE HandleDel(d, c)

\* The reply: "+OK" for SET; for DEL the RESP integer ":n", which is an error
\* string when none of the keys existed.  The count itself is abstracted.
Results == {"+OK", ":n", "-ERROR"}
Result(d, c) ==
  CASE c.type = "SET"                     -> "+OK"
    [] c.type = "DEL" /\ \E k \in c.keys : d[k] # Nil -> ":n"
    [] OTHER                              -> "-ERROR"

\* The databases a process may leave behind when it dies after it started to
\* apply c: leveldb writes one key at a time.
PartlyApplied(d, c) ==
  IF c.type = "SET" THEN {HandleSet(d, c)}
                    ELSE {Deleted(d, keys) : keys \in SUBSET c.keys \ {{}}}
=============================================================================
