-------------------------- MODULE MCClientSession --------------------------
(***************************************************************************)
(* Values for TLC: up to MaxMessages of the messages below, one after the  *)
(* other; the last one may be cut short.                                   *)
(***************************************************************************)
EXTENDS ClientSession

CONSTANTS MaxMessages, Messages

Get      == <<Header(2), Bulk("GET"), Bulk("k")>>
GetPhrase == <<Header(3), Bulk("GET"), Bulk("k"), Bulk("l")>>
Set      == <<Header(3), Bulk("SET"), Bulk("k"), Bulk("v")>>
Del      == <<Header(3), Bulk("DEL"), Bulk("k"), Bulk("l")>>
Unknown  == <<Header(1), Bulk("k")>>
Garbled  == <<Header(2), Junk>>
GetNoKey == <<Header(1), Bulk("GET")>>

WellFormed == {Get, GetPhrase, Set, Del}
MCMessages == WellFormed \cup {Unknown, Garbled, GetNoKey}

MCStreams == UNION {Prefixes(FlattenSeq(ms)) : ms \in [1..MaxMessages -> Messages]}
============================================================================
