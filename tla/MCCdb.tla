------------------------------- MODULE MCCdb -------------------------------
(***************************************************************************)
(* Values for TLC.                                                         *)
(***************************************************************************)
EXTENDS Cdb

MCNextIds == 0..(MaxId + 1)

\* The longest value the snapshot's encoding holds, and one byte more.
LongestSize == [v \in Vals |-> 2^15 - 1]
TooLongSize == [v \in Vals |-> 2^15]
============================================================================
