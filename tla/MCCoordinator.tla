--------------------------- MODULE MCCoordinator ---------------------------
(***************************************************************************)
(* Values for TLC: two participants, one key, NEXT_ID answering anything   *)
(* up to one past the last id.                                             *)
(***************************************************************************)
EXTENDS Coordinator

MCNextIds == 0..(MaxId + 1)
============================================================================
