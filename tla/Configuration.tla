--------------------------- MODULE Configuration ---------------------------
(***************************************************************************)
(* What the coordinator and the participants share: the configured         *)
(* participants (the addresses, ordered as in the std::map participants_)  *)
(* and the state of the logs when the system is first started.             *)
(***************************************************************************)
EXTENDS RecordLog, Commands

CONSTANTS
  P,         \* the participants, as numbers in address order
  InitNext   \* next_id in every log at first start; 0: the logs are empty

ASSUME PAssumption == P \subseteq Nat /\ P # {} /\ IsFiniteSet(P)
ASSUME InitNextAssumption == InitNext \in Nat
============================================================================
