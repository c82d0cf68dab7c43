---------------------------- MODULE MCVanityCommand ----------------------------
(* Small instances of VanityCommand for TLC. *)
EXTENDS SearchedCommand, TLC

CONSTANTS suffix, any

(* Criteria are only compared: sound for the safety run. *)
Symmetry == Permutations({suffix, any})
===============================================================================
