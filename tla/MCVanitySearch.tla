---------------------------- MODULE MCVanitySearch ----------------------------
(* Small instances of VanitySearch for TLC. *)
EXTENDS VanitySearch

CONSTANTS c1, c2, g1
===============================================================================
