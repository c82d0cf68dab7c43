----------------------------- MODULE MCKeyPipeline -----------------------------
(* A small instance of KeyPipeline for TLC. *)
EXTENDS KeyPipeline

CONSTANTS k1, k2, k3, k4, g1, s1, s2
================================================================================
