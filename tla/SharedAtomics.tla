----------------------------- MODULE SharedAtomics -----------------------------
(***************************************************************************)
(* What the runners of vanity.Search rely on: a claim takes the next       *)
(* attempts of the budget, and a promotion raises the best run, each in    *)
(* one step.  VanitySearch is written on this level.                       *)
(***************************************************************************)
EXTENDS Integers

CONSTANTS Callers, MaxAttempts, Requests, Candidates, InitialBestRun

VARIABLES
  reserved,  (* attempts handed out                                          *)
  bestRun,   (* best run promoted so far                                     *)
  owned,     (* the attempts, counted from 0, that each caller was granted   *)
  won        (* the runs that each caller promoted                           *)

vars == <<reserved, bestRun, owned, won>>

Init ==
  /\ reserved = 0 /\ bestRun = InitialBestRun
  /\ owned = [p \in Callers |-> {}] /\ won = [p \in Callers |-> {}]

Claim(p, n) ==
  \E grant \in 1 .. n :
    /\ reserved + grant <= MaxAttempts
    /\ grant < n => reserved + grant = MaxAttempts
    /\ reserved' = reserved + grant
    /\ owned' = [owned EXCEPT ![p] = @ \cup (reserved .. reserved + grant - 1)]
    /\ UNCHANGED <<bestRun, won>>

Promote(p, c) ==
  /\ c > bestRun
  /\ bestRun' = c
  /\ won' = [won EXCEPT ![p] = @ \cup {c}]
  /\ UNCHANGED <<reserved, owned>>

Next == \E p \in Callers : \/ \E n \in Requests : Claim(p, n)
                           \/ \E c \in Candidates : Promote(p, c)

Spec == Init /\ [][Next]_vars
================================================================================
