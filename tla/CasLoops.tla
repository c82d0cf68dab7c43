-------------------------------- MODULE CasLoops --------------------------------
(***************************************************************************)
(* claimAttempts and promoteBest instruction by instruction: each loads an *)
(* atomic, computes from what it saw, and tries to swap the result in,     *)
(* while other runners do the same.  Callers call them forever, in any     *)
(* order and with any request and candidate.                               *)
(***************************************************************************)
EXTENDS Integers

CONSTANTS
  Callers,          (* the runner goroutines                                 *)
  MaxAttempts,      (* the budget; with 0 claimAttempts has no loop          *)
  Requests,         (* the `requested` arguments                             *)
  Candidates,       (* the `candidate` arguments                             *)
  InitialBestRun

ASSUME CasAssumption ==
  /\ MaxAttempts \in Nat \ {0}
  /\ Requests \subseteq Nat \ {0}
  /\ Candidates \subseteq Nat
  /\ InitialBestRun \in Nat

VARIABLES
  pc,        (* where each caller is: "idle" outside both functions          *)
  arg,       (* `requested` or `candidate`                                   *)
  current,   (* what this turn of the loop loaded, 0 before it did           *)
  reserved, bestRun,   (* the two atomics                                    *)
  owned, won (* what the calls returned, as in SharedAtomics                 *)

vars == <<pc, arg, current, reserved, bestRun, owned, won>>

(* Both loops as single steps. *)
Atomic == INSTANCE SharedAtomics

minUint64(a, b) == IF a < b THEN a ELSE b

Goto(p, label) ==
  /\ pc' = [pc EXCEPT ![p] = label]
  /\ UNCHANGED arg

(* The call returns, and its locals are gone. *)
Return(p) ==
  /\ pc' = [pc EXCEPT ![p] = "idle"]
  /\ arg' = [arg EXCEPT ![p] = 0]
  /\ current' = [current EXCEPT ![p] = 0]

-------------------------------------------------------------------------------
(* claimAttempts *)

CallClaim(p) ==
  /\ pc[p] = "idle"
  /\ \E n \in Requests : arg' = [arg EXCEPT ![p] = n]
  /\ pc' = [pc EXCEPT ![p] = "loadReserved"]
  /\ UNCHANGED <<current, reserved, bestRun, owned, won>>

(* reserved.Load, and the return of 0 when the budget is used up. *)
LoadReserved(p) ==
  /\ pc[p] = "loadReserved"
  /\ IF reserved >= MaxAttempts
     THEN Return(p)
     ELSE /\ current' = [current EXCEPT ![p] = reserved]
          /\ Goto(p, "swapReserved")
  /\ UNCHANGED <<reserved, bestRun, owned, won>>

(* What the loop wants to add to the value it saw. *)
ClaimSize(p) == minUint64(arg[p], MaxAttempts - current[p])

(* Mutant: a store in place of the compare-and-swap. *)
StoreReserved(p) ==
  /\ pc[p] = "swapReserved"
  /\ reserved' = current[p] + ClaimSize(p)
  /\ owned' = [owned EXCEPT ![p] =
                 @ \cup (current[p] .. current[p] + ClaimSize(p) - 1)]
  /\ Return(p)
  /\ UNCHANGED <<bestRun, won>>

(* reserved.CompareAndSwap *)
SwapReserved(p) ==
  /\ pc[p] = "swapReserved"
  /\ \/ /\ reserved = current[p]
        /\ reserved' = current[p] + ClaimSize(p)
        /\ owned' = [owned EXCEPT ![p] =
                       @ \cup (current[p] .. current[p] + ClaimSize(p) - 1)]
        /\ Return(p)
     \/ /\ reserved # current[p]
        /\ current' = [current EXCEPT ![p] = 0]
        /\ Goto(p, "loadReserved")
        /\ UNCHANGED <<reserved, owned>>
  /\ UNCHANGED <<bestRun, won>>

-------------------------------------------------------------------------------
(* promoteBest *)

CallPromote(p) ==
  /\ pc[p] = "idle"
  /\ \E c \in Candidates : arg' = [arg EXCEPT ![p] = c]
  /\ pc' = [pc EXCEPT ![p] = "loadBest"]
  /\ UNCHANGED <<current, reserved, bestRun, owned, won>>

(* Mutant: the comparison is strict, so an equal run is promoted again. *)
LoadBestStrict(p) ==
  /\ pc[p] = "loadBest"
  /\ IF arg[p] < bestRun
     THEN Return(p)
     ELSE /\ current' = [current EXCEPT ![p] = bestRun]
          /\ Goto(p, "swapBest")
  /\ UNCHANGED <<reserved, bestRun, owned, won>>

(* best.Load, and the return of false for a run that is no improvement. *)
LoadBest(p) ==
  /\ pc[p] = "loadBest"
  /\ IF arg[p] <= bestRun
     THEN Return(p)
     ELSE /\ current' = [current EXCEPT ![p] = bestRun]
          /\ Goto(p, "swapBest")
  /\ UNCHANGED <<reserved, bestRun, owned, won>>

(* Mutant: a failed swap is retried without loading again. *)
SwapBestSpins(p) ==
  /\ pc[p] = "swapBest"
  /\ \/ /\ bestRun = current[p]
        /\ bestRun' = arg[p]
        /\ won' = [won EXCEPT ![p] = @ \cup {arg[p]}]
        /\ Return(p)
     \/ /\ bestRun # current[p]
        /\ UNCHANGED <<pc, arg, current, bestRun, won>>
  /\ UNCHANGED <<reserved, owned>>

(* Mutant: a failed swap is taken for a success. *)
SwapBestUnchecked(p) ==
  /\ pc[p] = "swapBest"
  /\ bestRun' = IF bestRun = current[p] THEN arg[p] ELSE bestRun
  /\ won' = [won EXCEPT ![p] = @ \cup {arg[p]}]
  /\ Return(p)
  /\ UNCHANGED <<reserved, owned>>

(* best.CompareAndSwap *)
SwapBest(p) ==
  /\ pc[p] = "swapBest"
  /\ \/ /\ bestRun = current[p]
        /\ bestRun' = arg[p]
        /\ won' = [won EXCEPT ![p] = @ \cup {arg[p]}]
        /\ Return(p)
     \/ /\ bestRun # current[p]
        /\ current' = [current EXCEPT ![p] = 0]
        /\ Goto(p, "loadBest")
        /\ UNCHANGED <<bestRun, won>>
  /\ UNCHANGED <<reserved, owned>>

-------------------------------------------------------------------------------
Init ==
  /\ pc = [p \in Callers |-> "idle"]
  /\ arg = [p \in Callers |-> 0] /\ current = [p \in Callers |-> 0]
  /\ Atomic!Init

Loop(p) == LoadReserved(p) \/ SwapReserved(p) \/ LoadBest(p) \/ SwapBest(p)

Next == \E p \in Callers : CallClaim(p) \/ CallPromote(p) \/ Loop(p)

(* The scheduler runs a goroutine that is inside one of the loops. *)
Fairness == \A p \in Callers : WF_vars(Loop(p))

Spec     == Init /\ [][Next]_vars
FairSpec == Spec /\ Fairness

-------------------------------------------------------------------------------
(* Types. *)
TypeOK ==
  /\ pc \in [Callers -> {"idle", "loadReserved", "swapReserved",
                         "loadBest", "swapBest"}]
  /\ arg \in [Callers -> Nat] /\ current \in [Callers -> Nat]
  /\ reserved \in 0 .. MaxAttempts
  /\ bestRun \in Nat
  /\ owned \in [Callers -> SUBSET Nat] /\ won \in [Callers -> SUBSET Nat]

(* search.go:346-360: no attempt of the budget is granted to two runners,  *)
(* and none is granted that was not reserved, however the loops interleave. *)
ClaimsDisjoint ==
  /\ \A p, q \in Callers : p # q => owned[p] \cap owned[q] = {}
  /\ \A p \in Callers : owned[p] \subseteq 0 .. reserved - 1

(* search.go:362-372: a run length is promoted by one runner at most, and  *)
(* never behind a longer one: bestRun bounds every run promoted so far.    *)
PromotionsDistinct ==
  /\ \A p, q \in Callers : p # q => won[p] \cap won[q] = {}
  /\ \A p \in Callers : \A c \in won[p] : c <= bestRun

(* search.go:346-372: seen from outside, each call is one atomic step.     *)
AtomicSpec == Atomic!Spec

(* search.go:350-371: a call returns.  A swap fails only because another   *)
(* one succeeded, and both atomics have a last value.                      *)
CallsReturn == \A p \in Callers : pc[p] # "idle" ~> pc[p] = "idle"
================================================================================
