----------------------------- MODULE CasLoopsProofs -----------------------------
(***************************************************************************)
(* For every set of callers, budget, request and candidate: the compare-   *)
(* and-swap loops of search.go hand out each attempt once, promote each    *)
(* run once, and implement the single steps VanitySearch is written with.  *)
(***************************************************************************)
EXTENDS CasLoops, TLAPS

(* What a loop knows between its load and its swap: the claim it computed  *)
(* is not empty and stays within the budget, the run is an improvement on  *)
(* what it saw.                                                            *)
Seen ==
  \A p \in Callers :
    /\ pc[p] \in {"loadReserved", "swapReserved"} => arg[p] \in Requests
    /\ pc[p] \in {"loadBest", "swapBest"} => arg[p] \in Candidates
    /\ pc[p] = "swapReserved" => current[p] < MaxAttempts
    /\ pc[p] = "swapBest" => current[p] < arg[p]

IInv == TypeOK /\ Seen /\ ClaimsDisjoint /\ PromotionsDistinct

(* The state in which no function has been called is such a state.         *)
LEMMA InitIInv == Init => IInv
  BY CasAssumption, SMT DEF Init, Atomic!Init, IInv, TypeOK, Seen,
     ClaimsDisjoint, PromotionsDistinct

(* The claim of a loop about to swap: 1..requested attempts, inside the    *)
(* budget, and fewer than requested only when it takes all that was left.  *)
LEMMA ClaimBounds ==
  ASSUME IInv, NEW p \in Callers, pc[p] = "swapReserved"
  PROVE  /\ ClaimSize(p) \in 1 .. arg[p]
         /\ arg[p] \in Requests
         /\ current[p] \in Nat
         /\ current[p] + ClaimSize(p) <= MaxAttempts
         /\ ClaimSize(p) < arg[p] => current[p] + ClaimSize(p) = MaxAttempts
  BY CasAssumption, SMT DEF IInv, TypeOK, Seen, ClaimSize, minUint64

(* Entering a function changes neither the atomics nor what was returned.  *)
LEMMA CallStep ==
  ASSUME IInv, NEW p \in Callers, CallClaim(p) \/ CallPromote(p)
  PROVE  IInv' /\ UNCHANGED Atomic!vars
  <1>1. TypeOK'
    BY CasAssumption, SMT DEF IInv, TypeOK, CallClaim, CallPromote
  <1>2. Seen'
    BY CasAssumption, SMT DEF IInv, TypeOK, Seen, CallClaim, CallPromote
  <1>3. UNCHANGED <<reserved, bestRun, owned, won>>
    BY DEF CallClaim, CallPromote
  <1>4. ClaimsDisjoint' /\ PromotionsDistinct'
    BY <1>3, SMT DEF IInv, ClaimsDisjoint, PromotionsDistinct
  <1> QED
    BY <1>1, <1>2, <1>3, <1>4 DEF IInv, Atomic!vars

(* So does a load, whether the loop goes on or returns.                    *)
LEMMA LoadStep ==
  ASSUME IInv, NEW p \in Callers, LoadReserved(p) \/ LoadBest(p)
  PROVE  IInv' /\ UNCHANGED Atomic!vars
  <1>1. TypeOK'
    BY CasAssumption, SMT DEF IInv, TypeOK, LoadReserved, LoadBest, Return, Goto
  <1>2. Seen'
    BY CasAssumption, SMT
    DEF IInv, TypeOK, Seen, LoadReserved, LoadBest, Return, Goto
  <1>3. UNCHANGED <<reserved, bestRun, owned, won>>
    BY DEF LoadReserved, LoadBest
  <1>4. ClaimsDisjoint' /\ PromotionsDistinct'
    BY <1>3, SMT DEF IInv, ClaimsDisjoint, PromotionsDistinct
  <1> QED
    BY <1>1, <1>2, <1>3, <1>4 DEF IInv, Atomic!vars

(* A swap of `reserved` grants the attempts from the value it saw, which   *)
(* is the current one, or grants nothing.                                  *)
LEMMA SwapReservedStep ==
  ASSUME IInv, NEW p \in Callers, SwapReserved(p)
  PROVE  IInv' /\ (Atomic!Next \/ UNCHANGED Atomic!vars)
  <1>1. CASE reserved # current[p]
    <2>1. /\ UNCHANGED <<reserved, owned, bestRun, won, arg>>
          /\ pc' = [pc EXCEPT ![p] = "loadReserved"]
          /\ current' = [current EXCEPT ![p] = 0]
      BY <1>1 DEF SwapReserved, Goto
    <2>2. TypeOK'
      BY <2>1, SMT DEF IInv, TypeOK
    <2>3. Seen'
      BY <2>1, SMT DEF IInv, TypeOK, Seen, SwapReserved
    <2>4. ClaimsDisjoint' /\ PromotionsDistinct'
      BY <2>1, SMT DEF IInv, ClaimsDisjoint, PromotionsDistinct
    <2> QED
      BY <2>1, <2>2, <2>3, <2>4 DEF IInv, Atomic!vars
  <1>2. CASE reserved = current[p]
    <2> DEFINE grant == ClaimSize(p)
    <2>1. /\ grant \in 1 .. arg[p]
          /\ arg[p] \in Requests
          /\ reserved + grant <= MaxAttempts
          /\ grant < arg[p] => reserved + grant = MaxAttempts
      BY <1>2, ClaimBounds DEF SwapReserved
    <2>2. /\ reserved' = reserved + grant
          /\ owned' = [owned EXCEPT ![p] =
                         @ \cup (reserved .. reserved + grant - 1)]
          /\ Return(p)
          /\ UNCHANGED <<bestRun, won>>
      BY <1>2 DEF SwapReserved
    <2>3. Atomic!Claim(p, arg[p])
      BY <2>1, <2>2 DEF Atomic!Claim
    <2>4. reserved \in Nat /\ grant \in Nat /\ arg[p] \in Nat
      BY <2>1, CasAssumption, SMT DEF IInv, TypeOK
    <2> HIDE DEF grant
    <2>5. TypeOK'
      BY <2>1, <2>2, <2>4, CasAssumption, SMT DEF IInv, TypeOK, Return
    <2>6. Seen'
      BY <2>2, SMT DEF IInv, TypeOK, Seen, Return
    <2>7. ClaimsDisjoint'
      BY <2>1, <2>2, <2>4, SMT DEF IInv, TypeOK, ClaimsDisjoint
    <2>8. PromotionsDistinct'
      BY <2>2, SMT DEF IInv, PromotionsDistinct
    <2> QED
      BY <2>1, <2>3, <2>5, <2>6, <2>7, <2>8 DEF IInv, Atomic!Next
  <1> QED
    BY <1>1, <1>2

(* A swap of `bestRun` promotes a run longer than the current one, or      *)
(* promotes nothing.                                                       *)
LEMMA SwapBestStep ==
  ASSUME IInv, NEW p \in Callers, SwapBest(p)
  PROVE  IInv' /\ (Atomic!Next \/ UNCHANGED Atomic!vars)
  <1>1. CASE bestRun # current[p]
    <2>1. /\ UNCHANGED <<reserved, owned, bestRun, won, arg>>
          /\ pc' = [pc EXCEPT ![p] = "loadBest"]
          /\ current' = [current EXCEPT ![p] = 0]
      BY <1>1 DEF SwapBest, Goto
    <2>2. TypeOK'
      BY <2>1, SMT DEF IInv, TypeOK
    <2>3. Seen'
      BY <2>1, SMT DEF IInv, TypeOK, Seen, SwapBest
    <2>4. ClaimsDisjoint' /\ PromotionsDistinct'
      BY <2>1, SMT DEF IInv, ClaimsDisjoint, PromotionsDistinct
    <2> QED
      BY <2>1, <2>2, <2>3, <2>4 DEF IInv, Atomic!vars
  <1>2. CASE bestRun = current[p]
    <2>1. /\ bestRun < arg[p]
          /\ arg[p] \in Candidates
          /\ arg[p] \in Nat
      BY <1>2, SMT DEF IInv, TypeOK, Seen, SwapBest
    <2>2. /\ bestRun' = arg[p]
          /\ won' = [won EXCEPT ![p] = @ \cup {arg[p]}]
          /\ Return(p)
          /\ UNCHANGED <<reserved, owned>>
      BY <1>2 DEF SwapBest
    <2>3. Atomic!Promote(p, arg[p])
      BY <2>1, <2>2, SMT DEF Atomic!Promote, IInv, TypeOK
    <2>4. TypeOK'
      BY <2>1, <2>2, CasAssumption, SMT DEF IInv, TypeOK, Return
    <2>5. Seen'
      BY <2>2, SMT DEF IInv, TypeOK, Seen, Return
    <2>6. ClaimsDisjoint'
      BY <2>2, SMT DEF IInv, ClaimsDisjoint
    <2>7. PromotionsDistinct'
      BY <2>1, <2>2, SMT DEF IInv, TypeOK, PromotionsDistinct
    <2> QED
      BY <2>1, <2>3, <2>4, <2>5, <2>6, <2>7 DEF IInv, Atomic!Next
  <1> QED
    BY <1>1, <1>2

(* Every step keeps the invariant and is an atomic step or invisible.      *)
LEMMA NextStep ==
  ASSUME IInv, [Next]_vars
  PROVE  IInv' /\ [Atomic!Next]_Atomic!vars
  <1>1. CASE UNCHANGED vars
    BY <1>1 DEF vars, Atomic!vars, IInv, TypeOK, Seen, ClaimsDisjoint,
                PromotionsDistinct
  <1>2. ASSUME NEW p \in Callers, CallClaim(p) \/ CallPromote(p) \/ Loop(p)
        PROVE  IInv' /\ [Atomic!Next]_Atomic!vars
    BY <1>2, CallStep, LoadStep, SwapReservedStep, SwapBestStep DEF Loop
  <1> QED
    BY <1>1, <1>2 DEF Next

(* search.go:346-372: the invariant the loops keep under every schedule.   *)
THEOREM Invariant == Spec => []IInv
  BY InitIInv, NextStep, PTL DEF Spec

(* search.go:346-360: for any budget and any number of runners, no attempt *)
(* is granted twice and none beyond what was reserved.                     *)
THEOREM ClaimsDisjointAlways == Spec => []ClaimsDisjoint
  <1>1. IInv => ClaimsDisjoint
    BY DEF IInv
  <1> QED
    BY <1>1, Invariant, PTL

(* search.go:362-372: no run is promoted twice or behind a longer one.     *)
THEOREM PromotionsDistinctAlways == Spec => []PromotionsDistinct
  <1>1. IInv => PromotionsDistinct
    BY DEF IInv
  <1> QED
    BY <1>1, Invariant, PTL

(* search.go:346-372: both loops implement their atomic specification,     *)
(* which is what VanitySearch takes them for.                              *)
THEOREM ImplementsAtomic == Spec => AtomicSpec
  <1>1. Init => Atomic!Init
    BY DEF Init
  <1> QED
    BY <1>1, NextStep, Invariant, PTL DEF Spec, AtomicSpec, Atomic!Spec
================================================================================
