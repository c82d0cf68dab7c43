-------------------------- MODULE VanitySearchProofs --------------------------
(***************************************************************************)
(* Proofs about VanitySearch, for any number of CPU and GPU runners, any   *)
(* budget and any batch sizes.  The inductive invariant is IInv: TypeOK    *)
(* strengthened by where the last promoted candidate can be.               *)
(***************************************************************************)
EXTENDS VanitySearch, FiniteSetTheorems, SequenceTheorems, TLAPS

(* A candidate of that run is on its way to the caller: its runner is about to
   send it, it is in the channel, or the coordinator holds it.             *)
InFlight(run) ==
  \/ best = run
  \/ \E i \in 1..Len(chan) : chan[i] = run
  \/ \E r \in Runners : pc[r] = "send" /\ found[r] = run

(* Only promoted runs travel. *)
Bounded ==
  /\ best <= bestRun /\ (best # NoCandidate => best > InitialBestRun)
  /\ \A i \in 1..Len(chan) : chan[i] <= bestRun /\ chan[i] > InitialBestRun
  /\ \A r \in Runners :
       pc[r] = "send" => found[r] <= bestRun /\ found[r] > InitialBestRun

(* The last promoted candidate is never lost. *)
NeverLost == bestRun > InitialBestRun => InFlight(bestRun)

(* The channel closes after the runners, and Search returns after both. *)
Ordered ==
  /\ closed => \A r \in Runners : pc[r] \in Ended
  /\ outcome # "searching" => closed /\ chan = <<>> /\ reported = completed

IInv == TypeOK /\ Bounded /\ NeverLost /\ Ordered

-------------------------------------------------------------------------------
(* The candidate channel has room for at least two candidates. *)
LEMMA ChanCapNat == ChanCap \in Nat /\ ChanCap >= 2
<1>1. Cardinality(Runners) \in Nat
  BY SearchAssumption, FS_CardinalityType
<1>2. QED  BY <1>1 DEF ChanCap

-------------------------------------------------------------------------------
(* What the operators of the module return. *)

(* minUint64 returns a natural number that is above neither argument. *)
LEMMA MinNat ==
  ASSUME NEW a \in Nat, NEW b \in Nat
  PROVE  minUint64(a, b) \in Nat /\ minUint64(a, b) <= a /\ minUint64(a, b) <= b
BY DEF minUint64

(* completed.Add leaves a natural number. *)
LEMMA CompletedNat ==
  ASSUME TypeOK, NEW n \in Nat, Completed(n)
  PROVE  completed' \in Nat
BY SearchAssumption DEF TypeOK, Completed, minUint64

(* A runner asks for a natural number of attempts and timestamps. *)
LEMMA RequestNat ==
  ASSUME TypeOK, NEW r \in Runners
  PROVE  TimestampCount(r) \in Nat /\ Requested(r) \in Nat
<1>1. WorkItems \div KeyBatch \in Nat
  BY SearchAssumption
<1>2. Span - cursor[r] \in Nat
  BY SearchAssumption DEF TypeOK
<1>3. TimestampCount(r) \in Nat
  BY <1>1, <1>2, MinNat DEF TimestampCount
<1>4. KeyBatch * TimestampCount(r) \in Nat
  BY <1>3, SearchAssumption
<1>5. QED  BY <1>2, <1>3, <1>4, MinNat, SearchAssumption DEF Requested

(* claimAttempts grants a natural number of attempts. *)
LEMMA GrantNat ==
  ASSUME TypeOK, NEW q \in Nat
  PROVE  Grant(q) \in Nat
BY SearchAssumption DEF TypeOK, Grant, minUint64

(* Going on with a key leaves a cursor inside its time span. *)
LEMMA ContinueOK ==
  ASSUME TypeOK, NEW r \in Runners, NEW c \in Nat, Continue(r, c)
  PROVE  cursor' \in [Runners -> 0..(Span - 1)] /\ pc' \in [Runners -> Labels]
BY SearchAssumption DEF TypeOK, Continue, Goto, Labels, Ended

(* So does going on after a dispatch. *)
LEMMA AfterDispatchOK ==
  ASSUME TypeOK, NEW r \in Runners, AfterDispatch(r)
  PROVE  cursor' \in [Runners -> 0..(Span - 1)] /\ pc' \in [Runners -> Labels]
<1>1. cursor[r] + TimestampCount(r) \in Nat
  BY RequestNat, SearchAssumption DEF TypeOK
<1>2. CASE claimed[r] < Requested(r)
  BY <1>2 DEF AfterDispatch, TypeOK, Goto, Labels, Ended
<1>3. CASE ~(claimed[r] < Requested(r))
  BY <1>1, <1>3, ContinueOK DEF AfterDispatch
<1>4. QED  BY <1>2, <1>3

(* Advancing past a hash keeps the types of what it changes. *)
LEMMA AdvanceOK ==
  ASSUME TypeOK, NEW r \in Runners, Advance(r)
  PROVE  processed' \in [Runners -> Nat] /\ pc' \in [Runners -> Labels]
BY DEF TypeOK, Advance, Goto, Labels, Ended

-------------------------------------------------------------------------------
(* Every step keeps the types. *)
LEMMA TypeStep == TypeOK /\ [Next]_vars => TypeOK'
<1> SUFFICES ASSUME TypeOK, [Next]_vars PROVE TypeOK'
  OBVIOUS
<1> USE SearchAssumption DEF TypeOK, local, shared, coord
<1>r. ASSUME NEW r \in Runners, Runner(r) PROVE TypeOK'
  <2> USE <1>r
  <2>1. CASE NewKey(r)
    BY <2>1 DEF NewKey, Goto, Labels, Ended
  <2>2. CASE Scan(r)
    BY <2>2 DEF Scan, Goto, Labels, Ended
  <2>3. CASE Claim(r)
    <3> DEFINE grant == Grant(Requested(r))
    <3>1. grant \in Nat
      BY RequestNat, GrantNat
    <3>2. reserved' \in Nat /\ claimed' \in [Runners -> Nat]
            /\ processed' \in [Runners -> Nat]
      <4>1. CASE grant = 0
        BY <2>3, <4>1 DEF Claim
      <4>2. CASE grant # 0
        <5>1. /\ reserved' = IF MaxAttempts = 0 THEN reserved ELSE reserved + grant
              /\ claimed' = [claimed EXCEPT ![r] = grant]
              /\ processed' = [processed EXCEPT ![r] = 0]
          BY <2>3, <4>2 DEF Claim
        <5>2. QED  BY <3>1, <5>1
      <4>3. QED  BY <4>1, <4>2
    <3>3. pc' \in [Runners -> Labels]
      BY <2>3 DEF Claim, Goto, Labels, Ended
    <3>4. QED  BY <2>3, <3>2, <3>3 DEF Claim
  <2>4. CASE Poll(r)
    <3>1. completed' \in Nat
      BY <2>4, CompletedNat DEF Poll
    <3>2. pc' \in [Runners -> Labels]
      BY <2>4 DEF Poll, Goto, Labels, Ended
    <3>3. QED  BY <2>4, <3>1, <3>2 DEF Poll
  <2>5. CASE Hash(r)
    <3>1. completed' \in Nat
      BY <2>5, CompletedNat DEF Hash
    <3>2. pc' \in [Runners -> Labels] /\ processed' \in [Runners -> Nat]
      BY <2>5, AdvanceOK DEF Hash, Goto, Labels, Ended
    <3>3. bestRun' \in InitialBestRun..MaxRun /\ found' \in [Runners -> 0..MaxRun]
      <4>1. \/ UNCHANGED <<bestRun, found>>
            \/ \E run \in 0..MaxRun :
                 /\ run > bestRun /\ bestRun' = run
                 /\ found' = [found EXCEPT ![r] = run]
        BY <2>5 DEF Hash
      <4>2. QED  BY <4>1
    <3>4. QED  BY <2>5, <3>1, <3>2, <3>3 DEF Hash
  <2>6. CASE Account(r)
    <3>1. completed' \in Nat
      BY <2>6, CompletedNat DEF Account
    <3>2. cursor[r] + claimed[r] \in Nat
      OBVIOUS
    <3>3. QED  BY <2>6, <3>1, <3>2, ContinueOK DEF Account
  <2>7. CASE Hit(r)
    <3>1. completed' \in Nat
      BY <2>7, CompletedNat DEF Hit
    <3>2. QED  BY <2>7, <3>1 DEF Hit, Goto, Labels, Ended
  <2>8. CASE OpenDevice(r)
    BY <2>8 DEF OpenDevice, Goto, Labels, Ended
  <2>9. CASE LoadBaseline(r)
    BY <2>9 DEF LoadBaseline, Goto, Labels, Ended
  <2>10. CASE Dispatch(r)
    <3>1. completed' \in Nat
      BY <2>10, CompletedNat DEF Dispatch
    <3>2. cursor[r] + TimestampCount(r) \in Nat
      BY RequestNat
    <3>3. cursor' \in [Runners -> 0..(Span - 1)] /\ pc' \in [Runners -> Labels]
      BY <2>10, <3>2, ContinueOK DEF Dispatch, Goto, Labels, Ended
    <3>4. found' \in [Runners -> 0..MaxRun]
      <4>1. CASE UNCHANGED found
        BY <4>1
      <4>2. ASSUME NEW run \in baseline[r]..MaxRun,
                   found' = [found EXCEPT ![r] = run]
            PROVE  found' \in [Runners -> 0..MaxRun]
        <5>1. run \in 0..MaxRun
          OBVIOUS
        <5>2. QED  BY <4>2, <5>1
      <4>3. QED  BY <2>10, <4>1, <4>2 DEF Dispatch
    <3>5. QED  BY <2>10, <3>1, <3>3, <3>4 DEF Dispatch
  <2>11. CASE Verify(r)
    <3>1. cursor' \in [Runners -> 0..(Span - 1)] /\ pc' \in [Runners -> Labels]
      BY <2>11, AfterDispatchOK DEF Verify, Goto, Labels, Ended
    <3>2. bestRun' \in InitialBestRun..MaxRun
      BY <2>11 DEF Verify
    <3>3. found' \in [Runners -> 0..MaxRun]
      <4>1. found' = found \/ found' = [found EXCEPT ![r] = 0]
        BY <2>11 DEF Verify, NoCandidate
      <4>2. 0 \in 0..MaxRun /\ found \in [Runners -> 0..MaxRun]
        OBVIOUS
      <4>3. CASE found' = found
        BY <4>2, <4>3
      <4>4. CASE found' = [found EXCEPT ![r] = 0]
        BY <4>2, <4>4
      <4>5. QED  BY <4>1, <4>3, <4>4
    <3>4. QED  BY <2>11, <3>1, <3>2, <3>3 DEF Verify
  <2>12. CASE Send(r)
    <3>1. /\ cursor' \in [Runners -> 0..(Span - 1)] /\ pc' \in [Runners -> Labels]
          /\ processed' \in [Runners -> Nat]
      BY <2>12, AfterDispatchOK, AdvanceOK DEF Send, Goto, Labels, Ended
    <3>2. chan' \in Seq(0..MaxRun) /\ Len(chan') <= ChanCap
      BY <2>12, ChanCapNat DEF Send
    <3>3. found' \in [Runners -> 0..MaxRun]
      BY <2>12 DEF Send, NoCandidate
    <3>4. QED  BY <2>12, <3>1, <3>2, <3>3 DEF Send
  <2>13. CASE ReportError(r)
    BY <2>13 DEF ReportError, Goto, Labels, Ended
  <2>14. CASE Abort(r)
    BY <2>14 DEF Abort, Goto, Labels, Ended
  <2>15. QED
    BY <2>1, <2>2, <2>3, <2>4, <2>5, <2>6, <2>7, <2>8, <2>9, <2>10, <2>11,
       <2>12, <2>13, <2>14 DEF Runner
<1>1. CASE Closer
  BY <1>1 DEF Closer
<1>2. CASE Receive
  BY <1>2, ChanCapNat DEF Receive
<1>3. CASE ReceiveError
  BY <1>3 DEF ReceiveError
<1>4. CASE Tick
  BY <1>4 DEF Tick
<1>5. CASE Finish
  BY <1>5 DEF Finish
<1>6. CASE ParentCancel
  BY <1>6 DEF ParentCancel
<1>7. CASE UNCHANGED vars
  BY <1>7 DEF vars
<1>8. QED  BY <1>r, <1>1, <1>2, <1>3, <1>4, <1>5, <1>6, <1>7 DEF Next, Returned

-------------------------------------------------------------------------------
(* Where candidates are. *)

(* A step of r that neither starts nor completes a send. *)
Quiet(r) ==
  /\ UNCHANGED <<best, chan, bestRun>>
  /\ pc[r] # "send" /\ pc'[r] # "send"
  /\ \A q \in Runners \ {r} : pc'[q] = pc[q] /\ found'[q] = found[q]

(* promoteBest succeeds in r. *)
Promotes(r) ==
  /\ UNCHANGED <<best, chan>>
  /\ pc[r] # "send" /\ pc'[r] = "send"
  /\ bestRun' > bestRun /\ found'[r] = bestRun'
  /\ \A q \in Runners \ {r} : pc'[q] = pc[q] /\ found'[q] = found[q]

(* output <- candidate in r. *)
Sends(r) ==
  /\ UNCHANGED <<best, bestRun>>
  /\ pc[r] = "send" /\ pc'[r] # "send"
  /\ chan' = Append(chan, found[r])
  /\ \A q \in Runners \ {r} : pc'[q] = pc[q] /\ found'[q] = found[q]

(* A step that touches no candidate keeps where candidates are. *)
LEMMA QuietStep ==
  ASSUME Bounded, NeverLost, NEW r \in Runners, Quiet(r)
  PROVE  Bounded' /\ NeverLost'
<1>1. Bounded'
  BY DEF Bounded, Quiet
<1>2. NeverLost'
  BY DEF NeverLost, InFlight, Quiet
<1>3. QED  BY <1>1, <1>2

(* The run lengths that the steps below compare are natural numbers. *)
LEMMA SeqOfNat ==
  ASSUME TypeOK
  PROVE  /\ best \in Nat /\ bestRun \in Nat /\ chan \in Seq(0..MaxRun)
         /\ \A i \in 1..Len(chan) : chan[i] \in Nat
<1>1. chan \in Seq(0..MaxRun)
  BY DEF TypeOK
<1>2. \A i \in 1..Len(chan) : chan[i] \in 0..MaxRun
  BY <1>1, ElementOfSeq
<1>3. best \in Nat /\ bestRun \in Nat
  BY SearchAssumption DEF TypeOK
<1>4. QED  BY <1>1, <1>2, <1>3

(* A promotion replaces the last candidate by one about to be sent. *)
LEMMA PromoteStep ==
  ASSUME TypeOK, TypeOK', Bounded, NEW r \in Runners, Promotes(r)
  PROVE  Bounded' /\ NeverLost'
<1>1. bestRun \in Nat /\ bestRun' \in Nat /\ InitialBestRun \in Nat
        /\ bestRun >= InitialBestRun
  BY SearchAssumption DEF TypeOK
<1>2. best \in Nat /\ \A i \in 1..Len(chan) : chan[i] \in Nat
  BY SeqOfNat
<1>3. \A q \in Runners : found[q] \in Nat /\ found'[q] \in Nat
  BY DEF TypeOK
<1>4. Bounded'
  BY <1>1, <1>2, <1>3 DEF Bounded, Promotes
<1>5. NeverLost'
  BY DEF NeverLost, InFlight, Promotes
<1>6. QED  BY <1>4, <1>5

(* A send moves the candidate from its runner into the channel. *)
LEMMA SendStep ==
  ASSUME TypeOK, TypeOK', Bounded, NeverLost, NEW r \in Runners, Sends(r)
  PROVE  Bounded' /\ NeverLost'
<1>1. chan \in Seq(0..MaxRun) /\ found[r] \in 0..MaxRun
  BY DEF TypeOK
<1>2. /\ Len(chan') = Len(chan) + 1 /\ chan'[Len(chan) + 1] = found[r]
      /\ \A i \in 1..Len(chan) : chan'[i] = chan[i]
      /\ Len(chan) \in Nat
  BY <1>1 DEF Sends
<1>3. Bounded'
  BY <1>2 DEF Bounded, Sends
<1>4. NeverLost'
  <2> SUFFICES ASSUME bestRun > InitialBestRun PROVE InFlight(bestRun)'
    BY DEF NeverLost, Sends
  <2>1. CASE best = bestRun
    BY <2>1 DEF InFlight, Sends
  <2>2. ASSUME NEW i \in 1..Len(chan), chan[i] = bestRun PROVE InFlight(bestRun)'
    <3>1. i \in 1..Len(chan') /\ chan'[i] = bestRun'
      BY <1>2, <2>2 DEF Sends
    <3>2. QED  BY <3>1 DEF InFlight
  <2>3. ASSUME NEW q \in Runners \ {r}, pc[q] = "send", found[q] = bestRun
        PROVE  InFlight(bestRun)'
    BY <2>3 DEF InFlight, Sends
  <2>4. CASE found[r] = bestRun
    <3>1. Len(chan) + 1 \in 1..Len(chan') /\ chan'[Len(chan) + 1] = bestRun'
      BY <1>2, <2>4 DEF Sends
    <3>2. QED  BY <3>1 DEF InFlight
  <2>5. QED  BY <2>1, <2>2, <2>3, <2>4 DEF NeverLost, InFlight
<1>5. QED  BY <1>3, <1>4

(* A receive moves it from the channel to the coordinator, or drops it when
   the coordinator holds a longer run. *)
LEMMA ReceiveStep ==
  ASSUME TypeOK, TypeOK', Bounded, NeverLost, Receive
  PROVE  Bounded' /\ NeverLost'
<1>1. /\ chan \in Seq(0..MaxRun) /\ chan # <<>>
      /\ best \in Nat /\ bestRun \in Nat
  BY SeqOfNat DEF Receive
<1>2. /\ Len(chan) \in Nat /\ Len(chan) >= 1 /\ Head(chan) = chan[1]
      /\ Len(chan') = Len(chan) - 1
      /\ \A i \in 1..Len(chan') : chan'[i] = chan[i + 1]
  BY <1>1 DEF Receive
<1>3. chan[1] \in Nat /\ chan[1] <= bestRun /\ chan[1] > InitialBestRun
  BY <1>1, <1>2, SeqOfNat DEF Bounded
<1>4. UNCHANGED <<pc, found, bestRun>> /\ best' = IF chan[1] > best THEN chan[1] ELSE best
  BY <1>2 DEF Receive, local, shared
<1>5. Bounded'
  <2>1. best' <= bestRun' /\ (best' # NoCandidate => best' > InitialBestRun)
    BY <1>3, <1>4 DEF Bounded
  <2>2. \A i \in 1..Len(chan') : chan'[i] <= bestRun' /\ chan'[i] > InitialBestRun
    BY <1>2, <1>4 DEF Bounded
  <2>3. QED  BY <2>1, <2>2, <1>4 DEF Bounded
<1>6. NeverLost'
  <2> SUFFICES ASSUME bestRun > InitialBestRun PROVE InFlight(bestRun)'
    BY <1>4 DEF NeverLost
  <2>1. CASE best = bestRun
    BY <2>1, <1>3, <1>4, <1>1 DEF InFlight
  <2>2. CASE chan[1] = bestRun
    <3>1. best <= bestRun
      BY DEF Bounded
    <3>2. best' = bestRun'
      BY <3>1, <2>2, <1>1, <1>4
    <3>3. QED  BY <3>2 DEF InFlight
  <2>3. ASSUME NEW i \in 1..Len(chan), i # 1, chan[i] = bestRun
        PROVE  InFlight(bestRun)'
    <3>1. i - 1 \in 1..Len(chan') /\ chan'[i - 1] = bestRun'
      BY <1>2, <1>4, <2>3
    <3>2. QED  BY <3>1 DEF InFlight
  <2>4. ASSUME NEW q \in Runners, pc[q] = "send", found[q] = bestRun
        PROVE  InFlight(bestRun)'
    BY <2>4, <1>4 DEF InFlight
  <2>5. QED  BY <2>1, <2>2, <2>3, <2>4 DEF NeverLost, InFlight
<1>7. QED  BY <1>5, <1>6

(* Every runner step is one of the three kinds. *)
LEMMA RunnerKinds ==
  ASSUME TypeOK, TypeOK', NEW r \in Runners, Runner(r)
  PROVE  /\ Quiet(r) \/ Promotes(r) \/ Sends(r)
         /\ pc[r] \notin Ended /\ UNCHANGED <<closed, outcome, firstErr>>
         /\ bestRun' # bestRun => Promotes(r)
<1> USE DEF TypeOK, Goto, local, shared, coord, Ended
<1>1. CASE NewKey(r)
  BY <1>1 DEF NewKey, Quiet
<1>2. CASE Scan(r)
  BY <1>2 DEF Scan, Quiet
<1>3. CASE Claim(r)
  BY <1>3 DEF Claim, Quiet
<1>4. CASE Poll(r)
  BY <1>4 DEF Poll, Quiet
<1>5. CASE Account(r)
  BY <1>5 DEF Account, Quiet, Continue
<1>6. CASE Hit(r)
  BY <1>6 DEF Hit, Quiet
<1>7. CASE OpenDevice(r)
  BY <1>7 DEF OpenDevice, Quiet
<1>8. CASE LoadBaseline(r)
  BY <1>8 DEF LoadBaseline, Quiet
<1>9. CASE Dispatch(r)
  BY <1>9 DEF Dispatch, Quiet, Continue
<1>10. CASE ReportError(r)
  BY <1>10 DEF ReportError, Quiet
<1>11. CASE Abort(r)
  BY <1>11 DEF Abort, Quiet
<1>12. CASE Hash(r)
  <2>1. CASE bestRun' = bestRun
    BY <1>12, <2>1, SearchAssumption DEF Hash, Advance, Quiet
  <2>2. CASE bestRun' # bestRun
    BY <1>12, <2>2, SearchAssumption DEF Hash, Promotes
  <2>3. QED  BY <2>1, <2>2
<1>13. CASE Verify(r)
  <2>1. CASE bestRun' = bestRun
    <3>1. ~(found[r] > bestRun /\ bestRun' = found[r])
      BY <2>1, SearchAssumption
    <3>2. CASE AfterDispatch(r)
      BY <1>13, <2>1, <3>1, <3>2 DEF Verify, AfterDispatch, Continue, Quiet
    <3>3. CASE Goto(r, "fail")
      BY <1>13, <2>1, <3>1, <3>3 DEF Verify, Quiet
    <3>4. QED  BY <1>13, <3>1, <3>2, <3>3 DEF Verify
  <2>2. CASE bestRun' # bestRun
    BY <1>13, <2>2, SearchAssumption DEF Verify, Promotes
  <2>3. QED  BY <2>1, <2>2
<1>14. CASE Send(r)
  BY <1>14 DEF Send, Advance, AfterDispatch, Continue, Sends
<1>15. QED
  BY <1>1, <1>2, <1>3, <1>4, <1>5, <1>6, <1>7, <1>8, <1>9, <1>10, <1>11,
     <1>12, <1>13, <1>14 DEF Runner

-------------------------------------------------------------------------------
(* No step starts a runner after the close or a send after the return. *)
LEMMA OrderedStep ==
  ASSUME TypeOK, TypeOK', Bounded, NeverLost, Ordered, [Next]_vars
  PROVE  Ordered'
<1> USE DEF Ordered, local, shared, coord
<1>1. ASSUME NEW r \in Runners, Runner(r) PROVE Ordered'
  <2>1. ~closed /\ outcome = "searching"
    BY <1>1, RunnerKinds
  <2>2. QED  BY <1>1, <2>1, RunnerKinds
<1>2. CASE Closer
  BY <1>2 DEF Closer
<1>3. CASE Receive
  BY <1>3 DEF Receive
<1>4. CASE ReceiveError
  BY <1>4 DEF ReceiveError
<1>5. CASE Tick
  BY <1>5 DEF Tick
<1>6. CASE Finish
  BY <1>6 DEF Finish
<1>7. CASE ParentCancel
  BY <1>7 DEF ParentCancel
<1>8. CASE UNCHANGED vars
  BY <1>8 DEF vars
<1>9. QED
  BY <1>1, <1>2, <1>3, <1>4, <1>5, <1>6, <1>7, <1>8 DEF Next, Returned

(* Where candidates are stays under control in every step. *)
LEMMA CandidateStep ==
  ASSUME TypeOK, TypeOK', Bounded, NeverLost, [Next]_vars
  PROVE  Bounded' /\ NeverLost'
<1>1. ASSUME NEW r \in Runners, Runner(r) PROVE Bounded' /\ NeverLost'
  BY <1>1, RunnerKinds, QuietStep, PromoteStep, SendStep
<1>2. CASE Receive
  BY <1>2, ReceiveStep
<1>3. CASE UNCHANGED <<pc, found, chan, best, bestRun>>
  <2>1. Bounded'
    BY <1>3 DEF Bounded
  <2>2. NeverLost'
    BY <1>3 DEF NeverLost, InFlight
  <2>3. QED  BY <2>1, <2>2
<1>4. QED
  BY <1>1, <1>2, <1>3
  DEF Next, Closer, ReceiveError, Tick, Finish, ParentCancel, Returned, vars,
      local, shared, coord

(* The initial state satisfies the inductive invariant. *)
LEMMA InitOK == Init => IInv
<1> SUFFICES ASSUME Init PROVE IInv
  OBVIOUS
<1>1. TypeOK
  <2>1. chan \in Seq(0..MaxRun) /\ Len(chan) <= ChanCap
    BY ChanCapNat DEF Init
  <2>2. bestRun \in InitialBestRun..MaxRun
    BY SearchAssumption DEF Init
  <2>3. pc \in [Runners -> Labels]
    BY DEF Init, Labels
  <2>4. 0 \in 0..(Span - 1) /\ 0 \in 0..MaxRun
    BY SearchAssumption
  <2>5. /\ cursor \in [Runners -> 0..(Span - 1)]
        /\ baseline \in [Runners -> 0..MaxRun]
        /\ found \in [Runners -> 0..MaxRun]
    BY <2>4 DEF Init, NoCandidate
  <2>6. QED  BY <2>1, <2>2, <2>3, <2>4, <2>5 DEF Init, TypeOK, NoCandidate
<1>2. Bounded /\ NeverLost /\ Ordered
  BY SearchAssumption DEF Init, Bounded, NeverLost, Ordered, NoCandidate
<1>3. QED  BY <1>1, <1>2 DEF IInv

(* The inductive invariant. *)
THEOREM Invariant == Spec => []IInv
<1>1. IInv /\ [Next]_vars => IInv'
  BY TypeStep, CandidateStep, OrderedStep DEF IInv
<1>2. QED  BY <1>1, InitOK, PTL DEF Spec

(* Every variable keeps its type; a key's cursor never passes its time span. *)
THEOREM TypeCorrect == Spec => []TypeOK
<1>1. IInv => TypeOK
  BY DEF IInv
<1>2. QED  BY <1>1, Invariant, PTL

(* The invariant implies that a returned candidate is the last one promoted. *)
LEMMA IInvAligned == IInv => Aligned
<1> SUFFICES ASSUME IInv, outcome # "searching"
             PROVE  best = IF bestRun > InitialBestRun THEN bestRun ELSE NoCandidate
  BY DEF Aligned
<1>1. chan = <<>> /\ \A r \in Runners : pc[r] # "send"
  BY DEF IInv, Ordered, Ended
<1>2. best \in Nat /\ bestRun \in Nat /\ InitialBestRun \in Nat
  BY SeqOfNat, SearchAssumption DEF IInv
<1>3. CASE bestRun > InitialBestRun
  <2>1. InFlight(bestRun)
    BY <1>3 DEF IInv, NeverLost
  <2>2. QED  BY <1>1, <1>3, <2>1 DEF InFlight
<1>4. CASE ~(bestRun > InitialBestRun)
  BY <1>2, <1>4 DEF IInv, Bounded, NoCandidate
<1>5. QED  BY <1>3, <1>4

(* The private key Search returns belongs to the run it reports, whatever the
   number of runners and however promotions, sends, failures and cancellation
   interleave (search.go:329-332).                                         *)
THEOREM AlignedAlways == Spec => []Aligned
BY Invariant, IInvAligned, PTL

(* When Search returns, no runner is left behind, no candidate is left in the
   channel, and the last Progress carried the final attempt count.         *)
THEOREM CleanReturnAlways == Spec => []CleanReturn
<1>1. IInv => CleanReturn
  BY DEF IInv, Ordered, CleanReturn
<1>2. QED  BY <1>1, Invariant, PTL

-------------------------------------------------------------------------------
(* Search implements SearchContract: a promotion is Improve, a receive that
   changes the coordinator's candidate is Retain, and Finish is Return.    *)

(* A step of a runner is Improve or leaves the contract's variables alone. *)
LEMMA RunnerImproves ==
  ASSUME IInv, TypeOK', NEW r \in Runners, Runner(r)
  PROVE  [Contract!Next]_(Contract!vars)
<1>1. ~closed /\ outcome = "searching" /\ outcome' = outcome
  BY RunnerKinds DEF IInv, Ordered
<1>2. CASE Promotes(r)
  <2>1. bestRun' <= MaxRun /\ bestRun' > bestRun /\ best' = best
    BY <1>2 DEF Promotes, TypeOK
  <2>2. bestRun' \in (bestRun + 1) .. MaxRun
    BY <2>1, SearchAssumption DEF IInv, TypeOK
  <2>3. QED
    BY <1>1, <2>1, <2>2 DEF Contract!Next, Contract!Improve, Contract!config
<1>3. CASE Quiet(r) \/ Sends(r)
  BY <1>1, <1>3 DEF Contract!vars, Quiet, Sends
<1>4. QED  BY <1>2, <1>3, RunnerKinds DEF IInv

(* A receive is Retain or leaves them alone. *)
LEMMA ReceiveRetains ==
  ASSUME IInv, Receive
  PROVE  [Contract!Next]_(Contract!vars)
<1>1. UNCHANGED <<bestRun, outcome>> /\ outcome = "searching"
  BY DEF Receive, shared
<1>2. Head(chan) = chan[1] /\ 1 \in 1..Len(chan)
  BY DEF Receive, IInv, TypeOK
<1>3. Head(chan) \in Nat /\ Head(chan) <= bestRun /\ Head(chan) > InitialBestRun
  BY <1>2, SeqOfNat DEF IInv, Bounded
<1>4. CASE Head(chan) > best
  <2>1. best' = Head(chan) /\ best \in Nat /\ bestRun \in Nat
    BY <1>4, SearchAssumption DEF Receive, IInv, TypeOK
  <2>2. best' \in (best + 1) .. bestRun /\ best' > InitialBestRun
    BY <1>3, <1>4, <2>1
  <2>3. QED
    BY <1>1, <2>2 DEF Contract!Next, Contract!Retain, Contract!config
<1>5. CASE ~(Head(chan) > best)
  BY <1>1, <1>5 DEF Receive, Contract!vars
<1>6. QED  BY <1>4, <1>5

(* The end of Search is Return. *)
LEMMA FinishReturns ==
  ASSUME IInv, Finish
  PROVE  [Contract!Next]_(Contract!vars)
<1>1. chan = <<>> /\ outcome = "searching" /\ \A r \in Runners : pc[r] # "send"
  BY DEF Finish, IInv, Ordered, Ended
<1>2. best \in Nat /\ bestRun \in Nat /\ InitialBestRun \in Nat
        /\ bestRun >= InitialBestRun /\ MinRun \in Nat /\ InitialBestRun < MinRun
  BY SeqOfNat, SearchAssumption DEF IInv, TypeOK
<1>3. best = IF bestRun > InitialBestRun THEN bestRun ELSE NoCandidate
  <2>1. CASE bestRun > InitialBestRun
    <3>1. InFlight(bestRun)
      BY <2>1 DEF IInv, NeverLost
    <3>2. QED  BY <1>1, <2>1, <3>1 DEF InFlight
  <2>2. CASE ~(bestRun > InitialBestRun)
    BY <1>2, <2>2 DEF IInv, Bounded, NoCandidate
  <2>3. QED  BY <2>1, <2>2
<1>4. \/ outcome' \in {"ok", "failure"}
      \/ outcome' = "cancelled" /\ bestRun < MinRun
  BY <1>2, <1>3 DEF Finish, NoCandidate
<1>5. UNCHANGED <<bestRun, best>>
  BY DEF Finish, shared
<1>6. QED
  BY <1>1, <1>3, <1>4, <1>5
  DEF Contract!Next, Contract!Return, Contract!NoCandidate, NoCandidate

(* Search implements the contract its caller relies on: promoted runs only
   grow, the coordinator's candidate only improves and never exceeds them, and
   the one result is consistent with them (search.go:118-270).             *)
THEOREM Implements == Spec => ContractSpec
<1>1. Init => Contract!Init
  BY DEF Init, Contract!Init, Contract!NoCandidate, NoCandidate
<1>2. IInv /\ IInv' /\ [Next]_vars => [Contract!Next]_(Contract!vars)
  <2> SUFFICES ASSUME IInv, IInv', [Next]_vars
               PROVE  [Contract!Next]_(Contract!vars)
    OBVIOUS
  <2>1. ASSUME NEW r \in Runners, Runner(r)
        PROVE  [Contract!Next]_(Contract!vars)
    BY <2>1, RunnerImproves DEF IInv
  <2>2. CASE Receive
    BY <2>2, ReceiveRetains
  <2>3. CASE Finish
    BY <2>3, FinishReturns
  <2>4. CASE UNCHANGED <<bestRun, best, outcome>>
    BY <2>4 DEF Contract!vars
  <2>5. QED
    BY <2>1, <2>2, <2>3, <2>4
    DEF Next, Closer, ReceiveError, Tick, ParentCancel, Returned, vars, shared,
        coord
<1>3. QED
  BY <1>1, <1>2, Invariant, PTL DEF Spec, ContractSpec, Contract!Spec

-------------------------------------------------------------------------------
(***************************************************************************)
(* The attempts of a search: what was reserved is counted or owed, and a   *)
(* search that nothing disturbs counts all of it.  BInv holds the books    *)
(* and is inductive relative to IInv.                                      *)
(***************************************************************************)

(* The attempts that runner r was granted and has not accounted for: those of
   its batch, until its hashes or its dispatch are counted.                *)
Owed(r) ==
  IF \/ pc[r] \in {"poll", "hash", "account", "hit", "baseline", "dispatch"}
     \/ pc[r] = "send" /\ r \in CPURunners
  THEN claimed[r] ELSE 0

(* One element for each attempt that is owed. *)
Debts == UNION {{r} \X (1 .. Owed(r)) : r \in Runners}

(* Nothing has happened that lets a runner drop attempts it was granted.   *)
Undisturbed ==
  /\ ~cancelled /\ bestRun < MinRun
  /\ \A r \in Runners : pc[r] \notin {"fail", "abort", "failed"}

(* The books: what is counted and what is owed were reserved, and while
   nothing disturbs the search that is all there is.                       *)
Books ==
  /\ IsFiniteSet(Debts)
  /\ MaxAttempts > 0 =>
       /\ reserved <= MaxAttempts
       /\ completed + Cardinality(Debts) <= reserved
       /\ Undisturbed => completed + Cardinality(Debts) = reserved

(* Where a runner of each kind can be, and how far it is in its batch.     *)
InBatch(r) ==
  /\ r \in CPURunners =>
       /\ pc[r] \notin {"open", "baseline", "dispatch", "verify"}
       /\ pc[r] \in {"poll", "hash", "send", "hit"} => processed[r] < claimed[r]
       /\ pc[r] = "account" => processed[r] = claimed[r]
       /\ pc[r] = "hit" => bestRun >= MinRun
  /\ r \in GPURunners =>
       /\ pc[r] \notin {"poll", "hash", "account", "hit"}
       /\ pc[r] \in {"baseline", "dispatch", "verify", "send"}
            /\ claimed[r] < Requested(r)
            => MaxAttempts > 0 /\ reserved >= MaxAttempts

(* A runner that ends undisturbed has met the end of the budget.           *)
Drained ==
  Undisturbed =>
    \A r \in Runners : pc[r] = "done" => MaxAttempts > 0 /\ reserved >= MaxAttempts

(* Who ended the context, and what an "ok" rules out.                      *)
Reasons ==
  /\ cancelled => \/ parentCancelled
                  \/ bestRun >= MinRun
                  \/ \E r \in Runners : pc[r] = "failed"
  /\ outcome = "ok" => ~parentCancelled \/ best >= MinRun

BInv == Books /\ (\A r \in Runners : InBatch(r)) /\ Drained /\ Reasons

-------------------------------------------------------------------------------
(* What a runner owes is a number of attempts, and each of them is a debt. *)
LEMMA OwedNat ==
  ASSUME TypeOK, NEW r \in Runners
  PROVE  Owed(r) \in Nat
BY DEF TypeOK, Owed

(* n debts of r next to a finite set of debts of others. *)
LEMMA DebtsOf ==
  ASSUME NEW others, IsFiniteSet(others), NEW r, NEW n \in Nat,
         others \cap ({r} \X (1 .. n)) = {}
  PROVE  LET all == others \cup ({r} \X (1 .. n)) IN
           IsFiniteSet(all) /\ Cardinality(all) = Cardinality(others) + n
<1> DEFINE mine == {r} \X (1 .. n)
<1>1. IsFiniteSet(1 .. n) /\ Cardinality(1 .. n) = n
  BY FS_Interval
<1>2. IsFiniteSet({r}) /\ Cardinality({r}) = 1
  BY FS_Singleton
<1>3. IsFiniteSet(mine) /\ Cardinality(mine) = 1 * n
  <2>1. /\ IsFiniteSet(mine)
        /\ Cardinality(mine) = Cardinality({r}) * Cardinality(1 .. n)
    BY <1>1, <1>2, FS_Product, Zenon
  <2>. QED  BY <1>1, <1>2, <2>1
<1>4. /\ IsFiniteSet(others \cup mine)
      /\ Cardinality(others \cup mine) =
           Cardinality(others) + Cardinality(mine) - Cardinality(others \cap mine)
  BY <1>3, FS_Union
<1>5. Cardinality(others \cap mine) = 0
  BY FS_EmptySet
<1>6. Cardinality(others) \in Nat
  BY FS_CardinalityType
<1>. QED  BY <1>3, <1>4, <1>5, <1>6

(* The debts of all runners but r. *)
OthersDebts(r) == UNION {{q} \X (1 .. Owed(q)) : q \in Runners \ {r}}

(* A step that changes what r owes, and what no other runner does, changes the
   number of debts by the same amount.                                     *)
LEMMA DebtsStep ==
  ASSUME TypeOK, TypeOK', IsFiniteSet(Debts), NEW r \in Runners,
         \A q \in Runners \ {r} : pc'[q] = pc[q] /\ claimed'[q] = claimed[q]
  PROVE  /\ IsFiniteSet(Debts')
         /\ Cardinality(Debts) \in Nat /\ Cardinality(Debts') \in Nat
         /\ Cardinality(Debts') + Owed(r) = Cardinality(Debts) + Owed(r)'
<1>1. Owed(r) \in Nat /\ Owed(r)' \in Nat
  BY OwedNat DEF TypeOK, Owed
<1>2. \A q \in Runners \ {r} : Owed(q)' = Owed(q)
  BY DEF Owed
<1>3. OthersDebts(r)' = OthersDebts(r)
  BY <1>2 DEF OthersDebts
<1>4. /\ Debts = OthersDebts(r) \cup ({r} \X (1 .. Owed(r)))
      /\ Debts' = OthersDebts(r)' \cup ({r} \X (1 .. Owed(r)'))
  BY Zenon DEF Debts, OthersDebts
<1>5. IsFiniteSet(OthersDebts(r))
  BY <1>4, FS_Subset
<1>6. /\ OthersDebts(r) \cap ({r} \X (1 .. Owed(r))) = {}
      /\ OthersDebts(r) \cap ({r} \X (1 .. Owed(r)')) = {}
  BY DEF OthersDebts
<1>7. IsFiniteSet(Debts) /\ Cardinality(Debts) = Cardinality(OthersDebts(r)) + Owed(r)
  BY <1>1, <1>4, <1>5, <1>6, DebtsOf, Zenon
<1>9. IsFiniteSet(Debts') /\ Cardinality(Debts') = Cardinality(OthersDebts(r)) + Owed(r)'
  <2> DEFINE owed == Owed(r)'
             later == OthersDebts(r) \cup ({r} \X (1 .. owed))
  <2>1. Debts' = later
    BY <1>3, <1>4, Zenon
  <2>2. owed \in Nat /\ OthersDebts(r) \cap ({r} \X (1 .. owed)) = {}
    BY <1>1, <1>6
  <2>3. IsFiniteSet(later) /\ Cardinality(later) = Cardinality(OthersDebts(r)) + owed
    <3> HIDE DEF owed
    <3>. QED  BY <2>2, <1>5, DebtsOf, Zenon
  <2>. QED  BY <2>1, <2>3, Zenon
<1>8. Cardinality(OthersDebts(r)) \in Nat
  BY <1>5, FS_CardinalityType
<1>. QED  BY <1>1, <1>7, <1>9, <1>8

-------------------------------------------------------------------------------
(* A step of r makes `paid` owed attempts count and drops `lost` of them, and
   drops some only if the search is disturbed.                             *)
Settles(r, paid, lost) ==
  /\ Completed(paid) \/ (paid = 0 /\ UNCHANGED completed)
  /\ MaxAttempts > 0 => reserved' + Owed(r) = reserved + Owed(r)' + paid + lost
  /\ lost > 0 => ~Undisturbed'

(* What a step of r changes of what the invariant speaks of, ...           *)
Frame(r) ==
  /\ \A q \in Runners \ {r} :
       /\ pc'[q] = pc[q] /\ claimed'[q] = claimed[q]
       /\ processed'[q] = processed[q] /\ cursor'[q] = cursor[q]
  /\ pc[r] \notin Ended /\ (pc[r] \in {"fail", "abort"} => pc'[r] \in {"abort", "failed"})
  /\ (cancelled => cancelled') /\ (cancelled' => cancelled \/ pc'[r] = "failed")
  /\ UNCHANGED <<parentCancelled, best, outcome>>
  /\ bestRun' >= bestRun

(* ... and the account it gives of r's attempts.                           *)
Settled(r) ==
  /\ reserved' >= reserved /\ (MaxAttempts > 0 => reserved' <= MaxAttempts)
  /\ \E paid, lost \in Nat : Settles(r, paid, lost)
  /\ InBatch(r)'
  /\ pc'[r] = "done" /\ Undisturbed' => MaxAttempts > 0 /\ reserved' >= MaxAttempts

(* What holds before a step of r. *)
Fit(r) ==
  /\ TypeOK /\ Bounded /\ InBatch(r)
  /\ MaxAttempts > 0 => reserved <= MaxAttempts

(* Every runner step stays within its frame. *)
LEMMA RunnerFrame ==
  ASSUME TypeOK, NEW r \in Runners, Runner(r)
  PROVE  Frame(r)
<1> USE DEF TypeOK, Frame, Goto, local, shared, coord, Ended
<1>b. bestRun \in Int /\ found[r] \in Int
  BY SearchAssumption
<1>1. CASE NewKey(r)
  BY <1>1, <1>b DEF NewKey
<1>2. CASE Scan(r)
  BY <1>2, <1>b DEF Scan
<1>3. CASE Claim(r)
  BY <1>3, <1>b DEF Claim
<1>4. CASE Poll(r)
  BY <1>4, <1>b DEF Poll
<1>5. CASE Hash(r)
  BY <1>5, <1>b DEF Hash, Advance
<1>6. CASE Account(r)
  BY <1>6, <1>b DEF Account, Continue
<1>7. CASE Hit(r)
  BY <1>7, <1>b DEF Hit
<1>8. CASE OpenDevice(r)
  BY <1>8, <1>b DEF OpenDevice
<1>9. CASE LoadBaseline(r)
  BY <1>9, <1>b DEF LoadBaseline
<1>10. CASE Dispatch(r)
  BY <1>10, <1>b DEF Dispatch, Continue
<1>11. CASE Verify(r)
  BY <1>11, <1>b DEF Verify, AfterDispatch, Continue
<1>12. CASE Send(r)
  BY <1>12, <1>b DEF Send, Advance, AfterDispatch, Continue
<1>13. CASE ReportError(r)
  BY <1>13, <1>b DEF ReportError
<1>14. CASE Abort(r)
  BY <1>14, <1>b DEF Abort
<1>15. QED
  BY <1>1, <1>2, <1>3, <1>4, <1>5, <1>6, <1>7, <1>8, <1>9, <1>10, <1>11,
     <1>12, <1>13, <1>14 DEF Runner

(* A step that leaves the atomics and what r owes alone settles nothing.   *)
LEMMA NothingSettled ==
  ASSUME TypeOK, NEW r \in Runners, UNCHANGED <<reserved, completed>>,
         Owed(r)' = Owed(r)
  PROVE  \E paid, lost \in Nat : Settles(r, paid, lost)
<1>1. Owed(r) \in Nat /\ reserved \in Nat
  BY OwedNat DEF TypeOK
<1>2. Settles(r, 0, 0)
  BY <1>1 DEF Settles
<1>. QED  BY <1>2

(* The steps around the batches. *)
LEMMA QuietSettled ==
  ASSUME NEW r \in Runners, Fit(r), TypeOK',
         NewKey(r) \/ Scan(r) \/ OpenDevice(r) \/ ReportError(r) \/ Abort(r)
  PROVE  Settled(r)
<1> USE DEF Fit, Goto, local, shared, coord
<1>1. /\ UNCHANGED <<claimed, processed, cursor, reserved, completed, bestRun>>
      /\ pc[r] \in {"key", "scan", "open", "fail", "abort"}
      /\ pc'[r] \in {"key", "scan", "claim", "done", "fail", "abort", "failed"}
      /\ pc'[r] = "done" => cancelled'
  BY DEF TypeOK, NewKey, Scan, OpenDevice, ReportError, Abort
<1>2. Owed(r)' = Owed(r)
  BY <1>1 DEF Owed
<1>3. InBatch(r)'
  BY <1>1 DEF InBatch
<1>4. reserved \in Nat
  BY DEF TypeOK
<1>. QED  BY <1>1, <1>2, <1>3, <1>4, NothingSettled DEF Settled, Undisturbed

(* claimAttempts grants a part of the request, and less than all of it only
   when it hands out the last attempts of the budget.                      *)
LEMMA GrantPart ==
  ASSUME TypeOK, NEW q \in Nat \ {0}, MaxAttempts > 0 => reserved <= MaxAttempts
  PROVE  /\ Grant(q) \in Nat /\ Grant(q) <= q
         /\ MaxAttempts > 0 => reserved + Grant(q) <= MaxAttempts
         /\ Grant(q) < q => MaxAttempts > 0 /\ reserved + Grant(q) = MaxAttempts
BY SearchAssumption DEF TypeOK, Grant, minUint64

(* A runner asks for at least one attempt. *)
LEMMA RequestPositive ==
  ASSUME TypeOK, NEW r \in Runners
  PROVE  Requested(r) \in Nat \ {0}
<1>1. WorkItems \div KeyBatch \in Nat
  BY SearchAssumption
<1>2. Span - cursor[r] \in Nat \ {0}
  BY SearchAssumption DEF TypeOK
<1>3. TimestampCount(r) \in Nat \ {0}
  BY <1>1, <1>2 DEF TimestampCount, minUint64
<1>4. KeyBatch * TimestampCount(r) \in Nat \ {0}
  BY <1>3, SearchAssumption
<1>. QED  BY <1>2, <1>4, SearchAssumption DEF Requested, minUint64

LEMMA ClaimSettled ==
  ASSUME NEW r \in Runners, Fit(r), TypeOK', Claim(r)
  PROVE  Settled(r)
<1> DEFINE grant == Grant(Requested(r))
<1> USE DEF Fit, Goto
<1>1. /\ grant \in Nat /\ grant <= Requested(r) /\ Requested(r) \in Nat \ {0}
      /\ MaxAttempts > 0 => reserved + grant <= MaxAttempts
      /\ grant < Requested(r) => MaxAttempts > 0 /\ reserved + grant = MaxAttempts
      /\ reserved \in Nat /\ MaxAttempts \in Nat
  BY RequestPositive, GrantPart, SearchAssumption DEF TypeOK
<1>2. pc[r] = "claim" /\ Owed(r) = 0 /\ UNCHANGED <<completed, cursor, bestRun>>
  BY DEF Claim, Owed
<1>3. Requested(r)' = Requested(r)
  BY <1>2 DEF Requested, TimestampCount
<1>4. CASE grant = 0
  <2>1. pc'[r] = "done" /\ UNCHANGED <<claimed, processed, reserved>>
    BY <1>4 DEF Claim, TypeOK
  <2>2. Owed(r)' = Owed(r) /\ InBatch(r)'
    BY <1>2, <2>1 DEF Owed, InBatch
  <2>. QED  BY <1>1, <1>2, <1>4, <2>1, <2>2, NothingSettled DEF Settled
<1>5. CASE grant # 0
  <2>1. /\ reserved' = IF MaxAttempts = 0 THEN reserved ELSE reserved + grant
        /\ claimed'[r] = grant /\ processed'[r] = 0
        /\ pc'[r] = IF r \in CPURunners THEN "poll" ELSE "baseline"
    BY <1>5 DEF Claim, TypeOK
  <2>2. Owed(r)' = grant
    BY <2>1 DEF Owed
  <2>3. Settles(r, 0, 0)
    BY <1>1, <1>2, <2>1, <2>2 DEF Settles
  <2>4. InBatch(r)'
    <3>1. claimed'[r] < Requested(r)' => MaxAttempts > 0 /\ reserved' >= MaxAttempts
      BY <1>1, <1>3, <2>1
    <3>2. r \in CPURunners => r \notin GPURunners
      BY SearchAssumption
    <3>. QED  BY <1>1, <1>5, <2>1, <3>1, <3>2 DEF InBatch
  <2>. QED  BY <1>1, <2>1, <2>3, <2>4 DEF Settled
<1>. QED  BY <1>4, <1>5

(* searchWorker: the loop counts what it has hashed, and stops short of its
   claim only when the context has ended or a hash has failed.             *)
LEMMA PollSettled ==
  ASSUME NEW r \in Runners, Fit(r), TypeOK', Poll(r)
  PROVE  Settled(r)
<1> USE DEF Fit, Goto, local
<1>1. /\ pc[r] = "poll" /\ r \in CPURunners /\ r \notin GPURunners
      /\ UNCHANGED <<claimed, processed, cursor, reserved, bestRun, cancelled>>
      /\ processed[r] \in Nat /\ claimed[r] \in Nat /\ processed[r] < claimed[r]
      /\ reserved \in Nat /\ Owed(r) = claimed[r]
  BY SearchAssumption DEF Poll, InBatch, TypeOK, Owed, Runners
<1>2. CASE pc'[r] = "hash" /\ UNCHANGED completed
  <2>1. Owed(r)' = Owed(r) /\ InBatch(r)'
    BY <1>1, <1>2 DEF Owed, InBatch
  <2>. QED  BY <1>1, <1>2, <2>1, NothingSettled DEF Settled
<1>3. CASE pc'[r] = "done" /\ cancelled /\ Completed(processed[r])
  <2>1. Owed(r)' = 0 /\ InBatch(r)' /\ ~Undisturbed'
    BY <1>1, <1>3 DEF Owed, InBatch, Undisturbed
  <2>2. Settles(r, processed[r], claimed[r] - processed[r])
    <3>1. reserved' + Owed(r) = reserved + Owed(r)' + processed[r]
                                  + (claimed[r] - processed[r])
      BY <1>1, <2>1
    <3>. QED  BY <1>3, <2>1, <3>1 DEF Settles
  <2>3. claimed[r] - processed[r] \in Nat
    BY <1>1
  <2>. QED  BY <1>1, <2>1, <2>2, <2>3 DEF Settled
<1>. QED  BY <1>2, <1>3 DEF Poll, TypeOK

LEMMA HashSettled ==
  ASSUME NEW r \in Runners, Fit(r), TypeOK', Hash(r)
  PROVE  Settled(r)
<1> USE DEF Fit, Goto
<1>1. /\ pc[r] = "hash" /\ r \in CPURunners /\ r \notin GPURunners
      /\ UNCHANGED <<claimed, cursor, reserved, cancelled>>
      /\ processed[r] \in Nat /\ claimed[r] \in Nat /\ processed[r] < claimed[r]
      /\ reserved \in Nat /\ Owed(r) = claimed[r]
  BY SearchAssumption DEF Hash, InBatch, TypeOK, Owed, Runners
<1>2. CASE pc'[r] = "send" /\ UNCHANGED <<processed, completed>>
  <2>1. Owed(r)' = Owed(r) /\ InBatch(r)'
    BY <1>1, <1>2 DEF Owed, InBatch
  <2>. QED  BY <1>1, <1>2, <2>1, NothingSettled DEF Settled
<1>3. CASE Advance(r) /\ UNCHANGED completed
  <2>1. /\ processed'[r] = processed[r] + 1
        /\ pc'[r] = IF processed[r] + 1 = claimed[r] THEN "account" ELSE "poll"
    BY <1>3 DEF Advance, TypeOK
  <2>2. Owed(r)' = Owed(r) /\ InBatch(r)'
    BY <1>1, <2>1 DEF Owed, InBatch
  <2>. QED  BY <1>1, <1>3, <2>1, <2>2, NothingSettled DEF Settled
<1>4. CASE pc'[r] = "fail" /\ Completed(processed[r]) /\ UNCHANGED processed
  <2>1. Owed(r)' = 0 /\ InBatch(r)' /\ ~Undisturbed'
    BY <1>1, <1>4 DEF Owed, InBatch, Undisturbed
  <2>2. Settles(r, processed[r], claimed[r] - processed[r])
    <3>1. reserved' + Owed(r) = reserved + Owed(r)' + processed[r]
                                  + (claimed[r] - processed[r])
      BY <1>1, <2>1
    <3>. QED  BY <1>4, <2>1, <3>1 DEF Settles
  <2>3. claimed[r] - processed[r] \in Nat
    BY <1>1
  <2>. QED  BY <1>1, <1>4, <2>1, <2>2, <2>3 DEF Settled
<1>. QED  BY <1>2, <1>3, <1>4 DEF Hash, TypeOK

LEMMA AccountSettled ==
  ASSUME NEW r \in Runners, Fit(r), TypeOK', Account(r)
  PROVE  Settled(r)
<1> USE DEF Fit, Goto
<1>1. /\ pc[r] = "account" /\ r \in CPURunners /\ r \notin GPURunners
      /\ UNCHANGED <<claimed, processed, reserved, bestRun>>
      /\ Completed(processed[r])
      /\ processed[r] \in Nat /\ claimed[r] \in Nat /\ processed[r] = claimed[r]
      /\ reserved \in Nat /\ Owed(r) = claimed[r]
      /\ pc'[r] \in {"key", "scan"}
  BY SearchAssumption DEF Account, Continue, InBatch, TypeOK, Owed, Runners
<1>2. Owed(r)' = 0 /\ InBatch(r)'
  BY <1>1 DEF Owed, InBatch
<1>3. Settles(r, processed[r], 0)
  BY <1>1, <1>2 DEF Settles
<1>. QED  BY <1>1, <1>2, <1>3 DEF Settled

LEMMA HitSettled ==
  ASSUME NEW r \in Runners, Fit(r), TypeOK', Hit(r)
  PROVE  Settled(r)
<1> USE DEF Fit, Goto, local
<1>1. /\ pc[r] = "hit" /\ r \in CPURunners /\ r \notin GPURunners
      /\ UNCHANGED <<claimed, processed, reserved, bestRun>>
      /\ Completed(processed[r] + 1)
      /\ processed[r] \in Nat /\ claimed[r] \in Nat /\ processed[r] < claimed[r]
      /\ reserved \in Nat /\ Owed(r) = claimed[r]
      /\ pc'[r] = "done" /\ bestRun >= MinRun
  BY SearchAssumption DEF Hit, InBatch, TypeOK, Owed, Runners
<1>2. Owed(r)' = 0 /\ InBatch(r)'
  BY <1>1 DEF Owed, InBatch
<1>3. ~Undisturbed'
  BY <1>1, SearchAssumption DEF Undisturbed, TypeOK
<1>4. claimed[r] - (processed[r] + 1) \in Nat /\ processed[r] + 1 \in Nat
  BY <1>1
<1>5. Settles(r, processed[r] + 1, claimed[r] - (processed[r] + 1))
  <2>1. reserved' + Owed(r) = reserved + Owed(r)' + (processed[r] + 1)
                                + (claimed[r] - (processed[r] + 1))
    BY <1>1, <1>2
  <2>. QED  BY <1>1, <1>3, <2>1 DEF Settles
<1>. QED  BY <1>1, <1>2, <1>3, <1>4, <1>5 DEF Settled

(* searchOpenCLWorker: a dispatch counts its whole claim or fails.         *)
LEMMA BaselineSettled ==
  ASSUME NEW r \in Runners, Fit(r), TypeOK', LoadBaseline(r)
  PROVE  Settled(r)
<1> USE DEF Fit, Goto, shared
<1>1. /\ pc[r] = "baseline" /\ pc'[r] = "dispatch"
      /\ UNCHANGED <<claimed, processed, cursor, reserved, completed, bestRun>>
      /\ reserved \in Nat
  BY DEF LoadBaseline, TypeOK
<1>2. Owed(r)' = Owed(r)
  BY <1>1 DEF Owed
<1>3. InBatch(r)'
  BY <1>1 DEF InBatch, Requested, TimestampCount
<1>. QED  BY <1>1, <1>2, <1>3, NothingSettled DEF Settled

LEMMA DispatchSettled ==
  ASSUME NEW r \in Runners, Fit(r), TypeOK', Dispatch(r)
  PROVE  Settled(r)
<1> USE DEF Fit, Goto
<1>1. /\ pc[r] = "dispatch" /\ r \in GPURunners /\ r \notin CPURunners
      /\ UNCHANGED <<claimed, processed, reserved, bestRun>>
      /\ claimed[r] \in Nat /\ reserved \in Nat /\ Owed(r) = claimed[r]
  BY SearchAssumption DEF Dispatch, InBatch, TypeOK, Owed, Runners
<1>2. CASE /\ Completed(claimed[r])
           /\ \/ pc'[r] \in {"key", "scan"}
              \/ pc'[r] = "verify" /\ UNCHANGED cursor
  <2>1. Owed(r)' = 0
    BY <1>1, <1>2 DEF Owed
  <2>2. InBatch(r)'
    BY <1>1, <1>2 DEF InBatch, Requested, TimestampCount
  <2>3. Settles(r, claimed[r], 0)
    BY <1>1, <1>2, <2>1 DEF Settles
  <2>. QED  BY <1>1, <1>2, <2>2, <2>3 DEF Settled
<1>3. CASE pc'[r] = "fail" /\ UNCHANGED completed
  <2>1. Owed(r)' = 0 /\ InBatch(r)' /\ ~Undisturbed'
    BY <1>1, <1>3 DEF Owed, InBatch, Undisturbed
  <2>2. \E paid, lost \in Nat : Settles(r, paid, lost)
    <3>1. Settles(r, 0, claimed[r])
      BY <1>1, <1>3, <2>1 DEF Settles
    <3>. QED  BY <1>1, <3>1
  <2>. QED  BY <1>1, <1>3, <2>1, <2>2 DEF Settled
<1>. QED  BY <1>2, <1>3 DEF Dispatch, Continue, TypeOK

(* A short claim ends the runner: the budget has nothing left.             *)
LEMMA VerifySettled ==
  ASSUME NEW r \in Runners, Fit(r), TypeOK', Verify(r)
  PROVE  Settled(r)
<1> USE DEF Fit, Goto
<1>1. /\ pc[r] = "verify" /\ r \in GPURunners /\ r \notin CPURunners
      /\ UNCHANGED <<claimed, processed, reserved, completed>>
      /\ reserved \in Nat /\ Owed(r) = 0
  BY SearchAssumption DEF Verify, InBatch, TypeOK, Owed, Runners
<1>2. CASE (pc'[r] = "send" /\ UNCHANGED cursor) \/ pc'[r] \in {"key", "scan", "fail"}
  <2>1. Owed(r)' = Owed(r) /\ InBatch(r)'
    BY <1>1, <1>2 DEF Owed, InBatch, Requested, TimestampCount
  <2>. QED  BY <1>1, <1>2, <2>1, NothingSettled DEF Settled
<1>3. CASE pc'[r] = "done" /\ claimed[r] < Requested(r)
  <2>1. Owed(r)' = Owed(r) /\ InBatch(r)'
    BY <1>1, <1>3 DEF Owed, InBatch
  <2>2. MaxAttempts > 0 /\ reserved >= MaxAttempts
    BY <1>1, <1>3 DEF InBatch
  <2>. QED  BY <1>1, <1>3, <2>1, <2>2, NothingSettled DEF Settled
<1>. QED  BY <1>2, <1>3 DEF Verify, AfterDispatch, Continue, TypeOK

LEMMA SendSettled ==
  ASSUME NEW r \in Runners, Fit(r), TypeOK', Send(r)
  PROVE  Settled(r)
<1> USE DEF Fit, Goto
<1>1. /\ pc[r] = "send"
      /\ UNCHANGED <<claimed, reserved, completed, bestRun>>
      /\ processed[r] \in Nat /\ claimed[r] \in Nat /\ reserved \in Nat
      /\ found[r] \in Int /\ found[r] <= bestRun /\ bestRun \in Int /\ MinRun \in Int
      /\ (r \in CPURunners) = (r \notin GPURunners)
  BY SearchAssumption DEF Send, TypeOK, Bounded, Runners, shared
<1>2. CASE r \in CPURunners
  <2>1. \/ pc'[r] = "hit" /\ UNCHANGED processed /\ bestRun >= MinRun
        \/ /\ processed'[r] = processed[r] + 1
           /\ pc'[r] = IF processed[r] + 1 = claimed[r] THEN "account" ELSE "poll"
    BY <1>1, <1>2 DEF Send, Advance, TypeOK
  <2>2. processed[r] < claimed[r]
    BY <1>1, <1>2 DEF InBatch
  <2>3. Owed(r)' = Owed(r)
    BY <1>1, <1>2, <2>1 DEF Owed
  <2>4. InBatch(r)'
    BY <1>1, <1>2, <2>1, <2>2 DEF InBatch
  <2>. QED  BY <1>1, <2>1, <2>3, <2>4, NothingSettled DEF Settled
<1>3. CASE r \in GPURunners
  <2>1. \/ pc'[r] = "done" /\ bestRun >= MinRun
        \/ pc'[r] = "done" /\ claimed[r] < Requested(r)
        \/ pc'[r] \in {"key", "scan"}
    BY <1>1, <1>3 DEF Send, AfterDispatch, Continue, TypeOK
  <2>2. Owed(r)' = Owed(r)
    BY <1>1, <1>3, <2>1 DEF Owed
  <2>3. InBatch(r)'
    BY <1>1, <1>3, <2>1 DEF InBatch
  <2>4. pc'[r] = "done" /\ Undisturbed' => MaxAttempts > 0 /\ reserved' >= MaxAttempts
    BY <1>1, <1>3, <2>1 DEF InBatch, Undisturbed
  <2>. QED  BY <1>1, <2>2, <2>3, <2>4, NothingSettled DEF Settled
<1>. QED  BY <1>2, <1>3 DEF Runners

(* Every runner step gives its account. *)
LEMMA RunnerSettled ==
  ASSUME NEW r \in Runners, Fit(r), TypeOK', Runner(r)
  PROVE  Settled(r)
BY QuietSettled, ClaimSettled, PollSettled, HashSettled, AccountSettled,
   HitSettled, BaselineSettled, DispatchSettled, VerifySettled, SendSettled
   DEF Runner

-------------------------------------------------------------------------------
(* A disturbance lasts. *)
LEMMA StaysDisturbed ==
  ASSUME TypeOK, TypeOK', NEW r \in Runners, Frame(r), Undisturbed'
  PROVE  Undisturbed
<1>1. bestRun \in Int /\ bestRun' \in Int /\ MinRun \in Int /\ bestRun' >= bestRun
  BY SearchAssumption DEF TypeOK, Frame
<1>2. ~cancelled /\ bestRun < MinRun
  BY <1>1 DEF Undisturbed, Frame
<1>3. \A q \in Runners : pc[q] \notin {"fail", "abort", "failed"}
  <2>1. pc[r] \notin {"fail", "abort", "failed"}
    BY DEF Undisturbed, Frame, Ended
  <2>2. \A q \in Runners \ {r} : pc[q] \notin {"fail", "abort", "failed"}
    BY DEF Undisturbed, Frame
  <2>. QED  BY <2>1, <2>2
<1>. QED  BY <1>2, <1>3 DEF Undisturbed

(* The books after a step of r. *)
LEMMA RunnerBooks ==
  ASSUME TypeOK, TypeOK', Books, NEW r \in Runners, Frame(r), Settled(r)
  PROVE  Books'
<1>1. PICK paid \in Nat, lost \in Nat : Settles(r, paid, lost)
  BY DEF Settled
<1>2. /\ IsFiniteSet(Debts')
      /\ Cardinality(Debts) \in Nat /\ Cardinality(Debts') \in Nat
      /\ Cardinality(Debts') + Owed(r) = Cardinality(Debts) + Owed(r)'
  BY DebtsStep DEF Books, Frame
<1>3. Owed(r) \in Nat /\ Owed(r)' \in Nat
  BY OwedNat DEF TypeOK, Owed
<1>4. SUFFICES ASSUME MaxAttempts > 0
               PROVE  /\ reserved' <= MaxAttempts
                      /\ completed' + Cardinality(Debts') <= reserved'
                      /\ Undisturbed' => completed' + Cardinality(Debts') = reserved'
  BY <1>2 DEF Books
<1>5. /\ reserved' <= MaxAttempts /\ MaxAttempts < CountCap
      /\ reserved' + Owed(r) = reserved + Owed(r)' + paid + lost
      /\ completed + Cardinality(Debts) <= reserved
      /\ completed \in Nat /\ reserved \in Nat /\ reserved' \in Nat
      /\ MaxAttempts \in Nat /\ CountCap \in Nat
  BY <1>1, <1>4, SearchAssumption DEF Settled, Settles, Books, TypeOK
<1>6. completed + paid + lost + Cardinality(Debts') <= reserved'
  BY <1>2, <1>3, <1>5
<1>7. completed' = completed + paid
  <2>1. completed + paid <= CountCap
    BY <1>2, <1>5, <1>6
  <2>. QED  BY <1>1, <1>5, <2>1 DEF Settles, Completed, minUint64
<1>8. Undisturbed' => completed' + Cardinality(Debts') = reserved'
  <2>1. SUFFICES ASSUME Undisturbed' PROVE completed' + Cardinality(Debts') = reserved'
    OBVIOUS
  <2>2. Undisturbed
    BY <2>1, StaysDisturbed
  <2>3. lost = 0 /\ completed + Cardinality(Debts) = reserved
    BY <1>1, <1>4, <2>1, <2>2 DEF Settles, Books
  <2>. QED  BY <1>2, <1>3, <1>5, <1>7, <2>3
<1>. QED  BY <1>2, <1>5, <1>6, <1>7, <1>8

(* The other parts of the invariant after it. *)
LEMMA RunnerRest ==
  ASSUME TypeOK, TypeOK', BInv, NEW r \in Runners, Frame(r), Settled(r)
  PROVE  (\A q \in Runners : InBatch(q)') /\ Drained' /\ Reasons'
<1>1. /\ reserved \in Nat /\ reserved' \in Nat /\ reserved' >= reserved
      /\ (MaxAttempts > 0 => reserved <= MaxAttempts /\ reserved' <= MaxAttempts)
      /\ bestRun \in Int /\ bestRun' \in Int /\ MinRun \in Int
      /\ MaxAttempts \in Nat /\ bestRun' >= bestRun
  BY SearchAssumption DEF TypeOK, Settled, Frame, BInv, Books
<1>2. ASSUME NEW q \in Runners \ {r} PROVE InBatch(q)'
  <2>1. /\ pc'[q] = pc[q] /\ claimed'[q] = claimed[q]
        /\ processed'[q] = processed[q] /\ cursor'[q] = cursor[q]
    BY DEF Frame
  <2>2. Requested(q)' = Requested(q)
    BY <2>1 DEF Requested, TimestampCount
  <2>. QED  BY <1>1, <2>1, <2>2 DEF InBatch, BInv
<1>3. Drained'
  <2>1. SUFFICES ASSUME Undisturbed', NEW q \in Runners, pc'[q] = "done"
                 PROVE  MaxAttempts > 0 /\ reserved' >= MaxAttempts
    BY DEF Drained
  <2>2. CASE q = r
    BY <2>1, <2>2 DEF Settled
  <2>3. CASE q # r
    <3>1. Undisturbed /\ pc[q] = "done"
      BY <2>1, <2>3, StaysDisturbed DEF Frame
    <3>. QED  BY <1>1, <3>1 DEF Drained, BInv
  <2>. QED  BY <2>2, <2>3
<1>4. Reasons'
  <2>1. \A q \in Runners : pc[q] = "failed" => pc'[q] = "failed"
    BY DEF Frame, Ended
  <2>. QED  BY <1>1, <2>1 DEF Reasons, BInv, Frame
<1>. QED  BY <1>2, <1>3, <1>4 DEF Settled

(* A step of the coordinator, the closer or the user leaves the books alone;
   only a candidate that reaches the target and the user end the context.  *)
LEMMA OtherStep ==
  ASSUME TypeOK, TypeOK', Bounded, BInv,
         UNCHANGED <<pc, local, reserved, completed, bestRun>>,
         cancelled => cancelled',
         Reasons'
  PROVE  BInv'
<1> USE DEF local
<1>1. Debts' = Debts
  BY DEF Debts, Owed
<1>2. Undisturbed' => Undisturbed
  BY DEF Undisturbed
<1>3. Books'
  BY <1>1, <1>2 DEF BInv, Books
<1>4. ASSUME NEW q \in Runners PROVE InBatch(q)'
  BY DEF BInv, InBatch, Requested, TimestampCount
<1>5. Drained'
  BY <1>2 DEF BInv, Drained
<1>. QED  BY <1>3, <1>4, <1>5 DEF BInv

LEMMA BooksStep == IInv /\ IInv' /\ BInv /\ [Next]_vars => BInv'
<1> SUFFICES ASSUME IInv, IInv', BInv, [Next]_vars PROVE BInv'
  OBVIOUS
<1> USE DEF IInv
<1>1. ASSUME NEW r \in Runners, Runner(r) PROVE BInv'
  <2>1. Frame(r)
    BY <1>1, RunnerFrame
  <2>2. Fit(r)
    BY DEF Fit, BInv, Books
  <2>3. Settled(r)
    BY <1>1, <2>2, RunnerSettled
  <2>. QED  BY <2>1, <2>3, RunnerBooks, RunnerRest DEF BInv
<1> USE DEF shared, coord
<1>2. CASE Receive
  <2>1. Head(chan) \in Int /\ Head(chan) <= bestRun /\ best \in Int /\ bestRun \in Int
        /\ MinRun \in Int
    BY <1>2, SeqOfNat, SearchAssumption DEF Receive, Bounded
  <2>2. Reasons'
    <3>1. outcome' = outcome /\ outcome = "searching"
      BY <1>2 DEF Receive
    <3>2. /\ cancelled' = (cancelled \/ Head(chan) >= MinRun)
          /\ UNCHANGED <<pc, bestRun, parentCancelled>>
      BY <1>2 DEF Receive
    <3>3. cancelled' => cancelled \/ bestRun >= MinRun
      <4>1. cancelled' => cancelled \/ Head(chan) >= MinRun
        BY <3>2, Zenon
      <4>. QED  BY <2>1, <4>1
    <3>. QED  BY <3>1, <3>2, <3>3 DEF Reasons, BInv
  <2>. QED  BY <1>2, <2>2, OtherStep DEF Receive, TypeOK
<1>3. CASE Finish
  <2>1. Reasons'
    BY <1>3, SearchAssumption DEF Finish, Reasons, BInv, TypeOK
  <2>. QED  BY <1>3, <2>1, OtherStep DEF Finish
<1>4. CASE ParentCancel
  <2>1. Reasons'
    BY <1>4 DEF ParentCancel, Reasons, BInv
  <2>. QED  BY <1>4, <2>1, OtherStep DEF ParentCancel
<1>5. CASE Closer \/ ReceiveError \/ Tick \/ UNCHANGED vars
  <2>1. /\ UNCHANGED <<pc, local, reserved, completed, bestRun, cancelled>>
        /\ UNCHANGED <<parentCancelled, best, outcome>>
    BY <1>5 DEF Closer, ReceiveError, Tick, vars
  <2>2. Reasons'
    BY <2>1 DEF Reasons, BInv
  <2>. QED  BY <2>1, <2>2, OtherStep
<1>. QED  BY <1>1, <1>2, <1>3, <1>4, <1>5 DEF Next, Returned

LEMMA BooksOpened == Init => BInv
<1> SUFFICES ASSUME Init PROVE BInv
  OBVIOUS
<1>1. \A r \in Runners : Owed(r) = 0
  BY DEF Init, Owed
<1>2. Debts = {}
  BY <1>1 DEF Debts
<1>3. IsFiniteSet(Debts) /\ Cardinality(Debts) = 0
  BY <1>2, FS_EmptySet
<1>4. Books
  BY <1>3, SearchAssumption DEF Init, Books
<1>5. \A r \in Runners : InBatch(r)
  BY SearchAssumption DEF Init, InBatch, Runners
<1>6. Drained /\ Reasons
  BY DEF Init, Drained, Reasons
<1>. QED  BY <1>4, <1>5, <1>6 DEF BInv

(* The books are kept in every state, whatever the number of runners.      *)
THEOREM BooksKept == Spec => []BInv
<1>1. QED  BY Invariant, BooksOpened, BooksStep, PTL DEF Spec

(* search.go:359-378: no more than MaxAttempts attempts are ever handed out,
   and only attempts that were handed out are counted.                     *)
THEOREM BudgetAlways == Spec => []Budget
<1>1. IInv /\ BInv => Budget
  <2>1. SUFFICES ASSUME IInv, BInv, MaxAttempts > 0
                 PROVE  completed <= reserved /\ reserved <= MaxAttempts
    BY DEF Budget
  <2>2. Cardinality(Debts) \in Nat
    BY <2>1, FS_CardinalityType DEF BInv, Books
  <2>. QED  BY <2>1, <2>2 DEF BInv, Books, IInv, TypeOK
<1>. QED  BY Invariant, BooksKept, <1>1, PTL

(* A search that ends by itself below its target has spent, and counted, the
   whole budget: nothing is reserved twice and nothing is left over.       *)
THEOREM BudgetSpentAlways == Spec => []BudgetSpent
<1>1. IInv /\ BInv => BudgetSpent
  <2>1. SUFFICES ASSUME IInv, BInv, outcome = "ok", best < MinRun,
                        \A r \in Runners : pc[r] = "done"
                 PROVE  MaxAttempts > 0 /\ completed = MaxAttempts
    BY DEF BudgetSpent
  <2>2. /\ best \in Int /\ bestRun \in Int /\ MinRun \in Int /\ InitialBestRun \in Int
        /\ InitialBestRun < MinRun
    BY <2>1, SearchAssumption DEF IInv, TypeOK
  <2>3. bestRun < MinRun
    <3>1. best = IF bestRun > InitialBestRun THEN bestRun ELSE NoCandidate
      BY <2>1, IInvAligned DEF Aligned
    <3>. QED  BY <2>1, <2>2, <3>1
  <2>4. Undisturbed
    BY <2>1, <2>2, <2>3 DEF BInv, Reasons, Undisturbed
  <2>5. MaxAttempts > 0 /\ reserved >= MaxAttempts
    BY <2>1, <2>4, RunnersAssumption DEF BInv, Drained
  <2>6. Debts = {}
    <3>1. \A r \in Runners : Owed(r) = 0
      BY <2>1 DEF Owed
    <3>. QED  BY <3>1 DEF Debts
  <2>7. Cardinality(Debts) = 0
    BY <2>6, FS_EmptySet
  <2>8. completed + 0 = reserved /\ reserved <= MaxAttempts
    BY <2>1, <2>4, <2>5, <2>7 DEF BInv, Books
  <2>9. completed \in Nat /\ reserved \in Nat /\ MaxAttempts \in Nat
    BY <2>1, SearchAssumption DEF IInv, TypeOK
  <2>. QED  BY <2>5, <2>8, <2>9
<1>. QED  BY Invariant, BooksKept, <1>1, PTL
================================================================================
