----------------------------- MODULE VanitySearch -----------------------------
(***************************************************************************)
(* vanity.Search: a coordinator goroutine, CPU runners (searchWorker) and  *)
(* GPU runners (searchOpenCLWorker) sharing three atomics, a bounded       *)
(* candidate channel, a one-slot error channel and a cancellable context.  *)
(*                                                                         *)
(* A hash is abstracted to the length of the run it produces, so a         *)
(* candidate is its run length; 0 stands for "no candidate", which is      *)
(* unambiguous because only runs above InitialBestRun are ever promoted.   *)
(* claimAttempts and promoteBest are single steps here; module CasLoops    *)
(* shows that their compare-and-swap loops behave like that.               *)
(***************************************************************************)
EXTENDS Integers, Sequences, FiniteSets

CONSTANTS
  CPURunners, GPURunners,  (* the runners Search starts                      *)
  FaultyRunners,   (* those whose key generation, hashing or device may fail *)
  InitialBestRun, MinRun, MaxRun,
  MaxAttempts,     (* attempt budget, 0 for none                             *)
  Span,            (* timestamps scanned for one key: end - start + 1        *)
  BatchSize,       (* searchBatchSize                                        *)
  PollStride,      (* hashes between two looks at the context, 1024          *)
  KeyBatch, WorkItems,     (* GPUKeyBatch and GPUWorkItems                   *)
  CountCap         (* bound of the model: `completed` saturates here         *)

Runners == CPURunners \cup GPURunners

ASSUME SearchAssumption ==
  /\ CPURunners \cap GPURunners = {}
  /\ IsFiniteSet(Runners)
  /\ InitialBestRun \in Nat /\ MinRun \in Nat /\ MaxRun \in Nat
  /\ InitialBestRun < MinRun      \* cmd/vanity.go:171 returns early otherwise
  /\ MinRun <= MaxRun             \* validate: MinRun is at most 16
  /\ MaxAttempts \in Nat
  /\ Span \in Nat \ {0} /\ BatchSize \in Nat \ {0} /\ PollStride \in Nat \ {0}
  /\ KeyBatch \in Nat \ {0} /\ WorkItems \in Nat \ {0}
  /\ CountCap \in Nat /\ CountCap > MaxAttempts

(* A CPU backend has a worker at least, an OpenCL one a device.            *)
ASSUME RunnersAssumption == Runners # {}

VARIABLES
  pc,         (* control point of each runner                               *)
  cursor,     (* offset of the next timestamp of the runner's current key   *)
  claimed,    (* attempts of the batch the runner is working on             *)
  processed,  (* hashes done of that batch (CPU)                            *)
  baseline,   (* bestRun as loaded before a dispatch (GPU)                  *)
  found,      (* run the runner is about to promote or send                 *)
  reserved, completed, bestRun,   (* the three atomics                      *)
  chan,       (* candidates                                                 *)
  closed,     (* candidates has been closed                                 *)
  errCh,      (* errorsCh: empty, or the runner whose error it holds        *)
  cancelled, parentCancelled,     (* searchCtx.Err, ctx.Err                 *)
  best,       (* the coordinator's best candidate                           *)
  firstErr,   (* empty, or the runner whose error the coordinator kept      *)
  reported,   (* attempts in the last Progress handed to progressFn         *)
  outcome     (* "searching" until Search returns                           *)

local  == <<cursor, claimed, processed, baseline, found>>
shared == <<reserved, completed, bestRun>>
coord  == <<best, firstErr, reported, outcome>>
vars   == <<pc, local, shared, chan, closed, errCh, cancelled,
            parentCancelled, coord>>

NoCandidate == 0

minUint64(a, b) == IF a < b THEN a ELSE b

ChanCap == IF 2 * Cardinality(Runners) > 2 THEN 2 * Cardinality(Runners) ELSE 2

Ended == {"done", "failed"}

Labels == Ended \cup {"open", "key", "scan", "claim", "poll", "hash", "account",
                      "hit", "baseline", "dispatch", "verify", "send",
                      "fail", "abort"}

-------------------------------------------------------------------------------
(* Operations on the atomics. *)

(* Mutant: the last request is not cut down to what the budget has left. *)
GrantUncut(requested) ==
  IF MaxAttempts > 0 /\ reserved >= MaxAttempts THEN 0 ELSE requested

(* claimAttempts: how much of a request the budget still grants. *)
Grant(requested) ==
  IF MaxAttempts = 0 THEN requested
  ELSE IF reserved >= MaxAttempts THEN 0
  ELSE minUint64(requested, MaxAttempts - reserved)

(* completed.Add *)
Completed(n) == completed' = minUint64(completed + n, CountCap)

(* timestampCount of the next dispatch, and the attempts it asks for. *)
TimestampCount(r) ==
  minUint64(IF WorkItems \div KeyBatch = 0 THEN 1 ELSE WorkItems \div KeyBatch,
            Span - cursor[r])

Requested(r) ==
  IF r \in CPURunners THEN minUint64(BatchSize, Span - cursor[r])
                      ELSE KeyBatch * TimestampCount(r)

-------------------------------------------------------------------------------
(* Steps shared by the two kinds of runner. *)

Goto(r, label) == pc' = [pc EXCEPT ![r] = label]

(* Mutant: the cursor is not reset for a new key. *)
ContinueNoReset(r, c) ==
  /\ cursor' = [cursor EXCEPT ![r] = c]
  /\ Goto(r, IF c >= Span THEN "key" ELSE "scan")

(* Go on with the key at offset c, or with a new key once it is used up. *)
Continue(r, c) ==
  /\ cursor' = [cursor EXCEPT ![r] = IF c >= Span THEN 0 ELSE c]
  /\ Goto(r, IF c >= Span THEN "key" ELSE "scan")

(* Top of the outer loop: look at the context, then make new key material. *)
NewKey(r) ==
  /\ pc[r] = "key"
  /\ \/ cancelled /\ Goto(r, "done")
     \/ ~cancelled /\ Goto(r, "scan")
     \/ ~cancelled /\ r \in FaultyRunners /\ Goto(r, "fail")
  /\ UNCHANGED <<local, shared, chan, closed, errCh, cancelled,
                 parentCancelled, coord>>

(* Top of the timestamp loop: look at the context. *)
Scan(r) ==
  /\ pc[r] = "scan"
  /\ Goto(r, IF cancelled THEN "done" ELSE "claim")
  /\ UNCHANGED <<local, shared, chan, closed, errCh, cancelled,
                 parentCancelled, coord>>

(* Mutant: a runner that is granted nothing tries again. *)
ClaimRetries(r) ==
  /\ pc[r] = "claim"
  /\ LET grant == Grant(Requested(r)) IN
       IF grant = 0
       THEN Goto(r, "scan") /\ UNCHANGED <<claimed, processed, reserved>>
       ELSE /\ reserved' = IF MaxAttempts = 0 THEN reserved ELSE reserved + grant
            /\ claimed' = [claimed EXCEPT ![r] = grant]
            /\ processed' = [processed EXCEPT ![r] = 0]
            /\ Goto(r, IF r \in CPURunners THEN "poll" ELSE "baseline")
  /\ UNCHANGED <<cursor, baseline, found, completed, bestRun, chan, closed,
                 errCh, cancelled, parentCancelled, coord>>

Claim(r) ==
  /\ pc[r] = "claim"
  /\ LET grant == Grant(Requested(r)) IN
       IF grant = 0
       THEN Goto(r, "done") /\ UNCHANGED <<claimed, processed, reserved>>
       ELSE /\ reserved' = IF MaxAttempts = 0 THEN reserved ELSE reserved + grant
            /\ claimed' = [claimed EXCEPT ![r] = grant]
            /\ processed' = [processed EXCEPT ![r] = 0]
            /\ Goto(r, IF r \in CPURunners THEN "poll" ELSE "baseline")
  /\ UNCHANGED <<cursor, baseline, found, completed, bestRun, chan, closed,
                 errCh, cancelled, parentCancelled, coord>>

-------------------------------------------------------------------------------
(* searchWorker: the hashing loop of a CPU runner. *)

(* Every PollStride hashes the loop looks at the context. *)
Poll(r) ==
  /\ pc[r] = "poll"
  /\ IF processed[r] % PollStride = 0 /\ cancelled
     THEN Goto(r, "done") /\ Completed(processed[r])
     ELSE Goto(r, "hash") /\ UNCHANGED completed
  /\ UNCHANGED <<local, reserved, bestRun, chan, closed, errCh, cancelled,
                 parentCancelled, coord>>

(* processed++, and the loop condition. *)
Advance(r) ==
  /\ processed' = [processed EXCEPT ![r] = @ + 1]
  /\ Goto(r, IF processed[r] + 1 = claimed[r] THEN "account" ELSE "poll")

(* One fingerprint and, when its run is the longest so far, promoteBest. *)
Hash(r) ==
  /\ pc[r] = "hash"
  /\ \/ \E run \in 0..MaxRun :
          IF run > bestRun
          THEN /\ bestRun' = run
               /\ found' = [found EXCEPT ![r] = run]
               /\ Goto(r, "send")
               /\ UNCHANGED <<processed, completed>>
          ELSE Advance(r) /\ UNCHANGED <<bestRun, found, completed>>
     \/ /\ r \in FaultyRunners
        /\ Completed(processed[r]) /\ Goto(r, "fail")
        /\ UNCHANGED <<bestRun, found, processed>>
  /\ UNCHANGED <<cursor, claimed, baseline, reserved, chan, closed, errCh,
                 cancelled, parentCancelled, coord>>

(* End of a batch. *)
Account(r) ==
  /\ pc[r] = "account"
  /\ Completed(processed[r])
  /\ Continue(r, cursor[r] + claimed[r])
  /\ UNCHANGED <<claimed, processed, baseline, found, reserved, bestRun, chan,
                 closed, errCh, cancelled, parentCancelled, coord>>

(* The runner that sent a candidate reaching MinRun accounts and stops. *)
Hit(r) ==
  /\ pc[r] = "hit"
  /\ Completed(processed[r] + 1)
  /\ Goto(r, "done")
  /\ UNCHANGED <<local, reserved, bestRun, chan, closed, errCh, cancelled,
                 parentCancelled, coord>>

-------------------------------------------------------------------------------
(* searchOpenCLWorker: one dispatch of a GPU runner. *)

(* newOpenCLExecutor. *)
OpenDevice(r) ==
  /\ pc[r] = "open"
  /\ \/ Goto(r, "key")
     \/ r \in FaultyRunners /\ Goto(r, "fail")
  /\ UNCHANGED <<local, shared, chan, closed, errCh, cancelled,
                 parentCancelled, coord>>

(* baseline := int(bestRun.Load()) *)
LoadBaseline(r) ==
  /\ pc[r] = "baseline"
  /\ baseline' = [baseline EXCEPT ![r] = bestRun]
  /\ Goto(r, "dispatch")
  /\ UNCHANGED <<cursor, claimed, processed, found, shared, chan, closed,
                 errCh, cancelled, parentCancelled, coord>>

(* Mutant: a dispatch that found nothing better is not counted. *)
DispatchCountsHits(r) ==
  /\ pc[r] = "dispatch"
  /\ \E run \in baseline[r]..MaxRun :
       IF run = baseline[r]
       THEN /\ Continue(r, cursor[r] + TimestampCount(r))
            /\ UNCHANGED <<found, completed>>
       ELSE /\ Completed(claimed[r])
            /\ found' = [found EXCEPT ![r] = run]
            /\ Goto(r, "verify") /\ UNCHANGED cursor
  /\ UNCHANGED <<claimed, processed, baseline, reserved, bestRun, chan,
                 closed, errCh, cancelled, parentCancelled, coord>>

(* executor.run: the device returns its best run, never below the baseline it
   was primed with; a run not above the baseline is ignored.               *)
Dispatch(r) ==
  /\ pc[r] = "dispatch"
  /\ \/ \E run \in baseline[r]..MaxRun :
          /\ Completed(claimed[r])
          /\ IF run = baseline[r]
             THEN Continue(r, cursor[r] + TimestampCount(r)) /\ UNCHANGED found
             ELSE /\ found' = [found EXCEPT ![r] = run]
                  /\ Goto(r, "verify") /\ UNCHANGED cursor
     \/ /\ r \in FaultyRunners
        /\ Goto(r, "fail") /\ UNCHANGED <<cursor, found, completed>>
  /\ UNCHANGED <<claimed, processed, baseline, reserved, bestRun, chan,
                 closed, errCh, cancelled, parentCancelled, coord>>

(* After a dispatch: a short claim means the budget is spent. *)
AfterDispatch(r) ==
  IF claimed[r] < Requested(r)
  THEN Goto(r, "done") /\ UNCHANGED cursor
  ELSE Continue(r, cursor[r] + TimestampCount(r))

(* The CPU recomputes what the device reported; on a match, promoteBest. *)
Verify(r) ==
  /\ pc[r] = "verify"
  /\ \/ /\ found[r] > bestRun
        /\ bestRun' = found[r] /\ Goto(r, "send") /\ UNCHANGED <<cursor, found>>
     \/ /\ found[r] <= bestRun
        /\ AfterDispatch(r)
        /\ found' = [found EXCEPT ![r] = NoCandidate] /\ UNCHANGED bestRun
     \/ /\ r \in FaultyRunners
        /\ Goto(r, "fail")
        /\ found' = [found EXCEPT ![r] = NoCandidate]
        /\ UNCHANGED <<cursor, bestRun>>
  /\ UNCHANGED <<claimed, processed, baseline, reserved, completed, chan,
                 closed, errCh, cancelled, parentCancelled, coord>>

-------------------------------------------------------------------------------
(* Sending, failing, and the goroutine that closes the channel. *)

(* Mutant: a cancelled runner gives up sending (select with ctx.Done). *)
SendUnlessCancelled(r) ==
  /\ pc[r] = "send"
  /\ cancelled \/ Len(chan) < ChanCap
  /\ chan' = IF cancelled THEN chan ELSE Append(chan, found[r])
  /\ found' = [found EXCEPT ![r] = NoCandidate]
  /\ IF r \in CPURunners
     THEN IF found[r] >= MinRun
          THEN Goto(r, "hit") /\ UNCHANGED <<cursor, processed>>
          ELSE Advance(r) /\ UNCHANGED cursor
     ELSE /\ IF found[r] >= MinRun THEN Goto(r, "done") /\ UNCHANGED cursor
                                   ELSE AfterDispatch(r)
          /\ UNCHANGED processed
  /\ UNCHANGED <<claimed, baseline, shared, closed, errCh, cancelled,
                 parentCancelled, coord>>

(* output <- candidate: blocks while the channel is full, whatever the
   context says, so that a promoted candidate always reaches the coordinator. *)
Send(r) ==
  /\ pc[r] = "send"
  /\ Len(chan) < ChanCap
  /\ chan' = Append(chan, found[r])
  /\ found' = [found EXCEPT ![r] = NoCandidate]
  /\ IF r \in CPURunners
     THEN IF found[r] >= MinRun
          THEN Goto(r, "hit") /\ UNCHANGED <<cursor, processed>>
          ELSE Advance(r) /\ UNCHANGED cursor
     ELSE /\ IF found[r] >= MinRun THEN Goto(r, "done") /\ UNCHANGED cursor
                                   ELSE AfterDispatch(r)
          /\ UNCHANGED processed
  /\ UNCHANGED <<claimed, baseline, shared, closed, errCh, cancelled,
                 parentCancelled, coord>>

(* startRunner: a failing runner offers its error to the one-slot channel ... *)
ReportError(r) ==
  /\ pc[r] = "fail"
  /\ errCh' = IF errCh = {} THEN {r} ELSE errCh
  /\ Goto(r, "abort")
  /\ UNCHANGED <<local, shared, chan, closed, cancelled, parentCancelled, coord>>

(* Mutant: a failed runner does not cancel the others. *)
AbortAlone(r) ==
  /\ pc[r] = "abort"
  /\ Goto(r, "failed")
  /\ UNCHANGED <<local, shared, chan, closed, errCh, cancelled,
                 parentCancelled, coord>>

(* ... and then cancels the search. *)
Abort(r) ==
  /\ pc[r] = "abort"
  /\ cancelled' = TRUE
  /\ Goto(r, "failed")
  /\ UNCHANGED <<local, shared, chan, closed, errCh, parentCancelled, coord>>

(* Mutant: the channel closes as soon as one runner is done. *)
CloserFirst ==
  /\ ~closed
  /\ \E r \in Runners : pc[r] \in Ended
  /\ closed' = TRUE
  /\ UNCHANGED <<pc, local, shared, chan, errCh, cancelled, parentCancelled,
                 coord>>

(* workers.Wait(); close(candidates) *)
Closer ==
  /\ ~closed
  /\ \A r \in Runners : pc[r] \in Ended
  /\ closed' = TRUE
  /\ UNCHANGED <<pc, local, shared, chan, errCh, cancelled, parentCancelled,
                 coord>>

-------------------------------------------------------------------------------
(* The coordinator's select loop: any ready case may be taken. *)

(* Mutant: the last candidate received wins. *)
ReceiveLatest ==
  /\ outcome = "searching" /\ chan # <<>>
  /\ chan' = Tail(chan)
  /\ best' = Head(chan)
  /\ cancelled' = (cancelled \/ Head(chan) >= MinRun)
  /\ UNCHANGED <<pc, local, shared, closed, errCh, parentCancelled, firstErr,
                 reported, outcome>>

(* case candidate := <-candidates *)
Receive ==
  /\ outcome = "searching" /\ chan # <<>>
  /\ chan' = Tail(chan)
  /\ best' = IF Head(chan) > best THEN Head(chan) ELSE best
  /\ cancelled' = (cancelled \/ Head(chan) >= MinRun)
  /\ UNCHANGED <<pc, local, shared, closed, errCh, parentCancelled, firstErr,
                 reported, outcome>>

(* case err := <-errorsCh *)
ReceiveError ==
  /\ outcome = "searching" /\ errCh # {}
  /\ errCh' = {}
  /\ firstErr' = IF firstErr = {} THEN errCh ELSE firstErr
  /\ UNCHANGED <<pc, local, shared, chan, closed, cancelled, parentCancelled,
                 best, reported, outcome>>

(* case <-ticker.C: emitProgress(false) *)
Tick ==
  /\ outcome = "searching"
  /\ reported' = completed
  /\ UNCHANGED <<pc, local, shared, chan, closed, errCh, cancelled,
                 parentCancelled, best, firstErr, outcome>>

(* candidates is closed and drained: the last progress, and the result. *)
Finish ==
  /\ outcome = "searching" /\ closed /\ chan = <<>>
  /\ reported' = completed
  /\ outcome' = IF best # NoCandidate /\ best # bestRun THEN "mismatch"
                ELSE IF firstErr # {} THEN "failure"
                ELSE IF parentCancelled /\ best < MinRun THEN "cancelled"
                ELSE "ok"
  /\ UNCHANGED <<pc, local, shared, chan, closed, errCh, cancelled,
                 parentCancelled, best, firstErr>>

(* The caller's context ends (Ctrl-C); searchCtx is its child. *)
ParentCancel ==
  /\ outcome = "searching" /\ ~parentCancelled
  /\ parentCancelled' = TRUE /\ cancelled' = TRUE
  /\ UNCHANGED <<pc, local, shared, chan, closed, errCh, coord>>

-------------------------------------------------------------------------------
Init ==
  /\ pc = [r \in Runners |-> IF r \in CPURunners THEN "key" ELSE "open"]
  /\ cursor = [r \in Runners |-> 0]
  /\ claimed = [r \in Runners |-> 0]
  /\ processed = [r \in Runners |-> 0]
  /\ baseline = [r \in Runners |-> 0]
  /\ found = [r \in Runners |-> NoCandidate]
  /\ reserved = 0 /\ completed = 0 /\ bestRun = InitialBestRun
  /\ chan = <<>> /\ closed = FALSE /\ errCh = {}
  /\ cancelled = FALSE /\ parentCancelled = FALSE
  /\ best = NoCandidate /\ firstErr = {} /\ reported = 0
  /\ outcome = "searching"

Runner(r) ==
  \/ NewKey(r) \/ Scan(r) \/ Claim(r)
  \/ Poll(r) \/ Hash(r) \/ Account(r) \/ Hit(r)
  \/ OpenDevice(r) \/ LoadBaseline(r) \/ Dispatch(r) \/ Verify(r)
  \/ Send(r) \/ ReportError(r) \/ Abort(r)

(* Search has returned. *)
Returned == outcome # "searching" /\ UNCHANGED vars

Next ==
  \/ \E r \in Runners : Runner(r)
  \/ Closer \/ Receive \/ ReceiveError \/ Tick \/ Finish \/ ParentCancel
  \/ Returned

(* Goroutines are scheduled preemptively and select picks among its ready
   cases at random; nothing obliges the ticker or the user.                *)
Fairness ==
  /\ \A r \in Runners : WF_vars(Runner(r))
  /\ WF_vars(Closer) /\ WF_vars(Receive) /\ WF_vars(ReceiveError)
  /\ WF_vars(Finish)

Spec == Init /\ [][Next]_vars

FairSpec == Spec /\ Fairness

-------------------------------------------------------------------------------
(* Properties. *)

(* Types; a cursor stays inside the time span of its key, the channel inside
   its capacity, and no run passes what a key ID can have.                 *)
TypeOK ==
  /\ pc \in [Runners -> Labels]
  /\ cursor \in [Runners -> 0..(Span - 1)] /\ claimed \in [Runners -> Nat]
  /\ processed \in [Runners -> Nat]
  /\ baseline \in [Runners -> 0..MaxRun]
  /\ found \in [Runners -> 0..MaxRun]
  /\ reserved \in Nat /\ completed \in Nat
  /\ bestRun \in InitialBestRun..MaxRun
  /\ chan \in Seq(0..MaxRun) /\ Len(chan) <= ChanCap
  /\ closed \in BOOLEAN /\ cancelled \in BOOLEAN /\ parentCancelled \in BOOLEAN
  /\ errCh \subseteq Runners /\ firstErr \subseteq Runners
  /\ best \in 0..MaxRun
  /\ reported \in Nat
  /\ outcome \in {"searching", "ok", "cancelled", "failure", "mismatch"}

(* The candidate Search returns is the one whose run was promoted last, and
   there is one exactly when the search improved on its checkpoint, whatever
   interleaving of promotions, sends and cancellation led there
   (search.go:329-332, "keeps the reported best run and the retained private
   key aligned").                                                          *)
Aligned ==
  outcome # "searching" =>
    best = IF bestRun > InitialBestRun THEN bestRun ELSE NoCandidate

(* With a budget, no more than MaxAttempts attempts are ever handed out, and
   only attempts that were handed out are counted (claimAttempts).         *)
Budget ==
  MaxAttempts > 0 => completed <= reserved /\ reserved <= MaxAttempts

(* A search that ends by itself below its target has spent the whole budget:
   no runner leaves reserved attempts unexecuted unless it was cancelled,
   failed or hit the target.                                               *)
BudgetSpent ==
  outcome = "ok" /\ best < MinRun /\ (\A r \in Runners : pc[r] = "done")
    => MaxAttempts > 0 /\ completed = MaxAttempts

(* Search returns only when every runner has stopped and every candidate was
   received, and its last Progress carries the final attempt count, the one
   the checkpoint keeps.                                                   *)
CleanReturn ==
  outcome # "searching" =>
    /\ \A r \in Runners : pc[r] \in Ended
    /\ chan = <<>>
    /\ reported = completed

(* README.md:147-150: the CPU check of each GPU candidate detects driver and kernel
   faults.  A runner that failed makes the search return an error.         *)
FailureReported ==
  outcome = "ok" => \A r \in Runners : pc[r] # "failed"

(* Search implements what its caller relies on (module SearchContract). *)
Contract == INSTANCE SearchContract WITH top <- bestRun, candidate <- best

ContractSpec == Contract!Spec

(* Within a budget, the search always returns. *)
Terminates == <>(outcome # "searching")

(* Without a budget only an event ends the search, and each of the three does:
   the user's cancellation, even while runners are blocked sending
   (search.go:281, 304), a promoted run that reaches the target, however long
   the coordinator takes to receive it (search.go:255-261), and the failure of
   a runner (search.go:156-168).                                           *)
EventsEndSearch ==
  (parentCancelled \/ bestRun >= MinRun \/ \E r \in Runners : pc[r] = "failed")
    ~> outcome # "searching"
===============================================================================
