------------------------------ MODULE GPUDispatch ------------------------------
(***************************************************************************)
(* The dispatches of an OpenCL runner, one after the other: the runner     *)
(* sizes a grid, openCLExecutor.run launches it, each work item hashes one *)
(* (template, timestamp) pair and publishes its run and its index in one   *)
(* word with atomic_max, in any order; the host decodes the word and       *)
(* verifies the winner on the CPU.  A digest is chosen when it is          *)
(* computed: any key ID of the model may come out.                         *)
(***************************************************************************)
EXTENDS KeyMatcher, FiniteSets

CONSTANTS
  DigitCount,     (* digits of a long key ID, 16 in the code                 *)
  Digits,
  IndexBits,      (* openCLResultIndexBits                                   *)
  WordBits,       (* width of the result word                                *)
  KeyBatches,     (* GPUKeyBatch as configured, 0 for the default            *)
  WorkItems,      (* GPUWorkItems as configured, 0 for the default           *)
  defaultGPUKeyBatch, defaultGPUWorkItems, maxGPUKeyBatch,
  Spans,          (* timestamps a key batch has left                         *)
  LocalSize,      (* preferred work-group size, 256 in the code              *)
  MaxWorkGroupSize,  (* what the device reports, 0 if it does not            *)
  Baselines,      (* values of bestRun a dispatch may start from             *)
  Pool            (* bound of the model: key IDs a dispatch of several work  *)
                  (* items meets; one of a single item meets them all        *)

maxGPUWorkItems == 2^IndexBits - 1

AllKeys == [1 .. DigitCount -> Digits]

ASSUME DispatchAssumption ==
  /\ DigitCount \in Nat \ {0} /\ (DigitCount + 1) * 2^IndexBits <= 2^WordBits
  /\ Baselines \subseteq 0 .. DigitCount
  /\ maxGPUKeyBatch \in Nat /\ maxGPUKeyBatch <= maxGPUWorkItems
  /\ KeyBatches \subseteq 0 .. maxGPUKeyBatch       \* SearchConfig.validate
  /\ WorkItems \subseteq 0 .. maxGPUWorkItems
  /\ defaultGPUKeyBatch \in 1 .. maxGPUKeyBatch
  /\ defaultGPUWorkItems \in 1 .. maxGPUWorkItems
  /\ Spans \subseteq Nat \ {0}
  /\ LocalSize \in Nat \ {0} /\ MaxWorkGroupSize \in Nat
  /\ Pool \subseteq AllKeys

(* Arithmetic that the provers lack: the powers of two that occur here.     *)
ASSUME PowersAssumption ==
  /\ IndexBits \in Nat /\ WordBits \in Nat
  /\ 2^0 = 1
  /\ \A i \in 0 .. IndexBits + WordBits + MaxWorkGroupSize :
       2^i \in Nat /\ 2^(i + 1) = 2 * 2^i

VARIABLES
  grid,      (* the criteria, the shape of the dispatch, the attempts claimed  *)
             (* for it (work_count) and bestRun as loaded before it            *)
  waiting,   (* work items that have not run yet                               *)
  digest,    (* key ID of each work item that has                              *)
  result,    (* the result word                                                *)
  outcome    (* "idle", "running", or how the dispatch ended                   *)

dispatch == <<grid, waiting, digest, result, outcome>>

NoGrid == [scope |-> "suffix", allowed |-> {}, templateCount |-> 0,
           timestampCount |-> 0, claimed |-> 0, baseline |-> 0]

-------------------------------------------------------------------------------
(* The size of a dispatch. *)

orDefault(configured, default) == IF configured = 0 THEN default ELSE configured

(* timestampCount, for a batch of keys with some timestamps left. *)
GridTimestamps(keys, items, left) ==
  LET wanted == IF items \div keys = 0 THEN 1 ELSE items \div keys
  IN  IF wanted < left THEN wanted ELSE left

highestPowerOfTwo(n) ==
  CHOOSE p \in {2^i : i \in 0 .. n} : p <= n /\ n < 2 * p

localSize ==
  IF MaxWorkGroupSize > 0 /\ MaxWorkGroupSize < LocalSize
  THEN highestPowerOfTwo(MaxWorkGroupSize) ELSE LocalSize

roundUp(n, multiple) == ((n + multiple - 1) \div multiple) * multiple

(* Mutant: work_count is not passed on, so the whole grid runs. *)
LaunchedAll(templates, timestamps, workCount) ==
  (0 .. templates - 1) \X (0 .. timestamps - 1)

(* The work items of the rounded-up grid, <<template_index,                *)
(* timestamp_index>>, that pass the kernel's guards; the others return.    *)
Launched(templates, timestamps, workCount) ==
  {item \in (0 .. templates - 1) \X (0 .. roundUp(timestamps, localSize) - 1) :
     /\ item[2] < timestamps
     /\ item[1] * timestamps + item[2] < workCount}

-------------------------------------------------------------------------------
logical_index(item) == item[1] * grid.timestampCount + item[2]

(* (run << 27U) | logical_index, in the width of the word. *)
Score(run, index) == (run * 2^IndexBits + index) % 2^WordBits

resultRun   == result \div 2^IndexBits
resultIndex == result % 2^IndexBits

(* templateIndex and the timestamp's offset, as the host decodes them. *)
Winner == <<resultIndex \div grid.timestampCount, resultIndex % grid.timestampCount>>

Init ==
  /\ grid = NoGrid
  /\ waiting = {} /\ digest = <<>> /\ result = 0
  /\ outcome = "idle"

(* What run, or the device it calls, refuses. *)
Refused(workCount) ==
  \/ workCount = 0 \/ workCount > maxGPUWorkItems
  \/ MaxWorkGroupSize > 0 /\ localSize > MaxWorkGroupSize

(* searchOpenCLWorker sizes the grid and claims its attempts, the last of a
   budget only in part; run writes the baseline into the word and enqueues
   the kernel.                                                             *)
Launch ==
  /\ outcome = "idle"
  /\ \E configured \in KeyBatches, items \in WorkItems, left \in Spans :
       LET keys == orDefault(configured, defaultGPUKeyBatch)
           times == GridTimestamps(keys, orDefault(items, defaultGPUWorkItems), left)
       IN  grid' \in [scope : Scopes, allowed : SUBSET Digits \ {{}},
                      templateCount : {keys}, timestampCount : {times},
                      claimed : 1 .. keys * times, baseline : Baselines]
  /\ IF Refused(grid'.claimed)
     THEN outcome' = "refused" /\ UNCHANGED <<waiting, result>>
     ELSE /\ outcome' = "running"
          /\ waiting' = Launched(grid'.templateCount, grid'.timestampCount,
                                 grid'.claimed)
          /\ result' = Score(grid'.baseline, 0)
  /\ UNCHANGED digest

(* Mutant: a store in place of atomic_max. *)
StoreScore(score) == result' = score

atomic_max(score) == result' = IF score > result THEN score ELSE result

(* A work item hashes its block, measures the key ID and publishes. *)
vanity_sha1(item) ==
  /\ item \in waiting
  /\ waiting' = waiting \ {item}
  /\ \E key \in IF grid.templateCount * grid.timestampCount = 1 THEN AllKeys ELSE Pool :
       /\ digest' = [i \in DOMAIN digest \cup {item} |->
                       IF i = item THEN key ELSE digest[i]]
       /\ atomic_max(Score(matching_run(key, grid.scope, grid.allowed), logical_index(item)))
  /\ UNCHANGED <<grid, outcome>>

(* The host reads the word when the kernel has finished, and trusts it     *)
(* only after it has evaluated the winner itself.                          *)
Verify ==
  /\ waiting = {} /\ outcome = "running"
  /\ outcome' =
       IF resultRun <= grid.baseline THEN "nothing"
       ELSE IF Winner[1] >= grid.templateCount THEN "invalid index"
       ELSE IF Winner \notin DOMAIN digest THEN "mismatch"
       ELSE IF EvaluateKeyIDForDigits(digest[Winner], grid.scope, grid.allowed).RunLength
                 # resultRun THEN "mismatch"
       ELSE "verified"
  /\ UNCHANGED <<grid, waiting, digest, result>>

(* The runner goes on with the next range of timestamps, or with new keys. *)
Again ==
  /\ outcome \in {"nothing", "verified"}
  /\ grid' = NoGrid /\ waiting' = {} /\ digest' = <<>> /\ result' = 0
  /\ outcome' = "idle"

Next == Launch \/ Verify \/ Again \/ \E item \in waiting : vanity_sha1(item)

Spec == Init /\ [][Next]_dispatch

-------------------------------------------------------------------------------
Runs == {LongestRun(digest[item], grid.scope, grid.allowed) : item \in DOMAIN digest}

(* opencl_windows.go:450-494, opencl_kernel.go:109-123: a dispatch sized from
   any accepted configuration is never refused.  In whatever order its work
   items publish, the host ends with one of the longest run above the
   baseline, and with nothing exactly when there is none; the errors that
   accuse the driver never come from the packing.                          *)
BestOfWork ==
  outcome \notin {"idle", "running"} =>
    /\ outcome = IF \A run \in Runs : run <= grid.baseline THEN "nothing" ELSE "verified"
    /\ outcome = "verified" =>
         LongestRun(digest[Winner], grid.scope, grid.allowed) = resultRun
           /\ \A run \in Runs : run <= resultRun

(* matcher.go:93-134, opencl_kernel.go:19-54: the CPU and the GPU measure the
   same run, the longest that the criteria admit; the CPU places it at the
   last position at which it occurs and reports the digit found there.     *)
MatchersAgree ==
  \A item \in DOMAIN digest :
    LET match == EvaluateKeyIDForDigits(digest[item], grid.scope, grid.allowed)
        longest == LongestRun(digest[item], grid.scope, grid.allowed)
    IN  /\ match.RunLength = longest
        /\ matching_run(digest[item], grid.scope, grid.allowed) = longest
        /\ longest > 0 => match.Start = LastStart(digest[item], grid.scope, grid.allowed)
        /\ match.Digit = digest[item][match.Start + 1]

(* opencl_windows.go:450-472, opencl_kernel.go:69-76: however the grid is
   rounded up to work groups, a finished dispatch has made as many attempts
   as were claimed and are counted, no more than it may hold.              *)
ExactWork ==
  outcome \notin {"idle", "running"} =>
    /\ Cardinality(DOMAIN digest) = grid.claimed
    /\ grid.claimed <= maxGPUWorkItems
================================================================================
