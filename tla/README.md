# A TLA+ model of gpgenie

gpgenie generates OpenPGP keys, scores their fingerprints and stores the good
ones, and it searches for vanity signing subkeys whose key ID ends in (or
contains) a long run of one hexadecimal digit.  The interesting part of the
program is concurrent: pools of goroutines joined by bounded channels, shared
atomics, GPU dispatches, contexts that are cancelled at any moment, and files
and database rows that have to agree after a failure or a kill.  This directory
models that part, checks it with TLC and proves the central claims with TLAPS.

## 1. Inventory of the system

| component (source) | state | operations | talks to |
|---|---|---|---|
| vanity search (`internal/key/vanity/search.go`) | `reserved`, `completed`, `bestRun` (atomics), `candidates` and `errorsCh` (channels), `best`, `firstErr` | `Search`, `searchWorker`, `claimAttempts`, `promoteBest` | is called by the command with a progress callback; starts CPU and OpenCL runners |
| backend selection (`backend.go`, `opencl_windows.go`) | the loaded driver; otherwise none | `ResolveBackend`, `selectOpenCLDevices`, `listOpenCLDeviceRefs` | is called by the command and again by `Search` |
| OpenCL runner (`opencl_windows.go`) | handles, device buffers, the result word, cursor and claim of a dispatch | `newOpenCLExecutor`, `run`, `Close`, `searchOpenCLWorker` | shares the atomics and channels of the search; runs the kernel |
| matcher and kernel (`matcher.go`, `opencl_kernel.go`) | none; the kernel publishes into one word | `EvaluateKeyIDForDigits`, `matching_run`, `vanity_sha1` | CPU and GPU must agree |
| vanity command (`cmd/vanity.go`, `checkpoint.go`, `artifacts.go`, `database.go`) | the checkpoint in memory and on disk, three artifact files per key, a database row | `runVanity`, `LoadCheckpoint`, `SaveCheckpoint`, `FinalizeAndWrite`, `LoadArtifacts`, `saveVanityToDatabase` | calls `Search`; survives failures, kills and re-runs |
| key generation pipeline (`internal/key/service/key_service.go`) | three bounded channels, a context, `firstErr`, counters, the batch | `GenerateKeys`, `generatorWorker`, `scorerWorker`, `persistBatches` | generates through `domain`, saves through the repository |
| score calculator (`internal/key/domain/calculator.go`) | locals of one loop | `CalculateScores` | the scorers and `ToDatabaseKeyInfo` |
| asynchronous logger (`internal/logger/logger.go`) | a channel, a lock, a `closed` flag and a drainer per sink | `Write`, `Sync`, `run`, `SyncLogger` | every component logs; `App.Close` shuts it down |
| database connection (`internal/database/db.go`) | the schema, and the suffixes of old rows | `Connect` | is called as a command starts, before the repository is used |
| repository (`internal/repository/repository.go`) | the rows of `key_infos` | `BatchCreate`, `Upsert`, `GetByFingerprint`, `GetAnalysisStats` | pipeline, command, export, analysis |
| export (`internal/key/domain/key.go`) | two files per key | `ExportKey` | repository, encryptor |
| key material (`keyring.go`, `fingerprint.go`), configuration, CLI and progress display | no state of their own, or external libraries | | |

What makes each of them hard, and what being correct means:

* **Search.**  Promotion (`bestRun`) and delivery (`candidates`) are two steps,
  and cancellation can fall between them.  The run reported and the private key
  returned must be of one key; a budget is shared by runners that take it in
  batches of different shapes; the search must end, and end cleanly, for every
  reason it can end for.
* **Atomics.**  Two retry loops around a compare-and-swap.  No attempt granted
  twice, no promotion lost, no call that spins for ever.
* **Backend.**  Device indices mean something only within one enumeration, and
  there are two: what is announced and what is searched on must be the same.
* **GPU dispatch.**  Work items of a grid that is larger than the claim publish
  in any order through one 32-bit word that holds a run and an index; the host
  trusts it only after a CPU check that must never raise a false alarm.  The
  executor holds six handles that any of nine failing calls must not leak.
* **Command.**  Six writes to three stores, any of which can fail and between
  any two of which the process can be killed, over many invocations with
  changing options.  What is on disk must be usable and must not lie.
* **Pipeline.**  Four stages that block on each other, an error in any of them,
  and a caller that may cancel: it has to return, with the real cause, with no
  goroutine left, and `nil` only if every key is accounted for.
* **Logger.**  A send under a read lock on a channel that a shutdown closes
  under the write lock.  No panic, no lost message, no deadlock.
* **Store.**  One table shared by commands of this version, which migrate it as
  they connect, and of an earlier one, which write rows without a suffix.  A
  stored key must be found, a row must never mix two saves, and an export must
  be the pair of files of one row.
* **Scores.**  A one-pass loop with resets and boundaries.

`PROJECT.json` lists the hazards of the code one by one, each at its line with
the properties that cover it.

## 2. Modules

```
SearchContract <--refined by-- VanitySearch <---- VanitySearchProofs
SharedAtomics  <--refined by-- CasLoops     <---- CasLoopsProofs
KeyMatcher <---- GPUDispatch <---- OpenCLRunner <---- OpenCLRunnerProofs
BackendSelection <---------------- OpenCLRunner
VanityCommand <---- SearchedCommand <---- VanityCommandProofs
                    SearchedCommand ----instantiates----> SearchContract
KeyPipeline     <---- KeyPipelineProofs
KeyStore        <---- KeyStoreProofs
AsyncLogger     <---- AsyncLoggerProofs
ScoreCalculator <---- ScoreCalculatorProofs
```

(An arrow without a label points to a module that is extended.) `SharedAtomics`
says what one call of `claimAttempts` or `promoteBest` does in a single step.
`VanitySearch` is written with such steps (`Claim`, `Hash`, `Verify`); `CasLoops`
shows that the loops provide them.  `SearchContract` says what the caller of
`Search` may rely on: `VanitySearch` refines it, and `SearchedCommand` runs it
step by step beside the command, where `VanityCommand` alone has the single step
`SearchEnds`.  The contract's variables include the fields of `SearchConfig`, so
that one contract serves call after call with other options.  The dispatch that `GPUDispatch`
opens up is the single step `Dispatch` followed by `Verify` in `VanitySearch`;
`OpenCLRunner` is what comes before the runner's `open` and inside it, and what
its deferred `Close` does.  `KeyPipeline` and `VanityCommand` see the database as
a set of keys; `KeyStore` opens up its rows.  An `MC...` module declares the
model values and bounds of a component for TLC.

### VanitySearch

One action per stretch of code between two visible effects.  A runner's `pc`
follows `searchWorker` (`key`, `scan`, `claim`, `poll`, `hash`, `send`, `hit`,
`account`) or `searchOpenCLWorker` (`open`, `key`, `scan`, `claim`, `baseline`,
`dispatch`, `verify`, `send`), and both end through `startRunner` (`done`, or
`fail`, `abort`, `failed`: the error is offered to the one-slot channel in one
step and the context is cancelled in the next).  `Closer` is the goroutine that
waits for the runners and closes the channel; `Receive`, `ReceiveError`, `Tick`
and `Finish` are the cases of the coordinator's `select`, any ready one of which
may be taken.  `ParentCancel` is Ctrl-C.

Abstracted: a candidate is its run length (0 for none), since every other field
is fixed with it at promotion; a hash finds any run in `0..MaxRun`; a kernel
returns any run from its baseline upwards (`GPUDispatch` justifies that).  Only
members of `FaultyRunners` fail.  `CountCap` bounds `completed` where there is no
budget.  `searchBatchSize`, the poll stride of 1024 and the size of a dispatch
are constants, so that a small instance meets partial batches and polls in the
middle of one.

### CasLoops, SharedAtomics

Each loop is load, compute, swap, with the other callers free to act in between.
`owned` and `won` are history: the attempts and promotions each caller's
successful calls returned.

### KeyMatcher, GPUDispatch

`KeyMatcher` writes both measurements of a run as the folds the two loops are,
next to the definition of "longest admissible run" they are meant to compute.
`GPUDispatch` is one dispatch after the other: `Launch` sizes the grid from the
configured batch and work items (zero means the default), the timestamps left
and the part of the budget that was claimed, and writes the baseline into the
result word; `Launched` is the set of work items that pass the kernel's guards,
out of a grid rounded up to whole work groups; `vanity_sha1(item)` is one of
them, in any order; `Verify` is the host's decoding and check, `Again` the next
turn of the loop.  SHA-1 is an arbitrary choice of key ID: any at all in a
dispatch of one work item, one of `Pool` in a larger one.

### BackendSelection, OpenCLRunner

`BackendSelection` holds the pure functions: the flattening of platforms into
one list of devices (`listOpenCLDeviceRefs`), the parsing and the application of
`--gpu-devices`, and `resolveBackendRefs`.  A platform is the sequence of its
GPUs, or `Broken`.  `OpenCLRunner` applies them twice, `Announce` for the command
and `Start` for `Search`, and the driver may answer differently in between
(`Enumerate`; the loader remembers its first outcome, as `sync.Once` does).  A
runner then makes the nine acquisition calls of `newOpenCLExecutor` one by one,
each of which may fail, dispatches, and releases its handles one by one in the
order of `Close` (`CloseOrder`, which goes backwards: what a handle was made from,
`Uses`, outlives it).  `Run` forgets how the device was chosen, since nothing after
it depends on that.

### VanityCommand

`disk` is what survives (checkpoint file, artifacts, database), `mem` is what a
kill loses.  Each write that can be torn from the next one by a failure or a kill
is a step of its own; `SaveCheckpoint` is two, because `os.WriteFile` truncates
before it writes (`Truncate`, `WriteCheckpoint`).  `Crash` may happen at any
point.  `Start` takes any options, so invocations with other `--scope`,
`--digits`, `--min-run`, `--save-db` and `--resume` follow each other in every
order.  A file that is there may still be unreadable: `Start` and `Reload` may end
with an error at any read.

### SearchedCommand

The command and the search that it calls.  `SearchedStart` begins a search at the
checkpoint's best run; `SearchGoesOn` is a step of it, during which the files do
not change: while the progress callback saves, runners go on promoting, but
nothing is received, since the callback runs on the coordinator's goroutine.
`SearchReturns` is the contract's `Return` together with the last report; it
hands the command the retained candidate (`HandedOver`) whether the search ended
well, failed or was cancelled.  `SearchedCrash` ends both.

### KeyPipeline

`at` maps each of the requested keys to where it is: a channel, a worker, the
batch, the database, rejected by the thresholds, or lost.  Control points of the
workers, the closing of the three channels, the cancelled context and the
once-only `fail` are as in the code.  A channel is a set with a capacity; a job
is an empty struct in the code, so which of the queued keys a generator works on
means nothing, and `Job` fixes it.

### KeyStore

`table` is `key_infos`: rows by fingerprint, which is a unique index.  A row is a
record of columns, and the content of a column is the version of the save that
wrote it, so that a row mixed from two saves shows.  An invocation connects
(`Open`, `AutoMigrate`, `Backfill`, `Setup`: `Connect`, a statement at a time),
runs its statements and may stop before any of them; `LegacyInsert` is a program
of an earlier version at any moment.  `Upsert` is the `INSERT ... ON CONFLICT`
with its list of updated columns; `Lookup` and `Fallback` are the two statements
of `GetByFingerprint`, other invocations free to act between them; `WritePublic`
and `WritePrivate` are the files of `ExportKey`, each of which may end torn.
Strings are their digits and their case, because SQLite's `LIKE` ignores case
and PostgreSQL's does not.  `Correlation` is the arithmetic of
`GetAnalysisStats`, as a fraction of exact integers (the code rounds to `float64`);
a score may be negative, as a magic pair costs 100.  `known` and `present` are
observers.

### AsyncLogger

A log call visits the sinks in order: `RLock`, `Check`, `Send` (blocking, with
the lock held).  Go's `RWMutex` lets no new reader in while a writer waits
(`pending`).  `Sync`, `Close`, `Wait` are a sink's `Sync`; `SyncLogger` runs it
for every sink, a second time through zap's own `Sync`, and then closes the file.
A send on a closed channel panics, and so does a second close.

### ScoreCalculator

One step per digit; the variables are the locals of the loop and `Scores` is
what the function would return if the line ended here, so each reachable state
is a test of a whole call.

## 3. Runs

| run | instance | checks |
|---|---|---|
| `SearchHybrid` | 2 CPU + 1 GPU runner, one of each may fail, budget 4, span 3, batch 2, dispatches of 2, resumed at run 1 | types, `Aligned`, `Budget`, `BudgetSpent`, `CleanReturn`, refinement `ContractSpec`, `Terminates` |
| `SearchUnlimited` | 2 CPU runners, one may fail, no budget, target 4 of 5 | `EventsEndSearch`: cancellation, a target reached and a failure each end the search |
| `SearchLostError` | 1 CPU + 1 failing GPU runner | finds `FailureReported` violated |
| `CasLoops` | 3 callers, budget 3, requests 1 and 2, candidates 2 and 3 | `ClaimsDisjoint`, `PromotionsDistinct`, refinement `AtomicSpec`, `CallsReturn` |
| `OpenCLRunner` | 4 selections, 6 answers of the driver, every failing call; key IDs of 4 digits, words of 6 bits with 3 for the index, 4 configured grids with 2 spans, every claim, 3 baselines, both scopes, every digit set | `RightDevices`, `AsAnnounced`, `HandlesReleased`, `MatchersAgree`, `BestOfWork`, `ExactWork` |
| `Pipeline` | 4 keys, 1 generator, 2 scorers, batches of 2, all faults, cancellation | types, `Complete`, `RootCause`, `NoStraggler`, `Terminates` |
| `Command` (specification `SearchedSpec`) | 2 criteria, 2 values of `--min-run`, 2 run lengths, 2 keys, 2 attempts, any number of invocations and crashes | `BestOnDisk`, `ArtifactsFirst`, `SavedFlag`, `RightCriteria`, `SuccessDurable`, `DurableProgress`, `RetryNeedsNoMining` |
| `CommandTorn` | 1 criterion, 1 key | finds `CheckpointSurvives` violated |
| `KeyStore` | 1 writer, 1 exporter, 1 key of the earlier version, 2 new ones, both dialects, any number of invocations | `LookupRight`, `RowWhole`, `RowsKept`, `ExportWhole`, `CorrelationRight` |
| `AsyncLogger` | 2 goroutines with 2 log calls each, 2 sinks, channels of 1 | `NoPanic`, `InOrder`, `FlushedBeforeClose`, `NobodyHangs` |
| `Scores` | lines of up to 7 digits over 0, 1, 2, 3, 4, 9, F | `RunsScored` |
| `ScoresTurn` | the same | finds `SequencesScored` violated |

Two runs check a type invariant too (`SearchHybrid`, `Pipeline`): those whose
types say something about a cursor or a batch.  In the other
modules the types are a conjunct of the inductive invariant that is proved.  Every property of a
passing run has a mutant of the code, next to the definition it changes, that
makes TLC find the property violated.

**Why the bounds are enough.**  A hazard of the search needs two runners that
meet at an atomic, a third that does something else, a candidate that is
overtaken by a better one (two improving runs above the checkpoint's), and a
claim that is cut: budget 4 against spans of 3, batches and dispatches of 2
gives all of them.
The candidate channel has room for two candidates per runner, as in the code.
In the hybrid instance that is six and only runs 2, 3 and 4 improve on the
checkpoint's, so it never fills; in `SearchUnlimited` it holds four, runs 1 to 5
all improve, and a sender can block on a full channel while the search is
cancelled or reaches its target.  The safety proofs hold for any number of
runners and runs.

In the pipeline instance (`pipelineBufferMultiplier` is 1, so that few keys
suffice) the channels hold one job, three entities and two scored keys: four
keys overfill each of them, the generator and the producer block, and a batch of
two is filled and flushed twice or left incomplete by a rejected key.

The command instance has enough keys for one best key to replace another and
enough attempts for progress to grow twice.  In the store instance the old key
and a new one share a tail, so that a short query is ambiguous; one writer and
one exporter overlap at every pair of statements, and each may stop and start
again any number of times, which gives two migrations of one table and two
exports to one directory.  An answer of the driver has up to three GPUs on up to
three platforms, one of them empty or broken, and a selection names an index
twice, out of order or out of range; the largest grid is two keys by three
timestamps in work groups of two, so that work items beyond the grid and beyond
the claim exist.  In the score run a seven-digit line has room for a four-digit
run with something different before and after it, and for two runs that share a
turning point; the seven digits contain runs of four and five that wrap from F
to 0.

**Deadlock** is checked wherever the system should go on until it has returned;
the returned state is a stuttering action (`Returned`).  It is switched off for
`AsyncLogger` (all goroutines may have exited), `OpenCLRunner` (a runner stops)
and the score runs (the computation ends).

**Fairness.**  Weak fairness of each goroutine's steps: Go schedules
preemptively, and a goroutine that can run eventually does.  The coordinator's
`select` picks at random among ready cases, so no case that stays ready is
passed over for ever (`Receive`, `ReceiveError`, `Finish` are each weakly fair).
In `KeyPipeline` one weak fairness condition covers all alternatives of a
goroutine, so nothing is assumed about which ready case a `select` takes.  The
ticker, the user (`ParentCancel`, `Log`, `SyncLogger`) and crashes are never
obliged to happen.  No fairness is assumed of compare-and-swap: `CallsReturn`
holds because a swap fails only when another one succeeded and both atomics are
bounded.  Runs that check safety only use a specification without fairness.

## 4. What the runs found

* **A failed runner can go unreported** (`SearchLostError`,
  `search.go:226`).  When the last runner fails, its error sits in `errorsCh`
  while the closed channel is ready too.  `select` may take either; on the closed
  channel `Search` returns at once, with `firstErr` still nil.  The command then
  says "no improvement" and exits with 0 although a device failed.
* **The checkpoint is not durable while it is being saved** (`CommandTorn`,
  `checkpoint.go:58`).  `os.WriteFile` truncates the only copy before writing it.
  A kill, or a write that fails, in between leaves a file that
  `LoadCheckpoint` rejects; attempts, best run and artifact paths are lost.
* **A sequence that turns straight round is not scored** (`ScoresTurn`,
  `calculator.go:127-134`).  In `F0121`, or `12343`, the increasing run of four
  is reset by the decreasing step without having been scored.

Everything else that was stated holds.  Reading the code for the models also
showed the following, which no run is about:

* `auto` with `--gpu-devices 0` on a machine whose driver loads but lists no such
  GPU is an error (`backend.go:87-90`: the selection is applied before the
  emptiness check), where `README.md:172-173` says that `auto` otherwise falls back
  to the CPU.  The models have the code's behaviour (`resolveBackendRefs`).
* `export --armor=false` encrypts the private key that is stored encrypted a
  second time (`key.go:114-119`); `cmd/export.go:49` announces a choice about
  ASCII armour.  `KeyStore` counts the layers, and `ExportWhole` asks for at
  least one.
* A query shorter than sixteen digits that several keys end with silently finds
  the one with the lowest id; `LookupRight` promises only that what is found
  ends with the query.
* SQLite's `synchronous` and `busy_timeout` belong to a connection, and `Connect`
  sets them on one of the pool (`db.go:85-95`).  The others keep the driver's
  defaults.  The model has no effect of the pragmas on the rows.
* A candidate whose timestamp is the current second gets a binding signature one
  second in the future (`keyring.go:79-81`), listed as a hazard without a property.

## 5. Proofs

TLAPS checks the following for every value of the constants that satisfies the
`ASSUME` of the module (sets of runners are finite and of two disjoint kinds,
spans and batches are positive naturals, and so on).

**VanitySearchProofs.**  `Aligned`, the claim that the reported run and the
returned key belong together, says something about final states only and is far
from inductive.  The invariant `IInv` adds where candidates are:

* `Bounded`: whatever is in the channel, held by the coordinator or about to be
  sent was promoted in this search, so it lies above `InitialBestRun` and not
  above `bestRun`;
* `NeverLost`: if `bestRun` was raised, a candidate of exactly that run is with
  the coordinator, in the channel, or in the hands of a runner at its send (here
  the unconditional send at `search.go:332` is essential: with a `select` on the
  context it fails);
* `Ordered`: a closed channel means that every runner has ended, a result means
  that the channel is closed and drained.

A runner step is one of three kinds, `Quiet`, `Promotes` or `Sends`
(`RunnerKinds`), and each kind preserves the first two parts (`QuietStep`,
`PromoteStep`, `SendStep`); the coordinator's `Receive` is the remaining case.
From `IInv` follow `TypeCorrect`, `AlignedAlways`, `CleanReturnAlways` and
`Implements`, the refinement of `SearchContract`: a promotion is `Improve`, a
receive that replaces `best` is `Retain`, `Finish` is `Return`, all else
stutters.  `Implements` shows in particular that the internal "best candidate
run does not match promoted run" error of `search.go:244` is unreachable.

**CasLoopsProofs.**  `IInv` adds to the two safety properties what a loop knows
between its load and its swap (`Seen`).  `ClaimsDisjointAlways`,
`PromotionsDistinctAlways` and `ImplementsAtomic` hold for any number of callers,
so the atomic steps of `VanitySearch` are justified for any number of runners.

**The budget** (second part of `VanitySearchProofs`).  `Budget` and `BudgetSpent`
need the sum of the attempts in progress over all runners.  A sum over a set is a
recursive definition; instead, `Debts` has one element for each attempt that a
runner was granted and has not counted yet, and the sum is its cardinality.
`BInv` says that what is counted and what is owed was reserved, `completed +
Cardinality(Debts) <= reserved <= MaxAttempts`, with equality while nothing
disturbs the search (no failure, no cancellation, no target reached); where in its
batch a runner is (`InBatch`); that a runner that ended undisturbed found the
budget used up (`Drained`); and that a search that returned below its target was
not disturbed (`Reasons`).  Each runner step is shown to change its own debts by
what it adds to `completed` or `reserved` (`ClaimSettled`, `HashSettled`, ...), and
`BudgetSpentAlways` then needs that there is a runner at all
(`RunnersAssumption`: `search.go` starts at least one worker, or one per device of
a selection that is not empty).

**VanityCommandProofs.**  A checkpoint, in memory or on disk, is `Sound` if its
best key has all its artifacts and the criteria of the checkpoint, and `saved`
implies that the key is in the database.  `IInv` says that both checkpoints are
sound at every control point and adds what the control points know: the one in
memory is ahead of the one on disk (`Running`), the save of the last progress
reached the disk or is remembered as failed (`Searching`), a candidate beats the
best key until it is adopted and has the artifacts written so far (`Found`), and
it is the best key afterwards (`Adopted`).  `ArtifactsFirst`, `SavedFlag`,
`RightCriteria`, `SuccessDurable` and the two action properties follow for any
criteria and any number of invocations, failed writes and kills.

`SearchedImplements` shows that `SearchedCommand` implements `VanityCommand`: the
steps of a search that obeys its contract change nothing the command has, and its
return is `SearchEnds`.  For that the candidate retained must beat the
checkpoint's (`InSearch`).  So everything above carries over to the command with
its searches, and, through `Implements`, to searches made of goroutines.
`BestOnDiskAlways` is about both at once: `AfterIt` follows the longest run
promoted from the return of the search to the checkpoint that names it, and in
particular says that a command which ends early with status 0 had nothing to
lose.

**KeyPipelineProofs.**  `RootCause` needs to know who can have cancelled the
context (`Cause`).  `Complete` needs that nothing is lost while the context is
not cancelled: each stage ends only when the one before it has ended and left its
channel empty (`Flow`), each worker holds one key at most (`Occupied`), a full
batch is flushed at once (`Room`), and the counters count keys (`Counts`).  `NoStraggler`
follows from the order in which channels are closed (`Closing`).

**AsyncLoggerProofs.**  `NoPanic` is not inductive without what the read lock
protects: the readers of a sink are the goroutines inside its `Write` (`Locked`),
and one about to send found the sink open, which it still is (`StillOpen`),
because `closed` is set without readers only; so did one about to close it, since
no other goroutine gets as far, hence none closes a channel twice.  `InOrder` is an invariant of its
own that each hand-over preserves.  `FlushedBeforeClose` needs that a drainer
ends only behind a closed, empty channel (`Ended`) and that one goroutine at most
shuts down, with all sinks that it has passed drained (`Passed`).

**KeyStoreProofs.**  `Table` says that each row is whole (all its columns come
from one version, its suffix is its own or, for a key of the earlier program,
missing) and that ids stay below the next one.  `LookupOf` says what a lookup may
count on between its two statements: keys that were there when it started are
still there, those of its own migration have a suffix, and a lookup that has come
to `Fallback` was not about one of them.  `ExportOf` follows the two files.  No step
disturbs another process's part because no statement removes a row or blanks a
suffix (`Kept`), which also gives `RowsKeptAlways`.

`CorrelationRightAlways` is about the arithmetic of `GetAnalysisStats` over a table
of any size.  A sum over rows is told by what one more row adds to it (`SumAdds`),
and facts about sums are proved by adding one row after the other
(`ElementByElement`, an induction over the subsets of a finite set, from
well-foundedness).  `Lagrange` turns the variance and covariance terms, which the
code computes from five sums, into sums over pairs of rows; then the denominator
is zero exactly where all rows agree, and `Cauchy` bounds the coefficient by -1
and 1.  Scores are any integers, of either sign; what rounding to `float64` adds is
outside the theorem.

**OpenCLRunnerProofs.**  `HandlesReleased`: at each call of the acquisition the
executor holds exactly the handles created by the calls before it (`Held`), and
what a live handle was made from is live (`Founded`); a release keeps that because
all that was made from the handle comes earlier in `CloseOrder` (`ReleasedBefore`).
`AsAnnounced` rests on the lemma `Settled`: resolving a backend that resolution
has settled on, with any other listing, gives the same backend or fails; so the
second enumeration can end a search and cannot redirect it.  For the dispatch,
the invariant `Work` (each work item of the launched set waits or has a digest)
needs that the launched items are as many as the attempts claimed: `LaunchedCount`
is a bijection between the attempts and the pairs of key and timestamp that pass
the guards.  From it follows `ExactWorkAlways` for every grid.  `BestOfWorkAlways`
adds that the word is the highest of the baseline and of the scores published so
far (`Word`), in any order because a maximum commutes (`ItemWords`), that a word
decodes to the run and index it was packed from for every number of index bits
(`Packed`, `WordDecodes`), and that the grid fits those bits (`GridFits`).

For `MatchersAgreeAlways` and `RightDevicesAlways`, loops have to be understood
that the modules write as folds of the community modules, whose definitions end
in a recursive function.  `TurnByTurn` says what one more turn does to a fold;
`FoldingExists` establishes that the recursive function has the values its
definition names, and `LoopStates` gives the states of a loop over a sequence,
one per position.  The loop of a matcher then has an ordinary invariant, proved
along the positions: the length carried is that of the `Stretch` of one digit that
ends here, and the run kept is the best admissible one so far (`BestWithin`).
The digit reported is the one at the place reported (`Placed`).
Kernel and CPU keep the same invariant, hence agree on every key ID of any
length, and this discharges what `BestOfWorkAlways` needs of them.
`RightDevicesAlways` treats the loop of `selectOpenCLDevices` the same way
(`ResolvedDevices`): after any prefix of the selection, the devices kept are those
named by it, once each and in order of first mention.

The module has two assumptions on constants that TLC evaluates.
`PowersAssumption` states of the powers of two what the prover has no theory of
(`2^0 = 1`, `2^(i+1) = 2 * 2^i`, for the exponents that occur).
`SelectionAssumption` says that a selection is a sequence of integers and that an
answer that could list all of its platforms has no device twice.

**ScoreCalculatorProofs.**  A line of any length is seen as the positions where a
digit is linked to the next and those where a run may end and count.  `Tracked`
says, of each of the three kinds of run, that the length kept is the length of
the last run and that the score kept is the best of the runs that ended before.
A digit either lengthens the last run (`Lengthened`), ends and scores it
(`Closed`), or turns it, so that it is dropped (`Dropped`); `Scored` shows that
this is enough if the line ends here.  An earlier form of `RunsScored` was too
strong: it let the first digits of a run that turns count by themselves, and only
the choice of digits in the run hid it.  In 3 2 1 0 F 0 the four digits 3 2 1 0 are
part of a run of five that turns, and the code scores none of it.  `Breaks` now
says what the code does: a run counts when it ends the line or at a digit that
goes neither way.

**Only model-checked:** `Terminates` (search and pipeline), `EventsEndSearch`,
`CallsReturn` and `NobodyHangs`.  They are liveness properties, and fairness and
`ENABLED` are beyond this prover.  Every invariant, action property and
refinement that a passing run checks is also proved.

## 6. What is not modelled, and why

* SHA-1, Ed25519, OpenPGP packets, encryption and armour: libraries and byte
  layout.  Their failures are the faults of the models.
* What a device computes when it is broken: an OpenCL call of `OpenCLRunner`
  succeeds or fails.  A device that returns a wrong word is a faulty runner of
  `VanitySearch`, caught in `Verify`.
* Data races: none was found in the modelled code; shared variables are atomics,
  channel-synchronized or read after the goroutines were waited for.
* Power loss: nothing in the code calls `fsync`, so after a power failure files
  may be torn in any order.  `Crash` is the death of the process only.
* Two gpgenie processes on one checkpoint file.
* Reading and range-checking the configuration: what it guarantees is in the
  `ASSUME`s.  Flag parsing, the progress display, and the wiring of `App` keep
  nothing across steps.
* `GetTopKeys`, `GetLowLetterCountKeys` and the averages of `GetAnalysisStats`
  are one ordered or aggregating `SELECT` each; a model would repeat SQL.
* The rounding of `GetAnalysisStats`: the coefficient is compared and bounded in
  exact arithmetic.
* Locks and transactions inside the database: each statement is one step, which
  is what both databases promise of a single statement.
* The callback runs on the coordinator's goroutine; `VanitySearch` treats it as
  part of `Tick` and `Finish`, `VanityCommand` opens it up (`Report`).

## 7. State of the plan

Every component with state of its own is modelled, and every safety property that
a passing run checks is proved.  What could be added:

1. The refinement of the database steps of `VanityCommand` and `KeyPipeline` by
   the statements of `KeyStore`.  They rely on a set of keys that only grows and
   in which a saved key stays one save; `RowsKept` and `RowWhole` say that of the
   table, but no refinement joins the modules.
2. One specification of the search in which `Dispatch` is replaced by the steps of
   `GPUDispatch`.  At present `BestOfWork` justifies the step by the shape of its
   result only.
3. A clock, for the binding signatures of `keyring.go:79-81`; it would need the
   library's rule for signatures of the future.
