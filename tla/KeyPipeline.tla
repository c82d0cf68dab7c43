------------------------------ MODULE KeyPipeline ------------------------------
(***************************************************************************)
(* GenerateKeys (internal/key/service/key_service.go): a producer, a pool  *)
(* of generators, a pool of scorers and a persisting loop, joined by three *)
(* bounded channels, one cancellable context and a once-only first error.  *)
(*                                                                         *)
(* A key is the place it has reached: `at` maps each of the TotalKeys jobs *)
(* to a channel, to the worker that holds it, to the batch, to the database*)
(* or to where it was dropped.  Channels are unordered, since no property  *)
(* of the code depends on which of two queued keys is taken first.         *)
(***************************************************************************)
EXTENDS Integers, FiniteSets

CONSTANTS
  Keys,                    (* the TotalKeys jobs of the run                  *)
  Generators, Scorers,     (* NumGeneratorWorkers, NumScorerWorkers          *)
  BatchSize,
  BufferMultiplier,        (* pipelineBufferMultiplier, 2 in the code        *)
  Faults                   (* the operations that may fail                   *)

FaultKinds == {"clone", "generate", "score", "serialize", "save"}

ASSUME PipelineAssumption ==
  /\ IsFiniteSet(Keys) /\ IsFiniteSet(Generators) /\ IsFiniteSet(Scorers)
  /\ Generators # {} /\ Scorers # {} /\ Generators \cap Scorers = {}
  /\ {"todo", "jobs", "entities", "scored", "batch", "db", "rejected", "lost"}
       \cap (Generators \cup Scorers) = {}
  /\ BatchSize \in Nat \ {0} /\ BufferMultiplier \in Nat \ {0}
  /\ Faults \subseteq FaultKinds

VARIABLES
  at,                (* where each key is                                    *)
  producer,          (* "loop" or "done"                                     *)
  gen, scorer,       (* control point of each worker                         *)
  main,              (* GenerateKeys itself: spawn, persist, wait, returned  *)
  jobsClosed, entitiesClosed, scoredClosed,
  cancelled, parentCancelled,
  firstErr,          (* "none", "ctx" or the kind of the first failure       *)
  generated, accepted, saved,
  outcome            (* "running" until GenerateKeys returns                 *)

flags    == <<jobsClosed, entitiesClosed, scoredClosed>>
errors   == <<cancelled, firstErr>>
counters == <<generated, accepted, saved>>
vars     == <<at, producer, gen, scorer, main, flags, errors, parentCancelled,
              counters, outcome>>

In(place) == {k \in Keys : at[k] = place}

Move(k, place) == at' = [at EXCEPT ![k] = place]

MoveAll(S, place) == at' = [k \in Keys |-> IF k \in S THEN place ELSE at[k]]

(* A job is an empty struct: which key will come of it is of no account. *)
Job(place) == CHOOSE k \in In(place) : TRUE

JobsCap     == Cardinality(Generators) * BufferMultiplier
EntitiesCap == (Cardinality(Generators) + Cardinality(Scorers)) * BufferMultiplier
ScoredCap   == Cardinality(Scorers) * BufferMultiplier

(* Mutants: the last error wins; an error does not cancel the pipeline. *)
FailLast(err) == firstErr' = err /\ cancelled' = TRUE

FailQuietly(err) ==
  /\ firstErr' = IF firstErr = "none" THEN err ELSE firstErr
  /\ UNCHANGED cancelled

(* fail: only the first error counts, and it cancels the context. *)
Fail(err) ==
  IF firstErr = "none" THEN firstErr' = err /\ cancelled' = TRUE
                       ELSE UNCHANGED errors

-------------------------------------------------------------------------------
(* The producer. *)

Produce ==
  /\ producer = "loop"
  /\ In("todo") # {} /\ Cardinality(In("jobs")) < JobsCap
  /\ Move(Job("todo"), "jobs")
  /\ UNCHANGED <<producer, gen, scorer, main, flags, errors, parentCancelled,
                 counters, outcome>>

(* All jobs are queued, or the context is done; defer close(generationJobs). *)
ProducerEnd ==
  /\ producer = "loop"
  /\ In("todo") = {} \/ cancelled
  /\ producer' = "done" /\ jobsClosed' = TRUE
  /\ UNCHANGED <<at, gen, scorer, main, entitiesClosed, scoredClosed, errors,
                 parentCancelled, counters, outcome>>

-------------------------------------------------------------------------------
(* generatorWorker *)

GenStays == UNCHANGED <<producer, scorer, main, flags, parentCancelled, accepted,
                        saved, outcome>>

TakeJob(g) ==
  /\ gen[g] = "take" /\ In("jobs") # {}
  /\ Move(Job("jobs"), g)
  /\ gen' = [gen EXCEPT ![g] = "make"]
  /\ UNCHANGED <<errors, generated>> /\ GenStays

GeneratorEnd(g) ==
  /\ gen[g] = "take"
  /\ cancelled \/ (jobsClosed /\ In("jobs") = {})
  /\ gen' = [gen EXCEPT ![g] = "done"]
  /\ UNCHANGED <<at, errors, generated>> /\ GenStays

(* domain.GenerateKeyPair *)
Make(g) ==
  /\ gen[g] = "make"
  /\ \/ gen' = [gen EXCEPT ![g] = "emit"] /\ UNCHANGED <<at, errors>>
     \/ /\ "generate" \in Faults
        /\ Fail("generate") /\ MoveAll(In(g), "lost")
        /\ gen' = [gen EXCEPT ![g] = "done"]
  /\ UNCHANGED generated /\ GenStays

EmitEntity(g) ==
  /\ gen[g] = "emit"
  /\ Cardinality(In("entities")) < EntitiesCap
  /\ MoveAll(In(g), "entities")
  /\ generated' = generated + 1
  /\ gen' = [gen EXCEPT ![g] = "take"]
  /\ UNCHANGED errors /\ GenStays

AbandonEntity(g) ==
  /\ gen[g] = "emit" /\ cancelled
  /\ MoveAll(In(g), "lost")
  /\ gen' = [gen EXCEPT ![g] = "done"]
  /\ UNCHANGED <<errors, generated>> /\ GenStays

(* generatorWG.Wait(); close(generatedEntities) *)
CloseEntities ==
  /\ ~entitiesClosed /\ \A g \in Generators : gen[g] = "done"
  /\ entitiesClosed' = TRUE
  /\ UNCHANGED <<at, producer, gen, scorer, main, jobsClosed, scoredClosed,
                 errors, parentCancelled, counters, outcome>>

-------------------------------------------------------------------------------
(* Spawning the scorers, one cloned encryptor each, and scorerWorker. *)

Spawn(s) ==
  /\ main = "spawn" /\ scorer[s] = "new"
  /\ \/ scorer' = [scorer EXCEPT ![s] = "take"] /\ UNCHANGED <<main, errors>>
     \/ "clone" \in Faults /\ Fail("clone") /\ main' = "persist" /\ UNCHANGED scorer
  /\ UNCHANGED <<at, producer, gen, flags, parentCancelled, counters, outcome>>

SpawnEnd ==
  /\ main = "spawn" /\ \A s \in Scorers : scorer[s] # "new"
  /\ main' = "persist"
  /\ UNCHANGED <<at, producer, gen, scorer, flags, errors, parentCancelled,
                 counters, outcome>>

ScorerStays == UNCHANGED <<producer, gen, main, flags, parentCancelled,
                           generated, saved, outcome>>

TakeEntity(s) ==
  /\ scorer[s] = "take"
  /\ \E k \in In("entities") : Move(k, s)
  /\ scorer' = [scorer EXCEPT ![s] = "score"]
  /\ UNCHANGED <<errors, accepted>> /\ ScorerStays

ScorerEnd(s) ==
  /\ scorer[s] = "take"
  /\ cancelled \/ (entitiesClosed /\ In("entities") = {})
  /\ scorer' = [scorer EXCEPT ![s] = "done"]
  /\ UNCHANGED <<at, errors, accepted>> /\ ScorerStays

(* Score the key; drop it below the thresholds, else serialize it. *)
Score(s) ==
  /\ scorer[s] = "score"
  /\ \/ /\ MoveAll(In(s), "rejected")
        /\ scorer' = [scorer EXCEPT ![s] = "take"] /\ UNCHANGED errors
     \/ scorer' = [scorer EXCEPT ![s] = "emit"] /\ UNCHANGED <<at, errors>>
     \/ \E err \in Faults \cap {"score", "serialize"} :
          /\ Fail(err) /\ MoveAll(In(s), "lost")
          /\ scorer' = [scorer EXCEPT ![s] = "done"]
  /\ UNCHANGED accepted /\ ScorerStays

EmitKeyInfo(s) ==
  /\ scorer[s] = "emit"
  /\ Cardinality(In("scored")) < ScoredCap
  /\ MoveAll(In(s), "scored")
  /\ accepted' = accepted + 1
  /\ scorer' = [scorer EXCEPT ![s] = "take"]
  /\ UNCHANGED errors /\ ScorerStays

AbandonKeyInfo(s) ==
  /\ scorer[s] = "emit" /\ cancelled
  /\ MoveAll(In(s), "lost")
  /\ scorer' = [scorer EXCEPT ![s] = "done"]
  /\ UNCHANGED <<errors, accepted>> /\ ScorerStays

ScorersDone == main # "spawn" /\ \A s \in Scorers : scorer[s] \in {"new", "done"}

(* scorerWG.Wait(); close(scoredKeyInfos) *)
CloseScored ==
  /\ ~scoredClosed /\ ScorersDone
  /\ scoredClosed' = TRUE
  /\ UNCHANGED <<at, producer, gen, scorer, main, jobsClosed, entitiesClosed,
                 errors, parentCancelled, counters, outcome>>

-------------------------------------------------------------------------------
(* persistBatches, and the end of GenerateKeys. *)

PersistStays == UNCHANGED <<producer, gen, scorer, flags, parentCancelled,
                            generated, accepted, outcome>>

(* repo.BatchCreate runs in one transaction: all of the batch or nothing. *)
Saves(batch) ==
  /\ MoveAll(batch, "db") /\ saved' = saved + Cardinality(batch)
  /\ UNCHANGED errors

SaveFails(batch) ==
  /\ "save" \in Faults /\ batch # {}
  /\ Fail("save") /\ MoveAll(batch, "lost") /\ UNCHANGED saved

(* Mutant: a full batch is flushed one key too late. *)
ReceiveKeyInfoLate ==
  /\ main = "persist"
  /\ \E k \in In("scored") :
       LET batch == In("batch") \cup {k} IN
         \/ /\ Cardinality(batch) <= BatchSize
            /\ Move(k, "batch") /\ UNCHANGED <<main, saved, errors>>
         \/ Cardinality(batch) > BatchSize /\ Saves(batch) /\ UNCHANGED main
         \/ Cardinality(batch) > BatchSize /\ SaveFails(batch) /\ main' = "wait"
  /\ PersistStays

(* A key joins the batch, and a full batch is flushed. *)
ReceiveKeyInfo ==
  /\ main = "persist"
  /\ \E k \in In("scored") :
       LET batch == In("batch") \cup {k} IN
         \/ /\ Cardinality(batch) < BatchSize
            /\ Move(k, "batch") /\ UNCHANGED <<main, saved, errors>>
         \/ Cardinality(batch) >= BatchSize /\ Saves(batch) /\ UNCHANGED main
         \/ Cardinality(batch) >= BatchSize /\ SaveFails(batch) /\ main' = "wait"
  /\ PersistStays

(* Mutant: the last, incomplete batch is forgotten. *)
PersistEndNoFlush ==
  /\ main = "persist" /\ scoredClosed /\ In("scored") = {}
  /\ main' = "wait"
  /\ UNCHANGED <<at, saved, errors>> /\ PersistStays

(* The channel is closed and drained: the last, incomplete batch. *)
PersistEnd ==
  /\ main = "persist" /\ scoredClosed /\ In("scored") = {}
  /\ Saves(In("batch")) \/ SaveFails(In("batch"))
  /\ main' = "wait" /\ PersistStays

(* ctx.Done wins the select: the batch in memory is dropped. *)
PersistCancelled ==
  /\ main = "persist" /\ cancelled
  /\ Fail("ctx") /\ MoveAll(In("batch"), "lost")
  /\ main' = "wait" /\ UNCHANGED saved /\ PersistStays

Result ==
  IF firstErr # "none" THEN firstErr ELSE IF parentCancelled THEN "ctx" ELSE "ok"

(* Mutant: the scorers are not waited for. *)
ReturnEarly ==
  /\ main = "wait"
  /\ producer = "done" /\ \A g \in Generators : gen[g] = "done"
  /\ outcome' = Result /\ main' = "returned"
  /\ UNCHANGED <<at, producer, gen, scorer, flags, errors, parentCancelled,
                 counters>>

Return ==
  /\ main = "wait"
  /\ producer = "done" /\ \A g \in Generators : gen[g] = "done"
  /\ ScorersDone
  /\ outcome' = Result /\ main' = "returned"
  /\ UNCHANGED <<at, producer, gen, scorer, flags, errors, parentCancelled,
                 counters>>

(* The caller's context ends. *)
ParentCancel ==
  /\ outcome = "running" /\ ~parentCancelled
  /\ parentCancelled' = TRUE /\ cancelled' = TRUE
  /\ UNCHANGED <<at, producer, gen, scorer, main, flags, firstErr, counters,
                 outcome>>

-------------------------------------------------------------------------------
Init ==
  /\ at = [k \in Keys |-> "todo"]
  /\ producer = "loop" /\ main = "spawn"
  /\ gen = [g \in Generators |-> "take"]
  /\ scorer = [s \in Scorers |-> "new"]
  /\ jobsClosed = FALSE /\ entitiesClosed = FALSE /\ scoredClosed = FALSE
  /\ cancelled = FALSE /\ parentCancelled = FALSE /\ firstErr = "none"
  /\ generated = 0 /\ accepted = 0 /\ saved = 0
  /\ outcome = "running"

Producer == Produce \/ ProducerEnd

Generator(g) ==
  TakeJob(g) \/ GeneratorEnd(g) \/ Make(g) \/ EmitEntity(g) \/ AbandonEntity(g)

Scorer(s) ==
  TakeEntity(s) \/ ScorerEnd(s) \/ Score(s) \/ EmitKeyInfo(s) \/ AbandonKeyInfo(s)

Main ==
  \/ \E s \in Scorers : Spawn(s)
  \/ SpawnEnd \/ ReceiveKeyInfo \/ PersistEnd \/ PersistCancelled \/ Return

Returned == main = "returned" /\ UNCHANGED vars

Next ==
  \/ Producer \/ CloseEntities \/ CloseScored \/ Main \/ ParentCancel
  \/ \E g \in Generators : Generator(g)
  \/ \E s \in Scorers : Scorer(s)
  \/ Returned

Spec == Init /\ [][Next]_vars

(* Goroutines are scheduled preemptively. *)
FairSpec ==
  /\ Spec /\ WF_vars(Producer) /\ WF_vars(CloseEntities) /\ WF_vars(CloseScored)
  /\ WF_vars(Main)
  /\ \A g \in Generators : WF_vars(Generator(g))
  /\ \A s \in Scorers : WF_vars(Scorer(s))

-------------------------------------------------------------------------------
(* Properties. *)

(* Types; a key is in one place, and the batch in memory is never full.    *)
TypeOK ==
  /\ at \in [Keys -> {"todo", "jobs", "entities", "scored", "batch", "db",
                      "rejected", "lost"} \cup Generators \cup Scorers]
  /\ producer \in {"loop", "done"}
  /\ gen \in [Generators -> {"take", "make", "emit", "done"}]
  /\ scorer \in [Scorers -> {"new", "take", "score", "emit", "done"}]
  /\ main \in {"spawn", "persist", "wait", "returned"}
  /\ jobsClosed \in BOOLEAN /\ entitiesClosed \in BOOLEAN /\ scoredClosed \in BOOLEAN
  /\ cancelled \in BOOLEAN /\ parentCancelled \in BOOLEAN
  /\ firstErr \in {"none", "ctx"} \cup FaultKinds
  /\ generated \in Nat /\ accepted \in Nat /\ saved \in Nat
  /\ outcome \in {"running", "ok", "ctx"} \cup FaultKinds
  /\ Cardinality(In("batch")) < BatchSize

(* GenerateKeys returns nil only when every requested key was generated and
   scored and every key the thresholds accepted is in the database; the counts
   it logs then are those of the keys.                                     *)
Complete ==
  outcome = "ok" =>
    /\ \A k \in Keys : at[k] \in {"db", "rejected"}
    /\ generated = Cardinality(Keys)
    /\ accepted = Cardinality(In("db")) /\ saved = accepted

(* The error returned is the cause: "context canceled" only if the caller
   cancelled, although a failing worker makes every other goroutine see a
   cancelled context as well.                                              *)
RootCause == outcome = "ctx" => parentCancelled

(* GenerateKeys leaves no worker running, and none sends on a closed channel. *)
NoStraggler ==
  /\ outcome # "running" =>
       /\ \A g \in Generators : gen[g] = "done"
       /\ \A s \in Scorers : scorer[s] \in {"new", "done"}
  /\ entitiesClosed => \A g \in Generators : gen[g] # "emit"
  /\ scoredClosed => \A s \in Scorers : scorer[s] # "emit"

(* It always returns, whoever fails first and whichever channels are full. *)
Terminates == <>(outcome # "running")
===============================================================================
